------------------------------ MODULE Framing ------------------------------
(***************************************************************************)
(* One connection, byte by byte: sendData and getReply in the client       *)
(* (client/J2534_Client.cpp), and the loops of on_client_connect in the    *)
(* server (server/J2534_TCPServer.cpp), which are the same but for one     *)
(* thing.  A packet is its length, as LenBytes bytes of which the first is *)
(* the lowest digit, and a body; send and recv take any number of bytes.   *)
(* An end that fails or gives up closes, and that is the end of the        *)
(* connection (Proxy has what follows).                                    *)
(*                                                                         *)
(* Five faults break the framing of a connection that stays open: a        *)
(* command's length that arrives in pieces ("split"), no memory for a      *)
(* command ("cmdNull") or for a reply ("replyNull"), a command that is not *)
(* answered ("noReply"), and one that is shorter than it says ("short").   *)
(***************************************************************************)
EXTENDS Integers, Sequences

CONSTANTS Base, LenBytes,  \* 256 and 4 in the code
          Commands,        \* the bodies of the commands the client sends
          Replies,         \* the bodies of the replies to them
          MaxCalls,        \* bound on the calls made over the connection
          Faults           \* which of the faults below may happen

\* What one in the digit after the first i counts for.
Weight[i \in 0 .. LenBytes] == IF i = 0 THEN 1 ELSE Base * Weight[i - 1]

\* How many values a length can have: unsigned arithmetic is modulo Span.
Span == Weight[LenBytes]

ASSUME FramingAssumption ==
    /\ Base \in Nat \ {0, 1} /\ LenBytes \in Nat \ {0} /\ MaxCalls \in Nat
    /\ Commands \subseteq Seq(0 .. (Base - 1)) \ {<<>>}
    /\ Replies \subseteq Seq(0 .. (Base - 1)) \ {<<>>}
    /\ \A b \in Commands \cup Replies : LenBytes + Len(b) < Span
    /\ Faults \subseteq {"split", "cmdNull", "replyNull", "noReply", "short"}

Bytes == 0 .. (Base - 1)
Unset == Base       \* no byte: what malloc leaves where nothing was received
Ends  == {"client", "server"}

VARIABLES net,       \* net[e]: the bytes on their way to end e
          phase,     \* phase[e]: what end e is doing
          out,       \* out[e]: what e has not sent yet of its packet
          len,       \* len[e]: the bytes of the length e receives
          got,       \* got[e]: how many bytes e has received of it
          body,      \* body[e]: what e has received of the body
          asked,     \* the commands the client has begun to send
          executed,  \* the commands the server has executed
          answers,   \* what the library has answered to them
          returned,  \* what getReply has returned, <<>> for NULL
          broken,    \* what it returned when its receive failed, the same way
          faults     \* the faults that have happened

recvVars == <<len, got, body>>
history  == <<asked, executed, answers, returned, broken>>
vars     == <<net, phase, out, recvVars, history, faults>>

Zero == [i \in 1 .. LenBytes |-> 0]

Init ==
    /\ net = [e \in Ends |-> <<>>]
    /\ phase = [e \in Ends |-> IF e = "client" THEN "idle" ELSE "len"]
    /\ out = [e \in Ends |-> <<>>]
    /\ len = [e \in Ends |-> Zero]
    /\ got = [e \in Ends |-> 0]
    /\ body = [e \in Ends |-> <<>>]
    /\ asked = <<>> /\ executed = <<>> /\ answers = <<>> /\ returned = <<>>
    /\ broken = {} /\ faults = {}

-----------------------------------------------------------------------------

Peer(e) == IF e = "client" THEN "server" ELSE "client"

First(s, n) == SubSeq(s, 1, n)
Rest(s, n)  == SubSeq(s, n + 1, Len(s))

\* The value of the bytes of a length, and the bytes of a value.
Value(b) ==
    LET v[n \in 0 .. LenBytes] == IF n = 0 THEN 0
                                  ELSE v[n - 1] + b[n] * Weight[n - 1]
    IN v[LenBytes]

Encode(n) ==
    LET q[i \in 0 .. LenBytes] == IF i = 0 THEN n ELSE q[i - 1] \div Base
    IN [i \in 1 .. LenBytes |-> q[i - 1] % Base]

Frame(b) == Encode(LenBytes + Len(b)) \o b

\* Mutants of BodyLen: the length itself is not taken off, or too much is, or
\* the difference is signed.
BodyLenWhole(n)  == n
BodyLenShort(n)  == (n + Span - LenBytes - 1) % Span
BodyLenSigned(n) == n - LenBytes

\* How much follows a length of n: unsigned, so a length below LenBytes
\* leaves nearly all the values there are.
BodyLen(n) == (n + Span - LenBytes) % Span

\* What end e still expects of the body it is receiving.
Missing(e) == BodyLen(Value(len[e])) - Len(body[e])

-----------------------------------------------------------------------------

\* A call sends its command, or, for FAST_INIT without an input, less of it
\* than the length says: the fault "short".
MakeCall ==
    /\ phase["client"] = "idle" /\ Len(asked) < MaxCalls
    /\ \E c \in Commands :
         /\ asked' = Append(asked, c)
         /\ \/ /\ out' = [out EXCEPT !["client"] = Frame(c)]
               /\ UNCHANGED faults
            \/ /\ "short" \in Faults /\ faults' = faults \cup {"short"}
               /\ \E n \in (LenBytes + 1) .. (LenBytes + Len(c) - 1) :
                    out' = [out EXCEPT !["client"] = First(Frame(c), n)]
    /\ phase' = [phase EXCEPT !["client"] = "send"]
    /\ UNCHANGED <<net, recvVars, executed, answers, returned, broken>>

\* One send() takes n bytes; after the last, end e waits for a packet.  What
\* a call sends with several sendData is one stream of bytes all the same.
SendData(e) ==
    /\ phase[e] = "send"
    /\ \E n \in 1 .. Len(out[e]) :
         /\ net' = [net EXCEPT ![Peer(e)] =
                      IF phase[Peer(e)] = "closed" THEN @ ELSE @ \o First(out[e], n)]
         /\ out' = [out EXCEPT ![e] = Rest(@, n)]
         /\ phase' = [phase EXCEPT ![e] = IF n = Len(out[e]) THEN "len" ELSE @]
    /\ len' = [len EXCEPT ![e] = Zero]
    /\ got' = [got EXCEPT ![e] = 0]
    /\ body' = [body EXCEPT ![e] = <<>>]
    /\ UNCHANGED <<history, faults>>

\* The length after n bytes more: the client receives to where it was, the
\* server to the start.
Placed(e, n) ==
    LET i0 == IF e = "client" THEN got[e] ELSE 0
    IN [i \in 1 .. LenBytes |-> IF i \in (i0 + 1) .. (i0 + n) THEN net[e][i - i0]
                                                            ELSE len[e][i]]

\* One recv() of the loop over the length.  That a command's length is not
\* there as a whole is the fault "split".
RecvLen(e) ==
    /\ phase[e] = "len"
    /\ \E n \in 1 .. (LenBytes - got[e]) :
         /\ n <= Len(net[e])
         /\ len' = [len EXCEPT ![e] = Placed(e, n)]
         /\ net' = [net EXCEPT ![e] = Rest(@, n)]
         /\ got' = [got EXCEPT ![e] = @ + n]
    /\ IF e = "server" /\ got'[e] < LenBytes
         THEN "split" \in Faults /\ faults' = faults \cup {"split"}
         ELSE UNCHANGED faults
    /\ phase' = [phase EXCEPT ![e] = IF got'[e] = LenBytes THEN "body" ELSE @]
    /\ UNCHANGED <<out, body, history>>

\* malloc returns NULL for the packet: getReply returns NULL, the handler
\* goes on to the next command.  Neither reads the body.
AllocFails(e) ==
    LET fault == IF e = "client" THEN "replyNull" ELSE "cmdNull" IN
    /\ phase[e] = "body" /\ body[e] = <<>> /\ fault \in Faults
    /\ faults' = faults \cup {fault}
    /\ phase' = [phase EXCEPT ![e] = IF e = "client" THEN "idle" ELSE "len"]
    /\ returned' = IF e = "client" THEN Append(returned, <<>>) ELSE returned
    /\ len' = [len EXCEPT ![e] = Zero]
    /\ got' = [got EXCEPT ![e] = 0]
    /\ UNCHANGED <<net, out, body, asked, executed, answers, broken>>

\* One recv() of the loop over the body.
RecvBody(e) ==
    /\ phase[e] = "body"
    /\ \E n \in 1 .. Missing(e) :
         /\ n <= Len(net[e])
         /\ body' = [body EXCEPT ![e] = @ \o First(net[e], n)]
         /\ net' = [net EXCEPT ![e] = Rest(@, n)]
    /\ UNCHANGED <<phase, out, len, got, history, faults>>

ReturnReply ==
    /\ phase["client"] = "body" /\ Missing("client") = 0
    /\ returned' = Append(returned, body["client"])
    /\ phase' = [phase EXCEPT !["client"] = "idle"]
    /\ UNCHANGED <<net, out, recvVars, asked, executed, answers, broken, faults>>

\* End e closes: what it has not sent and not received is lost.
Close(e) ==
    /\ phase' = [phase EXCEPT ![e] = "closed"]
    /\ out' = [out EXCEPT ![e] = <<>>]
    /\ net' = [net EXCEPT ![e] = <<>>]

\* The send of a command or the receive of its reply fails.  getReply returns
\* NULL, or the packet as far as it has come.
GetReplyFails ==
    LET torn == body["client"] \o [i \in 1 .. Missing("client") |-> Unset] IN
    /\ \/ phase["client"] \in {"send", "len"} /\ broken' = {<<>>}
       \/ phase["client"] = "body" /\ Missing("client") > 0 /\ broken' = {torn}
    /\ Close("client")
    /\ UNCHANGED <<recvVars, asked, executed, answers, returned, faults>>

ProcessCommand ==
    /\ phase["server"] = "body" /\ Missing("server") = 0
    /\ executed' = Append(executed, body["server"])
    /\ \E r \in Replies :
         /\ answers' = Append(answers, r)
         /\ out' = [out EXCEPT !["server"] = Frame(r)]
    /\ phase' = [phase EXCEPT !["server"] = "send"]
    /\ UNCHANGED <<net, recvVars, asked, returned, broken, faults>>

\* processCommand returns NULL, for a command that it does not know or an
\* ioctl that is none: the handler goes on to the next command.
ProcessCommandNull ==
    /\ phase["server"] = "body" /\ Missing("server") = 0 /\ "noReply" \in Faults
    /\ faults' = faults \cup {"noReply"}
    /\ executed' = Append(executed, body["server"])
    /\ phase' = [phase EXCEPT !["server"] = "len"]
    /\ len' = [len EXCEPT !["server"] = Zero]
    /\ got' = [got EXCEPT !["server"] = 0]
    /\ body' = [body EXCEPT !["server"] = <<>>]
    /\ UNCHANGED <<net, out, asked, answers, returned, broken>>

\* A receive or a send of the server fails, the client calls PassThruClose, or
\* the process of either ends.
Disconnect(e) ==
    /\ phase[e] # "closed"
    /\ Close(e)
    /\ UNCHANGED <<recvVars, history, faults>>

Next ==
    \/ MakeCall
    \/ ReturnReply
    \/ GetReplyFails
    \/ ProcessCommand
    \/ ProcessCommandNull
    \/ \E e \in Ends : \/ SendData(e)
                       \/ RecvLen(e)
                       \/ AllocFails(e)
                       \/ RecvBody(e)
                       \/ Disconnect(e)

Spec == Init /\ [][Next]_vars

-----------------------------------------------------------------------------
(* Properties *)

\* Every variable has its type, and nobody expects less than nothing.
TypeOK ==
    /\ net \in [Ends -> Seq(Bytes)] /\ out \in [Ends -> Seq(Bytes)]
    /\ phase \in [Ends -> {"idle", "send", "len", "body", "closed"}]
    /\ len \in [Ends -> [1 .. LenBytes -> Bytes]]
    /\ got \in [Ends -> 0 .. LenBytes]
    /\ body \in [Ends -> Seq(Bytes)]
    /\ asked \in Seq(Commands) /\ answers \in Seq(Replies)
    /\ executed \in Seq(Seq(Bytes)) /\ returned \in Seq(Seq(Bytes))
    /\ broken \subseteq Seq(Bytes \cup {Unset}) /\ faults \subseteq Faults
    /\ \A e \in Ends : phase[e] = "body" => Missing(e) >= 0

\* s is what t begins with.
Begins(s, t) == Len(s) <= Len(t) /\ \A n \in 1 .. Len(s) : s[n] = t[n]

\* What the server executes is what the client has asked, however the bytes
\* were split on the way and wherever the connection broke: a command of
\* which a part was sent is not executed.  Only a split length, a command left
\* unread for want of memory, or a short command with others after it can
\* change that; and there is none after a short one, to which no reply comes,
\* unless the client has left a reply unread before.
CommandsIntact ==
    /\ faults \cap {"split", "cmdNull"} = {}
    /\ ~ {"short", "replyNull"} \subseteq faults
    => Begins(executed, asked)

\* A torn packet is NULL, or the next answer where it is not unset.
TornFrom(p) ==
    \/ p = <<>>
    \/ /\ Len(returned) < Len(answers)
       /\ LET a == answers[Len(returned) + 1] IN
            Len(p) = Len(a) /\ \A i \in 1 .. Len(a) : p[i] \in {a[i], Unset}

\* What getReply returns as long as it receives is what the library has
\* answered, in order, whatever the server has made of the commands; and what
\* it returns when its receive fails is a part of the next answer, as long as
\* that answer and in its place, with the rest unset.  Only a reply left unread
\* for want of memory can change that.
RepliesIntact ==
    "replyNull" \notin faults =>
        Begins(returned, answers) /\ \A p \in broken : TornFrom(p)

\* The two ends never wait for each other with nothing on its way, as long as
\* none of the five faults has happened: after each of them they may, until
\* the receive of one times out.
NoStall ==
    faults = {} =>
        \E e \in Ends : \/ phase[e] \notin {"len", "body"}
                        \/ phase[e] = "body" /\ Missing(e) = 0
                        \/ net[e] # <<>>

-----------------------------------------------------------------------------
(* What the documentation leads one to expect, and the code does not do. *)

\* "The server will take a serialized command from the client, execute it"
\* (README.md): it executes what the client has sent.
SentIsExecuted == Begins(executed, asked)

=============================================================================
