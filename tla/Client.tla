------------------------------- MODULE Client -------------------------------
(***************************************************************************)
(* The client library (client/J2534_Client.cpp) in every process that has  *)
(* loaded it: the socket it keeps in a static variable and the PassThru    *)
(* calls, each of which connects when it must, sends its command and waits *)
(* for the reply.  A process makes one call at a time.  The sixteen calls  *)
(* come in five kinds, by how they treat the socket:                       *)
(*   OPEN      connects if there is no connection                          *)
(*   RESET     connects if sock < 0, which an unsigned SOCKET never is     *)
(*   CLOSE     disconnects when the reply reports success                  *)
(*   STREAMED  sends its command with several sendData calls               *)
(*   PLAIN     does none of these                                          *)
(***************************************************************************)
EXTENDS Tcp

CONSTANTS Clients,          \* the processes that have loaded the library
          Devices,          \* the device identifiers the J2534 library uses
          NoSock, NoCall, NoDev, NoRequest,
          ClientOnWindows,  \* whether the library is the Windows build
          AllocMayFail,     \* whether malloc may, of what is to be sent
          RecvAllocMayFail, \* and of the packet that is being received
          MayCrash          \* whether an application may die at any time

ASSUME ClientAssumption ==
    /\ NoSock \notin Conns /\ NoCall \notin Calls /\ NoDev \notin Devices
    /\ Clients # {} /\ Devices # {}
    /\ ClientOnWindows \in BOOLEAN /\ AllocMayFail \in BOOLEAN
    /\ RecvAllocMayFail \in BOOLEAN /\ MayCrash \in BOOLEAN

Kinds   == {"OPEN", "RESET", "CLOSE", "STREAMED", "PLAIN"}
Status  == {"STATUS_NOERROR", "ERR_FAILED"}
Request == [client : Clients, kind : Kinds, dev : Devices \cup {NoDev}]
Reply   == [status : Status, dev : Devices \cup {NoDev}]

ASSUME RequestAssumption == NoRequest \notin Request

VARIABLES sock,      \* sock[c]: the static socket of process c
          pc,        \* pc[c]: where process c is in its call
          cur,       \* cur[c]: the call process c is in
          held,      \* held[c]: devices c opened and has not tried to close
          req,       \* req[i]: what call i asks, once it is made
          outcome,   \* outcome[i]: what call i returned
          astray     \* astray[e]: connections of which end e has left a body
                     \* unread, and takes what comes next for a length

clientVars == <<sock, pc, cur, held, req, outcome>>

ClientInit ==
    /\ sock = [c \in Clients |-> NoSock]
    /\ pc = [c \in Clients |-> "idle"]
    /\ cur = [c \in Clients |-> NoCall]
    /\ held = [c \in Clients |-> {}]
    /\ req = [i \in Calls |-> NoRequest]
    /\ outcome = [i \in Calls |-> "none"]
    /\ astray = [e \in Ends |-> {}]

ClientTypeOK ==
    /\ sock \in [Clients -> Conns \cup {NoSock}]
    /\ pc \in [Clients -> {"idle", "connect", "send", "more", "len", "body",
                           "bye", "killed"}]
    /\ cur \in [Clients -> Calls \cup {NoCall}]
    /\ held \in [Clients -> SUBSET Devices]
    /\ req \in [Calls -> Request \cup {NoRequest}]
    /\ outcome \in [Calls -> Status \cup {"none", "lost"}]

AstrayTypeOK == astray \in [Ends -> SUBSET Conns]

-----------------------------------------------------------------------------

\* The calls are numbered in the order in which they are made.
Issue(c, i, kind, d) ==
    /\ pc[c] = "idle"
    /\ req[i] = NoRequest
    /\ \A j \in 1 .. (i - 1) : req[j] # NoRequest
    /\ req' = [req EXCEPT ![i] = [client |-> c, kind |-> kind, dev |-> d]]
    /\ cur' = [cur EXCEPT ![c] = i]

PassThruOpen(c, i) ==
    /\ Issue(c, i, "OPEN", NoDev)
    /\ pc' = [pc EXCEPT ![c] = IF sock[c] = NoSock THEN "connect" ELSE "send"]
    /\ UNCHANGED <<sock, held, outcome, tcpVars>>

PassThruReset(c, i) ==
    /\ Issue(c, i, "RESET", NoDev)
    /\ pc' = [pc EXCEPT ![c] = IF sock[c] = NoSock /\ ~ClientOnWindows
                               THEN "connect" ELSE "send"]
    /\ UNCHANGED <<sock, held, outcome, tcpVars>>

PassThruClose(c, i, d) ==
    /\ d \in held[c]
    /\ Issue(c, i, "CLOSE", d)
    /\ pc' = [pc EXCEPT ![c] = "send"]
    /\ held' = [held EXCEPT ![c] = @ \ {d}]
    /\ UNCHANGED <<sock, outcome, tcpVars>>

\* The calls that send their command with one sendData (sendAndReply), and
\* those that send the messages or the input with a sendData of their own.
PassThruPlain(c, i) ==
    /\ Issue(c, i, "PLAIN", NoDev)
    /\ pc' = [pc EXCEPT ![c] = "send"]
    /\ UNCHANGED <<sock, held, outcome, tcpVars>>

PassThruStreamed(c, i) ==
    /\ Issue(c, i, "STREAMED", NoDev)
    /\ pc' = [pc EXCEPT ![c] = "send"]
    /\ UNCHANGED <<sock, held, outcome, tcpVars>>

\* pCmd is NULL: the call fails before it has done anything.
AllocFails(c, i) ==
    /\ AllocMayFail
    /\ pc[c] = "idle"
    /\ req[i] = NoRequest
    /\ \A j \in 1 .. (i - 1) : req[j] # NoRequest
    /\ req' = [req EXCEPT ![i] = [client |-> c, kind |-> "PLAIN", dev |-> NoDev]]
    /\ outcome' = [outcome EXCEPT ![i] = "ERR_FAILED"]
    /\ UNCHANGED <<sock, pc, cur, held, tcpVars>>

-----------------------------------------------------------------------------

DisconnectServer(c) ==
    /\ sock' = [sock EXCEPT ![c] = NoSock]
    /\ IF sock[c] = NoSock THEN UNCHANGED tcpVars ELSE Close(sock[c], "client")

ConnectToServer(c) ==
    /\ pc[c] = "connect"
    /\ \E k \in Conns : Establish(k) /\ sock' = [sock EXCEPT ![c] = k]
    /\ pc' = [pc EXCEPT ![c] = "send"]
    /\ UNCHANGED <<cur, held, req, outcome>>

\* Mutant of Return: the device is taken from the reply whatever the status.
ReturnAnyDevice(c, status, d) ==
    LET i == cur[c] IN
    /\ pc' = [pc EXCEPT ![c] = "idle"]
    /\ cur' = [cur EXCEPT ![c] = NoCall]
    /\ outcome' = [outcome EXCEPT ![i] = status]
    /\ held' = IF req[i].kind = "OPEN" THEN [held EXCEPT ![c] = @ \cup {d}] ELSE held
    /\ UNCHANGED req

\* The call of c returns: what the application makes of it.
Return(c, status, d) ==
    LET i == cur[c] IN
    /\ pc' = [pc EXCEPT ![c] = "idle"]
    /\ cur' = [cur EXCEPT ![c] = NoCall]
    /\ outcome' = [outcome EXCEPT ![i] = status]
    /\ held' = IF status = "STATUS_NOERROR" /\ req[i].kind = "OPEN" /\ d # NoDev
               THEN [held EXCEPT ![c] = @ \cup {d}] ELSE held
    /\ UNCHANGED req

\* connect() refused, unreachable, or given up because the queue is full.
ConnectFails(c) ==
    /\ pc[c] = "connect"
    /\ Return(c, "ERR_FAILED", NoDev)
    /\ UNCHANGED <<sock, tcpVars>>

-----------------------------------------------------------------------------

Packet(i) == <<[call |-> i, part |-> "head"], [call |-> i, part |-> "tail"]>>

AfterSend(c) ==
    IF pc[c] = "send" /\ req[cur[c]].kind = "STREAMED" THEN "more" ELSE "len"

\* The whole command, the part before the messages, or the messages.
Pieces(c) ==
    IF pc[c] = "more" THEN Tail(Packet(cur[c]))
    ELSE IF req[cur[c]].kind = "STREAMED" THEN <<Head(Packet(cur[c]))>>
    ELSE Packet(cur[c])

SendData(c) ==
    /\ pc[c] \in {"send", "more"} /\ sock[c] # NoSock
    /\ Send(sock[c], "client", Pieces(c))
    /\ pc' = [pc EXCEPT ![c] = AfterSend(c)]
    /\ UNCHANGED <<sock, cur, held, req, outcome>>

\* send() returns -1: sendData disconnects, and the call goes on as if the
\* command had been sent.  On Linux a broken pipe never gets that far.
SendDataFails(c) ==
    /\ pc[c] \in {"send", "more"}
    /\ sock[c] # NoSock => Refuses(sock[c], "client", ClientOnWindows)
    /\ DisconnectServer(c)
    /\ pc' = [pc EXCEPT ![c] = AfterSend(c)]
    /\ UNCHANGED <<cur, held, req, outcome>>

\* The end of the process: its socket is closed, what it knew is gone.
Exit(c, p) ==
    /\ DisconnectServer(c)
    /\ pc' = [pc EXCEPT ![c] = p]
    /\ cur' = [cur EXCEPT ![c] = NoCall]
    /\ held' = [held EXCEPT ![c] = {}]
    /\ outcome' = IF cur[c] = NoCall THEN outcome
                  ELSE [outcome EXCEPT ![cur[c]] = "lost"]
    /\ UNCHANGED req

\* send() without MSG_NOSIGNAL on a broken pipe: SIGPIPE ends the application.
SigPipe(c) ==
    /\ pc[c] \in {"send", "more"} /\ sock[c] # NoSock
    /\ err[sock[c]]["client"] = "pipe" /\ ~ClientOnWindows
    /\ Exit(c, "killed")

-----------------------------------------------------------------------------

GetReplyLen(c) ==
    /\ pc[c] = "len" /\ sock[c] # NoSock
    /\ Receive(sock[c], "client", "head")
    /\ pc' = [pc EXCEPT ![c] = "body"]
    /\ UNCHANGED <<sock, cur, held, req, outcome>>

\* Mutants of GetReplyLenFails: the socket is kept; the result starts out as
\* success; the socket has no timeout; the call is tried once more.
GetReplyLenFailsConnected(c) ==
    /\ pc[c] = "len"
    /\ Return(c, "ERR_FAILED", NoDev)
    /\ UNCHANGED <<sock, tcpVars>>

GetReplyLenFailsWell(c) ==
    /\ pc[c] = "len"
    /\ DisconnectServer(c)
    /\ Return(c, "STATUS_NOERROR", NoDev)

GetReplyLenFailsAtEnd(c) ==
    /\ pc[c] = "len"
    /\ sock[c] # NoSock => AtEnd(sock[c], "client")
    /\ DisconnectServer(c)
    /\ Return(c, "ERR_FAILED", NoDev)

GetReplyLenFailsRetries(c) ==
    /\ pc[c] = "len"
    /\ DisconnectServer(c)
    /\ pc' = [pc EXCEPT ![c] = "connect"]
    /\ UNCHANGED <<cur, held, req, outcome>>

\* recv() times out (SO_RCVTIMEO), meets the end or a reset of the
\* connection, or has no socket.
GetReplyLenFails(c) ==
    /\ pc[c] = "len"
    /\ DisconnectServer(c)
    /\ Return(c, "ERR_FAILED", NoDev)

\* The call has the reply r: it returns what that says, CLOSE after a
\* disconnect if that is success.
Replied(c, r) ==
    /\ IF req[cur[c]].kind = "CLOSE" /\ r.status = "STATUS_NOERROR"
         THEN /\ pc' = [pc EXCEPT ![c] = "bye"]
              /\ UNCHANGED <<cur, held, req, outcome>>
         ELSE Return(c, r.status, r.dev)
    /\ UNCHANGED sock

\* The body of the reply r arrives.
GetReplyBody(c, r) ==
    /\ pc[c] = "body" /\ sock[c] # NoSock
    /\ Receive(sock[c], "client", "tail")
    /\ Replied(c, r)

\* malloc returns NULL for the reply: the call fails, the connection is kept,
\* and the body of the reply stays there.
GetReplyAllocFails(c) ==
    /\ RecvAllocMayFail
    /\ pc[c] = "body" /\ sock[c] # NoSock
    /\ Return(c, "ERR_FAILED", NoDev)
    /\ astray' = [astray EXCEPT !["client"] = @ \cup {sock[c]}]
    /\ UNCHANGED <<sock, tcpVars>>

\* getReply on such a connection: it finds some length, and of that length
\* some reply (or no memory for it), or it waits for the rest in vain.
GetReplyAstray(c) ==
    /\ pc[c] = "len" /\ sock[c] \in astray["client"]
    /\ inq[sock[c]]["client"] # <<>>
    /\ \E r \in Reply :
         \/ /\ \E n \in 0 .. Len(inq[sock[c]]["client"]) :
                   ReceiveSome(sock[c], "client", n)
            /\ Replied(c, r)
         \/ DisconnectServer(c) /\ Return(c, r.status, r.dev)
    /\ UNCHANGED astray

CloseDisconnects(c) ==
    /\ pc[c] = "bye"
    /\ DisconnectServer(c)
    /\ Return(c, "STATUS_NOERROR", NoDev)

\* The rest of the reply does not come: getReply disconnects and returns the
\* reply all the same, with whatever malloc left in it.
GetReplyBodyFails(c, r) ==
    /\ ReplySplit
    /\ pc[c] = "body"
    /\ DisconnectServer(c)
    /\ Return(c, r.status, r.dev)

-----------------------------------------------------------------------------

\* The application ends or dies: at any time, in any state of its call.
Crash(c) ==
    /\ MayCrash
    /\ pc[c] # "killed"
    /\ sock[c] # NoSock \/ cur[c] # NoCall \/ held[c] # {}
    /\ Exit(c, "idle")

\* An application that was killed is started again.
Restart(c) ==
    /\ pc[c] = "killed"
    /\ pc' = [pc EXCEPT ![c] = "idle"]
    /\ UNCHANGED <<sock, cur, held, req, outcome, tcpVars>>

=============================================================================
