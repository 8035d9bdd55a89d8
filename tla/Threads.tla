------------------------------ MODULE Threads ------------------------------
(***************************************************************************)
(* One application whose threads call the library (client/J2534_Client.cpp) *)
(* at the same time.  sock is a plain static variable: every step of a call *)
(* reads it again, and disconnectServer closes it in one step and forgets   *)
(* it in the next, so that a descriptor may be used after it was closed, or *)
(* after the application has been given the same number for a file.         *)
(* Proxy has the many applications with one thread each; here the server    *)
(* is only what one of its handlers does at a time.  The library is the     *)
(* Linux build.                                                             *)
(***************************************************************************)
EXTENDS Tcp

CONSTANTS Threads,   \* the threads of the application
          MaxFd,     \* the descriptors are 1 .. MaxFd
          NoMemory,  \* the calls for whose reply there may be no memory
          Free, New, File,   \* what else than a connection one can stand for
          Invalid, NoCall, NoConn, NoItem

ASSUME ThreadsAssumption ==
    /\ Threads # {} /\ MaxFd \in Nat /\ NoMemory \subseteq Calls
    /\ {Free, New, File, Invalid, NoCall, NoConn} \cap Nat = {}
    /\ Free # New /\ Free # File /\ New # File
    /\ NoItem \notin Item

Fds   == 1 .. MaxFd

\* A CLOSE is one that succeeds: only then the library disconnects.
Kinds == {"OPEN", "CLOSE", "STREAMED", "PLAIN"}

\* What a descriptor can stand for besides a connection: nothing, a socket
\* that is not connected, or something else that the application has open.
Objects == {Free, New, File}

VARIABLES sock,        \* the static variable: a descriptor or Invalid
          fds,         \* fds[f]: what descriptor f stands for
          pc,          \* pc[t]: where thread t is in its call
          back,        \* back[t]: where it goes on after disconnectServer
          cur,         \* cur[t]: its call
          kind,        \* kind[i]: the function call i is of
          got,         \* got[i]: the calls whose replies i has parts of
          conn,        \* the connection the server's handler has
          taken,       \* the part of a command it has read
          overlapped,  \* whether two calls have ever been under way at once
          streamed,    \* and whether one of them was STREAMED
          harm,        \* whether the library has closed a file
          astray,      \* connections on which it has left a reply's body unread
          mixed        \* connections from which it has read a mixed command

threadVars == <<sock, fds, pc, back, cur, kind, got>>
serverVars == <<conn, taken, mixed>>
ghosts     == <<overlapped, streamed, harm>>
vars       == <<tcpVars, threadVars, serverVars, ghosts, astray>>

Init ==
    /\ TcpInit
    /\ sock = Invalid
    /\ fds = [f \in Fds |-> Free]
    /\ pc = [t \in Threads |-> "idle"]
    /\ back = [t \in Threads |-> "idle"]
    /\ cur = [t \in Threads |-> NoCall]
    /\ kind = [i \in Calls |-> "none"]
    /\ got = [i \in Calls |-> {}]
    /\ conn = NoConn /\ taken = NoItem
    /\ overlapped = FALSE /\ streamed = FALSE /\ harm = FALSE /\ mixed = {}
    /\ astray = {}

-----------------------------------------------------------------------------
(* Descriptors. *)

FreeFds == {f \in Fds : fds[f] = Free}

\* The operating system gives out the lowest descriptor that is free.
IsNext(f) == f \in FreeFds /\ \A g \in FreeFds : f <= g

\* What the library takes its socket for; Free when it is of no use.
Object == IF sock = Invalid THEN Free ELSE fds[sock]

Connected == Object \notin Objects

-----------------------------------------------------------------------------
(* The calls. *)

Goto(t, p) == pc' = [pc EXCEPT ![t] = p]

\* A call begins; only PassThruOpen looks whether there is a connection.
Call(t, i, k) ==
    LET others == {cur[u] : u \in {v \in Threads : pc[v] # "idle"}} IN
    /\ pc[t] = "idle"
    /\ kind[i] = "none"
    /\ \A j \in 1 .. (i - 1) : kind[j] # "none"
    /\ kind' = [kind EXCEPT ![i] = k]
    /\ cur' = [cur EXCEPT ![t] = i]
    /\ Goto(t, IF k = "OPEN" /\ sock = Invalid THEN "socket" ELSE "send")
    /\ overlapped' = (overlapped \/ others # {})
    /\ streamed' = (streamed \/ /\ others # {}
                                /\ "STREAMED" \in {k} \cup {kind[j] : j \in others})
    /\ UNCHANGED <<sock, fds, back, got, harm, serverVars, tcpVars>>

\* Call i, that thread t is in, returns with the calls of R in its reply.
Returns(t, R) ==
    /\ Goto(t, "idle")
    /\ cur' = [cur EXCEPT ![t] = NoCall]
    /\ got' = [got EXCEPT ![cur[t]] = @ \cup R]
    /\ UNCHANGED <<back, kind>>

\* Mutant of MakeSocket: the result of the comparison is stored in sock.
MakeSocketCompared(t) ==
    /\ pc[t] = "socket"
    /\ \E f \in Fds : IsNext(f) /\ fds' = [fds EXCEPT ![f] = New]
    /\ sock' = 0
    /\ Goto(t, "connect")
    /\ UNCHANGED <<back, cur, kind, got, serverVars, ghosts, tcpVars>>

MakeSocket(t) ==
    /\ pc[t] = "socket"
    /\ \E f \in Fds : /\ IsNext(f)
                      /\ fds' = [fds EXCEPT ![f] = New]
                      /\ sock' = f
    /\ Goto(t, "connect")
    /\ UNCHANGED <<back, cur, kind, got, serverVars, ghosts, tcpVars>>

\* socket() returns -1, which is INVALID_SOCKET, and the call fails.
MakeSocketFails(t) ==
    /\ pc[t] = "socket"
    /\ sock' = Invalid
    /\ Returns(t, {})
    /\ UNCHANGED <<fds, serverVars, ghosts, tcpVars>>

\* Thread t enters disconnectServer, and then goes on at p.
Disconnect(t, p) ==
    /\ Goto(t, "close")
    /\ back' = [back EXCEPT ![t] = p]

Connect(t) ==
    /\ pc[t] = "connect"
    /\ Object = New
    /\ \E k \in Conns : Establish(k) /\ fds' = [fds EXCEPT ![sock] = k]
    /\ Goto(t, "send")
    /\ UNCHANGED <<sock, back, cur, kind, got, serverVars, ghosts>>

\* connect() is refused, or sock is meanwhile connected, closed or a file.
ConnectFails(t) ==
    /\ pc[t] = "connect"
    /\ Disconnect(t, "idle")
    /\ UNCHANGED <<sock, fds, cur, kind, got, serverVars, ghosts, tcpVars>>

-----------------------------------------------------------------------------
(* disconnectServer. *)

\* close(sock): whatever sock stands for now.
CloseSock(t) ==
    /\ pc[t] = "close"
    /\ fds' = IF Object = Free THEN fds ELSE [fds EXCEPT ![sock] = Free]
    /\ IF Connected THEN Close(Object, "client") ELSE UNCHANGED tcpVars
    /\ harm' = (harm \/ Object = File)
    /\ Goto(t, "forget")
    /\ UNCHANGED <<sock, back, cur, kind, got, serverVars, overlapped, streamed>>

\* What follows disconnectServer: the rest of the call, or its end.
GoOn(t) ==
    IF back[t] = "idle" THEN Returns(t, {})
    ELSE Goto(t, back[t]) /\ UNCHANGED <<back, cur, kind, got>>

\* Mutant of ForgetSock: sock keeps the number of the closed descriptor.
ForgetSockNot(t) ==
    /\ pc[t] = "forget"
    /\ GoOn(t)
    /\ UNCHANGED <<sock, fds, serverVars, ghosts, tcpVars>>

ForgetSock(t) ==
    /\ pc[t] = "forget"
    /\ sock' = Invalid
    /\ GoOn(t)
    /\ UNCHANGED <<fds, serverVars, ghosts, tcpVars>>

-----------------------------------------------------------------------------
(* sendData and getReply. *)

Packet(i) == <<[call |-> i, part |-> "head"], [call |-> i, part |-> "tail"]>>

\* Mutant of InPieces: every command is sent in two pieces.
InPiecesAlways(i) == TRUE

\* Whether call i sends its command with more than one sendData.
InPieces(i) == kind[i] = "STREAMED"

Pieces(t) ==
    IF pc[t] = "more" THEN Tail(Packet(cur[t]))
    ELSE IF InPieces(cur[t]) THEN <<Head(Packet(cur[t]))>> ELSE Packet(cur[t])

AfterSend(t) == IF pc[t] = "send" /\ InPieces(cur[t]) THEN "more" ELSE "len"

SendData(t) ==
    /\ pc[t] \in {"send", "more"}
    /\ Connected /\ err[Object]["client"] = "none"
    /\ Send(Object, "client", Pieces(t))
    /\ Goto(t, AfterSend(t))
    /\ UNCHANGED <<sock, fds, back, cur, kind, got, serverVars, ghosts>>

\* send() returns -1: the connection was reset, or sock is no socket.
SendDataFails(t) ==
    /\ pc[t] \in {"send", "more"}
    /\ \/ Object \in {Free, File}
       \/ Connected /\ Refuses(Object, "client", FALSE)
    /\ Disconnect(t, AfterSend(t))
    /\ UNCHANGED <<sock, fds, cur, kind, got, serverVars, ghosts, tcpVars>>

\* A broken pipe, or a socket that is not connected: SIGPIPE ends the process
\* with all its threads.
SigPipe(t) ==
    /\ pc[t] \in {"send", "more"}
    /\ Object = New \/ (Connected /\ err[Object]["client"] = "pipe")
    /\ LET open == {fds[f] : f \in Fds} \ Objects
       IN CloseAll(open, "client", {k \in open : inq[k]["client"] # <<>>})
    /\ fds' = [f \in Fds |-> Free] /\ sock' = Invalid
    /\ pc' = [u \in Threads |-> "killed"]
    /\ UNCHANGED <<cut, backlog, listening, back, cur, kind, got, serverVars,
                   ghosts>>

\* recv() of a part of a reply: whatever comes next on the connection is the
\* length for "len" and the rest for "body".
GetReply(t) ==
    /\ pc[t] \in {"len", "body"}
    /\ Connected /\ (pc[t] = "len" => Object \notin astray)
    /\ \E part \in {"head", "tail"} : Receive(Object, "client", part)
    /\ LET item == Head(inq[Object]["client"])
           R    == {item.call}
       IN IF pc[t] = "len"
            THEN /\ Goto(t, "body")
                 /\ got' = [got EXCEPT ![cur[t]] = R]
                 /\ UNCHANGED <<back, cur, kind>>
          ELSE IF kind[cur[t]] = "CLOSE"
            THEN /\ Disconnect(t, "idle")
                 /\ got' = [got EXCEPT ![cur[t]] = @ \cup R]
                 /\ UNCHANGED <<cur, kind>>
          ELSE Returns(t, R)
    /\ UNCHANGED <<sock, fds, serverVars, ghosts>>

\* malloc returns NULL for the reply: the call fails, sock is kept, and the
\* rest of the reply stays there.
GetReplyAllocFails(t) ==
    /\ pc[t] = "body" /\ Connected /\ cur[t] \in NoMemory
    /\ Returns(t, {})
    /\ astray' = astray \cup {Object}
    /\ UNCHANGED <<sock, fds, serverVars, ghosts, tcpVars>>

\* getReply on such a connection takes what comes next for a length: there is
\* no memory for so much, or a packet with parts of what is there, or the rest
\* of it never comes.
GetReplyAstray(t) ==
    /\ pc[t] = "len" /\ Connected /\ Object \in astray
    /\ inq[Object]["client"] # <<>>
    /\ \E n \in 0 .. Len(inq[Object]["client"]) :
         LET q == inq[Object]["client"]
             R == {q[m].call : m \in {l \in 1 .. Len(q) : l <= n + 1}}
         IN /\ ReceiveSome(Object, "client", n)
            /\ \/ Returns(t, {})
               \/ Returns(t, R)
               \/ /\ Disconnect(t, "idle")
                  /\ got' = [got EXCEPT ![cur[t]] = R]
                  /\ UNCHANGED <<cur, kind>>
    /\ UNCHANGED <<sock, fds, serverVars, ghosts>>

\* Mutant of GetReplyFails: the connection is kept.
GetReplyFailsConnected(t) ==
    /\ pc[t] = "len"
    /\ Returns(t, {})
    /\ UNCHANGED <<sock, fds, serverVars, ghosts, tcpVars>>

\* recv() times out before any of the reply has come, or there is nothing to
\* receive from; once the length is there, so is the rest, unless another
\* thread has taken it or the connection.
GetReplyFails(t) ==
    /\ \/ pc[t] = "len"
       \/ pc[t] = "body" /\ (Connected => inq[Object]["client"] = <<>>)
    /\ Disconnect(t, "idle")
    /\ UNCHANGED <<sock, fds, cur, kind, got, serverVars, ghosts, tcpVars>>

\* Another part of the application opens a file.
OpenFile ==
    /\ \A t \in Threads : pc[t] # "killed"
    /\ \A f \in Fds : fds[f] # File
    /\ \E f \in Fds : IsNext(f) /\ fds' = [fds EXCEPT ![f] = File]
    /\ UNCHANGED <<sock, pc, back, cur, kind, got, serverVars, ghosts, tcpVars>>

-----------------------------------------------------------------------------
(* The server: one handler at a time. *)

AcceptClient ==
    /\ conn = NoConn
    /\ \E k \in Conns : TakeQueued(k) /\ conn' = k
    /\ UNCHANGED <<taken, mixed, threadVars, ghosts>>

\* The handler reads the two parts of a command, as far as it knows; they
\* are of one call unless several have sent theirs at once.
ReadCommand ==
    /\ conn # NoConn /\ conn \notin mixed
    /\ taken # NoItem => taken.part = "head"
    /\ \E part \in {"head", "tail"} : Receive(conn, "server", part)
    /\ LET item == Head(inq[conn]["server"])
           whole == IF taken = NoItem THEN item.part = "head"
                    ELSE item = [taken EXCEPT !.part = "tail"]
       IN /\ taken' = item
          /\ mixed' = IF whole THEN mixed ELSE mixed \cup {conn}
    /\ UNCHANGED <<conn, threadVars, ghosts>>

Reply ==
    /\ conn # NoConn /\ conn \notin mixed
    /\ taken # NoItem /\ taken.part = "tail"
    /\ Send(conn, "server", Packet(taken.call))
    /\ taken' = NoItem
    /\ UNCHANGED <<conn, mixed, threadVars, ghosts>>

\* The client has disconnected or sends nothing for the receive timeout, or
\* the command makes no sense.
EndClient ==
    /\ conn # NoConn
    /\ \/ conn \in mixed
       \/ /\ inq[conn]["server"] = <<>>
          /\ taken # NoItem => taken.part = "head"
    /\ Close(conn, "server")
    /\ conn' = NoConn /\ taken' = NoItem
    /\ UNCHANGED <<mixed, threadVars, ghosts>>

ServerStep == AcceptClient \/ ReadCommand \/ Reply \/ EndClient

\* The steps that leave nothing of a packet unread.
OrderlyStep(t) ==
    \/ \E i \in Calls, k \in Kinds : Call(t, i, k)
    \/ MakeSocket(t)
    \/ MakeSocketFails(t)
    \/ Connect(t)
    \/ ConnectFails(t)
    \/ CloseSock(t)
    \/ ForgetSock(t)
    \/ SendData(t)
    \/ SendDataFails(t)
    \/ SigPipe(t)
    \/ GetReply(t)
    \/ GetReplyFails(t)

ThreadStep(t) ==
    \/ (OrderlyStep(t) \/ GetReplyAstray(t)) /\ UNCHANGED astray
    \/ GetReplyAllocFails(t)

Next ==
    \/ \E t \in Threads : ThreadStep(t)
    \/ (OpenFile \/ ServerStep) /\ UNCHANGED astray

Spec == Init /\ [][Next]_vars

-----------------------------------------------------------------------------
(* Properties *)

\* Every variable has its type.
TypeOK ==
    /\ TcpTypeOK
    /\ sock \in Fds \cup {Invalid}
    /\ fds \in [Fds -> Conns \cup Objects]
    /\ pc \in [Threads -> {"idle", "socket", "connect", "send", "more", "len",
                           "body", "close", "forget", "killed"}]
    /\ back \in [Threads -> {"idle", "more", "len"}]
    /\ cur \in [Threads -> Calls \cup {NoCall}]
    /\ kind \in [Calls -> Kinds \cup {"none"}]
    /\ got \in [Calls -> SUBSET Calls]
    /\ conn \in Conns \cup {NoConn} /\ taken \in Item \cup {NoItem}
    /\ mixed \subseteq Conns /\ astray \subseteq Conns
    /\ {overlapped, streamed, harm} \subseteq BOOLEAN

\* As long as no two calls were ever under way at once, whatever threads they
\* came from, and there was memory for every reply, no call has anything of a
\* reply that is not its own: not after time-outs and reconnections either.
SerialRepliesOwn ==
    ~overlapped /\ astray = {} => \A i \in Calls : got[i] \subseteq {i}

\* As long as no two calls were ever under way at once, the library closes no
\* descriptor but its own, and between two calls its only socket is the one
\* it will use next, connected: without the memory for a reply either.
SerialSocketsKept ==
    ~overlapped =>
        /\ ~harm
        /\ (\A t \in Threads : pc[t] = "idle") =>
             /\ \A f \in Fds : fds[f] \in Conns \cup {New} => f = sock
             /\ sock # Invalid => Connected

\* Calls that are under way at once may take each other's replies, but as long
\* as none of them was STREAMED the server reads whole commands only.
PlainCommandsWhole == ~streamed => mixed = {}

-----------------------------------------------------------------------------
(* What the documentation leads one to expect, and the code does not do. *)

\* "Function calls are serialised and sent to the server, the results are
\* returned and sent back to the application" (README.md): a call returns its
\* own results.
ReplyIsOwn == \A i \in Calls : got[i] \subseteq {i}

=============================================================================
