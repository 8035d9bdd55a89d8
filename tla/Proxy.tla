------------------------------- MODULE Proxy -------------------------------
(***************************************************************************)
(* The whole system: the client libraries and the server, joined by TCP    *)
(* connections.  Every step is one of a client process, of the server      *)
(* (main or the handler of a connection) or of the network.                *)
(***************************************************************************)
EXTENDS Server

vars == <<tcpVars, clientVars, serverVars, astray>>

Init == TcpInit /\ ClientInit /\ ServerInit

-----------------------------------------------------------------------------

\* The call a process makes.
MakeCall(c) ==
    \E i \in Calls :
        \/ PassThruOpen(c, i)
        \/ PassThruReset(c, i)
        \/ \E d \in Devices : PassThruClose(c, i, d)
        \/ PassThruPlain(c, i)
        \/ PassThruStreamed(c, i)
        \/ AllocFails(c, i)

\* What the reply may be whose body process c reads next: of a handler that
\* has gone astray anything.
Arriving(c) ==
    IF sock[c] \in astray["server"] THEN Reply
    ELSE {answer[Head(inq[sock[c]]["client"]).call]}

ReplyArrives(c) ==
    /\ pc[c] = "body" /\ sock[c] # NoSock /\ inq[sock[c]]["client"] # <<>>
    /\ \E r \in Arriving(c) : GetReplyBody(c, r)

\* The steps with which a process gets on with the call it is in.
AdvanceCall(c) ==
    \/ ConnectToServer(c)
    \/ ConnectFails(c)
    \/ SendData(c)
    \/ SendDataFails(c)
    \/ SigPipe(c)
    \/ GetReplyLen(c)
    \/ GetReplyLenFails(c)
    \/ ReplyArrives(c)
    \/ \E r \in Reply : GetReplyBodyFails(c, r)
    \/ CloseDisconnects(c)

ClientStep(c) ==
    /\ MakeCall(c) \/ AdvanceCall(c) \/ Crash(c) \/ Restart(c)
    /\ UNCHANGED <<serverVars, astray>>

MainStep ==
    /\ Accept \/ HandlerEnded \/ StopListening \/ StartServer
    /\ UNCHANGED <<clientVars, astray>>

Receiving(k) == RecvLen(k) \/ RecvBody(k) \/ RecvEnds(k) \/ RecvTimesOut(k)

Serving(k) ==
    \/ ProcessCommand(k)
    \/ ProcessCommandNull(k)
    \/ SendReply(k)
    \/ SendReplyPart(k)
    \/ SendReplyFails(k)
    \/ ServerSigPipe(k)

HandlerStep(k) ==
    /\ Receiving(k) \/ Serving(k)
    /\ UNCHANGED <<clientVars, astray>>

NetworkStep ==
    /\ \E k \in Conns : Lose(k)
    /\ UNCHANGED <<clientVars, serverVars, astray>>

\* The steps of ends that know where a packet begins, or find it by chance.
OrderlyNext ==
    \/ \E c \in Clients : ClientStep(c)
    \/ MainStep
    \/ \E k \in Conns : HandlerStep(k)
    \/ NetworkStep

\* The steps with which an end goes astray, and those it takes then.
ClientAstray(c) ==
    /\ GetReplyAllocFails(c) \/ GetReplyAstray(c)
    /\ UNCHANGED serverVars

HandlerAstray(k) ==
    /\ RecvBodyAllocFails(k) \/ RecvAstray(k) \/ ProcessNoise(k)
    /\ UNCHANGED clientVars

Next ==
    \/ OrderlyNext
    \/ \E c \in Clients : ClientAstray(c)
    \/ \E k \in Conns : HandlerAstray(k)

\* Processes are scheduled, receives time out, and the library answers.  An
\* application need not make a call, nor die; nobody need start the server.
Fairness ==
    /\ \A c \in Clients :
         WF_vars(\/ AdvanceCall(c) /\ UNCHANGED <<serverVars, astray>>
                 \/ ClientAstray(c))
    /\ WF_vars(/\ Accept \/ HandlerEnded \/ StopListening
               /\ UNCHANGED <<clientVars, astray>>)
    /\ \A k \in Conns : WF_vars(HandlerStep(k) \/ HandlerAstray(k))

Safety == Init /\ [][Next]_vars
Spec   == Safety /\ Fairness

-----------------------------------------------------------------------------
(* Properties *)

\* Every variable has its type.
TypeOK == TcpTypeOK /\ ClientTypeOK /\ ServerTypeOK /\ AstrayTypeOK

\* The J2534 library is never in two handlers at once: std::async starts a
\* thread for every connection, and the library is not known to be reentrant,
\* but the future that async returns makes main wait for the thread.
LibrarySerial ==
    \A j, k \in Conns : hpc[j] # "off" /\ hpc[k] # "off" => j = k

\* Connections on which either end has lost its place.
Astray == astray["client"] \cup astray["server"]

\* A process only ever has before it the reply to the call it is in: nothing
\* in a reply says which call it answers (getReply does not look), so after a
\* timeout, a failed send or a retry nothing else keeps them apart.  That no
\* memory was to be had for a packet spoils it, for its connection alone.
OwnReply ==
    \A c \in Clients : sock[c] # NoSock /\ sock[c] \notin Astray =>
        LET q == inq[sock[c]]["client"]
        IN \A n \in 1 .. Len(q) : q[n].call = cur[c]

\* The library executes no call twice, and the calls of one process in the
\* order in which the process made them, over all the connections it used:
\* a call that timed out on one connection is not executed after a call made
\* later on another.  As long as every packet could be received.
InOrderAtMostOnce ==
    Astray = {} => \A m, n \in 1 .. Len(executed) :
        m < n /\ req[executed[m]].client = req[executed[n]].client
            => executed[m] < executed[n]

\* A call that returned STATUS_NOERROR has been executed, and the library
\* said so, as long as every packet could be received; J2534_V0404.h:
\* "Function call successful".
SuccessIsReal ==
    Astray = {} => \A i \in Calls : outcome[i] = "STATUS_NOERROR" =>
        answer[i] # NoReply /\ answer[i].status = "STATUS_NOERROR"

\* A device that an application has opened and not tried to close is open
\* in the library, whatever calls failed since, and no other application
\* has it too, as long as the server has not been started anew, and as every
\* packet could be received.
HeldIsOpen ==
    Astray = {} /\ starts = 1 /\ mainPc \in {"accept", "join"} =>
        /\ \A c \in Clients : held[c] \subseteq opened
        /\ \A b, c \in Clients : b # c => held[b] \cap held[c] = {}

\* The library is loaded whenever a handler could call it, and is unloaded
\* only when no client is connected and none is waiting.
LibraryLoaded ==
    ~loaded => /\ \A k \in Conns : hpc[k] = "off" /\ st[k]["server"] # "open"
               /\ ~listening

\* Every call returns to the application, whatever the server, the network
\* and the other clients do, unless the application is killed in it.
CallReturns ==
    \A c \in Clients : pc[c] # "idle" ~> pc[c] \in {"idle", "killed"}

\* From some time on, no more calls are made on the connection that is served.
ServedIsQuiet ==
    <>[][\A c \in Clients : cur'[c] \notin {cur[c], NoCall} =>
            sock[c] = NoSock \/ sock[c] # serving]_vars

\* A client that waits in the queue gets its turn (or an error) once the client
\* that is served makes no more calls, though this one may never disconnect,
\* may have died or be out of reach.  One that goes on calling, every five
\* seconds at least, has the only handler for ever.
QueuedServed ==
    ServedIsQuiet => \A k \in Conns : k \in Queued ~> k \notin Queued

\* A call that nobody has made is nobody's.
ASSUME ProxyAssumption == NoCall \notin Clients

\* The proxy implements the remote procedure call of Rpc.
RPC == INSTANCE Rpc WITH
    caller <- [i \in Calls |-> IF req[i] = NoRequest THEN NoCall
                                                     ELSE req[i].client],
    status <- outcome,
    Answer <- Reply, NoAnswer <- NoReply, NoCaller <- NoCall

ImplementsRpc == RPC!Spec

-----------------------------------------------------------------------------
(* What the documentation leads one to expect, and the code does not do. *)

\* An application is not killed by a call: "All communication over TCP/IP is
\* transparent to the client application" (README.md).
AppSurvives == \A c \in Clients : pc[c] # "killed"

\* In "memory leak" mode "the program will terminate upon the client closing
\* the connection" (README.md): it does not terminate on a client that has not.
ExitsOnClientClose ==
    [][stopServer' # stopServer /\ stopServer' =>
         st[serving]["client"] # "open"]_vars

=============================================================================
