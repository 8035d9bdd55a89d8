------------------------------- MODULE Server -------------------------------
(***************************************************************************)
(* The server (server/J2534_TCPServer.cpp, server/J2534_Server.cpp): main, *)
(* that accepts connections and hands each one to on_client_connect, and   *)
(* the handlers, that read a command, execute it against the J2534 library *)
(* and send the reply.  The library itself is external: it opens and       *)
(* closes devices, and answers.                                            *)
(***************************************************************************)
EXTENDS Client

CONSTANTS MemoryLeakMode,   \* option -m
          ServerOnWindows,  \* whether the server is the Windows build
          MaxStarts,        \* bound on the times the server is started
          NoConn, NoReply

ASSUME ServerAssumption ==
    /\ MemoryLeakMode \in BOOLEAN /\ ServerOnWindows \in BOOLEAN
    /\ MaxStarts \in Nat
    /\ NoConn \notin Conns /\ NoReply \notin Reply

VARIABLES mainPc,     \* where main is: in accept, waiting for a handler, gone
          serving,    \* the connection whose handler main waits for
          stopServer, \* the flag of that name
          loaded,     \* whether the J2534 library is loaded
          starts,     \* how many times the server has been started
          hpc,        \* hpc[k]: where the handler of connection k is
          hcall,      \* hcall[k]: the call whose command it has read
          executed,   \* the calls the library has executed, in order
          answer,     \* answer[i]: what the library answered to call i
          opened      \* the devices open in the library

serverVars == <<mainPc, serving, stopServer, loaded, starts, hpc, hcall,
                executed, answer, opened>>

mainVars == <<mainPc, serving, stopServer, loaded, starts>>
libVars  == <<executed, answer, opened>>

ServerInit ==
    /\ mainPc = "accept"
    /\ serving = NoConn
    /\ stopServer = FALSE
    /\ loaded = TRUE
    /\ starts = 1
    /\ hpc = [k \in Conns |-> "off"]
    /\ hcall = [k \in Conns |-> NoCall]
    /\ executed = <<>>
    /\ answer = [i \in Calls |-> NoReply]
    /\ opened = {}

ServerTypeOK ==
    /\ mainPc \in {"accept", "join", "exited", "killed"}
    /\ serving \in Conns \cup {NoConn}
    /\ stopServer \in BOOLEAN
    /\ loaded \in BOOLEAN
    /\ starts \in Nat
    /\ hpc \in [Conns -> {"off", "len", "body", "lib", "noise", "reply",
                       "rest"}]
    /\ hcall \in [Conns -> Calls \cup {NoCall}]
    /\ executed \in Seq(Calls)
    /\ answer \in [Calls -> Reply \cup {NoReply}]
    /\ opened \subseteq Devices

-----------------------------------------------------------------------------

\* Mutants of Accept: the future is kept, and main accepts the next one, or,
\* with -m, ends.
AcceptDetached ==
    /\ mainPc = "accept" /\ ~stopServer
    /\ \E k \in Conns :
         /\ TakeQueued(k)
         /\ serving' = k
         /\ hpc' = [hpc EXCEPT ![k] = "len"]
    /\ UNCHANGED <<mainPc, stopServer, loaded, starts, hcall, libVars>>

AcceptStops ==
    /\ mainPc = "accept" /\ ~stopServer
    /\ \E k \in Conns :
         /\ TakeQueued(k)
         /\ hpc' = [hpc EXCEPT ![k] = "len"]
    /\ stopServer' = MemoryLeakMode
    /\ UNCHANGED <<mainPc, serving, loaded, starts, hcall, libVars>>

\* accept() returns.  The handler runs in main itself (-m) or in a thread of
\* its own; either way main gets no further until it has ended: the future
\* that async returns is destroyed at the end of the block, and waits.
Accept ==
    /\ mainPc = "accept" /\ ~stopServer
    /\ \E k \in Conns :
         /\ TakeQueued(k)
         /\ serving' = k
         /\ hpc' = [hpc EXCEPT ![k] = "len"]
    /\ mainPc' = "join"
    /\ UNCHANGED <<stopServer, loaded, starts, hcall, libVars>>

HandlerEnded ==
    /\ mainPc = "join" /\ hpc[serving] = "off"
    /\ mainPc' = "accept"
    /\ serving' = NoConn
    /\ stopServer' = MemoryLeakMode
    /\ UNCHANGED <<loaded, starts, hpc, hcall, libVars, tcpVars>>

\* The end of main: close(server), unloadDLL, and the process with it.
StopListening ==
    /\ mainPc = "accept" /\ stopServer
    /\ CloseListener({})
    /\ mainPc' = "exited"
    /\ loaded' = FALSE
    /\ opened' = {}
    /\ UNCHANGED <<serving, stopServer, starts, hpc, hcall, executed, answer>>

\* Somebody starts the server again after it has ended.
StartServer ==
    /\ mainPc \in {"exited", "killed"} /\ starts < MaxStarts
    /\ Listen
    /\ mainPc' = "accept"
    /\ stopServer' = FALSE
    /\ loaded' = TRUE
    /\ starts' = starts + 1
    /\ UNCHANGED <<serving, hpc, hcall, libVars>>

-----------------------------------------------------------------------------

RecvLen(k) ==
    /\ hpc[k] = "len"
    /\ Receive(k, "server", "head")
    /\ hcall' = [hcall EXCEPT ![k] = Head(inq[k]["server"]).call]
    /\ hpc' = [hpc EXCEPT ![k] = "body"]
    /\ UNCHANGED <<mainVars, libVars>>

RecvBody(k) ==
    /\ hpc[k] = "body"
    /\ Receive(k, "server", "tail")
    /\ hpc' = [hpc EXCEPT ![k] = "lib"]
    /\ UNCHANGED <<mainVars, hcall, libVars>>

\* malloc returns NULL for the command: the handler reads a length again, and
\* the body is still there.
RecvBodyAllocFails(k) ==
    /\ RecvAllocMayFail
    /\ hpc[k] = "body"
    /\ hpc' = [hpc EXCEPT ![k] = "len"]
    /\ hcall' = [hcall EXCEPT ![k] = NoCall]
    /\ astray' = [astray EXCEPT !["server"] = @ \cup {k}]
    /\ UNCHANGED <<mainVars, libVars, tcpVars>>

\* The handler of such a connection takes bytes of some call for a length and
\* a command of that length; each length it reads uses up the item it is in.
RecvAstray(k) ==
    /\ hpc[k] = "len" /\ k \in astray["server"]
    /\ \E n \in 1 .. Len(inq[k]["server"]) : ReceiveSome(k, "server", n)
    /\ hcall' = [hcall EXCEPT ![k] = Head(inq[k]["server"]).call]
    /\ hpc' = [hpc EXCEPT ![k] = "noise"]
    /\ UNCHANGED <<mainVars, libVars, astray>>

\* Mutant of Disconnect: the devices are closed with the connection.
DisconnectCloses(k) ==
    /\ Close(k, "server")
    /\ hpc' = [hpc EXCEPT ![k] = "off"]
    /\ hcall' = [hcall EXCEPT ![k] = NoCall]
    /\ opened' = {}
    /\ UNCHANGED <<mainVars, executed, answer>>

\* The label disconnect: the connection is closed and nothing else.  The
\* devices its client has opened stay open.
Disconnect(k) ==
    /\ Close(k, "server")
    /\ hpc' = [hpc EXCEPT ![k] = "off"]
    /\ hcall' = [hcall EXCEPT ![k] = NoCall]
    /\ UNCHANGED <<mainVars, libVars>>

\* recv() returns 0 or an error because the client has closed.
RecvEnds(k) ==
    /\ hpc[k] \in {"len", "body"}
    /\ AtEnd(k, "server")
    /\ Disconnect(k)

\* Mutant of RecvTimesOut: no timeout between the commands.
RecvTimesOutInBody(k) ==
    /\ hpc[k] = "body"
    /\ ~AtEnd(k, "server")
    /\ Disconnect(k)

\* recv() returns -1 because nothing has come for SOCKET_TIMEOUT_SECONDS: the
\* accepted socket has the timeout that main set on the listening one.
RecvTimesOut(k) ==
    /\ hpc[k] \in {"len", "body"}
    /\ ~AtEnd(k, "server")
    /\ Disconnect(k)

-----------------------------------------------------------------------------

\* What the library may answer to request r, and the devices open afterwards.
Answers(r) ==
    {<<[status |-> "ERR_FAILED", dev |-> NoDev], opened>>} \cup
    CASE r.kind = "OPEN" ->
           {<<[status |-> "STATUS_NOERROR", dev |-> d], opened \cup {d}>> :
              d \in Devices \ opened}
      [] r.kind = "CLOSE" ->
           {<<[status |-> "STATUS_NOERROR", dev |-> NoDev], opened \ {d}>> :
              d \in opened \cap {r.dev}}
      [] OTHER ->
           {<<[status |-> "STATUS_NOERROR", dev |-> NoDev], opened>>}

\* processCommand: the call is executed, and its reply built.
ProcessCommand(k) ==
    /\ hpc[k] = "lib"
    /\ \E a \in Answers(req[hcall[k]]) :
         /\ answer' = [answer EXCEPT ![hcall[k]] = a[1]]
         /\ opened' = a[2]
    /\ executed' = Append(executed, hcall[k])
    /\ hpc' = [hpc EXCEPT ![k] = "reply"]
    /\ UNCHANGED <<mainVars, hcall, tcpVars>>

\* processCommand returns NULL, because malloc did or because it does not know
\* the command: nothing is executed and nothing is sent.
ProcessCommandNull(k) ==
    /\ AllocMayFail
    /\ hpc[k] = "lib"
    /\ hpc' = [hpc EXCEPT ![k] = "len"]
    /\ hcall' = [hcall EXCEPT ![k] = NoCall]
    /\ UNCHANGED <<mainVars, libVars, tcpVars>>

\* processCommand of bytes that are no call's command: whatever their first
\* one stands for is done, if anything, and answered.
ProcessNoise(k) ==
    /\ hpc[k] = "noise"
    /\ \/ /\ hpc' = [hpc EXCEPT ![k] = "reply"]
          /\ \E r \in Request : \E a \in Answers(r) : opened' = a[2]
          /\ UNCHANGED hcall
       \/ /\ hpc' = [hpc EXCEPT ![k] = "len"]
          /\ hcall' = [hcall EXCEPT ![k] = NoCall]
          /\ UNCHANGED opened
    /\ UNCHANGED <<mainVars, executed, answer, astray, tcpVars>>

\* send() takes the whole reply, or, of a reply sent in pieces, the rest.
SendReply(k) ==
    /\ hpc[k] \in {"reply", "rest"}
    /\ Send(k, "server", IF hpc[k] = "reply" THEN Packet(hcall[k])
                                             ELSE Tail(Packet(hcall[k])))
    /\ hpc' = [hpc EXCEPT ![k] = "len"]
    /\ hcall' = [hcall EXCEPT ![k] = NoCall]
    /\ UNCHANGED <<mainVars, libVars>>

\* send() takes a part of the reply.
SendReplyPart(k) ==
    /\ ReplySplit
    /\ hpc[k] = "reply"
    /\ Send(k, "server", <<Head(Packet(hcall[k]))>>)
    /\ hpc' = [hpc EXCEPT ![k] = "rest"]
    /\ UNCHANGED <<mainVars, hcall, libVars>>

SendReplyFails(k) ==
    /\ hpc[k] \in {"reply", "rest"}
    /\ Refuses(k, "server", ServerOnWindows)
    /\ Disconnect(k)

\* SIGPIPE ends the server, with every connection it has.
ServerSigPipe(k) ==
    /\ hpc[k] \in {"reply", "rest"}
    /\ err[k]["server"] = "pipe" /\ ~ServerOnWindows
    /\ CloseListener({k})
    /\ mainPc' = "killed"
    /\ loaded' = FALSE
    /\ opened' = {}
    /\ serving' = NoConn
    /\ hpc' = [j \in Conns |-> "off"]
    /\ hcall' = [j \in Conns |-> NoCall]
    /\ UNCHANGED <<stopServer, starts, executed, answer>>

=============================================================================
