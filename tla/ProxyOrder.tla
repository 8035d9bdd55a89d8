----------------------------- MODULE ProxyOrder -----------------------------
(***************************************************************************)
(* The second inductive invariant of Proxy, OrderInv of ProxyInv: in which *)
(* order connections are served and calls executed, and what follows from  *)
(* it for every number of clients, connections, calls and devices.         *)
(***************************************************************************)
EXTENDS ProxyProofs

-----------------------------------------------------------------------------
(* What a step changes, seen from the server. *)

\* A process adds to the server's queues only with SendData, and changes the
\* state of the connections only when it connects.
LEMMA ClientSeen ==
    ASSUME TypeOK, CallsInProgress, NEW c \in Clients, ClientStep(c)
    PROVE  /\ UNCHANGED serverVars
           /\ \A k \in Conns :
                \/ inq'[k]["server"] = inq[k]["server"]
                \/ /\ SendData(c) /\ k = sock[c] /\ Live(k)
                   /\ inq'[k]["server"] = inq[k]["server"] \o Pieces(c)
           /\ \/ /\ UNCHANGED <<backlog, listening>>
                 /\ \A k \in Conns : /\ st'[k]["server"] = st[k]["server"]
                                     /\ st'[k]["client"] = "none" => st[k]["client"] = "none"
                                     /\ st'[k]["client"] # "none" => st[k]["client"] # "none"
                                           \/ k = sock[c]
              \/ \E k \in Conns : Establish(k) /\ sock' = [sock EXCEPT ![c] = k]
                                    /\ ConnectToServer(c)
<1> USE DEF TypeOK, Ends
<1>0. UNCHANGED serverVars
  BY DEF ClientStep
<1>1. CASE MakeCall(c) \/ ConnectFails(c) \/ Restart(c)
  <2>1. UNCHANGED tcpVars
    BY <1>1, MakeCallEffect DEF ConnectFails, Restart
  <2> QED BY <1>0, <2>1 DEF tcpVars
<1>2. CASE ConnectToServer(c)
  <2>1. PICK k \in Conns : Establish(k) /\ sock' = [sock EXCEPT ![c] = k]
    BY <1>2 DEF ConnectToServer
  <2>2. UNCHANGED inq
    BY <2>1 DEF Establish
  <2> QED BY <1>0, <1>2, <2>1, <2>2
<1>3. CASE SendData(c)
  <2>1. sock[c] \in Conns /\ Send(sock[c], "client", Pieces(c))
    BY <1>3 DEF SendData, ClientTypeOK
  <2>2. UNCHANGED <<st, backlog, listening>>
    BY <2>1 DEF Send
  <2>3. \A k \in Conns : k # sock[c] => inq'[k]["server"] = inq[k]["server"]
    BY <2>1, PeerEnd DEF Send, TcpTypeOK
  <2>4. inq'[sock[c]]["server"] = IF Live(sock[c]) THEN inq[sock[c]]["server"] \o Pieces(c)
                                                   ELSE inq[sock[c]]["server"]
    BY <2>1, ClientSends
  <2> QED BY <1>0, <1>3, <2>2, <2>3, <2>4
<1>4. CASE GetReplyLen(c) \/ ReplyArrives(c)
  <2>1. PICK part : Receive(sock[c], "client", part)
    BY <1>4 DEF GetReplyLen, ReplyArrives, GetReplyBody, Replied
  <2>2. UNCHANGED <<st, backlog, listening>> /\ \A k \in Conns : inq'[k]["server"] = inq[k]["server"]
    BY <2>1 DEF Receive, TcpTypeOK
  <2> QED BY <1>0, <2>2
<1>5. CASE DisconnectServer(c)
  <2>1. UNCHANGED <<backlog, listening>>
    BY <1>5 DEF DisconnectServer, Close, tcpVars
  <2>2. \A k \in Conns : /\ inq'[k]["server"] = inq[k]["server"]
                         /\ st'[k]["server"] = st[k]["server"]
    BY <1>5, DisconnectServerItems
  <2>3. \A k \in Conns : k # sock[c] => st'[k]["client"] = st[k]["client"]
    BY <1>5, DisconnectServerItems
  <2>4. \A k \in Conns : k = sock[c] => st'[k]["client"] = "closed"
    BY <1>5, DisconnectServerItems
  <2> QED BY <1>0, <2>1, <2>2, <2>3, <2>4
<1>6. SendDataFails(c) \/ SigPipe(c) \/ GetReplyLenFails(c) \/ CloseDisconnects(c)
        \/ (\E r \in Reply : GetReplyBodyFails(c, r)) \/ Crash(c)
      => DisconnectServer(c)
  BY DEF SendDataFails, SigPipe, Exit, GetReplyLenFails, CloseDisconnects,
         GetReplyBodyFails, Crash
<1> QED BY <1>1, <1>2, <1>3, <1>4, <1>5, <1>6 DEF ClientStep, AdvanceCall

\* What each step of a handler changes in its connection and in the queue.
LEMMA HandlerSeen ==
    ASSUME TypeOK, NEW k \in Conns, HandlerStep(k), ~ServerSigPipe(k)
    PROVE  /\ UNCHANGED <<backlog, listening, mainVars, clientVars>>
           /\ \A j \in Conns : j # k =>
                /\ inq'[j]["server"] = inq[j]["server"] /\ st'[j]["server"] = st[j]["server"]
                /\ hpc'[j] = hpc[j] /\ hcall'[j] = hcall[j]
           /\ \/ /\ RecvLen(k) \/ RecvBody(k)
                 /\ inq[k]["server"] # <<>> /\ inq'[k]["server"] = Tail(inq[k]["server"])
                 /\ st'[k]["server"] = st[k]["server"]
                 /\ UNCHANGED libVars
              \/ /\ Disconnect(k)
                 /\ inq'[k]["server"] = <<>> /\ st'[k]["server"] = "closed"
                 /\ hpc'[k] = "off"
                 /\ UNCHANGED libVars
              \/ /\ ProcessCommand(k) \/ ProcessCommandNull(k)
                 /\ UNCHANGED tcpVars
              \/ /\ SendReply(k) \/ SendReplyPart(k)
                 /\ inq'[k]["server"] = inq[k]["server"] /\ st'[k]["server"] = st[k]["server"]
                 /\ UNCHANGED libVars
<1> USE DEF TypeOK, Ends
<1>0. UNCHANGED <<backlog, listening, mainVars, clientVars>>
  BY DEF HandlerStep, Receiving, Serving, RecvEnds, RecvTimesOut, SendReplyFails, RecvLen,
         RecvBody, Receive, ProcessCommand, ProcessCommandNull, tcpVars, SendReply,
         SendReplyPart, Send, Disconnect, Close
<1>1. \A j \in Conns : j # k =>
          /\ inq'[j]["server"] = inq[j]["server"] /\ st'[j]["server"] = st[j]["server"]
          /\ hpc'[j] = hpc[j] /\ hcall'[j] = hcall[j]
  BY OwnHandlerOnly
<1>2. CASE RecvLen(k) \/ RecvBody(k)
  <2>1. PICK part : Receive(k, "server", part)
    BY <1>2 DEF RecvLen, RecvBody
  <2>2. inq[k]["server"] # <<>> /\ inq'[k]["server"] = Tail(inq[k]["server"])
    BY <2>1, ReceiveEffect
  <2>3. UNCHANGED <<st, libVars>>
    BY <1>2 DEF RecvLen, RecvBody, Receive
  <2> QED BY <1>0, <1>1, <1>2, <2>2, <2>3
<1>3. CASE Disconnect(k)
  <2>1. inq'[k]["server"] = <<>> /\ st'[k]["server"] = "closed"
    BY <1>3, CloseItems DEF Disconnect
  <2>2. hpc'[k] = "off" /\ UNCHANGED libVars
    BY <1>3 DEF Disconnect, ServerTypeOK
  <2> QED BY <1>0, <1>1, <1>3, <2>1, <2>2
<1>4. CASE ProcessCommand(k) \/ ProcessCommandNull(k)
  BY <1>0, <1>1, <1>4 DEF ProcessCommand, ProcessCommandNull
<1>5. CASE SendReply(k) \/ SendReplyPart(k)
  <2>1. PICK items : Send(k, "server", items)
    BY <1>5 DEF SendReply, SendReplyPart
  <2>2. UNCHANGED st /\ inq'[k]["server"] = inq[k]["server"]
    BY <2>1, PeerEnd DEF Send, TcpTypeOK, Peer
  <2> QED BY <1>0, <1>1, <1>5, <2>2 DEF SendReply, SendReplyPart
<1> QED BY <1>2, <1>3, <1>4, <1>5
        DEF HandlerStep, Receiving, Serving, RecvEnds, RecvTimesOut, SendReplyFails

\* The end of the server, by main or by SIGPIPE, ends its connections.
LEMMA ServerEndSeen ==
    ASSUME TypeOK, NEW K, CloseListener(K)
    PROVE  /\ backlog' = <<>> /\ Queued' = {} /\ listening' = FALSE
           /\ \A j \in Conns :
                /\ inq'[j]["server"] = IF j \in Queued \cup K THEN <<>> ELSE inq[j]["server"]
                /\ st'[j]["server"] = IF j \in Queued \cup K THEN "closed" ELSE st[j]["server"]
                /\ st'[j]["client"] = st[j]["client"]
<1> USE DEF TypeOK, Ends
<1>1. CloseAll(Queued \cup K, "server", Queued \cup K) /\ backlog' = <<>> /\ listening' = FALSE
  BY DEF CloseListener
<1>2. Queued' = {}
  BY <1>1, NoItems DEF Queued
<1> HIDE DEF Queued
<1>3. \A j \in Conns :
        /\ inq'[j]["server"] = IF j \in Queued \cup K THEN <<>> ELSE inq[j]["server"]
        /\ st'[j]["server"] = IF j \in Queued \cup K THEN "closed" ELSE st[j]["server"]
        /\ st'[j]["client"] = st[j]["client"]
  BY <1>1, CloseAllItems
<1> QED BY <1>1, <1>2, <1>3

\* The network leaves of a server's queue a prefix, and changes nothing else.
LEMMA NetworkSeen ==
    ASSUME TypeOK, NetworkStep
    PROVE  /\ UNCHANGED <<st, backlog, listening, clientVars, serverVars>>
           /\ \A k \in Conns : \/ inq'[k]["server"] = inq[k]["server"]
                               \/ inq'[k]["server"] \in Prefixes(inq[k]["server"], "server")
<1> USE DEF TypeOK, Ends
<1>1. PICK k \in Conns : Lose(k)
  BY DEF NetworkStep
<1>2. UNCHANGED <<st, backlog, listening, clientVars, serverVars>>
  BY <1>1 DEF NetworkStep, Lose
<1>3. \A j \in Conns : IF j = k THEN inq'[j]["server"] \in Prefixes(inq[j]["server"], "server")
                                ELSE inq'[j]["server"] = inq[j]["server"]
  BY <1>1, LoseItems
<1> QED BY <1>2, <1>3

-----------------------------------------------------------------------------
(* Every step keeps the parts of the second invariant. *)

LEMMA NumberedStep ==
    ASSUME IInv, Numbered, [OrderlyNext]_vars
    PROVE  Numbered'
<1> USE DEF IInv, TypeOK, ClientTypeOK
<1>n. \A i \in Calls : i \in Nat
  BY TcpAssumption DEF Calls
<1>1. (/\ \A i, j \in Calls : i < j /\ req[j] # NoRequest => req[i] # NoRequest
       /\ \A c \in Clients : \A i \in Calls :
            pc[c] \in Busy /\ req[i] # NoRequest /\ req[i].client = c => i <= cur[c])'
  <2>1. CASE UNCHANGED clientVars
    BY <2>1 DEF clientVars, Numbered
  <2>2. ASSUME NEW c \in Clients, MakeCall(c)
        PROVE  (/\ \A i, j \in Calls : i < j /\ req[j] # NoRequest => req[i] # NoRequest
                /\ \A b \in Clients : \A i \in Calls :
                     pc[b] \in Busy /\ req[i] # NoRequest /\ req[i].client = b => i <= cur[b])'
    <3>1. PICK i \in Calls :
            /\ req[i] = NoRequest /\ req'[i] \in Request /\ req'[i].client = c
            /\ \A j \in Calls : j < i => req[j] # NoRequest
            /\ \A j \in Calls : j # i => req'[j] = req[j]
            /\ \/ /\ \E p \in {"connect", "send"} : pc' = [pc EXCEPT ![c] = p]
                  /\ cur' = [cur EXCEPT ![c] = i]
               \/ UNCHANGED <<pc, cur, held>>
      BY <2>2, MakeCallEffect
    <3>2. req'[i] # NoRequest
      BY <3>1, RequestAssumption
    <3>3. ASSUME NEW j \in Calls, req[j] # NoRequest
          PROVE  j < i
      <4>1. i \in Nat /\ j \in Nat /\ j # i /\ ~(i < j)
        BY <3>1, <3>3, <1>n DEF Numbered
      <4> QED BY <4>1
    <3>4. pc[c] = "idle"
      BY <2>2, MakeCallEffect
    <3>5. \A j, m \in Calls : j < m /\ req'[m] # NoRequest => req'[j] # NoRequest
      BY <3>1, <3>2, <3>3, <1>n DEF Numbered
    <3>6. \A b \in Clients : \A j \in Calls :
             pc'[b] \in Busy /\ req'[j] # NoRequest /\ req'[j].client = b => j <= cur'[b]
      BY <3>1, <3>3, <3>4, <1>n DEF Numbered, Busy
    <3> QED BY <3>5, <3>6
  <2>3. ASSUME NEW c \in Clients, AdvanceCall(c) \/ Crash(c) \/ Restart(c)
        PROVE  (/\ \A i, j \in Calls : i < j /\ req[j] # NoRequest => req[i] # NoRequest
                /\ \A b \in Clients : \A i \in Calls :
                     pc[b] \in Busy /\ req[i] # NoRequest /\ req[i].client = b => i <= cur[b])'
    <3>1. UNCHANGED req
      BY <2>3, CallEffect
    <3>2. \A b \in Clients : pc'[b] \in Busy => pc[b] \in Busy /\ cur'[b] = cur[b]
      BY <2>3, CallEffect DEF Busy, Restart
    <3> QED BY <3>1, <3>2 DEF Numbered
  <2> QED BY <2>1, <2>2, <2>3
          DEF OrderlyNext, ClientStep, MainStep, HandlerStep, NetworkStep, vars
<1>2. (\A j, k \in Conns : j < k /\ st[k]["client"] # "none" => st[j]["client"] # "none")'
  <2>1. CASE \A k \in Conns : st'[k]["client"] # "none" <=> st[k]["client"] # "none"
    BY <2>1 DEF Numbered
  <2>2. ASSUME NEW c \in Clients, ClientStep(c)
        PROVE  \/ \A k \in Conns : st'[k]["client"] # "none" <=> st[k]["client"] # "none"
               \/ \E k \in Conns : Establish(k)
    <3>1. \A k \in Conns : k = sock[c] => st[k]["client"] # "none"
      BY ClientAssumption DEF Sockets
    <3> QED BY <2>2, <3>1, ClientSeen
  <2>3. ASSUME NEW k \in Conns, Establish(k)
        PROVE  (\A i, j \in Conns : i < j /\ st[j]["client"] # "none" => st[i]["client"] # "none")'
    <3>1. /\ \A j \in 1 .. (k - 1) : st[j]["client"] # "none"
          /\ \A j \in Conns : j # k => st'[j] = st[j]
          /\ st'[k]["client"] = "open"
      BY <2>3 DEF Establish, TcpTypeOK, Ends
    <3>2. \A j \in Conns : j \in Nat /\ (j < k => j \in 1 .. (k - 1))
      BY TcpAssumption DEF Conns
    <3> QED BY <3>1, <3>2 DEF Numbered
  <2>4. CASE MainStep \/ NetworkStep \/ (\E k \in Conns : HandlerStep(k))
    BY <2>4, <2>1, ClientEnds
  <2>5. CASE UNCHANGED vars
    BY <2>5, <2>1 DEF vars, tcpVars
  <2> QED BY <2>1, <2>2, <2>3, <2>4, <2>5 DEF OrderlyNext
<1> QED BY <1>1, <1>2 DEF Numbered

LEMMA LifetimeStep ==
    ASSUME IInv, Lifetime, [OrderlyNext]_vars
    PROVE  Lifetime'
<1> USE DEF IInv, TypeOK
<1>u. ASSUME UNCHANGED <<loaded, mainPc, listening>>, ~listening => UNCHANGED backlog
      PROVE  Lifetime'
  BY <1>u DEF Lifetime
<1>1. ASSUME NEW c \in Clients, ClientStep(c)
      PROVE  Lifetime'
  <2>1. UNCHANGED serverVars
    BY <1>1 DEF ClientStep
  <2>2. UNCHANGED <<backlog, listening>> \/ \E k \in Conns : Establish(k)
    BY <1>1, ClientSeen
  <2> QED BY <2>1, <2>2, <1>u DEF Establish, serverVars
<1>2. CASE MainStep
  <2>1. CASE Accept
    BY <2>1 DEF Accept, TakeQueued, Lifetime
  <2>2. CASE HandlerEnded
    BY <2>2 DEF HandlerEnded, tcpVars, Lifetime
  <2>3. CASE StopListening
    BY <2>3 DEF StopListening, CloseListener, Lifetime
  <2>4. CASE StartServer
    BY <2>4 DEF StartServer, Listen, Lifetime
  <2> QED BY <1>2, <2>1, <2>2, <2>3, <2>4 DEF MainStep
<1>3. ASSUME NEW k \in Conns, HandlerStep(k)
      PROVE  Lifetime'
  <2>1. CASE ServerSigPipe(k)
    BY <2>1 DEF ServerSigPipe, CloseListener, Lifetime
  <2>2. CASE ~ServerSigPipe(k)
    BY <1>3, <2>2, HandlerSeen, <1>u DEF mainVars
  <2> QED BY <2>1, <2>2
<1>4. CASE NetworkStep
  BY <1>4, NetworkSeen, <1>u DEF serverVars
<1>5. CASE UNCHANGED vars
  BY <1>5, <1>u DEF vars, serverVars, tcpVars
<1> QED BY <1>1, <1>2, <1>3, <1>4, <1>5 DEF OrderlyNext

\* The queue of connections stays in order when one is taken or added.
LEMMA QueueOrder ==
    ASSUME TcpTypeOK, \A m, n \in 1 .. Len(backlog) : m < n => backlog[m] < backlog[n]
    PROVE  /\ backlog # <<>> =>
                /\ \A m, n \in 1 .. Len(Tail(backlog)) :
                      m < n => Tail(backlog)[m] < Tail(backlog)[n]
                /\ \A k \in Items(Tail(backlog)) : Head(backlog) < k
                /\ Queued = {Head(backlog)} \cup Items(Tail(backlog))
           /\ \A k \in Conns : (\A j \in Queued : j < k) =>
                \A m, n \in 1 .. Len(Append(backlog, k)) :
                    m < n => Append(backlog, k)[m] < Append(backlog, k)[n]
<1>1. backlog \in Seq(Conns) /\ Len(backlog) \in Nat
  BY DEF TcpTypeOK
<1>2. ASSUME backlog # <<>>
      PROVE  /\ \A m, n \in 1 .. Len(Tail(backlog)) :
                    m < n => Tail(backlog)[m] < Tail(backlog)[n]
             /\ \A k \in Items(Tail(backlog)) : Head(backlog) < k
             /\ Queued = {Head(backlog)} \cup Items(Tail(backlog))
  <2>1. /\ Len(Tail(backlog)) = Len(backlog) - 1
        /\ \A n \in 1 .. Len(Tail(backlog)) : Tail(backlog)[n] = backlog[n + 1]
        /\ Head(backlog) = backlog[1] /\ Len(backlog) > 0
    BY <1>1, <1>2
  <2>2. \A n \in 1 .. Len(backlog) : n = 1 \/ n - 1 \in 1 .. Len(Tail(backlog))
    BY <1>1, <2>1
  <2>3. Queued = {Head(backlog)} \cup Items(Tail(backlog))
    BY <1>1, <2>1, <2>2 DEF Queued, Items
  <2>4. \A k \in Items(Tail(backlog)) : Head(backlog) < k
    BY <1>1, <2>1 DEF Items
  <2>5. \A m, n \in 1 .. Len(Tail(backlog)) : m < n => Tail(backlog)[m] < Tail(backlog)[n]
    BY <1>1, <2>1
  <2> QED BY <2>3, <2>4, <2>5
<1>3. ASSUME NEW k \in Conns, \A j \in Queued : j < k,
             NEW m \in 1 .. Len(Append(backlog, k)), NEW n \in 1 .. Len(Append(backlog, k)),
             m < n
      PROVE  Append(backlog, k)[m] < Append(backlog, k)[n]
  <2>1. /\ Len(Append(backlog, k)) = Len(backlog) + 1
        /\ \A i \in 1 .. Len(backlog) : Append(backlog, k)[i] = backlog[i]
        /\ Append(backlog, k)[Len(backlog) + 1] = k
    BY <1>1
  <2>2. m \in 1 .. Len(backlog) /\ (n \in 1 .. Len(backlog) \/ n = Len(backlog) + 1)
    BY <1>1, <1>3, <2>1
  <2>3. backlog[m] \in Queued
    BY <2>2 DEF Queued, Items
  <2> QED BY <1>3, <2>1, <2>2, <2>3
<1> QED BY <1>2, <1>3

LEMMA TurnsStep ==
    ASSUME IInv, Numbered, Turns, [OrderlyNext]_vars
    PROVE  Turns'
<1> USE DEF IInv, TypeOK
<1>u. ASSUME UNCHANGED <<backlog, hpc>>,
             \A k \in Conns : /\ st'[k]["server"] = st[k]["server"]
                              /\ inq[k]["server"] = <<>> => inq'[k]["server"] = <<>>
      PROVE  Turns'
  BY <1>u DEF Turns, Queued
<1>1. ASSUME NEW c \in Clients, ClientStep(c)
      PROVE  Turns'
  <2>1. UNCHANGED hpc
    BY <1>1 DEF ClientStep, serverVars
  <2>2. ASSUME NEW k \in Conns, Establish(k)
        PROVE  Turns'
    <3>1. /\ st[k]["client"] = "none" /\ UNCHANGED inq
          /\ \A j \in Conns : st'[j]["server"] = IF j = k THEN "open" ELSE st[j]["server"]
          /\ backlog' = Append(backlog, k)
      BY <2>2 DEF Establish, TcpTypeOK, Ends
    <3>2. \A j \in Conns : st[j]["client"] # "none" => j < k
      <4>1. \A j \in Conns : j \in Nat
        BY TcpAssumption DEF Conns
      <4> QED BY <3>1, <4>1 DEF Numbered
    <3>3. \A j \in Conns : j \in Queued \/ hpc[j] # "off" => j < k
      BY <3>2 DEF Sockets
    <3>4. \A j \in Queued : j \in Conns
      BY DEF TcpTypeOK, Queued, Items
    <3>5. \A m, n \in 1 .. Len(backlog') : m < n => backlog'[m] < backlog'[n]
      BY <3>1, <3>3, <3>4, QueueOrder DEF Turns
    <3>6. Queued' = Queued \cup {k}
      BY <3>1, QueueItems DEF Queued
    <3> QED BY <2>1, <3>1, <3>3, <3>5, <3>6 DEF Turns
  <2>3. CASE SendData(c)
    <3>1. UNCHANGED <<st, backlog>> /\ sock[c] \in Conns
      BY <2>3 DEF SendData, Send, ClientTypeOK
    <3>2. \A k \in Conns : inq'[k]["server"] = inq[k]["server"] \/ Live(k)
      BY <1>1, ClientSeen
    <3> QED BY <2>1, <3>1, <3>2 DEF Turns, Live, Queued
  <2>4. CASE ~SendData(c) /\ ~(\E k \in Conns : Establish(k))
    <3>1. UNCHANGED backlog /\ \A k \in Conns : /\ inq'[k]["server"] = inq[k]["server"]
                                                /\ st'[k]["server"] = st[k]["server"]
      BY <1>1, <2>4, ClientSeen
    <3> QED BY <2>1, <3>1, <1>u
  <2> QED BY <2>2, <2>3, <2>4
<1>2. CASE MainStep
  <2>1. CASE Accept
    <3>1. PICK k \in Conns : TakeQueued(k) /\ hpc' = [hpc EXCEPT ![k] = "len"]
      BY <2>1 DEF Accept
    <3>2. \A j \in Conns : hpc[j] = "off"
      BY <2>1 DEF Accept, OneHandler
    <3>3. backlog # <<>> /\ k = Head(backlog) /\ backlog' = Tail(backlog) /\ UNCHANGED <<st, inq>>
      BY <3>1 DEF TakeQueued
    <3>4. /\ \A m, n \in 1 .. Len(backlog') : m < n => backlog'[m] < backlog'[n]
          /\ \A j \in Queued' : k < j
          /\ Queued = {k} \cup Queued'
      BY <3>3, QueueOrder DEF Turns, Queued
    <3>5. \A j \in Conns : hpc'[j] # "off" <=> j = k
      BY <3>1, <3>2 DEF ServerTypeOK
    <3> QED BY <3>2, <3>3, <3>4, <3>5 DEF Turns
  <2>2. CASE HandlerEnded
    BY <2>2, <1>u DEF HandlerEnded, tcpVars
  <2>3. CASE StopListening
    <3>1. CloseListener({}) /\ UNCHANGED hpc /\ \A j \in Conns : hpc[j] = "off"
      BY <2>3 DEF StopListening, OneHandler
    <3>2. backlog' = <<>> /\ Queued' = {}
      BY <3>1, ServerEndSeen
    <3>3. ASSUME NEW j \in Conns
          PROVE  /\ inq'[j]["server"] = IF j \in Queued THEN <<>> ELSE inq[j]["server"]
                 /\ st'[j]["server"] = IF j \in Queued THEN "closed" ELSE st[j]["server"]
      BY <3>1, ServerEndSeen
    <3> QED BY <3>1, <3>2, <3>3 DEF Turns
  <2>4. CASE StartServer
    BY <2>4, <1>u DEF StartServer, Listen
  <2> QED BY <1>2, <2>1, <2>2, <2>3, <2>4 DEF MainStep
<1>3. ASSUME NEW k \in Conns, HandlerStep(k)
      PROVE  Turns'
  <2>0. hpc[k] # "off"
    BY <1>3, HandlerIsOn
  <2>i. \A j \in Conns : ~(j < j) /\ (hpc[j] # "off" => j = k)
    BY <2>0, TcpAssumption DEF Conns, OneHandler
  <2>1. CASE ServerSigPipe(k)
    <3>1. CloseListener({k}) /\ \A j \in Conns : hpc'[j] = "off"
      BY <2>1 DEF ServerSigPipe
    <3>2. backlog' = <<>> /\ Queued' = {}
      BY <3>1, ServerEndSeen
    <3>3. ASSUME NEW j \in Conns
          PROVE  /\ inq'[j]["server"] = IF j \in Queued \cup {k} THEN <<>> ELSE inq[j]["server"]
                 /\ st'[j]["server"] = IF j \in Queued \cup {k} THEN "closed" ELSE st[j]["server"]
      BY <3>1, ServerEndSeen
    <3> QED BY <3>1, <3>2, <3>3, <2>i DEF Turns
  <2>2. CASE Disconnect(k)
    <3>1. ~ServerSigPipe(k)
      BY <2>2, <2>i DEF Disconnect, ServerSigPipe, mainVars, OneHandler
    <3>2. UNCHANGED backlog /\ Queued' = Queued
      BY <1>3, <3>1, HandlerSeen DEF Queued
    <3>3. inq'[k]["server"] = <<>> /\ st'[k]["server"] = "closed" /\ hpc'[k] = "off"
      BY <2>2, CloseItems DEF Disconnect, ServerTypeOK, Ends
    <3>4. \A j \in Conns : j # k =>
              /\ inq'[j]["server"] = inq[j]["server"] /\ st'[j]["server"] = st[j]["server"]
              /\ hpc'[j] = hpc[j]
      BY <1>3, <3>1, HandlerSeen
    <3>5. k \notin Queued
      BY <2>0, <2>i DEF Turns
    <3> QED BY <3>2, <3>3, <3>4, <3>5 DEF Turns
  <2>3. CASE ~ServerSigPipe(k) /\ ~Disconnect(k)
    <3>1. UNCHANGED backlog /\ Queued' = Queued
      BY <1>3, <2>3, HandlerSeen DEF Queued
    <3>2. \A j \in Conns : j # k =>
              /\ inq'[j]["server"] = inq[j]["server"] /\ st'[j]["server"] = st[j]["server"]
              /\ hpc'[j] = hpc[j]
      BY <1>3, <2>3, HandlerSeen
    <3>3. /\ st'[k]["server"] = st[k]["server"]
          /\ inq[k]["server"] = <<>> => inq'[k]["server"] = <<>>
      BY <1>3, <2>3, HandlerSeen DEF tcpVars
    <3>4. hpc'[k] # "off"
      BY <1>3, <2>3 DEF HandlerStep, Receiving, Serving, RecvLen, RecvBody, RecvEnds, RecvTimesOut,
         ProcessCommand, ProcessCommandNull, SendReply, SendReplyPart, SendReplyFails, ServerTypeOK
    <3> QED BY <2>0, <3>1, <3>2, <3>3, <3>4 DEF Turns
  <2> QED BY <2>1, <2>2, <2>3
<1>4. CASE NetworkStep
  <2>1. \A q \in Prefixes(<<>>, "server") : q = <<>>
    BY DEF Prefixes
  <2> QED BY <1>4, <2>1, NetworkSeen, <1>u DEF serverVars
<1>5. CASE UNCHANGED vars
  BY <1>5, <1>u DEF vars, serverVars, tcpVars
<1> QED BY <1>1, <1>2, <1>3, <1>4, <1>5 DEF OrderlyNext

LEMMA OneCommandStep ==
    ASSUME IInv, IInv', OneCommand, [OrderlyNext]_vars
    PROVE  OneCommand'
<1> USE DEF IInv, TypeOK
<1>s. astray' = astray
  BY OrderlyStep
<1>u. ASSUME NEW k \in Conns \ Astray, hpc'[k] = hpc[k], hcall'[k] = hcall[k],
             \/ inq'[k]["server"] = inq[k]["server"]
             \/ inq'[k]["server"] = <<>>
             \/ inq'[k]["server"] \in Prefixes(inq[k]["server"], "server")
      PROVE  AtServer(inq[k]["server"], hpc[k], hcall[k])'
  <2>0. AtServer(inq[k]["server"], hpc[k], hcall[k])
    BY DEF OneCommand
  <2>1. CASE inq'[k]["server"] \in {inq[k]["server"], <<>>}
    BY <1>u, <2>0, <2>1 DEF AtServer
  <2>2. CASE inq'[k]["server"] \in Prefixes(inq[k]["server"], "server")
    <3>1. /\ inq[k]["server"] = <<>> => inq'[k]["server"] = <<>>
          /\ \A a : inq[k]["server"] = <<a>> => inq'[k]["server"] \in {<<>>, <<a>>}
          /\ \A a, b : inq[k]["server"] = <<a, b>> => inq'[k]["server"] \in {<<>>, <<a>>, <<a, b>>}
      BY <2>2, ShortPrefixes
    <3> QED BY <1>u, <2>0, <3>1 DEF AtServer
  <2> QED BY <1>u, <2>1, <2>2
<1>1. ASSUME NEW c \in Clients, ClientStep(c), NEW k \in Conns \ Astray
      PROVE  AtServer(inq[k]["server"], hpc[k], hcall[k])'
  <2>1. hpc'[k] = hpc[k] /\ hcall'[k] = hcall[k]
    BY <1>1 DEF ClientStep, serverVars
  <2>2. CASE SendData(c) /\ k = sock[c]
    <3>1. sock'[c] = k /\ k # NoSock
      BY <2>2 DEF SendData
    <3>2. Flow(c, k)'
      BY <1>s, <3>1 DEF Flows, Astray
    <3>3. pc'[c] \in Busy
      BY <2>2, AfterSendType DEF SendData, ClientTypeOK, Busy
    <3>4. cur'[c] \in Calls
      BY <3>3 DEF CallsInProgress
    <3> QED BY <3>2, <3>4 DEF Flow, OnItsWay, AtServer
  <2>3. CASE inq'[k]["server"] = inq[k]["server"]
    BY <1>u, <2>1, <2>3
  <2> QED BY <1>1, <2>2, <2>3, ClientSeen
<1>2. ASSUME MainStep, NEW k \in Conns \ Astray
      PROVE  AtServer(inq[k]["server"], hpc[k], hcall[k])'
  <2>1. CASE Accept
    <3>1. hpc'[k] \in {hpc[k], "len"} /\ UNCHANGED <<hcall, inq>>
      BY <2>1 DEF Accept, TakeQueued, ServerTypeOK
    <3>2. hpc[k] = "off"
      BY <2>1 DEF Accept, OneHandler
    <3> QED BY <3>1, <3>2 DEF OneCommand, AtServer
  <2>2. CASE HandlerEnded \/ StartServer
    BY <2>2, <1>u DEF HandlerEnded, StartServer, Listen, tcpVars
  <2>3. CASE StopListening
    <3>1. CloseListener({}) /\ UNCHANGED <<hpc, hcall>>
      BY <2>3 DEF StopListening
    <3>2. inq'[k]["server"] \in {<<>>, inq[k]["server"]}
      BY <3>1, ServerEndSeen
    <3> QED BY <1>u, <3>1, <3>2
  <2> QED BY <1>2, <2>1, <2>2, <2>3 DEF MainStep
<1>3. ASSUME NEW j \in Conns, HandlerStep(j), NEW k \in Conns \ Astray
      PROVE  AtServer(inq[k]["server"], hpc[k], hcall[k])'
  <2>1. CASE ServerSigPipe(j)
    <3>1. CloseListener({j}) /\ hpc'[k] = "off"
      BY <2>1 DEF ServerSigPipe
    <3>2. inq'[k]["server"] = <<>> \/ (inq'[k]["server"] = inq[k]["server"] /\ k # j)
      BY <3>1, ServerEndSeen
    <3>3. k # j => hpc[k] = "off"
      BY <1>3, HandlerIsOn DEF OneHandler
    <3> QED BY <3>1, <3>2, <3>3 DEF OneCommand, AtServer
  <2>2. CASE ~ServerSigPipe(j) /\ k # j
    BY <1>3, <2>2, <1>u, HandlerSeen
  <2>3. CASE ~ServerSigPipe(j) /\ k = j
    <3>0. AtServer(inq[k]["server"], hpc[k], hcall[k])
      BY DEF OneCommand
    <3>1. CASE RecvLen(k)
      <4>1. /\ inq[k]["server"] # <<>> /\ inq'[k]["server"] = Tail(inq[k]["server"])
            /\ hpc[k] = "len" /\ hpc'[k] = "body" /\ hcall'[k] = Head(inq[k]["server"]).call
        BY <3>1, ReceiveEffect DEF RecvLen, ServerTypeOK, Ends
      <4>2. PICK i \in Calls : inq[k]["server"] \in {<<H(i)>>, <<H(i), T(i)>>}
        BY <3>0, <4>1 DEF AtServer
      <4>3. /\ Tail(<<H(i), T(i)>>) = <<T(i)>> /\ Tail(<<H(i)>>) = <<>>
            /\ Head(<<H(i), T(i)>>).call = i
        BY ShortQueues
      <4> QED BY <4>1, <4>2, <4>3 DEF AtServer
    <3>2. CASE RecvBody(k)
      <4>1. /\ inq[k]["server"] # <<>> /\ inq'[k]["server"] = Tail(inq[k]["server"])
            /\ hpc[k] = "body"
        BY <3>2, ReceiveEffect DEF RecvBody, Ends
      <4>2. inq[k]["server"] = <<T(hcall[k])>>
        BY <3>0, <4>1 DEF AtServer
      <4>3. inq'[k]["server"] = <<>>
        BY <4>1, <4>2, ShortQueues
      <4> QED BY <4>3 DEF AtServer
    <3>3. CASE Disconnect(k)
      <4>1. inq'[k]["server"] = <<>>
        BY <3>3, CloseItems DEF Disconnect, Ends
      <4> QED BY <4>1 DEF AtServer
    <3>4. CASE hpc[k] \in {"lib", "reply", "rest"} /\ inq'[k]["server"] = inq[k]["server"]
      BY <3>0, <3>4 DEF AtServer
    <3>5. ProcessCommand(k) \/ ProcessCommandNull(k) \/ SendReply(k) \/ SendReplyPart(k)
            => hpc[k] \in {"lib", "reply", "rest"}
      BY DEF ProcessCommand, ProcessCommandNull, SendReply, SendReplyPart
    <3> QED BY <1>3, <2>3, <3>1, <3>2, <3>3, <3>4, <3>5, HandlerSeen DEF tcpVars
  <2> QED BY <2>1, <2>2, <2>3
<1>4. ASSUME NetworkStep \/ UNCHANGED vars, NEW k \in Conns \ Astray
      PROVE  AtServer(inq[k]["server"], hpc[k], hcall[k])'
  BY <1>4, <1>u, NetworkSeen DEF serverVars, tcpVars, vars
<1> QED BY <1>s, <1>1, <1>2, <1>3, <1>4 DEF OrderlyNext, OneCommand, Astray

-----------------------------------------------------------------------------
(* The order in which calls are executed. *)

\* What is pending is a call that was made.
LEMMA PendingMade ==
    ASSUME IInv, NEW k \in Conns, NEW i \in Pending(k)
    PROVE  /\ i \in Calls /\ req[i] \in Request /\ req[i] # NoRequest
           /\ st[k]["client"] # "none"
<1> USE DEF IInv, TypeOK, Ends
<1>1. inq[k]["server"] \in Seq(Item)
  BY DEF TcpTypeOK
<1>2. ASSUME NEW m \in Items(inq[k]["server"])
      PROVE  m.call \in Calls /\ req[m.call] # NoRequest
  <2>1. m \in Item
    BY <1>1, <1>2 DEF Items
  <2> QED BY <2>1 DEF Item, HandlerCalls
<1>3. i \in Calls /\ req[i] # NoRequest
  BY <1>2 DEF Pending, HandlerCalls
<1>4. CASE st[k]["client"] = "none"
  <2>1. inq[k]["server"] = <<>> /\ hpc[k] = "off"
    BY <1>4 DEF Sockets
  <2> QED BY <2>1, NoItems DEF Pending
<1> QED BY <1>3, <1>4 DEF ClientTypeOK

\* A call becomes pending only when its process sends it.
LEMMA PendingStep ==
    ASSUME IInv, [OrderlyNext]_vars, NEW k \in Conns, NEW i \in Pending(k)'
    PROVE  \/ i \in Pending(k)
           \/ \E c \in Clients : /\ ClientStep(c) /\ SendData(c) /\ k = sock[c] /\ i = cur[c]
                                 /\ pc[c] \in {"send", "more"}
<1> USE DEF IInv, TypeOK, Ends
<1>u. ASSUME hpc'[k] = hpc[k], hcall'[k] = hcall[k],
             Items(inq'[k]["server"]) \subseteq Items(inq[k]["server"])
      PROVE  i \in Pending(k)
  BY <1>u DEF Pending
<1>o. ASSUME hpc'[k] \notin {"body", "lib"},
             Items(inq'[k]["server"]) \subseteq Items(inq[k]["server"])
      PROVE  i \in Pending(k)
  BY <1>o DEF Pending
<1>1. ASSUME NEW c \in Clients, ClientStep(c)
      PROVE  i \in Pending(k) \/ (SendData(c) /\ k = sock[c] /\ i = cur[c]
                                    /\ pc[c] \in {"send", "more"})
  <2>1. hpc'[k] = hpc[k] /\ hcall'[k] = hcall[k]
    BY <1>1 DEF ClientStep, serverVars
  <2>2. CASE MakeCall(c)
    <3>1. UNCHANGED inq
      BY <2>2, MakeCallEffect DEF tcpVars
    <3> QED BY <2>1, <3>1, <1>u
  <2>3. CASE AdvanceCall(c) \/ Crash(c) \/ Restart(c)
    <3>1. CASE SendData(c) /\ k = sock[c]
      <4>1. \A m \in Items(inq'[k]["server"]) : m \in Items(inq[k]["server"]) \/ m.call = cur[c]
        BY <2>3, CallItems
      <4> QED BY <2>1, <3>1, <4>1 DEF Pending, SendData
    <3>2. CASE inq'[k]["server"] = inq[k]["server"]
      BY <2>1, <3>2, <1>u
    <3> QED BY <1>1, <3>1, <3>2, ClientSeen
  <2> QED BY <1>1, <2>2, <2>3 DEF ClientStep
<1>2. CASE MainStep
  <2>1. Items(inq'[k]["server"]) \subseteq Items(inq[k]["server"])
    BY <1>2, CloseAllItems DEF MainStep, Accept, TakeQueued, HandlerEnded, tcpVars,
       StopListening, CloseListener, StartServer, Listen
  <2>2. CASE Accept
    <3>1. hpc'[k] = "len" \/ (hpc'[k] = hpc[k] /\ hcall'[k] = hcall[k])
      BY <2>2 DEF Accept, ServerTypeOK
    <3> QED BY <2>1, <3>1, <1>u, <1>o
  <2>3. CASE UNCHANGED <<hpc, hcall>>
    BY <2>1, <2>3, <1>u
  <2> QED BY <1>2, <2>2, <2>3 DEF MainStep, HandlerEnded, StopListening, StartServer
<1>3. ASSUME NEW j \in Conns, HandlerStep(j)
      PROVE  i \in Pending(k)
  <2>1. Items(inq'[k]["server"]) \subseteq Items(inq[k]["server"])
    BY <1>3, HandlerItems
  <2>2. CASE ServerSigPipe(j)
    <3>1. hpc'[k] = "off"
      BY <2>2 DEF ServerSigPipe
    <3> QED BY <2>1, <3>1, <1>o
  <2>3. CASE ~ServerSigPipe(j) /\ k # j
    BY <1>3, <2>1, <2>3, <1>u, HandlerSeen
  <2>4. CASE RecvLen(k)
    <3>1. hcall'[k] = Head(inq[k]["server"]).call /\ inq[k]["server"] # <<>>
      BY <2>4 DEF RecvLen, Receive, ServerTypeOK
    <3>2. inq[k]["server"] \in Seq(Item)
      BY DEF TcpTypeOK
    <3>3. Head(inq[k]["server"]) \in Items(inq[k]["server"])
      BY <3>1, <3>2 DEF Items
    <3> QED BY <2>1, <3>1, <3>3 DEF Pending
  <2>5. CASE RecvBody(k)
    <3>1. hpc[k] = "body" /\ UNCHANGED hcall
      BY <2>5 DEF RecvBody
    <3> QED BY <2>1, <3>1 DEF Pending
  <2>6. CASE Disconnect(k) \/ ProcessCommand(k) \/ ProcessCommandNull(k) \/ SendReply(k) \/ SendReplyPart(k)
    <3>1. hpc'[k] \notin {"body", "lib"}
      BY <2>6 DEF Disconnect, ProcessCommand, ProcessCommandNull, SendReply, SendReplyPart, ServerTypeOK
    <3> QED BY <2>1, <3>1, <1>o
  <2> QED BY <1>3, <2>2, <2>3, <2>4, <2>5, <2>6
          DEF HandlerStep, Receiving, Serving, RecvEnds, RecvTimesOut, SendReplyFails
<1>4. CASE NetworkStep \/ UNCHANGED vars
  <2>1. hpc'[k] = hpc[k] /\ hcall'[k] = hcall[k]
    BY <1>4, NetworkSeen DEF serverVars, vars
  <2>2. Items(inq'[k]["server"]) \subseteq Items(inq[k]["server"])
    <3>1. inq[k]["server"] \in Seq(Item)
      BY DEF TcpTypeOK
    <3> QED BY <1>4, <3>1, NetworkSeen, PrefixItems DEF vars, tcpVars
  <2> QED BY <2>1, <2>2, <1>u
<1> QED BY <1>1, <1>2, <1>3, <1>4 DEF OrderlyNext

\* The library executes a call only when a handler has the whole of it, and
\* then that is all that happens.
LEMMA ExecutedStep ==
    ASSUME TypeOK, [OrderlyNext]_vars
    PROVE  \/ UNCHANGED <<executed, answer>>
           \/ \E k \in Conns : HandlerStep(k) /\ ProcessCommand(k)
<1>1. (\E c \in Clients : ClientStep(c)) \/ MainStep \/ NetworkStep \/ UNCHANGED vars
      => UNCHANGED <<executed, answer>>
  BY DEF ClientStep, MainStep, NetworkStep, vars, serverVars, Accept, HandlerEnded,
         StopListening, StartServer, libVars
<1>2. ASSUME NEW k \in Conns, HandlerStep(k), ~ProcessCommand(k)
      PROVE  UNCHANGED <<executed, answer>>
  BY <1>2 DEF HandlerStep, Receiving, Serving, RecvLen, RecvBody, RecvEnds,
       RecvTimesOut, ProcessCommandNull, SendReply, SendReplyPart,
       SendReplyFails, Disconnect, ServerSigPipe, libVars
<1> QED BY <1>1, <1>2 DEF OrderlyNext

LEMMA ExecuteEffect ==
    ASSUME IInv, OneCommand, Astray = {}, NEW k \in Conns, HandlerStep(k), ProcessCommand(k)
    PROVE  /\ UNCHANGED <<clientVars, tcpVars, mainVars, hcall>>
           /\ hcall[k] \in Calls /\ req[hcall[k]] \in Request /\ hcall[k] \in Pending(k)
           /\ hpc[k] = "lib" /\ hpc' = [hpc EXCEPT ![k] = "reply"]
           /\ executed' = Append(executed, hcall[k])
           /\ Done' = Done \cup {hcall[k]}
           /\ \E a \in Answers(req[hcall[k]]) :
                /\ answer' = [answer EXCEPT ![hcall[k]] = a[1]] /\ opened' = a[2]
                /\ a[1] \in Reply
           /\ Pending(k)' = {}
           /\ \A j \in Conns : j # k => hpc[j] = "off" /\ Pending(j)' = Pending(j)
<1> USE DEF IInv, TypeOK
<1>1. hpc[k] = "lib" /\ hpc' = [hpc EXCEPT ![k] = "reply"] /\ executed' = Append(executed, hcall[k])
      /\ UNCHANGED <<clientVars, tcpVars, mainVars, hcall>>
  BY DEF HandlerStep, ProcessCommand
<1>2. hcall[k] \in Calls /\ req[hcall[k]] \in Request /\ hcall[k] \in Pending(k)
  BY <1>1 DEF HandlerCalls, ClientTypeOK, Pending
<1>3. Done' = Done \cup {hcall[k]}
  <2>1. executed \in Seq(Calls) /\ Len(executed) \in Nat
    BY DEF ServerTypeOK
  <2>2. /\ Len(executed') = Len(executed) + 1
        /\ \A n \in 1 .. Len(executed) : executed'[n] = executed[n]
        /\ executed'[Len(executed) + 1] = hcall[k]
    BY <1>1, <1>2, <2>1
  <2>3. 1 .. (Len(executed) + 1) = (1 .. Len(executed)) \cup {Len(executed) + 1}
    BY <2>1
  <2> QED BY <2>2, <2>3 DEF Done, Items
<1>4. \E a \in Answers(req[hcall[k]]) :
        /\ answer' = [answer EXCEPT ![hcall[k]] = a[1]] /\ opened' = a[2]
        /\ a[1] \in Reply
  BY <1>2, AnswersType DEF ProcessCommand
<1>5. \A j \in Conns : j # k => hpc[j] = "off"
  BY <1>1 DEF OneHandler
<1>6. Pending(k)' = {}
  <2>1. inq[k]["server"] = <<>>
    BY <1>1 DEF OneCommand, AtServer
  <2>2. Items(inq'[k]["server"]) = {} /\ hpc'[k] = "reply"
    BY <1>1, <2>1, NoItems DEF tcpVars, ServerTypeOK
  <2> QED BY <2>2 DEF Pending
<1>7. \A j \in Conns : j # k => Pending(j)' = Pending(j)
  BY <1>1 DEF Pending, tcpVars, ServerTypeOK
<1> QED BY <1>1, <1>2, <1>3, <1>4, <1>5, <1>6, <1>7

\* A connection that holds a pending call is not younger than any connection
\* the process makes next.
LEMMA ConnectsLast ==
    ASSUME IInv, Numbered, NEW k \in Conns, Establish(k), NEW j \in Conns, Pending(j) # {}
    PROVE  j < k
<1>1. st[k]["client"] = "none"
  BY DEF Establish
<1>2. st[j]["client"] # "none"
  BY PendingMade
<1>3. j \in Nat /\ k \in Nat /\ j # k /\ ~(k < j)
  BY <1>1, <1>2, TcpAssumption DEF Conns, Numbered
<1> QED BY <1>3

\* What a process does next with its call and its socket.
LEMMA SendingNext ==
    ASSUME IInv, NEW c \in Clients, AdvanceCall(c) \/ Crash(c) \/ Restart(c), ~SendData(c),
           pc'[c] \in {"connect", "send", "more"}
    PROVE  cur'[c] = cur[c] /\ pc[c] \in {"connect", "send"}
<1> USE DEF IInv, TypeOK, ClientTypeOK
<1>1. CASE ConnectToServer(c)
  BY <1>1 DEF ConnectToServer
<1>2. CASE SendDataFails(c)
  BY <1>2 DEF SendDataFails, AfterSend
<1>3. ConnectFails(c) \/ GetReplyLenFails(c) \/ CloseDisconnects(c)
        \/ (\E r \in Reply : GetReplyBodyFails(c, r)) => pc'[c] = "idle"
  BY DEF ConnectFails, GetReplyLenFails, CloseDisconnects, GetReplyBodyFails, Return
<1>4. SigPipe(c) \/ Crash(c) \/ Restart(c) => pc'[c] \in {"idle", "killed"}
  BY DEF SigPipe, Crash, Restart, Exit
<1>5. GetReplyLen(c) \/ ReplyArrives(c) => pc'[c] \in {"body", "bye", "idle"}
  BY DEF GetReplyLen, ReplyArrives, GetReplyBody, Replied, Return
<1> QED BY <1>1, <1>2, <1>3, <1>4, <1>5 DEF AdvanceCall

\* Executing a call keeps the order: those of its process that are still
\* pending are on younger connections.
LEMMA OrderedExecute ==
    ASSUME IInv, Astray = {}, OrderInv, NEW k \in Conns, HandlerStep(k), ProcessCommand(k)
    PROVE  Ordered' /\ InOrderAtMostOnce'
<1> USE DEF IInv, OrderInv, TypeOK
<1> DEFINE i == hcall[k]
<1>0. /\ UNCHANGED <<clientVars, tcpVars>>
      /\ i \in Calls /\ i \in Pending(k) /\ hpc[k] = "lib"
      /\ executed' = Append(executed, i) /\ Done' = Done \cup {i}
      /\ Pending(k)' = {}
      /\ \A j \in Conns : j # k => hpc[j] = "off" /\ Pending(j)' = Pending(j)
  BY ExecuteEffect
<1>1. UNCHANGED <<req, sock, pc, cur>>
  BY <1>0 DEF clientVars
<1> HIDE DEF i
<1>2. ASSUME NEW j \in Conns, NEW b \in Pending(j)'
      PROVE  j # k /\ k < j /\ b \in Pending(j)
  <2>1. j # k /\ b \in Pending(j) /\ hpc[j] = "off"
    BY <1>0, <1>2
  <2>2. inq[j]["server"] # <<>>
    BY <2>1, NoItems DEF Pending
  <2>3. j \in Queued
    BY <2>1, <2>2 DEF Turns
  <2> QED BY <1>0, <2>1, <2>3 DEF Turns
<1>3. \A j \in Conns : \A b \in Pending(j)' : \A d \in Done' :
          req'[d].client = req'[b].client => d < b
  BY <1>0, <1>1, <1>2 DEF Ordered
<1>4. \A j, l \in Conns : \A a \in Pending(j)' : \A b \in Pending(l)' :
          j < l /\ req'[a].client = req'[b].client => a < b
  BY <1>1, <1>2 DEF Ordered
<1>5. \A c \in Clients : \A j \in Conns : \A b \in Pending(j)' :
          sock'[c] # NoSock /\ req'[b].client = c => j <= sock'[c]
  BY <1>1, <1>2 DEF Ordered
<1>6. ASSUME NEW c \in Clients, pc'[c] \in {"connect", "send", "more"}
      PROVE  /\ cur'[c] \notin Done'
             /\ \A j \in Conns : cur'[c] \in Pending(j)' => pc'[c] = "more" /\ j = sock'[c]
  <2>1. /\ cur[c] \notin Done
        /\ \A j \in Conns : cur[c] \in Pending(j) => pc[c] = "more" /\ j = sock[c]
    BY <1>1, <1>6 DEF Ordered
  <2>2. CASE cur[c] = i
    <3>1. pc[c] = "more" /\ k = sock[c]
      BY <1>0, <2>1, <2>2
    <3>2. Flow(c, k)
      BY <3>1, ClientAssumption DEF Flows
    <3> QED BY <1>0, <3>1, <3>2 DEF Flow, OnItsWay
  <2> QED BY <1>0, <1>1, <1>2, <2>1, <2>2
<1>7. InOrderAtMostOnce'
  <2>1. executed \in Seq(Calls) /\ Len(executed) \in Nat
    BY DEF ServerTypeOK
  <2>2. /\ Len(executed') = Len(executed) + 1
        /\ \A n \in 1 .. Len(executed) : executed'[n] = executed[n] /\ executed[n] \in Done
        /\ executed'[Len(executed) + 1] = i
    BY <1>0, <2>1 DEF Done, Items
  <2>3. ASSUME NEW m \in 1 .. Len(executed'), NEW n \in 1 .. Len(executed'), m < n,
               req[executed'[m]].client = req[executed'[n]].client
        PROVE  executed'[m] < executed'[n]
    <3>1. m \in 1 .. Len(executed)
      BY <2>1, <2>2, <2>3
    <3>2. CASE n = Len(executed) + 1
      BY <1>0, <2>2, <2>3, <3>1, <3>2 DEF Ordered
    <3>3. CASE n \in 1 .. Len(executed)
      BY <2>2, <2>3, <3>1, <3>3 DEF InOrderAtMostOnce
    <3> QED BY <2>1, <2>2, <3>2, <3>3
  <2> QED BY <1>1, <2>3 DEF InOrderAtMostOnce
<1> QED BY <1>3, <1>4, <1>5, <1>6, <1>7 DEF Ordered

\* Sending a command, or the first part of it, keeps the order: the process
\* has made no later call and no later connection.
LEMMA OrderedSend ==
    ASSUME IInv, Astray = {}, OrderInv, NEW c \in Clients, ClientStep(c), SendData(c)
    PROVE  Ordered'
<1> USE DEF IInv, OrderInv, TypeOK
<1>0. /\ pc[c] \in {"send", "more"} /\ sock[c] \in Conns /\ sock[c] # NoSock
      /\ UNCHANGED <<req, sock, cur>> /\ pc' = [pc EXCEPT ![c] = AfterSend(c)]
      /\ cur[c] \in Calls /\ req[cur[c]] # NoRequest /\ req[cur[c]].client = c
  BY DEF SendData, ClientTypeOK, CallsInProgress, Busy
<1>1. UNCHANGED executed /\ Done' = Done
  BY DEF ClientStep, serverVars, Done
<1>2. ASSUME NEW k \in Conns, NEW i \in Pending(k)'
      PROVE  /\ i \in Pending(k) \/ (k = sock[c] /\ i = cur[c])
             /\ i \in Calls
  <2>1. \A b \in Clients : ClientStep(b) /\ SendData(b) /\ k = sock[b] /\ i = cur[b] => b = c
    BY <1>0 DEF Sockets, SendData, AfterSend, ClientTypeOK
  <2> QED BY <1>0, <1>2, <2>1, PendingStep, PendingMade DEF OrderlyNext
<1>3. /\ \A j \in Done : j \in Calls /\ j \in Nat /\ req[j] # NoRequest
      /\ \A k \in Conns : \A i \in Pending(k) : i \in Calls /\ i \in Nat /\ req[i] # NoRequest
      /\ cur[c] \in Nat
  <2>1. \A j \in Done : j \in Calls
    BY DEF Done, Items, ServerTypeOK
  <2>2. \A i \in Calls : i \in Nat
    BY TcpAssumption DEF Calls
  <2> QED BY <1>0, <2>1, <2>2, PendingMade DEF Answered
<1>4. cur[c] \notin Done /\ \A j \in Conns : cur[c] \in Pending(j) => pc[c] = "more" /\ j = sock[c]
  BY <1>0 DEF Ordered
<1>5. /\ \A j \in Done : req[j].client = c => j < cur[c]
      /\ \A k \in Conns : \A i \in Pending(k) : req[i].client = c => i < cur[c] \/ i = cur[c]
  <2>1. \A i \in Calls : req[i] # NoRequest /\ req[i].client = c => i <= cur[c]
    BY <1>0 DEF Numbered, Busy
  <2> QED BY <1>3, <1>4, <2>1
<1>6. \A k \in Conns : \A i \in Pending(k)' : \A j \in Done' :
          req'[j].client = req'[i].client => j < i
  BY <1>0, <1>1, <1>2, <1>5 DEF Ordered
<1>7. ASSUME NEW j \in Conns, NEW k \in Conns, NEW a \in Pending(j)', NEW b \in Pending(k)',
             j < k, req[a].client = req[b].client
      PROVE  a < b
  <2>1. CASE a \in Pending(j) /\ b \in Pending(k)
    BY <1>7, <2>1 DEF Ordered
  <2>2. CASE a \in Pending(j) /\ k = sock[c] /\ b = cur[c]
    <3>1. a < cur[c] \/ a = cur[c]
      BY <1>0, <1>5, <1>7, <2>2
    <3>2. a # cur[c]
      BY <1>4, <1>7, <2>2, TcpAssumption DEF Conns
    <3> QED BY <2>2, <3>1, <3>2
  <2>3. CASE b \in Pending(k) /\ j = sock[c] /\ a = cur[c]
    <3>1. k <= sock[c]
      BY <1>0, <1>7, <2>3 DEF Ordered
    <3> QED BY <1>7, <2>3, <3>1, TcpAssumption DEF Conns
  <2>4. CASE j = sock[c] /\ k = sock[c]
    BY <1>7, <2>4, TcpAssumption DEF Conns
  <2> QED BY <1>2, <2>1, <2>2, <2>3, <2>4
<1>8. \A b \in Clients : \A k \in Conns : \A i \in Pending(k)' :
          sock'[b] # NoSock /\ req'[i].client = b => k <= sock'[b]
  BY <1>0, <1>2, TcpAssumption DEF Ordered, Conns
<1>9. ASSUME NEW b \in Clients, pc'[b] \in {"connect", "send", "more"}
      PROVE  /\ cur'[b] \notin Done'
             /\ \A k \in Conns : cur'[b] \in Pending(k)' => pc'[b] = "more" /\ k = sock'[b]
  <2>1. CASE b = c
    <3>1. pc'[c] = "more" /\ pc[c] = "send"
      BY <1>0, <1>9, <2>1 DEF AfterSend, ClientTypeOK
    <3> QED BY <1>0, <1>1, <1>2, <1>4, <2>1, <3>1
  <2>2. CASE b # c
    <3>1. pc'[b] = pc[b]
      BY <1>0, <2>2 DEF ClientTypeOK
    <3>2. cur[b] # cur[c]
      BY <1>0, <1>9, <2>2, <3>1 DEF CallsInProgress, Busy
    <3> QED BY <1>0, <1>1, <1>2, <1>9, <3>1, <3>2 DEF Ordered
  <2> QED BY <2>1, <2>2
<1> QED BY <1>0, <1>6, <1>7, <1>8, <1>9 DEF Ordered

LEMMA OrderedStep ==
    ASSUME IInv, Astray = {}, OrderInv, [OrderlyNext]_vars
    PROVE  Ordered' /\ InOrderAtMostOnce'
<1> USE DEF IInv, OrderInv, TypeOK
<1>1. ASSUME NEW k \in Conns, HandlerStep(k), ProcessCommand(k)
      PROVE  Ordered' /\ InOrderAtMostOnce'
  BY <1>1, OrderedExecute
<1>2. CASE UNCHANGED <<executed, answer>>
  <2>0. Done' = Done
    BY <1>2 DEF Done
  <2>m. /\ \A j \in Done : j \in Calls /\ req'[j] = req[j]
        /\ \A k \in Conns : \A i \in Pending(k) : i \in Calls /\ req'[i] = req[i]
    <3>1. \A j \in Done : j \in Calls
      BY DEF Done, Items, ServerTypeOK
    <3>2. \A i \in Calls : req[i] # NoRequest => req'[i] = req[i]
      BY RequestsStay
    <3> QED BY <3>1, <3>2, PendingMade DEF Answered
  <2>1. InOrderAtMostOnce'
    <3>1. \A n \in 1 .. Len(executed) : executed[n] \in Done
      BY DEF Done, Items
    <3> QED BY <1>2, <2>m, <3>1 DEF InOrderAtMostOnce
  <2>2. ASSUME NEW c \in Clients, ClientStep(c), SendData(c)
        PROVE  Ordered'
    BY <2>2, OrderedSend
  <2>3. CASE ~(\E c \in Clients : ClientStep(c) /\ SendData(c))
    <3>1. \A k \in Conns : Pending(k)' \subseteq Pending(k)
      BY <2>3, PendingStep
    <3>2. \A k \in Conns : \A i \in Pending(k)' : \A j \in Done' :
              req'[j].client = req'[i].client => j < i
      BY <2>0, <2>m, <3>1 DEF Ordered
    <3>3. \A j, k \in Conns : \A a \in Pending(j)' : \A b \in Pending(k)' :
              j < k /\ req'[a].client = req'[b].client => a < b
      BY <2>m, <3>1 DEF Ordered
    <3>4. ASSUME UNCHANGED clientVars
          PROVE  Ordered'
      BY <2>0, <3>1, <3>2, <3>3, <3>4 DEF clientVars, Ordered
    <3>5. ASSUME NEW c \in Clients, MakeCall(c)
          PROVE  Ordered'
      <4>1. PICK i \in Calls :
              /\ req[i] = NoRequest
              /\ \/ /\ \E p \in {"connect", "send"} : pc' = [pc EXCEPT ![c] = p]
                    /\ cur' = [cur EXCEPT ![c] = i]
                 \/ UNCHANGED <<pc, cur, held>>
        BY <3>5, MakeCallEffect
      <4>2. UNCHANGED sock
        BY <3>5, MakeCallEffect
      <4>3. i \notin Done /\ \A k \in Conns : i \notin Pending(k)
        BY <4>1, PendingMade DEF Answered
      <4>4. \A b \in Clients : \A k \in Conns : \A j \in Pending(k)' :
                sock'[b] # NoSock /\ req'[j].client = b => k <= sock'[b]
        BY <2>m, <3>1, <4>2 DEF Ordered
      <4>5. ASSUME NEW b \in Clients, pc'[b] \in {"connect", "send", "more"}
            PROVE  /\ cur'[b] \notin Done'
                   /\ \A k \in Conns : cur'[b] \in Pending(k)' => pc'[b] = "more" /\ k = sock'[b]
        <5>1. (cur'[b] = cur[b] /\ pc'[b] = pc[b]) \/ cur'[b] = i
          BY <4>1 DEF ClientTypeOK
        <5> QED BY <2>0, <3>1, <4>2, <4>3, <4>5, <5>1 DEF Ordered
      <4> QED BY <3>2, <3>3, <4>4, <4>5 DEF Ordered
    <3>6. ASSUME NEW c \in Clients, AdvanceCall(c) \/ Crash(c) \/ Restart(c), ~SendData(c)
          PROVE  Ordered'
      <4>0. \A b \in Clients : b # c => sock'[b] = sock[b] /\ pc'[b] = pc[b] /\ cur'[b] = cur[b]
        BY <3>6, SocketEffect
      <4>1. ASSUME NEW b \in Clients, NEW k \in Conns, NEW j \in Pending(k)',
                   sock'[b] # NoSock, req'[j].client = b
            PROVE  k <= sock'[b]
        <5>1. CASE sock'[b] = sock[b]
          BY <2>m, <3>1, <4>1, <5>1 DEF Ordered
        <5>2. CASE sock'[b] # sock[b]
          <6>1. b = c /\ ConnectToServer(c)
            BY <3>6, <4>0, <4>1, <5>2, SocketEffect
          <6>2. PICK m \in Conns : Establish(m) /\ sock' = [sock EXCEPT ![c] = m]
            BY <6>1 DEF ConnectToServer
          <6>3. k < m
            BY <3>1, <4>1, <6>2, ConnectsLast
          <6>4. sock'[b] = m
            BY <6>1, <6>2 DEF ClientTypeOK
          <6> QED BY <6>3, <6>4, TcpAssumption DEF Conns
        <5> QED BY <5>1, <5>2
      <4>2. ASSUME NEW b \in Clients, pc'[b] \in {"connect", "send", "more"}
            PROVE  /\ cur'[b] \notin Done'
                   /\ \A k \in Conns : cur'[b] \in Pending(k)' => pc'[b] = "more" /\ k = sock'[b]
        <5>1. CASE b = c
          <6>1. cur'[c] = cur[c] /\ pc[c] \in {"connect", "send"}
            BY <3>6, <4>2, <5>1, SendingNext
          <6> QED BY <2>0, <3>1, <5>1, <6>1 DEF Ordered
        <5>2. CASE b # c
          BY <2>0, <3>1, <4>0, <4>2, <5>2 DEF Ordered
        <5> QED BY <5>1, <5>2
      <4> QED BY <3>2, <3>3, <4>1, <4>2 DEF Ordered
    <3> QED BY <2>1, <2>3, <3>4, <3>5, <3>6
            DEF OrderlyNext, ClientStep, MainStep, HandlerStep, NetworkStep, vars
  <2> QED BY <2>1, <2>2, <2>3
<1> QED BY <1>1, <1>2, ExecutedStep

-----------------------------------------------------------------------------
(* What calls return. *)

\* The reply that a process reads is the answer to its call.
LEMMA ArrivingOwn ==
    ASSUME IInv, Astray = {}, NEW c \in Clients, ReplyArrives(c)
    PROVE  Arriving(c) = {answer[cur[c]]} /\ answer[cur[c]] \in Reply
<1> USE DEF IInv, TypeOK
<1>1. sock[c] \in Conns /\ sock[c] # NoSock /\ inq[sock[c]]["client"] # <<>>
  BY DEF ReplyArrives, ClientTypeOK
<1>2. inq[sock[c]]["client"] \in Seq(Item)
  BY <1>1 DEF TcpTypeOK, Ends
<1>3. inq[sock[c]]["client"][1].call = cur[c]
  BY <1>1, <1>2, FlowIsOwn DEF Flows, Flow
<1>4. Head(inq[sock[c]]["client"]) = inq[sock[c]]["client"][1]
  BY <1>1, <1>2
<1> QED BY <1>3, <1>4, ArrivingType DEF Arriving, Astray

\* A call gets its outcome when it returns; it is told of success only if that
\* is what it was answered, or if it had to make up the reply.
LEMMA OutcomeEffect ==
    ASSUME IInv, Astray = {}, Answered, NEW c \in Clients, AdvanceCall(c) \/ Crash(c) \/ Restart(c)
    PROVE  /\ \/ UNCHANGED outcome
              \/ /\ pc[c] \in Busy /\ pc'[c] \notin Busy
                 /\ \E s \in {"STATUS_NOERROR", "ERR_FAILED", "lost"} :
                      /\ outcome' = [outcome EXCEPT ![cur[c]] = s]
                      /\ s = "STATUS_NOERROR" =>
                           \/ ReplySplit
                           \/ /\ answer[cur[c]] \in Reply
                              /\ answer[cur[c]].status = "STATUS_NOERROR"
           /\ pc'[c] = "bye" => /\ cur'[c] = cur[c] /\ answer[cur[c]] \in Reply
                                /\ answer[cur[c]].status = "STATUS_NOERROR"
<1> USE DEF IInv, TypeOK, ClientTypeOK
<1>1. CASE ConnectToServer(c) \/ SendData(c) \/ SendDataFails(c) \/ GetReplyLen(c) \/ Restart(c)
  BY <1>1, AfterSendType DEF ConnectToServer, SendData, SendDataFails, GetReplyLen, Restart
<1>2. CASE ConnectFails(c) \/ GetReplyLenFails(c)
  BY <1>2 DEF ConnectFails, GetReplyLenFails, Return, Busy
<1>3. CASE CloseDisconnects(c)
  BY <1>3 DEF CloseDisconnects, Return, Busy, Answered
<1>4. CASE \E r \in Reply : GetReplyBodyFails(c, r)
  <2>1. PICK r \in Reply : GetReplyBodyFails(c, r)
    BY <1>4
  <2>2. r.status \in {"STATUS_NOERROR", "ERR_FAILED"}
    BY DEF Reply, Status
  <2> QED BY <2>1, <2>2 DEF GetReplyBodyFails, Return, Busy
<1>5. CASE ReplyArrives(c)
  <2> DEFINE r == answer[cur[c]]
  <2>1. /\ GetReplyBody(c, r) /\ r \in Reply
        /\ r.status \in {"STATUS_NOERROR", "ERR_FAILED"}
    BY <1>5, ArrivingOwn DEF Reply, Status, ReplyArrives
  <2>2. CASE Return(c, r.status, r.dev)
    BY <2>1, <2>2 DEF GetReplyBody, Return, Busy
  <2>3. CASE ~Return(c, r.status, r.dev)
    BY <2>1, <2>3 DEF GetReplyBody, Replied
  <2> QED BY <2>2, <2>3
<1>6. CASE SigPipe(c) \/ Crash(c)
  <2>1. pc'[c] \in {"idle", "killed"}
    BY <1>6 DEF SigPipe, Crash, Exit
  <2>2. outcome' = IF cur[c] = NoCall THEN outcome ELSE [outcome EXCEPT ![cur[c]] = "lost"]
    BY <1>6 DEF SigPipe, Crash, Exit
  <2>3. cur[c] # NoCall => pc[c] \in Busy
    BY DEF CallsInProgress
  <2> QED BY <2>1, <2>2, <2>3 DEF Busy
<1> QED BY <1>1, <1>2, <1>3, <1>4, <1>5, <1>6 DEF AdvanceCall

LEMMA AnsweredStep ==
    ASSUME IInv, Astray = {}, OrderInv, [OrderlyNext]_vars
    PROVE  Answered'
<1> USE DEF IInv, OrderInv, TypeOK, ClientTypeOK, ServerTypeOK
<1>0. \A j \in Done : j \in Calls
  BY DEF Done, Items
<1>1. ASSUME NEW k \in Conns, HandlerStep(k), ProcessCommand(k)
      PROVE  Answered'
  <2>1. PICK a \in Answers(req[hcall[k]]) :
          answer' = [answer EXCEPT ![hcall[k]] = a[1]] /\ a[1] \in Reply
    BY <1>1, ExecuteEffect
  <2>2. /\ UNCHANGED clientVars /\ hcall[k] \in Calls /\ Done' = Done \cup {hcall[k]}
        /\ req[hcall[k]] # NoRequest
    BY <1>1, ExecuteEffect, RequestAssumption
  <2>3. hcall[k] \notin Done
    <3>1. hcall[k] \in Pending(k)
      BY <1>1, ExecuteEffect
    <3>2. hcall[k] \in Nat
      BY <2>2, TcpAssumption DEF Calls
    <3>3. ~(hcall[k] < hcall[k])
      BY <3>2
    <3> QED BY <1>1, <3>1, <3>3 DEF Ordered
  <2>4. UNCHANGED <<pc, cur, req, outcome>>
    BY <2>2 DEF clientVars
  <2>5. \A i \in Calls : answer'[i] \in Reply <=> i \in Done'
    BY <2>1, <2>2 DEF Answered
  <2>6. \A c \in Clients : pc[c] = "bye" => cur[c] # hcall[k]
    BY <2>2, <2>3 DEF Answered, CallsInProgress, Busy
  <2>7. \A c \in Clients : pc'[c] = "bye" =>
            answer'[cur'[c]] \in Reply /\ answer'[cur'[c]].status = "STATUS_NOERROR"
    <3>1. \A c \in Clients : pc[c] = "bye" => cur[c] \in Calls
      BY DEF CallsInProgress, Busy
    <3> QED BY <2>1, <2>4, <2>6, <3>1 DEF Answered
  <2> QED BY <2>2, <2>4, <2>5, <2>7 DEF Answered
<1>2. CASE UNCHANGED <<executed, answer>>
  <2>0. Done' = Done /\ UNCHANGED answer
    BY <1>2 DEF Done
  <2>1. CASE UNCHANGED clientVars
    BY <2>0, <2>1 DEF clientVars, Answered
  <2>2. ASSUME NEW c \in Clients, MakeCall(c)
        PROVE  Answered'
    <3>1. PICK i \in Calls :
            /\ req[i] = NoRequest /\ req'[i] \in Request
            /\ \A j \in Calls : j # i => req'[j] = req[j]
            /\ \/ /\ \E p \in {"connect", "send"} : pc' = [pc EXCEPT ![c] = p]
                  /\ cur' = [cur EXCEPT ![c] = i]
                  /\ UNCHANGED outcome
               \/ /\ UNCHANGED <<pc, cur, held>>
                  /\ outcome' = [outcome EXCEPT ![i] = "ERR_FAILED"]
      BY <2>2, MakeCallEffect
    <3>2. req'[i] # NoRequest /\ outcome[i] = "none" /\ i \notin Done
      BY <3>1, RequestAssumption DEF Answered
    <3>3. \A b \in Clients : pc[b] \in Busy => cur[b] \in Calls /\ cur[b] # i
      BY <3>1 DEF CallsInProgress
    <3>4. \A j \in Calls : j \in Done' \/ outcome'[j] # "none" => req'[j] # NoRequest
      BY <2>0, <3>1, <3>2 DEF Answered
    <3>5. \A b \in Clients : pc'[b] \in Busy => outcome'[cur'[b]] = "none"
      BY <3>1, <3>2, <3>3 DEF Answered
    <3>6. \A b \in Clients : pc'[b] = "bye" => pc[b] = "bye" /\ cur'[b] = cur[b]
      BY <3>1
    <3> QED BY <2>0, <3>4, <3>5, <3>6 DEF Answered
  <2>3. ASSUME NEW c \in Clients, AdvanceCall(c) \/ Crash(c) \/ Restart(c)
        PROVE  Answered'
    <3>0. /\ UNCHANGED req
          /\ \A b \in Clients : b # c => pc'[b] = pc[b] /\ cur'[b] = cur[b]
          /\ pc'[c] \in Busy => cur'[c] = cur[c] /\ pc[c] \in Busy
      BY <2>3, CallEffect, SocketEffect DEF Restart, Busy
    <3>1. \A b \in Clients : pc[b] \in Busy =>
              cur[b] \in Calls /\ req[cur[b]] # NoRequest /\ (b # c /\ pc[c] \in Busy => cur[b] # cur[c])
      BY DEF CallsInProgress
    <3>2. \/ UNCHANGED outcome
          \/ /\ pc[c] \in Busy /\ pc'[c] \notin Busy
             /\ \E s : outcome' = [outcome EXCEPT ![cur[c]] = s]
      BY <2>3, OutcomeEffect
    <3>3. \A b \in Clients : pc'[b] = "bye" =>
              answer'[cur'[b]] \in Reply /\ answer'[cur'[b]].status = "STATUS_NOERROR"
      BY <2>0, <2>3, <3>0, OutcomeEffect DEF Answered
    <3>4. \A j \in Calls : j \in Done' \/ outcome'[j] # "none" => req'[j] # NoRequest
      BY <2>0, <3>0, <3>1, <3>2 DEF Answered
    <3>5. \A b \in Clients : pc'[b] \in Busy => outcome'[cur'[b]] = "none"
      BY <3>0, <3>1, <3>2 DEF Answered
    <3> QED BY <2>0, <3>3, <3>4, <3>5 DEF Answered
  <2> QED BY <2>1, <2>2, <2>3
          DEF OrderlyNext, ClientStep, MainStep, HandlerStep, NetworkStep, vars
<1> QED BY <1>1, <1>2, ExecutedStep

-----------------------------------------------------------------------------
(* The invariant, and what follows from it. *)

LEMMA InitOrder ==
    ASSUME Init
    PROVE  OrderInv
<1> USE DEF Init, TcpInit, ClientInit, ServerInit
<1>1. Done = {} /\ Queued = {} /\ \A k \in Conns : Pending(k) = {}
  <2>1. Done = {} /\ Queued = {}
    BY NoItems DEF Done, Queued
  <2>2. \A k \in Conns : inq[k]["server"] = <<>> /\ hpc[k] = "off"
    BY DEF Ends
  <2>3. \A k \in Conns : Items(inq[k]["server"]) = {}
    BY <2>2, NoItems
  <2> QED BY <2>1, <2>2, <2>3 DEF Pending
<1>2. Numbered
  BY DEF Numbered, Busy, Ends
<1>3. Turns
  BY <1>1 DEF Turns, Ends
<1>4. Lifetime
  BY DEF Lifetime
<1>5. OneCommand
  BY DEF OneCommand, AtServer, Ends
<1>6. Ordered
  BY <1>1 DEF Ordered
<1>7. Answered
  <2>1. \A i \in Calls : answer[i] \notin Reply /\ outcome[i] = "none"
    BY ServerAssumption
  <2> QED BY <1>1, <2>1 DEF Answered, Busy
<1>8. InOrderAtMostOnce
  BY DEF InOrderAtMostOnce
<1> QED BY <1>2, <1>3, <1>4, <1>5, <1>6, <1>7, <1>8 DEF OrderInv

LEMMA OrderInvOrderly ==
    ASSUME IInv, IInv', OrderInv, [OrderlyNext]_vars
    PROVE  OrderInv'
<1> USE DEF OrderInv
<1>0. Astray' = Astray
  BY OrderlyStep DEF Astray
<1>1. Numbered'
  BY NumberedStep
<1>2. Turns'
  BY TurnsStep
<1>3. Lifetime'
  BY LifetimeStep
<1>4. OneCommand'
  BY OneCommandStep
<1>5. Astray = {} => Ordered' /\ InOrderAtMostOnce'
  BY OrderedStep
<1>6. Astray = {} => Answered'
  BY AnsweredStep
<1>7. InOrderAtMostOnce'
  BY <1>0, <1>5 DEF InOrderAtMostOnce
<1> QED BY <1>0, <1>1, <1>2, <1>3, <1>4, <1>5, <1>6, <1>7

\* An end that goes astray spoils its own connection, and the order of the
\* calls; the connections still have their turns.
LEMMA OrderInvClientAstray ==
    ASSUME IInv, OrderInv, NEW c \in Clients, ClientAstray(c)
    PROVE  OrderInv' /\ Astray' # {}
<1> USE DEF IInv, OrderInv
<1>1. /\ UNCHANGED serverVars /\ UNCHANGED req /\ UNCHANGED <<backlog, listening>>
      /\ pc[c] \in Busy /\ sock[c] \in Conns /\ sock[c] \in Astray'
      /\ Astray \subseteq Astray' /\ st[sock[c]]["client"] = "open"
      /\ \/ pc' = [pc EXCEPT ![c] = "idle"] /\ cur' = [cur EXCEPT ![c] = NoCall]
         \/ pc' = [pc EXCEPT ![c] = "bye"] /\ UNCHANGED cur
  BY ClientAstrayEffect, ClientAssumption DEF Busy, Astray, Sockets
<1>2. \A j \in Conns : /\ inq'[j]["server"] = inq[j]["server"]
                       /\ st'[j]["server"] = st[j]["server"]
                       /\ st'[j]["client"] = "none" => st[j]["client"] = "none"
                       /\ j # sock[c] => st'[j]["client"] = st[j]["client"]
  BY ClientAstrayEffect DEF Ends
<1>3. UNCHANGED <<hpc, hcall, loaded, mainPc>>
  BY <1>1 DEF serverVars
<1>4. Numbered'
  <2>1. \A b \in Clients : pc'[b] \in Busy => pc[b] \in Busy /\ cur'[b] = cur[b]
    BY <1>1 DEF Busy, TypeOK, ClientTypeOK
  <2>2. \A j \in Conns : st'[j]["client"] # "none" <=> st[j]["client"] # "none"
    BY <1>1, <1>2
  <2> QED BY <1>1, <2>1, <2>2 DEF Numbered
<1>5. Turns'
  BY <1>1, <1>2, <1>3 DEF Turns, Queued
<1>6. Lifetime'
  BY <1>1, <1>3 DEF Lifetime
<1>7. OneCommand'
  BY <1>1, <1>2, <1>3 DEF OneCommand
<1>8. InOrderAtMostOnce'
  BY <1>1 DEF InOrderAtMostOnce
<1> QED BY <1>1, <1>4, <1>5, <1>6, <1>7, <1>8

LEMMA OrderInvHandlerAstray ==
    ASSUME IInv, OrderInv, NEW k \in Conns, HandlerAstray(k)
    PROVE  OrderInv' /\ Astray' # {}
<1> USE DEF IInv, OrderInv
<1>1. /\ UNCHANGED clientVars /\ UNCHANGED mainVars /\ UNCHANGED <<st, backlog, listening>>
      /\ k \in Astray' /\ Astray \subseteq Astray'
      /\ hpc[k] # "off" /\ hpc'[k] # "off"
  BY HandlerAstrayEffect DEF Astray
<1>2. \A j \in Conns : /\ j # k => /\ inq'[j] = inq[j]
                                   /\ hpc'[j] = hpc[j] /\ hcall'[j] = hcall[j]
                       /\ inq[j]["server"] = <<>> => inq'[j]["server"] = <<>>
  BY HandlerAstrayEffect
<1>3. UNCHANGED <<pc, cur, req, loaded, mainPc>>
  BY <1>1 DEF clientVars, mainVars
<1>4. Numbered'
  BY <1>1, <1>3 DEF Numbered
<1>5. Turns'
  <2>1. \A j \in Conns : hpc'[j] # "off" <=> hpc[j] # "off"
    BY <1>1, <1>2
  <2> QED BY <1>1, <1>2, <2>1 DEF Turns, Queued
<1>6. Lifetime'
  BY <1>1, <1>3 DEF Lifetime
<1>7. OneCommand'
  BY <1>1, <1>2 DEF OneCommand
<1>8. InOrderAtMostOnce'
  BY <1>1 DEF InOrderAtMostOnce
<1> QED BY <1>1, <1>4, <1>5, <1>6, <1>7, <1>8

LEMMA OrderInvStep ==
    ASSUME IInv, IInv', OrderInv, [Next]_vars
    PROVE  OrderInv'
BY OrderInvOrderly, OrderInvClientAstray, OrderInvHandlerAstray DEF Next

\* As long as every packet could be received, every step was an orderly one.
LEMMA OrderlyUntil ==
    ASSUME IInv, OrderInv, [Next]_vars, Astray' = {}
    PROVE  Astray = {} /\ [OrderlyNext]_vars
<1>1. [OrderlyNext]_vars
  BY OrderInvClientAstray, OrderInvHandlerAstray DEF Next
<1>2. Astray' = Astray
  BY <1>1, OrderlyStep DEF Astray
<1> QED BY <1>1, <1>2

\* Connections are served, and the calls of a process executed and answered,
\* in the order in which they were made, over timeouts, crashes, retries and
\* restarts: the invariant that the theorems below rest on.
THEOREM OrderKept == Safety => []OrderInv
<1>1. Init => OrderInv
  BY InitOrder
<1>2. IInv /\ IInv' /\ OrderInv /\ [Next]_vars => OrderInv'
  BY OrderInvStep
<1> QED BY <1>1, <1>2, Invariance, PTL DEF Safety

\* No call is executed twice, and those of one process in the order in which
\* it made them, over all the connections it used, as long as nobody lacked
\* the memory for a packet that was to be received.
THEOREM ExecutedInOrder == Safety => []InOrderAtMostOnce
<1>1. OrderInv => InOrderAtMostOnce
  BY DEF OrderInv
<1> QED BY <1>1, OrderKept, PTL

\* The library is loaded while any client is connected or waits, and only a
\* server that has ended has unloaded it.
THEOREM LoadedWhenNeeded == Safety => []LibraryLoaded
<1>1. IInv /\ OrderInv => LibraryLoaded
  <2> SUFFICES ASSUME IInv, OrderInv, ~loaded
               PROVE  /\ \A k \in Conns : hpc[k] = "off" /\ st[k]["server"] # "open"
                      /\ ~listening
    BY DEF LibraryLoaded
  <2>1. mainPc \notin {"accept", "join"} /\ ~listening /\ backlog = <<>>
    BY DEF OrderInv, Lifetime
  <2>2. \A k \in Conns : hpc[k] = "off"
    BY <2>1 DEF IInv, OneHandler
  <2>3. Queued = {}
    BY <2>1, NoItems DEF Queued
  <2> QED BY <2>1, <2>2, <2>3 DEF OrderInv, Turns
<1> QED BY <1>1, Invariance, OrderKept, PTL

\* A call that was told of success stays executed with that answer.
LEMMA SuccessStep ==
    ASSUME ~ReplySplit, IInv, Astray = {}, OrderInv, SuccessIsReal, [OrderlyNext]_vars
    PROVE  SuccessIsReal'
<1> USE DEF IInv, OrderInv, TypeOK, ClientTypeOK, ServerTypeOK
<1>1. ASSUME NEW k \in Conns, HandlerStep(k), ProcessCommand(k)
      PROVE  SuccessIsReal'
  <2>1. PICK a : answer' = [answer EXCEPT ![hcall[k]] = a]
    BY <1>1, ExecuteEffect
  <2>2. UNCHANGED clientVars /\ hcall[k] \in Pending(k) /\ hcall[k] \in Calls
    BY <1>1, ExecuteEffect
  <2>3. hcall[k] \notin Done
    <3>1. ~(hcall[k] < hcall[k])
      BY <2>2, TcpAssumption DEF Calls
    <3> QED BY <2>2, <3>1 DEF Ordered
  <2>4. \A i \in Calls : outcome[i] = "STATUS_NOERROR" => i # hcall[k]
    BY <2>3 DEF SuccessIsReal, Answered
  <2> QED BY <2>1, <2>2, <2>4 DEF SuccessIsReal, clientVars
<1>2. CASE UNCHANGED <<executed, answer>>
  <2>1. CASE UNCHANGED outcome
    BY <1>2, <2>1 DEF SuccessIsReal
  <2>2. ASSUME NEW c \in Clients, MakeCall(c)
        PROVE  SuccessIsReal'
    <3>1. PICK i \in Calls : UNCHANGED outcome \/ outcome' = [outcome EXCEPT ![i] = "ERR_FAILED"]
      BY <2>2, MakeCallEffect
    <3> QED BY <1>2, <3>1 DEF SuccessIsReal
  <2>3. ASSUME NEW c \in Clients, AdvanceCall(c) \/ Crash(c) \/ Restart(c), ~UNCHANGED outcome
        PROVE  SuccessIsReal'
    <3>1. PICK s \in {"STATUS_NOERROR", "ERR_FAILED", "lost"} :
             /\ outcome' = [outcome EXCEPT ![cur[c]] = s]
             /\ s = "STATUS_NOERROR" =>
                  \/ ReplySplit
                  \/ answer[cur[c]] \in Reply /\ answer[cur[c]].status = "STATUS_NOERROR"
      BY <2>3, OutcomeEffect
    <3> QED BY <1>2, <3>1, ServerAssumption DEF SuccessIsReal
  <2> QED BY <2>1, <2>2, <2>3
          DEF OrderlyNext, ClientStep, MainStep, HandlerStep, NetworkStep, vars, clientVars
<1> QED BY <1>1, <1>2, ExecutedStep

\* A call returns STATUS_NOERROR only if the library executed it and said so,
\* as long as a reply travels in one piece and every packet could be received.
THEOREM SuccessesAreReal == ASSUME ~ReplySplit PROVE Safety => []SuccessIsReal
<1>1. Init => SuccessIsReal
  BY DEF Init, ClientInit, SuccessIsReal
<1>2. IInv /\ OrderInv /\ SuccessIsReal /\ [Next]_vars => SuccessIsReal'
  <2>1. ASSUME Astray' # {} PROVE SuccessIsReal'
    BY <2>1 DEF SuccessIsReal
  <2> QED BY <2>1, OrderlyUntil, SuccessStep
<1> QED BY <1>1, <1>2, Invariance, OrderKept, PTL DEF Safety

=============================================================================
