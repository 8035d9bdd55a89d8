--------------------------- MODULE ThreadsProofs ---------------------------
(***************************************************************************)
(* Theorems about Threads, for every number of threads, descriptors,       *)
(* connections and calls.                                                  *)
(***************************************************************************)
EXTENDS ThreadsInv, TcpProofs, SequenceTheorems

-----------------------------------------------------------------------------
(* What the definitions stand for. *)

LEMMA Names ==
    /\ Conns \cap Objects = {} /\ Invalid \notin Fds
    /\ NoCall \notin Calls /\ NoConn \notin Conns
    /\ Free # New /\ Free # File /\ New # File
BY ThreadsAssumption DEF Conns, Objects, Fds, Calls

LEMMA TwoEnds == Peer("client") = "server" /\ Peer("server") = "client"
                   /\ "client" \in Ends /\ "server" \in Ends /\ Ends = {"client", "server"}
BY DEF Peer, Ends

LEMMA WhatSockIs ==
    ASSUME TypeOK
    PROVE  /\ Object \in Conns \cup Objects
           /\ Connected <=> Object \in Conns
           /\ sock = Invalid => Object = Free
           /\ sock # Invalid => sock \in Fds /\ Object = fds[sock]
BY Names DEF TypeOK, Object, Connected, Objects

LEMMA PacketIs ==
    ASSUME NEW i \in Calls
    PROVE  /\ HeadOf(i) \in Item /\ TailOf(i) \in Item
           /\ Packet(i) = <<HeadOf(i), TailOf(i)>>
           /\ Tail(Packet(i)) = <<TailOf(i)>>
           /\ Packet(i) \in Seq(Item) /\ Tail(Packet(i)) \in Seq(Item)
           /\ <<Head(Packet(i))>> \in Seq(Item)
           /\ Head(Packet(i)) = HeadOf(i)
           /\ HeadOf(i).part = "head" /\ TailOf(i).part = "tail"
           /\ HeadOf(i).call = i /\ TailOf(i).call = i
BY DEF Packet, HeadOf, TailOf, Item

LEMMA PiecesType ==
    ASSUME NEW t \in Threads, cur[t] \in Calls
    PROVE  Pieces(t) \in Seq(Item)
BY PacketIs DEF Pieces

LEMMA ActiveCall ==
    ASSUME TypeOK, Begun, NEW t \in Threads, Active(t)
    PROVE  cur[t] \in Calls /\ kind[cur[t]] \in Kinds
BY DEF Begun, TypeOK

-----------------------------------------------------------------------------
(* Every step keeps the types. *)

LEMMA CallTypes ==
    ASSUME TypeOK, NEW t \in Threads, NEW i \in Calls, NEW k \in Kinds, Call(t, i, k),
           UNCHANGED astray
    PROVE  TypeOK'
<1>1. TcpTypeOK'
  BY DEF TypeOK, TcpTypeOK, Call, tcpVars
<1>2. pc' \in [Threads -> {"idle", "socket", "connect", "send", "more", "len",
                           "body", "close", "forget", "killed"}]
  BY DEF TypeOK, Call, Goto
<1>3. {overlapped', streamed', harm'} \subseteq BOOLEAN
  BY Zenon DEF TypeOK, Call
<1>4. cur' \in [Threads -> Calls \cup {NoCall}] /\ kind' \in [Calls -> Kinds \cup {"none"}]
  BY DEF TypeOK, Call
<1> QED BY <1>1, <1>2, <1>3, <1>4 DEF TypeOK, Call, serverVars

LEMMA ReturnsTypes ==
    ASSUME TypeOK, NEW t \in Threads, NEW R \in SUBSET Calls, Returns(t, R)
    PROVE  /\ pc' \in [Threads -> {"idle", "socket", "connect", "send", "more", "len",
                                   "body", "close", "forget", "killed"}]
           /\ back' \in [Threads -> {"idle", "more", "len"}]
           /\ cur' \in [Threads -> Calls \cup {NoCall}]
           /\ kind' \in [Calls -> Kinds \cup {"none"}]
           /\ got' \in [Calls -> SUBSET Calls]
<1>1. got' \in [Calls -> SUBSET Calls]
  <2>1. CASE cur[t] \in Calls
    BY <2>1 DEF TypeOK, Returns
  <2>2. CASE cur[t] \notin Calls
    BY <2>2 DEF TypeOK, Returns
  <2> QED BY <2>1, <2>2
<1> QED BY <1>1 DEF TypeOK, Returns, Goto

LEMMA DisconnectTypes ==
    ASSUME TypeOK, NEW t \in Threads, NEW p \in {"idle", "more", "len"}, Disconnect(t, p)
    PROVE  /\ pc' \in [Threads -> {"idle", "socket", "connect", "send", "more", "len",
                                   "body", "close", "forget", "killed"}]
           /\ back' \in [Threads -> {"idle", "more", "len"}]
BY DEF TypeOK, Disconnect, Goto

LEMMA SocketTypes ==
    ASSUME TypeOK, NEW t \in Threads, MakeSocket(t) \/ MakeSocketFails(t),
           UNCHANGED astray
    PROVE  TypeOK'
<1>1. TcpTypeOK' /\ {overlapped', streamed', harm'} \subseteq BOOLEAN
  BY DEF TypeOK, TcpTypeOK, MakeSocket, MakeSocketFails, tcpVars, ghosts
<1>2. CASE MakeSocket(t)
  <2>1. PICK f \in Fds : fds' = [fds EXCEPT ![f] = New] /\ sock' = f
    BY <1>2 DEF MakeSocket
  <2> QED BY <1>1, <1>2, <2>1 DEF TypeOK, MakeSocket, Goto, serverVars, Objects
<1>3. CASE MakeSocketFails(t)
  <2>1. Returns(t, {})
    BY <1>3 DEF MakeSocketFails
  <2> QED BY <1>1, <1>3, <2>1, ReturnsTypes DEF TypeOK, MakeSocketFails, serverVars
<1> QED BY <1>2, <1>3

LEMMA ConnectTypes ==
    ASSUME TypeOK, NEW t \in Threads, Connect(t) \/ ConnectFails(t),
           UNCHANGED astray
    PROVE  TypeOK'
<1>1. CASE Connect(t)
  <2>1. PICK k \in Conns : Establish(k) /\ fds' = [fds EXCEPT ![sock] = k]
    BY <1>1 DEF Connect
  <2>2. TcpTypeOK'
    BY <2>1, EstablishType DEF TypeOK
  <2>3. fds' \in [Fds -> Conns \cup Objects]
    BY <2>1 DEF TypeOK
  <2>4. {overlapped', streamed', harm'} \subseteq BOOLEAN
    BY <1>1 DEF TypeOK, Connect, ghosts
  <2> QED BY <1>1, <2>2, <2>3, <2>4 DEF TypeOK, Connect, Goto, serverVars
<1>2. CASE ConnectFails(t)
  <2>1. TcpTypeOK' /\ {overlapped', streamed', harm'} \subseteq BOOLEAN
    BY <1>2 DEF TypeOK, TcpTypeOK, ConnectFails, tcpVars, ghosts
  <2> QED BY <1>2, <2>1, DisconnectTypes DEF TypeOK, ConnectFails, serverVars
<1> QED BY <1>1, <1>2

LEMMA DisconnectServerTypes ==
    ASSUME TypeOK, NEW t \in Threads, CloseSock(t) \/ ForgetSock(t),
           UNCHANGED astray
    PROVE  TypeOK'
<1>1. CASE CloseSock(t)
  <2>1. TcpTypeOK'
    <3>1. CASE Connected
      BY <1>1, <3>1, WhatSockIs, CloseType DEF TypeOK, CloseSock, Ends
    <3>2. CASE ~Connected
      BY <1>1, <3>2 DEF TypeOK, TcpTypeOK, CloseSock, tcpVars
    <3> QED BY <3>1, <3>2
  <2>2. fds' \in [Fds -> Conns \cup Objects]
    BY <1>1 DEF TypeOK, CloseSock, Objects
  <2>3. {overlapped', streamed', harm'} \subseteq BOOLEAN
    BY <1>1, Zenon DEF TypeOK, CloseSock
  <2> QED BY <1>1, <2>1, <2>2, <2>3 DEF TypeOK, CloseSock, Goto, serverVars
<1>2. CASE ForgetSock(t)
  <2>1. TcpTypeOK' /\ {overlapped', streamed', harm'} \subseteq BOOLEAN
    BY <1>2 DEF TypeOK, TcpTypeOK, ForgetSock, tcpVars, ghosts
  <2>2. CASE back[t] = "idle"
    BY <1>2, <2>1, <2>2, ReturnsTypes DEF TypeOK, ForgetSock, GoOn, serverVars
  <2>3. CASE back[t] # "idle"
    BY <1>2, <2>1, <2>3 DEF TypeOK, ForgetSock, GoOn, Goto, serverVars
  <2> QED BY <2>2, <2>3
<1> QED BY <1>1, <1>2

LEMMA SendTypes ==
    ASSUME TypeOK, Begun, NEW t \in Threads,
           SendData(t) \/ SendDataFails(t) \/ SigPipe(t), UNCHANGED astray
    PROVE  TypeOK'
<1>1. CASE SendData(t)
  <2>1. TcpTypeOK'
    <3>1. Object \in Conns /\ Send(Object, "client", Pieces(t))
      BY <1>1, WhatSockIs DEF SendData
    <3>2. Pieces(t) \in Seq(Item)
      BY <1>1, ActiveCall, PiecesType DEF SendData, Active
    <3> QED BY <3>1, <3>2, SendType DEF TypeOK, Ends
  <2>2. {overlapped', streamed', harm'} \subseteq BOOLEAN
    BY <1>1 DEF TypeOK, SendData, ghosts
  <2> QED BY <1>1, <2>1, <2>2 DEF TypeOK, SendData, Goto, AfterSend, serverVars
<1>2. CASE SendDataFails(t)
  <2>1. TcpTypeOK' /\ {overlapped', streamed', harm'} \subseteq BOOLEAN
    BY <1>2 DEF TypeOK, TcpTypeOK, SendDataFails, tcpVars, ghosts
  <2>2. AfterSend(t) \in {"idle", "more", "len"}
    BY DEF AfterSend
  <2> QED BY <1>2, <2>1, <2>2, DisconnectTypes DEF TypeOK, SendDataFails, serverVars
<1>3. CASE SigPipe(t)
  <2>1. PICK K, R : CloseAll(K, "client", R)
    BY <1>3 DEF SigPipe
  <2>2. TcpTypeOK'
    BY <1>3, <2>1, CloseAllType DEF TypeOK, TcpTypeOK, SigPipe, Ends
  <2>3. {overlapped', streamed', harm'} \subseteq BOOLEAN
    BY <1>3 DEF TypeOK, SigPipe, ghosts
  <2> QED BY <1>3, <2>2, <2>3 DEF TypeOK, SigPipe, serverVars, Objects
<1> QED BY <1>1, <1>2, <1>3

LEMMA GetReplyTypes ==
    ASSUME TypeOK, Begun, NEW t \in Threads, GetReply(t) \/ GetReplyFails(t),
           UNCHANGED astray
    PROVE  TypeOK'
<1>1. CASE GetReply(t)
  <2>1. PICK part : Receive(Object, "client", part)
    BY <1>1 DEF GetReply
  <2>2. Object \in Conns /\ TcpTypeOK'
    BY <1>1, <2>1, WhatSockIs, ReceiveType DEF GetReply, TypeOK, Ends
  <2>3. Head(inq[Object]["client"]).call \in Calls
    <3>1. inq[Object]["client"] \in Seq(Item) /\ inq[Object]["client"] # <<>>
      BY <2>1, <2>2 DEF Receive, TypeOK, TcpTypeOK, Ends
    <3>2. Head(inq[Object]["client"]) \in Item
      BY <3>1
    <3> QED BY <3>2 DEF Item
  <2> DEFINE R == {Head(inq[Object]["client"]).call}
  <2>4. R \in SUBSET Calls
    BY <2>3
  <2>5. /\ pc' \in [Threads -> {"idle", "socket", "connect", "send", "more", "len",
                                "body", "close", "forget", "killed"}]
        /\ back' \in [Threads -> {"idle", "more", "len"}]
        /\ cur' \in [Threads -> Calls \cup {NoCall}]
        /\ kind' \in [Calls -> Kinds \cup {"none"}]
        /\ got' \in [Calls -> SUBSET Calls]
    <3>1. CASE pc[t] = "len"
      BY <1>1, <2>4, <3>1 DEF GetReply, Goto, TypeOK
    <3>2. CASE pc[t] # "len" /\ kind[cur[t]] = "CLOSE"
      <4>1. Disconnect(t, "idle") /\ UNCHANGED <<cur, kind>>
        BY <1>1, <3>2, Zenon DEF GetReply
      <4>2. got' = [got EXCEPT ![cur[t]] = @ \cup R]
        BY <1>1, <3>2 DEF GetReply
      <4>3. cur[t] \in Calls
        BY <1>1, ActiveCall DEF GetReply, Active
      <4> QED BY <2>4, <4>1, <4>2, <4>3, DisconnectTypes DEF TypeOK
    <3>3. CASE pc[t] # "len" /\ kind[cur[t]] # "CLOSE"
      <4>1. Returns(t, R)
        BY <1>1, <3>3 DEF GetReply
      <4> QED BY <2>4, <4>1, ReturnsTypes
    <3> QED BY <3>1, <3>2, <3>3
  <2>6. {overlapped', streamed', harm'} \subseteq BOOLEAN
    BY <1>1 DEF TypeOK, GetReply, ghosts
  <2>7. UNCHANGED <<sock, fds, serverVars>>
    BY <1>1 DEF GetReply
  <2> QED BY <2>2, <2>5, <2>6, <2>7 DEF TypeOK, serverVars
<1>2. CASE GetReplyFails(t)
  <2>1. TcpTypeOK' /\ {overlapped', streamed', harm'} \subseteq BOOLEAN
    BY <1>2 DEF TypeOK, TcpTypeOK, GetReplyFails, tcpVars, ghosts
  <2> QED BY <1>2, <2>1, DisconnectTypes DEF TypeOK, GetReplyFails, serverVars
<1> QED BY <1>1, <1>2

\* Whatever getReply gets on a connection with the rest of a reply on it.
LEMMA AstrayGets ==
    ASSUME TypeOK, NEW t \in Threads, GetReplyAstray(t)
    PROVE  /\ pc[t] = "len" /\ Connected /\ Object \in Conns /\ Object \in astray
           /\ UNCHANGED <<sock, fds, serverVars, ghosts>>
           /\ \E n \in Nat, R \in SUBSET Calls :
                /\ ReceiveSome(Object, "client", n)
                /\ \/ Returns(t, R)
                   \/ /\ Disconnect(t, "idle")
                      /\ got' = [got EXCEPT ![cur[t]] = R]
                      /\ UNCHANGED <<cur, kind>>
<1> DEFINE q    == inq[Object]["client"]
           R(n) == {q[m].call : m \in {l \in 1 .. Len(q) : l <= n + 1}}
<1>1. /\ pc[t] = "len" /\ Connected /\ Object \in astray
      /\ UNCHANGED <<sock, fds, serverVars, ghosts>>
  BY DEF GetReplyAstray
<1>2. Object \in Conns
  BY <1>1, WhatSockIs
<1>3. q \in Seq(Item)
  BY <1>2 DEF TypeOK, TcpTypeOK, Ends
<1>4. PICK n \in 0 .. Len(q) :
        /\ ReceiveSome(Object, "client", n)
        /\ \/ Returns(t, {})
           \/ Returns(t, R(n))
           \/ /\ Disconnect(t, "idle")
              /\ got' = [got EXCEPT ![cur[t]] = R(n)]
              /\ UNCHANGED <<cur, kind>>
  BY Zenon DEF GetReplyAstray
<1>5. n \in Nat
  BY <1>3
<1>6. \A m \in 1 .. Len(q) : q[m].call \in Calls
  <2>1. \A m \in 1 .. Len(q) : q[m] \in Item
    BY <1>3
  <2> QED BY <2>1 DEF Item
<1>7. R(n) \in SUBSET Calls
  BY <1>6
<1> HIDE DEF q, R
<1>8. {} \in SUBSET Calls
  OBVIOUS
<1> QED BY <1>1, <1>2, <1>4, <1>5, <1>7, <1>8, Zenon

LEMMA LostReplyTypes ==
    ASSUME TypeOK, Begun, NEW t \in Threads,
           GetReplyAllocFails(t) \/ (GetReplyAstray(t) /\ UNCHANGED astray)
    PROVE  TypeOK'
<1>1. CASE GetReplyAllocFails(t)
  <2>1. TcpTypeOK' /\ {overlapped', streamed', harm'} \subseteq BOOLEAN
    BY <1>1 DEF TypeOK, TcpTypeOK, GetReplyAllocFails, tcpVars, ghosts
  <2>2. Object \in Conns /\ Returns(t, {}) /\ {} \in SUBSET Calls
    BY <1>1, WhatSockIs DEF GetReplyAllocFails
  <2>3. astray' \subseteq Conns
    BY <1>1, <2>2 DEF GetReplyAllocFails, TypeOK
  <2>4. UNCHANGED <<sock, fds, serverVars>>
    BY <1>1 DEF GetReplyAllocFails
  <2> QED BY <2>1, <2>2, <2>3, <2>4, ReturnsTypes DEF TypeOK, serverVars
<1>2. CASE GetReplyAstray(t) /\ UNCHANGED astray
  <2>1. PICK n \in Nat, R \in SUBSET Calls :
           /\ ReceiveSome(Object, "client", n)
           /\ \/ Returns(t, R)
              \/ /\ Disconnect(t, "idle")
                 /\ got' = [got EXCEPT ![cur[t]] = R]
                 /\ UNCHANGED <<cur, kind>>
    BY <1>2, AstrayGets, Zenon
  <2>2. Object \in Conns /\ UNCHANGED <<sock, fds, serverVars, ghosts>>
    BY <1>2, AstrayGets, Zenon
  <2>3. TcpTypeOK' /\ {overlapped', streamed', harm'} \subseteq BOOLEAN
    <3>1. TcpTypeOK'
      BY <2>1, <2>2, ReceiveSomeType, TwoEnds DEF TypeOK
    <3> QED BY <2>2, <3>1 DEF TypeOK, ghosts
  <2>4. CASE Returns(t, R)
    BY <1>2, <2>2, <2>3, <2>4, ReturnsTypes DEF TypeOK, serverVars
  <2>5. CASE /\ Disconnect(t, "idle") /\ got' = [got EXCEPT ![cur[t]] = R]
             /\ UNCHANGED <<cur, kind>>
    <3>1. got' \in [Calls -> SUBSET Calls]
      BY <2>5 DEF TypeOK
    <3> QED BY <1>2, <2>2, <2>3, <2>5, <3>1, DisconnectTypes DEF TypeOK, serverVars
  <2> QED BY <2>1, <2>4, <2>5
<1> QED BY <1>1, <1>2

LEMMA OpenFileTypes == TypeOK /\ OpenFile /\ UNCHANGED astray => TypeOK'
<1> SUFFICES ASSUME TypeOK, OpenFile, UNCHANGED astray PROVE TypeOK'
  OBVIOUS
<1>1. TcpTypeOK' /\ {overlapped', streamed', harm'} \subseteq BOOLEAN
  BY DEF TypeOK, TcpTypeOK, OpenFile, tcpVars, ghosts
<1>2. fds' \in [Fds -> Conns \cup Objects]
  BY DEF TypeOK, OpenFile, Objects
<1> QED BY <1>1, <1>2 DEF TypeOK, OpenFile, serverVars

LEMMA ServerTypes == TypeOK /\ ServerStep /\ UNCHANGED astray => TypeOK'
<1> SUFFICES ASSUME TypeOK, ServerStep, UNCHANGED astray PROVE TypeOK'
  OBVIOUS
<1>0. UNCHANGED <<threadVars, ghosts>>
  BY DEF ServerStep, AcceptClient, ReadCommand, Reply, EndClient
<1>1. {overlapped', streamed', harm'} \subseteq BOOLEAN
  BY <1>0 DEF TypeOK, ghosts
<1>2. TcpTypeOK' /\ conn' \in Conns \cup {NoConn} /\ taken' \in Item \cup {NoItem}
         /\ mixed' \subseteq Conns
  <2>1. CASE AcceptClient
    BY <2>1, TakeQueuedType DEF TypeOK, AcceptClient
  <2>2. CASE ReadCommand
    <3>1. PICK part : Receive(conn, "server", part)
      BY <2>2 DEF ReadCommand
    <3>2. conn \in Conns
      BY <2>2 DEF ReadCommand, TypeOK
    <3>3. TcpTypeOK' /\ Head(inq[conn]["server"]) \in Item
      BY <3>1, <3>2, ReceiveType DEF TypeOK, TcpTypeOK, Ends, Receive
    <3>4. taken' = Head(inq[conn]["server"])
      BY <2>2 DEF ReadCommand
    <3>5. mixed' \subseteq Conns
      BY <2>2, <3>2 DEF ReadCommand, TypeOK
    <3> QED BY <2>2, <3>3, <3>4, <3>5 DEF TypeOK, ReadCommand
  <2>3. CASE Reply
    <3>1. conn \in Conns /\ taken.call \in Calls
      BY <2>3 DEF Reply, TypeOK, Item
    <3>2. Packet(taken.call) \in Seq(Item)
      BY <3>1, PacketIs
    <3>3. TcpTypeOK'
      BY <2>3, <3>1, <3>2, SendType DEF TypeOK, Reply, Ends
    <3> QED BY <2>3, <3>3 DEF TypeOK, Reply
  <2>4. CASE EndClient
    <3>1. conn \in Conns /\ Close(conn, "server")
      BY <2>4 DEF EndClient, TypeOK
    <3> QED BY <2>4, <3>1, CloseType DEF TypeOK, EndClient, Ends
  <2> QED BY <2>1, <2>2, <2>3, <2>4 DEF ServerStep
<1> QED BY <1>0, <1>1, <1>2 DEF TypeOK, threadVars

LEMMA TypesKept ==
    ASSUME TypeOK, Begun, [Next]_vars
    PROVE  TypeOK'
<1>1. CASE UNCHANGED vars
  <2>1. UNCHANGED tcpVars /\ UNCHANGED threadVars /\ UNCHANGED serverVars /\ UNCHANGED ghosts
        /\ UNCHANGED astray
    BY <1>1 DEF vars
  <2>2. TcpTypeOK' /\ {overlapped', streamed', harm'} \subseteq BOOLEAN
    BY <2>1 DEF TypeOK, TcpTypeOK, tcpVars, ghosts
  <2> QED BY <2>1, <2>2 DEF TypeOK, threadVars, serverVars
<1>2. CASE \E t \in Threads : ThreadStep(t)
  <2>1. PICK t \in Threads : ThreadStep(t)
    BY <1>2
  <2>2. CASE OrderlyStep(t) /\ UNCHANGED astray
    BY <2>2, CallTypes, SocketTypes, ConnectTypes, DisconnectServerTypes,
       SendTypes, GetReplyTypes DEF OrderlyStep
  <2> QED BY <2>1, <2>2, LostReplyTypes DEF ThreadStep
<1>3. CASE OpenFile /\ UNCHANGED astray
  BY <1>3, OpenFileTypes
<1>4. CASE ServerStep /\ UNCHANGED astray
  BY <1>4, ServerTypes
<1> QED BY <1>1, <1>2, <1>3, <1>4 DEF Next

-----------------------------------------------------------------------------
(* Every step keeps what a thread knows of its call. *)

\* A thread that goes on in its call, or ends it.
LEMMA BegunMoves ==
    ASSUME TypeOK, Begun, NEW t \in Threads, pc[t] # "killed",
           NEW p, p # "killed", p = "idle" \/ Active(t),
           pc' = [pc EXCEPT ![t] = p],
           \A u \in Threads : u # t => cur'[u] = cur[u] /\ back'[u] = back[u],
           p # "idle" => cur'[t] = cur[t],
           p = "more" => kind[cur[t]] = "STREAMED",
           p \in {"close", "forget"} /\ back'[t] = "more" => kind[cur[t]] = "STREAMED",
           UNCHANGED kind
    PROVE  Begun'
<1>0. /\ pc'[t] = p
      /\ \A u \in Threads : u # t => pc'[u] = pc[u]
  BY DEF TypeOK
<1>1. ASSUME NEW u \in Threads, Active(u)'
      PROVE  Active(u) /\ cur'[u] = cur[u]
  BY <1>0, <1>1 DEF Active
<1>2. ASSUME NEW u \in Threads, Active(u)'
      PROVE  cur'[u] \in Calls /\ kind'[cur'[u]] # "none"
  BY <1>1, <1>2 DEF Begun
<1>3. ASSUME NEW u \in Threads,
             pc'[u] = "more" \/ (pc'[u] \in {"close", "forget"} /\ back'[u] = "more")
      PROVE  kind'[cur'[u]] = "STREAMED"
  <2>1. CASE u = t
    BY <1>0, <1>3, <2>1
  <2>2. CASE u # t
    BY <1>0, <1>3, <2>2 DEF Begun
  <2> QED BY <2>1, <2>2
<1>4. ASSUME NEW u \in Threads, NEW v \in Threads, pc'[u] = "killed"
      PROVE  pc'[v] = "killed"
  BY <1>0, <1>4 DEF Begun
<1> QED BY <1>2, <1>3, <1>4 DEF Begun

LEMMA CallBegun ==
    ASSUME TypeOK, Begun, NEW t \in Threads, NEW i \in Calls, NEW k \in Kinds, Call(t, i, k)
    PROVE  Begun'
<1>0. /\ pc'[t] \in {"socket", "send"} /\ cur'[t] = i /\ kind'[i] = k
      /\ \A u \in Threads : u # t => pc'[u] = pc[u] /\ cur'[u] = cur[u]
      /\ UNCHANGED back /\ pc[t] = "idle" /\ kind[i] = "none"
      /\ \A j \in Calls : j # i => kind'[j] = kind[j]
  BY DEF TypeOK, Call, Goto
<1>1. k # "none"
  BY DEF Kinds
<1>2. ASSUME NEW u \in Threads, u # t, Active(u)'
      PROVE  /\ Active(u) /\ cur'[u] = cur[u] /\ cur[u] \in Calls /\ kind[cur[u]] # "none"
             /\ kind'[cur'[u]] = kind[cur[u]]
  BY <1>0, <1>2 DEF Active, Begun
<1>3. ASSUME NEW u \in Threads, Active(u)'
      PROVE  cur'[u] \in Calls /\ kind'[cur'[u]] # "none"
  BY <1>0, <1>1, <1>2, <1>3
<1>4. ASSUME NEW u \in Threads,
             pc'[u] = "more" \/ (pc'[u] \in {"close", "forget"} /\ back'[u] = "more")
      PROVE  kind'[cur'[u]] = "STREAMED"
  <2>1. u # t /\ Active(u)'
    BY <1>0, <1>4 DEF Active
  <2> QED BY <1>0, <1>2, <1>4, <2>1 DEF Begun
<1>5. ASSUME NEW u \in Threads, NEW v \in Threads, pc'[u] = "killed"
      PROVE  pc'[v] = "killed"
  BY <1>0, <1>5 DEF Begun
<1> QED BY <1>3, <1>4, <1>5 DEF Begun

LEMMA ThreadBegun ==
    ASSUME TypeOK, Begun, NEW t \in Threads, ThreadStep(t)
    PROVE  Begun'
<1>1. CASE \E i \in Calls, k \in Kinds : Call(t, i, k)
  BY <1>1, CallBegun
<1>2. ASSUME MakeSocket(t) PROVE Begun'
  <2>1. pc[t] = "socket" /\ pc' = [pc EXCEPT ![t] = "connect"] /\ UNCHANGED <<back, cur, kind>>
    BY <1>2 DEF MakeSocket, Goto
  <2> QED BY <2>1, BegunMoves, Zenon DEF Active
<1>3. ASSUME MakeSocketFails(t) PROVE Begun'
  <2>1. /\ pc[t] = "socket" /\ pc' = [pc EXCEPT ![t] = "idle"] /\ UNCHANGED <<back, kind>>
        /\ \A u \in Threads : u # t => cur'[u] = cur[u]
    BY <1>3 DEF MakeSocketFails, Returns, Goto, TypeOK
  <2> QED BY <2>1, BegunMoves
<1>4. ASSUME Connect(t) PROVE Begun'
  <2>1. pc[t] = "connect" /\ pc' = [pc EXCEPT ![t] = "send"] /\ UNCHANGED <<back, cur, kind>>
    BY <1>4 DEF Connect, Goto
  <2> QED BY <2>1, BegunMoves, Zenon DEF Active
<1>5. ASSUME NEW p \in {"idle", "more", "len"}, Disconnect(t, p), Active(t), UNCHANGED <<cur, kind>>,
             p = "more" => kind[cur[t]] = "STREAMED"
      PROVE  Begun'
  <2>1. /\ pc' = [pc EXCEPT ![t] = "close"] /\ pc[t] # "killed"
        /\ back'[t] = p /\ \A u \in Threads : u # t => back'[u] = back[u]
    BY <1>5 DEF Disconnect, Goto, TypeOK, Active
  <2> QED BY <1>5, <2>1, BegunMoves
<1>6. ASSUME ConnectFails(t) PROVE Begun'
  BY <1>5, <1>6 DEF ConnectFails, Active
<1>7. ASSUME CloseSock(t) PROVE Begun'
  <2>1. pc[t] = "close" /\ pc' = [pc EXCEPT ![t] = "forget"] /\ UNCHANGED <<back, cur, kind>>
    BY <1>7 DEF CloseSock, Goto
  <2>2. back[t] = "more" => kind[cur[t]] = "STREAMED"
    BY <2>1 DEF Begun
  <2>3. Active(t) /\ pc[t] # "killed"
    BY <2>1 DEF Active
  <2> QED BY <2>1, <2>2, <2>3, BegunMoves
<1>8. ASSUME ForgetSock(t) PROVE Begun'
  <2>1. pc[t] = "forget" /\ UNCHANGED <<back, kind>>
    BY <1>8 DEF ForgetSock, GoOn, Returns
  <2>2. CASE back[t] = "idle"
    <3>1. /\ pc' = [pc EXCEPT ![t] = "idle"]
          /\ \A u \in Threads : u # t => cur'[u] = cur[u]
      BY <1>8, <2>2 DEF ForgetSock, GoOn, Returns, Goto, TypeOK
    <3> QED BY <2>1, <3>1, BegunMoves
  <2>3. CASE back[t] # "idle"
    <3>1. pc' = [pc EXCEPT ![t] = back[t]] /\ UNCHANGED cur
      BY <1>8, <2>3 DEF ForgetSock, GoOn, Goto
    <3>2. back[t] = "more" => kind[cur[t]] = "STREAMED"
      BY <2>1 DEF Begun
    <3>3. Active(t) /\ pc[t] # "killed" /\ back[t] \in {"more", "len"}
      BY <2>1, <2>3 DEF Active, TypeOK
    <3> QED BY <2>1, <3>1, <3>2, <3>3, BegunMoves
  <2> QED BY <2>2, <2>3
<1>9. AfterSend(t) \in {"more", "len"} /\ (AfterSend(t) = "more" => kind[cur[t]] = "STREAMED")
  BY DEF AfterSend, InPieces
<1>10. ASSUME SendData(t) PROVE Begun'
  <2>1. /\ pc[t] \in {"send", "more"} /\ pc' = [pc EXCEPT ![t] = AfterSend(t)]
        /\ UNCHANGED <<back, cur, kind>>
    BY <1>10 DEF SendData, Goto
  <2>2. Active(t) /\ pc[t] # "killed"
    BY <2>1 DEF Active
  <2> QED BY <1>9, <2>1, <2>2, BegunMoves
<1>11. ASSUME SendDataFails(t) PROVE Begun'
  BY <1>5, <1>9, <1>11 DEF SendDataFails, Active
<1>12. ASSUME SigPipe(t) PROVE Begun'
  <2>1. \A u \in Threads : pc'[u] = "killed"
    BY <1>12 DEF SigPipe
  <2> QED BY <2>1 DEF Begun, Active
<1>13. ASSUME GetReply(t) PROVE Begun'
  <2>1. pc[t] \in {"len", "body"} /\ Active(t) /\ UNCHANGED kind
    BY <1>13 DEF GetReply, Active, Returns
  <2>2. CASE pc[t] = "len"
    <3>1. pc' = [pc EXCEPT ![t] = "body"] /\ UNCHANGED <<back, cur>>
      BY <1>13, <2>2 DEF GetReply, Goto
    <3> QED BY <2>1, <3>1, BegunMoves, Zenon DEF Active
  <2>3. CASE pc[t] # "len" /\ kind[cur[t]] = "CLOSE"
    <3>1. Disconnect(t, "idle") /\ UNCHANGED <<cur, kind>>
      BY <1>13, <2>3, Zenon DEF GetReply
    <3> QED BY <1>5, <2>1, <3>1
  <2>4. CASE pc[t] # "len" /\ kind[cur[t]] # "CLOSE"
    <3>1. /\ pc' = [pc EXCEPT ![t] = "idle"] /\ UNCHANGED back
          /\ \A u \in Threads : u # t => cur'[u] = cur[u]
      BY <1>13, <2>4 DEF GetReply, Returns, Goto, TypeOK
    <3>2. pc[t] # "killed"
      BY <2>1
    <3> QED BY <2>1, <3>1, <3>2, BegunMoves
  <2> QED BY <2>2, <2>3, <2>4
<1>14. ASSUME GetReplyFails(t) PROVE Begun'
  BY <1>5, <1>14 DEF GetReplyFails, Active
<1>15. ASSUME NEW R, Returns(t, R), pc[t] # "killed" PROVE Begun'
  <2>1. /\ pc' = [pc EXCEPT ![t] = "idle"] /\ UNCHANGED <<back, kind>>
        /\ \A u \in Threads : u # t => cur'[u] = cur[u]
    BY <1>15 DEF Returns, Goto, TypeOK
  <2> QED BY <1>15, <2>1, BegunMoves
<1>16. ASSUME GetReplyAllocFails(t) PROVE Begun'
  BY <1>15, <1>16 DEF GetReplyAllocFails
<1>17. ASSUME GetReplyAstray(t) PROVE Begun'
  <2>1. pc[t] # "killed" /\ Active(t)
    BY <1>17, AstrayGets DEF Active
  <2>2. \/ \E R : Returns(t, R)
        \/ Disconnect(t, "idle") /\ UNCHANGED <<cur, kind>>
    BY <1>17, AstrayGets, Zenon
  <2> QED BY <1>5, <1>15, <2>1, <2>2
<1> QED BY <1>1, <1>2, <1>3, <1>4, <1>6, <1>7, <1>8, <1>10, <1>11, <1>12, <1>13, <1>14,
           <1>16, <1>17
        DEF ThreadStep, OrderlyStep

LEMMA BegunSame ==
    ASSUME Begun, UNCHANGED <<pc, back, cur, kind>>
    PROVE  Begun'
BY DEF Begun, Active

LEMMA BegunKept ==
    ASSUME TypeOK, Begun, [Next]_vars
    PROVE  Begun'
<1>1. CASE UNCHANGED <<pc, back, cur, kind>>
  BY <1>1, BegunSame
<1>2. CASE \E t \in Threads : ThreadStep(t)
  BY <1>2, ThreadBegun
<1>3. CASE UNCHANGED vars \/ OpenFile \/ ServerStep
  <2>1. UNCHANGED <<pc, back, cur, kind>>
    BY <1>3 DEF vars, threadVars, OpenFile, ServerStep, AcceptClient, ReadCommand, Reply, EndClient
  <2> QED BY <1>1, <2>1
<1> QED BY <1>2, <1>3 DEF Next

-----------------------------------------------------------------------------
(* Every step keeps what is known of a connection before there is one. *)

\* A step that makes no connection.
LEMMA FreshMoves ==
    ASSUME TypeOK, Fresh, UNCHANGED cut,
           \A k \in Conns : \A e \in Ends : st'[k][e] = "none" <=> st[k][e] = "none",
           \A k \in Conns : st[k]["client"] = "none" =>
               /\ inq'[k] = inq[k] /\ conn' # k /\ k \notin Queued'
               /\ \A f \in Fds : fds'[f] # k,
           conn' = NoConn => taken' = NoItem,
           \A k \in Conns : k \in astray' => k \in astray \/ st[k]["client"] # "none"
    PROVE  Fresh'
BY TwoEnds DEF Fresh

LEMMA Used ==
    ASSUME TypeOK, Fresh, NEW k \in Conns,
           conn = k \/ k \in Queued \/ (\E f \in Fds : fds[f] = k)
    PROVE  st[k]["client"] # "none" /\ st[k]["server"] # "none"
BY DEF Fresh

LEMMA UsedObject ==
    ASSUME TypeOK, Fresh, Connected
    PROVE  /\ Object \in Conns
           /\ st[Object]["client"] # "none" /\ st[Object]["server"] # "none"
<1>1. Object \in Conns /\ \E f \in Fds : fds[f] = Object
  BY WhatSockIs, Names DEF Objects
<1> QED BY <1>1, Used

\* A thread's step but Connect.
LEMMA FreshLocal ==
    ASSUME TypeOK, Fresh, UNCHANGED <<cut, backlog, conn, taken, astray>>,
           \A k \in Conns : \A e \in Ends : st'[k][e] = "none" <=> st[k][e] = "none",
           \A k \in Conns : st[k]["client"] = "none" => inq'[k] = inq[k],
           \A f \in Fds : fds'[f] \in {fds[f]} \cup Objects
    PROVE  Fresh'
<1>1. ASSUME NEW k \in Conns, st[k]["client"] = "none"
      PROVE  /\ conn' # k /\ k \notin Queued'
             /\ \A f \in Fds : fds'[f] # k
  BY <1>1, Names DEF Fresh, Queued
<1>2. conn' = NoConn => taken' = NoItem
  BY DEF Fresh
<1> QED BY <1>1, <1>2, FreshMoves

LEMMA FreshSame ==
    ASSUME TypeOK, Fresh, UNCHANGED <<tcpVars, conn, taken, astray>>,
           \A f \in Fds : fds'[f] \in {fds[f]} \cup Objects
    PROVE  Fresh'
BY FreshLocal DEF tcpVars

LEMMA FreshSend ==
    ASSUME TypeOK, Fresh, NEW k \in Conns, NEW e \in Ends, NEW items, Send(k, e, items),
           st[k]["client"] # "none"
    PROVE  /\ UNCHANGED <<cut, backlog>>
           /\ \A j \in Conns : \A x \in Ends : st'[j][x] = "none" <=> st[j][x] = "none"
           /\ \A j \in Conns : st[j]["client"] = "none" => inq'[j] = inq[j]
BY SendDoes DEF TypeOK

LEMMA FreshReceive ==
    ASSUME TypeOK, Fresh, NEW k \in Conns, NEW e \in Ends, NEW part, Receive(k, e, part),
           st[k]["client"] # "none"
    PROVE  /\ UNCHANGED <<cut, backlog>>
           /\ \A j \in Conns : \A x \in Ends : st'[j][x] = "none" <=> st[j][x] = "none"
           /\ \A j \in Conns : st[j]["client"] = "none" => inq'[j] = inq[j]
BY ReceiveDoes DEF TypeOK

LEMMA FreshClose ==
    ASSUME TypeOK, Fresh, NEW k \in Conns, NEW e \in Ends, Close(k, e),
           st[k]["client"] # "none", st[k]["server"] # "none"
    PROVE  /\ UNCHANGED <<cut, backlog>>
           /\ \A j \in Conns : \A x \in Ends : st'[j][x] = "none" <=> st[j][x] = "none"
           /\ \A j \in Conns : st[j]["client"] = "none" => inq'[j] = inq[j]
<1>1. /\ UNCHANGED <<cut, backlog>>
      /\ \A j \in Conns : j # k => st'[j] = st[j] /\ inq'[j] = inq[j]
      /\ st'[k][e] = "closed" /\ st'[k][Peer(e)] = st[k][Peer(e)]
  BY CloseDoes DEF TypeOK
<1>2. st'[k]["client"] # "none" /\ st'[k]["server"] # "none"
  BY <1>1, TwoEnds
<1> QED BY <1>1, <1>2, TwoEnds

LEMMA OrderlyFresh ==
    ASSUME TypeOK, Fresh, NEW t \in Threads, OrderlyStep(t), UNCHANGED astray
    PROVE  Fresh'
<1>1. CASE \E i \in Calls, k \in Kinds : Call(t, i, k)
  BY <1>1, FreshSame DEF Call, serverVars
<1>2. CASE MakeSocket(t) \/ MakeSocketFails(t)
  <2>1. \A f \in Fds : fds'[f] \in {fds[f]} \cup Objects
    BY <1>2 DEF MakeSocket, MakeSocketFails, TypeOK, Objects
  <2> QED BY <1>2, <2>1, FreshSame DEF MakeSocket, MakeSocketFails, serverVars
<1>3. CASE Connect(t)
  <2>1. PICK k \in Conns : Establish(k) /\ fds' = [fds EXCEPT ![sock] = k]
    BY <1>3 DEF Connect
  <2>2. /\ UNCHANGED <<cut, inq, conn, taken>> /\ backlog' = Append(backlog, k)
        /\ st[k]["client"] = "none"
        /\ st'[k]["client"] = "open" /\ st'[k]["server"] = "open"
        /\ \A j \in Conns : j # k => st'[j] = st[j]
    BY <1>3, <2>1, TwoEnds DEF Establish, Connect, serverVars, TypeOK, TcpTypeOK
  <2>3. ASSUME NEW j \in Conns, st'[j]["client"] = "none"
        PROVE  /\ j # k /\ st[j]["client"] = "none"
               /\ \A e \in Ends : inq'[j][e] = <<>>
               /\ conn' # j /\ j \notin Queued' /\ \A f \in Fds : fds'[f] # j
    <3>1. j # k /\ st[j]["client"] = "none"
      BY <2>2, <2>3
    <3>2. j \notin Queued'
      <4>1. j \notin Items(backlog) /\ backlog \in Seq(Conns)
        BY <3>1 DEF Fresh, Queued, TypeOK, TcpTypeOK
      <4> QED BY <2>2, <3>1, <4>1 DEF Queued, Items
    <3>3. \A f \in Fds : fds'[f] # j
      BY <2>1, <3>1 DEF Fresh, TypeOK
    <3> QED BY <2>2, <3>1, <3>2, <3>3 DEF Fresh
  <2>4. ASSUME NEW j \in Conns
        PROVE  st'[j]["client"] = "none" <=> st'[j]["server"] = "none"
    BY <2>2 DEF Fresh
  <2> QED BY <2>2, <2>3, <2>4 DEF Fresh
<1>4. CASE ConnectFails(t) \/ ForgetSock(t) \/ SendDataFails(t) \/ GetReplyFails(t)
  BY <1>4, FreshSame DEF ConnectFails, ForgetSock, SendDataFails, GetReplyFails, serverVars
<1>5. CASE CloseSock(t)
  <2>1. \A f \in Fds : fds'[f] \in {fds[f]} \cup Objects
    BY <1>5 DEF CloseSock, TypeOK, Objects
  <2>2. CASE Connected
    <3>1. Close(Object, "client") /\ UNCHANGED <<conn, taken>>
      BY <1>5, <2>2 DEF CloseSock, serverVars
    <3> QED BY <2>1, <2>2, <3>1, UsedObject, FreshClose, FreshLocal, TwoEnds
  <2>3. CASE ~Connected
    BY <1>5, <2>1, <2>3, FreshSame DEF CloseSock, serverVars
  <2> QED BY <2>2, <2>3
<1>6. CASE SendData(t)
  <2>1. Connected /\ Send(Object, "client", Pieces(t)) /\ UNCHANGED <<fds, conn, taken>>
    BY <1>6 DEF SendData, serverVars
  <2> QED BY <2>1, UsedObject, FreshSend, FreshLocal, TwoEnds
<1>7. CASE SigPipe(t)
  <2> DEFINE open == {fds[f] : f \in Fds} \ Objects
  <2>1. PICK R : CloseAll(open, "client", R)
    BY <1>7 DEF SigPipe
  <2>2. ASSUME NEW k \in Conns
        PROVE  /\ \A e \in Ends : st'[k][e] = "none" <=> st[k][e] = "none"
               /\ st[k]["client"] = "none" => inq'[k] = inq[k]
    <3>1. CASE k \in open
      <4>1. st[k]["client"] # "none" /\ st[k]["server"] # "none"
        BY <3>1, Used
      <4>2. st'[k]["client"] = "closed" /\ st'[k]["server"] = st[k]["server"]
        <5>1. TcpTypeOK /\ "client" \in Ends /\ Peer("client") = "server"
          BY TwoEnds DEF TypeOK
        <5> HIDE DEF open
        <5> QED BY <2>1, <3>1, <5>1, CloseAllDoes
      <4> QED BY <4>1, <4>2, TwoEnds
    <3>2. CASE k \notin open
      <4>1. TcpTypeOK /\ "client" \in Ends
        BY TwoEnds DEF TypeOK
      <4> HIDE DEF open
      <4>2. st'[k] = st[k] /\ inq'[k] = inq[k]
        BY <2>1, <3>2, <4>1, CloseAllDoes
      <4> QED BY <4>2
    <3> QED BY <3>1, <3>2
  <2>3. /\ \A f \in Fds : fds'[f] \in {fds[f]} \cup Objects
        /\ UNCHANGED <<cut, backlog, conn, taken>>
    BY <1>7 DEF SigPipe, Objects, serverVars
  <2> QED BY <2>2, <2>3, FreshLocal
<1>8. CASE GetReply(t)
  <2>1. Connected /\ UNCHANGED <<fds, conn, taken>> /\ \E part : Receive(Object, "client", part)
    BY <1>8 DEF GetReply, serverVars
  <2> QED BY <2>1, UsedObject, FreshReceive, FreshLocal, TwoEnds
<1> QED BY <1>1, <1>2, <1>3, <1>4, <1>5, <1>6, <1>7, <1>8 DEF OrderlyStep

LEMMA ThreadFresh ==
    ASSUME TypeOK, Fresh, NEW t \in Threads, ThreadStep(t)
    PROVE  Fresh'
<1>1. CASE GetReplyAllocFails(t)
  <2>1. /\ Connected /\ astray' = astray \cup {Object}
        /\ UNCHANGED <<st, inq, cut, backlog, fds, conn, taken>>
    BY <1>1 DEF GetReplyAllocFails, serverVars, tcpVars
  <2>2. st[Object]["client"] # "none"
    BY <2>1, UsedObject
  <2>3. UNCHANGED Queued
    BY <2>1 DEF Queued
  <2> QED BY <2>1, <2>2, <2>3, FreshMoves DEF Fresh
<1>2. CASE GetReplyAstray(t) /\ UNCHANGED astray
  <2>1. /\ Connected /\ Object \in Conns /\ UNCHANGED <<fds, conn, taken>>
        /\ \E n \in Nat : ReceiveSome(Object, "client", n)
    BY <1>2, AstrayGets, Zenon DEF serverVars
  <2>2. TcpTypeOK /\ st[Object]["client"] # "none"
    BY <2>1, UsedObject DEF TypeOK
  <2>3. /\ UNCHANGED <<st, cut, backlog>>
        /\ \A j \in Conns : j # Object => inq'[j] = inq[j]
    BY <2>1, <2>2, ReceiveSomeDoes, TwoEnds
  <2> QED BY <1>2, <2>1, <2>2, <2>3, FreshLocal
<1> QED BY <1>1, <1>2, OrderlyFresh DEF ThreadStep

LEMMA ServerFresh ==
    ASSUME TypeOK, Fresh, ServerStep, UNCHANGED astray
    PROVE  Fresh'
<1>0. UNCHANGED fds
  BY DEF ServerStep, AcceptClient, ReadCommand, Reply, EndClient, threadVars
<1>1. CASE AcceptClient
  <2>1. PICK k \in Conns : TakeQueued(k) /\ conn' = k
    BY <1>1 DEF AcceptClient
  <2>2. /\ backlog \in Seq(Conns) /\ backlog # <<>> /\ backlog' = Tail(backlog)
        /\ k = Head(backlog) /\ UNCHANGED <<st, inq, cut>>
    BY <2>1 DEF TakeQueued, TypeOK, TcpTypeOK
  <2>3. k \in Queued /\ Queued' \subseteq Queued
    BY <2>2 DEF Queued, Items
  <2>4. conn' # NoConn
    BY <2>1, Names
  <2> QED BY <1>0, <2>1, <2>2, <2>3, <2>4, FreshMoves DEF Fresh
<1>2. ASSUME conn \in Conns, conn' \in {conn, NoConn}, conn' = NoConn => taken' = NoItem,
             UNCHANGED <<cut, backlog>>,
             \A k \in Conns : \A e \in Ends : st'[k][e] = "none" <=> st[k][e] = "none",
             \A k \in Conns : st[k]["client"] = "none" => inq'[k] = inq[k]
      PROVE  Fresh'
  <2>1. ASSUME NEW k \in Conns, st[k]["client"] = "none"
        PROVE  conn' # k /\ k \notin Queued' /\ \A f \in Fds : fds'[f] # k
    BY <1>0, <1>2, <2>1, Names DEF Fresh, Queued
  <2> QED BY <1>2, <2>1, FreshMoves
<1>3. conn \in Conns => st[conn]["client"] # "none" /\ st[conn]["server"] # "none"
  BY Used
<1>4. CASE ReadCommand
  <2>1. conn \in Conns /\ UNCHANGED conn /\ \E part : Receive(conn, "server", part)
    BY <1>4 DEF ReadCommand, TypeOK
  <2>2. conn # NoConn
    BY <2>1, Names
  <2> QED BY <1>2, <1>3, <2>1, <2>2, FreshReceive, TwoEnds
<1>5. CASE Reply
  <2>1. conn \in Conns /\ UNCHANGED conn /\ Send(conn, "server", Packet(taken.call))
    BY <1>5 DEF Reply, TypeOK
  <2>2. conn # NoConn
    BY <2>1, Names
  <2> QED BY <1>2, <1>3, <2>1, <2>2, FreshSend, TwoEnds
<1>6. CASE EndClient
  <2>1. conn \in Conns /\ conn' = NoConn /\ taken' = NoItem /\ Close(conn, "server")
    BY <1>6 DEF EndClient, TypeOK
  <2> QED BY <1>2, <1>3, <2>1, FreshClose, TwoEnds
<1> QED BY <1>1, <1>4, <1>5, <1>6 DEF ServerStep

LEMMA FreshKept ==
    ASSUME TypeOK, Fresh, [Next]_vars
    PROVE  Fresh'
<1>1. CASE UNCHANGED vars
  BY <1>1, FreshSame DEF vars, threadVars, serverVars
<1>2. CASE \E t \in Threads : ThreadStep(t)
  BY <1>2, ThreadFresh
<1>3. CASE OpenFile /\ UNCHANGED astray
  <2>1. \A f \in Fds : fds'[f] \in {fds[f]} \cup Objects
    BY <1>3 DEF OpenFile, TypeOK, Objects
  <2> QED BY <1>3, <2>1, FreshSame DEF OpenFile, serverVars
<1>4. CASE ServerStep /\ UNCHANGED astray
  BY <1>4, ServerFresh
<1> QED BY <1>1, <1>2, <1>3, <1>4 DEF Next

-----------------------------------------------------------------------------
(* Queues of heads and tails. *)

LEMMA Appended ==
    ASSUME NEW q \in Seq(Item), NEW x \in Item
    PROVE  /\ q \o <<x>> \in Seq(Item) /\ Len(q \o <<x>>) = Len(q) + 1
           /\ \A n \in 1 .. Len(q) : (q \o <<x>>)[n] = q[n]
           /\ (q \o <<x>>)[Len(q) + 1] = x
OBVIOUS

LEMMA Prepended ==
    ASSUME NEW q \in Seq(Item), NEW x \in Item
    PROVE  /\ <<x>> \o q \in Seq(Item) /\ Len(<<x>> \o q) = Len(q) + 1
           /\ (<<x>> \o q)[1] = x
           /\ \A n \in 1 .. Len(q) : (<<x>> \o q)[n + 1] = q[n]
OBVIOUS

LEMMA Associative ==
    ASSUME NEW p \in Seq(Item), NEW q \in Seq(Item), NEW r \in Seq(Item)
    PROVE  (p \o q) \o r = p \o (q \o r)
BY ConcatAssociative

LEMMA TwoJoined ==
    ASSUME NEW x \in Item, NEW y \in Item
    PROVE  <<x, y>> = <<x>> \o <<y>>
<1>1. <<x>> \in Seq(Item) /\ <<x, y>> = Append(<<x>>, y)
  OBVIOUS
<1> QED BY <1>1, AppendIsConcat

LEMMA TwoAppended ==
    ASSUME NEW q \in Seq(Item), NEW x \in Item, NEW y \in Item
    PROVE  q \o <<x, y>> = (q \o <<x>>) \o <<y>>
<1>1. <<x>> \in Seq(Item) /\ <<y>> \in Seq(Item)
  OBVIOUS
<1>2. <<x, y>> = <<x>> \o <<y>>
  BY TwoJoined
<1> QED BY <1>1, <1>2, ConcatAssociative

LEMMA WholeEmpty == Whole(<<>>) /\ ~Half(<<>>)
BY DEF Whole, Half

\* A head after whole packets leaves half of one more; its tail completes it.
LEMMA WholeHead ==
    ASSUME NEW q \in Seq(Item), Whole(q), ~Half(q), NEW i \in Calls
    PROVE  /\ Whole(q \o <<HeadOf(i)>>) /\ Half(q \o <<HeadOf(i)>>)
           /\ LET r == q \o <<HeadOf(i)>> IN r[Len(r)] = HeadOf(i)
<1> DEFINE r == q \o <<HeadOf(i)>>
<1>1. /\ r \in Seq(Item) /\ Len(r) = Len(q) + 1 /\ r[Len(q) + 1] = HeadOf(i)
      /\ \A n \in 1 .. Len(q) : r[n] = q[n]
  BY PacketIs, Appended
<1>2. HeadOf(i).part = "head"
  BY PacketIs
<1>3. r # <<>>
  BY <1>1
<1> HIDE DEF r
<1>4. ASSUME NEW n \in 1 .. Len(r)
      PROVE  IF n > 1 /\ r[n - 1].part = "head" THEN r[n] = TailOf(r[n - 1].call)
                                                ELSE r[n].part = "head"
  <2>1. CASE n \in 1 .. Len(q)
    <3>1. r[n] = q[n] /\ (n > 1 => n - 1 \in 1 .. Len(q) /\ r[n - 1] = q[n - 1])
      BY <1>1, <2>1
    <3> QED BY <2>1, <3>1 DEF Whole
  <2>2. CASE n = Len(q) + 1
    <3>1. n > 1 => r[n - 1].part # "head"
      <4>1. n > 1 => n - 1 = Len(q) /\ q # <<>> /\ n - 1 \in 1 .. Len(q)
        BY <2>2
      <4> QED BY <1>1, <4>1 DEF Half
    <3> QED BY <1>1, <1>2, <2>2, <3>1
  <2> QED BY <1>1, <2>1, <2>2
<1>5. Whole(r)
  BY <1>4, Zenon DEF Whole
<1>6. Half(r) /\ r[Len(r)] = HeadOf(i)
  BY <1>1, <1>2, <1>3 DEF Half
<1> QED BY <1>5, <1>6 DEF r

LEMMA WholeTail ==
    ASSUME NEW q \in Seq(Item), Whole(q), Half(q), NEW i \in Calls, q[Len(q)] = HeadOf(i)
    PROVE  Whole(q \o <<TailOf(i)>>) /\ ~Half(q \o <<TailOf(i)>>)
<1> DEFINE r == q \o <<TailOf(i)>>
<1>1. /\ r \in Seq(Item) /\ Len(r) = Len(q) + 1 /\ r[Len(q) + 1] = TailOf(i)
      /\ \A n \in 1 .. Len(q) : r[n] = q[n]
  BY PacketIs, Appended
<1>2. HeadOf(i).part = "head" /\ HeadOf(i).call = i /\ TailOf(i).part # "head"
  BY PacketIs
<1>3. q # <<>> /\ Len(q) \in 1 .. Len(q)
  BY DEF Half
<1> HIDE DEF r
<1>4. ASSUME NEW n \in 1 .. Len(r)
      PROVE  IF n > 1 /\ r[n - 1].part = "head" THEN r[n] = TailOf(r[n - 1].call)
                                                ELSE r[n].part = "head"
  <2>1. CASE n \in 1 .. Len(q)
    <3>1. r[n] = q[n] /\ (n > 1 => n - 1 \in 1 .. Len(q) /\ r[n - 1] = q[n - 1])
      BY <1>1, <2>1
    <3> QED BY <2>1, <3>1 DEF Whole
  <2>2. CASE n = Len(q) + 1
    <3>1. n > 1 /\ n - 1 = Len(q)
      BY <1>3, <2>2
    <3>2. r[n - 1] = HeadOf(i)
      BY <1>1, <1>3, <3>1
    <3> QED BY <1>1, <1>2, <2>2, <3>1, <3>2
  <2> QED BY <1>1, <2>1, <2>2
<1>5. Whole(r)
  BY <1>4, Zenon DEF Whole
<1>6. ~Half(r)
  BY <1>1, <1>2 DEF Half
<1> QED BY <1>5, <1>6 DEF r

LEMMA WholePacket ==
    ASSUME NEW q \in Seq(Item), Whole(q), ~Half(q), NEW i \in Calls
    PROVE  Whole(q \o Packet(i)) /\ ~Half(q \o Packet(i))
<1> DEFINE r == q \o <<HeadOf(i)>>
<1>1. Whole(r) /\ Half(r) /\ r[Len(r)] = HeadOf(i)
  BY WholeHead
<1>2. r \in Seq(Item)
  BY PacketIs, Appended
<1>3. q \o Packet(i) = r \o <<TailOf(i)>>
  <2>1. HeadOf(i) \in Item /\ TailOf(i) \in Item /\ Packet(i) = <<HeadOf(i), TailOf(i)>>
    BY PacketIs
  <2> QED BY <2>1, TwoAppended, Zenon
<1> HIDE DEF r
<1> QED BY <1>1, <1>2, <1>3, WholeTail

\* What follows a head is its tail; the rest is whole again.
LEMMA WholeRest ==
    ASSUME NEW h \in Item, h.part = "head", NEW q \in Seq(Item), q # <<>>, Whole(<<h>> \o q)
    PROVE  /\ Head(q) = TailOf(h.call)
           /\ Whole(Tail(q))
           /\ Half(<<h>> \o q) <=> Half(Tail(q))
           /\ Half(Tail(q)) => (<<h>> \o q)[Len(<<h>> \o q)] = Tail(q)[Len(Tail(q))]
<1> DEFINE r == <<h>> \o q
           s == Tail(q)
<1>1. /\ r \in Seq(Item) /\ Len(r) = Len(q) + 1 /\ r[1] = h
      /\ \A n \in 1 .. Len(q) : r[n + 1] = q[n]
  BY Prepended
<1>2. /\ s \in Seq(Item) /\ Len(s) = Len(q) - 1 /\ Len(q) \in Nat \ {0}
      /\ \A n \in 1 .. Len(s) : s[n] = q[n + 1]
  OBVIOUS
<1>3. Head(q) = q[1]
  OBVIOUS
<1>4. Whole(r)
  OBVIOUS
<1> HIDE DEF r, s
<1>5. r[2] = q[1]
  BY <1>1, <1>2
<1>6. q[1] = TailOf(h.call)
  <2>1. 2 \in 1 .. Len(r) /\ 2 > 1 /\ 2 - 1 = 1
    BY <1>1, <1>2
  <2> QED BY <1>1, <1>4, <1>5, <2>1 DEF Whole
<1>7. \A n \in 1 .. Len(s) : r[n + 2] = s[n]
  <2> TAKE n \in 1 .. Len(s)
  <2>1. n + 1 \in 1 .. Len(q) /\ (n + 1) + 1 = n + 2
    BY <1>2
  <2> QED BY <1>1, <1>2, <2>1
<1>8. r[2].part # "head"
  BY <1>5, <1>6 DEF TailOf
<1>9. ASSUME NEW n \in 1 .. Len(s)
      PROVE  IF n > 1 /\ s[n - 1].part = "head" THEN s[n] = TailOf(s[n - 1].call)
                                                ELSE s[n].part = "head"
  <2>1. n + 2 \in 1 .. Len(r) /\ n + 2 > 1 /\ (n + 2) - 1 = n + 1
    BY <1>1, <1>2
  <2>2. IF r[n + 1].part = "head" THEN r[n + 2] = TailOf(r[n + 1].call)
                                  ELSE r[n + 2].part = "head"
    BY <1>4, <2>1 DEF Whole
  <2>3. n = 1 \/ (n > 1 /\ r[n + 1] = s[n - 1])
    <3>1. n = 1 \/ (n > 1 /\ n - 1 \in 1 .. Len(s) /\ (n - 1) + 2 = n + 1)
      BY <1>2
    <3> QED BY <1>7, <3>1
  <2>4. r[n + 2] = s[n]
    BY <1>7
  <2>5. CASE n = 1
    <3>1. n + 1 = 2 /\ ~(n > 1)
      BY <2>5
    <3> QED BY <1>8, <2>2, <2>4, <3>1
  <2>6. CASE n > 1
    BY <2>2, <2>3, <2>4, <2>6
  <2> QED BY <2>3, <2>5, <2>6
<1>10. Whole(s)
  BY <1>9, Zenon DEF Whole
<1>11. Len(s) > 0 => r[Len(r)] = s[Len(s)]
  <2>1. Len(s) > 0 => Len(s) \in 1 .. Len(s) /\ Len(s) + 2 = Len(r)
    BY <1>1, <1>2
  <2> QED BY <1>7, <2>1
<1>12. Len(r) = Len(s) + 2 /\ Len(s) \in Nat
  BY <1>1, <1>2
<1>13. Half(s) => Len(s) > 0 /\ Half(r)
  BY <1>1, <1>2, <1>11 DEF Half
<1>14. Half(r) => Half(s)
  <2>1. CASE Len(s) = 0
    BY <1>8, <1>12, <2>1 DEF Half
  <2>2. CASE Len(s) > 0
    BY <1>2, <1>11, <2>2 DEF Half
  <2> QED BY <1>2, <2>1, <2>2
<1> QED BY <1>3, <1>6, <1>10, <1>11, <1>13, <1>14 DEF r, s

-----------------------------------------------------------------------------
(* Every step keeps that commands come whole, as long as no STREAMED call  *)
(* had company.                                                            *)

LEMMA UnreadType ==
    ASSUME TypeOK, NEW k \in Conns
    PROVE  Unread(k) \in Seq(Item)
BY ThreadsAssumption, Prepended DEF Unread, Taken, TypeOK, TcpTypeOK, Ends

LEMMA UnreadSame ==
    ASSUME NEW k \in Conns, inq'[k]["server"] = inq[k]["server"], UNCHANGED <<conn, taken>>
    PROVE  Unread(k)' = Unread(k) /\ Side(k)' = Side(k)
BY DEF Unread, Taken, Side

LEMMA ObjectSame ==
    ASSUME UNCHANGED <<sock, fds>>
    PROVE  Object' = Object /\ (Connected <=> Connected')
BY DEF Object, Connected

\* While thread t is in a call no other is in a STREAMED one, nor about to
\* complete a packet.
LEMMA OnlyOne ==
    ASSUME TypeOK, Begun, Plain, ~streamed, NEW t \in Threads, Active(t),
           NEW u \in Threads, u # t
    PROVE  /\ ~(Active(u) /\ kind[cur[u]] = "STREAMED") /\ pc[u] # "more"
           /\ \A k : ~Completes(u, k)
<1>1. ~(Active(u) /\ kind[cur[u]] = "STREAMED")
  <2>1. ASSUME Active(u), kind[cur[u]] = "STREAMED" PROVE FALSE
    <3>1. Alone(u)
      BY <2>1 DEF Plain
    <3>2. pc[t] = "idle"
      BY <3>1 DEF Alone
    <3> QED BY <3>2 DEF Active
  <2> QED BY <2>1
<1>2. pc[u] = "more" => Active(u) /\ kind[cur[u]] = "STREAMED"
  BY DEF Begun, Active
<1> QED BY <1>1, <1>2 DEF Completes

\* A step of thread t, that is in a call before it.
LEMMA PlainMoves ==
    ASSUME TypeOK, Begun, Plain, ~streamed, NEW t \in Threads, Active(t),
           UNCHANGED <<streamed, mixed, kind>>,
           NEW p, p # "killed", pc' = [pc EXCEPT ![t] = p],
           \A u \in Threads : u # t => cur'[u] = cur[u],
           p # "idle" => cur'[t] = cur[t],
           \A k \in Conns : Whole(Unread(k))',
           \A k \in Conns : Half(Unread(k))' =>
               "closed" \in {st[k]["client"], st[k]["server"]}' \/ Completes(t, k)',
           p = "more" /\ Connected' /\ (st[Object]["server"])' = "open" =>
               Half(Unread(Object))'
    PROVE  Plain'
<1>1. pc'[t] = p /\ \A u \in Threads : u # t => pc'[u] = pc[u]
  BY DEF TypeOK
<1>2. ASSUME NEW u \in Threads, Active(u)', (kind[cur[u]])' = "STREAMED"
      PROVE  Alone(u)'
  <2>1. u = t
    BY <1>1, <1>2, OnlyOne DEF Active
  <2>2. kind[cur[t]] = "STREAMED"
    BY <1>1, <1>2, <2>1 DEF Active
  <2>3. Alone(t)
    BY <2>2 DEF Plain
  <2> QED BY <1>1, <2>1, <2>3 DEF Alone
<1>3. ASSUME NEW u \in Threads, pc'[u] = "more"
      PROVE  u = t /\ p = "more"
  BY <1>1, <1>3, OnlyOne
<1>4. mixed' = {}
  BY DEF Plain
<1>5. ASSUME NEW k \in Conns, Half(Unread(k))'
      PROVE  \/ ("closed" \in {st[k]["client"], st[k]["server"]})'
             \/ \E u \in Threads : Completes(u, k)'
  BY <1>5
<1>6. ASSUME NEW u \in Threads, pc'[u] = "more", Connected', (st[Object]["server"])' = "open"
      PROVE  Half(Unread(Object))'
  BY <1>3, <1>6
<1> QED BY <1>2, <1>4, <1>5, <1>6 DEF Plain

\* One that changes nothing that the server has or will get.
LEMMA PlainQuiet ==
    ASSUME TypeOK, Begun, Plain, ~streamed, NEW t \in Threads, Active(t),
           UNCHANGED <<streamed, mixed, kind, conn, taken>>,
           NEW p, p # "killed", pc' = [pc EXCEPT ![t] = p],
           \A u \in Threads : u # t => cur'[u] = cur[u],
           p # "idle" => cur'[t] = cur[t],
           \A k \in Conns : inq'[k]["server"] = inq[k]["server"],
           \A k \in Conns : \A e \in Ends : st[k][e] = "closed" => st'[k][e] = "closed",
           \A k \in Conns : Completes(t, k) => Completes(t, k)' \/ st'[k]["client"] = "closed",
           p = "more" => ~Connected'
    PROVE  Plain'
<1>1. ASSUME NEW k \in Conns
      PROVE  Unread(k)' = Unread(k)
  BY UnreadSame
<1>2. \A k \in Conns : Whole(Unread(k))'
  <2> TAKE k \in Conns
  <2>1. Whole(Unread(k))
    BY DEF Plain
  <2> QED BY <1>1, <2>1 DEF Whole
<1>3. ASSUME NEW k \in Conns, Half(Unread(k))'
      PROVE  "closed" \in {st[k]["client"], st[k]["server"]}' \/ Completes(t, k)'
  <2>1. Half(Unread(k))
    BY <1>1, <1>3 DEF Half
  <2>2. CASE "closed" \in {st[k]["client"], st[k]["server"]}
    BY <2>2, TwoEnds
  <2>3. CASE \E u \in Threads : Completes(u, k)
    BY <2>3, OnlyOne
  <2> QED BY <2>1, <2>2, <2>3 DEF Plain
<1> QED BY <1>2, <1>3, PlainMoves

LEMMA CallPlain ==
    ASSUME TypeOK, Begun, Plain, NEW t \in Threads, NEW i \in Calls, NEW k \in Kinds,
           Call(t, i, k)
    PROVE  Plain'
<1> SUFFICES ASSUME ~streamed' PROVE Plain'
  BY DEF Plain
<1> DEFINE others == {cur[u] : u \in {v \in Threads : pc[v] # "idle"}}
<1>0. /\ pc'[t] \in {"socket", "send"} /\ cur'[t] = i /\ kind'[i] = k
      /\ \A u \in Threads : u # t => pc'[u] = pc[u] /\ cur'[u] = cur[u]
      /\ pc[t] = "idle" /\ kind[i] = "none"
      /\ \A j \in Calls : j # i => kind'[j] = kind[j]
  BY DEF TypeOK, Call, Goto
<1>1. /\ ~streamed
      /\ others # {} => "STREAMED" \notin {k} \cup {kind[j] : j \in others}
  BY DEF Call
<1>2. UNCHANGED <<sock, fds, back, mixed, conn, taken, inq, st>>
  BY DEF Call, serverVars, tcpVars
<1>3. ASSUME NEW u \in Threads, u # t, Active(u)'
      PROVE  /\ Active(u) /\ cur'[u] = cur[u] /\ cur[u] \in Calls
             /\ kind'[cur'[u]] = kind[cur[u]] /\ cur[u] \in others
  BY <1>0, <1>3 DEF Active, Begun
<1>4. ASSUME NEW u \in Threads, Active(u)', (kind[cur[u]])' = "STREAMED"
      PROVE  Alone(u)'
  <2>1. CASE u = t
    <3>1. k = "STREAMED"
      BY <1>0, <1>4, <2>1
    <3>2. others = {}
      BY <1>1, <3>1
    <3>3. \A v \in Threads : pc[v] = "idle"
      BY <3>2
    <3> QED BY <1>0, <2>1, <3>3 DEF Alone
  <2>2. CASE u # t
    <3>1. cur[u] \in others /\ kind[cur[u]] = "STREAMED"
      BY <1>3, <1>4, <2>2
    <3> QED BY <1>1, <3>1
  <2> QED BY <2>1, <2>2
<1>5. ASSUME NEW j \in Conns
      PROVE  Unread(j)' = Unread(j)
  BY <1>2, UnreadSame
<1>6. Object' = Object /\ (Connected <=> Connected')
  BY <1>2, ObjectSame
<1>7. ASSUME NEW u \in Threads, NEW j \in Conns, Completes(u, j)
      PROVE  Completes(u, j)'
  <2>1. u # t
    BY <1>0, <1>7 DEF Completes, Active
  <2>2. Active(u)'
    BY <1>0, <1>7, <2>1 DEF Completes, Active
  <2>3. kind'[cur'[u]] = kind[cur[u]] /\ cur'[u] = cur[u] /\ pc'[u] = pc[u] /\ back'[u] = back[u]
    BY <1>0, <1>2, <1>3, <2>1, <2>2
  <2> QED BY <1>5, <1>6, <1>7, <2>2, <2>3 DEF Completes
<1>8. ASSUME NEW j \in Conns
      PROVE  /\ Whole(Unread(j))'
             /\ Half(Unread(j))' => \/ ("closed" \in {st[j]["client"], st[j]["server"]})'
                                    \/ \E u \in Threads : Completes(u, j)'
  <2>1. /\ Whole(Unread(j))
        /\ Half(Unread(j)) => \/ "closed" \in {st[j]["client"], st[j]["server"]}
                              \/ \E u \in Threads : Completes(u, j)
    BY <1>1 DEF Plain
  <2>2. Whole(Unread(j))' /\ (Half(Unread(j))' => Half(Unread(j)))
    BY <1>5, <2>1 DEF Whole, Half
  <2> QED BY <1>2, <1>7, <2>1, <2>2
<1>9. ASSUME NEW u \in Threads, pc'[u] = "more", Connected', (st[Object]["server"])' = "open"
      PROVE  Half(Unread(Object))'
  <2>1. u # t /\ pc[u] = "more"
    BY <1>0, <1>9
  <2>2. Connected /\ st[Object]["server"] = "open" /\ Object \in Conns
    BY <1>2, <1>6, <1>9, WhatSockIs
  <2>3. Half(Unread(Object))
    BY <1>1, <2>1, <2>2 DEF Plain
  <2>4. Unread(Object)' = Unread(Object)
    BY <1>2, <1>6 DEF Unread, Taken
  <2> QED BY <2>3, <2>4 DEF Half
<1> QED BY <1>1, <1>2, <1>4, <1>8, <1>9 DEF Plain

LEMMA SendPlain ==
    ASSUME TypeOK, Begun, Fresh, Plain, ~streamed, NEW t \in Threads, SendData(t)
    PROVE  Plain'
<1>a. Connected /\ Object \in Conns /\ cur[t] \in Calls
  BY WhatSockIs, ActiveCall DEF SendData, Active
<1>b. PICK k \in Conns : k = Object
  BY <1>a
<1>c. PICK i \in Calls : i = cur[t]
  BY <1>a
<1>d. PICK q \in Seq(Item) : q = Unread(k)
  BY UnreadType
<1>0. /\ pc[t] \in {"send", "more"} /\ Active(t)
      /\ Send(k, "client", Pieces(t))
      /\ pc' = [pc EXCEPT ![t] = AfterSend(t)]
      /\ UNCHANGED <<sock, fds, back, cur, kind, conn, taken, mixed, streamed>>
  BY <1>b DEF SendData, Active, Goto, serverVars, ghosts
<1>1. st[k]["client"] = "open" /\ st[k]["server"] \in {"open", "closed"}
        /\ cut = {}
  <2>1. st[k]["client"] = "open"
    BY <1>0 DEF Send
  <2>2. st[k]["server"] # "none" /\ st[k]["server"] \in {"none", "open", "closed"}
    BY <1>a, <1>b, UsedObject, TwoEnds DEF TypeOK, TcpTypeOK
  <2> QED BY <2>1, <2>2 DEF Fresh
<1>2. /\ UNCHANGED st
      /\ \A j \in Conns : j # k => inq'[j] = inq[j]
      /\ inq'[k]["server"] = IF st[k]["server"] = "open" THEN inq[k]["server"] \o Pieces(t)
                                                         ELSE inq[k]["server"]
  <2>1. TcpTypeOK /\ "client" \in Ends /\ Peer("client") = "server"
    BY TwoEnds DEF TypeOK
  <2> QED BY <1>0, <1>1, <2>1, SendDoes
<1>3. Object' = k /\ Connected'
  BY <1>0, <1>a, <1>b, ObjectSame
<1>4. ASSUME NEW j \in Conns, j # k \/ st[k]["server"] # "open"
      PROVE  Unread(j)' = Unread(j)
  BY <1>0, <1>2, <1>4, UnreadSame
<1>5. ASSUME NEW j \in Conns, j # k
      PROVE  /\ Whole(Unread(j))'
             /\ Half(Unread(j))' => ("closed" \in {st[j]["client"], st[j]["server"]})'
  <2>1. \A u \in Threads : ~Completes(u, j)
    BY <1>0, <1>5, <1>b, OnlyOne DEF Completes
  <2>2. /\ Whole(Unread(j))
        /\ Half(Unread(j)) => "closed" \in {st[j]["client"], st[j]["server"]}
    BY <2>1 DEF Plain
  <2> QED BY <1>2, <1>4, <1>5, <2>2 DEF Whole, Half
<1>6. AfterSend(t) # "killed" /\ AfterSend(t) # "idle"
  BY DEF AfterSend
<1>7. /\ Whole(q)
      /\ Half(q) => "closed" \in {st[k]["client"], st[k]["server"]} \/ Completes(t, k)
  <2>1. \A u \in Threads : u # t => ~Completes(u, k)
    BY <1>0, OnlyOne
  <2> QED BY <1>d, <2>1 DEF Plain
<1>8. CASE st[k]["server"] = "closed"
  <2>1. Whole(Unread(k))'
    BY <1>4, <1>7, <1>8, <1>d DEF Whole
  <2>2. ("closed" \in {st[k]["client"], st[k]["server"]})'
    BY <1>2, <1>8
  <2>3. \A j \in Conns : Whole(Unread(j))'
    BY <1>5, <2>1
  <2>4. \A j \in Conns : Half(Unread(j))' => ("closed" \in {st[j]["client"], st[j]["server"]})'
    BY <1>5, <2>2
  <2>5. (st[Object]["server"])' # "open"
    BY <1>2, <1>3, <1>8
  <2> QED BY <1>0, <1>6, <2>3, <2>4, <2>5, PlainMoves
<1>9. CASE st[k]["server"] = "open"
  <2>1. inq'[k]["server"] = inq[k]["server"] \o Pieces(t)
    BY <1>2, <1>9
  <2>2. Unread(k)' = q \o Pieces(t)
    <3>1. CASE Taken(k) # NoItem /\ Taken(k).part = "head"
      <4>1. q = <<Taken(k)>> \o inq[k]["server"]
        BY <1>d, <3>1 DEF Unread
      <4>2. Unread(k)' = <<Taken(k)>> \o (inq[k]["server"] \o Pieces(t))
        BY <1>0, <2>1, <3>1 DEF Unread, Taken
      <4>3. <<Taken(k)>> \in Seq(Item) /\ inq[k]["server"] \in Seq(Item) /\ Pieces(t) \in Seq(Item)
        <5>1. Taken(k) \in Item
          BY <3>1 DEF Taken, TypeOK
        <5> QED BY <1>a, <5>1, TwoEnds, PiecesType DEF TypeOK, TcpTypeOK
      <4>4. (<<Taken(k)>> \o inq[k]["server"]) \o Pieces(t)
                = <<Taken(k)>> \o (inq[k]["server"] \o Pieces(t))
        BY <4>3, Associative, Zenon
      <4> QED BY <4>1, <4>2, <4>4
    <3>2. CASE ~(Taken(k) # NoItem /\ Taken(k).part = "head")
      BY <1>0, <1>d, <2>1, <3>2 DEF Unread, Taken
    <3> QED BY <3>1, <3>2
  <2>3. Half(q) => Completes(t, k) /\ pc[t] = "more"
    BY <1>0, <1>1, <1>7, <1>9 DEF Completes
  <2>4. CASE pc[t] = "more"
    <3>1. Half(q)
      BY <1>a, <1>b, <1>d, <1>9, <2>4 DEF Plain
    <3>2. q[Len(q)] = HeadOf(i)
      BY <1>c, <1>d, <2>3, <3>1 DEF Completes
    <3>3. Unread(k)' = q \o <<TailOf(i)>>
      BY <1>c, <2>2, <2>4, PacketIs DEF Pieces
    <3>4. Whole(q \o <<TailOf(i)>>) /\ ~Half(q \o <<TailOf(i)>>)
      BY <1>1, <1>7, <3>1, <3>2, WholeTail
    <3>5. Whole(Unread(k))' /\ ~Half(Unread(k))'
      BY <3>3, <3>4 DEF Whole, Half
    <3>6. AfterSend(t) # "more"
      BY <2>4 DEF AfterSend
    <3>7. \A j \in Conns : Whole(Unread(j))'
      BY <1>5, <3>5
    <3>8. \A j \in Conns : Half(Unread(j))' => ("closed" \in {st[j]["client"], st[j]["server"]})'
      BY <1>5, <3>5
    <3> QED BY <1>0, <1>6, <3>6, <3>7, <3>8, PlainMoves
  <2>5. CASE pc[t] = "send" /\ InPieces(i)
    <3>1. ~Half(q)
      BY <2>3, <2>5
    <3>2. Unread(k)' = q \o <<HeadOf(i)>>
      BY <1>c, <2>2, <2>5, PacketIs DEF Pieces
    <3>3. /\ Whole(q \o <<HeadOf(i)>>) /\ Half(q \o <<HeadOf(i)>>)
          /\ LET r == q \o <<HeadOf(i)>> IN r[Len(r)] = HeadOf(i)
      BY <1>1, <1>7, <3>1, WholeHead
    <3>4. /\ Whole(Unread(k))' /\ Half(Unread(k))'
          /\ (Unread(k)[Len(Unread(k))])' = HeadOf(i)
      BY <3>2, <3>3 DEF Whole, Half
    <3>5. pc'[t] = "more"
      BY <1>0, <1>c, <2>5 DEF AfterSend, TypeOK
    <3>6. Completes(t, k)'
      <4>1. Active(t)' /\ cur'[t] = i /\ (kind[cur[t]])' = "STREAMED"
        BY <1>0, <1>c, <2>5, <3>5 DEF Active, InPieces
      <4>2. Object' = k /\ HeadOf(cur[t])' = HeadOf(i)
        BY <1>0, <1>3, <1>c DEF HeadOf
      <4> QED BY <3>4, <3>5, <4>1, <4>2 DEF Completes
    <3>7. \A j \in Conns : Whole(Unread(j))'
      BY <1>5, <3>4
    <3>8. \A j \in Conns : Half(Unread(j))' =>
              ("closed" \in {st[j]["client"], st[j]["server"]})' \/ Completes(t, j)'
      BY <1>5, <3>6
    <3>9. Half(Unread(Object))'
      BY <1>3, <3>4 DEF Half, Unread, Taken
    <3> QED BY <1>0, <1>6, <3>7, <3>8, <3>9, PlainMoves
  <2>6. CASE pc[t] = "send" /\ ~InPieces(i)
    <3>1. ~Half(q)
      BY <2>3, <2>6
    <3>2. Unread(k)' = q \o Packet(i)
      BY <1>c, <2>2, <2>6 DEF Pieces
    <3>3. Whole(Unread(k))' /\ ~Half(Unread(k))'
      <4>1. Whole(q \o Packet(i)) /\ ~Half(q \o Packet(i))
        BY <1>1, <1>7, <3>1, WholePacket
      <4> QED BY <3>2, <4>1 DEF Whole, Half
    <3>4. AfterSend(t) # "more"
      BY <1>c, <2>6 DEF AfterSend
    <3>5. \A j \in Conns : Whole(Unread(j))'
      BY <1>5, <3>3
    <3>6. \A j \in Conns : Half(Unread(j))' => ("closed" \in {st[j]["client"], st[j]["server"]})'
      BY <1>5, <3>3
    <3> QED BY <1>0, <1>6, <3>4, <3>5, <3>6, PlainMoves
  <2> QED BY <1>0, <2>4, <2>5, <2>6
<1> QED BY <1>1, <1>8, <1>9

LEMMA SigPipePlain ==
    ASSUME TypeOK, Begun, Fresh, Plain, ~streamed, NEW t \in Threads, SigPipe(t)
    PROVE  Plain'
<1> DEFINE open == {fds[f] : f \in Fds} \ Objects
<1>1. PICK R : CloseAll(open, "client", R)
  BY DEF SigPipe
<1>2. /\ \A u \in Threads : pc'[u] = "killed"
      /\ UNCHANGED <<conn, taken, mixed, streamed, kind>>
  BY DEF SigPipe, serverVars, ghosts
<1>3. ASSUME NEW k \in Conns
      PROVE  /\ inq'[k]["server"] = inq[k]["server"] /\ st'[k]["server"] = st[k]["server"]
             /\ st'[k]["client"] \in {st[k]["client"], "closed"}
             /\ k \in open => st'[k]["client"] = "closed"
  <2>1. TcpTypeOK /\ "client" \in Ends /\ Peer("client") = "server"
    BY TwoEnds DEF TypeOK
  <2> HIDE DEF open
  <2> QED BY <1>1, <2>1, CloseAllDoes
<1>4. ASSUME NEW k \in Conns, NEW u \in Threads, Completes(u, k)
      PROVE  k \in open
  <2>1. Object = k /\ k \notin Objects
    BY <1>4, Names DEF Completes
  <2>2. sock \in Fds /\ fds[sock] = k
    BY <2>1, WhatSockIs DEF Objects
  <2> QED BY <2>1, <2>2
<1>5. ASSUME NEW k \in Conns
      PROVE  /\ Whole(Unread(k))'
             /\ Half(Unread(k))' => ("closed" \in {st[k]["client"], st[k]["server"]})'
  <2>1. Unread(k)' = Unread(k)
    BY <1>2, <1>3, UnreadSame
  <2>2. /\ Whole(Unread(k))
        /\ Half(Unread(k)) => \/ "closed" \in {st[k]["client"], st[k]["server"]}
                              \/ \E u \in Threads : Completes(u, k)
    BY DEF Plain
  <2>3. Whole(Unread(k))' /\ (Half(Unread(k))' => Half(Unread(k)))
    BY <2>1, <2>2 DEF Whole, Half
  <2> QED BY <1>3, <1>4, <2>2, <2>3
<1>6. \A u \in Threads : ~Active(u)' /\ pc'[u] # "more"
  BY <1>2 DEF Active
<1>7. mixed' = {}
  BY <1>2 DEF Plain
<1> QED BY <1>5, <1>6, <1>7 DEF Plain

LEMMA ThreadPlain ==
    ASSUME TypeOK, Begun, Fresh, Plain, NEW t \in Threads, ThreadStep(t)
    PROVE  Plain'
<1>1. CASE \E i \in Calls, k \in Kinds : Call(t, i, k)
  BY <1>1, CallPlain
<1> SUFFICES ASSUME ~(\E i \in Calls, k \in Kinds : Call(t, i, k)), ~streamed' PROVE Plain'
  BY <1>1 DEF Plain
<1>0. UNCHANGED <<streamed, mixed, kind, conn, taken>> /\ ~streamed /\ Active(t)
  <2>1. UNCHANGED <<streamed, mixed, conn, taken>>
    BY DEF ThreadStep, MakeSocket, MakeSocketFails, Connect, ConnectFails, CloseSock, ForgetSock,
           SendData, SendDataFails, SigPipe, GetReply, GetReplyFails, GetReplyAllocFails,
           GetReplyAstray, OrderlyStep, serverVars, ghosts
  <2>2. UNCHANGED kind
    BY DEF ThreadStep, MakeSocket, MakeSocketFails, Connect, ConnectFails, CloseSock, ForgetSock,
           SendData, SendDataFails, SigPipe, GetReply, GetReplyFails, GetReplyAllocFails,
           GetReplyAstray, OrderlyStep, GoOn, Returns
  <2>3. Active(t)
    BY DEF ThreadStep, MakeSocket, MakeSocketFails, Connect, ConnectFails, CloseSock, ForgetSock,
           SendData, SendDataFails, SigPipe, GetReply, GetReplyFails, GetReplyAllocFails,
           GetReplyAstray, OrderlyStep, Active
  <2> QED BY <2>1, <2>2, <2>3
<1>2. ASSUME NEW p, p \notin {"killed", "more", "idle"}, pc' = [pc EXCEPT ![t] = p], UNCHANGED cur,
             UNCHANGED <<st, inq>>, pc[t] \notin {"more", "close"}
      PROVE  Plain'
  <2>1. \A k \in Conns : ~Completes(t, k)
    BY <1>2 DEF Completes
  <2> QED BY <1>0, <1>2, <2>1, PlainQuiet
<1>3. ASSUME MakeSocket(t) PROVE Plain'
  BY <1>2, <1>3 DEF MakeSocket, Goto, tcpVars
<1>4. ASSUME MakeSocketFails(t) PROVE Plain'
  <2>1. /\ pc' = [pc EXCEPT ![t] = "idle"] /\ UNCHANGED <<st, inq>> /\ pc[t] = "socket"
        /\ \A u \in Threads : u # t => cur'[u] = cur[u]
    BY <1>4 DEF MakeSocketFails, Returns, Goto, tcpVars, TypeOK
  <2>2. \A k \in Conns : ~Completes(t, k)
    BY <2>1 DEF Completes
  <2> QED BY <1>0, <2>1, <2>2, PlainQuiet
<1>5. ASSUME Connect(t) PROVE Plain'
  <2>1. PICK k \in Conns : Establish(k)
    BY <1>5 DEF Connect
  <2>2. /\ UNCHANGED inq /\ st[k]["client"] = "none" /\ st[k]["server"] = "none"
        /\ \A j \in Conns : j # k => st'[j] = st[j]
    BY <2>1 DEF Establish, TypeOK, TcpTypeOK, Fresh
  <2>3. \A j \in Conns : \A e \in Ends : st[j][e] = "closed" => st'[j][e] = "closed"
    <3> TAKE j \in Conns
    <3> TAKE e \in Ends
    <3>1. CASE j = k
      BY <2>2, <3>1, TwoEnds
    <3>2. CASE j # k
      BY <2>2, <3>2
    <3> QED BY <3>1, <3>2
  <2>4. pc[t] = "connect" /\ pc' = [pc EXCEPT ![t] = "send"] /\ UNCHANGED cur
    BY <1>5 DEF Connect, Goto
  <2>5. \A j \in Conns : ~Completes(t, j)
    BY <2>4 DEF Completes
  <2> QED BY <1>0, <2>2, <2>3, <2>4, <2>5, PlainQuiet
<1>6. ASSUME ConnectFails(t) PROVE Plain'
  BY <1>2, <1>6 DEF ConnectFails, Disconnect, Goto, tcpVars
<1>7. ASSUME CloseSock(t) PROVE Plain'
  <2>1. /\ pc[t] = "close" /\ pc' = [pc EXCEPT ![t] = "forget"] /\ UNCHANGED cur
    BY <1>7 DEF CloseSock, Goto
  <2>2. CASE Connected
    <3>1. Object \in Conns /\ Close(Object, "client")
      BY <1>7, <2>2, WhatSockIs DEF CloseSock
    <3>2. /\ \A j \in Conns : j # Object => st'[j] = st[j] /\ inq'[j] = inq[j]
          /\ st'[Object]["client"] = "closed" /\ st'[Object]["server"] = st[Object]["server"]
          /\ inq'[Object]["server"] = inq[Object]["server"]
      <4>1. TcpTypeOK /\ "client" \in Ends /\ Peer("client") = "server"
        BY TwoEnds DEF TypeOK
      <4>2. PICK k \in Conns : k = Object
        BY <3>1
      <4> QED BY <3>1, <4>1, <4>2, CloseDoes
    <3>3. \A j \in Conns : inq'[j]["server"] = inq[j]["server"]
      BY <3>2
    <3>4. \A j \in Conns : \A e \in Ends : st[j][e] = "closed" => st'[j][e] = "closed"
      BY <3>2, TwoEnds
    <3>5. \A j \in Conns : Completes(t, j) => st'[j]["client"] = "closed"
      BY <3>2 DEF Completes
    <3> QED BY <1>0, <2>1, <3>3, <3>4, <3>5, PlainQuiet
  <2>3. CASE ~Connected
    <3>1. \A j \in Conns : ~Completes(t, j)
      BY <2>3, WhatSockIs DEF Completes
    <3>2. UNCHANGED <<st, inq>>
      BY <1>7, <2>3 DEF CloseSock, tcpVars
    <3> QED BY <1>0, <2>1, <3>1, <3>2, PlainQuiet
  <2> QED BY <2>2, <2>3
<1>8. ASSUME ForgetSock(t) PROVE Plain'
  <2>1. pc[t] = "forget" /\ sock' = Invalid /\ UNCHANGED <<st, inq>>
    BY <1>8 DEF ForgetSock, tcpVars
  <2>2. ~Connected'
    BY <2>1 DEF Connected, Object, Objects
  <2>3. \A j \in Conns : ~Completes(t, j)
    BY <2>1 DEF Completes
  <2>4. CASE back[t] = "idle"
    <3>1. /\ pc' = [pc EXCEPT ![t] = "idle"]
          /\ \A u \in Threads : u # t => cur'[u] = cur[u]
      BY <1>8, <2>4 DEF ForgetSock, GoOn, Returns, Goto, TypeOK
    <3> QED BY <1>0, <2>1, <2>2, <2>3, <3>1, PlainQuiet
  <2>5. CASE back[t] # "idle"
    <3>1. pc' = [pc EXCEPT ![t] = back[t]] /\ UNCHANGED cur /\ back[t] # "killed"
      BY <1>8, <2>5 DEF ForgetSock, GoOn, Goto, TypeOK
    <3> QED BY <1>0, <2>1, <2>2, <2>3, <3>1, PlainQuiet
  <2> QED BY <2>4, <2>5
<1>9. ASSUME SendData(t) PROVE Plain'
  BY <1>0, <1>9, SendPlain
<1>10. ASSUME SendDataFails(t) PROVE Plain'
  <2>1. /\ pc[t] \in {"send", "more"} /\ pc' = [pc EXCEPT ![t] = "close"]
        /\ back' = [back EXCEPT ![t] = AfterSend(t)]
        /\ UNCHANGED <<sock, fds, cur, st, inq>>
    BY <1>10 DEF SendDataFails, Disconnect, Goto, tcpVars
  <2>2. ASSUME NEW j \in Conns, Completes(t, j)
        PROVE  Completes(t, j)'
    <3>1. pc[t] = "more"
      BY <2>1, <2>2 DEF Completes
    <3>2. pc'[t] = "close" /\ back'[t] = "len" /\ Active(t)'
      BY <2>1, <3>1 DEF AfterSend, Active, TypeOK
    <3>3. Object' = Object /\ Unread(j)' = Unread(j)
      BY <1>0, <2>1, ObjectSame, UnreadSame
    <3> QED BY <1>0, <2>1, <2>2, <3>2, <3>3 DEF Completes, HeadOf
  <2> QED BY <1>0, <2>1, <2>2, PlainQuiet
<1>11. ASSUME SigPipe(t) PROVE Plain'
  BY <1>0, <1>11, SigPipePlain
<1>12. ASSUME GetReply(t) PROVE Plain'
  <2>1. pc[t] \in {"len", "body"} /\ \A u \in Threads : u # t => cur'[u] = cur[u]
    BY <1>12 DEF GetReply, Returns, TypeOK
  <2>2. PICK p \in {"body", "close", "idle"} :
            pc' = [pc EXCEPT ![t] = p] /\ (p # "idle" => UNCHANGED cur)
    <3>1. CASE pc[t] = "len"
      BY <1>12, <3>1, Zenon DEF GetReply, Goto
    <3>2. CASE pc[t] # "len" /\ kind[cur[t]] = "CLOSE"
      BY <1>12, <3>2, Zenon DEF GetReply, Goto, Disconnect
    <3>3. CASE pc[t] # "len" /\ kind[cur[t]] # "CLOSE"
      BY <1>12, <3>3 DEF GetReply, Goto, Returns
    <3> QED BY <3>1, <3>2, <3>3
  <2>3. Object \in Conns /\ \E part : Receive(Object, "client", part)
    BY <1>12, WhatSockIs DEF GetReply
  <2>4. UNCHANGED st /\ \A j \in Conns : inq'[j]["server"] = inq[j]["server"]
    <3>1. TcpTypeOK /\ "client" \in Ends /\ Peer("client") = "server"
      BY TwoEnds DEF TypeOK
    <3>2. PICK k \in Conns : k = Object
      BY <2>3
    <3> QED BY <2>3, <3>1, <3>2, ReceiveDoes
  <2>5. \A j \in Conns : ~Completes(t, j)
    BY <2>1 DEF Completes
  <2>6. p # "idle" => cur'[t] = cur[t]
    BY <2>2
  <2>7. p # "killed" /\ p # "more"
    BY <2>2
  <2> QED BY <1>0, <2>1, <2>2, <2>4, <2>5, <2>6, <2>7, PlainQuiet
<1>13. ASSUME GetReplyFails(t) PROVE Plain'
  <2>1. pc[t] \notin {"more", "close"}
    BY <1>13 DEF GetReplyFails
  <2> QED BY <1>2, <1>13, <2>1 DEF GetReplyFails, Disconnect, Goto, tcpVars
<1>14. ASSUME GetReplyAllocFails(t) PROVE Plain'
  <2>1. /\ pc' = [pc EXCEPT ![t] = "idle"] /\ UNCHANGED <<st, inq>> /\ pc[t] = "body"
        /\ \A u \in Threads : u # t => cur'[u] = cur[u]
    BY <1>14 DEF GetReplyAllocFails, Returns, Goto, tcpVars, TypeOK
  <2>2. \A k \in Conns : ~Completes(t, k)
    BY <2>1 DEF Completes
  <2> QED BY <1>0, <2>1, <2>2, PlainQuiet
<1>15. ASSUME GetReplyAstray(t) PROVE Plain'
  <2>1. /\ pc[t] = "len" /\ Object \in Conns
        /\ \E n \in Nat : ReceiveSome(Object, "client", n)
    BY <1>15, AstrayGets, Zenon
  <2>2. UNCHANGED st /\ \A j \in Conns : inq'[j]["server"] = inq[j]["server"]
    <3>1. TcpTypeOK /\ "client" \in Ends /\ Peer("client") = "server"
      BY TwoEnds DEF TypeOK
    <3>2. PICK k \in Conns : k = Object
      BY <2>1
    <3> QED BY <2>1, <3>1, <3>2, ReceiveSomeDoes
  <2>3. \/ \E R : Returns(t, R)
        \/ Disconnect(t, "idle") /\ UNCHANGED <<cur, kind>>
    BY <1>15, AstrayGets, Zenon
  <2>4. PICK p \in {"close", "idle"} :
            pc' = [pc EXCEPT ![t] = p] /\ (p # "idle" => UNCHANGED cur)
    BY <2>3 DEF Returns, Disconnect, Goto
  <2>5. \A u \in Threads : u # t => cur'[u] = cur[u]
    BY <2>3 DEF Returns, TypeOK
  <2>6. \A j \in Conns : ~Completes(t, j)
    BY <2>1 DEF Completes
  <2>7. p # "killed" /\ p # "more" /\ (p # "idle" => cur'[t] = cur[t])
    BY <2>4
  <2> QED BY <1>0, <2>2, <2>4, <2>5, <2>6, <2>7, PlainQuiet
<1> QED BY <1>3, <1>4, <1>5, <1>6, <1>7, <1>8, <1>9, <1>10, <1>11, <1>12, <1>13, <1>14, <1>15
        DEF ThreadStep, OrderlyStep

\* A step of the server, or of the rest of the application.
LEMMA PlainServer ==
    ASSUME Plain, ~streamed, UNCHANGED <<pc, back, cur, kind, streamed, mixed>>,
           UNCHANGED <<Object, Connected>>, Connected => Object \in Conns,
           \A k \in Conns : Whole(Unread(k))',
           \A k \in Conns : Half(Unread(k))' =>
               /\ Half(Unread(k))
               /\ (Unread(k)[Len(Unread(k))])' = Unread(k)[Len(Unread(k))],
           \A k \in Conns : Half(Unread(k)) => Half(Unread(k))' \/ st'[k]["server"] # "open",
           \A k \in Conns : \A e \in Ends :
               /\ st[k][e] = "closed" => st'[k][e] = "closed"
               /\ st'[k][e] = "open" => st[k][e] = "open"
    PROVE  Plain'
<1>1. \A t \in Threads : Active(t)' /\ (kind[cur[t]])' = "STREAMED" => Alone(t)'
  BY DEF Plain, Active, Alone
<1>2. ASSUME NEW k \in Conns, Half(Unread(k))'
      PROVE  \/ ("closed" \in {st[k]["client"], st[k]["server"]})'
             \/ \E t \in Threads : Completes(t, k)'
  <2>1. Half(Unread(k)) /\ (Unread(k)[Len(Unread(k))])' = Unread(k)[Len(Unread(k))]
    BY <1>2
  <2>2. CASE "closed" \in {st[k]["client"], st[k]["server"]}
    BY <2>2, TwoEnds
  <2>3. CASE \E t \in Threads : Completes(t, k)
    <3>1. PICK t \in Threads : Completes(t, k)
      BY <2>3
    <3>2. Completes(t, k)'
      BY <2>1, <3>1 DEF Completes, Active, HeadOf
    <3> QED BY <3>2
  <2> QED BY <2>1, <2>2, <2>3 DEF Plain
<1>3. ASSUME NEW t \in Threads, pc'[t] = "more", Connected', (st[Object]["server"])' = "open"
      PROVE  Half(Unread(Object))'
  <2>1. PICK k \in Conns : k = Object /\ k = Object'
    BY <1>3
  <2>2. st[k]["server"] = "open" /\ st'[k]["server"] = "open"
    BY <1>3, <2>1, TwoEnds
  <2>3. Half(Unread(k))
    BY <1>3, <2>1, <2>2 DEF Plain
  <2>4. Half(Unread(k))'
    BY <2>2, <2>3
  <2> QED BY <2>1, <2>4 DEF Half, Unread, Taken
<1>4. mixed' = {}
  BY DEF Plain
<1> QED BY <1>1, <1>2, <1>3, <1>4 DEF Plain

LEMMA PlainSame ==
    ASSUME Plain, UNCHANGED <<pc, back, cur, kind, streamed, mixed>>,
           UNCHANGED <<Object, Connected>>, Connected => Object \in Conns,
           UNCHANGED st, \A k \in Conns : Unread(k)' = Unread(k)
    PROVE  Plain'
<1> SUFFICES ASSUME ~streamed PROVE Plain'
  BY DEF Plain
<1>1. ASSUME NEW k \in Conns
      PROVE  Whole(Unread(k))' /\ (Half(Unread(k))' <=> Half(Unread(k)))
  <2>1. Whole(Unread(k))
    BY DEF Plain
  <2> QED BY <2>1 DEF Whole, Half
<1>2. \A k \in Conns : (Unread(k)[Len(Unread(k))])' = Unread(k)[Len(Unread(k))]
  OBVIOUS
<1> QED BY <1>1, <1>2, PlainServer

LEMMA OpenFilePlain ==
    ASSUME TypeOK, Plain, OpenFile
    PROVE  Plain'
<1>0. UNCHANGED <<pc, back, cur, kind, streamed, mixed, sock, conn, taken, st, inq>>
  BY DEF OpenFile, serverVars, ghosts, tcpVars
<1>1. PICK f \in Fds : fds[f] = Free /\ fds' = [fds EXCEPT ![f] = File]
  BY DEF OpenFile, IsNext, FreeFds
<1>2. \A k \in Conns : Unread(k)' = Unread(k)
  BY <1>0, UnreadSame
<1> SUFFICES ASSUME ~streamed PROVE Plain'
  BY <1>0 DEF Plain
<1>3. CASE sock # f
  <2>1. Object' = Object /\ (Connected <=> Connected')
    BY <1>0, <1>1, <1>3, WhatSockIs DEF Object, Connected, TypeOK
  <2>2. UNCHANGED <<Object, Connected>>
    BY <2>1 DEF Connected
  <2> QED BY <1>0, <1>2, <2>2, WhatSockIs, PlainSame
<1>4. CASE sock = f
  <2>1. sock # Invalid /\ Object = Free /\ Object' = File
    BY <1>0, <1>1, <1>4, Names DEF Object, TypeOK
  <2>2. ~Connected /\ ~Connected'
    BY <2>1 DEF Connected, Objects
  <2>3. \A t \in Threads, k \in Conns : ~Completes(t, k)
    BY <2>1, Names DEF Completes, Objects
  <2>4. ASSUME NEW k \in Conns
        PROVE  /\ Whole(Unread(k))'
               /\ Half(Unread(k))' => ("closed" \in {st[k]["client"], st[k]["server"]})'
    <3>1. /\ Whole(Unread(k))
          /\ Half(Unread(k)) => "closed" \in {st[k]["client"], st[k]["server"]}
      BY <2>3 DEF Plain
    <3> QED BY <1>0, <1>2, <3>1 DEF Whole, Half
  <2>5. \A t \in Threads : Active(t)' /\ (kind[cur[t]])' = "STREAMED" => Alone(t)'
    BY <1>0 DEF Plain, Active, Alone
  <2>6. mixed' = {}
    BY <1>0 DEF Plain
  <2> QED BY <2>2, <2>4, <2>5, <2>6 DEF Plain
<1> QED BY <1>3, <1>4

LEMMA ReadCommandPlain ==
    ASSUME TypeOK, Fresh, Plain, ~streamed, ReadCommand
    PROVE  Plain'
<1>a. conn \in Conns /\ Unread(conn) \in Seq(Item)
  BY UnreadType DEF ReadCommand, TypeOK
<1>b. PICK k \in Conns : k = conn
  BY <1>a
<1>0. /\ UNCHANGED <<pc, back, cur, kind, streamed, conn, sock, fds>>
      /\ taken # NoItem => taken.part = "head"
      /\ \E part : Receive(k, "server", part)
      /\ taken' = Head(inq[k]["server"])
      /\ mixed' = IF IF taken = NoItem THEN Head(inq[k]["server"]).part = "head"
                     ELSE Head(inq[k]["server"]) = [taken EXCEPT !.part = "tail"]
                    THEN mixed ELSE mixed \cup {k}
  BY <1>b DEF ReadCommand, threadVars, ghosts
<1>1. PICK q \in Seq(Item) : q = inq[k]["server"]
  BY TwoEnds DEF TypeOK, TcpTypeOK
<1>2. /\ UNCHANGED st
      /\ \A j \in Conns : j # k => inq'[j] = inq[j]
      /\ q # <<>> /\ inq'[k]["server"] = Tail(q)
  <2>1. TcpTypeOK /\ "server" \in Ends
    BY TwoEnds DEF TypeOK
  <2> QED BY <1>0, <1>1, <2>1, ReceiveDoes
<1>3. \A j \in Conns : j # k => Unread(j)' = Unread(j)
  BY <1>0, <1>2, <1>b DEF Unread, Taken
<1>4. Whole(Unread(k)) /\ mixed = {}
  BY DEF Plain
<1>5. /\ Head(q) \in Item /\ Head(q) # NoItem /\ q = <<Head(q)>> \o Tail(q) /\ Head(q) = q[1]
      /\ Len(q) > 0
  <2>1. Head(q) \in Item /\ q = <<Head(q)>> \o Tail(q) /\ Head(q) = q[1] /\ Len(q) > 0
    BY <1>2
  <2> QED BY <2>1, ThreadsAssumption
<1>6. UNCHANGED Object /\ UNCHANGED Connected /\ (Connected => Object \in Conns)
  BY <1>0, WhatSockIs DEF Object, Connected
<1>7. ASSUME mixed' = mixed, Whole(Unread(k))',
             Half(Unread(k))' <=> Half(Unread(k)),
             Half(Unread(k)) => (Unread(k)[Len(Unread(k))])' = Unread(k)[Len(Unread(k))]
      PROVE  Plain'
  <2>1. ASSUME NEW j \in Conns
        PROVE  /\ Whole(Unread(j))' /\ (Half(Unread(j))' <=> Half(Unread(j)))
               /\ Half(Unread(j)) => (Unread(j)[Len(Unread(j))])' = Unread(j)[Len(Unread(j))]
    <3>1. CASE j = k
      BY <1>7, <3>1
    <3>2. CASE j # k
      <4>1. Whole(Unread(j))
        BY DEF Plain
      <4> QED BY <1>3, <3>2, <4>1 DEF Whole, Half
    <3> QED BY <3>1, <3>2
  <2> QED BY <1>0, <1>2, <1>6, <1>7, <2>1, PlainServer
<1>8. CASE taken = NoItem
  <2>1. Unread(k) = q
    BY <1>1, <1>8 DEF Unread, Taken
  <2>2. Head(q).part = "head"
    <3>1. 1 \in 1 .. Len(q) /\ ~(1 > 1)
      BY <1>5
    <3> QED BY <1>4, <1>5, <2>1, <3>1 DEF Whole
  <2>3. mixed' = mixed
    BY <1>0, <1>1, <1>8, <2>2
  <2>4. Unread(k)' = q
    BY <1>0, <1>1, <1>2, <1>5, <1>b, <2>2 DEF Unread, Taken
  <2> QED BY <1>4, <1>7, <2>1, <2>3, <2>4 DEF Whole, Half
<1>9. CASE taken # NoItem
  <2>1. taken \in Item /\ taken.part = "head"
    BY <1>0, <1>9 DEF TypeOK
  <2>2. Unread(k) = <<taken>> \o q
    BY <1>1, <1>9, <1>b, <2>1 DEF Unread, Taken
  <2>3. /\ Head(q) = TailOf(taken.call)
        /\ Whole(Tail(q))
        /\ Half(<<taken>> \o q) <=> Half(Tail(q))
        /\ Half(Tail(q)) => (<<taken>> \o q)[Len(<<taken>> \o q)] = Tail(q)[Len(Tail(q))]
    BY <1>2, <1>4, <2>1, <2>2, WholeRest
  <2>4. Head(q) = [taken EXCEPT !.part = "tail"]
    BY <2>1, <2>3 DEF TailOf, Item
  <2>5. mixed' = mixed
    BY <1>0, <1>1, <1>9, <2>4
  <2>6. Head(q).part # "head"
    BY <2>3 DEF TailOf
  <2>7. Unread(k)' = Tail(q)
    BY <1>0, <1>1, <1>2, <1>b, <2>6 DEF Unread, Taken
  <2> QED BY <1>7, <2>2, <2>3, <2>5, <2>7 DEF Whole, Half
<1> QED BY <1>8, <1>9

LEMMA ServerPlain ==
    ASSUME TypeOK, Fresh, Plain, ServerStep
    PROVE  Plain'
<1>0. UNCHANGED <<pc, back, cur, kind, streamed, sock, fds>>
  BY DEF ServerStep, AcceptClient, ReadCommand, Reply, EndClient, threadVars, ghosts
<1> SUFFICES ASSUME ~streamed PROVE Plain'
  BY <1>0 DEF Plain
<1>6. UNCHANGED Object /\ UNCHANGED Connected /\ (Connected => Object \in Conns)
  BY <1>0, WhatSockIs DEF Object, Connected
<1>1. CASE AcceptClient
  <2>1. UNCHANGED <<st, inq, taken, mixed>> /\ conn = NoConn
    BY <1>1 DEF AcceptClient, TakeQueued
  <2>2. taken = NoItem
    BY <2>1 DEF Fresh
  <2>3. \A k \in Conns : Unread(k)' = Unread(k)
    BY <2>1, <2>2 DEF Unread, Taken
  <2> QED BY <1>0, <1>6, <2>1, <2>3, PlainSame
<1>2. CASE ReadCommand
  BY <1>2, ReadCommandPlain
<1>3. CASE Reply
  <2>1. /\ conn \in Conns /\ taken # NoItem /\ taken.part = "tail" /\ UNCHANGED <<conn, mixed>>
        /\ taken' = NoItem /\ Send(conn, "server", Packet(taken.call))
    BY <1>3 DEF Reply, TypeOK
  <2>2. UNCHANGED st /\ \A j \in Conns : inq'[j]["server"] = inq[j]["server"]
    <3>1. TcpTypeOK /\ "server" \in Ends
      BY TwoEnds DEF TypeOK
    <3>2. PICK k \in Conns : k = conn
      BY <2>1
    <3> QED BY <2>1, <3>1, <3>2, SendDoes
  <2>3. \A k \in Conns : Unread(k)' = Unread(k)
    BY <2>1, <2>2 DEF Unread, Taken
  <2> QED BY <1>0, <1>6, <2>1, <2>2, <2>3, PlainSame
<1>4. CASE EndClient
  <2>1. PICK k \in Conns : /\ conn = k /\ conn' = NoConn /\ taken' = NoItem /\ UNCHANGED mixed
                           /\ Close(k, "server")
    BY <1>4 DEF EndClient, TypeOK
  <2>2. /\ \A j \in Conns : j # k => st'[j] = st[j] /\ inq'[j] = inq[j]
        /\ st'[k]["server"] = "closed" /\ st'[k]["client"] = st[k]["client"]
        /\ inq'[k]["server"] = <<>>
    <3>1. TcpTypeOK /\ "server" \in Ends /\ Peer("server") = "client"
      BY TwoEnds DEF TypeOK
    <3> QED BY <2>1, <3>1, CloseDoes
  <2>3. Unread(k)' = <<>>
    BY <2>1, <2>2 DEF Unread, Taken
  <2>4. \A j \in Conns : j # k => Unread(j)' = Unread(j)
    BY <2>1, <2>2 DEF Unread, Taken
  <2>5. ASSUME NEW j \in Conns
        PROVE  /\ Whole(Unread(j))'
               /\ Half(Unread(j))' =>
                     /\ Half(Unread(j))
                     /\ (Unread(j)[Len(Unread(j))])' = Unread(j)[Len(Unread(j))]
               /\ Half(Unread(j)) => Half(Unread(j))' \/ st'[j]["server"] # "open"
    <3>1. CASE j = k
      BY <2>2, <2>3, <3>1, WholeEmpty DEF Whole, Half
    <3>2. CASE j # k
      <4>1. Whole(Unread(j))
        BY DEF Plain
      <4> QED BY <2>4, <3>2, <4>1 DEF Whole, Half
    <3> QED BY <3>1, <3>2
  <2>6. \A j \in Conns : \A e \in Ends :
            /\ st[j][e] = "closed" => st'[j][e] = "closed"
            /\ st'[j][e] = "open" => st[j][e] = "open"
    BY <2>2, TwoEnds
  <2> QED BY <1>0, <1>6, <2>1, <2>5, <2>6, PlainServer
<1> QED BY <1>1, <1>2, <1>3, <1>4 DEF ServerStep

LEMMA PlainKept ==
    ASSUME TypeOK, Begun, Fresh, Plain, [Next]_vars
    PROVE  Plain'
<1>1. CASE UNCHANGED vars
  <2>1. UNCHANGED <<pc, back, cur, kind, streamed, mixed, sock, fds, st, inq, conn, taken>>
    BY <1>1 DEF vars, threadVars, serverVars, ghosts, tcpVars
  <2>2. UNCHANGED Object /\ UNCHANGED Connected /\ (Connected => Object \in Conns)
    BY <2>1, WhatSockIs DEF Object, Connected
  <2>3. \A k \in Conns : Unread(k)' = Unread(k)
    BY <2>1, UnreadSame
  <2> QED BY <2>1, <2>2, <2>3, PlainSame
<1>2. CASE \E t \in Threads : ThreadStep(t)
  BY <1>2, ThreadPlain
<1>3. CASE OpenFile
  BY <1>3, OpenFilePlain
<1>4. CASE ServerStep
  BY <1>4, ServerPlain
<1> QED BY <1>1, <1>2, <1>3, <1>4 DEF Next

-----------------------------------------------------------------------------
(* Every step keeps that replies and descriptors are a call's own, as long *)
(* as no call had company.                                                 *)

\* A step of thread t, that is in a call before it.
LEMMA SerialMoves ==
    ASSUME TypeOK, Serial, ~overlapped, NEW t \in Threads, Active(t),
           NEW p, pc' = [pc EXCEPT ![t] = p], UNCHANGED overlapped, ~harm',
           OwnReplies',
           \A f \in Fds : fds'[f] \in Conns \cup {New} => f = sock',
           SockOf(t)'
    PROVE  Serial'
<1>1. pc'[t] = p /\ \A u \in Threads : u # t => pc'[u] = "idle"
  BY DEF Serial, Alone, TypeOK
<1>2. ASSUME NEW u \in Threads, Active(u)'
      PROVE  Alone(u)'
  BY <1>1, <1>2 DEF Active, Alone
<1>3. ASSUME NEW u \in Threads, Alone(u)'
      PROVE  SockOf(u)'
  <2>1. CASE u = t
    BY <2>1
  <2>2. CASE u # t
    <3>1. pc'[u] = "idle" /\ pc'[t] = "idle"
      BY <1>1, <1>3, <2>2 DEF Alone
    <3> QED BY <3>1 DEF SockOf, Flow
  <2> QED BY <2>1, <2>2
<1> QED BY <1>2, <1>3 DEF Serial

\* What is known of thread t before such a step.
LEMMA SerialBefore ==
    ASSUME TypeOK, Serial, ~overlapped, NEW t \in Threads, Active(t)
    PROVE  /\ Alone(t) /\ SockOf(t) /\ ~harm
           /\ OwnReplies
           /\ \A f \in Fds : fds[f] \in Conns \cup {New} => f = sock
BY DEF Serial

LEMMA SideSame ==
    ASSUME NEW t \in Threads, NEW k \in Conns, inq'[k] = inq[k], UNCHANGED <<conn, taken>>,
           pc'[t] = pc[t], cur'[t] = cur[t], Flow(t, k)
    PROVE  Flow(t, k)'
BY DEF Flow, Side, Taken, Nowhere, First, Asked, HeadOf, TailOf, Packet

LEMMA CallSerial ==
    ASSUME TypeOK, Serial, NEW t \in Threads, NEW i \in Calls, NEW k \in Kinds, Call(t, i, k),
           UNCHANGED astray
    PROVE  Serial'
<1> SUFFICES ASSUME ~overlapped' PROVE Serial'
  BY DEF Serial
<1> DEFINE others == {cur[u] : u \in {v \in Threads : pc[v] # "idle"}}
<1>1. ~overlapped /\ others = {}
  BY DEF Call
<1>2. \A u \in Threads : pc[u] = "idle"
  BY <1>1
<1>3. /\ pc'[t] = IF k = "OPEN" /\ sock = Invalid THEN "socket" ELSE "send"
      /\ \A u \in Threads : u # t => pc'[u] = "idle"
      /\ UNCHANGED <<sock, fds, harm, got, conn, taken, inq>>
  BY <1>2 DEF Call, Goto, TypeOK, serverVars, tcpVars
<1>4. SockOf(t)
  BY <1>1, <1>2 DEF Serial, Alone
<1>5. Object' = Object /\ (Connected <=> Connected')
  BY <1>3, ObjectSame
<1>6. SockOf(t)'
  <2>1. CASE pc'[t] = "socket"
    BY <1>3, <2>1 DEF SockOf
  <2>2. CASE pc'[t] = "send"
    <3>1. (sock # Invalid => Connected) /\ (Connected /\ Object \notin astray => Flow(t, Object))
      BY <1>2, <1>4 DEF SockOf
    <3>2. sock' # Invalid => Connected'
      BY <1>3, <1>5, <3>1
    <3>3. ASSUME Connected', Object' \notin astray PROVE Flow(t, Object)'
      <4>1. Flow(t, Object)
        BY <1>5, <3>1, <3>3
      <4>2. Side(Object) \in Nowhere /\ inq[Object]["client"] = <<>>
        BY <1>2, <4>1 DEF Flow
      <4>3. Side(Object)' = Side(Object) /\ (inq[Object]["client"])' = inq[Object]["client"]
        BY <1>3, <1>5 DEF Side, Taken
      <4>4. (Side(Object) \in Nowhere)'
        BY <4>2, <4>3 DEF Nowhere
      <4> QED BY <2>2, <4>2, <4>3, <4>4 DEF Flow
    <3> QED BY <2>2, <3>2, <3>3 DEF SockOf
  <2> QED BY <1>3, <2>1, <2>2
<1>7. pc'[t] # "idle"
  BY <1>3
<1>8. \A u \in Threads : Active(u)' => Alone(u)'
  BY <1>3 DEF Active, Alone
<1>9. \A u \in Threads : Alone(u)' => SockOf(u)'
  BY <1>6, <1>7 DEF Alone
<1>10. /\ ~harm'
       /\ OwnReplies'
       /\ \A f \in Fds : fds'[f] \in Conns \cup {New} => f = sock'
  BY <1>1, <1>3 DEF Serial, OwnReplies
<1> QED BY <1>8, <1>9, <1>10 DEF Serial

LEMMA ReturnsGot ==
    ASSUME TypeOK, NEW t \in Threads, cur[t] \in Calls, NEW R, R \subseteq {cur[t]}, Returns(t, R),
           OwnReplies, astray \subseteq astray'
    PROVE  /\ OwnReplies'
           /\ pc' = [pc EXCEPT ![t] = "idle"] /\ pc'[t] = "idle"
<1>1. pc' = [pc EXCEPT ![t] = "idle"] /\ pc'[t] = "idle"
  BY DEF TypeOK, Returns, Goto
<1>2. ASSUME \A i \in Calls : got[i] \subseteq {i}
      PROVE  \A i \in Calls : got'[i] \subseteq {i}
  BY <1>2 DEF TypeOK, Returns
<1>3. astray' = {} => astray = {}
  OBVIOUS
<1> QED BY <1>1, <1>2, <1>3 DEF OwnReplies

LEMMA SocketSerial ==
    ASSUME TypeOK, Begun, Serial, ~overlapped, NEW t \in Threads,
           MakeSocket(t) \/ MakeSocketFails(t), UNCHANGED astray
    PROVE  Serial'
<1>0. Active(t) /\ pc[t] = "socket" /\ UNCHANGED <<overlapped, harm>>
  BY DEF MakeSocket, MakeSocketFails, Active, ghosts
<1>1. /\ SockOf(t) /\ ~harm
      /\ OwnReplies
      /\ \A f \in Fds : fds[f] \in Conns \cup {New} => f = sock
  BY <1>0, SerialBefore
<1>2. sock = Invalid /\ \A f \in Fds : fds[f] \notin Conns \cup {New}
  BY <1>0, <1>1, Names DEF SockOf
<1>3. CASE MakeSocket(t)
  <2>1. PICK f \in Fds : fds' = [fds EXCEPT ![f] = New] /\ sock' = f
    BY <1>3 DEF MakeSocket
  <2>2. /\ pc' = [pc EXCEPT ![t] = "connect"] /\ pc'[t] = "connect" /\ UNCHANGED got
    BY <1>3 DEF MakeSocket, Goto, TypeOK
  <2>3. Object' = New
    BY <2>1, Names DEF Object, TypeOK
  <2>4. SockOf(t)'
    BY <2>2, <2>3 DEF SockOf
  <2>5. \A g \in Fds : fds'[g] \in Conns \cup {New} => g = sock'
    BY <1>2, <2>1 DEF TypeOK
  <2>6. OwnReplies'
    BY <1>1, <2>2 DEF OwnReplies
  <2> QED BY <1>0, <1>1, <2>2, <2>4, <2>5, <2>6, SerialMoves
<1>4. CASE MakeSocketFails(t)
  <2>1. sock' = Invalid /\ UNCHANGED fds /\ Returns(t, {})
    BY <1>4 DEF MakeSocketFails
  <2>2. cur[t] \in Calls
    BY <1>0, ActiveCall
  <2>3. /\ OwnReplies'
        /\ pc' = [pc EXCEPT ![t] = "idle"] /\ pc'[t] = "idle"
    BY <1>1, <2>1, <2>2, ReturnsGot
  <2>4. ~Connected'
    BY <2>1 DEF Connected, Object, Objects
  <2>5. SockOf(t)'
    BY <2>1, <2>3, <2>4 DEF SockOf
  <2> QED BY <1>0, <1>1, <1>2, <2>1, <2>3, <2>5, SerialMoves
<1> QED BY <1>3, <1>4

LEMMA DisconnectSerial ==
    ASSUME TypeOK, Serial, ~overlapped, NEW t \in Threads, Active(t), NEW p, Disconnect(t, p),
           UNCHANGED <<sock, fds, got, overlapped, harm, astray>>,
           pc[t] = "connect" \/ pc[t] \in {"send", "more", "len", "body"}
    PROVE  Serial'
<1>1. /\ SockOf(t) /\ ~harm
      /\ OwnReplies
      /\ \A f \in Fds : fds[f] \in Conns \cup {New} => f = sock
  BY SerialBefore
<1>2. sock = Invalid \/ Object \in Conns \cup {New}
  BY <1>1, WhatSockIs DEF SockOf
<1>3. pc' = [pc EXCEPT ![t] = "close"] /\ pc'[t] = "close"
  BY DEF Disconnect, Goto, TypeOK
<1>4. Object' = Object
  BY ObjectSame
<1>5. SockOf(t)'
  BY <1>2, <1>3, <1>4 DEF SockOf
<1>6. OwnReplies'
  BY <1>1 DEF OwnReplies
<1> QED BY <1>1, <1>3, <1>5, <1>6, SerialMoves

LEMMA ConnectSerial ==
    ASSUME TypeOK, Begun, Fresh, Serial, ~overlapped, NEW t \in Threads, Connect(t),
           UNCHANGED astray
    PROVE  Serial'
<1>0. /\ Active(t) /\ pc[t] = "connect" /\ Object = New
      /\ UNCHANGED <<overlapped, harm, sock, got, conn, taken>>
  BY DEF Connect, Active, ghosts, serverVars
<1>1. /\ ~harm
      /\ OwnReplies
      /\ \A f \in Fds : fds[f] \in Conns \cup {New} => f = sock
  BY <1>0, SerialBefore
<1>2. PICK k \in Conns : Establish(k) /\ fds' = [fds EXCEPT ![sock] = k]
  BY DEF Connect
<1>3. sock \in Fds
  BY <1>0, WhatSockIs, Names
<1>4. Object' = k /\ k \notin Objects
  BY <1>0, <1>2, <1>3, Names DEF Object, TypeOK
<1>5. /\ st[k]["client"] = "none" /\ UNCHANGED inq
      /\ inq[k]["client"] = <<>> /\ inq[k]["server"] = <<>> /\ conn # k
  BY <1>2, TwoEnds DEF Establish, Fresh
<1>6. pc' = [pc EXCEPT ![t] = "send"] /\ pc'[t] = "send"
  BY DEF Connect, Goto, TypeOK
<1>7. Flow(t, Object)'
  <2>1. Side(k)' = <<<<>>, NoItem>> /\ inq'[k]["client"] = <<>>
    BY <1>0, <1>5 DEF Side, Taken
  <2>2. Side(Object)' = Side(k)' /\ (inq[Object]["client"])' = inq'[k]["client"]
    BY <1>4 DEF Side, Taken
  <2> QED BY <1>6, <2>1, <2>2 DEF Flow, Nowhere
<1>8. SockOf(t)'
  BY <1>4, <1>6, <1>7 DEF SockOf, Connected
<1>9. \A f \in Fds : fds'[f] \in Conns \cup {New} => f = sock'
  BY <1>0, <1>1, <1>2 DEF TypeOK
<1>10. OwnReplies'
  BY <1>0, <1>1 DEF OwnReplies
<1> QED BY <1>0, <1>1, <1>6, <1>8, <1>9, <1>10, SerialMoves

LEMMA CloseSerial ==
    ASSUME TypeOK, Begun, Serial, ~overlapped, NEW t \in Threads,
           CloseSock(t) \/ ForgetSock(t), UNCHANGED astray
    PROVE  Serial'
<1>0. Active(t) /\ UNCHANGED overlapped
  BY DEF CloseSock, ForgetSock, Active, ghosts
<1>1. /\ SockOf(t) /\ ~harm
      /\ OwnReplies
      /\ \A f \in Fds : fds[f] \in Conns \cup {New} => f = sock
  BY <1>0, SerialBefore
<1>2. CASE CloseSock(t)
  <2>1. /\ pc[t] = "close" /\ pc' = [pc EXCEPT ![t] = "forget"] /\ pc'[t] = "forget"
        /\ UNCHANGED <<sock, got>> /\ harm' = (harm \/ Object = File)
        /\ fds' = IF Object = Free THEN fds ELSE [fds EXCEPT ![sock] = Free]
    BY <1>2 DEF CloseSock, Goto, TypeOK
  <2>2. sock = Invalid \/ Object \in Conns \cup {New}
    BY <1>1, <2>1 DEF SockOf
  <2>3. ~harm'
    BY <1>1, <2>1, <2>2, WhatSockIs, Names DEF Objects
  <2>4. Object' = Free /\ \A f \in Fds : fds'[f] \in Conns \cup {New} => f = sock'
    <3>1. CASE sock = Invalid
      BY <1>1, <2>1, <3>1, WhatSockIs DEF Object
    <3>2. CASE sock # Invalid
      <4>1. sock \in Fds /\ Object # Free
        BY <2>2, <3>2, WhatSockIs, Names DEF Objects
      <4> QED BY <1>1, <2>1, <3>2, <4>1 DEF Object, TypeOK
    <3> QED BY <3>1, <3>2
  <2>5. SockOf(t)'
    BY <2>1, <2>4 DEF SockOf
  <2>6. OwnReplies'
    BY <1>1, <2>1 DEF OwnReplies
  <2> QED BY <1>0, <1>1, <2>1, <2>3, <2>4, <2>5, <2>6, SerialMoves
<1>3. CASE ForgetSock(t)
  <2>1. pc[t] = "forget" /\ sock' = Invalid /\ UNCHANGED <<fds, harm>>
    BY <1>3 DEF ForgetSock, ghosts
  <2>2. \A f \in Fds : fds[f] \notin Conns \cup {New}
    <3>1. Object \in {Free, File}
      BY <1>1, <2>1 DEF SockOf
    <3> QED BY <1>1, <3>1, WhatSockIs, Names DEF Objects
  <2>3. ~Connected'
    BY <2>1 DEF Connected, Object, Objects
  <2>4. PICK p \in {"idle", "more", "len"} :
            /\ pc' = [pc EXCEPT ![t] = p] /\ pc'[t] = p
            /\ OwnReplies'
    <3>1. CASE back[t] = "idle"
      <4>1. Returns(t, {}) /\ cur[t] \in Calls
        BY <1>0, <1>3, <3>1, ActiveCall DEF ForgetSock, GoOn
      <4> QED BY <1>1, <4>1, ReturnsGot
    <3>2. CASE back[t] # "idle"
      BY <1>1, <1>3, <3>2 DEF ForgetSock, GoOn, Goto, TypeOK, OwnReplies
    <3> QED BY <3>1, <3>2
  <2>5. SockOf(t)'
    BY <2>1, <2>3, <2>4 DEF SockOf
  <2> QED BY <1>0, <1>1, <2>1, <2>2, <2>4, <2>5, SerialMoves
<1> QED BY <1>2, <1>3

\* What a command of call i, or its next piece, makes of what there is.
LEMMA Pieced ==
    ASSUME NEW i \in Calls
    PROVE  /\ <<>> \o Packet(i) = <<HeadOf(i), TailOf(i)>>
           /\ <<>> \o <<Head(Packet(i))>> = <<HeadOf(i)>>
           /\ <<>> \o Tail(Packet(i)) = <<TailOf(i)>>
           /\ <<HeadOf(i)>> \o Tail(Packet(i)) = <<HeadOf(i), TailOf(i)>>
<1>1. /\ HeadOf(i) \in Item /\ TailOf(i) \in Item /\ Packet(i) = <<HeadOf(i), TailOf(i)>>
      /\ Tail(Packet(i)) = <<TailOf(i)>> /\ Head(Packet(i)) = HeadOf(i)
      /\ Packet(i) \in Seq(Item) /\ Tail(Packet(i)) \in Seq(Item) /\ <<Head(Packet(i))>> \in Seq(Item)
  BY PacketIs
<1>2. \A s \in Seq(Item) : <<>> \o s = s
  BY ConcatEmptySeq
<1>4. <<HeadOf(i), TailOf(i)>> = <<HeadOf(i)>> \o <<TailOf(i)>>
  BY <1>1, TwoJoined, Zenon
<1> QED BY <1>1, <1>2, <1>4

LEMMA SendSerial ==
    ASSUME TypeOK, Begun, Fresh, Serial, ~overlapped, NEW t \in Threads, SendData(t),
           UNCHANGED astray
    PROVE  Serial'
<1>a. Active(t) /\ Connected /\ Object \in Conns /\ cur[t] \in Calls
  BY WhatSockIs, ActiveCall DEF SendData, Active
<1>b. PICK k \in Conns : k = Object
  BY <1>a
<1>c. PICK i \in Calls : i = cur[t]
  BY <1>a
<1>0. /\ pc[t] \in {"send", "more"}
      /\ Send(k, "client", Pieces(t))
      /\ pc' = [pc EXCEPT ![t] = AfterSend(t)]
      /\ UNCHANGED <<sock, fds, cur, conn, taken, got, overlapped, harm>>
  BY <1>b DEF SendData, Goto, serverVars, ghosts
<1>1. /\ SockOf(t) /\ ~harm
      /\ OwnReplies
      /\ \A f \in Fds : fds[f] \in Conns \cup {New} => f = sock
  BY <1>a, SerialBefore
<1>2. Object' = k /\ Connected'
  BY <1>0, <1>a, <1>b, ObjectSame
<1>3. k \notin astray => Flow(t, k)
  BY <1>0, <1>1, <1>a, <1>b DEF SockOf
<1>4. /\ inq'[k]["client"] = inq[k]["client"]
      /\ inq'[k]["server"] \in {inq[k]["server"], inq[k]["server"] \o Pieces(t)}
      /\ Taken(k)' = Taken(k)
  <2>1. TcpTypeOK /\ "client" \in Ends /\ Peer("client") = "server"
    BY TwoEnds DEF TypeOK
  <2>2. /\ inq'[k]["client"] = inq[k]["client"]
        /\ inq'[k]["server"] = IF k \notin cut /\ st[k]["server"] = "open"
                                 THEN inq[k]["server"] \o Pieces(t) ELSE inq[k]["server"]
    BY <1>0, <2>1, SendDoes
  <2>3. Taken(k)' = Taken(k)
    BY <1>0 DEF Taken
  <2> QED BY <2>2, <2>3
<1>5. pc'[t] = AfterSend(t) /\ cur'[t] = i
  BY <1>0, <1>c DEF TypeOK
<1>6. ASSUME k \notin astray PROVE Flow(t, k)'
  <2>0. Flow(t, k)
    BY <1>3, <1>6
  <2>1. CASE pc[t] = "send" /\ InPieces(i)
    <3>1. pc'[t] = "more" /\ Pieces(t) = <<Head(Packet(i))>>
      BY <1>5, <1>c, <2>1 DEF AfterSend, Pieces
    <3>2. Side(k) = <<<<>>, NoItem>> /\ inq[k]["client"] = <<>>
      BY <2>0, <2>1 DEF Flow, Nowhere
    <3>3. inq[k]["server"] = <<>> /\ Taken(k) = NoItem
      BY <3>2 DEF Side
    <3>4. Side(k)' \in {<<<<>>, NoItem>>, <<<<HeadOf(i)>>, NoItem>>}
      BY <1>4, <3>1, <3>3, Pieced DEF Side
    <3>5. (Side(k) \in First(cur[t]))'
      BY <1>5, <3>4 DEF First, Nowhere, HeadOf
    <3> QED BY <1>4, <3>1, <3>2, <3>5 DEF Flow
  <2>2. CASE pc[t] = "send" /\ ~InPieces(i)
    <3>1. pc'[t] = "len" /\ Pieces(t) = Packet(i)
      BY <1>5, <1>c, <2>2 DEF AfterSend, Pieces
    <3>2. Side(k) = <<<<>>, NoItem>> /\ inq[k]["client"] = <<>>
      BY <2>0, <2>2 DEF Flow, Nowhere
    <3>3. inq[k]["server"] = <<>> /\ Taken(k) = NoItem
      BY <3>2 DEF Side
    <3>4. Side(k)' \in {<<<<>>, NoItem>>, <<<<HeadOf(i), TailOf(i)>>, NoItem>>}
      BY <1>4, <3>1, <3>3, Pieced DEF Side
    <3>5. (Side(k) \in Asked(cur[t]))'
      BY <1>5, <3>4 DEF Asked, First, Nowhere, HeadOf, TailOf
    <3> QED BY <1>4, <3>1, <3>2, <3>5 DEF Flow
  <2>3. CASE pc[t] = "more"
    <3>1. pc'[t] = "len" /\ Pieces(t) = Tail(Packet(i))
      BY <1>5, <1>c, <2>3 DEF AfterSend, Pieces
    <3>2. Side(k) \in First(i) /\ inq[k]["client"] = <<>>
      BY <2>0, <1>c, <2>3 DEF Flow
    <3>3. \/ inq[k]["server"] = <<>> /\ Taken(k) = NoItem
          \/ inq[k]["server"] = <<HeadOf(i)>> /\ Taken(k) = NoItem
          \/ inq[k]["server"] = <<>> /\ Taken(k) = HeadOf(i)
      BY <3>2 DEF Side, First, Nowhere
    <3>4. Side(k)' \in {<<<<>>, NoItem>>, <<<<TailOf(i)>>, NoItem>>, <<<<HeadOf(i)>>, NoItem>>,
                        <<<<HeadOf(i), TailOf(i)>>, NoItem>>, <<<<>>, HeadOf(i)>>,
                        <<<<TailOf(i)>>, HeadOf(i)>>}
      BY <1>4, <3>1, <3>3, Pieced DEF Side
    <3>5. (Side(k) \in Asked(cur[t]))'
      BY <1>5, <3>4 DEF Asked, First, Nowhere, HeadOf, TailOf
    <3> QED BY <1>4, <3>1, <3>2, <3>5 DEF Flow
  <2> QED BY <1>0, <2>1, <2>2, <2>3
<1>7. k \notin astray => Flow(t, Object)'
  BY <1>2, <1>6 DEF Flow, Side, Taken
<1>8. pc'[t] \in {"more", "len"}
  BY <1>5 DEF AfterSend
<1>9. SockOf(t)'
  BY <1>2, <1>7, <1>8 DEF SockOf
<1>10. OwnReplies'
  BY <1>0, <1>1 DEF OwnReplies
<1> QED BY <1>0, <1>1, <1>9, <1>10, <1>a, SerialMoves

LEMMA SigPipeSerial ==
    ASSUME TypeOK, Serial, ~overlapped, NEW t \in Threads, SigPipe(t),
           UNCHANGED astray
    PROVE  Serial'
<1>1. /\ Active(t) /\ UNCHANGED <<overlapped, harm, got>> /\ sock' = Invalid
      /\ \A f \in Fds : fds'[f] = Free
      /\ \A u \in Threads : pc'[u] = "killed"
  BY DEF SigPipe, Active, ghosts
<1>2. ~Connected'
  BY <1>1 DEF Connected, Object, Objects
<1>3. \A u \in Threads : SockOf(u)' /\ ~Active(u)'
  BY <1>1, <1>2 DEF SockOf, Active
<1>4. \A f \in Fds : fds'[f] \notin Conns \cup {New}
  BY <1>1, Names DEF Objects
<1> QED BY <1>1, <1>3, <1>4 DEF Serial, OwnReplies

LEMMA GetReplySerial ==
    ASSUME TypeOK, Begun, Serial, ~overlapped, NEW t \in Threads, GetReply(t),
           UNCHANGED astray
    PROVE  Serial'
<1>a. /\ Active(t) /\ Connected /\ Object \in Conns /\ cur[t] \in Calls
      /\ pc[t] \in {"len", "body"} /\ sock # Invalid
  BY WhatSockIs, ActiveCall, Names DEF GetReply, Active, Objects
<1>b. PICK k \in Conns : k = Object
  BY <1>a
<1>c. PICK i \in Calls : i = cur[t]
  BY <1>a
<1>0. /\ \E part : Receive(k, "client", part)
      /\ UNCHANGED <<sock, fds, conn, taken, overlapped, harm>>
  BY <1>b DEF GetReply, serverVars, ghosts
<1>1. /\ SockOf(t) /\ ~harm
      /\ OwnReplies
      /\ \A f \in Fds : fds[f] \in Conns \cup {New} => f = sock
  BY <1>a, SerialBefore
<1>2. Object' = k /\ Connected'
  BY <1>0, <1>a, <1>b, ObjectSame
<1>3. k \notin astray => Flow(t, k)
  BY <1>1, <1>a, <1>b DEF SockOf
<1>4. /\ inq[k]["client"] # <<>> /\ inq'[k]["client"] = Tail(inq[k]["client"])
      /\ Side(k)' = Side(k)
  <2>1. TcpTypeOK /\ "client" \in Ends /\ Peer("client") = "server"
    BY TwoEnds DEF TypeOK
  <2> QED BY <1>0, <2>1, ReceiveDoes DEF Side, Taken
<1>5. CASE pc[t] = "len"
  <2>0. k \notin astray
    BY <1>5, <1>b DEF GetReply
  <2>1. Side(k) \in Nowhere /\ inq[k]["client"] = Packet(i)
    BY <1>3, <1>4, <1>5, <1>c, <2>0 DEF Flow
  <2>2. Head(inq[k]["client"]).call = i /\ inq'[k]["client"] = <<TailOf(i)>>
    BY <1>4, <2>1, PacketIs
  <2>3. /\ pc' = [pc EXCEPT ![t] = "body"] /\ pc'[t] = "body" /\ UNCHANGED cur
        /\ got' = [got EXCEPT ![i] = {i}]
    BY <1>5, <1>b, <1>c, <2>2 DEF GetReply, Goto, TypeOK
  <2>4. OwnReplies'
    BY <1>1, <2>3 DEF TypeOK, OwnReplies
  <2>5. (Side(k) \in Nowhere)'
    BY <1>4, <2>1 DEF Nowhere
  <2>6. Flow(t, k)'
    BY <1>c, <2>2, <2>3, <2>5 DEF Flow, TailOf
  <2>7. Flow(t, Object)'
    BY <1>2, <2>6 DEF Flow, Side, Taken
  <2>8. SockOf(t)'
    BY <1>2, <2>3, <2>7 DEF SockOf
  <2> QED BY <1>0, <1>1, <1>a, <2>3, <2>4, <2>8, SerialMoves
<1>6. CASE pc[t] = "body" /\ k \notin astray
  <2>1. Side(k) \in Nowhere /\ inq[k]["client"] = <<TailOf(i)>>
    BY <1>3, <1>6, <1>c DEF Flow
  <2>2. Head(inq[k]["client"]).call = i /\ inq'[k]["client"] = <<>>
    BY <1>4, <2>1, PacketIs
  <2>3. CASE kind[i] = "CLOSE"
    <3>1. Disconnect(t, "idle")
      BY <1>6, <1>c, <2>3, Zenon DEF GetReply
    <3>2. got' = [got EXCEPT ![i] = @ \cup {i}]
      BY <1>6, <1>b, <1>c, <2>2, <2>3 DEF GetReply
    <3>3. OwnReplies'
      BY <1>1, <3>2 DEF TypeOK, OwnReplies
    <3>4. pc' = [pc EXCEPT ![t] = "close"] /\ pc'[t] = "close"
      BY <3>1 DEF Disconnect, Goto, TypeOK
    <3>5. SockOf(t)'
      BY <1>2, <3>4 DEF SockOf
    <3> QED BY <1>0, <1>1, <1>a, <3>3, <3>4, <3>5, SerialMoves
  <2>4. CASE kind[i] # "CLOSE"
    <3>1. Returns(t, {i})
      BY <1>6, <1>b, <1>c, <2>2, <2>4 DEF GetReply
    <3>2. /\ OwnReplies'
          /\ pc' = [pc EXCEPT ![t] = "idle"] /\ pc'[t] = "idle"
      BY <1>1, <1>a, <1>c, <3>1, ReturnsGot
    <3>3. (Side(k) \in Nowhere)'
      BY <1>4, <2>1 DEF Nowhere
    <3>4. Flow(t, k)'
      BY <2>2, <3>2, <3>3 DEF Flow
    <3>5. Flow(t, Object)'
      BY <1>2, <3>4 DEF Flow, Side, Taken
    <3>6. SockOf(t)'
      BY <1>2, <3>2, <3>5 DEF SockOf
    <3> QED BY <1>0, <1>1, <1>a, <3>2, <3>6, SerialMoves
  <2> QED BY <2>3, <2>4
<1>7. CASE pc[t] = "body" /\ k \in astray
  <2>1. PICK p \in {"close", "idle"} : pc' = [pc EXCEPT ![t] = p] /\ pc'[t] = p
    <3>1. CASE kind[i] = "CLOSE"
      <4>1. Disconnect(t, "idle")
        BY <1>7, <1>c, <3>1, Zenon DEF GetReply
      <4> QED BY <4>1 DEF Disconnect, Goto, TypeOK
    <3>2. CASE kind[i] # "CLOSE"
      BY <1>7, <1>c, <3>2 DEF GetReply, Returns, Goto, TypeOK
    <3> QED BY <3>1, <3>2
  <2>2. OwnReplies'
    BY <1>7 DEF OwnReplies
  <2>3. SockOf(t)'
    BY <1>2, <1>7, <2>1 DEF SockOf
  <2> QED BY <1>0, <1>1, <1>a, <2>1, <2>2, <2>3, SerialMoves
<1> QED BY <1>5, <1>6, <1>7, <1>a

\* The rest of a reply is left on the connection, or taken for another: from
\* then on nothing is said of what calls get.
LEMMA LostReplySerial ==
    ASSUME TypeOK, Begun, Serial, ~overlapped, NEW t \in Threads,
           GetReplyAllocFails(t) \/ (GetReplyAstray(t) /\ UNCHANGED astray)
    PROVE  Serial'
<1>1. /\ Active(t) /\ Connected /\ Object \in Conns /\ sock # Invalid
      /\ UNCHANGED <<sock, fds, overlapped, harm>> /\ Object \in astray'
      /\ \/ \E R : Returns(t, R)
         \/ Disconnect(t, "idle")
  <2>1. CASE GetReplyAllocFails(t)
    BY <2>1, WhatSockIs, Names DEF GetReplyAllocFails, Active, ghosts, Objects
  <2>2. CASE GetReplyAstray(t) /\ UNCHANGED astray
    <3>1. /\ pc[t] = "len" /\ Connected /\ Object \in Conns /\ Object \in astray
          /\ UNCHANGED <<sock, fds, ghosts>>
          /\ \/ \E R : Returns(t, R)
             \/ Disconnect(t, "idle")
      BY <2>2, AstrayGets, Zenon
    <3> QED BY <2>2, <3>1, WhatSockIs, Names DEF Active, ghosts, Objects
  <2> QED BY <2>1, <2>2
<1>2. /\ ~harm
      /\ \A f \in Fds : fds[f] \in Conns \cup {New} => f = sock
  BY <1>1, SerialBefore
<1>3. PICK p \in {"close", "idle"} : pc' = [pc EXCEPT ![t] = p] /\ pc'[t] = p
  BY <1>1 DEF Returns, Disconnect, Goto, TypeOK
<1>4. Object' = Object /\ Connected'
  BY <1>1, ObjectSame
<1>5. OwnReplies'
  BY <1>1 DEF OwnReplies
<1>6. SockOf(t)'
  BY <1>1, <1>3, <1>4 DEF SockOf
<1> QED BY <1>1, <1>2, <1>3, <1>5, <1>6, SerialMoves


LEMMA ThreadSerial ==
    ASSUME TypeOK, Begun, Fresh, Serial, NEW t \in Threads, ThreadStep(t)
    PROVE  Serial'
<1>1. CASE UNCHANGED astray /\ \E i \in Calls, k \in Kinds : Call(t, i, k)
  BY <1>1, CallSerial
<1>2. CASE ~\E i \in Calls, k \in Kinds : Call(t, i, k)
  <2>1. UNCHANGED overlapped
    BY <1>2 DEF ThreadStep, MakeSocket, MakeSocketFails, Connect, ConnectFails, CloseSock, ForgetSock,
           SendData, SendDataFails, SigPipe, GetReply, GetReplyFails, GetReplyAllocFails,
           GetReplyAstray, OrderlyStep, ghosts
  <2>2. CASE overlapped
    BY <2>1, <2>2 DEF Serial
  <2>3. CASE ~overlapped
    <3>1. ConnectFails(t) /\ UNCHANGED astray => Serial'
      BY <2>3, DisconnectSerial DEF ConnectFails, Active, ghosts
    <3>2. SendDataFails(t) /\ UNCHANGED astray => Serial'
      BY <2>3, DisconnectSerial DEF SendDataFails, Active, ghosts
    <3>3. GetReplyFails(t) /\ UNCHANGED astray => Serial'
      BY <2>3, DisconnectSerial DEF GetReplyFails, Active, ghosts
    <3> QED BY <1>2, <2>3, <3>1, <3>2, <3>3, SocketSerial, ConnectSerial, CloseSerial, SendSerial,
               SigPipeSerial, GetReplySerial, LostReplySerial DEF ThreadStep, OrderlyStep
  <2> QED BY <2>2, <2>3
<1> QED BY <1>1, <1>2 DEF ThreadStep, GetReplyAllocFails, GetReplyAstray, Call

\* A step of the server.
LEMMA SerialServer ==
    ASSUME TypeOK, Serial, ~overlapped,
           UNCHANGED <<pc, cur, got, harm, overlapped, sock, fds, astray>>,
           \A t \in Threads, k \in Conns : Flow(t, k) => Flow(t, k)'
    PROVE  Serial'
<1>1. Object' = Object /\ (Connected <=> Connected')
  BY ObjectSame
<1>2. ASSUME NEW t \in Threads, Alone(t)'
      PROVE  SockOf(t)'
  <2>1. Alone(t) /\ SockOf(t)
    BY <1>2 DEF Serial, Alone
  <2>2. Connected /\ Flow(t, Object) => Flow(t, Object)'
    <3>1. SUFFICES ASSUME Connected, Flow(t, Object) PROVE Flow(t, Object)'
      OBVIOUS
    <3>2. PICK k \in Conns : k = Object
      BY <3>1, WhatSockIs
    <3>3. Flow(t, k)'
      BY <3>1, <3>2
    <3> QED BY <1>1, <3>2, <3>3 DEF Flow, Side, Taken
  <2> QED BY <1>1, <2>1, <2>2 DEF SockOf
<1>3. \A t \in Threads : Active(t)' => Alone(t)'
  BY DEF Serial, Active, Alone
<1>4. OwnReplies'
  BY DEF Serial, OwnReplies
<1> QED BY <1>2, <1>3, <1>4 DEF Serial

LEMMA FlowSame ==
    ASSUME NEW t \in Threads, NEW k \in Conns, UNCHANGED <<pc, cur>>,
           inq'[k] = inq[k], Taken(k)' = Taken(k), Flow(t, k)
    PROVE  Flow(t, k)'
BY DEF Flow, Side, Nowhere, First, Asked, HeadOf, TailOf, Packet

LEMMA ReadFlow ==
    ASSUME TypeOK, ReadCommand, NEW t \in Threads, NEW k \in Conns, Flow(t, k)
    PROVE  Flow(t, k)'
<1>a. conn \in Conns
  BY DEF ReadCommand, TypeOK
<1>b. PICK j \in Conns : j = conn
  BY <1>a
<1>0. /\ UNCHANGED <<pc, cur, conn>> /\ \E part : Receive(j, "server", part)
      /\ taken' = Head(inq[j]["server"])
  BY <1>b DEF ReadCommand, threadVars
<1>1. /\ \A x \in Conns : x # j => inq'[x] = inq[x]
      /\ inq[j]["server"] # <<>> /\ inq'[j]["server"] = Tail(inq[j]["server"])
      /\ inq'[j]["client"] = inq[j]["client"]
  <2>1. TcpTypeOK /\ "server" \in Ends /\ Peer("server") = "client"
    BY TwoEnds DEF TypeOK
  <2> QED BY <1>0, <2>1, ReceiveDoes
<1>2. CASE k # j
  <2>1. Taken(k)' = Taken(k)
    BY <1>0, <1>2, <1>b DEF Taken
  <2> QED BY <1>0, <1>1, <1>2, <2>1, FlowSame
<1>3. CASE k = j
  <2> DEFINE i == cur[t]
  <2>1. Side(k)' = <<Tail(inq[k]["server"]), Head(inq[k]["server"])>>
    BY <1>0, <1>1, <1>3, <1>b DEF Side, Taken
  <2>2. Side(k) = <<inq[k]["server"], Taken(k)>> /\ inq[k]["server"] # <<>>
    BY <1>1, <1>3 DEF Side
  <2>3. Side(k) \notin Nowhere
    BY <2>2 DEF Nowhere
  <2>4. \/ pc[t] = "more" /\ Side(k) \in First(i) /\ inq[k]["client"] = <<>>
        \/ pc[t] = "len" /\ Side(k) \in Asked(i) /\ inq[k]["client"] = <<>>
    BY <2>3 DEF Flow
  <2>5. Side(k) \in First(i) => Side(k)' = <<<<>>, HeadOf(i)>>
    <3>1. SUFFICES ASSUME Side(k) \in First(i) PROVE Side(k)' = <<<<>>, HeadOf(i)>>
      OBVIOUS
    <3>2. inq[k]["server"] = <<HeadOf(i)>>
      BY <2>2, <2>3, <3>1 DEF First
    <3> QED BY <2>1, <3>2
  <2>6. Side(k) \in Asked(i) => Side(k)' \in {<<<<>>, HeadOf(i)>>, <<<<TailOf(i)>>, HeadOf(i)>>,
                                              <<<<>>, TailOf(i)>>}
    <3>1. SUFFICES ASSUME Side(k) \in Asked(i), Side(k) \notin First(i)
                   PROVE  Side(k)' \in {<<<<TailOf(i)>>, HeadOf(i)>>, <<<<>>, TailOf(i)>>}
      BY <2>5
    <3>2. Side(k) \in {<<<<HeadOf(i), TailOf(i)>>, NoItem>>, <<<<TailOf(i)>>, HeadOf(i)>>,
                        <<<<TailOf(i)>>, NoItem>>, <<<<>>, TailOf(i)>>}
      BY <3>1 DEF Asked
    <3>3. inq[k]["server"] = <<HeadOf(i), TailOf(i)>> \/ inq[k]["server"] = <<TailOf(i)>>
      BY <2>2, <3>2
    <3>4. CASE inq[k]["server"] = <<HeadOf(i), TailOf(i)>>
      <4>1. Tail(inq[k]["server"]) = <<TailOf(i)>> /\ Head(inq[k]["server"]) = HeadOf(i)
        BY <3>4
      <4> QED BY <2>1, <4>1
    <3>5. CASE inq[k]["server"] = <<TailOf(i)>>
      <4>1. Tail(inq[k]["server"]) = <<>> /\ Head(inq[k]["server"]) = TailOf(i)
        BY <3>5
      <4> QED BY <2>1, <4>1
    <3> QED BY <3>3, <3>4, <3>5
  <2>7. inq'[k]["client"] = inq[k]["client"] /\ pc'[t] = pc[t] /\ cur'[t] = i
    BY <1>0, <1>1, <1>3
  <2>8. CASE pc[t] = "more"
    <3>1. (Side(k) \in First(cur[t]))'
      BY <2>4, <2>5, <2>7, <2>8 DEF First, HeadOf
    <3> QED BY <2>4, <2>7, <2>8, <3>1 DEF Flow
  <2>9. CASE pc[t] = "len"
    <3>1. (Side(k) \in Asked(cur[t]))'
      BY <2>4, <2>6, <2>7, <2>9 DEF Asked, First, HeadOf, TailOf
    <3> QED BY <2>4, <2>7, <2>9, <3>1 DEF Flow
  <2> QED BY <2>4, <2>8, <2>9
<1> QED BY <1>2, <1>3

LEMMA ReplyFlow ==
    ASSUME TypeOK, Reply, NEW t \in Threads, NEW k \in Conns, Flow(t, k)
    PROVE  Flow(t, k)'
<1>a. conn \in Conns
  BY DEF Reply, TypeOK
<1>b. PICK j \in Conns : j = conn
  BY <1>a
<1>0. /\ UNCHANGED <<pc, cur, conn>> /\ Send(j, "server", Packet(taken.call))
      /\ taken # NoItem /\ taken.part = "tail" /\ taken' = NoItem
      /\ taken \in Item
  BY <1>b DEF Reply, threadVars, TypeOK
<1>1. /\ \A x \in Conns : x # j => inq'[x] = inq[x]
      /\ inq'[j]["server"] = inq[j]["server"]
      /\ inq'[j]["client"] \in {inq[j]["client"], inq[j]["client"] \o Packet(taken.call)}
  <2>1. TcpTypeOK /\ "server" \in Ends /\ Peer("server") = "client"
    BY TwoEnds DEF TypeOK
  <2>2. /\ \A x \in Conns : x # j => inq'[x] = inq[x]
        /\ inq'[j]["server"] = inq[j]["server"]
        /\ inq'[j]["client"] = IF j \notin cut /\ st[j]["client"] = "open"
                                 THEN inq[j]["client"] \o Packet(taken.call) ELSE inq[j]["client"]
    BY <1>0, <2>1, SendDoes
  <2> QED BY <2>2
<1>2. CASE k # j
  <2>1. Taken(k)' = Taken(k)
    BY <1>0, <1>2, <1>b DEF Taken
  <2> QED BY <1>0, <1>1, <1>2, <2>1, FlowSame
<1>3. CASE k = j
  <2>1. Side(k) = <<inq[k]["server"], taken>>
    BY <1>3, <1>b DEF Side, Taken
  <2>2. Side(k) \notin First(cur[t]) /\ Side(k) \notin Nowhere
    BY <1>0, <2>1 DEF First, Nowhere, HeadOf
  <2>3. pc[t] = "len" /\ Side(k) \in Asked(cur[t]) /\ inq[k]["client"] = <<>>
    BY <2>2 DEF Flow
  <2>4. taken = TailOf(cur[t]) /\ inq[k]["server"] = <<>>
    BY <1>0, <2>1, <2>2, <2>3 DEF Asked, HeadOf
  <2>5. cur[t] \in Calls /\ taken.call = cur[t]
    BY <1>0, <2>4 DEF Item, TailOf
  <2>6. (Side(k) \in Nowhere)'
    BY <1>0, <1>1, <1>3, <1>b, <2>4 DEF Side, Taken, Nowhere
  <2>7. inq'[k]["client"] \in {<<>>, Packet(cur[t])}
    BY <1>1, <1>3, <2>3, <2>5, Pieced, PacketIs
  <2>8. pc'[t] = "len" /\ Packet(cur[t])' = Packet(cur[t])
    BY <1>0, <2>3 DEF Packet
  <2> QED BY <2>6, <2>7, <2>8 DEF Flow, Asked, First
<1> QED BY <1>2, <1>3

LEMMA EndFlow ==
    ASSUME TypeOK, EndClient, NEW t \in Threads, NEW k \in Conns, Flow(t, k)
    PROVE  Flow(t, k)'
<1>1. PICK j \in Conns : /\ conn = j /\ conn' = NoConn /\ taken' = NoItem /\ Close(j, "server")
                         /\ UNCHANGED <<pc, cur>>
  BY DEF EndClient, TypeOK, threadVars
<1>2. /\ \A x \in Conns : x # j => inq'[x] = inq[x]
      /\ inq'[j]["server"] = <<>> /\ inq'[j]["client"] = inq[j]["client"]
  <2>1. TcpTypeOK /\ "server" \in Ends /\ Peer("server") = "client"
    BY TwoEnds DEF TypeOK
  <2> QED BY <1>1, <2>1, CloseDoes
<1>3. CASE k # j
  <2>1. Taken(k)' = Taken(k)
    BY <1>1, <1>3 DEF Taken
  <2> QED BY <1>1, <1>2, <1>3, <2>1, FlowSame
<1>4. CASE k = j
  <2>1. Side(k)' = <<<<>>, NoItem>> /\ inq'[k]["client"] = inq[k]["client"]
    BY <1>1, <1>2, <1>4 DEF Side, Taken
  <2>2. /\ (Side(k) \in Nowhere)' /\ (Side(k) \in First(cur[t]))' /\ (Side(k) \in Asked(cur[t]))'
    BY <2>1 DEF Nowhere, First, Asked
  <2> QED BY <1>1, <2>1, <2>2 DEF Flow, Packet, TailOf
<1> QED BY <1>3, <1>4

LEMMA ServerSerial ==
    ASSUME TypeOK, Fresh, Serial, ServerStep, UNCHANGED astray
    PROVE  Serial'
<1>0. UNCHANGED <<pc, cur, got, harm, overlapped, sock, fds>>
  BY DEF ServerStep, AcceptClient, ReadCommand, Reply, EndClient, threadVars, ghosts
<1> SUFFICES ASSUME ~overlapped PROVE Serial'
  BY <1>0 DEF Serial
<1>1. CASE AcceptClient
  <2>1. UNCHANGED <<inq, taken>> /\ taken = NoItem
    BY <1>1 DEF AcceptClient, TakeQueued, Fresh
  <2>2. \A k \in Conns : Taken(k)' = Taken(k)
    BY <2>1 DEF Taken
  <2>3. \A t \in Threads, k \in Conns : Flow(t, k) => Flow(t, k)'
    BY <1>0, <2>1, <2>2, FlowSame
  <2> QED BY <1>0, <2>3, SerialServer
<1>2. CASE ReadCommand
  BY <1>0, <1>2, ReadFlow, SerialServer
<1>3. CASE Reply
  BY <1>0, <1>3, ReplyFlow, SerialServer
<1>4. CASE EndClient
  BY <1>0, <1>4, EndFlow, SerialServer
<1> QED BY <1>1, <1>2, <1>3, <1>4 DEF ServerStep

LEMMA OpenFileSerial ==
    ASSUME TypeOK, Serial, OpenFile, UNCHANGED astray
    PROVE  Serial'
<1>0. UNCHANGED <<pc, cur, got, harm, overlapped, sock, conn, taken, inq>>
  BY DEF OpenFile, serverVars, ghosts, tcpVars
<1> SUFFICES ASSUME ~overlapped PROVE Serial'
  BY <1>0 DEF Serial
<1>1. PICK f \in Fds : fds[f] = Free /\ fds' = [fds EXCEPT ![f] = File]
  BY DEF OpenFile, IsNext, FreeFds
<1>2. \/ Object' = Object
      \/ Object = Free /\ Object' = File /\ sock # Invalid
  BY <1>0, <1>1 DEF Object, TypeOK
<1>3. ASSUME NEW t \in Threads, Alone(t)'
      PROVE  SockOf(t)'
  <2>1. Alone(t) /\ SockOf(t)
    BY <1>0, <1>3 DEF Serial, Alone
  <2>2. CASE Object' = Object
    <3>1. Connected <=> Connected'
      BY <2>2 DEF Connected
    <3>2. Connected /\ Flow(t, Object) => Flow(t, Object)'
      <4>1. SUFFICES ASSUME Connected, Flow(t, Object) PROVE Flow(t, Object)'
        OBVIOUS
      <4>2. PICK k \in Conns : k = Object
        BY <4>1, WhatSockIs
      <4>3. Flow(t, k)'
        BY <1>0, <4>1, <4>2, FlowSame DEF Taken
      <4> QED BY <2>2, <4>2, <4>3 DEF Flow, Side, Taken
    <3> QED BY <1>0, <2>1, <2>2, <3>1, <3>2 DEF SockOf
  <2>3. CASE Object = Free /\ Object' = File /\ sock # Invalid
    <3>1. ~Connected
      BY <2>3 DEF Connected, Objects
    <3>2. pc[t] = "forget"
      BY <2>1, <2>3, <3>1, Names DEF SockOf, Objects
    <3> QED BY <1>0, <2>3, <3>2 DEF SockOf
  <2> QED BY <1>2, <2>2, <2>3
<1>4. \A t \in Threads : Active(t)' => Alone(t)'
  BY <1>0 DEF Serial, Active, Alone
<1>5. \A g \in Fds : fds'[g] \in Conns \cup {New} => g = sock'
  BY <1>0, <1>1, Names DEF Serial, TypeOK, Objects
<1>6. OwnReplies'
  BY <1>0 DEF Serial, OwnReplies
<1> QED BY <1>0, <1>3, <1>4, <1>5, <1>6 DEF Serial

LEMMA SerialKept ==
    ASSUME TypeOK, Begun, Fresh, Serial, [Next]_vars
    PROVE  Serial'
<1>1. CASE UNCHANGED vars
  <2>1. UNCHANGED <<pc, cur, got, harm, overlapped, sock, fds, inq, conn, taken, astray>>
    BY <1>1 DEF vars, threadVars, serverVars, ghosts, tcpVars
  <2>2. \A t \in Threads, k \in Conns : Flow(t, k) => Flow(t, k)'
    BY <2>1, FlowSame DEF Taken
  <2>3. CASE overlapped
    BY <2>1, <2>3 DEF Serial
  <2>4. CASE ~overlapped
    BY <2>1, <2>2, <2>4, SerialServer
  <2> QED BY <2>3, <2>4
<1>2. CASE \E t \in Threads : ThreadStep(t)
  BY <1>2, ThreadSerial
<1>3. CASE OpenFile /\ UNCHANGED astray
  BY <1>3, OpenFileSerial
<1>4. CASE ServerStep /\ UNCHANGED astray
  BY <1>4, ServerSerial
<1> QED BY <1>1, <1>2, <1>3, <1>4 DEF Next

-----------------------------------------------------------------------------
(* The theorems. *)

LEMMA InitHolds == Init => ThreadsInv
<1> SUFFICES ASSUME Init PROVE ThreadsInv
  OBVIOUS
<1>1. \A k \in Conns : st[k] = [e \in Ends |-> "none"] /\ inq[k] = [e \in Ends |-> <<>>]
  BY DEF Init, TcpInit
<1>2. TypeOK
  <2>1. TcpTypeOK
    BY DEF Init, TcpInit, TcpTypeOK
  <2>2. {overlapped, streamed, harm} \subseteq BOOLEAN
    BY DEF Init
  <2> QED BY <2>1, <2>2 DEF Init, TypeOK, Objects
<1>3. Begun
  BY DEF Init, Begun, Active
<1>4. Fresh
  <2>1. Queued = {}
    BY DEF Init, TcpInit, Queued, Items
  <2> QED BY <1>1, <2>1, Names DEF Init, TcpInit, Fresh, Ends, Objects
<1>5. Object = Free /\ ~Connected
  BY DEF Init, Object, Connected, Objects
<1>6. Plain
  <2>1. \A k \in Conns : Unread(k) = <<>>
    BY <1>1 DEF Init, Unread, Taken, Ends
  <2>2. \A k \in Conns : Whole(Unread(k)) /\ ~Half(Unread(k))
    BY <2>1, WholeEmpty
  <2> QED BY <1>5, <2>2 DEF Init, Plain, Active
<1>7. Serial
  <2>1. \A f \in Fds : fds[f] \notin Conns \cup {New}
    BY Names DEF Init, Objects
  <2>2. \A t \in Threads : SockOf(t) /\ ~Active(t)
    BY <1>5 DEF Init, SockOf, Active
  <2>3. OwnReplies
    BY DEF Init, OwnReplies
  <2> QED BY <2>1, <2>2, <2>3 DEF Init, Serial
<1> QED BY <1>2, <1>3, <1>4, <1>6, <1>7 DEF ThreadsInv

\* What is on the connection that the library has is what the threads are in
\* the middle of: the invariant that the following theorems need.
THEOREM ThreadsKept == Spec => []ThreadsInv
<1>1. ThreadsInv /\ [Next]_vars => ThreadsInv'
  BY TypesKept, BegunKept, FreshKept, PlainKept, SerialKept DEF ThreadsInv
<1> QED BY InitHolds, <1>1, PTL DEF Spec

\* Every variable has its type.
THEOREM ThreadsTypes == Spec => []TypeOK
<1>1. ThreadsInv => TypeOK
  BY DEF ThreadsInv
<1> QED BY ThreadsKept, <1>1, PTL

\* Unless two calls were ever under way at once, or there was no memory for a
\* reply, no call has anything of another call's reply (static SOCKET sock,
\* client/J2534_Client.cpp).
THEOREM SerialCallsGetTheirs == Spec => []SerialRepliesOwn
<1>1. ThreadsInv => SerialRepliesOwn
  BY DEF ThreadsInv, Serial, OwnReplies, SerialRepliesOwn
<1> QED BY ThreadsKept, <1>1, PTL

\* Unless two calls were ever under way at once disconnectServer closes no
\* descriptor but the library's own, and no call leaves a socket behind.
THEOREM SerialCallsKeepSockets == Spec => []SerialSocketsKept
<1>1. ASSUME ThreadsInv PROVE SerialSocketsKept
  <2> SUFFICES ASSUME ~overlapped PROVE SerialSocketsKept
    BY DEF SerialSocketsKept
  <2>1. ~harm /\ \A f \in Fds : fds[f] \in Conns \cup {New} => f = sock
    BY <1>1 DEF ThreadsInv, Serial
  <2>2. ASSUME \A t \in Threads : pc[t] = "idle", sock # Invalid
        PROVE  Connected
    <3>1. PICK t \in Threads : TRUE
      BY ThreadsAssumption
    <3>2. SockOf(t)
      BY <1>1, <2>2 DEF ThreadsInv, Serial, Alone
    <3> QED BY <2>2, <3>2 DEF SockOf
  <2> QED BY <2>1, <2>2 DEF SerialSocketsKept
<1> QED BY ThreadsKept, <1>1, PTL

\* Calls that overlap mix their commands only if one of them is STREAMED: each
\* of the others sends its command with one sendData.
THEOREM PlainCallsStayWhole == Spec => []PlainCommandsWhole
<1>1. ThreadsInv => PlainCommandsWhole
  BY DEF ThreadsInv, Plain, PlainCommandsWhole
<1> QED BY ThreadsKept, <1>1, PTL

=============================================================================
