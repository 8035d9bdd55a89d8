----------------------------- MODULE TcpProofs -----------------------------
(***************************************************************************)
(* Lemmas about the operators of Tcp, for the modules that use them.       *)
(***************************************************************************)
EXTENDS Tcp, TLAPS

-----------------------------------------------------------------------------
(* They keep the type of the connections. *)

LEMMA PeerEnd == \A e \in Ends : Peer(e) \in Ends /\ Peer(e) # e /\ Peer(Peer(e)) = e
BY DEF Peer, Ends

LEMMA EstablishType ==
    ASSUME TcpTypeOK, NEW k \in Conns, Establish(k)
    PROVE  TcpTypeOK'
BY DEF TcpTypeOK, Establish, Ends

LEMMA SendType ==
    ASSUME TcpTypeOK, NEW k \in Conns, NEW e \in Ends, NEW items \in Seq(Item),
           Send(k, e, items)
    PROVE  TcpTypeOK'
<1>1. inq' \in [Conns -> [Ends -> Seq(Item)]]
  <2>1. CASE UNCHANGED inq
    BY <2>1 DEF TcpTypeOK
  <2>2. CASE inq' = [inq EXCEPT ![k][Peer(e)] = @ \o items]
    <3>1. inq[k][Peer(e)] \o items \in Seq(Item)
      BY PeerEnd DEF TcpTypeOK
    <3> QED BY <2>2, <3>1, PeerEnd DEF TcpTypeOK
  <2> QED BY <2>1, <2>2 DEF Send
<1>2. err' \in [Conns -> [Ends -> {"none", "reset", "pipe"}]]
  <2>1. CASE UNCHANGED err
    BY <2>1 DEF TcpTypeOK
  <2>2. CASE err' = [err EXCEPT ![k][e] = IF @ = "none" THEN "pipe" ELSE @]
    <3>1. err[k] \in [Ends -> {"none", "reset", "pipe"}]
      BY DEF TcpTypeOK
    <3>2. [err[k] EXCEPT ![e] = IF @ = "none" THEN "pipe" ELSE @]
              \in [Ends -> {"none", "reset", "pipe"}]
      BY <3>1
    <3> QED BY <2>2, <3>2 DEF TcpTypeOK
  <2> QED BY <2>1, <2>2 DEF Send
<1> QED BY <1>1, <1>2 DEF TcpTypeOK, Send

LEMMA ReceiveType ==
    ASSUME TcpTypeOK, NEW k \in Conns, NEW e \in Ends, NEW part,
           Receive(k, e, part)
    PROVE  TcpTypeOK'
<1>1. Tail(inq[k][e]) \in Seq(Item)
  BY DEF TcpTypeOK, Receive
<1> QED BY <1>1 DEF TcpTypeOK, Receive

LEMMA ReceiveSomeType ==
    ASSUME TcpTypeOK, NEW k \in Conns, NEW e \in Ends, NEW n \in Nat,
           ReceiveSome(k, e, n)
    PROVE  TcpTypeOK'
<1>1. SubSeq(inq[k][e], n + 1, Len(inq[k][e])) \in Seq(Item)
  <2>1. inq[k][e] \in Seq(Item)
    BY DEF TcpTypeOK
  <2> QED BY <2>1
<1> QED BY <1>1 DEF TcpTypeOK, ReceiveSome

LEMMA CloseAllType ==
    ASSUME TcpTypeOK, NEW K, NEW e \in Ends, NEW R, CloseAll(K, e, R)
    PROVE  /\ st' \in [Conns -> [Ends -> {"none", "open", "closed"}]]
           /\ inq' \in [Conns -> [Ends -> Seq(Item)]]
           /\ err' \in [Conns -> [Ends -> {"none", "reset", "pipe"}]]
<1>1. st' \in [Conns -> [Ends -> {"none", "open", "closed"}]]
  BY DEF TcpTypeOK, CloseAll
<1>2. inq' \in [Conns -> [Ends -> Seq(Item)]]
  BY DEF TcpTypeOK, CloseAll
<1>3. err' \in [Conns -> [Ends -> {"none", "reset", "pipe"}]]
  BY DEF TcpTypeOK, CloseAll
<1> QED BY <1>1, <1>2, <1>3

LEMMA CloseType ==
    ASSUME TcpTypeOK, NEW k \in Conns, NEW e \in Ends, Close(k, e)
    PROVE  TcpTypeOK'
<1>1. CloseAll({k}, e, IF inq[k][e] # <<>> THEN {k} ELSE {})
  BY DEF Close
<1>2. /\ st' \in [Conns -> [Ends -> {"none", "open", "closed"}]]
      /\ inq' \in [Conns -> [Ends -> Seq(Item)]]
      /\ err' \in [Conns -> [Ends -> {"none", "reset", "pipe"}]]
  BY <1>1, CloseAllType
<1> QED BY <1>2 DEF Close, TcpTypeOK

LEMMA TakeQueuedType ==
    ASSUME TcpTypeOK, NEW k \in Conns, TakeQueued(k)
    PROVE  TcpTypeOK'
BY DEF TcpTypeOK, TakeQueued

LEMMA CloseListenerType ==
    ASSUME TcpTypeOK, NEW K, CloseListener(K)
    PROVE  TcpTypeOK'
<1>1. CloseAll(Queued \cup K, "server", Queued \cup K)
  BY DEF CloseListener
<1>2. /\ st' \in [Conns -> [Ends -> {"none", "open", "closed"}]]
      /\ inq' \in [Conns -> [Ends -> Seq(Item)]]
      /\ err' \in [Conns -> [Ends -> {"none", "reset", "pipe"}]]
  BY <1>1, CloseAllType DEF Ends
<1>3. backlog' \in Seq(Conns) /\ cut' \subseteq Conns
  BY DEF CloseListener, TcpTypeOK
<1>4. listening' \in BOOLEAN
  BY DEF CloseListener
<1> QED BY <1>2, <1>3, <1>4 DEF TcpTypeOK

LEMMA PrefixesType ==
    ASSUME NEW q \in Seq(Item), NEW e, NEW p \in Prefixes(q, e)
    PROVE  p \in Seq(Item)
BY DEF Prefixes

LEMMA LoseType ==
    ASSUME TcpTypeOK, NEW k \in Conns, Lose(k)
    PROVE  TcpTypeOK'
<1>1. PICK c \in Prefixes(inq[k]["client"], "client"),
           s \in Prefixes(inq[k]["server"], "server") :
        inq' = [inq EXCEPT ![k] = [e \in Ends |-> IF e = "client" THEN c ELSE s]]
  BY DEF Lose
<1>2. c \in Seq(Item) /\ s \in Seq(Item)
  BY PrefixesType DEF TcpTypeOK, Ends
<1> QED BY <1>1, <1>2 DEF Lose, TcpTypeOK

LEMMA ListenType ==
    ASSUME TcpTypeOK, Listen
    PROVE  TcpTypeOK'
<1>1. listening' \in BOOLEAN
  BY DEF Listen
<1> QED BY <1>1 DEF TcpTypeOK, Listen

-----------------------------------------------------------------------------
(* What they do to the connections and to what is on its way. *)

LEMMA SendDoes ==
    ASSUME TcpTypeOK, NEW k \in Conns, NEW e \in Ends, NEW items, Send(k, e, items)
    PROVE  /\ UNCHANGED <<st, cut, backlog, listening>>
           /\ \A j \in Conns : j # k => inq'[j] = inq[j]
           /\ inq'[k][e] = inq[k][e]
           /\ inq'[k][Peer(e)] = IF k \notin cut /\ st[k][Peer(e)] = "open"
                                   THEN inq[k][Peer(e)] \o items ELSE inq[k][Peer(e)]
<1>0. UNCHANGED <<st, cut, backlog, listening>>
  BY DEF Send
<1>1. CASE k \notin cut /\ st[k][Peer(e)] = "open"
  <2>1. inq' = [inq EXCEPT ![k][Peer(e)] = @ \o items]
    BY <1>1 DEF Send
  <2> QED BY <1>0, <1>1, <2>1, PeerEnd DEF TcpTypeOK
<1>2. CASE ~(k \notin cut /\ st[k][Peer(e)] = "open")
  <2>1. inq' = inq
    BY <1>2 DEF Send
  <2> QED BY <1>0, <1>2, <2>1
<1> QED BY <1>1, <1>2

LEMMA ReceiveDoes ==
    ASSUME TcpTypeOK, NEW k \in Conns, NEW e \in Ends, NEW part, Receive(k, e, part)
    PROVE  /\ UNCHANGED <<st, err, cut, backlog, listening>>
           /\ \A j \in Conns : j # k => inq'[j] = inq[j]
           /\ inq[k][e] \in Seq(Item) /\ inq[k][e] # <<>> /\ Head(inq[k][e]).part = part
           /\ inq'[k][e] = Tail(inq[k][e])
           /\ inq'[k][Peer(e)] = inq[k][Peer(e)]
BY PeerEnd DEF TcpTypeOK, Receive

LEMMA RestOf ==
    ASSUME NEW q \in Seq(Item), NEW n \in Nat, n <= Len(q)
    PROVE  LET r == SubSeq(q, n + 1, Len(q))
           IN  Len(r) = Len(q) - n /\ \A m \in 1 .. Len(r) : r[m] = q[m + n]
<1> DEFINE r == SubSeq(q, n + 1, Len(q))
<1>1. Len(q) \in Nat
  OBVIOUS
<1>2. Len(r) = Len(q) - n
  BY <1>1
<1>3. ASSUME NEW m \in 1 .. Len(r) PROVE r[m] = q[m + n]
  <2>1. r[m] = q[n + 1 + m - 1]
    BY <1>1, <1>2
  <2>2. n + 1 + m - 1 = m + n
    BY <1>1, <1>2
  <2> QED BY <2>1, <2>2
<1> QED BY <1>2, <1>3

LEMMA ReceiveSomeDoes ==
    ASSUME TcpTypeOK, NEW k \in Conns, NEW e \in Ends, NEW n \in Nat,
           ReceiveSome(k, e, n)
    PROVE  /\ UNCHANGED <<st, err, cut, backlog, listening>>
           /\ \A j \in Conns : j # k => inq'[j] = inq[j]
           /\ inq[k][e] = <<>> => inq'[k][e] = <<>>
           /\ Items(inq'[k][e]) \subseteq Items(inq[k][e])
           /\ inq'[k][Peer(e)] = inq[k][Peer(e)]
<1> DEFINE q == inq[k][e]  r == SubSeq(q, n + 1, Len(q))
<1>1. q \in Seq(Item) /\ Len(q) \in Nat /\ n <= Len(q)
  BY DEF TcpTypeOK, ReceiveSome
<1>2. Len(r) = Len(q) - n /\ \A m \in 1 .. Len(r) : r[m] = q[m + n]
  BY <1>1, RestOf
<1>3. Items(r) \subseteq Items(q)
  BY <1>1, <1>2 DEF Items
<1>4. q = <<>> => r = <<>>
  BY <1>1, <1>2
<1> QED BY <1>3, <1>4, PeerEnd DEF TcpTypeOK, ReceiveSome

LEMMA CloseAllDoes ==
    ASSUME TcpTypeOK, NEW K, NEW e \in Ends, NEW R, CloseAll(K, e, R), NEW k \in Conns
    PROVE  /\ k \notin K => st'[k] = st[k] /\ inq'[k] = inq[k]
           /\ k \in K => /\ st'[k][e] = "closed" /\ st'[k][Peer(e)] = st[k][Peer(e)]
                         /\ inq'[k][e] = <<>> /\ inq'[k][Peer(e)] = inq[k][Peer(e)]
BY PeerEnd DEF TcpTypeOK, CloseAll

LEMMA CloseDoes ==
    ASSUME TcpTypeOK, NEW k \in Conns, NEW e \in Ends, Close(k, e)
    PROVE  /\ UNCHANGED <<cut, backlog, listening>>
           /\ \A j \in Conns : j # k => st'[j] = st[j] /\ inq'[j] = inq[j]
           /\ st'[k][e] = "closed" /\ st'[k][Peer(e)] = st[k][Peer(e)]
           /\ inq'[k][e] = <<>> /\ inq'[k][Peer(e)] = inq[k][Peer(e)]
<1>1. /\ UNCHANGED <<cut, backlog, listening>>
      /\ \E R : CloseAll({k}, e, R)
  BY DEF Close
<1>2. ASSUME NEW j \in Conns, j # k PROVE st'[j] = st[j] /\ inq'[j] = inq[j]
  <2>1. j \notin {k}
    BY <1>2
  <2> QED BY <1>1, <2>1, CloseAllDoes
<1>3. /\ st'[k][e] = "closed" /\ st'[k][Peer(e)] = st[k][Peer(e)]
      /\ inq'[k][e] = <<>> /\ inq'[k][Peer(e)] = inq[k][Peer(e)]
  BY <1>1, CloseAllDoes
<1> QED BY <1>1, <1>2, <1>3

=============================================================================
