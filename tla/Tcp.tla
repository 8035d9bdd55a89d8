-------------------------------- MODULE Tcp --------------------------------
(***************************************************************************)
(* The TCP connections between the client libraries and the server, as the *)
(* operating system gives them to the program: external code, modelled     *)
(* from how the program uses sockets.  A connection has two ends.  What an *)
(* end sends is queued for the other end as a sequence of items; an item   *)
(* is one of the two parts of a packet, the "head" (the length prefix and, *)
(* for the calls that send their messages separately, what goes with it)   *)
(* and the "tail" (the rest), and the call the packet belongs to.          *)
(***************************************************************************)
EXTENDS Naturals, Sequences

CONSTANTS MaxConns,      \* bound on the connections made in one behaviour
          MaxCalls,      \* bound on the PassThru calls made in one behaviour
          Backlog,       \* connections the kernel queues for listen(server, 0)
          ReplySplit,    \* whether a reply may be sent or arrive in two pieces
          LossyNetwork   \* whether a connection may be lost without a word

ASSUME TcpAssumption ==
    /\ MaxConns \in Nat /\ MaxCalls \in Nat
    /\ Backlog \in Nat \ {0}
    /\ ReplySplit \in BOOLEAN /\ LossyNetwork \in BOOLEAN

Conns == 1 .. MaxConns
Calls == 1 .. MaxCalls
Ends  == {"client", "server"}
Item  == [call : Calls, part : {"head", "tail"}]

VARIABLES st,         \* st[k][e]: state of end e of connection k
          inq,        \* inq[k][e]: what has been sent to end e and not read
          err,        \* err[k][e]: what a reset that reached end e left there
          cut,        \* connections the network no longer carries
          backlog,    \* connections established and not yet accepted
          listening   \* whether the listening socket is open

tcpVars == <<st, inq, err, cut, backlog, listening>>

Peer(e) == IF e = "client" THEN "server" ELSE "client"

Items(q) == {q[n] : n \in 1 .. Len(q)}

Queued == Items(backlog)

TcpInit ==
    /\ st = [k \in Conns |-> [e \in Ends |-> "none"]]
    /\ inq = [k \in Conns |-> [e \in Ends |-> <<>>]]
    /\ err = [k \in Conns |-> [e \in Ends |-> "none"]]
    /\ cut = {}
    /\ backlog = <<>>
    /\ listening = TRUE

TcpTypeOK ==
    /\ st \in [Conns -> [Ends -> {"none", "open", "closed"}]]
    /\ inq \in [Conns -> [Ends -> Seq(Item)]]
    /\ err \in [Conns -> [Ends -> {"none", "reset", "pipe"}]]
    /\ cut \subseteq Conns
    /\ backlog \in Seq(Conns)
    /\ listening \in BOOLEAN

\* The handshake: the kernel completes it on its own and queues the
\* connection until the server accepts it.  Connections are used in order.
Establish(k) ==
    /\ listening /\ Len(backlog) < Backlog
    /\ st[k]["client"] = "none"
    /\ \A j \in 1 .. (k - 1) : st[j]["client"] # "none"
    /\ st' = [st EXCEPT ![k] = [e \in Ends |-> "open"]]
    /\ backlog' = Append(backlog, k)
    /\ UNCHANGED <<inq, err, cut, listening>>

\* send() by end e.  It succeeds as long as no error has reached the end; to
\* a peer that has closed it also succeeds, once: the data is lost and the
\* reset it provokes makes a later send a broken pipe.
Send(k, e, items) ==
    /\ st[k][e] = "open"
    /\ IF k \in cut
         THEN UNCHANGED <<inq, err>>
       ELSE IF st[k][Peer(e)] = "open"
         THEN /\ inq' = [inq EXCEPT ![k][Peer(e)] = @ \o items]
              /\ UNCHANGED err
       ELSE /\ err' = [err EXCEPT ![k][e] = IF @ = "none" THEN "pipe" ELSE @]
            /\ UNCHANGED inq
    /\ UNCHANGED <<st, cut, backlog, listening>>

\* send() by end e returns -1; on a broken pipe only Windows gets that far.
Refuses(k, e, windows) ==
    err[k][e] \in IF windows THEN {"reset", "pipe"} ELSE {"reset"}

\* recv() by end e of the item at the front of its queue.
Receive(k, e, part) ==
    /\ st[k][e] = "open" /\ inq[k][e] # <<>>
    /\ Head(inq[k][e]).part = part
    /\ inq' = [inq EXCEPT ![k][e] = Tail(@)]
    /\ UNCHANGED <<st, err, cut, backlog, listening>>

\* recv() by end e, that does not know where in its queue it is, of bytes that
\* end with the n-th item or in the one after it.
ReceiveSome(k, e, n) ==
    /\ st[k][e] = "open" /\ n <= Len(inq[k][e])
    /\ inq' = [inq EXCEPT ![k][e] = SubSeq(@, n + 1, Len(@))]
    /\ UNCHANGED <<st, err, cut, backlog, listening>>

\* End e has nothing left to read and never will have.
AtEnd(k, e) ==
    /\ inq[k][e] = <<>>
    /\ err[k][e] # "none" \/ (st[k][Peer(e)] = "closed" /\ k \notin cut)

\* The ends e of the connections K are closed; those of R are reset.
CloseAll(K, e, R) ==
    /\ st' = [k \in Conns |-> IF k \in K THEN [st[k] EXCEPT ![e] = "closed"]
                                         ELSE st[k]]
    /\ inq' = [k \in Conns |-> IF k \in K THEN [inq[k] EXCEPT ![e] = <<>>]
                                          ELSE inq[k]]
    /\ err' = [k \in Conns |->
                 [x \in Ends |->
                    IF k \in K /\ x = e THEN "none"
                    ELSE IF /\ k \in R \ cut /\ x = Peer(e)
                            /\ st[k][x] = "open" /\ err[k][x] = "none"
                      THEN "reset"
                    ELSE err[k][x]]]

\* close() of one end: with unread data it resets the connection, without
\* any it ends it in order.
Close(k, e) ==
    /\ CloseAll({k}, e, IF inq[k][e] # <<>> THEN {k} ELSE {})
    /\ UNCHANGED <<cut, backlog, listening>>

\* accept(): the oldest connection leaves the queue.
TakeQueued(k) ==
    /\ backlog # <<>> /\ k = Head(backlog)
    /\ backlog' = Tail(backlog)
    /\ UNCHANGED <<st, inq, err, cut, listening>>

\* The listening socket is closed, alone or with the connection of K: the
\* connections still queued are reset.
CloseListener(K) ==
    /\ CloseAll(Queued \cup K, "server", Queued \cup K)
    /\ backlog' = <<>>
    /\ listening' = FALSE
    /\ UNCHANGED cut

\* A server starts listening again.
Listen ==
    /\ listening' = TRUE
    /\ UNCHANGED <<st, inq, err, cut, backlog>>

\* What a loss leaves of a queue: a prefix, that ends with a whole reply
\* when replies travel in one piece.
Prefixes(q, e) ==
    {SubSeq(q, 1, n) : n \in {m \in 0 .. Len(q) :
        \/ m = Len(q) \/ e = "server" \/ ReplySplit
        \/ q[m + 1].part = "head"}}

\* The network stops carrying connection k: what was on its way is lost, and
\* neither end is told.
Lose(k) ==
    /\ LossyNetwork
    /\ k \notin cut /\ st[k]["client"] # "none"
    /\ \E e \in Ends : st[k][e] = "open"
    /\ cut' = cut \cup {k}
    /\ \E c \in Prefixes(inq[k]["client"], "client"),
         s \in Prefixes(inq[k]["server"], "server") :
           inq' = [inq EXCEPT ![k] = [e \in Ends |-> IF e = "client" THEN c
                                                                   ELSE s]]
    /\ UNCHANGED <<st, err, backlog, listening>>

=============================================================================
