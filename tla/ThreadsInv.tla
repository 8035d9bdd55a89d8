----------------------------- MODULE ThreadsInv -----------------------------
(***************************************************************************)
(* The inductive invariant of Threads: what is on the connection that the  *)
(* library has, by where the threads are in their calls.                   *)
(***************************************************************************)
EXTENDS Threads

HeadOf(i) == [call |-> i, part |-> "head"]
TailOf(i) == [call |-> i, part |-> "tail"]

Active(t) == pc[t] \notin {"idle", "killed"}
Alone(t)  == \A u \in Threads \ {t} : pc[u] = "idle"

\* A thread in a call has one that has begun, and only a STREAMED call has
\* more to send; a signal kills all threads.
Begun ==
    /\ \A t \in Threads : Active(t) => cur[t] \in Calls /\ kind[cur[t]] # "none"
    /\ \A t \in Threads :
         pc[t] = "more" \/ (pc[t] \in {"close", "forget"} /\ back[t] = "more") =>
             kind[cur[t]] = "STREAMED"
    /\ \A t, u \in Threads : pc[t] = "killed" => pc[u] = "killed"

\* A connection has two ends from the time on that there is one, and nothing
\* is known of it before; none is lost.
Fresh ==
    /\ cut = {}
    /\ \A k \in Conns :
         /\ st[k]["client"] = "none" <=> st[k]["server"] = "none"
         /\ st[k]["client"] = "none" =>
              /\ \A e \in Ends : inq[k][e] = <<>>
              /\ conn # k /\ k \notin Queued /\ k \notin astray
              /\ \A f \in Fds : fds[f] # k
    /\ conn = NoConn => taken = NoItem

-----------------------------------------------------------------------------
(* Commands, as long as no STREAMED call had company. *)

\* What the server's handler has read of a command of connection k.
Taken(k) == IF conn = k THEN taken ELSE NoItem

\* What it has of a command that it has not read to the end, and what is
\* still to be read.
Unread(k) ==
    IF Taken(k) # NoItem /\ Taken(k).part = "head"
      THEN <<Taken(k)>> \o inq[k]["server"] ELSE inq[k]["server"]

\* A head is followed by its tail, and by nothing else.
Whole(q) ==
    \A n \in 1 .. Len(q) :
        IF n > 1 /\ q[n - 1].part = "head" THEN q[n] = TailOf(q[n - 1].call)
                                           ELSE q[n].part = "head"

Half(q) == q # <<>> /\ q[Len(q)].part = "head"

\* Thread t has yet to send the tail of what connection k ends with, or it is
\* about to close the connection.
Completes(t, k) ==
    /\ Active(t) /\ kind[cur[t]] = "STREAMED" /\ Object = k
    /\ pc[t] = "more" \/ (pc[t] = "close" /\ back[t] = "len")
    /\ Unread(k)[Len(Unread(k))] = HeadOf(cur[t])

Plain ==
    ~streamed =>
        /\ mixed = {}
        /\ \A t \in Threads : Active(t) /\ kind[cur[t]] = "STREAMED" => Alone(t)
        /\ \A k \in Conns :
             /\ Whole(Unread(k))
             /\ Half(Unread(k)) => \/ "closed" \in {st[k]["client"], st[k]["server"]}
                                   \/ \E t \in Threads : Completes(t, k)
        /\ \A t \in Threads :
             pc[t] = "more" /\ Connected /\ st[Object]["server"] = "open" =>
                 Half(Unread(Object))

-----------------------------------------------------------------------------
(* Replies and descriptors, as long as no call had company. *)

\* Where a command of call i can be on the server's side of a connection, and
\* its first piece.
Nowhere  == {<<<<>>, NoItem>>}
First(i) == Nowhere \cup {<<<<HeadOf(i)>>, NoItem>>, <<<<>>, HeadOf(i)>>}
Asked(i) == First(i) \cup {<<<<HeadOf(i), TailOf(i)>>, NoItem>>, <<<<TailOf(i)>>, HeadOf(i)>>,
                           <<<<TailOf(i)>>, NoItem>>, <<<<>>, TailOf(i)>>}

Side(k) == <<inq[k]["server"], Taken(k)>>

\* What there can be on the connection k that thread t uses for its call.
Flow(t, k) ==
    CASE pc[t] = "more" -> Side(k) \in First(cur[t]) /\ inq[k]["client"] = <<>>
      [] pc[t] = "len"  -> \/ Side(k) \in Asked(cur[t]) /\ inq[k]["client"] = <<>>
                           \/ Side(k) \in Nowhere /\ inq[k]["client"] = Packet(cur[t])
      [] pc[t] = "body" -> Side(k) \in Nowhere /\ inq[k]["client"] = <<TailOf(cur[t])>>
      [] OTHER          -> Side(k) \in Nowhere /\ inq[k]["client"] = <<>>

\* What sock is where thread t is.
SockOf(t) ==
    CASE pc[t] = "socket"  -> sock = Invalid
      [] pc[t] = "connect" -> Object = New
      [] pc[t] = "close"   -> sock = Invalid \/ Object \in Conns \cup {New}
      [] pc[t] = "forget"  -> Object \in {Free, File}
      [] OTHER             -> /\ sock # Invalid => Connected
                              /\ Connected /\ Object \notin astray => Flow(t, Object)

\* No call has anything of another's reply, as long as none was left unread.
OwnReplies == astray = {} => \A i \in Calls : got[i] \subseteq {i}

Serial ==
    ~overlapped =>
        /\ ~harm
        /\ \A t \in Threads : Active(t) => Alone(t)
        /\ OwnReplies
        /\ \A f \in Fds : fds[f] \in Conns \cup {New} => f = sock
        /\ \A t \in Threads : Alone(t) => SockOf(t)

ThreadsInv == TypeOK /\ Begun /\ Fresh /\ Plain /\ Serial

=============================================================================
