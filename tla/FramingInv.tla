----------------------------- MODULE FramingInv -----------------------------
(***************************************************************************)
(* The inductive invariant of Framing: the bytes that are between the two  *)
(* ends, in whatever hands, are the packets that have been sent and not    *)
(* been received, one after the other.                                     *)
(***************************************************************************)
EXTENDS Framing

\* What is sent to end e, what it has made of it, and what spoils that.
Sent(e)     == IF e = "server" THEN asked ELSE answers
Received(e) == IF e = "server" THEN executed ELSE returned
Spoilt(e)   ==
    IF e = "server"
      THEN faults \cap {"split", "cmdNull"} # {} \/ {"short", "replyNull"} \subseteq faults
      ELSE "replyNull" \in faults

\* The packets with the bodies of q.
Stream(q) ==
    LET f[n \in 0 .. Len(q)] == IF n = 0 THEN <<>> ELSE f[n - 1] \o Frame(q[n])
    IN f[Len(q)]

Pending(e) == Rest(Sent(e), Len(Received(e)))

\* What end e has of a packet that it is receiving.
Part(e) ==
    CASE phase[e] = "len"  -> First(len[e], got[e])
      [] phase[e] = "body" -> len[e] \o body[e]
      [] OTHER             -> <<>>

\* What is on its way to e, from what it has to what has not been sent yet.
OnItsWay(e) == Part(e) \o net[e] \o out[Peer(e)]

\* An end sends until it has nothing left, and its buffers are those of the
\* packet that it is receiving.  The server has a part of a length only when
\* it was split.
Phases ==
    /\ phase["server"] # "idle"
    /\ broken # {} => phase["client"] = "closed"
    /\ \A e \in Ends :
         /\ phase[e] = "send" <=> out[e] # <<>>
         /\ phase[e] = "len"  => got[e] < LenBytes /\ body[e] = <<>>
         /\ phase[e] = "body" => got[e] = LenBytes
    /\ phase["server"] = "len" /\ got["server"] > 0 => "split" \in faults

\* Every execution is answered, and a call returns before the next is made.
Counts ==
    /\ Len(answers) <= Len(executed)
    /\ "noReply" \notin faults => Len(answers) = Len(executed)
    /\ phase["client"] # "closed" =>
         Len(asked) = Len(returned) + IF phase["client"] = "idle" THEN 0 ELSE 1

\* The last packet sent to e will never be there as a whole.
Short(e) == e = "server" /\ "short" \in faults

\* What an end has received is what it was sent, and what it is still to
\* receive is on its way, unless the other end has closed or it is short.  A
\* short packet is the last: the other end waits for what it is answered, and
\* the end it was sent to for what is missing.
Wire(e) ==
    ~ Spoilt(e) =>
        /\ Begins(Received(e), Sent(e))
        /\ phase[e] # "closed" =>
             /\ Begins(OnItsWay(e), Stream(Pending(e)))
             /\ phase[Peer(e)] # "closed" /\ ~ Short(e) =>
                  OnItsWay(e) = Stream(Pending(e))
        /\ Short(e) =>
             /\ phase[Peer(e)] # "idle" /\ Len(Sent(e)) = Len(Received(e)) + 1
             /\ phase[e] # "closed" => Len(OnItsWay(e)) < Len(Stream(Pending(e)))

\* What a failed receive has returned is from the answer it received.
TornIntact == ~ Spoilt("client") => \A p \in broken : TornFrom(p)

WireInv == TypeOK /\ Phases /\ Counts /\ TornIntact /\ \A e \in Ends : Wire(e)

=============================================================================
