-------------------------------- MODULE Rpc --------------------------------
(***************************************************************************)
(* What the proxy promises its applications, without sockets: a remote     *)
(* procedure call that is executed at most once, the calls of one          *)
(* application in the order in which it made them.  A call that returns    *)
(* what the library answered has been executed; a call that fails, or      *)
(* whose caller dies, may have been executed, may not, and may still be    *)
(* executed later.                                                         *)
(***************************************************************************)
EXTENDS Naturals, Sequences

CONSTANTS MaxCalls, Clients, Answer, NoAnswer, NoCaller

VARIABLES caller,    \* caller[i]: who made call i, NoCaller before it is made
          executed,  \* the calls executed, in the order of their execution
          answer,    \* answer[i]: what the execution of i answered
          status     \* status[i]: what the caller of i has been told

vars == <<caller, executed, answer, status>>

Calls == 1 .. MaxCalls
Done  == {executed[n] : n \in 1 .. Len(executed)}

Init ==
    /\ caller = [i \in Calls |-> NoCaller]
    /\ executed = <<>>
    /\ answer = [i \in Calls |-> NoAnswer]
    /\ status = [i \in Calls |-> "none"]

\* Application c makes its next call; a call may fail on the spot.
Call(c, i, s) ==
    /\ caller[i] = NoCaller
    /\ caller' = [caller EXCEPT ![i] = c]
    /\ status' = [status EXCEPT ![i] = s]
    /\ UNCHANGED <<executed, answer>>

\* Call i is executed, if neither it nor a later call of its caller has been.
Execute(i, a) ==
    /\ caller[i] # NoCaller
    /\ \A j \in Done : caller[j] = caller[i] => j < i
    /\ executed' = Append(executed, i)
    /\ answer' = [answer EXCEPT ![i] = a]
    /\ UNCHANGED <<caller, status>>

\* The caller of i is told what the execution answered, or an error that the
\* proxy makes up, or is no longer there to be told.
Tell(i, s) ==
    /\ caller[i] # NoCaller /\ status[i] = "none"
    /\ s = "STATUS_NOERROR" => i \in Done /\ answer[i].status = s
    /\ status' = [status EXCEPT ![i] = s]
    /\ UNCHANGED <<caller, executed, answer>>

Next ==
    \E i \in Calls :
        \/ \E c \in Clients, s \in {"none", "ERR_FAILED"} : Call(c, i, s)
        \/ \E a \in Answer : Execute(i, a)
        \/ \E s \in {"STATUS_NOERROR", "ERR_FAILED", "lost"} : Tell(i, s)

Spec == Init /\ [][Next]_vars

=============================================================================
