----------------------------- MODULE MCThreads -----------------------------
(* Instances of Threads for TLC. *)
EXTENDS ThreadsInv, TLC

Symmetry == Permutations(Threads)

Current(i) == \E t \in Threads : cur[t] = i

\* Two states that differ only in what kind of call the calls were that have
\* returned are one to TLC: no action and no invariant looks at it again.
View ==
    <<tcpVars, sock, fds, pc, back, cur, got, serverVars, ghosts, astray,
      [i \in Calls |-> IF Current(i) THEN kind[i] ELSE kind[i] # "none"]>>

=============================================================================
