------------------------------ MODULE MCProxy ------------------------------
(* Instances of Proxy for TLC. *)
EXTENDS ProxyInv, TLC

Symmetry == Permutations(Clients) \cup Permutations(Devices)

=============================================================================
