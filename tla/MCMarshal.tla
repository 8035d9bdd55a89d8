----------------------------- MODULE MCMarshal -----------------------------
(* Instances of Marshal for TLC: the ids of periodic messages are cut off
   modulo 4, not 256, and the second of them needs more. *)
EXTENDS MarshalInv

TwoWords == {1, 2}
SomeIds  == {3, 7}

=============================================================================
