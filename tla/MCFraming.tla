----------------------------- MODULE MCFraming -----------------------------
(* Instances of Framing for TLC: bytes are digits of base 4, a length has
   two.  The long command's length, 12, needs the second digit. *)
EXTENDS FramingInv

ShortAndLong == {<<1>>, <<2, 1, 0, 3, 0, 0, 0, 1, 2, 3>>}
OneAndThree  == {<<1>>, <<2, 1, 0>>}
TwoReplies   == {<<2, 1>>, <<3, 0>>}

=============================================================================
