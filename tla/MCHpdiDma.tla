----------------------------- MODULE MCHpdiDma -----------------------------
(* Model values for HpdiDma: a ring of 3 buffers of 2 samples, enough      *)
(* completions for the board to wrap the ring, one or two commands.        *)
EXTENDS HpdiDma

MCStopArgs == {3}   \* one full buffer plus a tail of one sample

=============================================================================
