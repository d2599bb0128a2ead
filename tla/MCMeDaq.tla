------------------------------ MODULE MCMeDaq ------------------------------
(* Instances of MeDaq: two DAC channels (the first and the last), one     *)
(* channel of each DIO port, and AI requests.                              *)
EXTENDS MeDaq

MCAoChans == {0, 3}
\* 4097 has a bit above the 12 DAC bits: the driver masks it to 1.
MCAoVals == {4097}
MCAoNs == {1}
\* Two AI requests: a bipolar single-ended and a unipolar differential.
MCAiArgs == {[chan |-> 0, rang |-> 0, aref |-> 0], [chan |-> 15, rang |-> 5, aref |-> 2]}
MCDioChans == {3, 20}
====
