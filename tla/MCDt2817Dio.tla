---------------------------- MODULE MCDt2817Dio ----------------------------
EXTENDS Dt2817Dio

\* One channel inside each bank, the last channel included.
MCChanArgs == {3, 12, 20, 31}
====
