----------------------------- MODULE MCAio12_8 -----------------------------
(* Instances of Aio12_8: base 0 (the PC's DMA controller owns it, so      *)
(* request_region fails) and 0x300; two AO channels next to each other;  *)
(* conversions that finish at the last status read or one microsecond    *)
(* later.                                                                  *)
EXTENDS Aio12_8

MCBases == {0, 768}
MCSystemPorts == {0}
MCAiChans == {0, 7}
MCAiNs == {1, 2}
MCConvTimes == {4, 5}
MCAoChans == {0, 1}
\* 258 = 0x102 fills both bytes; 4097 has a bit above the 12 DAC bits.
MCAoVals == {258, 4097}
MCAoNs == {1, 2}
====
