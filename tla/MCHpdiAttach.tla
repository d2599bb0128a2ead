---------------------------- MODULE MCHpdiAttach ----------------------------
(* Model values for HpdiAttach.  Two builds of hpdi_boards[]: the shipped  *)
(* one (the pxi-hpdi32 entry is under #if 0) and the one with that entry   *)
(* enabled.  Buses of up to two devices on bus 0, device k in slot k, each  *)
(* an HPDI32, a PXI-HPDI32 or another PLX 9080 device.  comedi_config      *)
(* passes no bus/slot or slot 2.  A ring of two DMA buffers.               *)
EXTENDS HpdiAttach

MCBuilds == {<<"hpdi32">>, <<"hpdi32", "pxi">>}

MCKinds == {"hpdi32", "pxi", "other"}

MCPciBuses ==
  {<<>>}
  \cup {<<[id |-> a, bus |-> 0, slot |-> 1]>> : a \in MCKinds}
  \cup {<<[id |-> a, bus |-> 0, slot |-> 1], [id |-> b, bus |-> 0, slot |-> 2]>> :
          a, b \in MCKinds}

MCOptions == {<<0, 0>>, <<0, 2>>}

====
