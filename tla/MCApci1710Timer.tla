-------------------------- MODULE MCApci1710Timer --------------------------
EXTENDS Apci1710Timer

\* Module 0 is an 82X54 timer module of version 0x3132, which has the
\* 40 MHz quartz detection; module 1 is some other function.
MCTimerModules == {0}
MCModuleVersion == [m \in Mods |-> 12594]

\* A legal init of each timer with each clock, and inits that differ from a
\* legal one in one argument: another module, timer 3, mode 6, mode 256
\* (0 once cast to BYTE), an unknown clock, and each level out of range.
GoodInit(t, sel) ==
    [m |-> 0, t |-> t, mode |-> 0, v |-> 5, sel |-> sel, cl |-> 0, ol |-> 0,
     gl |-> 0]
MCInitArgs ==
    {GoodInit(t, sel) : t \in Tims, sel \in {"PCI", "FRONT", "TEN"}}
    \cup {[GoodInit(1, "PCI") EXCEPT !.m = 1],
          [GoodInit(1, "PCI") EXCEPT !.t = 3],
          [GoodInit(1, "PCI") EXCEPT !.mode = 6],
          [GoodInit(1, "PCI") EXCEPT !.mode = 256],
          [GoodInit(1, "PCI") EXCEPT !.sel = "BAD"],
          [GoodInit(1, "PCI") EXCEPT !.cl = 2],
          [GoodInit(1, "PCI") EXCEPT !.ol = 2],
          [GoodInit(1, "PCI") EXCEPT !.gl = 2]}

\* Enable with and without interrupt, enable with a bad interrupt flag,
\* disable, an unknown action; on every timer, on module 1 and on timer 3.
MCEnableArgs ==
    {[m |-> 0, t |-> t, action |-> ai[1], irq |-> ai[2]] :
        t \in Tims, ai \in {<<1, 1>>, <<1, 0>>, <<1, 2>>, <<0, 0>>, <<2, 0>>}}
    \cup {[m |-> 1, t |-> 0, action |-> 1, irq |-> 1],
          [m |-> 0, t |-> 3, action |-> 1, irq |-> 1]}

MCBitsArgs ==
    {[m |-> 0, t |-> t, type |-> ty, v |-> 7] : t \in Tims, ty \in BitsTypes}
    \cup {[m |-> 1, t |-> 0, type |-> "WRITEVALUE", v |-> 7],
          [m |-> 0, t |-> 3, type |-> "WRITEVALUE", v |-> 7]}
====
