---------------------------- MODULE HpdiCmdTest ----------------------------
(***************************************************************************)
(* The command validator of the HPDI digital-input subdevice:             *)
(* hpdi_cmd_test and di_cmd_test in gsc_hpdi.c.                            *)
(*                                                                         *)
(* di_cmd_test is a pure function of a comedi_cmd that returns the number  *)
(* of the pass that failed (0 when the command is accepted) and corrects   *)
(* fields in place. It is modelled as the operator DiCmdTest, which        *)
(* returns the code and the corrected command. The state machine around it *)
(* is the usual user loop: COMEDI_CMDTEST is called again on the command   *)
(* that the previous call handed back.                                     *)
(*                                                                         *)
(* A trigger-source field is a bit mask of TRIG_* flags. Here it is the    *)
(* set of the flags it contains, so "&=" is set intersection. A chanlist   *)
(* entry is represented by its CR_CHAN field; range and aref are not read  *)
(* by the validator.                                                       *)
(***************************************************************************)
EXTENDS Naturals, Sequences, FiniteSets

CONSTANTS
    ChanWidth,      \* the 32 that step 3 puts into an empty chanlist_len
    Lens,           \* values tried for chanlist_len and scan_end_arg
    StopArgs,       \* values tried for stop_arg
    NULL,           \* cmd->chanlist == NULL (a model value)
    MaxPasses       \* bound on the di_cmd_test runs of the user loop

ASSUME ChanWidth \in Nat \ {0} /\ Lens \subseteq Nat /\ StopArgs \subseteq Nat
ASSUME MaxPasses \in Nat

Trig == {"NONE", "NOW", "COUNT", "EXT"}
EINVAL == 22                          \* hpdi_cmd_test returns -EINVAL

SrcFields == {"start_src", "scan_begin_src", "convert_src",
              "scan_end_src", "stop_src"}

\* The masks of step 1 (lines 633-651).
SrcMask == [start_src      |-> {"NOW"},
            scan_begin_src |-> {"EXT"},
            convert_src    |-> {"NOW"},
            scan_end_src   |-> {"COUNT"},
            stop_src       |-> {"COUNT", "NONE"}]

CR_CHAN(e) == e

\* Step 1: mask every source; a field fails if the mask empties it or
\* removes a flag.
Step1(c) == [f \in DOMAIN c |-> IF f \in SrcFields THEN c[f] \cap SrcMask[f]
                                                   ELSE c[f]]
Step1Fails(c) == \E f \in SrcFields :
                    LET m == c[f] \cap SrcMask[f] IN m = {} \/ m # c[f]

\* Step 2: stop_src must be exactly one of TRIG_COUNT and TRIG_NONE.
Step2Fails(c) == c.stop_src # {"COUNT"} /\ c.stop_src # {"NONE"}

\* Step 3: chanlist_len, then scan_end_arg from it, then stop_arg, each
\* corrected in that order.
FixLen(c) == IF c.chanlist_len = 0 THEN [c EXCEPT !.chanlist_len = ChanWidth]
                                    ELSE c
FixScanEnd(c) == IF c.scan_end_arg # c.chanlist_len
                 THEN [c EXCEPT !.scan_end_arg = c.chanlist_len] ELSE c
FixStopArg(c) ==
    CASE c.stop_src = {"COUNT"} /\ c.stop_arg = 0 -> [c EXCEPT !.stop_arg = 1]
      [] c.stop_src = {"NONE"} /\ c.stop_arg # 0  -> [c EXCEPT !.stop_arg = 0]
      [] OTHER                                     -> c
\* Mutant: scan_end_arg corrected before chanlist_len.
Step3ScanEndFirst(c) == FixStopArg(FixLen(FixScanEnd(c)))
Step3(c) == FixStopArg(FixScanEnd(FixLen(c)))

\* Step 5: entries 1 .. chanlist_len-1 must be channels 1, 2, ...
\* (C index i is sequence position i+1).
\* Mutant: the loop compares entry i with channel i+1.
Step5FailsOffByOne(c) ==
    c.chanlist # NULL /\
    \E i \in 1..(c.chanlist_len - 1) : CR_CHAN(c.chanlist[i+1]) # i + 1
Step5Fails(c) == c.chanlist # NULL /\
                 \E i \in 1..(c.chanlist_len - 1) : CR_CHAN(c.chanlist[i+1]) # i

\* Mutant: step 1 returns its error count instead of its pass number.
DiCmdTestErrCount(c) ==
    LET c1 == Step1(c)
        n  == Cardinality({f \in SrcFields : LET m == c[f] \cap SrcMask[f]
                                             IN m = {} \/ m # c[f]})
        c3 == Step3(c1)
    IN  CASE n > 0          -> [ret |-> n, cmd |-> c1]
          [] Step2Fails(c1) -> [ret |-> 2, cmd |-> c1]
          [] c3 # c1        -> [ret |-> 3, cmd |-> c3]
          [] Step5Fails(c3) -> [ret |-> 5, cmd |-> c3]
          [] OTHER          -> [ret |-> 0, cmd |-> c3]
DiCmdTest(c) ==
    LET c1 == Step1(c)
        c3 == Step3(c1)
    IN  CASE Step1Fails(c)  -> [ret |-> 1, cmd |-> c1]
          [] Step2Fails(c1) -> [ret |-> 2, cmd |-> c1]
          [] c3 # c1        -> [ret |-> 3, cmd |-> c3]
          [] Step5Fails(c3) -> [ret |-> 5, cmd |-> c3]
          [] OTHER          -> [ret |-> 0, cmd |-> c3]

\* hpdi_cmd_test (lines 723-729): refuse any command while the subdevice
\* is configured for output, otherwise run di_cmd_test.
HpdiCmdTestResult(c, output) ==
    IF output THEN [ret |-> EINVAL, cmd |-> c] ELSE DiCmdTest(c)

-----------------------------------------------------------------------------
(* The user loop around COMEDI_CMDTEST.                                    *)

VARIABLES cmd, ret, passes, dioOutput
vars == <<cmd, ret, passes, dioOutput>>

\* Channel lists the caller may pass: none, in order, or with one entry out
\* of place (the first, or the second).
InOrder(n) == [k \in 1..n |-> k - 1]
Chanlists(n) ==
    IF n = 0 THEN {NULL}
    ELSE {NULL, InOrder(n),
          [InOrder(n) EXCEPT ![1] = n - 1],
          [InOrder(n) EXCEPT ![2] = 0, ![1] = 1]}

\* For each source field, the right flag, the right flag with a wrong one,
\* or nothing; stop_src takes any subset of three flags.
SrcChoices(f) ==
    IF f = "stop_src" THEN SUBSET {"COUNT", "NONE", "NOW"}
    ELSE LET wrong == IF SrcMask[f] = {"NOW"} THEN "EXT" ELSE "NOW"
         IN  {{}, SrcMask[f], SrcMask[f] \cup {wrong}}

Cmds ==
    { c \in [start_src : SrcChoices("start_src"),
             scan_begin_src : SrcChoices("scan_begin_src"),
             convert_src : SrcChoices("convert_src"),
             scan_end_src : SrcChoices("scan_end_src"),
             stop_src : SrcChoices("stop_src"),
             chanlist_len : Lens, scan_end_arg : Lens, stop_arg : StopArgs,
             chanlist : {NULL} \cup UNION {Chanlists(n) : n \in Lens}] :
        c.chanlist = NULL \/ Len(c.chanlist) = c.chanlist_len }

TypeOK ==
    /\ \A f \in SrcFields : cmd[f] \subseteq Trig
    /\ cmd.chanlist_len \in Nat /\ cmd.scan_end_arg \in Nat
    /\ cmd.stop_arg \in Nat
    /\ ret \in {0, 1, 2, 3, 5, EINVAL}
    /\ passes \in 0..MaxPasses
    /\ dioOutput \in BOOLEAN

Init ==
    /\ cmd \in Cmds
    /\ ret = 0
    /\ passes = 0
    /\ dioOutput \in BOOLEAN

\* One COMEDI_CMDTEST call: the caller passes the command the last call
\* returned.
CmdTest ==
    /\ passes < MaxPasses
    /\ LET r == HpdiCmdTestResult(cmd, dioOutput)
       IN  /\ ret' = r.ret
           /\ cmd' = r.cmd
    /\ passes' = IF dioOutput THEN passes ELSE passes + 1
    /\ UNCHANGED dioOutput

\* dio_config_insn (lines 342-365) between two passes.
ConfigInsn ==
    /\ dioOutput' = ~dioOutput
    /\ UNCHANGED <<cmd, ret, passes>>

Next == CmdTest \/ ConfigInsn

Spec == Init /\ [][Next]_vars

-----------------------------------------------------------------------------
(* The reference: the rules of a valid command for this subdevice         *)
(* (spec 4.4). scan_end_arg equal to chanlist_len is what a count-based    *)
(* scan end means in comedi.                                               *)

SpecValid(c) ==
    /\ c.start_src = {"NOW"} /\ c.scan_begin_src = {"EXT"}
    /\ c.convert_src = {"NOW"} /\ c.scan_end_src = {"COUNT"}
    /\ c.stop_src \in {{"COUNT"}, {"NONE"}}
    /\ c.chanlist_len = ChanWidth
    /\ c.scan_end_arg = c.chanlist_len
    /\ c.stop_src = {"COUNT"} => c.stop_arg # 0
    /\ c.stop_src = {"NONE"} => c.stop_arg = 0
    /\ c.chanlist # NULL =>
            \A k \in 1..Len(c.chanlist) : CR_CHAN(c.chanlist[k]) = k - 1

\* di_cmd_test accepts every valid command and leaves it as it is: a
\* correct command is never corrected or refused by any of the passes.
AcceptsValid ==
    SpecValid(cmd) => DiCmdTest(cmd) = [ret |-> 0, cmd |-> cmd]

\* The multi-pass contract of COMEDI_CMDTEST: a caller that resubmits what
\* di_cmd_test handed back reaches, after two passes, a command that no
\* further pass corrects (each pass fixes what it reports, and a fix of one
\* pass is never undone by a later one).
SettlesAfterTwoPasses ==
    passes >= 2 => DiCmdTest(cmd).cmd = cmd

====
