--------------------------- MODULE Apci1710Timer ---------------------------
(***************************************************************************)
(* The 82X54 timer function of the ADDI-DATA APCI-1710                    *)
(* (addi-data/APCI1710_82x54.c): init, enable/disable, and the read and    *)
(* write instructions of up to three timers on each of four modules.      *)
(*                                                                         *)
(* The driver keeps a mirror of every timer in devpriv->s_ModuleInfo:      *)
(* b_82X54Init, dw_ConfigurationWord and b_OutputLevel for each timer,     *)
(* and b_InterruptMask for each module. The board keeps the registers the *)
(* driver writes: configuration (offset 32), mode (16), counter/reload    *)
(* (0) and enable (44). Each comedi instruction runs to completion under   *)
(* the comedi core's device mutex, so each is one atomic action. Its       *)
(* arguments range over small sets and include values the checks reject.  *)
(*                                                                         *)
(* b_InputClockSelection, b_InputClockLevel and b_HardwareGateLevel are    *)
(* saved by init but read by nothing in this file, so they are not kept.  *)
(***************************************************************************)
EXTENDS Integers, Bitwise

CONSTANTS
    TimerModules,    \* modules whose dw_MolduleConfiguration says 82X54 timer
    ModuleVersion,   \* low word of dw_MolduleConfiguration, per module
    InsnN,           \* insn->n, returned on success
    \* The instructions tried, as records of their decoded arguments:
    InitArgs,        \* [m, t, mode, v, sel, cl, ol, gl] of InsnConfigInitTimer
    EnableArgs,      \* [m, t, action, irq] of InsnWriteEnableDisableTimer
    BitsArgs,        \* [m, t, type, v] of InsnBitsTimer
    ModArgs          \* modules of InsnReadAllTimerValue

Mods == 0..3
Tims == 0..2
ASSUME TimerModules \subseteq Mods /\ ModuleVersion \in [Mods -> Nat]

\* data[] words are cast to BYTE before they are checked.
BYTE(x) == x % 256

\* Input clock selections. APCI1710_10MHZ is written to the configuration
\* word as 2 (line 482); PCI bus and front connector are 0 and 1.
ClockCode == [PCI |-> 0, FRONT |-> 1, TEN |-> 2]

VARIABLES
    b_82X54Init, dw_ConfigurationWord, b_OutputLevel, b_InterruptMask,
    cfgReg, modeReg, valueReg, enableReg,
    ret
drv == <<b_82X54Init, dw_ConfigurationWord, b_OutputLevel, b_InterruptMask>>
hw  == <<cfgReg, modeReg, valueReg, enableReg>>
vars == <<drv, hw, ret>>

Zero == [m \in Mods |-> [t \in Tims |-> 0]]

Init ==
    /\ b_82X54Init = Zero /\ dw_ConfigurationWord = Zero
    /\ b_OutputLevel = Zero /\ b_InterruptMask = [m \in Mods |-> 0]
    /\ cfgReg = Zero /\ modeReg = Zero /\ valueReg = Zero /\ enableReg = Zero
    /\ ret = 0

\* The checks every instruction on one timer makes first, in their order.
\* 0 means they passed.
TimerCheck(m, t) ==
    CASE ~(m < 4)                -> -2
      [] m \notin TimerModules   -> -4
      [] ~(t <= 2)               -> -3
      [] b_82X54Init[m][t] # 1   -> -5
      [] OTHER                   -> 0

Bit(x, k) == shiftR(x, k) & 1
IRQ_BIT == 8

\* dw_ConfigurationWord as built by init (lines 484-498).
ConfigWord(gate, clkLevel, outLevel, sel) ==
    (gate & 1) | ((clkLevel * 2) & 2) | (((1 - (outLevel % 2)) * 4) & 4)
      | ((ClockCode[sel] * 16) & 48)

\* The clock selection is legal for this timer (lines 320-329): timer 0 has
\* no front-connector input, and 10 MHz needs module version >= 0x3131.
ClockOK(m, t, sel) ==
    /\ sel \in DOMAIN ClockCode
    /\ t = 0 => sel \in {"PCI", "TEN"}
    /\ sel = "TEN" => ModuleVersion[m] >= 12593

\* Return code of i_APCI1710_InsnConfigInitTimer's checks (lines 294-391);
\* q is bit 16 of the mode register, read to detect the 40 MHz quartz.
InitCheck(m, t, mode, sel, cl, ol, gl, q) ==
    CASE ~(m < 4)                     -> -2
      [] m \notin TimerModules        -> -4
      [] ~(t <= 2)                    -> -3
      [] ~(BYTE(mode) <= 5)           -> -5
      [] ~ClockOK(m, t, sel)          -> -6
      [] BYTE(cl) \notin {0, 1}       -> -7
      [] BYTE(ol) \notin {0, 1}       -> -8
      [] BYTE(gl) \notin {0, 1}       -> -9
      [] sel = "TEN" /\ ModuleVersion[m] > 12593 /\ q # 1 -> -6
      [] OTHER                        -> 0

\* Lines 393-513: mark the timer initialised, save the inverted output
\* level, build and write the configuration word, then mode and reload.
SetupTimer(m, t, mode, reload, sel, cl, ol, gl) ==
    LET w == ConfigWord(BYTE(gl), BYTE(cl), BYTE(ol), sel) IN
    /\ b_82X54Init' = [b_82X54Init EXCEPT ![m][t] = 1]
    /\ b_OutputLevel' = [b_OutputLevel EXCEPT ![m][t] = 1 - (BYTE(ol) % 2)]
    /\ dw_ConfigurationWord' = [dw_ConfigurationWord EXCEPT ![m][t] = w]
    /\ cfgReg' = [cfgReg EXCEPT ![m][t] = w]
    /\ modeReg' = [modeReg EXCEPT ![m][t] = BYTE(mode)]
    /\ valueReg' = [valueReg EXCEPT ![m][t] = reload]
    /\ UNCHANGED <<b_InterruptMask, enableReg>>

\* Mutant: the timer is set up before the quartz detection, which then
\* only sets the return code.
InitTimerNoQuartzGuard(m, t, mode, reload, sel, cl, ol, gl, q) ==
    LET code == InitCheck(m, t, mode, sel, cl, ol, gl, q) IN
    IF InitCheck(m, t, mode, sel, cl, ol, gl, 1) = 0
    THEN SetupTimer(m, t, mode, reload, sel, cl, ol, gl) /\
         ret' = IF code = 0 THEN InsnN ELSE code
    ELSE UNCHANGED <<drv, hw>> /\ ret' = code

\* i_APCI1710_InsnConfigInitTimer.
InitTimer(m, t, mode, reload, sel, cl, ol, gl, q) ==
    LET code == InitCheck(m, t, mode, sel, cl, ol, gl, q) IN
    IF code = 0
    THEN SetupTimer(m, t, mode, reload, sel, cl, ol, gl) /\ ret' = InsnN
    ELSE UNCHANGED <<drv, hw>> /\ ret' = code

APCI1710_DISABLE == 0
APCI1710_ENABLE == 1

\* b_InterruptMask & (0xFF - (1 << b_TimerNbr)) (lines 817, 922).
\* Mutant: the bit is subtracted instead of masked out.
MaskClearSub(mask, t) == mask - 2^t
MaskClear(mask, t) == mask & (255 - 2^t)

\* Write a new configuration word to the driver's copy and the board.
WriteConfig(m, t, w) ==
    /\ dw_ConfigurationWord' = [dw_ConfigurationWord EXCEPT ![m][t] = w]
    /\ cfgReg' = [cfgReg EXCEPT ![m][t] = w]

\* Clear the interrupt bit of the word, write it, clear the mask bit
\* (lines 780-826 and 874-930).
\* Mutant: the mask is cleared but the new word is not written to the board.
DisableIrqNoWrite(m, t) ==
    /\ dw_ConfigurationWord' =
           [dw_ConfigurationWord EXCEPT ![m][t] = @ & 247]
    /\ b_InterruptMask' = [b_InterruptMask EXCEPT ![m] = MaskClear(@, t)]
    /\ UNCHANGED cfgReg
DisableIrq(m, t) ==
    /\ WriteConfig(m, t, dw_ConfigurationWord[m][t] & 247)
    /\ b_InterruptMask' = [b_InterruptMask EXCEPT ![m] = MaskClear(@, t)]

\* case APCI1710_ENABLE (lines 701-865): set or clear the interrupt bit,
\* record it in b_InterruptMask, start the timer.
EnableTimer(m, t, irq) ==
    \/ /\ irq \notin {APCI1710_ENABLE, APCI1710_DISABLE}
       /\ ret' = -6
       /\ UNCHANGED <<drv, hw>>
    \/ /\ irq = APCI1710_ENABLE
       /\ WriteConfig(m, t, dw_ConfigurationWord[m][t] | IRQ_BIT)
       /\ b_InterruptMask' = [b_InterruptMask EXCEPT ![m] = @ | 2^t]
       /\ enableReg' = [enableReg EXCEPT ![m][t] = 1]
       /\ ret' = InsnN
       /\ UNCHANGED <<b_82X54Init, b_OutputLevel, modeReg, valueReg>>
    \/ /\ irq = APCI1710_DISABLE
       /\ DisableIrq(m, t)
       /\ enableReg' = [enableReg EXCEPT ![m][t] = 1]
       /\ ret' = InsnN
       /\ UNCHANGED <<b_82X54Init, b_OutputLevel, modeReg, valueReg>>

\* case APCI1710_DISABLE (lines 866-940): clear the interrupt only if the
\* mask says it is enabled, then stop the timer.
DisableTimer(m, t) ==
    /\ IF Bit(b_InterruptMask[m], t) = 1
       THEN DisableIrq(m, t)
       ELSE UNCHANGED <<dw_ConfigurationWord, cfgReg, b_InterruptMask>>
    /\ enableReg' = [enableReg EXCEPT ![m][t] = 0]
    /\ ret' = InsnN
    /\ UNCHANGED <<b_82X54Init, b_OutputLevel, modeReg, valueReg>>

\* i_APCI1710_InsnWriteEnableDisableTimer.
EnableDisableTimer(m, t, action, irq) ==
    \/ /\ TimerCheck(m, t) # 0
       /\ ret' = TimerCheck(m, t)
       /\ UNCHANGED <<drv, hw>>
    \/ /\ TimerCheck(m, t) = 0
       /\ CASE BYTE(action) = APCI1710_ENABLE  -> EnableTimer(m, t, BYTE(irq))
            [] BYTE(action) = APCI1710_DISABLE -> DisableTimer(m, t)
            [] OTHER -> ret' = InsnN /\ UNCHANGED <<drv, hw>>

\* i_APCI1710_InsnReadAllTimerValue, case APCI1710_TIMER_READALLTIMER
\* (lines 1051-1168): all three timers of the module must be initialised;
\* the counters are latched and read. The other read type,
\* APCI1710_TIMER_READINTERRUPT, returns the saved interrupt slot and
\* changes no state this module keeps.
ReadAllCheck(m) ==
    CASE ~(m < 4)                -> -2
      [] m \notin TimerModules   -> -3
      [] b_82X54Init[m][0] # 1   -> -4
      [] b_82X54Init[m][1] # 1   -> -5
      [] b_82X54Init[m][2] # 1   -> -6
      [] OTHER                   -> 0

ReadAllTimerValue(m, readAll) ==
    /\ ret' = IF readAll /\ ReadAllCheck(m) # 0 THEN ReadAllCheck(m) ELSE InsnN
    /\ UNCHANGED <<drv, hw>>

\* i_APCI1710_ReadTimerValue, i_APCI1710_GetTimerOutputLevel and
\* i_APCI1710_GetTimerProgressStatus: after the checks they latch and read
\* the board, which changes nothing modelled here; their result is the
\* return code.
ReadTimerValue(m, t) == TimerCheck(m, t)
GetTimerOutputLevel(m, t) == TimerCheck(m, t)
GetTimerProgressStatus(m, t) == TimerCheck(m, t)

\* i_APCI1710_WriteTimerValue: after the checks, write the counter register.
WriteTimerValue(m, t, value) ==
    /\ IF TimerCheck(m, t) = 0
       THEN valueReg' = [valueReg EXCEPT ![m][t] = value]
       ELSE UNCHANGED valueReg

\* i_APCI1710_InsnBitsTimer: dispatch on data[0]; any other type returns -1;
\* a non-negative result becomes insn->n.
BitsTypes == {"READVALUE", "GETOUTPUTLEVEL", "GETPROGRESSSTATUS",
              "WRITEVALUE", "OTHER"}

InsnBitsTimer(m, t, type, value) ==
    LET sub == CASE type = "READVALUE"         -> ReadTimerValue(m, t)
                 [] type = "GETOUTPUTLEVEL"    -> GetTimerOutputLevel(m, t)
                 [] type = "GETPROGRESSSTATUS" -> GetTimerProgressStatus(m, t)
                 [] type = "WRITEVALUE"        -> TimerCheck(m, t)
                 [] OTHER                      -> -1
    IN
    /\ ret' = IF sub >= 0 THEN InsnN ELSE sub
    /\ IF type = "WRITEVALUE" THEN WriteTimerValue(m, t, value)
                              ELSE UNCHANGED valueReg
    /\ UNCHANGED <<drv, cfgReg, modeReg, enableReg>>

Next ==
    \/ \E a \in InitArgs :
       \E q \in IF a.sel = "TEN" THEN {0, 1} ELSE {1} :
           InitTimer(a.m, a.t, a.mode, a.v, a.sel, a.cl, a.ol, a.gl, q)
    \/ \E a \in EnableArgs : EnableDisableTimer(a.m, a.t, a.action, a.irq)
    \/ \E m \in ModArgs, readAll \in BOOLEAN : ReadAllTimerValue(m, readAll)
    \/ \E a \in BitsArgs : InsnBitsTimer(a.m, a.t, a.type, a.v)

Spec == Init /\ [][Next]_vars

-----------------------------------------------------------------------------

TypeOK ==
    /\ b_82X54Init \in [Mods -> [Tims -> {0, 1}]]
    /\ b_OutputLevel \in [Mods -> [Tims -> {0, 1}]]
    /\ dw_ConfigurationWord \in [Mods -> [Tims -> 0..63]]
    /\ b_InterruptMask \in [Mods -> 0..7]
    /\ cfgReg \in [Mods -> [Tims -> 0..63]]
    /\ enableReg \in [Mods -> [Tims -> {0, 1}]]
    /\ ret \in Int

\* A timer can raise an interrupt only if b_InterruptMask says its
\* interrupt is enabled: whenever the board's configuration register of a
\* timer has the interrupt bit, the mask bit of that timer is set. The
\* interrupt routine dispatches by this mask, so a timer outside it would
\* interrupt unseen. Enable, disable and re-init each rewrite the word
\* and the mask, in different orders and under different tests.
InterruptSourceKnown ==
    \A m \in Mods, t \in Tims :
        Bit(cfgReg[m][t], 3) = 1 => Bit(b_InterruptMask[m], t) = 1

\* An instruction that returns an error leaves the driver's mirror and the
\* board's registers as they were (every check precedes every write).
ErrorsChangeNothing ==
    [][ret' < 0 => UNCHANGED <<drv, hw>>]_vars

\* b_InterruptMask records exactly which initialised timers have their
\* interrupt enabled ("Save the interrupt flag"): its bit for a timer
\* equals the interrupt bit of that timer's dw_ConfigurationWord.
MaskMatchesConfig ==
    \A m \in Mods, t \in Tims :
        b_82X54Init[m][t] = 1 =>
            Bit(b_InterruptMask[m], t) = Bit(dw_ConfigurationWord[m][t], 3)

====
