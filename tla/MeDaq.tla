------------------------------- MODULE MeDaq -------------------------------
(***************************************************************************)
(* The Meilhaus ME-2600i / ME-2000i driver (me_daq.c).                     *)
(*                                                                         *)
(* The driver keeps software mirrors of three write-only registers         *)
(* (control_1, control_2, dac_control) and of the four DAC data registers  *)
(* (ao_readback). Each instruction changes a mirror and then writes it to  *)
(* the board. The model keeps both the mirrors and the registers, and it   *)
(* keeps the lifecycle: attach (with the ME-2600 firmware download), the  *)
(* instructions of the AI, AO and DIO subdevices, and detach. Every       *)
(* instruction runs to completion in one comedi call, so it is one action. *)
(*                                                                         *)
(* Register values are the real 16-bit values with the driver's bit        *)
(* constants. A DIO port (16 bits) is narrowed to PortBits bits, because   *)
(* every DIO mask the driver applies is port aligned.                      *)
(***************************************************************************)
EXTENDS Integers, Sequences, Bitwise, SequencesExt

CONSTANTS
    AoChans,        \* AO channels given in a chanspec (of 0..3)
    AoVals,         \* samples written to the DAC
    AoNs,           \* insn->n of an AO write (1 .. 4 stay inside comedi_insn)
    AiArgs,         \* AI chanspecs read: records [chan, rang, aref]
    DioChans,       \* channels passed to insn_config (of 0..31)
    PortBits        \* bits kept of each 16-bit DIO port

ASSUME AoChans \subseteq 0..3 /\ DioChans \subseteq 0..31
ASSUME AoNs \subseteq 1..4 /\ PortBits \in 1..16

ME2600_DEVICE_ID == 9728      \* 0x2600
ME2000_DEVICE_ID == 8192      \* 0x2000
Boards == {ME2600_DEVICE_ID, ME2000_DEVICE_ID}

\* Bits of ME_CONTROL_2 (lines 86-93) and ME_DAC_CONTROL (lines 121-136).
ENABLE_ADFIFO == 1024
ENABLE_CHANLIST == 512
ENABLE_PORT_B == 128
ENABLE_PORT_A == 64
ENABLE_DAC == 2
BUFFERED_DAC == 1
SOFTWARE_TRIGGERED_ADC == 1
DAC_BIPOLAR_A == 128
DAC_GAIN_1_A == 2048
AREF_DIFF == 2
Word == 65535
NOT16(x) == Word - x          \* ~x on an unsigned short
ao_maxdata == 4095            \* ao_resolution_mask of the ME-2600i

Ports == {0, 1}               \* 0: port A (channels 0-15), 1: port B (16-31)
PortVals == 0..(2^PortBits - 1)
PortEnable == [p \in Ports |-> IF p = 0 THEN ENABLE_PORT_A ELSE ENABLE_PORT_B]
AllChans == 0..3
AoRanges == 0..2
AiRanges == 0..7
Arefs == {0, 1, 2}            \* AREF_GROUND, AREF_COMMON, AREF_DIFF
ASSUME AiArgs \subseteq [chan : 0..15, rang : AiRanges, aref : Arefs]
NoReq == [chan |-> -1, rang |-> 0, aref |-> 0]

VARIABLES
    phase,          \* "detached" or "attached"
    board,          \* device_id of the attached board
    fw,             \* Xilinx state: "none", "loaded", "failed"
    plx_intcsr,     \* value last written to PLX_INTCSR
    control_1, control_2, dac_control,   \* dev_private mirrors
    ao_readback,    \* dev_private->ao_readback[4]
    ctl1Reg, ctl2Reg, dacCtlReg,         \* the registers on the board
    dacData,        \* ME_DAC_DATA_A..D
    chanListReg,    \* the entry last written to ME_CHANNEL_LIST
    io_bits,        \* io_bits[p]: DIO port p is an output
    dioState,       \* dioState[p]: port p's part of s->state
    portLatch,      \* the value last written to ME_DIO_PORT_A / _B
    aoRange,        \* range last asked of each DAC channel (reference)
    aiReq           \* chanspec of the last AI read (reference)

mirrors == <<control_1, control_2, dac_control, ao_readback>>
regs == <<ctl1Reg, ctl2Reg, dacCtlReg, dacData, chanListReg>>
dio == <<io_bits, dioState, portLatch>>
life == <<phase, board, fw, plx_intcsr>>
ghosts == <<aoRange, aiReq>>
vars == <<life, mirrors, regs, dio, ghosts>>

Attached == phase = "attached"

\* Power-up: no driver state, the board registers cleared and the port
\* latches holding any value.
Init ==
    /\ phase = "detached" /\ board = ME2000_DEVICE_ID /\ fw = "none"
    /\ plx_intcsr = 0
    /\ control_1 = 0 /\ control_2 = 0 /\ dac_control = 0
    /\ ao_readback = [c \in AllChans |-> 0]
    /\ ctl1Reg = 0 /\ ctl2Reg = 0 /\ dacCtlReg = 0
    /\ dacData = [c \in AllChans |-> 0]
    /\ chanListReg = 0
    /\ io_bits = [p \in Ports |-> FALSE]
    /\ dioState = [p \in Ports |-> 0]
    /\ portLatch \in [Ports -> PortVals]
    /\ aoRange = [c \in AllChans |-> 2]
    /\ aiReq = NoReq

-----------------------------------------------------------------------------
(* Lifecycle: me_reset, me2600_xilinx_download, me_attach, me_detach.      *)

\* Mutant: ME_DAC_CONTROL is not written.
MeResetNoDacCtl ==
    /\ ctl1Reg' = 0 /\ ctl2Reg' = 0 /\ UNCHANGED dacCtlReg
    /\ control_1' = 0 /\ control_2' = 0 /\ dac_control' = 0

\* me_reset (lines 656-670): the control registers and their mirrors to 0.
\* The DAC data registers and the DIO ports are not written.
MeReset ==
    /\ ctl1Reg' = 0 /\ ctl2Reg' = 0 /\ dacCtlReg' = 0
    /\ control_1' = 0 /\ control_2' = 0 /\ dac_control' = 0

\* me2600_xilinx_download (lines 585-650). The firmware is written byte by
\* byte; ok is the board's verdict, INTB clear (bit 0x20 of PLX_INTCSR).
\* On failure PLX interrupts stay disabled and -EIO is returned; on
\* success they are enabled with 0x43.
XilinxDownload(ok) ==
    /\ plx_intcsr' = IF ok THEN 67 ELSE 0
    /\ fw' = IF ok THEN "loaded" ELSE "failed"

\* me_attach (lines 679-861) once the board is found and its regions are
\* memory: fresh zeroed private data (alloc_private), the download for
\* an ME-2600 with its result dropped (line 815), me_reset, and the DIO
\* subdevice with io_bits = 0 and a zeroed s->state. The probe and
\* resource errors return before any register is written.
Attach(id, ok) ==
    /\ phase = "detached"
    /\ phase' = "attached" /\ board' = id
    /\ IF id = ME2600_DEVICE_ID THEN XilinxDownload(ok)
                                ELSE UNCHANGED <<fw, plx_intcsr>>
    /\ MeReset
    /\ ao_readback' = [c \in AllChans |-> 0]
    /\ io_bits' = [p \in Ports |-> FALSE]
    /\ dioState' = [p \in Ports |-> 0]
    /\ aoRange' = [c \in AllChans |-> 2]
    /\ aiReq' = NoReq
    /\ UNCHANGED <<dacData, chanListReg, portLatch>>

\* me_detach (lines 868-873).
Detach ==
    /\ Attached
    /\ phase' = "detached"
    /\ MeReset
    /\ UNCHANGED <<board, fw, plx_intcsr, ao_readback, dacData, chanListReg,
                   dio, ghosts>>

-----------------------------------------------------------------------------
(* Digital I/O.                                                            *)

PortOf(chan) == IF chan < 16 THEN 0 ELSE 1

\* me_dio_insn_config (lines 307-344): enable the channel's port in
\* control_2, whatever the direction, then set or clear its io_bits.
DioConfig(chan, output) ==
    LET p == PortOf(chan) IN
    /\ Attached
    /\ control_2' = control_2 | PortEnable[p]
    /\ ctl2Reg' = control_2'
    /\ io_bits' = [io_bits EXCEPT ![p] = output]
    /\ UNCHANGED <<life, control_1, dac_control, ao_readback, ctl1Reg,
                   dacCtlReg, dacData, chanListReg, dioState, portLatch, ghosts>>

\* me_dio_insn_bits (lines 350-381) with data[0] = mask, data[1] = bits:
\* merge into s->state, then write each port that is an output and is in
\* the mask; the others are read into data[1].
DioBits(mask, bits) ==
    LET new == [p \in Ports |-> (dioState[p] & ((2^PortBits - 1) - mask[p]))
                                 | (mask[p] & bits[p])]
    IN
    /\ Attached
    /\ dioState' = new
    /\ portLatch' = [p \in Ports |-> IF io_bits[p] /\ mask[p] # 0
                                     THEN new[p] ELSE portLatch[p]]
    /\ UNCHANGED <<life, mirrors, regs, io_bits, ghosts>>

-----------------------------------------------------------------------------
(* Analog input.                                                           *)

\* Mutant: the polarity bit shifted by 3 instead of 4.
ChanListValueShift3(chan, rang, aref) ==
    ((chan & 15) | ((rang & 3) * 16) | ((rang & 4) * 8)
        | (IF (aref & AREF_DIFF) # 0 THEN 128 ELSE 0)) & 255

\* The channel-list entry of me_ai_insn_read (lines 420-424): b3:b0 the
\* channel, b5:b4 the gain, b6 the polarity, b7 differential.
ChanListValue(chan, rang, aref) ==
    ((chan & 15) | ((rang & 3) * 16) | ((rang & 4) * 16)
        | (IF (aref & AREF_DIFF) # 0 THEN 128 ELSE 0)) & 255

\* me_ai_insn_read (lines 392-457): stop the ADC, clear and re-enable the
\* channel list and the FIFO, write one entry, software trigger, then poll
\* ME_STATUS. converts says whether the FIFO fills within the 100000
\* polls; if not, -EIO is returned with the ADC left triggered.
AiRead(chan, rang, aref, converts) ==
    LET c1 == (control_1 & 65532) | SOFTWARE_TRIGGERED_ADC
        c2 == (control_2 & NOT16(ENABLE_ADFIFO + ENABLE_CHANLIST))
                | (ENABLE_ADFIFO + ENABLE_CHANLIST)
    IN
    /\ Attached
    /\ control_1' = IF converts THEN c1 & 65532 ELSE c1
    /\ ctl1Reg' = control_1'
    /\ control_2' = c2 /\ ctl2Reg' = c2
    /\ chanListReg' = ChanListValue(chan, rang, aref)
    /\ aiReq' = [chan |-> chan, rang |-> rang, aref |-> aref]
    /\ UNCHANGED <<life, dac_control, ao_readback, dacCtlReg, dacData, dio,
                   aoRange>>

\* me_ai_cancel (lines 469-479). me_ai_do_cmd_test and me_ai_do_cmd return
\* 0 and change nothing.
AiCancel ==
    /\ Attached
    /\ control_1' = control_1 & 65532 /\ ctl1Reg' = control_1'
    /\ UNCHANGED <<life, control_2, dac_control, ao_readback, ctl2Reg,
                   dacCtlReg, dacData, chanListReg, dio, ghosts>>

-----------------------------------------------------------------------------
(* Analog output. An entry of the chanspec list is [chan, range]. Entry 1  *)
(* is insn->chanspec; entries 2..n are what (&insn->chanspec)[i] reads,    *)
(* the comedi_insn fields that follow chanspec.                            *)

\* Mutant: only the gain bit of the channel is cleared.
DacEntryGainOnly(dc, e) ==
    LET cleared == dc & NOT16(DAC_GAIN_1_A \div 2^e.chan) IN
    CASE e.range = 0 -> cleared | ((DAC_BIPOLAR_A + DAC_GAIN_1_A) \div 2^e.chan)
      [] e.range = 1 -> cleared | (DAC_BIPOLAR_A \div 2^e.chan)
      [] OTHER       -> cleared

\* One iteration of the dac_control loop (lines 527-536).
DacEntry(dc, e) ==
    LET cleared == dc & NOT16((DAC_BIPOLAR_A + DAC_GAIN_1_A) \div 2^e.chan) IN
    CASE e.range = 0 -> cleared | ((DAC_BIPOLAR_A + DAC_GAIN_1_A) \div 2^e.chan)
      [] e.range = 1 -> cleared | (DAC_BIPOLAR_A \div 2^e.chan)
      [] OTHER       -> cleared

\* Mutant: the sample is not masked to maxdata.
AoSampleUnmasked(d) == d[1]

\* The value written to the DACs: data[0] & s->maxdata (lines 545-548).
AoSample(d) == d[1] & ao_maxdata

\* me_ao_insn_write (lines 509-555) with chanspec list cs and data d: set
\* ENABLE_DAC and BUFFERED_DAC, set the range bits of every entry, write
\* dac_control, then write data[0] (masked to maxdata) to the DAC of every
\* entry and to its ao_readback. The ME-2000i has no AO channel.
AoWrite(cs, d) ==
    LET v == AoSample(d)
        touched == {cs[i].chan : i \in 1..Len(cs)}
    IN
    /\ Attached /\ board = ME2600_DEVICE_ID
    /\ control_2' = control_2 | ENABLE_DAC | BUFFERED_DAC
    /\ ctl2Reg' = control_2'
    /\ dac_control' = FoldLeft(DacEntry, dac_control, cs)
    /\ dacCtlReg' = dac_control'
    /\ dacData' = [c \in AllChans |-> IF c \in touched THEN v ELSE dacData[c]]
    /\ ao_readback' = [c \in AllChans |-> IF c \in touched THEN v
                                          ELSE ao_readback[c]]
    /\ aoRange' = FoldLeft(LAMBDA a, e : [a EXCEPT ![e.chan] = e.range],
                           aoRange, cs)
    /\ UNCHANGED <<life, control_1, ctl1Reg, chanListReg, dio, aiReq>>

-----------------------------------------------------------------------------

AoArgs(n) == [1..n -> [chan : AoChans, range : AoRanges]]

Next ==
    \/ \E id \in Boards, ok \in BOOLEAN : Attach(id, ok)
    \/ Detach
    \/ \E chan \in DioChans, output \in BOOLEAN : DioConfig(chan, output)
    \/ \E mask, bits \in [Ports -> PortVals] : DioBits(mask, bits)
    \/ \E r \in AiArgs, converts \in BOOLEAN :
          AiRead(r.chan, r.rang, r.aref, converts)
    \/ AiCancel
    \/ \E n \in AoNs : \E cs \in AoArgs(n), d \in [1..n -> AoVals] : AoWrite(cs, d)

Spec == Init /\ [][Next]_vars

-----------------------------------------------------------------------------
(* References taken from the board description: the range tables          *)
(* me2600_ai_range and me2600_ao_range (lines 172-195), in millivolts.     *)

AiRangeTable == <<[uni |-> FALSE, max |-> 10000], [uni |-> FALSE, max |-> 5000],
                  [uni |-> FALSE, max |-> 2500], [uni |-> FALSE, max |-> 1250],
                  [uni |-> TRUE, max |-> 10000], [uni |-> TRUE, max |-> 5000],
                  [uni |-> TRUE, max |-> 2500], [uni |-> TRUE, max |-> 1250]>>
AoRangeTable == <<[uni |-> FALSE, max |-> 10000], [uni |-> FALSE, max |-> 5000],
                  [uni |-> TRUE, max |-> 10000]>>

\* The channel-list entry a range asks for: gain code g amplifies by 2^g
\* from the 10 V full scale (ADC_GAIN_g = g << 4), ADC_UNIPOLAR for a
\* unipolar range, bit 7 for AREF_DIFF.
AiEntryRef(r) ==
    LET t == AiRangeTable[r.rang + 1]
        g == CHOOSE k \in 0..3 : t.max * 2^k = 10000
    IN  r.chan + 16 * g + (IF t.uni THEN 64 ELSE 0)
          + (IF r.aref = AREF_DIFF THEN 128 ELSE 0)

\* The dac_control bits a range asks for on channel c: DAC_BIPOLAR for a
\* bipolar range, DAC_GAIN_1 for the 20 V span.
DacBitsRef(c, r) ==
    LET t == AoRangeTable[r + 1]
        span == IF t.uni THEN t.max ELSE 2 * t.max
    IN  (IF t.uni THEN 0 ELSE DAC_BIPOLAR_A \div 2^c)
          + (IF span = 20000 THEN DAC_GAIN_1_A \div 2^c ELSE 0)

-----------------------------------------------------------------------------

TypeOK ==
    /\ phase \in {"detached", "attached"} /\ board \in Boards
    /\ fw \in {"none", "loaded", "failed"} /\ plx_intcsr \in {0, 67}
    /\ {control_1, control_2, dac_control, ctl1Reg, ctl2Reg, dacCtlReg}
          \subseteq 0..Word
    /\ ao_readback \in [AllChans -> 0..ao_maxdata]
    /\ dacData \in [AllChans -> 0..ao_maxdata]
    /\ chanListReg \in 0..255
    /\ io_bits \in [Ports -> BOOLEAN]
    /\ dioState \in [Ports -> PortVals] /\ portLatch \in [Ports -> PortVals]
    /\ aoRange \in [AllChans -> AoRanges]

\* While the board is attached, each write-only register holds what its
\* mirror in dev_private says: every read-modify-write of control_1,
\* control_2 and dac_control, by any sequence of attach, detach and
\* instructions, is followed by the write of the mirror.
MirrorsMatchRegisters ==
    Attached =>
        /\ control_1 = ctl1Reg
        /\ control_2 = ctl2Reg
        /\ dac_control = dacCtlReg

\* The DAC control register encodes, for every channel, the range last
\* asked of it (range 2, UNI 10 V, after me_reset): the per-channel
\* clear-then-set in me_ao_insn_write never disturbs another channel and
\* never leaves a bit of an earlier range behind.
DacControlEncodesRange ==
    Attached =>
        \A c \in AllChans :
            dacCtlReg & ((DAC_BIPOLAR_A + DAC_GAIN_1_A) \div 2^c)
                = DacBitsRef(c, aoRange[c])

\* The channel-list entry me_ai_insn_read builds, for every range of the
\* table, every reference and channel 15 (all four channel bits), selects the
\* channel, gain, polarity and reference that range asks for; and the
\* entry on the board is the one built for the last read.
ChanListEncodesRequest ==
    /\ \A r \in [chan : {15}, rang : AiRanges, aref : Arefs] :
          ChanListValue(r.chan, r.rang, r.aref) = AiEntryRef(r)
    /\ aiReq # NoReq => chanListReg = AiEntryRef(aiReq)

====
