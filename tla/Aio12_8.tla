------------------------------ MODULE Aio12_8 ------------------------------
(***************************************************************************)
(* The Acces I/O PC-104 AIO12-8 driver (aio_aio12_8.c).                    *)
(*                                                                         *)
(* Only synchronous instructions exist: ai_read polls the EOC bit after   *)
(* each conversion it starts, ao_write writes each sample as two bytes to *)
(* the channel's DAC register pair and keeps it in ao_readback, and       *)
(* ao_read returns that mirror.  Attach reserves 24 I/O ports, allocates  *)
(* the private data and three subdevices; the core calls detach after a  *)
(* failed attach as after a successful one.  Each comedi call runs to its *)
(* end, so each is one action.                                             *)
(*                                                                         *)
(* Register values are the real bytes; the ADC result and the 8255 DIO    *)
(* subdevice (8255.c, not in this repository) are left out.               *)
(***************************************************************************)
EXTENDS Integers, Sequences, SequencesExt

CONSTANTS
    Bases,          \* it->options[0] values tried at attach
    SystemPorts,    \* bases already reserved by another driver
    AiChans,        \* CR_CHAN of an AI chanspec (of 0..7)
    AiNs,           \* insn->n of an AI read
    ConvTimes,      \* microseconds until the ADC raises EOC
    AoChans,        \* CR_CHAN of an AO chanspec (of 0..3)
    AoVals,         \* samples handed to ao_write
    AoNs            \* insn->n of an AO write or read

ASSUME AiChans \subseteq 0..7 /\ AoChans \subseteq 0..3
ASSUME SystemPorts \subseteq Bases /\ 0 \notin Bases \ SystemPorts

\* Register offsets and bits (lines 32-59).
AIO12_8_DAC_0 == 4
ADC_MODE_NORMAL == 0
DAC_ENABLE == 24
AI_TIMEOUT == 5                 \* int timeout = 5, line 96
Ranges == 0..3                  \* range_aio_aio12_8 has four ranges
DacPorts == AIO12_8_DAC_0 .. AIO12_8_DAC_0 + 7
EIO == -5                       \* return values are negative errnos
ENOMEM == -12
NoRet == [op |-> "none", code |-> 0, val |-> 0]

VARIABLES
    phase,          \* "detached", "attached", "failed" (attach returned
                    \* an error, detach pending) or "oops"
    held,           \* I/O regions this driver holds (request_region)
    iobase,         \* dev->iobase (0: unset)
    priv,           \* dev->private allocated
    subdevs,        \* dev->subdevices allocated
    dio8255,        \* the 8255 subdevice's private data allocated
    ao_readback,    \* devpriv->ao_readback[4]
    dacReg,         \* the bytes last written to the DAC ports
    dacEnable,      \* the byte last written to iobase + DAC_ENABLE
    adcCtl,         \* the byte last written to AIO12_8_ADC
    ret,            \* result of the last instruction
    written         \* AO channels written since attach (history)

life == <<phase, held, iobase, priv, subdevs, dio8255>>
vars == <<life, ao_readback, dacReg, dacEnable, adcCtl, ret, written>>

TypeOK ==
    /\ phase \in {"detached", "attached", "failed", "oops"}
    /\ held \subseteq Bases /\ iobase \in Bases \cup {0}
    /\ priv \in BOOLEAN /\ subdevs \in BOOLEAN /\ dio8255 \in BOOLEAN
    /\ ao_readback \in [0..3 -> AoVals \cup {0}]
    /\ dacReg \in [DacPorts -> 0..255] /\ dacEnable \in {0, 1}
    /\ adcCtl \in 0..255
    /\ ret \in [op : {"none", "attach", "ai_read", "ao_write", "ao_read"},
                code : AiNs \cup AoNs \cup {0, EIO, ENOMEM}, val : AoVals \cup {0}]
    /\ written \subseteq 0..3

\* Power-up: no driver state; the board's registers cleared.
Init ==
    /\ phase = "detached" /\ held = {} /\ iobase = 0
    /\ priv = FALSE /\ subdevs = FALSE /\ dio8255 = FALSE
    /\ ao_readback = [c \in 0..3 |-> 0]
    /\ dacReg = [p \in DacPorts |-> 0] /\ dacEnable = 0 /\ adcCtl = 0
    /\ ret = NoRet /\ written = {}

-----------------------------------------------------------------------------
(* Lifecycle.                                                              *)

\* Mutant: the errno returned without its minus sign.
AttachRetPositive(regionOk, allocOk) ==
    IF ~regionOk THEN 5 ELSE IF ~allocOk THEN 12 ELSE 0

\* What aio_aio12_8_attach returns (lines 167-181, 203).
AttachRet(regionOk, allocOk) ==
    IF ~regionOk THEN EIO ELSE IF ~allocOk THEN ENOMEM ELSE 0

\* aio_aio12_8_attach (lines 161-204).  request_region fails on a base
\* another driver holds; alloc_private and alloc_subdevices may fail for
\* lack of memory (allocOk).  subdev_8255_init's own allocation may fail
\* too, and its result is ignored (line 201).
Attach ==
    /\ phase = "detached"
    /\ \E base \in Bases, allocOk \in [{"priv", "subdevs", "8255"} -> BOOLEAN] :
         IF base \in SystemPorts
           THEN /\ phase' = "failed"
                /\ ret' = [NoRet EXCEPT !.op = "attach",
                                        !.code = AttachRet(FALSE, FALSE)]
                /\ UNCHANGED <<held, iobase, priv, subdevs, dio8255,
                               ao_readback, written>>
           ELSE LET ok == allocOk["priv"] /\ allocOk["subdevs"] IN
                /\ held' = held \cup {base} /\ iobase' = base
                /\ priv' = allocOk["priv"]
                /\ subdevs' = ok
                /\ dio8255' = (ok /\ allocOk["8255"])
                /\ ao_readback' = [c \in 0..3 |-> 0]
                /\ written' = {}
                /\ phase' = IF ok THEN "attached" ELSE "failed"
                /\ ret' = [NoRet EXCEPT !.op = "attach",
                                        !.code = AttachRet(TRUE, ok)]
    /\ UNCHANGED <<dacReg, dacEnable, adcCtl>>

\* Mutant: the region is not given back.
DetachNoRelease ==
    /\ dio8255' = FALSE /\ UNCHANGED held

\* aio_aio12_8_detach (lines 206-212) without the core's part:
\* subdev_8255_cleanup frees the 8255 private data, then the region is
\* released if dev->iobase is set.
DetachReleases ==
    /\ dio8255' = FALSE
    /\ held' = IF iobase # 0 THEN held \ {iobase} ELSE held

\* The core's detach: the driver's detach, then the device is cleared.
\* With no subdevice array, &dev->subdevices[2] is an offset from NULL and
\* subdev_8255_cleanup dereferences it: the kernel oopses.
Detach ==
    /\ phase \in {"attached", "failed"}
    /\ IF subdevs
         THEN /\ DetachReleases
              /\ phase' = "detached" /\ iobase' = 0
              /\ priv' = FALSE /\ subdevs' = FALSE
         ELSE /\ phase' = "oops"
              /\ UNCHANGED <<held, iobase, priv, subdevs, dio8255>>
    /\ UNCHANGED <<ao_readback, dacReg, dacEnable, adcCtl, ret, written>>

\* The machine is restarted after an oops: the kernel's state is gone, the
\* board's registers keep their values.
Reboot ==
    /\ phase = "oops"
    /\ phase' = "detached" /\ held' = {} /\ iobase' = 0
    /\ priv' = FALSE /\ subdevs' = FALSE /\ dio8255' = FALSE
    /\ ao_readback' = [c \in 0..3 |-> 0] /\ ret' = NoRet
    /\ written' = {}
    /\ UNCHANGED <<dacReg, dacEnable, adcCtl>>

-----------------------------------------------------------------------------
(* Instructions.                                                           *)

\* The EOC wait of lines 96-108 for a conversion that raises EOC c
\* microseconds after it starts: the status is read while timeout is not
\* 0, and each miss costs one decrement and one microsecond.  The result
\* is timeout when the loop exits; 0 means "ADC timeout".
RECURSIVE PollEoc(_, _, _)
PollEoc(timeout, t, c) ==
    IF timeout # 0 /\ t < c THEN PollEoc(timeout - 1, t + 1, c) ELSE timeout

\* The control byte of lines 86-89: mode | range << 3 | channel.
AdcControl(chan, rng) == ADC_MODE_NORMAL + rng * 8 + chan

\* aio_aio12_8_ai_read (lines 82-118).  For each sample the control byte
\* starts a conversion and the EOC wait follows; the first conversion
\* that misses the wait ends the call with -EIO.
AiRead ==
    /\ phase = "attached"
    /\ \E chan \in AiChans, rng \in Ranges, n \in AiNs :
       \E conv \in [1 .. n -> ConvTimes] :
         LET late == SelectInSeq(conv, LAMBDA c : PollEoc(AI_TIMEOUT, 0, c) = 0)
         IN /\ adcCtl' = AdcControl(chan, rng)
            /\ ret' = [NoRet EXCEPT !.op = "ai_read",
                                    !.code = IF late = 0 THEN n ELSE EIO]
    /\ UNCHANGED <<life, ao_readback, dacReg, dacEnable, written>>

\* Mutant: the channel's registers at DAC_0 + chan instead of + 2 * chan.
DacPortOneByte(chan) == AIO12_8_DAC_0 + chan

\* The LSB port of an AO channel's register pair (line 136).
DacPort(chan) == AIO12_8_DAC_0 + 2 * chan

\* aio_aio12_8_ao_write (lines 131-148).  The DACs are enabled, then each
\* sample goes out as data & 0xFF and (data >> 8) & 0x0F to the same two
\* ports and into ao_readback[chan]; the last sample is what remains.
AoWrite ==
    /\ phase = "attached"
    /\ \E chan \in AoChans, n \in AoNs :
       \E data \in [1 .. n -> AoVals] :
         LET port == DacPort(chan)
             v == Last(data)
         IN /\ dacEnable' = 1
            /\ dacReg' = [dacReg EXCEPT ![port] = v % 256,
                                        ![port + 1] = (v \div 256) % 16]
            /\ ao_readback' = [ao_readback EXCEPT ![chan] = v]
            /\ written' = written \cup {chan}
            /\ ret' = [NoRet EXCEPT !.op = "ao_write", !.code = n]
    /\ UNCHANGED <<life, adcCtl>>

\* aio_aio12_8_ao_read (lines 120-129): insn->n copies of the mirror.
AoRead ==
    /\ phase = "attached"
    /\ \E chan \in AoChans, n \in AoNs :
         ret' = [op |-> "ao_read", code |-> n, val |-> ao_readback[chan]]
    /\ UNCHANGED <<life, ao_readback, dacReg, dacEnable, adcCtl, written>>

Next ==
    \/ Attach \/ Detach \/ Reboot
    \/ AiRead \/ AoWrite \/ AoRead

Spec == Init /\ [][Next]_vars

-----------------------------------------------------------------------------
(* Properties.                                                             *)

\* The board's DAC register pairs, AIO12_8_DAC_0 .. _3 (lines 35-38), and
\* the 12-bit value a pair holds: the MSB port keeps four bits.
DacRegister == <<4, 6, 8, 10>>
DacValue(chan) ==
    dacReg[DacRegister[chan + 1]] + 256 * (dacReg[DacRegister[chan + 1] + 1] % 16)

\* Every AO channel written since attach holds, on its DAC register pair,
\* the 12 DAC bits of what ao_readback says it holds: ao_write's port
\* arithmetic and byte split reach the channel asked for and no other,
\* across writes to other channels, detach and re-attach.
AoReadbackMatchesDac ==
    \A c \in written : DacValue(c) = ao_readback[c] % 4096

\* While a device is attached the driver holds exactly the region at
\* dev->iobase, and once detach has run after a successful attach it holds
\* none: aio_aio12_8_detach releases the region attach reserved, across any
\* number of attach, instruction and detach cycles.  A failed attach is not
\* covered: its detach dereferences the unallocated subdevices (phase
\* "oops"), and a region it reserved is never given back.
RegionHeldWhileAttached ==
    /\ phase = "attached" => held = {iobase}
    /\ phase = "detached" => held = {}


====
