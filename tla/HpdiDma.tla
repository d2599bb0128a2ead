------------------------------ MODULE HpdiDma ------------------------------
(***************************************************************************)
(* Streaming digital input of the gsc_hpdi driver (gsc_hpdi.c).            *)
(*                                                                         *)
(* Three actors share the device:                                          *)
(*  - the board and its PLX9080 bridge: DMA channel 0 walks the closed     *)
(*    chain of DMA_RING_COUNT descriptors built in hpdi_attach, fills one  *)
(*    buffer after the other from the RX FIFO and raises the channel-0     *)
(*    interrupt (ICS_DMA0_A) at the end of every buffer;                   *)
(*  - the interrupt handler handle_interrupt, which under dev->spinlock    *)
(*    clears the interrupt and runs drain_dma_buffers: read the PCI        *)
(*    address register once, then copy every buffer from dma_index up to   *)
(*    the one holding that address into the comedi async buffer;           *)
(*  - the control path: hpdi_cmd/di_cmd (a comedi command) and             *)
(*    hpdi_cancel, each a sequence of register writes, some of them under *)
(*    the same spinlock, that may interleave with the handler (SMP, or     *)
(*    the interrupt arriving between two statements).                      *)
(*                                                                         *)
(* Data is abstracted to identities: every buffer completion gets the next *)
(* fill number, a buffer holds the number of its last completed fill (0:   *)
(* never written since allocation), and the comedi buffer is the sequence  *)
(* of [seq, bytes] runs written by cfc_write_array_to_buffer.              *)
(***************************************************************************)
EXTENDS Naturals, Sequences, SequencesExt

CONSTANTS
  N,           \* DMA_RING_COUNT: descriptors and buffers in the ring
  BufSamples,  \* DMA_BUFFER_SIZE / sizeof(uint32_t): samples per buffer
  StopArgs,    \* stop_arg values di_cmd_test accepts with TRIG_COUNT
  MaxFills,    \* bound: buffers the board completes in one behaviour
  MaxCmds,     \* bound: comedi commands issued in one behaviour
  AsyncBytes,  \* bytes the comedi async buffer holds
  HwKeepsUp    \* environment: the board never completes the buffer that
               \* would make it write over an undrained one (no overrun)

ASSUME N \in Nat \ {0, 1} /\ BufSamples \in Nat \ {0}
ASSUME StopArgs \subseteq Nat \ {0}
ASSUME MaxFills \in Nat /\ MaxCmds \in Nat /\ HwKeepsUp \in BOOLEAN
ASSUME AsyncBytes \in Nat

(* Sizes in bytes: the buffers hold 32-bit words (lsampl_t), the copy in  *)
(* drain_dma_buffers counts sizeof(sampl_t), a 16-bit sample.             *)
SizeofSampl  == 2
SizeofLsampl == 4
BufBytes     == BufSamples * SizeofLsampl   \* DMA_BUFFER_SIZE

Ring == 0 .. N - 1

VARIABLES
  \* the board / PLX9080 DMA channel 0
  dmaActive,    \* channel 0 enabled and started (PLX_DMA_EN_BIT)
  hwIdx,        \* buffer the channel is writing: the PCI address register
                \* lies inside dio_buffer[hwIdx]
  descReg,      \* descriptor the channel loads when the buffer completes
  content,      \* content[i]: fill number held by dio_buffer[i]
  fills,        \* buffers completed so far
  rxEnabled,    \* RX_ENABLE_BIT in BOARD_CONTROL_REG
  fifoResidue,  \* the RX FIFO still holds a buffer's worth after RX stops
  dmaIntr,      \* ICS_DMA0_A pending in PLX_INTRCS_REG
  \* driver private state (hpdi_private)
  dma_index,    \* priv(dev)->dma_index, the ring cursor
  dio_count,    \* priv(dev)->dio_count
  dioOutput,    \* priv(dev)->dio_config_output
  \* control path and interrupt handler program counters and locals
  ctl,          \* next step of hpdi_cmd / hpdi_cancel, "Idle", "Running"
  ih,           \* "Idle", "Locked" (status read), "DrainStart" and "Drain"
                \* (spinlock held), "Events"
  plxStatus,    \* local plx_status: ICS_DMA0_A as read on entry
  addr,         \* local next_transfer_addr, as the buffer index it hits
  j,            \* local loop counter of drain_dma_buffers
  \* comedi core state of the read subdevice
  busy,         \* a command is running (s->busy)
  stopSrc,      \* async->cmd.stop_src
  stopArg,      \* async->cmd.stop_arg
  sink,         \* the async buffer: runs written since the command began
  sessStart,    \* fills at the time the command began (history)
  cmds,         \* commands issued
  \* comedi async buffer and its events
  unread,       \* bytes written and not yet read by the user
  overflowEvt,  \* COMEDI_CB_OVERFLOW set in async->events
  lost,         \* fill numbers the drain could not write (history)
  reported,     \* fill numbers lost before a COMEDI_CB_OVERFLOW that
                \* comedi_event passed to the core (history)
  overwritten,  \* fill numbers of this command the board wrote over
                \* before the cursor consumed them (history)
  taken         \* fill numbers the cursor has passed since the command
                \* began (history)

hw   == <<dmaActive, hwIdx, descReg, content, fills, rxEnabled, fifoResidue, dmaIntr>>
drv  == <<dma_index, dio_count, dioOutput>>
pcs  == <<ctl, ih, plxStatus, addr, j>>
core == <<busy, stopSrc, stopArg, sink, sessStart, cmds>>
abuf == <<unread, overflowEvt, lost, reported, overwritten, taken>>
vars == <<hw, drv, pcs, core, abuf>>

CtlSteps == {"Idle", "FifoReset", "ResetIndex", "AbortCh1", "WriteDesc",
             "StartDma", "RxEnable", "Running", "CancelBoard", "CancelAbort"}

TypeOK ==
  /\ dmaActive \in BOOLEAN /\ hwIdx \in Ring /\ descReg \in Ring
  /\ content \in [Ring -> 0 .. MaxFills] /\ fills \in 0 .. MaxFills
  /\ rxEnabled \in BOOLEAN /\ fifoResidue \in BOOLEAN /\ dmaIntr \in BOOLEAN
  /\ dma_index \in Ring /\ dio_count \in Nat /\ dioOutput \in BOOLEAN
  /\ ctl \in CtlSteps /\ ih \in {"Idle", "Locked", "DrainStart", "Drain", "Events"}
  /\ plxStatus \in BOOLEAN /\ addr \in Ring /\ j \in 0 .. N
  /\ busy \in BOOLEAN /\ stopSrc \in {"COUNT", "NONE"}
  /\ stopArg \in StopArgs \cup {0}
  /\ sink \in Seq([seq : 0 .. MaxFills, bytes : 0 .. BufBytes])
  /\ sessStart \in 0 .. MaxFills /\ cmds \in 0 .. MaxCmds
  /\ unread \in 0 .. AsyncBytes /\ overflowEvt \in BOOLEAN
  /\ lost \subseteq 1 .. MaxFills /\ reported \subseteq 1 .. MaxFills
  /\ overwritten \subseteq 1 .. MaxFills /\ taken \subseteq 0 .. MaxFills

(***************************************************************************)
(* The interrupt handler holds dev->spinlock around drain_dma_buffers. *)
HandlerHoldsLock == ih \in {"DrainStart", "Drain"}

(***************************************************************************)
(* Descriptor ring (hpdi_attach): descriptor i describes dio_buffer[i] and *)
(* its next field points to descriptor (i + 1) % DMA_RING_COUNT.           *)
(***************************************************************************)
DescNext(i) == (i + 1) % N

(* Completed buffers the cursor has not consumed, as long as the board has *)
(* not lapped the cursor.                                                  *)
Backlog == (hwIdx - dma_index + N) % N

(***************************************************************************)
(* hpdi_attach after init_plx9080 (abort_dma of both channels) and         *)
(* init_hpdi: channel 0 idle, RX off, private data zeroed by alloc_private,*)
(* buffers never written, async->cmd zeroed (stop_src is not TRIG_COUNT).  *)
(***************************************************************************)
Init ==
  /\ dmaActive = FALSE /\ hwIdx = 0 /\ descReg = 0
  /\ content = [i \in Ring |-> 0] /\ fills = 0
  /\ rxEnabled = FALSE /\ fifoResidue = FALSE /\ dmaIntr = FALSE
  /\ dma_index = 0 /\ dio_count = 0 /\ dioOutput = FALSE
  /\ ctl = "Idle" /\ ih = "Idle" /\ plxStatus = FALSE /\ addr = 0 /\ j = 0
  /\ busy = FALSE /\ stopSrc = "NONE" /\ stopArg = 0
  /\ sink = <<>> /\ sessStart = 0 /\ cmds = 0
  /\ unread = 0 /\ overflowEvt = FALSE /\ lost = {} /\ reported = {}
  /\ overwritten = {} /\ taken = {}

(***************************************************************************)
(* The board (environment).  While channel 0 runs and data arrives (RX     *)
(* enabled, or words left in the FIFO after RX was disabled), the current  *)
(* buffer completes: it now holds the next fill, the channel loads the     *)
(* next descriptor and raises the terminal-count interrupt.                *)
(***************************************************************************)
HwComplete ==
  /\ dmaActive
  /\ rxEnabled \/ fifoResidue
  /\ fills < MaxFills
  /\ HwKeepsUp => Backlog < N - 1
  /\ content' = [content EXCEPT ![hwIdx] = fills + 1]
  /\ overwritten' =
       IF busy /\ content[hwIdx] > sessStart /\ content[hwIdx] \notin taken
         THEN overwritten \cup {content[hwIdx]} ELSE overwritten
  /\ fills' = fills + 1
  /\ hwIdx' = descReg
  /\ descReg' = DescNext(descReg)
  /\ dmaIntr' = TRUE
  /\ fifoResidue' = FALSE
  /\ UNCHANGED <<dmaActive, rxEnabled, drv, pcs, core>>
  /\ UNCHANGED <<unread, overflowEvt, lost, reported, taken>>


(***************************************************************************)
(* abort_dma(dev, channel): plx9080_abort_dma under dev->spinlock.  Only   *)
(* channel 0 carries the ring; aborting channel 1 leaves it running.       *)
(***************************************************************************)
AbortDma(channel) ==
  dmaActive' = IF channel = 0 THEN FALSE ELSE dmaActive

(* cfc_write_array_to_buffer: a run of zero bytes leaves the buffer as is; *)
(* a run that does not fit in the free space is not written at all and     *)
(* sets COMEDI_CB_OVERFLOW.                                                *)
WriteArrayToBuffer(seq, bytes) ==
  IF bytes > 0 /\ unread + bytes <= AsyncBytes
    THEN /\ sink' = Append(sink, [seq |-> seq, bytes |-> bytes])
         /\ unread' = unread + bytes
         /\ UNCHANGED <<overflowEvt, lost, reported, overwritten>>
  ELSE IF bytes > 0
    THEN /\ overflowEvt' = TRUE /\ lost' = lost \cup {seq}
         /\ UNCHANGED <<sink, unread, reported, overwritten>>
  ELSE UNCHANGED <<sink, unread, overflowEvt, lost, reported, overwritten>>

(***************************************************************************)
(* dio_config_insn: COMEDI_OUTPUT / COMEDI_INPUT set dio_config_output.    *)
(* INSN_CONFIG_BLOCK_SIZE only echoes the request and changes nothing.     *)
(***************************************************************************)
ConfigInsn ==
  /\ \E out \in BOOLEAN : dioOutput' = out
  /\ dioOutput' # dioOutput
  /\ UNCHANGED <<hw, dma_index, dio_count, pcs, core>>
  /\ UNCHANGED abuf

(* comedi_reset_async_buf before do_cmd: the buffer is empty, no event is  *)
(* pending; the loss history starts again with the command.                *)
AsyncReset ==
  /\ unread' = 0 /\ overflowEvt' = FALSE /\ lost' = {} /\ reported' = {}
  /\ overwritten' = {} /\ taken' = {}

(***************************************************************************)
(* A command on the read subdevice.  The comedi core resets the async     *)
(* buffer and marks the subdevice busy, then calls hpdi_cmd; the command   *)
(* is one di_cmd_test accepts.  hpdi_cmd refuses it while the channels     *)
(* are configured as outputs, and the core makes the subdevice idle again. *)
(***************************************************************************)
DoCmd ==
  /\ ctl = "Idle" /\ cmds < MaxCmds
  /\ ~dioOutput
  /\ \/ stopSrc' = "NONE" /\ stopArg' = 0
     \/ stopSrc' = "COUNT" /\ stopArg' \in StopArgs
  /\ busy' = TRUE /\ sink' = <<>> /\ sessStart' = fills /\ cmds' = cmds + 1
  /\ ctl' = "FifoReset"
  /\ AsyncReset
  /\ UNCHANGED <<hw, drv, ih, plxStatus, addr, j>>

CmdRejected ==
  /\ ctl = "Idle" /\ cmds < MaxCmds
  /\ dioOutput
  /\ cmds' = cmds + 1
  /\ UNCHANGED <<hw, drv, pcs, busy, stopSrc, stopArg, sink, sessStart>>
  /\ UNCHANGED abuf

(* di_cmd: BOARD_CONTROL_REG = RX_FIFO_RESET_BIT (RX disabled, FIFO empty). *)
FifoReset ==
  /\ ctl = "FifoReset"
  /\ rxEnabled' = FALSE /\ fifoResidue' = FALSE
  /\ ctl' = "ResetIndex"
  /\ UNCHANGED <<dmaActive, hwIdx, descReg, content, fills, dmaIntr, drv,
                 ih, plxStatus, addr, j, core>>
  /\ UNCHANGED abuf

(* di_cmd: dma_index = 0, written without the spinlock. *)
ResetIndex ==
  /\ ctl = "ResetIndex"
  /\ dma_index' = 0
  /\ ctl' = "AbortCh1"
  /\ UNCHANGED <<hw, dio_count, dioOutput, ih, plxStatus, addr, j, core>>
  /\ UNCHANGED abuf

(* di_cmd: abort_dma(dev, 1); waits for the spinlock. *)
AbortCh1 ==
  /\ ctl = "AbortCh1" /\ ~HandlerHoldsLock
  /\ AbortDma(1)
  /\ ctl' = "WriteDesc"
  /\ UNCHANGED <<hwIdx, descReg, content, fills, rxEnabled, fifoResidue,
                 dmaIntr, drv, ih, plxStatus, addr, j, core>>
  /\ UNCHANGED abuf

(* di_cmd: PLX_DMA0_DESCRIPTOR_REG = address of descriptor 0.  Rewriting   *)
(* the pointer of a channel that is still running is not defined by the    *)
(* driver: the channel either follows it or keeps its own next descriptor. *)
WriteDesc ==
  /\ ctl = "WriteDesc"
  /\ descReg' \in IF dmaActive THEN {0, descReg} ELSE {0}
  /\ ctl' = "StartDma"
  /\ UNCHANGED <<dmaActive, hwIdx, content, fills, rxEnabled, fifoResidue,
                 dmaIntr, drv, ih, plxStatus, addr, j, core>>
  /\ UNCHANGED abuf

(* di_cmd: under the spinlock, PLX_DMA0_CS_REG = EN | START | CLEAR_INTR.  *)
(* An idle channel loads the descriptor register; a running one goes on.   *)
StartDma ==
  /\ ctl = "StartDma" /\ ~HandlerHoldsLock
  /\ dmaActive' = TRUE
  /\ IF dmaActive THEN UNCHANGED <<hwIdx, descReg>>
                  ELSE hwIdx' = descReg /\ descReg' = DescNext(descReg)
  /\ dmaIntr' = FALSE
  /\ ctl' = "RxEnable"
  /\ UNCHANGED <<content, fills, rxEnabled, fifoResidue, drv,
                 ih, plxStatus, addr, j, core>>
  /\ UNCHANGED abuf

(* di_cmd: BOARD_CONTROL_REG = RX_ENABLE_BIT; hpdi_cmd returns 0. *)
RxEnable ==
  /\ ctl = "RxEnable"
  /\ rxEnabled' = TRUE
  /\ ctl' = "Running"
  /\ UNCHANGED <<dmaActive, hwIdx, descReg, content, fills, fifoResidue,
                 dmaIntr, drv, ih, plxStatus, addr, j, core>>
  /\ UNCHANGED abuf

(* hpdi_cancel: BOARD_CONTROL_REG = 0.  RX stops; words already in the     *)
(* FIFO may still be moved by the channel.                                 *)
CancelBoard ==
  /\ ctl = "Running"
  /\ rxEnabled' = FALSE /\ fifoResidue' \in BOOLEAN
  /\ ctl' = "CancelAbort"
  /\ UNCHANGED <<dmaActive, hwIdx, descReg, content, fills, dmaIntr, drv,
                 ih, plxStatus, addr, j, core>>
  /\ UNCHANGED abuf

(* hpdi_cancel: abort_dma(dev, 1); the core then marks the subdevice idle. *)
CancelAbort ==
  /\ ctl = "CancelAbort" /\ ~HandlerHoldsLock
  /\ AbortDma(1)
  /\ busy' = FALSE
  /\ ctl' = "Idle"
  /\ UNCHANGED <<hwIdx, descReg, content, fills, rxEnabled, fifoResidue,
                 dmaIntr, drv, ih, plxStatus, addr, j,
                 stopSrc, stopArg, sink, sessStart, cmds>>
  /\ UNCHANGED abuf

(***************************************************************************)
(* handle_interrupt.  The line is shared (SA_SHIRQ): the handler may run   *)
(* with no PLX interrupt pending.  plx_status is read before the lock.     *)
(***************************************************************************)
IntrEnter ==
  /\ ih = "Idle"
  /\ plxStatus' = dmaIntr
  /\ ih' = "Locked"
  /\ overflowEvt' = FALSE
  /\ UNCHANGED <<hw, drv, ctl, addr, j, core, unread, lost, reported, overwritten, taken>>

(* Under the spinlock: on ICS_DMA0_A write back EN with CLEAR_DMA_INTR and, *)
(* if the channel is enabled, call drain_dma_buffers with the lock held.    *)
(* Otherwise the lock is dropped; the channel-1 section and the doorbell   *)
(* change nothing modelled, and the handler goes on to cfc_handle_events.   *)
IntrDma0 ==
  /\ ih = "Locked"
  /\ dmaIntr' = (dmaIntr /\ ~plxStatus)
  /\ ih' = IF plxStatus /\ dmaActive THEN "DrainStart" ELSE "Events"
  /\ UNCHANGED <<dmaActive, hwIdx, descReg, content, fills, rxEnabled,
                 fifoResidue, drv, ctl, plxStatus, addr, j, core>>
  /\ UNCHANGED abuf

(* drain_dma_buffers: the for-initialiser reads the PCI address register    *)
(* once.  The board may have completed more buffers since the clear.        *)
DrainStart ==
  /\ ih = "DrainStart"
  /\ addr' = hwIdx /\ j' = 0
  /\ ih' = "Drain"
  /\ UNCHANGED <<hw, drv, ctl, plxStatus, core>>
  /\ UNCHANGED abuf

DrainContinues ==
  addr # dma_index /\ j < N

(* Samples copied from one buffer: a whole buffer, or with TRIG_COUNT at   *)
(* most dio_count.                                                          *)
NumSamples ==
  IF stopSrc = "COUNT"
    THEN IF BufSamples > dio_count THEN dio_count ELSE BufSamples
    ELSE BufSamples

(* Mutation: the cursor is advanced without the wrap to 0. *)
DrainIterNoWrap ==
  /\ ih = "Drain" /\ DrainContinues
  /\ dio_count' = IF stopSrc = "COUNT" THEN dio_count - NumSamples
                                       ELSE dio_count
  /\ WriteArrayToBuffer(content[dma_index], NumSamples * SizeofSampl)
  /\ taken' = taken \cup {content[dma_index]}
  /\ dma_index' = dma_index + 1
  /\ j' = j + 1
  /\ UNCHANGED <<hw, dioOutput, ctl, ih, plxStatus, addr,
                 busy, stopSrc, stopArg, sessStart, cmds>>

(* Mutation: the buffer is copied but the cursor is not advanced. *)
DrainIterNoAdvance ==
  /\ ih = "Drain" /\ DrainContinues
  /\ dio_count' = IF stopSrc = "COUNT" THEN dio_count - NumSamples
                                       ELSE dio_count
  /\ WriteArrayToBuffer(content[dma_index], NumSamples * SizeofSampl)
  /\ taken' = taken \cup {content[dma_index]}
  /\ UNCHANGED dma_index
  /\ j' = j + 1
  /\ UNCHANGED <<hw, dioOutput, ctl, ih, plxStatus, addr,
                 busy, stopSrc, stopArg, sessStart, cmds>>

(* One iteration: copy num_samples * sizeof(sampl_t) bytes of              *)
(* dio_buffer[dma_index] to the async buffer and advance the cursor.        *)
DrainIter ==
  /\ ih = "Drain" /\ DrainContinues
  /\ dio_count' = IF stopSrc = "COUNT" THEN dio_count - NumSamples
                                       ELSE dio_count
  /\ WriteArrayToBuffer(content[dma_index], NumSamples * SizeofSampl)
  /\ taken' = taken \cup {content[dma_index]}
  /\ dma_index' = (dma_index + 1) % N
  /\ j' = j + 1
  /\ UNCHANGED <<hw, dioOutput, ctl, ih, plxStatus, addr,
                 busy, stopSrc, stopArg, sessStart, cmds>>

(* The loop ends; no overrun check; the handler releases the spinlock. *)
DrainDone ==
  /\ ih = "Drain" /\ ~DrainContinues
  /\ ih' = "Events"
  /\ UNCHANGED <<hw, drv, ctl, plxStatus, addr, j, core>>
  /\ UNCHANGED abuf

(* Mutation: async->events is cleared after the DMA section instead of on  *)
(* entry, as if the reset were moved below the drain.                      *)
HandleEventsAfterClear ==
  /\ ih = "Events"
  /\ ih' = "Idle"
  /\ overflowEvt' = FALSE
  /\ UNCHANGED <<hw, drv, ctl, plxStatus, addr, j, core, unread, lost, reported, overwritten, taken>>

(* cfc_handle_events at the end of handle_interrupt, outside the lock.  On *)
(* COMEDI_CB_OVERFLOW it calls s->cancel, hpdi_cancel, from the handler:   *)
(* BOARD_CONTROL_REG = 0 (RX stops, the FIFO may still hold a buffer's     *)
(* worth) and abort_dma(dev, 1), which leaves channel 0 alone; comedi_event *)
(* then passes the overflow to the core.                                   *)
HandleEvents ==
  /\ ih = "Events"
  /\ ih' = "Idle"
  /\ IF overflowEvt
       THEN /\ rxEnabled' = FALSE
            /\ fifoResidue' \in IF rxEnabled THEN BOOLEAN ELSE {fifoResidue}
            /\ reported' = reported \cup lost \cup overwritten
       ELSE UNCHANGED <<rxEnabled, fifoResidue, reported>>
  /\ UNCHANGED <<dmaActive, hwIdx, descReg, content, fills, dmaIntr, drv,
                 ctl, plxStatus, addr, j, core, unread, overflowEvt, lost,
                 overwritten, taken>>

(* A read() of the subdevice: the user takes everything in the buffer. *)
Read ==
  /\ unread > 0
  /\ unread' = 0
  /\ UNCHANGED <<hw, drv, pcs, core, overflowEvt, lost, reported, overwritten, taken>>

Next ==
  \/ HwComplete
  \/ ConfigInsn \/ DoCmd \/ CmdRejected
  \/ FifoReset \/ ResetIndex \/ AbortCh1 \/ WriteDesc \/ StartDma \/ RxEnable
  \/ CancelBoard \/ CancelAbort
  \/ IntrEnter \/ IntrDma0 \/ DrainStart \/ DrainIter \/ DrainDone \/ HandleEvents
  \/ Read

(***************************************************************************)
(* Fairness.  The PCI interrupt is level triggered: while ICS_DMA0_A is     *)
(* pending the handler is eventually entered.  Handler and control path    *)
(* are kernel code that runs to its end once started (spinning on the lock *)
(* at most while the other side holds it).  Starting or cancelling a       *)
(* command, configuring the channels and reading the buffer are user       *)
(* requests: not fair.                                                      *)
(***************************************************************************)
Fairness ==
  /\ WF_vars(dmaIntr /\ IntrEnter)
  /\ WF_vars(IntrDma0) /\ WF_vars(DrainStart) /\ WF_vars(DrainIter) /\ WF_vars(DrainDone)
  /\ WF_vars(HandleEvents)
  /\ WF_vars(FifoReset) /\ WF_vars(ResetIndex) /\ WF_vars(AbortCh1)
  /\ WF_vars(WriteDesc) /\ WF_vars(StartDma) /\ WF_vars(RxEnable)
  /\ WF_vars(CancelAbort)

Spec == Init /\ [][Next]_vars /\ Fairness



(***************************************************************************)
(* Properties                                                              *)
(***************************************************************************)

(* The async buffer of a command holds exactly the buffers the board       *)
(* completed since the command began, each once and in completion order,   *)
(* save those cfc_write_array_to_buffer refused for lack of room:          *)
(* drain_dma_buffers, however many completions one interrupt covers and    *)
(* however it interleaves with di_cmd, hpdi_cancel and the reader, neither *)
(* skips a buffer it could write, repeats, reorders nor copies a buffer    *)
(* that is not complete.                                                    *)
DeliveredInOrder ==
  \A i \in 1 .. Len(sink) :
    sink[i].seq = sessStart + i + Cardinality({f \in lost : f < sink[i].seq})

(* Every buffer lost to a full async buffer is reported: once the         *)
(* interrupt that dropped it has finished, cfc_handle_events has seen       *)
(* COMEDI_CB_OVERFLOW and comedi_event has passed it on, for the second and *)
(* later losses of a command as for the first.  It fails if the events word *)
(* is cleared anywhere between cfc_write_array_to_buffer and                *)
(* cfc_handle_events in handle_interrupt.                                  *)
LossIsReported == ih = "Idle" => lost \subseteq reported

CancelStopsAppends ==
  [][~busy /\ ~busy' => Len(sink') <= Len(sink)]_vars

(* A buffer of the running command that the board writes over before      *)
(* drain_dma_buffers consumed it is eventually reported to the user as an  *)
(* overflow.  drain_dma_buffers compares the address register with         *)
(* dma_index only for equality, so a board that laps the cursor goes       *)
(* unnoticed unless the async buffer happens to overflow as well.          *)
OverrunIsReported ==
  \A f \in 1 .. MaxFills : f \in overwritten ~> f \in reported

=============================================================================
