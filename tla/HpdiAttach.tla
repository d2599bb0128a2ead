----------------------------- MODULE HpdiAttach -----------------------------
(***************************************************************************)
(* Board lifecycle of the gsc_hpdi driver (gsc_hpdi.c): hpdi_attach,       *)
(* hpdi_detach, and the interrupt handler as far as it can run while the   *)
(* device is being set up.                                                 *)
(*                                                                         *)
(* hpdi_attach runs in order: alloc_private, the board search over         *)
(* hpdi_boards[] with pci_find_subsys, pci_enable_device,                  *)
(* pci_request_regions, two ioremaps, comedi_request_irq (SA_SHIRQ),       *)
(* init_plx9080, the DMA buffer and descriptor allocations,                *)
(* setup_subdevices and init_hpdi.  Every call that can fail is a          *)
(* nondeterministic outcome; an error return leaves what was acquired so   *)
(* far, and the comedi core then calls hpdi_detach, which releases what    *)
(* the private fields say was acquired.  A NULL dereference is a kernel    *)
(* oops: the machine stops until it is rebooted.                           *)
(*                                                                         *)
(* From comedi_request_irq on, handle_interrupt may run at any time: the   *)
(* line is shared, and init_hpdi enables the PLX interrupt sources.  The   *)
(* handler dereferences dev->read_subdev->async, which the comedi core     *)
(* allocates only after hpdi_attach has returned (postconfig).             *)
(***************************************************************************)
EXTENDS Naturals, Sequences, SequencesExt

CONSTANTS
  Builds,     \* possible hpdi_boards[] tables: sequences of board kinds
  PciBuses,   \* possible PCI device lists, in pci_find_subsys order:
              \* sequences of [id (board kind or another PLX device), bus, slot]
  Options,    \* <<options[0], options[1]>> pairs comedi_config may pass
  RingCount   \* DMA_RING_COUNT

NoOops == "none"
Res == {"enabled", "regions", "plxmap", "hpdimap", "irq", "desc"}
Ring == 1 .. RingCount
PcSet == {"detached", "enable", "regions", "irq", "plx", "alloc", "subdevs",
          "postconfig", "attached", "failed"}

VARIABLES
  boards,      \* hpdi_boards[] of this build
  pci,         \* the devices on the bus
  options,     \* it->options[0..1] of the current attach
  pc,          \* next step of hpdi_attach, or where it returned
  errAt,       \* which check hpdi_attach returned an error from
  oops,        \* "none", or the NULL dereference that stopped the kernel
  \* dev and hpdi_private fields
  priv,        \* dev->private allocated
  board_ptr,   \* dev->board_ptr: index into hpdi_boards, 0 for NULL
  pcidev,      \* local pcidev: index into pci, 0 for NULL
  hw_dev,      \* priv->hw_dev: index into pci, 0 for NULL
  phys_iobase, \* plx9080_phys_iobase || hpdi_phys_iobase nonzero
  plx9080_iobase, hpdi_iobase,  \* ioremap results nonzero
  dev_irq,     \* dev->irq nonzero
  dio_buffer,  \* indices of non-NULL dio_buffer[i]
  dma_desc,    \* priv->dma_desc non-NULL
  read_subdev, \* dev->read_subdev set by setup_subdevices
  async,       \* read_subdev->async allocated by the comedi core
  \* the kernel's view
  held,        \* resources of Res the driver holds
  heldBufs     \* DMA buffers the driver holds

fields == <<priv, board_ptr, pcidev, hw_dev, phys_iobase, plx9080_iobase,
            hpdi_iobase, dev_irq, dio_buffer, dma_desc, read_subdev, async>>
vars == <<boards, pci, options, pc, errAt, oops, fields, held, heldBufs>>

TypeOK ==
  /\ boards \in Builds /\ pci \in PciBuses /\ options \in Options
  /\ pc \in PcSet /\ oops \in {NoOops, "pcidev", "plx", "desc", "hpdi", "handler"}
  /\ errAt \in {"none", "alloc", "search", "enable", "regions", "irq", "subdevs"}
  /\ priv \in BOOLEAN /\ board_ptr \in 0 .. Len(boards)
  /\ pcidev \in 0 .. Len(pci) /\ hw_dev \in 0 .. Len(pci)
  /\ phys_iobase \in BOOLEAN /\ plx9080_iobase \in BOOLEAN
  /\ hpdi_iobase \in BOOLEAN /\ dev_irq \in BOOLEAN
  /\ dio_buffer \subseteq Ring /\ dma_desc \in BOOLEAN
  /\ read_subdev \in BOOLEAN /\ async \in BOOLEAN
  /\ held \subseteq Res /\ heldBufs \subseteq Ring

(* A freshly zeroed comedi_device: nothing allocated, nothing held. *)
Cleared ==
  /\ pc = "detached" /\ errAt = "none" /\ oops = NoOops
  /\ priv = FALSE /\ board_ptr = 0 /\ pcidev = 0 /\ hw_dev = 0
  /\ phys_iobase = FALSE /\ plx9080_iobase = FALSE /\ hpdi_iobase = FALSE
  /\ dev_irq = FALSE /\ dio_buffer = {} /\ dma_desc = FALSE
  /\ read_subdev = FALSE /\ async = FALSE
  /\ held = {} /\ heldBufs = {}

Init ==
  /\ boards \in Builds /\ pci \in PciBuses /\ options \in Options
  /\ Cleared

(***************************************************************************)
(* The board search.                                                       *)
(***************************************************************************)

(* pci_find_subsys(PLX, device, PLX, subdevice, from): the first device    *)
(* after from (from NULL: the first) with the ids of board kind k.         *)
RECURSIVE FindSubsys(_, _, _)
FindSubsys(devs, k, from) ==
  IF from >= Len(devs) THEN 0
  ELSE IF devs[from + 1].id = k THEN from + 1
  ELSE FindSubsys(devs, k, from + 1)

(* it->options[0] || it->options[1]: a bus/slot was requested. *)
SlotRequested(opts) == opts[1] # 0 \/ opts[2] # 0

OnRequestedSlot(dev, opts) == dev.bus = opts[1] /\ dev.slot = opts[2]

(* A scan that dereferenced a NULL pcidev. *)
Oopsed == [ok |-> FALSE, pcidev |-> 0, board |-> 0]

(* Mutation: the bus/slot test is dropped; the first device of the kind is *)
(* taken wherever it sits.                                                 *)
RECURSIVE ScanBoardAnySlot(_, _, _, _, _)
ScanBoardAnySlot(bds, devs, opts, i, p) ==
  LET q == FindSubsys(devs, bds[i], p) IN
  IF SlotRequested(opts) /\ q = 0 THEN Oopsed
  ELSE IF q # 0 THEN [ok |-> TRUE, pcidev |-> q, board |-> i]
  ELSE [ok |-> TRUE, pcidev |-> 0, board |-> 0]

(* Mutation: board_ptr is set one entry past the matching board. *)
RECURSIVE ScanBoardNextEntry(_, _, _, _, _)
ScanBoardNextEntry(bds, devs, opts, i, p) ==
  LET q == FindSubsys(devs, bds[i], p) IN
  IF SlotRequested(opts) /\ q = 0 THEN Oopsed
  ELSE IF SlotRequested(opts) /\ ~OnRequestedSlot(devs[q], opts)
    THEN ScanBoardNextEntry(bds, devs, opts, i, q)
  ELSE IF q # 0 THEN [ok |-> TRUE, pcidev |-> q, board |-> i + 1]
  ELSE [ok |-> TRUE, pcidev |-> 0, board |-> 0]

(* The do-while loop for board i, entered with pcidev p: the next device   *)
(* of kind boards[i]; a device on another bus/slot is skipped (continue    *)
(* jumps to the loop test, which is true), and pcidev->bus is read before  *)
(* pcidev is tested, so a requested slot with no device left is an oops.   *)
RECURSIVE ScanBoard(_, _, _, _, _)
ScanBoard(bds, devs, opts, i, p) ==
  LET q == FindSubsys(devs, bds[i], p) IN
  IF SlotRequested(opts) /\ q = 0 THEN Oopsed
  ELSE IF SlotRequested(opts) /\ ~OnRequestedSlot(devs[q], opts)
    THEN ScanBoard(bds, devs, opts, i, q)
  ELSE IF q # 0 THEN [ok |-> TRUE, pcidev |-> q, board |-> i]
  ELSE [ok |-> TRUE, pcidev |-> 0, board |-> 0]

(* The for loop: i runs while i < num_boards() and board_ptr is NULL; the  *)
(* break after a match leaves the do-while, and the for still increments  *)
(* i.  Boards are numbered from 1 here, so the loop test is i <= Len.      *)
RECURSIVE BoardLoop(_, _, _, _, _, _)
BoardLoop(bds, devs, opts, i, p, b) ==
  IF i <= Len(bds) /\ b = 0
    THEN LET r == ScanBoard(bds, devs, opts, i, p) IN
         IF ~r.ok THEN [ok |-> FALSE, i |-> i, pcidev |-> 0, board |-> 0]
         ELSE BoardLoop(bds, devs, opts, i + 1, r.pcidev, r.board)
    ELSE [ok |-> TRUE, i |-> i, pcidev |-> p, board |-> b]

(* Result of the search: "oops", "EIO" when i == num_boards() after the    *)
(* loop, otherwise "found" with the board and device.                      *)
Search(bds, devs, opts) ==
  LET r == BoardLoop(bds, devs, opts, 1, 0, 0) IN
  [ret    |-> CASE ~r.ok -> "oops"
                [] r.i = Len(bds) + 1 -> "EIO"
                [] OTHER -> "found",
   pcidev |-> r.pcidev, board |-> r.board]

(***************************************************************************)
(* hpdi_attach, one action per stretch between two calls that can fail.   *)
(***************************************************************************)

(* An error return: the comedi core will call hpdi_detach. *)
Fail(site) == pc' = "failed" /\ errAt' = site

(* comedi_config: alloc_private, then the board search.  A board found on  *)
(* the last entry of hpdi_boards[] also ends the loop with i ==            *)
(* num_boards(), and hpdi_attach returns -EIO.                             *)
Probe(opts, allocOk) ==
  /\ pc = "detached" /\ oops = NoOops
  /\ options' = opts
  /\ IF ~allocOk
       THEN Fail("alloc") /\ UNCHANGED <<oops, fields>>
       ELSE LET r == Search(boards, pci, opts) IN
            /\ priv' = TRUE /\ board_ptr' = r.board /\ pcidev' = r.pcidev
            /\ CASE r.ret = "oops"  -> oops' = "pcidev" /\ UNCHANGED <<pc, errAt>>
                 [] r.ret = "EIO"   -> Fail("search") /\ UNCHANGED oops
                 [] r.ret = "found" -> pc' = "enable" /\ UNCHANGED <<errAt, oops>>
            /\ UNCHANGED <<hw_dev, phys_iobase, plx9080_iobase, hpdi_iobase,
                           dev_irq, dio_buffer, dma_desc, read_subdev, async>>
  /\ UNCHANGED <<boards, pci, held, heldBufs>>

(* pci_enable_device; on success pci_set_master and hw_dev = pcidev. *)
EnableDevice(ok) ==
  /\ pc = "enable"
  /\ IF ok THEN /\ pc' = "regions" /\ hw_dev' = pcidev
                /\ held' = held \cup {"enabled"}
                /\ UNCHANGED errAt
           ELSE Fail("enable") /\ UNCHANGED <<hw_dev, held>>
  /\ UNCHANGED <<boards, pci, options, oops, priv, board_ptr, pcidev,
                 phys_iobase, plx9080_iobase, hpdi_iobase, dev_irq,
                 dio_buffer, dma_desc, read_subdev, async, heldBufs>>

(* pci_request_regions; on success the BAR starts are stored and both BARs *)
(* are ioremapped, the results unchecked (0 when a mapping fails).        *)
RequestRegions(ok, plxOk, hpdiOk) ==
  /\ pc = "regions"
  /\ IF ok THEN /\ pc' = "irq" /\ phys_iobase' = TRUE
                /\ plx9080_iobase' = plxOk /\ hpdi_iobase' = hpdiOk
                /\ held' = held \cup {"regions"}
                                 \cup (IF plxOk THEN {"plxmap"} ELSE {})
                                 \cup (IF hpdiOk THEN {"hpdimap"} ELSE {})
                /\ UNCHANGED errAt
           ELSE /\ Fail("regions")
                /\ UNCHANGED <<phys_iobase, plx9080_iobase, hpdi_iobase, held>>
  /\ UNCHANGED <<boards, pci, options, oops, priv, board_ptr, pcidev, hw_dev,
                 dev_irq, dio_buffer, dma_desc, read_subdev, async, heldBufs>>

(* comedi_request_irq(pcidev->irq, handle_interrupt, SA_SHIRQ); -EINVAL   *)
(* when it fails, else dev->irq is set.                                    *)
RequestIrq(ok) ==
  /\ pc = "irq"
  /\ IF ok THEN /\ pc' = "plx" /\ dev_irq' = TRUE
                /\ held' = held \cup {"irq"}
                /\ UNCHANGED errAt
           ELSE Fail("irq") /\ UNCHANGED <<dev_irq, held>>
  /\ UNCHANGED <<boards, pci, options, oops, priv, board_ptr, pcidev, hw_dev,
                 phys_iobase, plx9080_iobase, hpdi_iobase, dio_buffer,
                 dma_desc, read_subdev, async, heldBufs>>

(* init_plx9080: register accesses through plx9080_iobase; a failed        *)
(* ioremap left it 0.                                                      *)
InitPlx9080 ==
  /\ pc = "plx" /\ oops = NoOops
  /\ IF plx9080_iobase THEN pc' = "alloc" /\ UNCHANGED oops
                       ELSE oops' = "plx" /\ UNCHANGED pc
  /\ UNCHANGED <<boards, pci, options, errAt, fields, held, heldBufs>>

(* pci_alloc_consistent for each buffer and for the descriptor array, none *)
(* checked; the descriptor loop then writes through dma_desc.              *)
AllocDma(bufs, descOk) ==
  /\ pc = "alloc" /\ oops = NoOops
  /\ dio_buffer' = bufs /\ heldBufs' = bufs
  /\ dma_desc' = descOk
  /\ held' = IF descOk THEN held \cup {"desc"} ELSE held
  /\ IF descOk THEN pc' = "subdevs" /\ UNCHANGED oops
               ELSE oops' = "desc" /\ UNCHANGED pc
  /\ UNCHANGED <<boards, pci, options, errAt, priv, board_ptr, pcidev, hw_dev,
                 phys_iobase, plx9080_iobase, hpdi_iobase, dev_irq,
                 read_subdev, async>>

(* setup_subdevices (alloc_subdevices may fail: -ENOMEM), then init_hpdi,  *)
(* which writes BOARD_CONTROL_REG through hpdi_iobase and enables the PLX  *)
(* interrupt sources.                                                      *)
SetupSubdevices(ok) ==
  /\ pc = "subdevs" /\ oops = NoOops
  /\ IF ~ok THEN Fail("subdevs") /\ UNCHANGED <<read_subdev, oops>>
     ELSE /\ read_subdev' = TRUE
          /\ IF hpdi_iobase THEN pc' = "postconfig" /\ UNCHANGED <<errAt, oops>>
                            ELSE oops' = "hpdi" /\ UNCHANGED <<pc, errAt>>
  /\ UNCHANGED <<boards, pci, options, priv, board_ptr, pcidev, hw_dev,
                 phys_iobase, plx9080_iobase, hpdi_iobase, dev_irq,
                 dio_buffer, dma_desc, async, held, heldBufs>>

(* The comedi core after hpdi_attach returned 0: postconfig allocates the  *)
(* async buffer of the read subdevice; the device is attached.             *)
Postconfig ==
  /\ pc = "postconfig" /\ oops = NoOops
  /\ async' = TRUE /\ pc' = "attached"
  /\ UNCHANGED <<boards, pci, options, errAt, oops, priv, board_ptr, pcidev,
                 hw_dev, phys_iobase, plx9080_iobase, hpdi_iobase, dev_irq,
                 dio_buffer, dma_desc, read_subdev, held, heldBufs>>

(***************************************************************************)
(* handle_interrupt, entered on the shared line while the handler is       *)
(* registered: it loads dev->read_subdev->async, reads the PLX and HPDI    *)
(* status registers and clears async->events before it looks at any        *)
(* status.  With all of them in place it changes nothing this module       *)
(* models (the DMA drain is HpdiDma's).                                    *)
(***************************************************************************)
HandlerSafe == read_subdev /\ async /\ plx9080_iobase /\ hpdi_iobase

Interrupt ==
  /\ "irq" \in held /\ oops = NoOops
  /\ ~HandlerSafe
  /\ oops' = "handler"
  /\ UNCHANGED <<boards, pci, options, pc, errAt, fields, held, heldBufs>>

(***************************************************************************)
(* hpdi_detach, after a failed attach or on comedi_config -r: what it      *)
(* releases is decided by the private fields alone.                        *)
(***************************************************************************)
(* Mutation: pci_release_regions is called whenever hw_dev is set. *)
DetachReleasesNoPhysTest ==
  (IF dev_irq THEN {"irq"} ELSE {})
  \cup (IF priv /\ hw_dev # 0
         THEN {"enabled", "regions"}
              \cup (IF plx9080_iobase THEN {"plxmap"} ELSE {})
              \cup (IF hpdi_iobase THEN {"hpdimap"} ELSE {})
              \cup (IF dma_desc THEN {"desc"} ELSE {})
         ELSE {})

DetachReleases ==
  (IF dev_irq THEN {"irq"} ELSE {})
  \cup (IF priv /\ hw_dev # 0
         THEN {"enabled"}
              \cup (IF plx9080_iobase THEN {"plxmap"} ELSE {})
              \cup (IF hpdi_iobase THEN {"hpdimap"} ELSE {})
              \cup (IF phys_iobase THEN {"regions"} ELSE {})
              \cup (IF dma_desc THEN {"desc"} ELSE {})
         ELSE {})

DetachFreesBufs == IF priv /\ hw_dev # 0 THEN dio_buffer ELSE {}

(* The comedi core clears the device after detach: no private data, no     *)
(* board, no irq, no subdevices.                                           *)
ClearDevice ==
  /\ pc' = "detached" /\ errAt' = "none"
  /\ priv' = FALSE /\ board_ptr' = 0 /\ pcidev' = 0 /\ hw_dev' = 0
  /\ phys_iobase' = FALSE /\ plx9080_iobase' = FALSE /\ hpdi_iobase' = FALSE
  /\ dev_irq' = FALSE /\ dio_buffer' = {} /\ dma_desc' = FALSE
  /\ read_subdev' = FALSE /\ async' = FALSE

(* hpdi_detach, then the comedi core frees the subdevices and the private *)
(* data and clears the device (board_ptr, irq, read_subdev).               *)
Detach ==
  /\ pc \in {"attached", "failed"} /\ oops = NoOops
  /\ held' = held \ DetachReleases
  /\ heldBufs' = heldBufs \ DetachFreesBufs
  /\ ClearDevice
  /\ UNCHANGED <<boards, pci, options, oops>>

(* After an oops the machine is rebooted: the same build and bus, nothing *)
(* held.                                                                   *)
Reboot ==
  /\ oops # NoOops
  /\ ClearDevice /\ oops' = NoOops /\ held' = {} /\ heldBufs' = {}
  /\ UNCHANGED <<boards, pci, options>>

Next ==
  \/ \E opts \in Options, ok \in BOOLEAN : Probe(opts, ok)
  \/ \E ok \in BOOLEAN : EnableDevice(ok)
  \/ \E ok, plxOk, hpdiOk \in BOOLEAN : RequestRegions(ok, plxOk, hpdiOk)
  \/ \E ok \in BOOLEAN : RequestIrq(ok)
  \/ InitPlx9080
  \/ \E bufs \in SUBSET Ring, descOk \in BOOLEAN : AllocDma(bufs, descOk)
  \/ \E ok \in BOOLEAN : SetupSubdevices(ok)
  \/ Postconfig
  \/ Interrupt
  \/ Detach
  \/ Reboot

Spec == Init /\ [][Next]_vars

(***************************************************************************)
(* Properties                                                              *)
(***************************************************************************)

(* Devices a correct search may take: a board kind listed in hpdi_boards[] *)
(* and, when a bus/slot was requested, on that bus/slot.                   *)
Eligible(k) ==
  /\ pci[k].id \in Range(boards)
  /\ SlotRequested(options) => OnRequestedSlot(pci[k], options)

(* Whatever step of hpdi_attach failed, hpdi_detach releases exactly what   *)
(* the driver holds: every region, mapping, irq, DMA buffer and descriptor  *)
(* acquired before the error, and nothing that was not acquired (the       *)
(* private fields it tests are set exactly when each call succeeded).      *)
DetachMatchesHeld ==
  pc \in {"attached", "failed"} /\ oops = NoOops =>
    /\ DetachReleases = held
    /\ DetachFreesBufs = heldBufs

(* An attached device is an eligible one: the board search, with its       *)
(* skip over devices on another bus/slot, only hands pci_enable_device a   *)
(* device of a listed kind on the requested bus/slot, and board_ptr names  *)
(* that device's kind.                                                     *)
AttachedBoardMatches ==
  pc = "attached" =>
    /\ Eligible(hw_dev)
    /\ boards[board_ptr] = pci[hw_dev].id

(* hpdi_attach reports "no hpdi card found" only when no eligible device   *)
(* is on the bus.                                                          *)
AttachFindsBoard ==
  errAt = "search" => \A k \in DOMAIN pci : ~Eligible(k)

(* handle_interrupt never runs before the device it dereferences is set up *)
(* (read_subdev, its async buffer, both register mappings).                *)
InterruptFindsDevice == oops # "handler"

====
