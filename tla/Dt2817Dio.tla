----------------------------- MODULE Dt2817Dio -----------------------------
(***************************************************************************)
(* The Data Translation DT2817 32-channel digital I/O board (dt2817.c).   *)
(*                                                                         *)
(* The 32 channels form four byte-wide banks; a bank is all input or all  *)
(* output. The driver keeps s->io_bits (direction) and s->state (the      *)
(* output image); the board has an output-enable register (DT2817_CR) and *)
(* one output latch per bank (DT2817_DATA + b). Every mask the driver      *)
(* applies is byte aligned, so the banks are independent: the model keeps *)
(* per bank its direction, its byte of s->state and its latch, and a bank  *)
(* byte is narrowed to BankBits bits.                                      *)
(***************************************************************************)
EXTENDS Naturals, FiniteSets, Bitwise

CONSTANTS
    BankBits,          \* bits kept of each bank's byte
    ChanArgs           \* channels passed to insn_config

Banks == 0..3
ByteVals == 0..(2^BankBits - 1)
ASSUME BankBits \in 1..8 /\ ChanArgs \subseteq 0..31

VARIABLES
    io_bits,           \* io_bits[b]: bank b is an output (mask 0xff << 8b)
    state,             \* state[b]: byte b of s->state
    oe,                \* the value last written to DT2817_CR
    latch              \* latch[b]: the value last written to DT2817_DATA + b
vars == <<io_bits, state, oe, latch>>

\* Bank of a channel (dt2817_dio_insn_config, lines 67-75).
BankOf(chan) == IF chan < 8 THEN 0 ELSE IF chan < 16 THEN 1
                ELSE IF chan < 24 THEN 2 ELSE 3

\* The output-enable byte (lines 91-98): bit b set when any bit of bank b is
\* an output.
OeOf(io) == [b \in Banks |-> IF io[b] THEN 1 ELSE 0]

\* dt2817_attach: s->state = 0 and DT2817_CR = 0. The latches are never
\* written at attach and hold whatever the board powered up with.
Init ==
    /\ io_bits = [b \in Banks |-> FALSE]
    /\ state = [b \in Banks |-> 0]
    /\ oe = [b \in Banks |-> 0]
    /\ latch \in [Banks -> ByteVals]

\* dt2817_dio_insn_config with INSN_CONFIG_DIO_INPUT or _OUTPUT: change the
\* bank's direction and rewrite DT2817_CR from all of io_bits. QUERY and
\* unknown commands change nothing.
ConfigDirection(chan, output) ==
    LET io == [io_bits EXCEPT ![BankOf(chan)] = output] IN
    /\ io_bits' = io
    /\ oe' = OeOf(io)
    /\ UNCHANGED <<state, latch>>

\* The new byte of s->state: bits in the mask data[0] take data[1]
\* (lines 117-118).
Full == 2^BankBits - 1
Merge(old, mask, bits) == (old & (Full - mask)) | (mask & bits)

\* Mutant: the latch of a changed output bank gets the old byte (the outb
\* placed before the update of s->state).
BitsWriteOld(mask, bits) ==
    LET new == [b \in Banks |-> Merge(state[b], mask[b], bits[b])]
        changed(b) == io_bits[b] /\ new[b] # state[b]
    IN  /\ state' = new
        /\ latch' = [b \in Banks |-> IF changed(b) THEN state[b] ELSE latch[b]]

\* dt2817_dio_insn_bits (lines 106-140) with data[0] = mask, data[1] = bits:
\* update s->state, then write the latch of each bank that is an output
\* and whose byte changed. The read-back of data[1] changes nothing.
Bits(mask, bits) ==
    LET new == [b \in Banks |-> Merge(state[b], mask[b], bits[b])]
        changed(b) == io_bits[b] /\ new[b] # state[b]
    IN  /\ state' = new
        /\ latch' = [b \in Banks |-> IF changed(b) THEN new[b] ELSE latch[b]]

InsnBits(mask, bits) ==
    /\ \E b \in Banks : mask[b] # 0
    /\ Bits(mask, bits)
    /\ UNCHANGED <<io_bits, oe>>

Next ==
    \/ \E chan \in ChanArgs, output \in BOOLEAN : ConfigDirection(chan, output)
    \/ \E mask, bits \in [Banks -> ByteVals] : InsnBits(mask, bits)

Spec == Init /\ [][Next]_vars

-----------------------------------------------------------------------------

\* An output bank whose latch agrees with s->state keeps agreeing: every
\* insn_bits that changes its byte writes the new byte to the board. The
\* "changed" computation (old state xor new state, masked by io_bits)
\* must miss no change of an output bank.
OutputBankTracksState ==
    [][\A b \in Banks :
         (io_bits[b] /\ io_bits'[b] /\ latch[b] = state[b])
            => latch'[b] = state'[b]]_vars

====
