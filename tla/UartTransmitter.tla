-------------------------- MODULE UartTransmitter --------------------------
(***************************************************************************)
(* hardware/vsrc/io_circuits/uart_transmitter.v, one step per clock edge.  *)
(* A ten-bit word is a function 0..9 -> {0,1}, index 0 the lowest bit.     *)
(***************************************************************************)
EXTENDS Naturals

CONSTANTS SYMBOL_EDGE_TIME,  \* CLOCK_FREQ / BAUD_RATE
          Byte               \* the values of data_in, functions 0..7 -> {0,1}

ASSUME SymbolAssumption == SYMBOL_EDGE_TIME \in Nat /\ SYMBOL_EDGE_TIME > 1
ASSUME ByteAssumption == Byte # {} /\ Byte \subseteq [0..7 -> {0, 1}]

VARIABLES clock_counter, bit_counter, tx_shifter,
          byte,        \* history: the byte last accepted
          in_frame,    \* history: cycles since the frame began, 0 when idle
          was_reset    \* history: the last cycle was one of reset

txVars == <<clock_counter, bit_counter, tx_shifter, byte, in_frame, was_reset>>

(* Mutant: the transmitter counts itself idle one symbol early.            *)
tx_running_cut == bit_counter > 1

symbol_edge == clock_counter = SYMBOL_EDGE_TIME - 1
tx_running == bit_counter # 0
data_in_ready == ~tx_running
serial_out == IF tx_running THEN tx_shifter[0] ELSE 1

(* {1'b1, data_in, 1'b0}                                                   *)
FrameWord(b) == [i \in 0..9 |-> IF i = 0 THEN 0 ELSE IF i = 9 THEN 1 ELSE b[i - 1]]

ShiftRight(w) == [i \in 0..9 |-> IF i = 9 THEN 0 ELSE w[i + 1]]

TxInit == /\ clock_counter = 0
          /\ bit_counter = 0
          /\ tx_shifter = [i \in 0..9 |-> 0]
          /\ byte \in Byte
          /\ in_frame = 0
          /\ was_reset = FALSE

Reset == /\ clock_counter' = 0
         /\ bit_counter' = 0
         /\ tx_shifter' = [i \in 0..9 |-> 0]
         /\ UNCHANGED byte

(* Mutant: the shift is forgotten.                                         *)
NextSymbolNoShift == /\ symbol_edge /\ tx_running
                     /\ clock_counter' = 0
                     /\ bit_counter' = bit_counter - 1
                     /\ UNCHANGED <<tx_shifter, byte>>

(* The wire "start": a byte is offered and none is being sent.             *)
Accept(b) == /\ data_in_ready
             /\ clock_counter' = 0
             /\ bit_counter' = 10
             /\ tx_shifter' = FrameWord(b)
             /\ byte' = b

NextSymbol == /\ symbol_edge
              /\ tx_running
              /\ clock_counter' = 0
              /\ bit_counter' = bit_counter - 1
              /\ tx_shifter' = ShiftRight(tx_shifter)
              /\ UNCHANGED byte

Tick == /\ ~(symbol_edge /\ tx_running)
        /\ clock_counter' = IF symbol_edge THEN 0 ELSE clock_counter + 1
        /\ UNCHANGED <<bit_counter, tx_shifter, byte>>

(* One clock edge; valid is data_in_valid and b is data_in.                *)
TxCycle(reset, valid, b) ==
  \/ reset /\ Reset
  \/ ~reset /\ valid /\ Accept(b)
  \/ ~reset /\ ~(valid /\ data_in_ready) /\ (NextSymbol \/ Tick)

(* What the history variables record of a cycle: the time is counted by    *)
(* cycles, not read off the transmitter's counters.                        *)
Record(reset) == /\ in_frame' = IF tx_running /\ tx_running' THEN in_frame + 1 ELSE 0
                 /\ was_reset' = reset

TxNext == \E reset \in BOOLEAN, valid \in BOOLEAN, b \in Byte :
            TxCycle(reset, valid, b) /\ Record(reset)

TxSpec == TxInit /\ [][TxNext]_txVars

-----------------------------------------------------------------------------
TxTypeOK == /\ clock_counter \in 0..(SYMBOL_EDGE_TIME - 1)
            /\ bit_counter \in 0..10
            /\ tx_shifter \in [0..9 -> {0, 1}]
            /\ byte \in Byte
            /\ in_frame \in Nat /\ was_reset \in BOOLEAN

(* While a frame is being sent the bits still to go are exactly the tail   *)
(* of the frame of the byte accepted: nothing offered meanwhile, and no    *)
(* number of shifts, has disturbed them.                                   *)
FrameIntact ==
  \A i \in 0..9 : i < bit_counter => tx_shifter[i] = FrameWord(byte)[10 - bit_counter + i]

(* The transmitter implements SerialSender: every byte accepted occupies   *)
(* the line for ten symbols of SYMBOL_EDGE_TIME cycles each, in frame      *)
(* order, whatever is offered while it is busy, unless a cycle of reset    *)
(* cuts it short.                                                          *)
Sender == INSTANCE SerialSender WITH
            idle <- data_in_ready, elapsed <- in_frame,
            line <- serial_out, cleared <- was_reset

SendsFrames == Sender!SenderSpec

(* A few bytes for a run: no bit, either end, both alternations, all bits. *)
BitsOf(n) == [i \in 0..7 |-> (n \div (2^i)) % 2]
FewBytes == {BitsOf(n) : n \in {0, 1, 85, 128, 170, 255}}
=============================================================================
