---------------------------- MODULE SerialLink ----------------------------
(***************************************************************************)
(* The receiving half of hardware/vsrc/io_circuits/uart.v: a peer that     *)
(* sends with its own symbol time, the input flip-flop serial_in_reg, the  *)
(* receiver, and the program behind it, whose loads from 0x80000004 raise  *)
(* data_out_ready.  One step per cycle of the FPGA clock.                  *)
(***************************************************************************)
EXTENDS UartReceiver, Sequences

CONSTANTS Byte,
          PEER_SYMBOL_TIMES, \* the cycles per symbol a peer may have
          READ_WITHIN,       \* the program reads a byte at most this many cycles after it is valid
          RESETS             \* the values the reset input takes: {FALSE} or BOOLEAN

ASSUME LinkAssumption == /\ RESETS \subseteq BOOLEAN /\ FALSE \in RESETS
                         /\ READ_WITHIN \in Nat /\ PEER_SYMBOL_TIMES \subseteq Nat
                         /\ Byte # {} /\ Byte \subseteq [0..7 -> Bit]

(* What a line that works has in common with the code's: each sample falls *)
(* in the symbol it is of, and the program has read a byte before the next *)
(* frame's first sample shifts it.                                         *)
ASSUME TimingAssumption ==
  \A t \in PEER_SYMBOL_TIMES :
    /\ \A k \in 0..9 : LET sample == k * SYMBOL_EDGE_TIME + SAMPLE_TIME
                      IN  k * t <= sample /\ sample < (k + 1) * t
    /\ 9 * SYMBOL_EDGE_TIME + READ_WITHIN <= 10 * t

VARIABLES p_time,                             \* the peer's cycles per symbol
          p_clock, p_bits, p_shift, p_byte,   \* and its transmitter
          serial_in_reg,
          age,       \* history: cycles has_byte has been high
          chan,      \* history: bytes sent and not yet read
          got, turn, \* history: the byte last read, and a flip for each read; as at first
                     \* while the receiver is out of step
          quiet,     \* history: cycles the peer has been idle, at most QUIET
          synced     \* history: no reset since the line was last quiet

peerVars == <<p_time, p_clock, p_bits, p_shift, p_byte>>
linkVars == <<rx_shift, bit_counter, clock_counter, has_byte, start, peerVars,
              serial_in_reg, age, chan, got, turn, quiet, synced>>

Peer(t) == INSTANCE UartTransmitter WITH
          SYMBOL_EDGE_TIME <- t, clock_counter <- p_clock,
          bit_counter <- p_bits, tx_shifter <- p_shift, byte <- p_byte,
          in_frame <- 0, was_reset <- FALSE  \* histories of its own the link has no use for

(* A frame started by a stale start flip-flop is over after this long.     *)
QUIET == 10 * SYMBOL_EDGE_TIME

LinkInit == /\ RxInit
            /\ \E t \in PEER_SYMBOL_TIMES : p_time = t /\ Peer(t)!TxInit
            /\ serial_in_reg = 1
            /\ age = 0
            /\ chan = <<>> /\ got = p_byte /\ turn = 0
            /\ quiet = QUIET /\ synced = TRUE

(* The history variables over one cycle in which the peer is offered b and *)
(* the program reads or not.                                               *)
Observe(t, reset, valid, b, ready) ==
  LET fire == data_out_fire(ready)
      left == IF fire /\ chan # <<>> THEN Tail(chan) ELSE chan
      sent == IF valid /\ Peer(t)!data_in_ready THEN <<b>> ELSE <<>>
  IN  /\ age' = IF has_byte /\ ~fire /\ age < READ_WITHIN THEN age + 1 ELSE 0
      /\ got' = IF ~synced THEN p_byte ELSE IF fire THEN data_out ELSE got
      /\ turn' = IF ~synced THEN 0 ELSE IF fire THEN 1 - turn ELSE turn
      /\ quiet' = IF reset \/ Peer(t)!tx_running THEN 0
                  ELSE IF quiet < QUIET THEN quiet + 1 ELSE QUIET
      /\ synced' = (~reset /\ (synced \/ (quiet = QUIET /\ ~Peer(t)!tx_running /\ ~has_byte)))
      /\ chan' = IF synced' THEN left \o sent ELSE <<>>

LinkCycle(t, reset, valid, b, ready) ==
  /\ p_time = t /\ UNCHANGED p_time
  /\ (has_byte /\ age = READ_WITHIN) => ready
  /\ Peer(t)!TxCycle(FALSE, valid, b)
  /\ serial_in_reg' = RegisterR(1, Peer(t)!serial_out, reset)
  /\ RxCycle(reset, serial_in_reg, ready)
  /\ Observe(t, reset, valid, b, ready)

LinkNext == \E t \in PEER_SYMBOL_TIMES, reset \in RESETS, valid \in BOOLEAN,
               b \in Byte, ready \in BOOLEAN : LinkCycle(t, reset, valid, b, ready)

(* The clock runs.                                                         *)
LinkSpec == LinkInit /\ [][LinkNext]_linkVars /\ WF_linkVars(LinkNext)

-----------------------------------------------------------------------------
(* With a program that reads within READ_WITHIN cycles, receiver and line  *)
(* together are a FIFO of two bytes: nothing is lost, repeated, reordered  *)
(* or corrupted, and every byte sent is read.                              *)
Channel == INSTANCE ByteChannel WITH Capacity <- 2
DeliversInOrder == Channel!ChanSpec

(* A receiver reset in the middle of a frame is back in step once the peer *)
(* has paused for one frame: no frame is in progress in it.                *)
Resynchronises == quiet = QUIET => ~start

(* After a reset and such a pause every read again returns the oldest byte *)
(* sent since and not yet read.                                            *)
ReadsOldest == [][(synced /\ turn' # turn) => (chan # <<>> /\ got' = Head(chan))]_linkVars

(* "'has_byte' becomes HIGH once we finish sampling all 10 bits            *)
(* ({stop_bit, char[7:0], start_bit})": a byte is announced only if the    *)
(* bit sampled first was a start bit.                                      *)
AnnouncesFrames == [][(has_byte' /\ ~has_byte) => rx_shift'[0] = 0]_linkVars
=============================================================================
