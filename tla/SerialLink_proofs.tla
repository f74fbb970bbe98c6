-------------------------- MODULE SerialLink_proofs --------------------------
(***************************************************************************)
(* For every symbol time of at least four cycles, whatever the line        *)
(* carries, whenever the program reads and whenever reset strikes: the     *)
(* receiver's counters stay in range.                                      *)
(*                                                                         *)
(* For every peer whose symbols the receiver samples and every program     *)
(* that reads in time: the line delivers, and is in step again after a     *)
(* reset and a pause. The invariant ties the receiver's clock to the       *)
(* peer's: a frame is seen two cycles after it began (StepInv), so that    *)
(* the sample of each symbol finds its level (LineInv, SampleInv), and a   *)
(* byte that waits ages faster than the next frame comes in (AgeInv).      *)
(***************************************************************************)
EXTENDS SerialLink, SequenceTheorems, TLAPS

(* bit_counter never passes 9 because the sample of the tenth symbol       *)
(* comes before its edge and clears both counters, so the conjunction of   *)
(* the ranges and StaysInFrame is inductive and neither is alone.          *)
ReceiverInv == RxTypeOK /\ StaysInFrame

(* Half a symbol is sampled strictly between its edges.                    *)
LEMMA SampleTime == SAMPLE_TIME \in Nat /\ 1 < SAMPLE_TIME /\ SAMPLE_TIME < SYMBOL_EDGE_TIME
BY SymbolAssumption DEF SAMPLE_TIME

LEMMA ReceiverInductive == ReceiverInv /\ [RxNext]_rxVars => ReceiverInv'
<1> SUFFICES ASSUME ReceiverInv, [RxNext]_rxVars PROVE ReceiverInv'
  OBVIOUS
<1> USE SymbolAssumption, SampleTime DEF ReceiverInv, RxTypeOK, StaysInFrame, Bit
<1>1. ASSUME NEW reset \in BOOLEAN, NEW serial_in \in Bit, NEW ready \in BOOLEAN,
             RxCycle(reset, serial_in, ready)
      PROVE  ReceiverInv'
  <2>1. rx_shift' \in [0..9 -> Bit]
    <3>1. \A i \in 0..9 : i # 9 => i + 1 \in 0..9
      OBVIOUS
    <3>2. rx_shift_next(serial_in) \in [0..9 -> Bit]
      BY <3>1 DEF rx_shift_next
    <3> QED BY <1>1, <3>2 DEF RxCycle, RegisterCE
  <2>2. has_byte' \in BOOLEAN /\ start' \in BOOLEAN
    BY <1>1 DEF RxCycle, RegisterRCE
  <2>3. /\ bit_counter' = IF done \/ reset THEN 0
                          ELSE IF symbol_edge THEN bit_counter + 1 ELSE bit_counter
        /\ clock_counter' = IF symbol_edge \/ done \/ reset THEN 0
                            ELSE IF start THEN clock_counter + 1 ELSE clock_counter
        /\ start' = IF done THEN FALSE
                    ELSE IF serial_in = 0 /\ bit_counter = 0 THEN TRUE ELSE start
    <3>1. bit_counter' = IF done \/ reset THEN 0
                         ELSE IF symbol_edge THEN bit_counter + 1 ELSE bit_counter
      BY ONLY <1>1 DEF RxCycle, RegisterRCE
    <3>2. clock_counter' = IF symbol_edge \/ done \/ reset THEN 0
                           ELSE IF start THEN clock_counter + 1 ELSE clock_counter
      BY ONLY <1>1 DEF RxCycle, RegisterRCE
    <3>3. start' = IF done THEN FALSE
                   ELSE IF serial_in = 0 /\ bit_counter = 0 THEN TRUE ELSE start
      BY ONLY <1>1 DEF RxCycle, RegisterRCE
    <3> QED BY <3>1, <3>2, <3>3
  <2> DEFINE InRange == /\ bit_counter \in 0..9
                        /\ clock_counter \in 0..(SYMBOL_EDGE_TIME - 1)
                        /\ bit_counter = 9 => clock_counter < SAMPLE_TIME
             Started == (bit_counter > 0 \/ clock_counter > 0) => start
  <2>4. InRange'
    <3>1. CASE done \/ reset
      BY <2>3, <3>1
    <3>2. CASE ~done /\ ~reset /\ symbol_edge
      BY <2>3, <3>2 DEF symbol_edge
    <3>3. CASE ~done /\ ~reset /\ ~symbol_edge
      BY <2>3, <3>3 DEF symbol_edge, done, sample_time
    <3> QED BY <3>1, <3>2, <3>3
  <2>5. Started'
    <3>1. CASE done \/ reset
      BY <2>3, <3>1
    <3>2. CASE ~done /\ ~reset /\ start
      BY <2>3, <3>2
    <3>3. CASE ~done /\ ~reset /\ ~start
      BY <2>3, <3>3 DEF symbol_edge
    <3> QED BY <3>1, <3>2, <3>3
  <2> QED BY <2>1, <2>2, <2>4, <2>5
<1>2. CASE UNCHANGED rxVars
  BY <1>2 DEF rxVars
<1> QED BY <1>1, <1>2 DEF RxNext

LEMMA ReceiverInitial == RxInit => ReceiverInv
<1> SUFFICES ASSUME RxInit PROVE ReceiverInv
  OBVIOUS
<1>1. rx_shift \in [0..9 -> Bit]
  BY DEF RxInit, Bit
<1>2. has_byte \in BOOLEAN /\ start \in BOOLEAN
  BY DEF RxInit
<1>3. bit_counter \in 0..9 /\ clock_counter \in 0..(SYMBOL_EDGE_TIME - 1)
  BY SymbolAssumption DEF RxInit
<1>4. StaysInFrame
  BY DEF RxInit, StaysInFrame
<1> QED BY <1>1, <1>2, <1>3, <1>4 DEF ReceiverInv, RxTypeOK

(* Every register keeps its range.                                         *)
THEOREM RxTypeCorrect == RxSpec => []RxTypeOK
<1>1. ReceiverInv => RxTypeOK
  BY DEF ReceiverInv
<1> QED BY <1>1, ReceiverInitial, ReceiverInductive, PTL DEF RxSpec

(* The counters never run past the sample of the stop bit, and never run   *)
(* without start.                                                          *)
THEOREM RxStaysInFrame == RxSpec => []StaysInFrame
<1>1. ReceiverInv => StaysInFrame
  BY DEF ReceiverInv
<1> QED BY <1>1, ReceiverInitial, ReceiverInductive, PTL DEF RxSpec

-----------------------------------------------------------------------------
(* Cycles since the receiver saw the frame, since the peer began it, and   *)
(* until done: a peer that is idle has ended its frame.                    *)
position == bit_counter * SYMBOL_EDGE_TIME + clock_counter
elapsed == IF p_bits = 0 THEN 10 * p_time ELSE (10 - p_bits) * p_time + p_clock
DoneAt == 9 * SYMBOL_EDGE_TIME + SAMPLE_TIME + 1

(* Symbol k of the frame of b.                                             *)
Symbol(b, k) == IF k = 0 THEN 0 ELSE IF k = 9 THEN 1 ELSE b[k - 1]

(* A byte is on its way that the receiver has not announced.               *)
Pending == start \/ elapsed <= 1

LinkTypeOK ==
  /\ p_time \in PEER_SYMBOL_TIMES /\ p_clock \in 0..(p_time - 1) /\ p_bits \in 0..10
  /\ p_shift \in [0..9 -> Bit] /\ p_byte \in Byte
  /\ serial_in_reg \in Bit /\ age \in 0..READ_WITHIN
  /\ quiet \in 0..QUIET /\ synced \in BOOLEAN

PeerIntact ==
  \A i \in 0..9 : i < p_bits => p_shift[i] = Symbol(p_byte, 10 - p_bits + i)

(* A frame begun by a 0 on the line is older than the quiet since.         *)
QuietInv == /\ serial_in_reg = 0 => quiet <= 1
            /\ start => quiet <= position + 2

LineInv == /\ elapsed = 0 => serial_in_reg = 1
           /\ \A k \in 0..9 : k * p_time < elapsed /\ elapsed <= (k + 1) * p_time
                                => serial_in_reg = Symbol(p_byte, k)

StepInv == /\ start => elapsed = position + 2
           /\ ~start => elapsed <= 1 \/ elapsed > DoneAt \/ p_bits = 0

Sampled == bit_counter + (IF clock_counter >= SAMPLE_TIME THEN 1 ELSE 0)
SampleInv ==
  start => \A j \in 0..9 : j < Sampled => rx_shift[10 - Sampled + j] = Symbol(p_byte, j)

AgeInv == has_byte => IF Pending THEN 10 * p_time + elapsed <= age + DoneAt
                                 ELSE elapsed <= age + DoneAt + 1

ChanInv == /\ has_byte /\ Pending => chan = <<data_out, p_byte>>
           /\ has_byte /\ ~Pending => chan = <<data_out>>
           /\ ~has_byte /\ Pending => chan = <<p_byte>>
           /\ ~has_byte /\ ~Pending => chan = <<>>

InStep == LineInv /\ StepInv /\ SampleInv /\ AgeInv /\ ChanInv
LinkInv == /\ ReceiverInv /\ LinkTypeOK /\ PeerIntact /\ QuietInv
           /\ synced => InStep
           /\ ~synced => chan = <<>>

LEMMA ReceiverStep ==
  ASSUME ReceiverInv, NEW reset \in BOOLEAN, NEW serial_in \in Bit, NEW ready \in BOOLEAN,
         RxCycle(reset, serial_in, ready)
  PROVE  ReceiverInv'
<1>1. [RxNext]_rxVars
  BY DEF RxNext
<1> QED BY <1>1, ReceiverInductive

LEMMA Timing ==
  ASSUME NEW t \in PEER_SYMBOL_TIMES
  PROVE  /\ t \in Nat /\ t > 2 /\ DoneAt \in Nat /\ DoneAt <= 10 * t /\ 9 * t < DoneAt
         /\ READ_WITHIN \in Nat /\ 9 * SYMBOL_EDGE_TIME + READ_WITHIN <= 10 * t
<1> USE SymbolAssumption, SampleTime, LinkAssumption
<1>1. t \in Nat
  OBVIOUS
<1>2. SAMPLE_TIME < 1 * t
  BY TimingAssumption
<1>3. /\ 9 * t <= 9 * SYMBOL_EDGE_TIME + SAMPLE_TIME
      /\ 9 * SYMBOL_EDGE_TIME + SAMPLE_TIME < 10 * t
      /\ 9 * SYMBOL_EDGE_TIME + READ_WITHIN <= 10 * t
  BY TimingAssumption
<1> QED BY <1>1, <1>2, <1>3 DEF DoneAt

(* The symbol a cycle of the frame belongs to.                             *)
LEMMA SymbolUnique ==
  ASSUME NEW t \in Nat \ {0}, NEW e \in Nat, NEW j \in Nat, NEW k \in Nat,
         j * t <= e, e < (j + 1) * t, k * t <= e, e < (k + 1) * t
  PROVE  j = k
<1>1. ASSUME NEW m \in Nat, NEW n \in Nat, m < n PROVE (m + 1) * t <= n * t
  <2>1. (n - (m + 1)) * t \in Nat /\ n * t = (m + 1) * t + (n - (m + 1)) * t
    BY <1>1
  <2>2. (m + 1) * t \in Nat
    OBVIOUS
  <2> QED BY <2>1, <2>2
<1>2. CASE j < k
  BY <1>1, <1>2
<1>3. CASE k < j
  BY <1>1, <1>3
<1> QED BY <1>2, <1>3

(* A cycle of the peer.                                                    *)
LEMMA PeerStep ==
  ASSUME LinkTypeOK, PeerIntact, NEW valid \in BOOLEAN, NEW b \in Byte,
         NEW t \in PEER_SYMBOL_TIMES, p_time = t, Peer(t)!TxCycle(FALSE, valid, b),
         UNCHANGED p_time
  PROVE  /\ p_clock' \in 0..(p_time - 1) /\ p_bits' \in 0..10
         /\ p_shift' \in [0..9 -> Bit] /\ p_byte' \in Byte /\ PeerIntact'
         /\ Peer(t)!serial_out \in Bit
         /\ p_bits = 0 /\ valid => p_bits' = 10 /\ p_clock' = 0 /\ p_byte' = b
         /\ p_bits = 0 /\ ~valid => p_bits' = 0 /\ p_byte' = p_byte
         /\ p_bits # 0 => /\ p_byte' = p_byte
                         /\ Peer(t)!serial_out = Symbol(p_byte, 10 - p_bits)
                         /\ \/ p_clock = p_time - 1 /\ p_bits' = p_bits - 1 /\ p_clock' = 0
                            \/ p_clock < p_time - 1 /\ p_bits' = p_bits /\ p_clock' = p_clock + 1
         /\ p_bits = 0 => Peer(t)!serial_out = 1
<1> USE Timing DEF LinkTypeOK
<1>0. /\ p_time \in Nat /\ p_time > 2 /\ p_bits \in 0..10 /\ p_clock \in 0..(p_time - 1)
      /\ p_shift \in [0..9 -> Bit] /\ p_byte \in [0..7 -> Bit] /\ b \in [0..7 -> Bit]
      /\ p_time = t
  BY LinkAssumption
<1>1. \A c \in Byte, k \in 0..9 : Symbol(c, k) \in Bit
  <2> SUFFICES ASSUME NEW c \in Byte, NEW k \in 0..9 PROVE Symbol(c, k) \in Bit
    OBVIOUS
  <2>1. k = 0 \/ k = 9 \/ k - 1 \in 0..7
    OBVIOUS
  <2>2. c \in [0..7 -> Bit]
    BY LinkAssumption
  <2> QED BY <2>1, <2>2 DEF Symbol, Bit
<1>2. Peer(t)!serial_out = IF p_bits # 0 THEN p_shift[0] ELSE 1
  BY DEF Peer!serial_out, Peer!tx_running
<1>3. CASE p_bits = 0 /\ valid
  <2>1. /\ p_clock' = 0 /\ p_bits' = 10 /\ p_byte' = b
        /\ p_shift' = [i \in 0..9 |-> Symbol(b, i)]
    BY <1>3 DEF Peer!TxCycle, Peer!Accept, Peer!data_in_ready, Peer!tx_running, Peer!FrameWord,
                Symbol
  <2>2. p_shift' \in [0..9 -> Bit]
    BY <1>1, <2>1
  <2>3. PeerIntact'
    <3> SUFFICES ASSUME NEW i \in 0..9, i < p_bits'
                 PROVE  p_shift'[i] = Symbol(p_byte', 10 - p_bits' + i)
      BY DEF PeerIntact, Symbol
    <3>1. 10 - p_bits' + i = i
      BY <2>1
    <3> QED BY <2>1, <3>1
  <2> QED BY <1>0, <1>2, <1>3, <2>1, <2>2, <2>3 DEF Bit
<1>4. CASE p_bits = 0 /\ ~valid
  <2>1. p_bits' = 0 /\ p_byte' = p_byte /\ p_shift' = p_shift /\ p_clock' \in 0..(p_time - 1)
    BY <1>0, <1>4 DEF Peer!TxCycle, Peer!NextSymbol, Peer!Tick, Peer!data_in_ready,
                      Peer!tx_running, Peer!symbol_edge
  <2>2. PeerIntact'
    BY <2>1 DEF PeerIntact
  <2> QED BY <1>0, <1>2, <1>4, <2>1, <2>2 DEF Bit
<1>5. CASE p_bits # 0
  <2>0. Peer(t)!serial_out = Symbol(p_byte, 10 - p_bits) /\ Peer(t)!serial_out \in Bit
    <3>1. 0 \in 0..9 /\ 0 < p_bits /\ 10 - p_bits + 0 = 10 - p_bits
      BY <1>0, <1>5
    <3>2. p_shift[0] = Symbol(p_byte, 10 - p_bits + 0)
      BY <3>1 DEF PeerIntact
    <3> QED BY <1>0, <1>2, <1>5, <3>1, <3>2
  <2>1. Peer(t)!NextSymbol \/ Peer(t)!Tick
    BY <1>5 DEF Peer!TxCycle, Peer!Accept, Peer!data_in_ready, Peer!tx_running
  <2>2. CASE p_clock = p_time - 1
    <3>1. /\ p_clock' = 0 /\ p_bits' = p_bits - 1 /\ p_byte' = p_byte
          /\ p_shift' = [i \in 0..9 |-> IF i = 9 THEN 0 ELSE p_shift[i + 1]]
      BY <1>5, <2>1, <2>2 DEF Peer!NextSymbol, Peer!Tick, Peer!symbol_edge, Peer!tx_running,
                              Peer!ShiftRight
    <3>2. p_shift' \in [0..9 -> Bit]
      <4>1. \A i \in 0..9 : i # 9 => i + 1 \in 0..9
        OBVIOUS
      <4> QED BY <1>0, <3>1, <4>1 DEF Bit
    <3>3. PeerIntact'
      <4> SUFFICES ASSUME NEW i \in 0..9, i < p_bits'
                   PROVE  p_shift'[i] = Symbol(p_byte', 10 - p_bits' + i)
        BY DEF PeerIntact, Symbol
      <4>1. i # 9 /\ i + 1 \in 0..9 /\ i + 1 < p_bits /\ p_shift'[i] = p_shift[i + 1]
        BY <1>0, <3>1
      <4>2. p_shift[i + 1] = Symbol(p_byte, 10 - p_bits + (i + 1))
        BY <4>1 DEF PeerIntact
      <4>3. 10 - p_bits + (i + 1) = 10 - p_bits' + i
        BY <1>0, <3>1
      <4> QED BY <3>1, <4>1, <4>2, <4>3
    <3>4. p_bits' \in 0..10 /\ p_clock' \in 0..(p_time - 1)
      BY <1>0, <1>5, <3>1
    <3> QED BY <1>0, <1>5, <2>0, <2>2, <3>1, <3>2, <3>3, <3>4
  <2>3. CASE p_clock # p_time - 1
    <3>1. p_clock' = p_clock + 1 /\ p_bits' = p_bits /\ p_byte' = p_byte /\ p_shift' = p_shift
      BY <1>5, <2>1, <2>3 DEF Peer!NextSymbol, Peer!Tick, Peer!symbol_edge, Peer!tx_running
    <3>2. PeerIntact'
      BY <3>1 DEF PeerIntact
    <3> QED BY <1>0, <1>5, <2>0, <2>3, <3>1, <3>2
  <2> QED BY <2>2, <2>3
<1> QED BY <1>3, <1>4, <1>5

LEMMA ElapsedStep ==
  ASSUME LinkTypeOK, PeerIntact, NEW valid \in BOOLEAN, NEW b \in Byte,
         NEW t \in PEER_SYMBOL_TIMES, p_time = t, Peer(t)!TxCycle(FALSE, valid, b),
         UNCHANGED p_time
  PROVE  /\ elapsed \in Nat /\ elapsed' \in Nat /\ elapsed <= 10 * p_time
         /\ p_bits = 0 => elapsed = 10 * p_time
         /\ p_bits = 0 /\ valid => elapsed' = 0 /\ p_bits' # 0 /\ p_byte' = b
         /\ p_bits = 0 /\ ~valid => elapsed' = elapsed /\ p_bits' = 0 /\ p_byte' = p_byte
         /\ p_bits # 0 => elapsed < 10 * p_time /\ elapsed' = elapsed + 1 /\ p_byte' = p_byte
         /\ elapsed' = 0 => Peer(t)!serial_out = 1
         /\ \A k \in 0..9 : k * p_time < elapsed' /\ elapsed' <= (k + 1) * p_time
                              => Peer(t)!serial_out = Symbol(p_byte', k)
<1>0. /\ p_time \in Nat /\ p_time > 2 /\ p_bits \in 0..10 /\ p_clock \in 0..(p_time - 1)
  BY Timing DEF LinkTypeOK
<1>1. CASE p_bits = 0 /\ valid
  <2>1. p_bits' = 10 /\ p_clock' = 0 /\ p_byte' = b /\ Peer(t)!serial_out = 1
    BY <1>1, PeerStep
  <2>2. elapsed = 10 * p_time /\ elapsed' = 0
    BY <1>0, <1>1, <2>1 DEF elapsed
  <2>3. \A k \in 0..9 : ~(k * p_time < elapsed')
    <3>1. \A k \in 0..9 : k * p_time \in Nat
      BY <1>0
    <3> QED BY <2>2, <3>1
  <2> QED BY <1>0, <1>1, <2>1, <2>2, <2>3
<1>2. CASE p_bits = 0 /\ ~valid
  <2>1. p_bits' = 0 /\ p_byte' = p_byte /\ Peer(t)!serial_out = 1
    BY <1>2, PeerStep
  <2>2. elapsed = 10 * p_time /\ elapsed' = 10 * p_time
    BY <1>0, <1>2, <2>1 DEF elapsed
  <2>3. ASSUME NEW k \in 0..9, 10 * p_time <= (k + 1) * p_time PROVE Symbol(p_byte', k) = 1
    <3>1. k = 9 \/ (9 - k) * p_time > 0
      BY <1>0
    <3>2. 10 * p_time = (k + 1) * p_time + (9 - k) * p_time
      BY <1>0
    <3>3. k = 9
      BY <1>0, <2>3, <3>1, <3>2
    <3> QED BY <3>3 DEF Symbol
  <2> QED BY <1>0, <1>2, <2>1, <2>2, <2>3
<1>3. CASE p_bits # 0
  <2> DEFINE n == 10 - p_bits
  <2>0. n \in 0..9
    BY <1>0, <1>3
  <2>1. /\ p_byte' = p_byte /\ Peer(t)!serial_out = Symbol(p_byte, n)
        /\ \/ p_clock = p_time - 1 /\ p_bits' = p_bits - 1 /\ p_clock' = 0
           \/ p_clock < p_time - 1 /\ p_bits' = p_bits /\ p_clock' = p_clock + 1
    BY <1>3, PeerStep
  <2>2. PICK f \in Nat : f = n * p_time
    BY <1>0, <2>0
  <2>3. (n + 1) * p_time = f + p_time /\ (9 - n) * p_time \in Nat
        /\ 10 * p_time = f + p_time + (9 - n) * p_time
    BY <1>0, <2>0, <2>2
  <2>4. elapsed = f + p_clock
    BY <1>3, <2>2 DEF elapsed
  <2>5. elapsed' = elapsed + 1
    <3>1. CASE p_clock = p_time - 1 /\ p_bits' = p_bits - 1 /\ p_clock' = 0
      <4>1. CASE p_bits = 1
        <5>1. n = 9 /\ p_bits' = 0 /\ elapsed' = 10 * p_time
          BY <1>0, <3>1, <4>1 DEF elapsed
        <5>2. f = 9 * p_time
          BY <2>2, <5>1
        <5> QED BY <1>0, <2>4, <3>1, <5>1, <5>2
      <4>2. CASE p_bits # 1
        <5>1. elapsed' = (10 - p_bits') * p_time + p_clock'
          BY <1>0, <1>3, <3>1, <4>2 DEF elapsed
        <5>2. 10 - p_bits' = n + 1
          BY <1>0, <3>1
        <5>3. elapsed' = f + p_time
          BY <1>0, <2>3, <3>1, <5>1, <5>2
        <5> QED BY <1>0, <2>4, <3>1, <5>3
      <4> QED BY <4>1, <4>2
    <3>2. CASE p_clock < p_time - 1 /\ p_bits' = p_bits /\ p_clock' = p_clock + 1
      <4>1. elapsed' = f + p_clock'
        BY <1>3, <2>2, <3>2 DEF elapsed
      <4> QED BY <1>0, <2>4, <3>2, <4>1
    <3> QED BY <2>1, <3>1, <3>2
  <2>6. elapsed \in Nat /\ elapsed < 10 * p_time /\ elapsed <= 10 * p_time
    BY <1>0, <2>3, <2>4
  <2>7. ASSUME NEW k \in 0..9, k * p_time < elapsed', elapsed' <= (k + 1) * p_time PROVE k = n
    <3>1. k * p_time \in Nat /\ (k + 1) * p_time \in Nat
      BY <1>0
    <3>2. k * p_time <= elapsed /\ elapsed < (k + 1) * p_time
      BY <2>5, <2>6, <2>7, <3>1
    <3>3. n * p_time <= elapsed /\ elapsed < (n + 1) * p_time
      BY <1>0, <2>2, <2>3, <2>4
    <3>4. p_time \in Nat \ {0} /\ n \in Nat /\ k \in Nat
      BY <1>0, <2>0
    <3> HIDE DEF n
    <3> QED BY <2>6, <3>2, <3>3, <3>4, SymbolUnique
  <2>8. \A k \in 0..9 : k * p_time < elapsed' /\ elapsed' <= (k + 1) * p_time
                           => Peer(t)!serial_out = Symbol(p_byte', k)
    BY <2>1, <2>7, Zenon
  <2>9. elapsed' \in Nat /\ elapsed' # 0
    BY <2>5, <2>6
  <2> QED BY <1>3, <2>1, <2>5, <2>6, <2>8, <2>9, Zenon
<1> QED BY <1>1, <1>2, <1>3

(* A cycle of the receiver without reset.                                  *)
LEMMA PositionStep ==
  ASSUME ReceiverInv, NEW serial_in \in Bit, NEW ready \in BOOLEAN,
         RxCycle(FALSE, serial_in, ready)
  PROVE  /\ position \in Nat /\ position <= DoneAt - 2
         /\ start /\ ~done => position < DoneAt - 2
         /\ done => start /\ position = DoneAt - 2
         /\ ~start => /\ position = 0 /\ position' = 0 /\ ~done /\ rx_shift' = rx_shift
                      /\ start' = (serial_in = 0)
         /\ start /\ ~done => position' = position + 1 /\ start'
         /\ done => ~start'
         /\ has_byte' = (~data_out_fire(ready) /\ (done \/ has_byte))
         /\ start \in BOOLEAN /\ has_byte \in BOOLEAN
<1> USE SymbolAssumption, SampleTime
<1>0. /\ bit_counter \in 0..9 /\ clock_counter \in 0..(SYMBOL_EDGE_TIME - 1)
      /\ bit_counter = 9 => clock_counter < SAMPLE_TIME
      /\ (bit_counter > 0 \/ clock_counter > 0) => start
      /\ start \in BOOLEAN /\ has_byte \in BOOLEAN
  BY DEF ReceiverInv, RxTypeOK, StaysInFrame
<1>1. /\ bit_counter' = IF done THEN 0 ELSE IF symbol_edge THEN bit_counter + 1 ELSE bit_counter
      /\ clock_counter' = IF symbol_edge \/ done THEN 0
                          ELSE IF start THEN clock_counter + 1 ELSE clock_counter
      /\ start' = IF done THEN FALSE
                  ELSE IF serial_in = 0 /\ bit_counter = 0 THEN TRUE ELSE start
      /\ has_byte' = IF data_out_fire(ready) THEN FALSE ELSE IF done THEN TRUE ELSE has_byte
      /\ rx_shift' = IF sample_time THEN rx_shift_next(serial_in) ELSE rx_shift
  BY DEF RxCycle, RegisterRCE, RegisterCE
<1>2. has_byte' = (~data_out_fire(ready) /\ (done \/ has_byte))
  BY <1>0, <1>1, Zenon
<1>3. PICK f \in Nat : f = bit_counter * SYMBOL_EDGE_TIME
  BY <1>0
<1>4. /\ (bit_counter + 1) * SYMBOL_EDGE_TIME = f + SYMBOL_EDGE_TIME
      /\ position = f + clock_counter
      /\ bit_counter = 9 => f = 9 * SYMBOL_EDGE_TIME
      /\ bit_counter < 9 => f + SYMBOL_EDGE_TIME <= 9 * SYMBOL_EDGE_TIME
  <2>1. CASE bit_counter < 9
    <3>1. /\ (9 - (bit_counter + 1)) * SYMBOL_EDGE_TIME \in Nat
          /\ 9 * SYMBOL_EDGE_TIME
               = f + SYMBOL_EDGE_TIME + (9 - (bit_counter + 1)) * SYMBOL_EDGE_TIME
      BY <1>0, <1>3, <2>1
    <3> QED BY <1>0, <1>3, <2>1, <3>1 DEF position
  <2>2. CASE bit_counter = 9
    BY <1>0, <1>3, <2>2 DEF position
  <2> QED BY <1>0, <2>1, <2>2
<1>5. position \in Nat /\ position <= DoneAt - 2 /\ (start /\ ~done => position < DoneAt - 2)
      /\ (done => start /\ position = DoneAt - 2)
  BY <1>0, <1>4 DEF DoneAt, done, sample_time
<1>6. CASE ~start
  <2>1. bit_counter = 0 /\ clock_counter = 0 /\ ~done /\ ~symbol_edge /\ ~sample_time
    BY <1>0, <1>6 DEF done, sample_time, symbol_edge
  <2>2. bit_counter' = 0 /\ clock_counter' = 0 /\ rx_shift' = rx_shift
    BY <1>1, <1>6, <2>1
  <2>2a. start' = (serial_in = 0)
    BY <1>0, <1>1, <1>6, <2>1, Zenon
  <2>3. position = 0 /\ position' = 0
    BY <2>1, <2>2 DEF position
  <2> QED BY <1>0, <1>2, <1>5, <1>6, <2>1, <2>2, <2>2a, <2>3
<1>7. CASE start /\ done
  BY <1>0, <1>1, <1>2, <1>5, <1>7
<1>8. CASE start /\ ~done
  <2>1. start'
    BY <1>1, <1>8
  <2>2. position' = position + 1
    <3>1. CASE symbol_edge
      <4>1. clock_counter' = 0 /\ bit_counter' = bit_counter + 1
            /\ clock_counter = SYMBOL_EDGE_TIME - 1
        BY <1>1, <1>8, <3>1 DEF symbol_edge
      <4>2. position' = (bit_counter + 1) * SYMBOL_EDGE_TIME + 0
        BY <4>1 DEF position
      <4> QED BY <1>4, <4>1, <4>2
    <3>2. CASE ~symbol_edge
      <4>1. clock_counter' = clock_counter + 1 /\ bit_counter' = bit_counter
        BY <1>1, <1>8, <3>2
      <4>2. position' = f + clock_counter'
        BY <1>3, <4>1 DEF position
      <4> QED BY <1>0, <1>4, <4>1, <4>2
    <3> QED BY <3>1, <3>2
  <2> QED BY <1>0, <1>2, <1>5, <1>8, <2>1, <2>2
<1> QED BY <1>6, <1>7, <1>8, <1>0

(* Each sample finds the symbol it is of.                                  *)
LEMMA SampleLevel ==
  ASSUME ReceiverInv, LinkTypeOK, LineInv, StepInv, start, sample_time
  PROVE  serial_in_reg = Symbol(p_byte, bit_counter)
<1> USE SymbolAssumption, SampleTime
<1>1. p_time \in Nat /\ bit_counter \in 0..9 /\ clock_counter = SAMPLE_TIME - 1
  BY Timing DEF ReceiverInv, RxTypeOK, LinkTypeOK, sample_time
<1>2. PICK f \in Nat : f = bit_counter * SYMBOL_EDGE_TIME
  BY <1>1
<1>3. PICK g \in Nat, h \in Nat : g = bit_counter * p_time /\ h = (bit_counter + 1) * p_time
  BY <1>1
<1>4. g <= f + SAMPLE_TIME /\ f + SAMPLE_TIME < h
  BY <1>1, <1>2, <1>3, TimingAssumption DEF LinkTypeOK
<1>5. elapsed = f + SAMPLE_TIME + 1
  BY <1>1, <1>2 DEF StepInv, position
<1>6. bit_counter * p_time < elapsed /\ elapsed <= (bit_counter + 1) * p_time
  BY <1>3, <1>4, <1>5
<1> QED BY <1>1, <1>6 DEF LineInv

(* What the shift register holds of the frame after a cycle.               *)
LEMMA SampleStep ==
  ASSUME ReceiverInv, LinkTypeOK, LineInv, StepInv, SampleInv, NEW ready \in BOOLEAN,
         RxCycle(FALSE, serial_in_reg, ready)
  PROVE  /\ p_byte' = p_byte => SampleInv'
         /\ done => data_out' = p_byte
<1> USE SymbolAssumption, SampleTime
<1>0. /\ bit_counter \in 0..9 /\ clock_counter \in 0..(SYMBOL_EDGE_TIME - 1)
      /\ bit_counter = 9 => clock_counter < SAMPLE_TIME
      /\ serial_in_reg \in Bit /\ p_byte \in [0..7 -> Bit]
  BY LinkAssumption DEF ReceiverInv, RxTypeOK, StaysInFrame, LinkTypeOK
<1>1. /\ bit_counter' = IF done THEN 0 ELSE IF symbol_edge THEN bit_counter + 1 ELSE bit_counter
      /\ clock_counter' = IF symbol_edge \/ done THEN 0
                          ELSE IF start THEN clock_counter + 1 ELSE clock_counter
      /\ rx_shift' = IF sample_time THEN rx_shift_next(serial_in_reg) ELSE rx_shift
  BY DEF RxCycle, RegisterRCE, RegisterCE
<1>2. CASE ~start
  <2>1. bit_counter' = 0 /\ clock_counter' = 0 /\ ~done
    <3>1. bit_counter = 0 /\ clock_counter = 0
      BY <1>0, <1>2 DEF ReceiverInv, StaysInFrame
    <3> QED BY <1>1, <1>2, <3>1 DEF done, sample_time, symbol_edge
  <2>2. Sampled' = 0
    BY <2>1 DEF Sampled
  <2>3. SampleInv'
    <3>1. \A j \in 0..9 : ~(j < Sampled')
      BY <2>2
    <3> QED BY <3>1, Zenon DEF SampleInv
  <2> QED BY <2>1, <2>3
<1>3. CASE start /\ sample_time
  <2>1. serial_in_reg = Symbol(p_byte, bit_counter)
    BY <1>3, SampleLevel
  <2>2. Sampled = bit_counter
    BY <1>0, <1>3 DEF Sampled, sample_time
  <2>3. ASSUME NEW j \in 0..9, j <= bit_counter
        PROVE  rx_shift'[9 - bit_counter + j] = Symbol(p_byte, j)
    <3>1. 9 - bit_counter + j \in 0..9
      BY <1>0, <2>3
    <3>2. CASE j = bit_counter
      <4>1. 9 - bit_counter + j = 9
        BY <1>0, <3>2
      <4> QED BY <1>1, <1>3, <2>1, <3>1, <3>2, <4>1 DEF rx_shift_next
    <3>3. CASE j < bit_counter
      <4>1. 9 - bit_counter + j # 9 /\ (9 - bit_counter + j) + 1 = 10 - Sampled + j /\ j < Sampled
        BY <1>0, <2>2, <3>3
      <4>2. rx_shift'[9 - bit_counter + j] = rx_shift[(9 - bit_counter + j) + 1]
        BY <1>1, <1>3, <3>1, <4>1 DEF rx_shift_next
      <4>3. rx_shift[10 - Sampled + j] = Symbol(p_byte, j)
        BY <1>3, <4>1 DEF SampleInv
      <4> QED BY <4>1, <4>2, <4>3
    <3> QED BY <1>0, <2>3, <3>2, <3>3
  <2>4. CASE ~done
    <3>1. bit_counter' = bit_counter /\ clock_counter' = SAMPLE_TIME
      BY <1>0, <1>1, <1>3, <2>4 DEF sample_time, symbol_edge
    <3>2. Sampled' = bit_counter + 1
      BY <3>1 DEF Sampled
    <3>3. ASSUME NEW j \in 0..9, j < Sampled'
          PROVE  rx_shift'[10 - Sampled' + j] = Symbol(p_byte, j)
      <4>1. j <= bit_counter /\ 10 - Sampled' + j = 9 - bit_counter + j
        BY <1>0, <3>2, <3>3
      <4> QED BY <2>3, <4>1
    <3>4. p_byte' = p_byte =>
            \A j \in 0..9 : j < Sampled' => rx_shift'[10 - Sampled' + j] = Symbol(p_byte', j)
      BY <3>3
    <3> QED BY <2>4, <3>4 DEF SampleInv, Symbol
  <2>5. CASE done
    <3>1. \A j \in 0..9 : rx_shift'[j] = Symbol(p_byte, j)
      <4> SUFFICES ASSUME NEW j \in 0..9 PROVE rx_shift'[j] = Symbol(p_byte, j)
        OBVIOUS
      <4>1. bit_counter = 9 /\ j <= bit_counter /\ 9 - bit_counter + j = j
        BY <2>5 DEF done
      <4> QED BY <2>3, <4>1
    <3>2. data_out' = p_byte
      <4>1. ASSUME NEW i \in 0..7 PROVE rx_shift'[i + 1] = p_byte[i]
        <5>1. i + 1 \in 0..9 /\ i + 1 # 0 /\ i + 1 # 9 /\ (i + 1) - 1 = i
          OBVIOUS
        <5>2. Symbol(p_byte, i + 1) = p_byte[i]
          BY <5>1 DEF Symbol
        <5> QED BY <3>1, <5>1, <5>2
      <4>2. data_out' = [i \in 0..7 |-> rx_shift'[i + 1]]
        BY DEF data_out
      <4>3. data_out' = [i \in 0..7 |-> p_byte[i]]
        BY <4>1, <4>2
      <4> QED BY <1>0, <4>3
    <3>3. ~start'
      BY <2>5, <1>0, PositionStep
    <3> QED BY <3>2, <3>3 DEF SampleInv
  <2> QED BY <2>4, <2>5
<1>4. CASE start /\ ~sample_time
  <2>1. ~done /\ rx_shift' = rx_shift
    BY <1>1, <1>4 DEF done
  <2>2. Sampled' = Sampled
    <3>1. CASE symbol_edge
      <4>1. bit_counter' = bit_counter + 1 /\ clock_counter' = 0 /\ clock_counter >= SAMPLE_TIME
        BY <1>0, <1>1, <2>1, <3>1 DEF symbol_edge
      <4> QED BY <1>0, <4>1 DEF Sampled
    <3>2. CASE ~symbol_edge
      <4>1. bit_counter' = bit_counter /\ clock_counter' = clock_counter + 1
            /\ clock_counter # SAMPLE_TIME - 1
        BY <1>0, <1>1, <1>4, <2>1, <3>2 DEF sample_time
      <4> QED BY <1>0, <4>1 DEF Sampled
    <3> QED BY <3>1, <3>2
  <2>3. p_byte' = p_byte =>
          \A j \in 0..9 : j < Sampled' => rx_shift'[10 - Sampled' + j] = Symbol(p_byte', j)
    BY <1>4, <2>1, <2>2 DEF SampleInv
  <2> QED BY <2>1, <2>3 DEF SampleInv, Symbol
<1> QED BY <1>2, <1>3, <1>4

LEMMA Pair == ASSUME NEW x, NEW y PROVE <<x>> \o <<y>> = <<x, y>>
<1> DEFINE s == <<x>> \o <<y>>
           u == <<x, y>>
           X == {x, y}
<1>1. <<x>> \in Seq(X) /\ <<y>> \in Seq(X) /\ Len(<<x>>) = 1 /\ Len(<<y>>) = 1
  OBVIOUS
<1>2. s \in Seq(X) /\ Len(s) = 2 /\ s[1] = x /\ s[2] = y
  BY <1>1, ConcatProperties
<1>3. u \in Seq(X) /\ Len(u) = 2 /\ u[1] = x /\ u[2] = y
  OBVIOUS
<1> HIDE DEF s, u, X
<1>4. Len(s) = Len(u) /\ \A i \in 1..Len(s) : s[i] = u[i]
  BY <1>2, <1>3
<1>5. s = u
  BY <1>2, <1>3, <1>4, SeqEqual
<1> QED BY <1>5 DEF s, u

LEMMA ShortSequences ==
  ASSUME NEW x, NEW y
  PROVE  /\ <<x>> # <<>> /\ <<x, y>> # <<>> /\ Tail(<<x>>) = <<>> /\ Tail(<<x, y>>) = <<y>>
         /\ Head(<<x>>) = x /\ Head(<<x, y>>) = x
         /\ <<>> \o <<>> = <<>> /\ <<>> \o <<x>> = <<x>> /\ <<x>> \o <<>> = <<x>>
         /\ <<x>> \o <<y>> = <<x, y>> /\ <<x, y>> \o <<>> = <<x, y>>
<1>1. /\ <<x>> # <<>> /\ <<x, y>> # <<>> /\ Tail(<<x>>) = <<>> /\ Tail(<<x, y>>) = <<y>>
      /\ Head(<<x>>) = x /\ Head(<<x, y>>) = x
  OBVIOUS
<1>2. <<>> \o <<>> = <<>> /\ <<>> \o <<x>> = <<x>> /\ <<x>> \o <<>> = <<x>>
  <2>1. <<>> \o <<>> = <<>>
    OBVIOUS
  <2>2. <<>> \o <<x>> = <<x>>
    OBVIOUS
  <2>3. <<x>> \o <<>> = <<x>>
    OBVIOUS
  <2> QED BY <2>1, <2>2, <2>3, Zenon
<1>3. <<x, y>> \o <<>> = <<x, y>>
  OBVIOUS
<1> QED BY <1>1, <1>2, <1>3, Pair, Zenon

LEMMA ShortAppend ==
  ASSUME NEW x, NEW y
  PROVE  /\ Len(<<>>) < 2 /\ <<>> \o <<y>> = Append(<<>>, y)
         /\ Len(<<x>>) < 2 /\ <<x>> \o <<y>> = Append(<<x>>, y)
<1> DEFINE X == {x, y}
           u == <<x>> \o <<y>>
           v == Append(<<x>>, y)
<1>1. /\ Len(<<>>) < 2 /\ Len(<<x>>) = 1 /\ Len(<<x>>) < 2
      /\ Append(<<>>, y) = <<y>> /\ <<>> \o <<y>> = <<y>>
  OBVIOUS
<1>2. u = <<x, y>>
  BY Pair
<1>3. <<x>> \in Seq(X) /\ y \in X /\ <<x, y>> \in Seq(X)
  OBVIOUS
<1>4. v \in Seq(X) /\ Len(v) = 2 /\ v[1] = x /\ v[2] = y
  BY <1>1, <1>3, AppendProperties
<1>5. Len(<<x, y>>) = 2 /\ <<x, y>>[1] = x /\ <<x, y>>[2] = y
  OBVIOUS
<1> HIDE DEF X, v
<1>6. v = <<x, y>>
  <2> DEFINE w == <<x, y>>
  <2>1. w \in Seq(X) /\ Len(w) = 2 /\ w[1] = x /\ w[2] = y
    BY <1>3, <1>5
  <2> HIDE DEF w
  <2>2. Len(v) = Len(w) /\ \A i \in 1..Len(v) : v[i] = w[i]
    BY <1>4, <2>1
  <2>3. v = w
    BY <1>4, <2>1, <2>2, SeqEqual
  <2> QED BY <2>3 DEF w
<1> USE DEF v
<1> QED BY <1>1, <1>2, <1>6

(* The channel over a cycle, by what becomes of the byte on its way.       *)
LEMMA ChanStep ==
  ASSUME ChanInv, NEW fire \in BOOLEAN, NEW b, NEW send \in BOOLEAN,
         fire => has_byte, has_byte \in BOOLEAN,
         chan' = (IF fire /\ chan # <<>> THEN Tail(chan) ELSE chan)
                 \o (IF send THEN <<b>> ELSE <<>>),
         \/ /\ has_byte' = (has_byte /\ ~fire) /\ (has_byte' => data_out' = data_out)
            /\ \/ Pending /\ Pending' /\ ~send /\ p_byte' = p_byte
               \/ ~Pending /\ ~Pending' /\ ~send
               \/ ~Pending /\ Pending' /\ send /\ p_byte' = b
         \/ /\ ~has_byte /\ has_byte' /\ Pending /\ data_out' = p_byte
            /\ \/ ~Pending' /\ ~send
               \/ Pending' /\ send /\ p_byte' = b
  PROVE  ChanInv'
<1> DEFINE d == data_out
           p == p_byte
<1>0. /\ Tail(<<d>>) = <<>> /\ Tail(<<d, p>>) = <<p>> /\ <<d>> # <<>> /\ <<d, p>> # <<>>
      /\ <<>> \o <<>> = <<>> /\ <<d>> \o <<>> = <<d>> /\ <<p>> \o <<>> = <<p>>
      /\ <<d, p>> \o <<>> = <<d, p>> /\ <<>> \o <<b>> = <<b>>
      /\ <<d>> \o <<b>> = <<d, b>> /\ <<p>> \o <<b>> = <<p, b>>
  <2>0. Tail(<<d>>) = <<>> /\ <<d>> # <<>> /\ <<>> \o <<>> = <<>>
    <3>1. Tail(<<d>>) = <<>>
      BY ONLY ShortSequences, Zenon
    <3>2. <<d>> # <<>>
      BY ONLY ShortSequences, Zenon
    <3>3. <<>> \o <<>> = <<>>
      BY ONLY ShortSequences, Zenon
    <3> QED BY ONLY <3>1, <3>2, <3>3, Zenon
  <2>1. Tail(<<d, p>>) = <<p>> /\ <<d, p>> # <<>>
    BY ONLY ShortSequences, Zenon
  <2>2. /\ <<d>> \o <<>> = <<d>> /\ <<p>> \o <<>> = <<p>> /\ <<d, p>> \o <<>> = <<d, p>>
        /\ <<>> \o <<b>> = <<b>>
    BY ONLY ShortSequences, Zenon
  <2>3. <<d>> \o <<b>> = <<d, b>> /\ <<p>> \o <<b>> = <<p, b>>
    BY ONLY ShortSequences, Zenon
  <2> QED BY ONLY <2>0, <2>1, <2>2, <2>3, Zenon
<1>1. CASE has_byte /\ Pending
  <2>1. chan = <<d, p>> /\ ~send /\ Pending' /\ p_byte' = p /\ has_byte' = ~fire
        /\ (has_byte' => data_out' = d)
    BY <1>1, Zenon DEF ChanInv
  <2>2. chan' = IF fire THEN <<p>> ELSE <<d, p>>
    BY <1>0, <2>1, Zenon
  <2> QED BY <2>1, <2>2, Zenon DEF ChanInv
<1>2. CASE has_byte /\ ~Pending
  <2>1. chan = <<d>> /\ has_byte' = ~fire /\ (has_byte' => data_out' = d)
        /\ ((~Pending' /\ ~send) \/ (Pending' /\ send /\ p_byte' = b))
    BY <1>2, Zenon DEF ChanInv
  <2>2. chan' = IF fire THEN IF send THEN <<b>> ELSE <<>> ELSE IF send THEN <<d, b>> ELSE <<d>>
    BY <1>0, <2>1, Zenon
  <2> QED BY <2>1, <2>2, Zenon DEF ChanInv
<1>3. CASE ~has_byte /\ Pending
  <2>1. chan = <<p>> /\ ~fire
        /\ \/ ~has_byte' /\ Pending' /\ ~send /\ p_byte' = p
           \/ has_byte' /\ data_out' = p /\ ~Pending' /\ ~send
           \/ has_byte' /\ data_out' = p /\ Pending' /\ send /\ p_byte' = b
    BY <1>3, Zenon DEF ChanInv
  <2>2. chan' = IF send THEN <<p, b>> ELSE <<p>>
    BY <1>0, <2>1, Zenon
  <2> QED BY <2>1, <2>2, Zenon DEF ChanInv
<1>4. CASE ~has_byte /\ ~Pending
  <2>1. chan = <<>> /\ ~fire /\ ~has_byte'
        /\ ((~Pending' /\ ~send) \/ (Pending' /\ send /\ p_byte' = b))
    BY <1>4, Zenon DEF ChanInv
  <2>2. chan' = IF send THEN <<b>> ELSE <<>>
    BY <1>0, <2>1, Zenon
  <2> QED BY <2>1, <2>2, Zenon DEF ChanInv
<1> QED BY <1>1, <1>2, <1>3, <1>4

(* One cycle keeps the receiver in step with the peer.                     *)
LEMMA InStepNext ==
  ASSUME ReceiverInv, LinkTypeOK, PeerIntact, InStep,
         NEW t \in PEER_SYMBOL_TIMES, NEW valid \in BOOLEAN, NEW b \in Byte, NEW ready \in BOOLEAN,
         LinkCycle(t, FALSE, valid, b, ready), synced'
  PROVE  InStep'
<1> USE SampleTime
<1>0. /\ p_time = t /\ p_time' = p_time /\ RxCycle(FALSE, serial_in_reg, ready)
      /\ Peer(t)!TxCycle(FALSE, valid, b) /\ serial_in_reg' = Peer(t)!serial_out
      /\ has_byte /\ age = READ_WITHIN => ready
      /\ serial_in_reg \in Bit /\ age \in 0..READ_WITHIN
  BY DEF LinkCycle, RegisterR, LinkTypeOK
<1>1. /\ LineInv /\ StepInv /\ SampleInv /\ AgeInv /\ ChanInv
  BY DEF InStep
<1>2. /\ t \in Nat /\ t > 2 /\ DoneAt \in Nat /\ DoneAt <= 10 * t /\ 9 * t < DoneAt /\ DoneAt > 2
      /\ READ_WITHIN \in Nat /\ 9 * SYMBOL_EDGE_TIME + READ_WITHIN <= 10 * t
      /\ SYMBOL_EDGE_TIME \in Nat /\ SAMPLE_TIME \in Nat
  BY Timing, SymbolAssumption
<1>3. /\ elapsed \in Nat /\ elapsed' \in Nat /\ elapsed <= 10 * t
      /\ p_bits = 0 => elapsed = 10 * t
      /\ p_bits = 0 /\ valid => elapsed' = 0 /\ p_bits' # 0 /\ p_byte' = b
      /\ p_bits = 0 /\ ~valid => elapsed' = elapsed /\ p_bits' = 0 /\ p_byte' = p_byte
      /\ p_bits # 0 => elapsed < 10 * t /\ elapsed' = elapsed + 1 /\ p_byte' = p_byte
  BY <1>0, ElapsedStep
<1>4. /\ position \in Nat /\ position <= DoneAt - 2
      /\ start /\ ~done => position < DoneAt - 2
      /\ done => start /\ position = DoneAt - 2
      /\ ~start => /\ position = 0 /\ position' = 0 /\ ~done /\ rx_shift' = rx_shift
                   /\ start' = (serial_in_reg = 0)
      /\ start /\ ~done => position' = position + 1 /\ start'
      /\ done => ~start'
      /\ has_byte' = (~data_out_fire(ready) /\ (done \/ has_byte))
      /\ start \in BOOLEAN /\ has_byte \in BOOLEAN
  BY <1>0, PositionStep
<1>5. LineInv'
  <2>1. /\ elapsed' = 0 => Peer(t)!serial_out = 1
        /\ \A k \in 0..9 : k * t < elapsed' /\ elapsed' <= (k + 1) * t
                             => Peer(t)!serial_out = Symbol(p_byte', k)
    BY <1>0, ElapsedStep
  <2>2. LineInv' <=> /\ elapsed' = 0 => serial_in_reg' = 1
                     /\ \A k \in 0..9 : k * p_time' < elapsed' /\ elapsed' <= (k + 1) * p_time'
                                          => serial_in_reg' = Symbol(p_byte', k)
    BY DEF LineInv, Symbol
  <2> QED BY <1>0, <2>1, <2>2, Zenon
<1>6. /\ age' = IF has_byte /\ ~data_out_fire(ready) /\ age < READ_WITHIN THEN age + 1 ELSE 0
      /\ chan' = (IF data_out_fire(ready) /\ chan # <<>> THEN Tail(chan) ELSE chan)
                 \o (IF valid /\ p_bits = 0 THEN <<b>> ELSE <<>>)
  BY <1>0 DEF LinkCycle, Observe, Peer!data_in_ready, Peer!tx_running
<1>7. data_out_fire(ready) => has_byte
  BY DEF data_out_fire, data_out_valid
(* The line is high when the receiver waits past a frame.                  *)
<1>8. elapsed > 9 * t => serial_in_reg = 1
  <2>1. SUFFICES ASSUME elapsed > 9 * t PROVE serial_in_reg = 1
    OBVIOUS
  <2>2. 9 * p_time < elapsed /\ elapsed <= (9 + 1) * p_time /\ 9 \in 0..9
    BY <1>0, <1>2, <1>3, <2>1
  <2>3. serial_in_reg = Symbol(p_byte, 9)
    BY <1>1, <2>2 DEF LineInv
  <2> QED BY <2>3 DEF Symbol
<1>9. elapsed = 1 => serial_in_reg = 0
  <2>1. SUFFICES ASSUME elapsed = 1 PROVE serial_in_reg = 0
    OBVIOUS
  <2>2. 0 * p_time < elapsed /\ elapsed <= (0 + 1) * p_time /\ 0 \in 0..9
    BY <1>0, <1>2, <2>1
  <2>3. serial_in_reg = Symbol(p_byte, 0)
    BY <1>1, <2>2 DEF LineInv
  <2> QED BY <2>3 DEF Symbol
<1>10. elapsed = 0 => serial_in_reg = 1
  BY <1>1 DEF LineInv
<1>11. StepInv' /\ (start' /\ ~start => elapsed = 1)
  <2>1. CASE ~start
    <3>1. elapsed <= 1 \/ elapsed > DoneAt \/ p_bits = 0
      BY <1>1, <2>1 DEF StepInv
    <3>2. CASE elapsed = 1
      <4>1. start' /\ elapsed' = 2 /\ position' = 0
        <5>1. start' /\ position' = 0
          BY <1>4, <1>9, <2>1, <3>2, Zenon
        <5>2. elapsed' = 2
          BY <1>2, <1>3, <3>2
        <5> QED BY <5>1, <5>2
      <4> QED BY <3>2, <4>1 DEF StepInv
    <3>3. CASE elapsed = 0
      <4>1. ~start' /\ elapsed' = 1
        BY <1>2, <1>3, <1>4, <1>10, <2>1, <3>3
      <4> QED BY <4>1 DEF StepInv
    <3>4. CASE elapsed > 1
      <4>1. elapsed > 9 * t
        BY <1>2, <1>3, <3>1, <3>4
      <4>2. ~start'
        BY <1>4, <1>8, <2>1, <4>1
      <4>3. elapsed' <= 1 \/ elapsed' > DoneAt \/ p_bits' = 0
        BY <1>2, <1>3, <3>1, <3>4
      <4> QED BY <4>2, <4>3 DEF StepInv
    <3> QED BY <1>3, <3>2, <3>3, <3>4
  <2>2. CASE start /\ ~done
    <3>1. elapsed = position + 2 /\ p_bits # 0
      BY <1>1, <1>2, <1>3, <1>4, <2>2 DEF StepInv
    <3>2. start' /\ elapsed' = position' + 2
      BY <1>3, <1>4, <2>2, <3>1
    <3> QED BY <2>2, <3>2 DEF StepInv
  <2>3. CASE done
    <3>1. elapsed = DoneAt /\ ~start'
      BY <1>1, <1>2, <1>4, <2>3 DEF StepInv
    <3>2. elapsed' <= 1 \/ elapsed' > DoneAt \/ p_bits' = 0
      BY <1>2, <1>3, <3>1
    <3> QED BY <1>4, <2>3, <3>1, <3>2 DEF StepInv
  <2> QED BY <1>4, <2>1, <2>2, <2>3
<1>12. SampleInv'
  <2>1. CASE p_byte' = p_byte
    BY <1>0, <1>1, <2>1, SampleStep
  <2>2. CASE p_byte' # p_byte
    <3>1. p_bits = 0 /\ elapsed = 10 * t
      BY <1>3, <2>2
    <3>2. ~start'
      <4>1. CASE ~start
        BY <1>2, <1>11, <3>1, <4>1
      <4>2. CASE start
        <5>1. done
          BY <1>1, <1>2, <1>4, <3>1, <4>2 DEF StepInv
        <5> QED BY <1>4, <5>1
      <4> QED BY <4>1, <4>2
    <3> QED BY <3>2 DEF SampleInv
  <2> QED BY <2>1, <2>2
(* A byte that waits while the next frame comes in has run out of time by  *)
(* the first sample.                                                       *)
<1>13. has_byte /\ start => 10 * t + position + 2 <= age + DoneAt
  <2> SUFFICES ASSUME has_byte, start PROVE 10 * t + position + 2 <= age + DoneAt
    OBVIOUS
  <2>1. Pending
    BY DEF Pending
  <2>2. 10 * p_time + elapsed <= age + DoneAt
    BY <1>1, <2>1 DEF AgeInv
  <2>3. elapsed = position + 2
    BY <1>1 DEF StepInv
  <2> QED BY <1>0, <1>2, <1>4, <2>2, <2>3
<1>14. has_byte /\ sample_time => data_out_fire(ready)
  <2> SUFFICES ASSUME has_byte, sample_time PROVE data_out_fire(ready)
    OBVIOUS
  <2>1. clock_counter = SAMPLE_TIME - 1 /\ bit_counter \in 0..9 /\ start
    BY DEF sample_time, ReceiverInv, RxTypeOK, StaysInFrame
  <2>2. bit_counter * SYMBOL_EDGE_TIME \in Nat
    BY <1>2, <2>1
  <2>3. position >= SAMPLE_TIME - 1
    BY <1>2, <2>1, <2>2 DEF position
  <2>4. age = READ_WITHIN
    BY <1>0, <1>2, <1>4, <1>13, <2>1, <2>3 DEF DoneAt
  <2> QED BY <1>0, <2>4 DEF data_out_fire, data_out_valid
<1>15. done => ~has_byte
  <2> SUFFICES ASSUME done, has_byte PROVE FALSE
    OBVIOUS
  <2>1. 10 * t + DoneAt <= age + DoneAt
    BY <1>2, <1>4, <1>13
  <2> QED BY <1>0, <1>2, <2>1, SymbolAssumption
<1>16. AgeInv'
  <2>1. CASE ~done
    <3> SUFFICES ASSUME has_byte'
                 PROVE  IF Pending' THEN 10 * p_time' + elapsed' <= age' + DoneAt
                                    ELSE elapsed' <= age' + DoneAt + 1
      BY DEF AgeInv, DoneAt
    <3>1. has_byte /\ ~data_out_fire(ready)
      BY <1>4, <2>1, Zenon
    <3>2. age' = age + 1
      BY <1>0, <1>2, <1>6, <3>1 DEF data_out_fire, data_out_valid
    <3>3. CASE start \/ elapsed <= 1
      <4>1. 10 * t + elapsed <= age + DoneAt
        BY <1>0, <1>1, <3>1, <3>3 DEF AgeInv, Pending
      <4>2. elapsed' = elapsed + 1
        <5>1. CASE start
          BY <1>1, <1>2, <1>3, <1>4, <2>1, <5>1 DEF StepInv
        <5>2. CASE elapsed <= 1
          BY <1>2, <1>3, <5>2
        <5> QED BY <3>3, <5>1, <5>2
      <4> QED BY <1>0, <1>2, <1>3, <3>2, <4>1, <4>2
    <3>4. CASE ~start /\ ~(elapsed <= 1)
      <4>1. elapsed <= age + DoneAt + 1 /\ ~start'
        BY <1>1, <1>3, <1>11, <3>1, <3>4 DEF AgeInv, Pending
      <4>2. CASE elapsed' = 0
        BY <1>0, <1>2, <1>3, <3>2, <4>1, <4>2
      <4>3. CASE elapsed' # 0
        <5>1. elapsed' > 1 /\ elapsed' <= elapsed + 1
          BY <1>3, <3>4, <4>3
        <5>2. ~Pending'
          BY <1>3, <4>1, <5>1 DEF Pending
        <5> QED BY <1>0, <1>2, <1>3, <3>2, <4>1, <5>1, <5>2
      <4> QED BY <4>2, <4>3
    <3> QED BY <3>3, <3>4
  <2>2. CASE done
    <3>1. age' = 0 /\ ~start' /\ elapsed = DoneAt
      BY <1>1, <1>2, <1>4, <1>6, <1>15, <2>2 DEF StepInv
    <3>2. CASE elapsed' = 0
      <4>1. 10 * p_time' + elapsed' <= age' + DoneAt /\ Pending'
        BY <1>0, <1>2, <1>3, <3>1, <3>2 DEF Pending
      <4> QED BY <4>1 DEF AgeInv, DoneAt
    <3>3. CASE elapsed' # 0
      <4>1. elapsed' <= age' + DoneAt + 1 /\ elapsed' > 1
        BY <1>2, <1>3, <3>1, <3>3
      <4>2. ~Pending'
        BY <1>3, <3>1, <4>1 DEF Pending
      <4> QED BY <4>1, <4>2 DEF AgeInv, DoneAt
    <3> QED BY <3>2, <3>3
  <2> QED BY <2>1, <2>2
<1>17. ChanInv'
  <2> DEFINE fire == data_out_fire(ready)
             send == valid /\ p_bits = 0
  <2>0. fire \in BOOLEAN /\ send \in BOOLEAN /\ (fire => has_byte) /\ has_byte \in BOOLEAN
    BY <1>4, <1>7 DEF data_out_fire, data_out_valid
  <2>1. CASE ~done
    <3>1. has_byte' = (has_byte /\ ~fire)
      BY <1>4, <2>1, Zenon
    <3>2. has_byte' => data_out' = data_out
      <4>1. has_byte' => ~sample_time
        BY <1>14, <3>1, Zenon
      <4>2. ~sample_time => rx_shift' = rx_shift
        BY <1>0 DEF RxCycle, RegisterCE
      <4> QED BY <4>1, <4>2 DEF data_out
    <3>3. \/ Pending /\ Pending' /\ ~send /\ p_byte' = p_byte
          \/ ~Pending /\ ~Pending' /\ ~send
          \/ ~Pending /\ Pending' /\ send /\ p_byte' = b
      <4>1. CASE start
        <5>1. start' /\ p_bits # 0
          BY <1>1, <1>2, <1>3, <1>4, <2>1, <4>1 DEF StepInv
        <5> QED BY <1>3, <4>1, <5>1 DEF Pending
      <4>2. CASE ~start /\ elapsed = 0
        <5>1. p_bits # 0 /\ elapsed' = 1
          BY <1>2, <1>3, <4>2
        <5>2. Pending /\ Pending'
          BY <4>2, <5>1 DEF Pending
        <5> QED BY <1>3, <5>1, <5>2
      <4>3. CASE ~start /\ elapsed = 1
        <5>1. p_bits # 0 /\ start'
          <6>1. p_bits # 0
            BY <1>2, <1>3, <4>3
          <6>2. start'
            BY <1>4, <1>9, <4>3, Zenon
          <6> QED BY <6>1, <6>2
        <5>2. Pending /\ Pending'
          BY <4>3, <5>1 DEF Pending
        <5> QED BY <1>3, <5>1, <5>2
      <4>4. CASE ~start /\ elapsed > 1
        <5>1. ~start' /\ ~Pending
          BY <1>3, <1>4, <1>11, <4>4 DEF Pending
        <5>2. CASE send
          <6>1. elapsed' = 0 /\ p_byte' = b
            BY <1>3, <5>2
          <6>2. Pending'
            BY <6>1 DEF Pending
          <6> QED BY <5>1, <5>2, <6>1, <6>2
        <5>3. CASE ~send
          <6>1. elapsed' > 1 /\ elapsed' \in Nat
            BY <1>3, <4>4, <5>3
          <6>2. ~Pending'
            BY <5>1, <6>1 DEF Pending
          <6> QED BY <5>1, <5>3, <6>2
        <5> QED BY <5>2, <5>3
      <4> QED BY <1>3, <1>4, <4>1, <4>2, <4>3, <4>4
    <3> HIDE DEF fire, send
    <3>4. chan' = (IF fire /\ chan # <<>> THEN Tail(chan) ELSE chan)
                  \o (IF send THEN <<b>> ELSE <<>>)
      BY <1>6 DEF fire, send
    <3> QED BY <1>1, <2>0, <3>1, <3>2, <3>3, <3>4, ChanStep
  <2>2. CASE done
    <3>1. ~has_byte /\ has_byte' /\ start /\ ~start' /\ elapsed = DoneAt
      <4>1. ~has_byte /\ ~fire
        BY <1>7, <1>15, <2>2
      <4>2. has_byte'
        BY <1>4, <2>2, <4>1, Zenon
      <4> QED BY <1>1, <1>2, <1>4, <2>2, <4>1, <4>2 DEF StepInv
    <3>2. data_out' = p_byte
      BY <1>0, <1>1, <2>2, SampleStep
    <3>3. Pending
      BY <3>1 DEF Pending
    <3>4. (~Pending' /\ ~send) \/ (Pending' /\ send /\ p_byte' = b)
      <4>1. CASE send
        <5>1. elapsed' = 0 /\ p_byte' = b
          BY <1>3, <4>1
        <5>2. Pending'
          BY <5>1 DEF Pending
        <5> QED BY <4>1, <5>1, <5>2
      <4>2. CASE ~send
        <5>1. elapsed' > 1 /\ elapsed' \in Nat
          BY <1>2, <1>3, <3>1, <4>2
        <5>2. ~Pending'
          BY <3>1, <5>1 DEF Pending
        <5> QED BY <4>2, <5>2
      <4> QED BY <4>1, <4>2
    <3> HIDE DEF fire, send
    <3>5. chan' = (IF fire /\ chan # <<>> THEN Tail(chan) ELSE chan)
                  \o (IF send THEN <<b>> ELSE <<>>)
      BY <1>6 DEF fire, send
    <3> QED BY <1>1, <2>0, <3>1, <3>2, <3>3, <3>4, <3>5, ChanStep
  <2> QED BY <2>1, <2>2
<1> QED BY <1>5, <1>11, <1>12, <1>16, <1>17 DEF InStep

(* Before a frame, and after a pause.                                      *)
LEMMA IdleInStep ==
  ASSUME LinkTypeOK, p_bits = 0, serial_in_reg = 1, ~start, ~has_byte, chan = <<>>
  PROVE  InStep
<1>1. p_time \in Nat /\ p_time > 2 /\ elapsed = 10 * p_time
  BY Timing DEF LinkTypeOK, elapsed
<1>2. LineInv
  <2> SUFFICES ASSUME NEW k \in 0..9, 10 * p_time <= (k + 1) * p_time PROVE Symbol(p_byte, k) = 1
    BY <1>1 DEF LineInv
  <2>1. 10 * p_time = (k + 1) * p_time + (9 - k) * p_time /\ (k = 9 \/ (9 - k) * p_time > 0)
    BY <1>1
  <2>2. k = 9
    BY <1>1, <2>1
  <2> QED BY <2>2 DEF Symbol
<1>3. StepInv /\ SampleInv /\ AgeInv
  BY DEF StepInv, SampleInv, AgeInv
<1>4. ~Pending
  BY <1>1 DEF Pending
<1>5. ChanInv
  BY <1>4 DEF ChanInv
<1> QED BY <1>2, <1>3, <1>5 DEF InStep

LEMMA PositionBound ==
  ASSUME ReceiverInv
  PROVE  position \in Nat /\ position + 2 < QUIET
<1> USE SymbolAssumption, SampleTime
<1>1. /\ bit_counter \in 0..9 /\ clock_counter \in 0..(SYMBOL_EDGE_TIME - 1)
      /\ bit_counter = 9 => clock_counter < SAMPLE_TIME
  BY DEF ReceiverInv, RxTypeOK, StaysInFrame
<1>2. SAMPLE_TIME + 2 <= SYMBOL_EDGE_TIME
  BY DEF SAMPLE_TIME
<1>3. CASE bit_counter = 9
  BY <1>1, <1>2, <1>3 DEF position, QUIET
<1>4. CASE bit_counter # 9
  <2>1. PICK f \in Nat : f = bit_counter * SYMBOL_EDGE_TIME
    BY <1>1
  <2>2. (8 - bit_counter) * SYMBOL_EDGE_TIME \in Nat
        /\ 8 * SYMBOL_EDGE_TIME = f + (8 - bit_counter) * SYMBOL_EDGE_TIME
    BY <1>1, <1>4, <2>1
  <2> QED BY <1>1, <2>1, <2>2 DEF position, QUIET
<1> QED BY <1>3, <1>4

LEMMA LinkInitInv == LinkInit => LinkInv /\ synced
<1> SUFFICES ASSUME LinkInit PROVE LinkInv /\ synced
  OBVIOUS
<1> USE DEF LinkInit
<1>1. ReceiverInv
  BY ReceiverInitial
<1>2. PICK t \in PEER_SYMBOL_TIMES : p_time = t /\ Peer(t)!TxInit
  OBVIOUS
<1>3. /\ p_clock = 0 /\ p_bits = 0 /\ p_shift = [i \in 0..9 |-> 0] /\ p_byte \in Byte
  BY <1>2 DEF Peer!TxInit
<1>4. t \in Nat /\ t > 2 /\ QUIET \in Nat
  BY <1>2, Timing, SymbolAssumption DEF QUIET
<1>5. LinkTypeOK
  <2>1. p_clock \in 0..(p_time - 1) /\ p_bits \in 0..10 /\ serial_in_reg \in Bit
        /\ age \in 0..READ_WITHIN /\ quiet \in 0..QUIET /\ p_time \in PEER_SYMBOL_TIMES
    BY <1>2, <1>3, <1>4, LinkAssumption DEF Bit
  <2>2. p_shift \in [0..9 -> Bit]
    BY <1>3 DEF Bit
  <2>3. synced \in BOOLEAN
    OBVIOUS
  <2> QED BY <1>3, <2>1, <2>2, <2>3 DEF LinkTypeOK
<1>6. PeerIntact
  BY <1>3 DEF PeerIntact
<1>7. serial_in_reg = 1 /\ ~start /\ ~has_byte /\ chan = <<>>
  BY DEF RxInit
<1>8. QuietInv
  BY <1>7 DEF QuietInv
<1>9. InStep
  BY <1>3, <1>5, <1>7, IdleInStep
<1> QED BY <1>1, <1>5, <1>6, <1>8, <1>9 DEF LinkInv

LEMMA LinkNextInv ==
  ASSUME LinkInv, LinkNext
  PROVE  LinkInv' /\ (RESETS = {FALSE} /\ synced => synced')
<1> USE DEF LinkInv
<1>0. PICK t \in PEER_SYMBOL_TIMES, reset \in RESETS, valid \in BOOLEAN, b \in Byte, ready \in BOOLEAN :
        LinkCycle(t, reset, valid, b, ready)
  BY DEF LinkNext
<1>1. /\ p_time = t /\ p_time' = p_time /\ RxCycle(reset, serial_in_reg, ready)
      /\ Peer(t)!TxCycle(FALSE, valid, b)
      /\ serial_in_reg' = IF reset THEN 1 ELSE Peer(t)!serial_out
      /\ Observe(t, reset, valid, b, ready)
      /\ has_byte /\ age = READ_WITHIN => ready
      /\ reset \in BOOLEAN /\ serial_in_reg \in Bit
  BY <1>0, LinkAssumption DEF LinkCycle, RegisterR, LinkTypeOK
<1>2. ReceiverInv'
  BY <1>1, ReceiverStep
<1>3. /\ p_clock' \in 0..(p_time' - 1) /\ p_bits' \in 0..10
      /\ p_shift' \in [0..9 -> Bit] /\ p_byte' \in Byte /\ PeerIntact'
      /\ Peer(t)!serial_out \in Bit
      /\ p_bits = 0 => Peer(t)!serial_out = 1
  BY <1>1, PeerStep
<1>4. /\ age' = IF has_byte /\ ~data_out_fire(ready) /\ age < READ_WITHIN THEN age + 1 ELSE 0
      /\ quiet' = IF reset \/ p_bits # 0 THEN 0 ELSE IF quiet < QUIET THEN quiet + 1 ELSE QUIET
      /\ synced' = (~reset /\ (synced \/ (quiet = QUIET /\ p_bits = 0 /\ ~has_byte)))
      /\ ~synced' => chan' = <<>>
  BY <1>1 DEF Observe, Peer!tx_running
<1>5. /\ age \in 0..READ_WITHIN /\ quiet \in 0..QUIET /\ synced \in BOOLEAN
      /\ READ_WITHIN \in Nat /\ QUIET \in Nat /\ QUIET > 2
  BY LinkAssumption, SymbolAssumption DEF LinkTypeOK, QUIET
<1>6. LinkTypeOK'
  <2>1. age' \in 0..READ_WITHIN
    BY <1>4, <1>5
  <2>2. quiet' \in 0..QUIET
    BY <1>4, <1>5
  <2>3. serial_in_reg' \in Bit
    BY <1>1, <1>3 DEF Bit
  <2>4. synced' \in BOOLEAN
    BY <1>4, <1>5, Zenon
  <2>5. QUIET' = QUIET /\ p_time' \in PEER_SYMBOL_TIMES
    BY <1>1 DEF QUIET
  <2> QED BY <1>1, <1>3, <2>1, <2>2, <2>3, <2>4, <2>5 DEF LinkTypeOK
<1>7. QuietInv'
  <2>1. serial_in_reg' = 0 => quiet' <= 1
    BY <1>1, <1>3, <1>4
  <2>2. start' => quiet' <= position' + 2
    <3>1. CASE reset
      <4>1. quiet' = 0
        BY <1>1, <1>4, <3>1
      <4>2. bit_counter' = 0 /\ clock_counter' = 0
        BY <1>1, <3>1 DEF RxCycle, RegisterRCE
      <4>3. position' = 0
        BY <4>2, SymbolAssumption DEF position
      <4> QED BY <4>1, <4>3
    <3>2. CASE ~reset
      <4>1. RxCycle(FALSE, serial_in_reg, ready)
        BY <1>1, <3>2
      <4>2. /\ position \in Nat
            /\ ~start => position' = 0 /\ start' = (serial_in_reg = 0)
            /\ start /\ ~done => position' = position + 1
            /\ done => ~start'
        BY <1>1, <4>1, PositionStep
      <4>3. quiet' <= quiet + 1 /\ quiet' \in Nat
        BY <1>4, <1>5
      <4>4. CASE ~start
        <5>1. start' => quiet <= 1
          BY <4>2, <4>4, Zenon DEF QuietInv
        <5> QED BY <1>5, <4>2, <4>3, <4>4, <5>1
      <4>5. CASE start
        <5>1. quiet <= position + 2
          BY <4>5 DEF QuietInv
        <5> QED BY <1>5, <4>2, <4>3, <4>5, <5>1
      <4> QED BY <4>4, <4>5
    <3> QED BY <1>1, <3>1, <3>2
  <2> QED BY <2>1, <2>2 DEF QuietInv
<1>8. synced' => InStep'
  <2> SUFFICES ASSUME synced' PROVE InStep'
    OBVIOUS
  <2>1. ~reset /\ LinkCycle(t, FALSE, valid, b, ready)
    <3>1. ~reset
      BY <1>4, Zenon
    <3>2. reset = FALSE
      BY <1>1, <3>1
    <3> QED BY <1>0, <3>1, <3>2
  <2>2. InStep
    <3>1. CASE synced
      BY <3>1
    <3>2. CASE ~synced
      <4>1. quiet = QUIET /\ p_bits = 0 /\ ~has_byte /\ chan = <<>>
        BY <1>4, <3>2, Zenon
      <4>2. serial_in_reg = 1
        BY <1>1, <1>5, <4>1 DEF QuietInv, Bit
      <4>3. ~start
        BY <1>5, <4>1, PositionBound DEF QuietInv
      <4> QED BY <4>1, <4>2, <4>3, IdleInStep
    <3> QED BY <3>1, <3>2
  <2> QED BY <2>1, <2>2, InStepNext
<1>9. RESETS = {FALSE} /\ synced => synced'
  <2>1. RESETS = {FALSE} => ~reset
    OBVIOUS
  <2> QED BY <1>4, <2>1, Zenon
<1> QED BY <1>2, <1>3, <1>4, <1>6, <1>7, <1>8, <1>9

LEMMA LinkStutter == LinkInv /\ UNCHANGED linkVars => LinkInv'
<1> SUFFICES ASSUME LinkInv, UNCHANGED linkVars PROVE LinkInv'
  OBVIOUS
<1>1. /\ UNCHANGED <<rx_shift, bit_counter, clock_counter, has_byte, start>>
      /\ UNCHANGED <<p_time, p_clock, p_bits, p_shift, p_byte>>
      /\ UNCHANGED <<serial_in_reg, age, chan, quiet, synced>>
  BY DEF linkVars, peerVars
<1>2. ReceiverInv' = ReceiverInv /\ LinkTypeOK' = LinkTypeOK /\ PeerIntact' = PeerIntact
  BY <1>1, Zenon DEF ReceiverInv, RxTypeOK, StaysInFrame, LinkTypeOK, PeerIntact, Symbol, QUIET
<1>3. UNCHANGED <<position, elapsed, DoneAt, Pending, Sampled, data_out>>
  BY <1>1, Zenon DEF position, elapsed, DoneAt, Pending, Sampled, data_out
<1>4. QuietInv' = QuietInv /\ InStep' = InStep
  <2>1. QuietInv' = QuietInv /\ StepInv' = StepInv
    BY ONLY <1>1, <1>3, Zenon DEF QuietInv, StepInv
  <2>2. LineInv' = LineInv
    BY ONLY <1>1, <1>3, Zenon DEF LineInv, Symbol
  <2>3. SampleInv' = SampleInv
    BY ONLY <1>1, <1>3, Zenon DEF SampleInv, Symbol
  <2>4. AgeInv' = AgeInv /\ ChanInv' = ChanInv
    BY ONLY <1>1, <1>3, Zenon DEF AgeInv, ChanInv
  <2> QED BY ONLY <2>1, <2>2, <2>3, <2>4, Zenon DEF InStep
<1> QED BY <1>1, <1>2, <1>4, Zenon DEF LinkInv

LEMMA LinkInvariant == LinkSpec => []LinkInv
<1>1. LinkInit => LinkInv
  BY LinkInitInv
<1>2. LinkInv /\ [LinkNext]_linkVars => LinkInv'
  BY LinkNextInv, LinkStutter
<1> QED BY <1>1, <1>2, PTL DEF LinkSpec

(* Whenever the receiver is reset, a pause of one frame leaves no frame in *)
(* progress: the next 0 on the line is a start bit.                        *)
THEOREM LinkResynchronises == LinkSpec => []Resynchronises
<1>1. LinkInv => Resynchronises
  <2> SUFFICES ASSUME LinkInv, quiet = QUIET, start PROVE FALSE
    BY DEF Resynchronises
  <2>1. QUIET <= position + 2 /\ ReceiverInv
    BY DEF LinkInv, QuietInv
  <2> QED BY <2>1, PositionBound, SymbolAssumption DEF QUIET
<1> QED BY <1>1, LinkInvariant, PTL

(* Every read of a line in step returns the oldest byte sent and not read. *)
THEOREM LinkReadsOldest == LinkSpec => ReadsOldest
<1>1. ASSUME LinkInv, [LinkNext]_linkVars, synced, turn' # turn
      PROVE  chan # <<>> /\ got' = Head(chan)
  <2>1. PICK t \in PEER_SYMBOL_TIMES, reset \in RESETS, valid \in BOOLEAN, b \in Byte, ready \in BOOLEAN :
          LinkCycle(t, reset, valid, b, ready)
    BY <1>1 DEF LinkNext, linkVars
  <2>2. has_byte /\ synced /\ got' = data_out
    BY <1>1, <2>1 DEF LinkCycle, Observe, data_out_fire, data_out_valid
  <2>3. chan = <<data_out, p_byte>> \/ chan = <<data_out>>
    BY <1>1, <2>2, Zenon DEF LinkInv, InStep, ChanInv
  <2> QED BY <2>2, <2>3, ShortSequences
<1>2. LinkInv /\ [LinkNext]_linkVars => [synced /\ turn' # turn => chan # <<>> /\ got' = Head(chan)]_linkVars
  BY <1>1
<1> QED BY <1>2, LinkInvariant, PTL DEF LinkSpec, ReadsOldest

(* Without resets the line, the receiver and the program behind them are a *)
(* FIFO of two bytes: each cycle sends a byte into it, delivers the oldest,*)
(* does both, or leaves it alone.  DeliversInOrder's liveness is TLC's.    *)
THEOREM LinkIsFifo ==
  ASSUME RESETS = {FALSE}
  PROVE  LinkSpec => Channel!ChanInit /\ [][Channel!ChanNext]_(Channel!chanVars)
<1> DEFINE Inv == LinkInv /\ synced
<1>1. LinkInit => Inv
  BY LinkInitInv
<1>2. Inv /\ [LinkNext]_linkVars => Inv'
  <2>1. CASE LinkNext
    BY <2>1, LinkNextInv
  <2>2. CASE UNCHANGED linkVars
    BY <2>2, LinkStutter DEF linkVars
  <2> QED BY <2>1, <2>2
<1>3. LinkInit => Channel!ChanInit
  <2> SUFFICES ASSUME LinkInit PROVE Channel!ChanInit
    OBVIOUS
  <2>1. PICK t \in PEER_SYMBOL_TIMES : p_time = t /\ Peer(t)!TxInit
    BY DEF LinkInit
  <2>2. p_byte \in Byte
    BY <2>1 DEF Peer!TxInit
  <2> QED BY <2>2 DEF LinkInit, Channel!ChanInit
<1>4. ASSUME Inv, Inv', LinkNext PROVE [Channel!ChanNext]_(Channel!chanVars)
  <2>1. PICK t \in PEER_SYMBOL_TIMES, reset \in RESETS, valid \in BOOLEAN, b \in Byte, ready \in BOOLEAN :
          LinkCycle(t, reset, valid, b, ready)
    BY <1>4 DEF LinkNext
  <2> DEFINE fire == has_byte /\ ready
             send == valid /\ p_bits = 0
             left == IF fire /\ chan # <<>> THEN Tail(chan) ELSE chan
             sent == IF send THEN <<b>> ELSE <<>>
  <2>2. /\ got' = IF fire THEN data_out ELSE got
        /\ turn' = IF fire THEN 1 - turn ELSE turn
        /\ chan' = left \o sent
    BY <1>4, <2>1 DEF LinkCycle, Observe, data_out_fire, data_out_valid,
                      Peer!data_in_ready, Peer!tx_running
  <2>3. InStep /\ ReceiverInv /\ LinkTypeOK
    BY <1>4 DEF LinkInv
  <2>4. CASE fire
    <3>1. chan = <<data_out, p_byte>> \/ chan = <<data_out>>
      BY <2>3, <2>4, Zenon DEF InStep, ChanInv
    <3>2. chan # <<>> /\ Head(chan) = data_out
      BY <3>1, ShortSequences
    <3>3. Channel!Deliver(sent)
      BY <2>2, <2>4, <3>2 DEF Channel!Deliver
    <3>4. sent = <<>> \/ sent = <<b>>
      OBVIOUS
    <3> QED BY <3>3, <3>4, Zenon DEF Channel!ChanNext, Channel!DeliverAny
  <2>5. CASE ~fire /\ send
    <3>1. ~(has_byte /\ Pending)
      <4> SUFFICES ASSUME has_byte, Pending PROVE FALSE
        OBVIOUS
      <4>1. 10 * p_time + elapsed <= age + DoneAt /\ elapsed = 10 * p_time
        BY <2>3, <2>5 DEF InStep, AgeInv, elapsed
      <4>2. /\ p_time \in Nat /\ DoneAt \in Nat /\ DoneAt <= 10 * p_time
            /\ 9 * SYMBOL_EDGE_TIME + READ_WITHIN <= 10 * p_time
            /\ age \in 0..READ_WITHIN /\ READ_WITHIN \in Nat
        BY <2>3, Timing DEF LinkTypeOK
      <4> QED BY <4>1, <4>2, SymbolAssumption
    <3>2. chan = <<>> \/ chan = <<data_out>> \/ chan = <<p_byte>>
      BY <2>3, <3>1, Zenon DEF InStep, ChanInv
    <3>3. Len(chan) < 2 /\ chan \o <<b>> = Append(chan, b)
      BY <3>2, ShortAppend
    <3>4. chan' = Append(chan, b) /\ got' = got /\ turn' = turn
      BY <2>2, <2>5, <3>3, Zenon
    <3>5. Channel!Send(b)
      BY <3>3, <3>4 DEF Channel!Send
    <3> QED BY <3>5, Zenon DEF Channel!ChanNext
  <2>6. CASE ~fire /\ ~send
    <3>1. chan \o <<>> = chan
      BY <2>3, ShortSequences DEF InStep, ChanInv
    <3> QED BY <2>2, <2>6, <3>1 DEF Channel!chanVars
  <2> QED BY <2>4, <2>5, <2>6
<1>5. Inv /\ Inv' /\ [LinkNext]_linkVars => [Channel!ChanNext]_(Channel!chanVars)
  BY <1>4 DEF linkVars, Channel!chanVars
<1> QED BY <1>1, <1>2, <1>3, <1>5, PTL DEF LinkSpec
=============================================================================
