--------------------------- MODULE SerialSender ---------------------------
(***************************************************************************)
(* What a UART transmitter promises: unless it is reset, a byte taken      *)
(* while the sender is idle occupies the line for ten symbols of           *)
(* SYMBOL_EDGE_TIME cycles each, a 0, the eight data bits from the lowest, *)
(* and a 1; the line is 1 otherwise.  A byte offered meanwhile changes     *)
(* nothing, and only a cycle of reset ends a frame early.                  *)
(***************************************************************************)
EXTENDS Naturals

CONSTANTS SYMBOL_EDGE_TIME,  \* cycles per symbol
          Byte               \* the bytes that may be sent, functions 0..7 -> {0,1}

VARIABLES idle,     \* no frame on the line
          elapsed,  \* cycles since the frame began, 0 when idle
          byte,     \* the byte last taken
          line,     \* the level of the line
          cleared   \* the last cycle was one of reset

senderVars == <<idle, elapsed, byte, line, cleared>>

FrameTime == 10 * SYMBOL_EDGE_TIME

(* The ten symbols of a frame, start bit first.                            *)
FrameOf(b) == [i \in 0..9 |-> IF i = 0 THEN 0 ELSE IF i = 9 THEN 1 ELSE b[i - 1]]

(* The level of the line n cycles into the frame of b.                     *)
LevelAt(b, n) == FrameOf(b)[n \div SYMBOL_EDGE_TIME]

SenderInit == /\ idle = TRUE /\ elapsed = 0 /\ byte \in Byte /\ line = 1
              /\ cleared = FALSE

Rest == /\ idle
        /\ cleared' = FALSE
        /\ UNCHANGED <<idle, elapsed, byte, line>>

Take(b) == /\ idle
           /\ idle' = FALSE
           /\ elapsed' = 0
           /\ byte' = b
           /\ line' = LevelAt(b, 0)
           /\ cleared' = FALSE

Advance == /\ ~idle
           /\ elapsed + 1 < FrameTime
           /\ elapsed' = elapsed + 1
           /\ line' = LevelAt(byte, elapsed + 1)
           /\ cleared' = FALSE
           /\ UNCHANGED <<idle, byte>>

Finish == /\ ~idle
          /\ elapsed + 1 = FrameTime
          /\ idle' = TRUE
          /\ elapsed' = 0
          /\ line' = 1
          /\ cleared' = FALSE
          /\ UNCHANGED byte

Abort == /\ cleared' = TRUE
         /\ idle' = TRUE
         /\ elapsed' = 0
         /\ line' = 1
         /\ UNCHANGED byte

SenderNext == Rest \/ (\E b \in Byte : Take(b)) \/ Advance \/ Finish \/ Abort

SenderSpec == SenderInit /\ [][SenderNext]_senderVars

=============================================================================
