----------------------------- MODULE ResetChain -----------------------------
(***************************************************************************)
(* The way from the reset button to the processor's reset: the input chain *)
(* of hardware/vsrc/io_circuits/button_parser.v (synchronizer, debouncer,  *)
(* edge detector), one step per clock edge.                                *)
(***************************************************************************)
EXTENDS Eecs151

CONSTANTS SAMPLE_CNT_MAX,   \* cycles between two samples of the button
          PULSE_CNT_MAX     \* samples that make a press

(* $clog2(SAMPLE_CNT_MAX) is a register's width: one cycle is too few.     *)
ASSUME ChainAssumption == /\ SAMPLE_CNT_MAX \in Nat /\ SAMPLE_CNT_MAX >= 2
                          /\ PULSE_CNT_MAX \in Nat \ {0}

VARIABLES
  mid_signal, sync_signal,              \* synchronizer
  wrapping_count, saturating_counter,   \* debouncer
  old_signal,                           \* edge_detector
  held,    \* history: cycles sync_signal has been 1, counted up to a press
  armed    \* history: sync_signal has been 0 since the last pulse

chainVars == <<mid_signal, sync_signal, wrapping_count, saturating_counter,
               old_signal, held, armed>>

Press == SAMPLE_CNT_MAX * PULSE_CNT_MAX

debounced_signal == saturating_counter = PULSE_CNT_MAX
sample_pluse == wrapping_count = SAMPLE_CNT_MAX - 1
edge_detect_pulse == ~old_signal /\ debounced_signal

ChainInit == /\ mid_signal = 0 /\ sync_signal = 0
             /\ wrapping_count = 0 /\ saturating_counter = 0
             /\ old_signal = FALSE
             /\ held = 0 /\ armed = TRUE

Synchronize(in) == mid_signal' = in /\ sync_signal' = mid_signal

(* Mutant: a bounce pauses the count instead of clearing it.               *)
DebouncePausing ==
  /\ wrapping_count' = RegisterR(0, wrapping_count + 1, sample_pluse)
  /\ saturating_counter' =
       RegisterCE(saturating_counter,
                  IF sync_signal = 1 THEN saturating_counter + 1 ELSE 0,
                  sample_pluse /\ (sync_signal = 1 => ~debounced_signal))

Debounce ==
  /\ wrapping_count' = RegisterR(0, wrapping_count + 1, sample_pluse)
  /\ saturating_counter' =
       RegisterRCE(saturating_counter, 0, saturating_counter + 1,
                   sync_signal = 0,
                   ~debounced_signal /\ sample_pluse /\ sync_signal = 1)

(* Mutant: the level is remembered from sampling cycles only.              *)
DetectEdgeOfSample == old_signal' = (debounced_signal /\ sample_pluse)

DetectEdge == old_signal' = debounced_signal

Observe == /\ held' = IF sync_signal = 0 THEN 0
                      ELSE IF held = Press THEN held ELSE held + 1
           /\ armed' = (sync_signal = 0 \/ (armed /\ ~edge_detect_pulse))

ChainCycle(in) == Synchronize(in) /\ Debounce /\ DetectEdge /\ Observe

ChainNext == \E in \in Bit : ChainCycle(in)

ChainSpec == ChainInit /\ [][ChainNext]_chainVars

-----------------------------------------------------------------------------
ChainTypeOK == /\ mid_signal \in Bit /\ sync_signal \in Bit
               /\ wrapping_count \in 0..(SAMPLE_CNT_MAX - 1)
               /\ saturating_counter \in 0..PULSE_CNT_MAX
               /\ old_signal \in BOOLEAN /\ armed \in BOOLEAN
               /\ held \in 0..Press

(* A press counts only when the button has been held without a bounce for  *)
(* all but one sampling period, and always when it has been for the whole  *)
(* of Press cycles, wherever the press falls between two samples.          *)
PressIsHeld == /\ debounced_signal => held > Press - SAMPLE_CNT_MAX
               /\ held = Press => debounced_signal

(* The processor is reset for exactly one cycle of each press: in the      *)
(* first, and never again until the button has been released.              *)
OneResetPerPress == debounced_signal => (edge_detect_pulse <=> armed)
=============================================================================
