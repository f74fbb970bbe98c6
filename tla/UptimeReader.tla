---------------------------- MODULE UptimeReader ----------------------------
(***************************************************************************)
(* hardware/vsrc/io_circuits/timer.v, one step per clock edge, and on it   *)
(* software/abstract-machine/am/src/riscv/npc/timer.c: the 64-bit time is  *)
(* read as two 32-bit loads, the high half first, with any number of       *)
(* cycles between them.                                                    *)
(***************************************************************************)
EXTENDS Eecs151

CONSTANTS NEXT_US,     \* CPU_CLOCK_FREQ / 1_000_000
          US_MODULUS   \* 2^64

(* A clock below 1 MHz would make it zero.                                 *)
ASSUME TimerAssumption == NEXT_US \in Nat \ {0} /\ US_MODULUS \in Nat \ {0}

VARIABLES counter, usCount,
          elapsed    \* history: cycles since reset, modulo the timer's range

timerVars == <<counter, usCount, elapsed>>

nextCounter == counter + 1
nextUs == (usCount + 1) % US_MODULUS

TimerInit == counter = 0 /\ usCount = 0 /\ elapsed = 0

(* Mutant: the counter wraps one cycle late.                               *)
TimerCycleLate(rst) ==
  /\ counter' = RegisterR(0, nextCounter, rst \/ counter = NEXT_US)
  /\ usCount' = RegisterRCE(usCount, 0, nextUs, rst, nextCounter = NEXT_US)
  /\ elapsed' = IF rst THEN 0 ELSE (elapsed + 1) % (NEXT_US * US_MODULUS)

TimerCycle(rst) ==
  /\ counter' = RegisterR(0, nextCounter, rst \/ nextCounter = NEXT_US)
  /\ usCount' = RegisterRCE(usCount, 0, nextUs, rst, nextCounter = NEXT_US)
  /\ elapsed' = IF rst THEN 0 ELSE (elapsed + 1) % (NEXT_US * US_MODULUS)

TimerNext == \E rst \in BOOLEAN : TimerCycle(rst)

TimerSpec == TimerInit /\ [][TimerNext]_timerVars

-----------------------------------------------------------------------------
TimerTypeOK == counter \in 0..(NEXT_US - 1) /\ usCount \in 0..(US_MODULUS - 1)

(* usCount is the number of whole periods of NEXT_US cycles since reset:   *)
(* no cycle is lost or counted twice where the two registers wrap.         *)
TimerExact == elapsed = usCount * NEXT_US + counter

-----------------------------------------------------------------------------
CONSTANTS LOW_MODULUS,     \* 2^32
          READ_WITHIN      \* cycles between the two loads of a reading, at most

(* Two loads of one reading are less than a wrap of the low half apart.    *)
ASSUME ReaderAssumption ==
  /\ LOW_MODULUS \in Nat \ {0} /\ US_MODULUS % LOW_MODULUS = 0
  /\ READ_WITHIN \in Nat /\ READ_WITHIN < NEXT_US * LOW_MODULUS

VARIABLES phase,       \* "idle", or "high": between the loads
          init_done, init_us,
          current_us,  \* the high half loaded
          uptime,      \* us of the last __am_timer_uptime, 0 before the first
          took,        \* history: cycles since the first load
          torn,        \* history: the low half has wrapped since the first load
          init,        \* history: usCount and torn at the end of __am_timer_init
          last         \* history: the same at the end of the last of the two

readerVars == <<phase, init_done, init_us, current_us, uptime, took, torn, init, last>>
uptimeVars == <<timerVars, readerVars>>

TIMERHIGH == usCount \div LOW_MODULUS
TIMERLOW == usCount % LOW_MODULUS
Reading == (current_us * LOW_MODULUS + TIMERLOW) % US_MODULUS
Less(t, u) == (t + US_MODULUS - u) % US_MODULUS

ReaderInit == /\ TimerInit
              /\ phase = "idle" /\ init_done = FALSE
              /\ init_us = 0 /\ current_us = 0 /\ uptime = 0
              /\ took = 0 /\ torn = FALSE
              /\ init = [us |-> 0, torn |-> FALSE] /\ last = init

(* The first load, of __am_timer_init or of __am_timer_uptime.             *)
LoadHigh == /\ phase = "idle"
            /\ phase' = "high" /\ current_us' = TIMERHIGH
            /\ took' = 0 /\ torn' = (TIMERHIGH' # TIMERHIGH)
            /\ UNCHANGED <<init_done, init_us, uptime, init, last>>

(* The second ends the reading.                                            *)
LoadLow == /\ phase = "high"
           /\ phase' = "idle"
           /\ UNCHANGED <<current_us, took, torn>>

__am_timer_init == /\ ~init_done /\ LoadLow
                   /\ init_done' = TRUE /\ init_us' = Reading
                   /\ init' = [us |-> usCount, torn |-> torn] /\ last' = init'
                   /\ UNCHANGED uptime

(* Mutant: the uptime not counted from __am_timer_init.                    *)
UptimeFromReset == /\ init_done /\ LoadLow
                   /\ uptime' = Reading
                   /\ last' = [us |-> usCount, torn |-> torn]
                   /\ UNCHANGED <<init_done, init_us, init>>

__am_timer_uptime == /\ init_done /\ LoadLow
                     /\ uptime' = Less(Reading, init_us)
                     /\ last' = [us |-> usCount, torn |-> torn]
                     /\ UNCHANGED <<init_done, init_us, init>>

(* The instructions between the loads and between the readings.            *)
Computes == /\ phase = "high" => took < READ_WITHIN
            /\ took' = IF phase = "high" THEN took + 1 ELSE took
            /\ torn' = (torn \/ (phase = "high" /\ TIMERHIGH' # TIMERHIGH))
            /\ UNCHANGED <<phase, init_done, init_us, current_us, uptime, init, last>>

(* Reset starts the program anew; its memory keeps init_us.                *)
Restart == /\ TimerCycle(TRUE)
           /\ phase' = "idle" /\ init_done' = FALSE /\ current_us' = 0 /\ uptime' = 0
           /\ took' = 0 /\ torn' = FALSE
           /\ init' = [us |-> 0, torn |-> FALSE] /\ last' = init'
           /\ UNCHANGED init_us

(* Each cycle the timer steps and the program executes one instruction.    *)
UptimeNext == \/ /\ TimerCycle(FALSE)
                 /\ LoadHigh \/ __am_timer_init \/ __am_timer_uptime \/ Computes
              \/ Restart

UptimeSpec == ReaderInit /\ [][UptimeNext]_uptimeVars

-----------------------------------------------------------------------------
(* What tearing can do: a reading during which the low half wraps lags by  *)
(* one wrap, and by no more; so an uptime is short by one when its own     *)
(* reading was torn, long by one, from then on, when the initial one was,  *)
(* and exact otherwise.                                                    *)
Lag(t) == IF t THEN LOW_MODULUS ELSE 0
UptimeOffByCarries ==
  uptime = Less(Less(last.us, init.us) + Lag(init.torn), Lag(last.torn))
=============================================================================
