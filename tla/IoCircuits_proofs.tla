------------------------- MODULE IoCircuits_proofs --------------------------
(***************************************************************************)
(* The transmitter, the timer and the reading of it, the button chain.     *)
(*                                                                         *)
(* For every symbol time and every set of bytes the transmitter's          *)
(* registers stay in range, the frame in the shifter is never disturbed,   *)
(* and the transmitter implements SerialSender.                            *)
(*                                                                         *)
(* TimerTypeOK and TimerExact for every clock frequency and timer width.   *)
(* Their conjunction is inductive: TimerExact places elapsed in its range, *)
(* and the type bound on counter makes the two registers wrap together.    *)
(*                                                                         *)
(* UptimeOffByCarries for every width of the halves and every time between *)
(* two loads that is less than a wrap of the low half. A reading under way *)
(* has seen at most one carry (ReadingInv): after one, fewer cycles have   *)
(* passed since than since the first load, too few for another.            *)
(***************************************************************************)
EXTENDS UartTransmitter, UptimeReader, ResetChain, Integers, TLAPS

TimerInv == TimerTypeOK /\ TimerExact

LEMMA ModBelow == ASSUME NEW m \in Nat \ {0}, NEW x \in 0..(m - 1)
                  PROVE  x % m = x
  OBVIOUS

LEMMA ModSelf == ASSUME NEW m \in Nat \ {0} PROVE m % m = 0
  OBVIOUS

(* The place of counter within the period usCount counts.                  *)
LEMMA Position ==
  ASSUME NEW n \in Nat \ {0}, NEW m \in Nat \ {0},
         NEW u \in 0..(m - 1), NEW c \in 0..(n - 1)
  PROVE  u * n + c \in 0..(n * m - 1)
<1>1. u * n \in Nat /\ (m - 1 - u) * n \in Nat
  OBVIOUS
<1>2. u * n + (m - 1 - u) * n + n = n * m
  OBVIOUS
<1> QED BY <1>1, <1>2

LEMMA TimerInitInv == TimerInit => TimerInv
  BY TimerAssumption DEF TimerInit, TimerInv, TimerTypeOK, TimerExact

LEMMA TimerCycleInv ==
  ASSUME TimerInv, NEW rst \in BOOLEAN, TimerCycle(rst)
  PROVE  TimerInv'
<1> USE TimerAssumption DEF TimerInv, TimerTypeOK, TimerExact
<1> DEFINE M == NEXT_US * US_MODULUS
<1>0. M \in Nat \ {0}
  OBVIOUS
<1> HIDE DEF M
<1>1. CASE rst
  BY <1>1 DEF TimerCycle, RegisterR, RegisterRCE
<1>2. CASE ~rst /\ counter + 1 # NEXT_US
  <2>1. counter' = counter + 1 /\ usCount' = usCount /\ elapsed' = (elapsed + 1) % M
    BY <1>2 DEF TimerCycle, RegisterR, RegisterRCE, nextCounter, M
  <2>2. counter' \in 0..(NEXT_US - 1)
    BY <1>2, <2>1
  <2>3. usCount * NEXT_US + (counter + 1) \in 0..(M - 1)
    BY <2>1, <2>2, Position DEF M
  <2>4. usCount * NEXT_US \in Nat
    OBVIOUS
  <2>5. elapsed + 1 = usCount * NEXT_US + (counter + 1)
    BY <2>4
  <2>6. elapsed' = elapsed + 1
    BY <1>0, <2>1, <2>3, <2>5, ModBelow
  <2> QED BY <2>1, <2>2, <2>5, <2>6
<1>3. CASE ~rst /\ counter + 1 = NEXT_US
  <2>1. counter' = 0 /\ usCount' = (usCount + 1) % US_MODULUS
                     /\ elapsed' = (elapsed + 1) % M
    BY <1>3 DEF TimerCycle, RegisterR, RegisterRCE, nextCounter, nextUs, M
  <2>2. elapsed + 1 = (usCount + 1) * NEXT_US
    <3>1. usCount * NEXT_US \in Nat /\ (usCount + 1) * NEXT_US = usCount * NEXT_US + NEXT_US
      OBVIOUS
    <3> QED BY <1>3, <3>1
  <2>3. CASE usCount + 1 = US_MODULUS
    <3>1. usCount' = 0
      BY <2>1, <2>3, ModSelf
    <3>2. elapsed + 1 = M
      BY <2>2, <2>3 DEF M
    <3>3. elapsed' = 0
      BY <1>0, <2>1, <3>2, ModSelf
    <3> QED BY <2>1, <3>1, <3>3
  <2>4. CASE usCount + 1 # US_MODULUS
    <3>1. usCount' = usCount + 1 /\ usCount' \in 0..(US_MODULUS - 1)
      BY <2>1, <2>4, ModBelow
    <3>2. usCount' * NEXT_US + 0 \in 0..(M - 1)
      BY <3>1, Position DEF M
    <3>3. elapsed + 1 = usCount' * NEXT_US /\ elapsed + 1 \in 0..(M - 1)
      BY <2>2, <3>1, <3>2
    <3>4. elapsed' = elapsed + 1
      BY <1>0, <2>1, <3>3, ModBelow
    <3> QED BY <2>1, <3>1, <3>3, <3>4
  <2> QED BY <2>3, <2>4
<1> QED BY <1>1, <1>2, <1>3

(* Both registers of timer.v stay in range, and usCount counts whole       *)
(* periods of NEXT_US cycles exactly, for every NEXT_US and width.         *)
THEOREM TimerCorrect == TimerSpec => [](TimerTypeOK /\ TimerExact)
<1>1. TimerInit => TimerInv
  BY TimerInitInv
<1>2. TimerInv /\ [TimerNext]_timerVars => TimerInv'
  <2>1. CASE UNCHANGED timerVars
    BY <2>1 DEF timerVars, TimerInv, TimerTypeOK, TimerExact
  <2>2. CASE TimerNext
    BY <2>2, TimerCycleInv DEF TimerNext
  <2> QED BY <2>1, <2>2
<1> QED BY <1>1, <1>2, PTL DEF TimerSpec, TimerInv

-----------------------------------------------------------------------------
(* Cycles since the low half was zero.                                     *)
SinceCarry == TIMERLOW * NEXT_US + counter
HIGH_MODULUS == US_MODULUS \div LOW_MODULUS

Instants == [us : 0..(US_MODULUS - 1), torn : BOOLEAN]
ReaderTypeOK ==
  /\ phase \in {"idle", "high"} /\ init_done \in BOOLEAN /\ torn \in BOOLEAN /\ took \in Nat
  /\ init_us \in 0..(US_MODULUS - 1) /\ current_us \in 0..(HIGH_MODULUS - 1)
  /\ init \in Instants /\ last \in Instants

ReadingInv ==
  phase = "high" =>
    /\ took <= READ_WITHIN
    /\ ~torn => TIMERHIGH = current_us
    /\ torn => TIMERHIGH = (current_us + 1) % HIGH_MODULUS /\ SinceCarry <= took

InitialInv ==
  /\ init_done => init_us = Less(init.us, Lag(init.torn))
  /\ ~init_done => uptime = 0 /\ last = init

UptimeInv == TimerTypeOK /\ TimerExact /\ ReaderTypeOK /\ ReadingInv /\ InitialInv /\ UptimeOffByCarries

LEMMA DivMod ==
  ASSUME NEW m \in Nat \ {0}, NEW x \in Nat
  PROVE  \E q \in Nat, r \in 0..(m - 1) :
           q = x \div m /\ r = x % m /\ x = q * m + r
<1>1. x % m \in 0..(m - 1) /\ x \div m \in Int /\ x \div m >= 0
  OBVIOUS
<1>2. ASSUME NEW q \in Int, q = x \div m, NEW r \in Int, r = x % m
      PROVE  x = q * m + r
  BY <1>2
<1>3. PICK q \in Nat : q = x \div m
  BY <1>1
<1>4. PICK r \in 0..(m - 1) : r = x % m
  BY <1>1
<1>5. x = q * m + r
  BY <1>2, <1>3, <1>4
<1> QED BY <1>3, <1>4, <1>5

(* A multiple between -m and m is zero.                                    *)
LEMMA NoMultiple ==
  ASSUME NEW m \in Nat \ {0}, NEW k \in Int, k * m < m, -m < k * m
  PROVE  k = 0
<1>1. CASE k >= 1
  <2>1. (k - 1) * m \in Nat /\ k * m = (k - 1) * m + m
    BY <1>1
  <2> QED BY <2>1
<1>2. CASE k <= -1
  <2>1. (-1 - k) * m \in Nat /\ k * m = -((-1 - k) * m) - m
    BY <1>2
  <2> QED BY <2>1
<1> QED BY <1>1, <1>2

LEMMA DivUnique ==
  ASSUME NEW m \in Nat \ {0}, NEW q \in Nat, NEW r \in 0..(m - 1)
  PROVE  (q * m + r) \div m = q /\ (q * m + r) % m = r
<1>1. (q * m + r) \div m = q
  OBVIOUS
<1>2. ASSUME NEW x \in Nat, x = q * m + r PROVE x % m = r
  BY <1>2
<1>3. q * m + r \in Nat
  OBVIOUS
<1> QED BY <1>1, <1>2, <1>3

(* Two words that differ by a multiple of the modulus are the same.        *)
LEMMA SameWord ==
  ASSUME NEW m \in Nat \ {0}, NEW e \in Int, NEW j \in Int, NEW k \in Int,
         e + j * m \in 0..(m - 1), e + k * m \in 0..(m - 1)
  PROVE  e + j * m = e + k * m
<1>1. (j - k) * m = j * m - k * m /\ j * m \in Int /\ k * m \in Int
  OBVIOUS
<1>2. j - k = 0
  BY <1>1, NoMultiple
<1> QED BY <1>2

LEMMA LessIs ==
  ASSUME NEW t \in Nat, NEW u \in 0..US_MODULUS
  PROVE  \E w \in 0..(US_MODULUS - 1), k \in Int :
           w = Less(t, u) /\ w = t - u + k * US_MODULUS
<1> USE TimerAssumption
<1>1. PICK x \in Nat : x = t + US_MODULUS - u
  OBVIOUS
<1>2. PICK q \in Nat, w \in 0..(US_MODULUS - 1) :
        w = x % US_MODULUS /\ x = q * US_MODULUS + w
  BY DivMod
<1>4. PICK k \in Int : k = 1 - q
  OBVIOUS
<1>5. k * US_MODULUS = US_MODULUS - q * US_MODULUS /\ q * US_MODULUS \in Nat
  BY <1>4
<1>7. w = t - u + k * US_MODULUS
  <2> HIDE TimerAssumption
  <2>1. PICK p \in Nat : p = q * US_MODULUS
    BY <1>5
  <2>2. k * US_MODULUS = US_MODULUS - p /\ x = p + w /\ US_MODULUS \in Nat
    BY <1>2, <1>5, <2>1, TimerAssumption
  <2> QED BY <1>1, <2>2
<1>8. w = Less(t, u)
  BY <1>1, <1>2 DEF Less
<1> QED BY <1>7, <1>8

(* What the lags of the two readings leave of an uptime.                   *)
LEMMA LessOfLags ==
  ASSUME NEW x \in 0..(US_MODULUS - 1), NEW y \in 0..(US_MODULUS - 1),
         NEW a \in 0..US_MODULUS, NEW b \in 0..US_MODULUS
  PROVE  Less(Less(x, a), Less(y, b)) = Less(Less(x, y) + b, a)
<1>0. /\ US_MODULUS \in Nat \ {0} /\ x \in Nat /\ y \in Nat
      /\ y \in 0..US_MODULUS
  BY TimerAssumption
<1>1. PICK xa \in 0..(US_MODULUS - 1), i \in Int : xa = Less(x, a) /\ xa = x - a + i * US_MODULUS
  BY <1>0, LessIs
<1>2. PICK yb \in 0..(US_MODULUS - 1), j \in Int : yb = Less(y, b) /\ yb = y - b + j * US_MODULUS
  BY <1>0, LessIs
<1>3. PICK xy \in 0..(US_MODULUS - 1), k \in Int : xy = Less(x, y) /\ xy = x - y + k * US_MODULUS
  BY <1>0, LessIs
<1>4. PICK l \in 0..(US_MODULUS - 1), g \in Int : l = Less(xa, yb) /\ l = xa - yb + g * US_MODULUS
  <2>1. xa \in Nat /\ yb \in 0..US_MODULUS
    BY <1>0
  <2> QED BY <2>1, LessIs
<1>5. PICK r \in 0..(US_MODULUS - 1), h \in Int : r = Less(xy + b, a) /\ r = xy + b - a + h * US_MODULUS
  <2>1. PICK s \in Nat : s = xy + b
    BY <1>0
  <2>2. PICK r \in 0..(US_MODULUS - 1), h \in Int : r = Less(s, a) /\ r = s - a + h * US_MODULUS
    BY LessIs
  <2> QED BY <2>1, <2>2
<1>6. PICK e \in Int : e = x - a - y + b
  BY <1>0
<1>7. PICK c \in Int : c = i - j + g
  OBVIOUS
<1>7a. PICK d \in Int : d = k + h
  OBVIOUS
<1>8. c * US_MODULUS = i * US_MODULUS - j * US_MODULUS + g * US_MODULUS /\ d * US_MODULUS = k * US_MODULUS + h * US_MODULUS
  BY <1>0, <1>7, <1>7a
<1>9. l = e + c * US_MODULUS /\ r = e + d * US_MODULUS
  <2>1. PICK im \in Int, jm \in Int, gm \in Int, km \in Int, hm \in Int :
          im = i * US_MODULUS /\ jm = j * US_MODULUS /\ gm = g * US_MODULUS /\ km = k * US_MODULUS /\ hm = h * US_MODULUS
    BY <1>0
  <2>2. c * US_MODULUS = im - jm + gm /\ d * US_MODULUS = km + hm
    BY <1>8, <2>1
  <2>3. xa = x - a + im /\ yb = y - b + jm /\ xy = x - y + km
        /\ l = xa - yb + gm /\ r = xy + b - a + hm
    BY <1>1, <1>2, <1>3, <1>4, <1>5, <2>1
  <2>4. x \in Int /\ y \in Int /\ a \in Int /\ b \in Int
    BY <1>0
  <2> QED BY <1>0, <1>6, <2>2, <2>3, <2>4
<1>10. l = r
  BY <1>0, <1>9, SameWord
<1> QED BY <1>1, <1>2, <1>3, <1>4, <1>5, <1>10

-----------------------------------------------------------------------------
LEMMA PlusModulus ==
  ASSUME NEW m \in Nat \ {0}, NEW x \in 0..(m - 1)
  PROVE  x % m = x /\ (x + m) % m = x
<1>1. (1 * m + x) % m = x
  BY DivUnique
<1>2. 1 * m + x = x + m
  OBVIOUS
<1> QED BY <1>1, <1>2, ModBelow

(* The two halves of a time.                                               *)
LEMMA Halves ==
  /\ LOW_MODULUS \in Nat \ {0} /\ HIGH_MODULUS \in Nat \ {0}
  /\ US_MODULUS = HIGH_MODULUS * LOW_MODULUS
  /\ LOW_MODULUS \in 0..US_MODULUS
<1> USE TimerAssumption, ReaderAssumption
<1>1. PICK q \in Nat, r \in 0..(LOW_MODULUS - 1) :
        q = US_MODULUS \div LOW_MODULUS /\ r = US_MODULUS % LOW_MODULUS
        /\ US_MODULUS = q * LOW_MODULUS + r
  BY DivMod
<1>2. q = HIGH_MODULUS /\ r = 0
  BY <1>1 DEF HIGH_MODULUS
<1>3. US_MODULUS = q * LOW_MODULUS /\ q # 0
  BY <1>1, <1>2
<1>4. (q - 1) * LOW_MODULUS \in Nat /\ q * LOW_MODULUS = (q - 1) * LOW_MODULUS + LOW_MODULUS
  BY <1>3
<1> QED BY <1>2, <1>3, <1>4

LEMMA HalvesOf ==
  ASSUME NEW u \in 0..(US_MODULUS - 1)
  PROVE  \E h \in 0..(HIGH_MODULUS - 1), l \in 0..(LOW_MODULUS - 1) :
           h = u \div LOW_MODULUS /\ l = u % LOW_MODULUS /\ u = h * LOW_MODULUS + l
<1> USE TimerAssumption, Halves
<1>1. PICK h \in Nat, l \in 0..(LOW_MODULUS - 1) :
        h = u \div LOW_MODULUS /\ l = u % LOW_MODULUS /\ u = h * LOW_MODULUS + l
  BY DivMod
<1>2. ASSUME h >= HIGH_MODULUS PROVE FALSE
  <2>1. (h - HIGH_MODULUS) * LOW_MODULUS \in Nat
    BY <1>2
  <2>2. h * LOW_MODULUS = (h - HIGH_MODULUS) * LOW_MODULUS + US_MODULUS
    BY <1>2
  <2> QED BY <1>1, <2>1, <2>2
<1> QED BY <1>1, <1>2

(* One microsecond on: the low half counts, or wraps and carries.          *)
LEMMA Carry ==
  ASSUME NEW u \in 0..(US_MODULUS - 1),
         NEW h \in 0..(HIGH_MODULUS - 1), NEW l \in 0..(LOW_MODULUS - 1),
         u = h * LOW_MODULUS + l
  PROVE  \E v \in 0..(US_MODULUS - 1) :
           /\ v = (u + 1) % US_MODULUS
           /\ l + 1 < LOW_MODULUS =>
                v \div LOW_MODULUS = h /\ v % LOW_MODULUS = l + 1
           /\ l + 1 = LOW_MODULUS =>
                v \div LOW_MODULUS = (h + 1) % HIGH_MODULUS /\ v % LOW_MODULUS = 0
<1> USE TimerAssumption, Halves
<1> DEFINE L == LOW_MODULUS
           K == HIGH_MODULUS
<1>1. PICK v \in 0..(US_MODULUS - 1) : v = (u + 1) % US_MODULUS
  BY DivMod
<1>2. h \in Nat /\ l \in Nat /\ h * L \in Nat /\ (h + 1) * L = h * L + L
  OBVIOUS
<1>3. (K - 1 - h) * L \in Nat /\ US_MODULUS = h * L + L + (K - 1 - h) * L
  OBVIOUS
<1>4. CASE l + 1 < L
  <2>1. u + 1 \in 0..(US_MODULUS - 1) /\ u + 1 = h * L + (l + 1) /\ l + 1 \in 0..(L - 1)
    BY <1>2, <1>3, <1>4
  <2>2. v = h * L + (l + 1)
    BY <1>1, <2>1, ModBelow
  <2>3. v \div L = h /\ v % L = l + 1
    <3>1. PICK n \in 0..(L - 1) : n = l + 1 /\ v = h * L + n
      BY <2>1, <2>2
    <3>2. L \in Nat \ {0} /\ h \in Nat
      BY <1>2
    <3>3. (h * L + n) \div L = h /\ (h * L + n) % L = n
      BY ONLY <3>1, <3>2, DivUnique
    <3> QED BY <3>1, <3>3
  <2> QED BY <1>1, <1>4, <2>3
<1>5. CASE l + 1 = L /\ h + 1 < K
  <2>1. (K - 1 - (h + 1)) * L \in Nat /\ US_MODULUS = (h + 1) * L + L + (K - 1 - (h + 1)) * L
    BY <1>5
  <2>2. u + 1 = (h + 1) * L /\ u + 1 \in 0..(US_MODULUS - 1)
    BY <1>2, <1>5, <2>1
  <2>3. v = (h + 1) * L + 0
    BY <1>1, <1>2, <2>2, ModBelow
  <2>4. v \div L = h + 1 /\ v % L = 0
    <3>1. h + 1 \in Nat /\ 0 \in 0..(L - 1)
      BY <1>2
    <3> QED BY <2>3, <3>1, DivUnique
  <2>5. (h + 1) % K = h + 1
    BY <1>2, <1>5, ModBelow
  <2> QED BY <1>1, <1>5, <2>4, <2>5
<1>6. CASE l + 1 = L /\ h + 1 = K
  <2>1. u + 1 = US_MODULUS
    BY <1>2, <1>6
  <2>2. v = 0 * L + 0
    BY <1>1, <2>1, ModSelf
  <2>3. v \div L = 0 /\ v % L = 0
    <3>1. 0 \in Nat /\ 0 \in 0..(L - 1)
      OBVIOUS
    <3> QED BY <2>2, <3>1, DivUnique
  <2>4. (h + 1) % K = 0
    BY <1>6, ModSelf
  <2> QED BY <1>1, <1>6, <2>3, <2>4
<1> QED BY <1>4, <1>5, <1>6

(* What a cycle of the timer does to the halves a program reads.           *)
LEMMA CarryStep ==
  ASSUME TimerInv, TimerCycle(FALSE)
  PROVE  /\ TIMERHIGH \in 0..(HIGH_MODULUS - 1) /\ TIMERHIGH' \in 0..(HIGH_MODULUS - 1)
         /\ \/ TIMERHIGH' = TIMERHIGH /\ SinceCarry' = SinceCarry + 1
            \/ /\ TIMERHIGH' = (TIMERHIGH + 1) % HIGH_MODULUS
               /\ SinceCarry = NEXT_US * LOW_MODULUS - 1 /\ SinceCarry' = 0
<1> USE TimerAssumption, Halves DEF TimerInv, TimerTypeOK
<1>1. PICK h \in 0..(HIGH_MODULUS - 1), l \in 0..(LOW_MODULUS - 1) :
        h = TIMERHIGH /\ l = TIMERLOW /\ usCount = h * LOW_MODULUS + l
  BY HalvesOf DEF TIMERHIGH, TIMERLOW
<1>2. SinceCarry = l * NEXT_US + counter
  BY <1>1 DEF SinceCarry
<1>3. CASE counter + 1 # NEXT_US
  <2>1. counter' = counter + 1 /\ usCount' = usCount
    BY <1>3 DEF TimerCycle, RegisterR, RegisterRCE, nextCounter
  <2>2. TIMERHIGH' = h /\ TIMERLOW' = l
    BY <1>1, <2>1 DEF TIMERHIGH, TIMERLOW
  <2>3. SinceCarry' = l * NEXT_US + counter'
    BY <2>2 DEF SinceCarry
  <2>4. l * NEXT_US \in Nat
    OBVIOUS
  <2>5. SinceCarry' = SinceCarry + 1
    BY <1>2, <2>1, <2>3, <2>4
  <2> QED BY <1>1, <2>2, <2>5
<1>4. CASE counter + 1 = NEXT_US
  <2>1. counter' = 0 /\ usCount' = (usCount + 1) % US_MODULUS
    BY <1>4 DEF TimerCycle, RegisterR, RegisterRCE, nextCounter, nextUs
  <2>2. PICK v \in 0..(US_MODULUS - 1) :
          /\ v = (usCount + 1) % US_MODULUS
          /\ l + 1 < LOW_MODULUS =>
               v \div LOW_MODULUS = h /\ v % LOW_MODULUS = l + 1
          /\ l + 1 = LOW_MODULUS =>
               v \div LOW_MODULUS = (h + 1) % HIGH_MODULUS /\ v % LOW_MODULUS = 0
    <3>1. usCount \in 0..(US_MODULUS - 1) /\ usCount = h * LOW_MODULUS + l
      BY <1>1
    <3> QED BY ONLY <3>1, <1>1, Carry
  <2>3. TIMERHIGH' = v \div LOW_MODULUS /\ TIMERLOW' = v % LOW_MODULUS
    BY <2>1, <2>2 DEF TIMERHIGH, TIMERLOW
  <2>4. SinceCarry' = TIMERLOW' * NEXT_US + 0
    BY <2>1 DEF SinceCarry
  <2>5. l * NEXT_US \in Nat /\ (l + 1) * NEXT_US = l * NEXT_US + NEXT_US
    OBVIOUS
  <2>6. CASE l + 1 < LOW_MODULUS
    <3>1. TIMERHIGH' = h /\ TIMERLOW' = l + 1
      BY <2>2, <2>3, <2>6
    <3>2. SinceCarry' = (l + 1) * NEXT_US
      BY <2>4, <3>1
    <3>3. SinceCarry' = SinceCarry + 1
      BY <1>2, <1>4, <2>5, <3>2
    <3> QED BY <1>1, <3>1, <3>3
  <2>7. CASE l + 1 = LOW_MODULUS
    <3>1. TIMERHIGH' = (h + 1) % HIGH_MODULUS /\ TIMERLOW' = 0
      BY <2>2, <2>3, <2>7
    <3>2. SinceCarry' = 0
      BY <2>4, <3>1
    <3>3. SinceCarry = NEXT_US * LOW_MODULUS - 1
      BY <1>2, <1>4, <2>5, <2>7
    <3>4. (h + 1) % HIGH_MODULUS \in 0..(HIGH_MODULUS - 1)
      <4>1. PICK n \in Nat : n = h + 1
        OBVIOUS
      <4> QED BY <4>1, DivMod
    <3> QED BY <1>1, <3>1, <3>2, <3>3, <3>4
  <2> QED BY <2>6, <2>7
<1> QED BY <1>3, <1>4

(* What the two loads give, whenever the second comes in time.             *)
LEMMA ReadingExact ==
  ASSUME TimerTypeOK, ReaderTypeOK, ReadingInv, phase = "high"
  PROVE  Reading = Less(usCount, Lag(torn))
<1> USE TimerAssumption, Halves
<1> DEFINE L == LOW_MODULUS
           K == HIGH_MODULUS
<1>0. usCount \in 0..(US_MODULUS - 1) /\ torn \in BOOLEAN /\ current_us \in 0..(K - 1)
  BY DEF TimerTypeOK, ReaderTypeOK
<1>1. PICK h \in 0..(K - 1), l \in 0..(L - 1) :
        h = TIMERHIGH /\ l = TIMERLOW /\ usCount = h * L + l
  BY <1>0, HalvesOf DEF TIMERHIGH, TIMERLOW
<1>2. Reading = (current_us * L + l) % US_MODULUS
  BY <1>1 DEF Reading
<1>3. CASE ~torn
  <2>1. current_us * L + l = usCount
    BY <1>1, <1>3 DEF ReadingInv
  <2>2. Reading = usCount
    BY <1>0, <1>2, <2>1, ModBelow
  <2>3. Less(usCount, 0) = usCount
    BY <1>0, PlusModulus DEF Less
  <2> QED BY <1>3, <2>2, <2>3 DEF Lag
<1>4. CASE torn /\ current_us + 1 < K
  <2>1. h = current_us + 1
    BY <1>0, <1>1, <1>4, ModBelow DEF ReadingInv
  <2>2. PICK x \in 0..(US_MODULUS - 1) : x = current_us * L + l /\ usCount = x + L
    <3>1. usCount = current_us * L + l + L /\ current_us * L + l \in Nat
      BY <1>0, <1>1, <2>1
    <3> QED BY <1>0, <3>1
  <2>3. Reading = x
    BY <1>2, <2>2, ModBelow
  <2>4. usCount + US_MODULUS - L = x + US_MODULUS
    BY <2>2
  <2>5. Less(usCount, L) = x
    BY <2>4, PlusModulus DEF Less
  <2> QED BY <1>4, <2>3, <2>5 DEF Lag
<1>5. CASE torn /\ current_us + 1 = K
  <2>1. h = 0 /\ usCount = l
    <3>1. h = 0
      BY <1>0, <1>1, <1>5, ModSelf DEF ReadingInv
    <3> QED BY <1>1, <3>1
  <2>2. current_us * L = US_MODULUS - L
    BY <1>0, <1>5
  <2>3. current_us * L + l = usCount + US_MODULUS - L
    BY <1>0, <2>1, <2>2
  <2>4. Reading = Less(usCount, L)
    BY <1>2, <2>3 DEF Less
  <2> QED BY <1>5, <2>4 DEF Lag
<1> QED BY <1>0, <1>3, <1>4, <1>5

LEMMA LagIs == \A t \in BOOLEAN : Lag(t) \in 0..US_MODULUS
  BY Halves, TimerAssumption DEF Lag

(* An uptime read at the moment of the initial reading.                    *)
LEMMA NoUptime ==
  ASSUME NEW x \in 0..(US_MODULUS - 1), NEW t \in BOOLEAN
  PROVE  Less(Less(x, x) + Lag(t), Lag(t)) = 0
<1> USE TimerAssumption
<1>1. PICK a \in 0..US_MODULUS : a = Lag(t)
  BY LagIs
<1>2. x \in Nat
  OBVIOUS
<1>3. PICK z \in 0..(US_MODULUS - 1) : z = Less(x, a)
  BY <1>2, LessIs
<1>4. z + US_MODULUS - z = US_MODULUS
  OBVIOUS
<1>5. Less(z, z) = 0
  BY <1>4, ModSelf DEF Less
<1>6. Less(Less(x, a), Less(x, a)) = Less(Less(x, x) + a, a)
  BY LessOfLags
<1> QED BY <1>1, <1>3, <1>5, <1>6

LEMMA AtReset ==
  /\ [us |-> 0, torn |-> FALSE] \in Instants
  /\ Less(Less(0, 0) + Lag(FALSE), Lag(FALSE)) = 0
<1>1. 0 \in 0..(US_MODULUS - 1) /\ FALSE \in BOOLEAN
  BY TimerAssumption
<1>2. [us |-> 0, torn |-> FALSE] \in Instants
  BY <1>1, Zenon DEF Instants
<1> QED BY <1>1, <1>2, NoUptime

LEMMA UptimeInitInv == ReaderInit => UptimeInv
<1> SUFFICES ASSUME ReaderInit PROVE UptimeInv
  OBVIOUS
<1> USE TimerAssumption, Halves DEF ReaderInit
<1>1. TimerTypeOK /\ TimerExact
  BY TimerInitInv DEF TimerInv
<1>2. ReaderTypeOK
  <2>1. init_us \in 0..(US_MODULUS - 1) /\ current_us \in 0..(HIGH_MODULUS - 1) /\ took \in Nat
    OBVIOUS
  <2>2. init \in Instants /\ last \in Instants
    BY AtReset, Zenon
  <2> QED BY <2>1, <2>2, Zenon DEF ReaderTypeOK
<1>3. ReadingInv
  BY DEF ReadingInv
<1>4. InitialInv
  BY DEF InitialInv
<1>5. UptimeOffByCarries
  <2>1. /\ init.us = 0 /\ init.torn = FALSE /\ last.us = 0 /\ last.torn = FALSE
        /\ uptime = 0
    BY Zenon
  <2> QED BY <2>1, AtReset, Zenon DEF UptimeOffByCarries
<1> QED BY <1>1, <1>2, <1>3, <1>4, <1>5 DEF UptimeInv

LEMMA UptimeNextInv == UptimeInv /\ UptimeNext => UptimeInv'
<1> SUFFICES ASSUME UptimeInv, UptimeNext PROVE UptimeInv'
  OBVIOUS
<1> USE TimerAssumption
<1>1. TimerInv /\ TimerTypeOK /\ TimerExact /\ ReaderTypeOK /\ ReadingInv
      /\ InitialInv /\ UptimeOffByCarries
  BY DEF UptimeInv, TimerInv
<1>2. (TimerTypeOK /\ TimerExact)'
  BY <1>1, TimerCycleInv DEF UptimeNext, Restart, TimerInv
<1>3. CASE Restart
  <2> USE <1>3 DEF Restart
  <2>1. ReaderTypeOK'
    <3>1. /\ init_us' \in 0..(US_MODULUS - 1) /\ current_us' \in 0..(HIGH_MODULUS - 1)
          /\ took' \in Nat
      BY <1>1, Halves DEF ReaderTypeOK
    <3>2. init' \in Instants /\ last' \in Instants
      BY AtReset, Zenon
    <3>3. Instants' = Instants
      BY DEF Instants
    <3> QED BY <3>1, <3>2, Zenon DEF ReaderTypeOK
  <2>2. (ReadingInv /\ InitialInv)'
    BY DEF ReadingInv, InitialInv
  <2>3. UptimeOffByCarries'
    <3>1. /\ init'.us = 0 /\ init'.torn = FALSE /\ last'.us = 0 /\ last'.torn = FALSE
          /\ uptime' = 0
      BY Zenon
    <3>2. UptimeOffByCarries' <=>
            uptime' = Less(Less(0, 0) + Lag(FALSE), Lag(FALSE))
      BY <3>1 DEF UptimeOffByCarries, Less, Lag
    <3> QED BY <3>1, <3>2, AtReset
  <2> QED BY <1>2, <2>1, <2>2, <2>3 DEF UptimeInv
<1>4. ASSUME TimerCycle(FALSE), LoadHigh PROVE UptimeInv'
  <2> USE <1>4 DEF LoadHigh
  <2>1. /\ TIMERHIGH \in 0..(HIGH_MODULUS - 1)
        /\ \/ TIMERHIGH' = TIMERHIGH
           \/ TIMERHIGH' = (TIMERHIGH + 1) % HIGH_MODULUS /\ SinceCarry' = 0
    BY <1>1, CarryStep
  <2>2. ReaderTypeOK'
    BY <1>1, <2>1 DEF ReaderTypeOK
  <2>3. ReadingInv'
    <3>1. took' = 0 /\ current_us' = TIMERHIGH /\ torn' = (TIMERHIGH' # TIMERHIGH)
          /\ 0 <= READ_WITHIN
      BY ReaderAssumption
    <3>2. CASE TIMERHIGH' = TIMERHIGH
      <4>1. ~torn' /\ TIMERHIGH' = current_us'
        BY <3>1, <3>2, Zenon
      <4> QED BY <3>1, <4>1 DEF ReadingInv
    <3>3. CASE TIMERHIGH' # TIMERHIGH
      <4>1. torn' /\ TIMERHIGH' = (current_us' + 1) % HIGH_MODULUS /\ SinceCarry' = 0
        BY <2>1, <3>1, <3>3, Zenon
      <4> QED BY <3>1, <4>1 DEF ReadingInv
    <3> QED BY <3>2, <3>3
  <2>4. InitialInv' /\ UptimeOffByCarries'
    BY <1>1 DEF InitialInv, UptimeOffByCarries, Less, Lag
  <2> QED BY <1>2, <2>2, <2>3, <2>4 DEF UptimeInv
<1>5. ASSUME TimerCycle(FALSE), __am_timer_init PROVE UptimeInv'
  <2> USE <1>5 DEF __am_timer_init, LoadLow
  <2>1. Reading = Less(usCount, Lag(torn))
    BY <1>1, ReadingExact
  <2>2. /\ init_us' = Less(usCount, Lag(torn)) /\ usCount \in 0..(US_MODULUS - 1)
        /\ torn \in BOOLEAN /\ usCount \in Nat /\ Lag(torn) \in 0..US_MODULUS
    BY <1>1, <2>1, LagIs DEF ReaderTypeOK, TimerTypeOK
  <2>3. init_us' \in 0..(US_MODULUS - 1)
    <3>1. Less(usCount, Lag(torn)) \in 0..(US_MODULUS - 1)
      BY ONLY <2>2, LessIs
    <3> QED BY ONLY <2>2, <3>1
  <2>4. ReaderTypeOK'
    BY <1>1, <2>2, <2>3 DEF ReaderTypeOK, Instants
  <2>5. ReadingInv'
    BY DEF ReadingInv
  <2>6. InitialInv'
    BY <2>2 DEF InitialInv, Less, Lag
  <2>7. uptime' = 0 /\ last' = init' /\ init'.us = usCount /\ init'.torn = torn
    BY <1>1 DEF InitialInv
  <2>8. UptimeOffByCarries'
    BY <2>2, <2>7, NoUptime DEF UptimeOffByCarries, Less, Lag
  <2> QED BY <1>2, <2>4, <2>5, <2>6, <2>8 DEF UptimeInv
<1>6. ASSUME TimerCycle(FALSE), __am_timer_uptime PROVE UptimeInv'
  <2> USE <1>6 DEF __am_timer_uptime, LoadLow
  <2>1. Reading = Less(usCount, Lag(torn))
    BY <1>1, ReadingExact
  <2>2. init_us = Less(init.us, Lag(init.torn))
    BY <1>1 DEF InitialInv
  <2>3. /\ usCount \in 0..(US_MODULUS - 1) /\ init.us \in 0..(US_MODULUS - 1)
        /\ torn \in BOOLEAN /\ Lag(torn) \in 0..US_MODULUS /\ Lag(init.torn) \in 0..US_MODULUS
    BY <1>1, LagIs DEF ReaderTypeOK, TimerTypeOK, Instants
  <2>4. ReaderTypeOK'
    BY <1>1, <2>3 DEF ReaderTypeOK, Instants
  <2>5. ReadingInv'
    BY DEF ReadingInv
  <2>6. InitialInv'
    BY <1>1 DEF InitialInv, Less, Lag
  <2>7. uptime' = Less(Less(usCount, init.us) + Lag(init.torn), Lag(torn))
    BY <2>1, <2>2, <2>3, LessOfLags
  <2>8. init' = init /\ last'.us = usCount /\ last'.torn = torn
    OBVIOUS
  <2>9. UptimeOffByCarries'
    BY <2>7, <2>8 DEF UptimeOffByCarries, Less, Lag
  <2> QED BY <1>2, <2>4, <2>5, <2>6, <2>9 DEF UptimeInv
<1>7. ASSUME TimerCycle(FALSE), Computes PROVE UptimeInv'
  <2> USE <1>7 DEF Computes
  <2>1. ReaderTypeOK'
    BY <1>1 DEF ReaderTypeOK
  <2>2. ReadingInv'
    <3>1. CASE phase # "high"
      BY <3>1 DEF ReadingInv
    <3>2. CASE phase = "high" /\ ~torn
      <4>1. TIMERHIGH = current_us /\ took' = took + 1 /\ took' \in Nat /\ took' <= READ_WITHIN
            /\ current_us' = current_us /\ torn' = (TIMERHIGH' # TIMERHIGH)
        BY <1>1, <3>2, ReaderAssumption DEF ReadingInv, ReaderTypeOK
      <4>2. \/ TIMERHIGH' = TIMERHIGH
            \/ TIMERHIGH' = (TIMERHIGH + 1) % HIGH_MODULUS /\ SinceCarry' = 0
        BY <1>1, CarryStep
      <4>3. CASE TIMERHIGH' = TIMERHIGH
        <5>1. ~torn' /\ TIMERHIGH' = current_us'
          BY <4>1, <4>3, Zenon
        <5> QED BY <4>1, <5>1 DEF ReadingInv
      <4>4. CASE TIMERHIGH' # TIMERHIGH
        <5>1. torn' /\ TIMERHIGH' = (current_us' + 1) % HIGH_MODULUS /\ SinceCarry' = 0
          BY <4>1, <4>2, <4>4, Zenon
        <5> QED BY <4>1, <5>1 DEF ReadingInv
      <4> QED BY <4>3, <4>4
    <3>3. CASE phase = "high" /\ torn
      <4>1. /\ took' = took + 1 /\ took \in Nat /\ took < READ_WITHIN /\ torn'
            /\ current_us' = current_us
            /\ TIMERHIGH = (current_us + 1) % HIGH_MODULUS /\ SinceCarry <= took
        BY <1>1, <3>3 DEF ReadingInv, ReaderTypeOK
      <4>2. /\ SinceCarry \in Int /\ NEXT_US * LOW_MODULUS \in Nat
            /\ READ_WITHIN \in Nat /\ READ_WITHIN < NEXT_US * LOW_MODULUS
        <5>1. TIMERLOW \in Int /\ counter \in Int
          BY <1>1, HalvesOf, Halves DEF TIMERLOW, TimerTypeOK
        <5> QED BY <5>1, ReaderAssumption DEF SinceCarry
      <4>3. SinceCarry # NEXT_US * LOW_MODULUS - 1
        BY <4>1, <4>2
      <4>4. TIMERHIGH' = TIMERHIGH /\ SinceCarry' = SinceCarry + 1
        BY <1>1, <4>3, CarryStep
      <4>5. SinceCarry' <= took' /\ took' <= READ_WITHIN
        BY <4>1, <4>2, <4>4
      <4> QED BY <4>1, <4>4, <4>5 DEF ReadingInv
    <3> QED BY <1>1, <3>1, <3>2, <3>3 DEF ReaderTypeOK
  <2>3. InitialInv' /\ UptimeOffByCarries'
    BY <1>1 DEF InitialInv, UptimeOffByCarries, Less, Lag
  <2> QED BY <1>2, <2>1, <2>2, <2>3 DEF UptimeInv
<1> QED BY <1>3, <1>4, <1>5, <1>6, <1>7 DEF UptimeNext

(* The uptime a program reads of timer.c is exact but for the carries its  *)
(* two readings met, for every clock, every width of the halves and every  *)
(* bound on the cycles between the loads below a wrap of the low half.     *)
THEOREM UptimeCorrect == UptimeSpec => []UptimeOffByCarries
<1>1. ReaderInit => UptimeInv
  BY UptimeInitInv
<1>2. UptimeInv /\ [UptimeNext]_uptimeVars => UptimeInv'
  <2>1. ASSUME UptimeInv, UNCHANGED uptimeVars PROVE UptimeInv'
    BY <2>1 DEF uptimeVars, timerVars, readerVars, UptimeInv, TimerTypeOK, TimerExact,
                ReaderTypeOK, ReadingInv, InitialInv, UptimeOffByCarries, TIMERHIGH,
                TIMERLOW, SinceCarry, Less, Lag
  <2> QED BY <2>1, UptimeNextInv
<1>3. UptimeInv => UptimeOffByCarries
  BY DEF UptimeInv
<1> QED BY <1>1, <1>2, <1>3, PTL DEF UptimeSpec

(***************************************************************************)
(* The button chain for every sampling period and press length.            *)
(* What PressIsHeld says of a finished press is not inductive: ChainInv    *)
(* says how far each unfinished one is. After held cycles, of which the    *)
(* last wrapping_count were after the last sample, saturating_counter      *)
(* samples have been taken: Samples bounds held by that from both sides.   *)
(***************************************************************************)
Samples ==
  ~debounced_signal =>
    /\ held <= saturating_counter * SAMPLE_CNT_MAX + wrapping_count
    /\ saturating_counter > 0 =>
         held > saturating_counter * SAMPLE_CNT_MAX - SAMPLE_CNT_MAX + wrapping_count
    /\ armed

ChainInv == ChainTypeOK /\ PressIsHeld /\ OneResetPerPress /\ Samples

(* Before the last sample of a press, held is not yet Press.               *)
LEMMA SamplesBelowPress ==
  ASSUME NEW s \in Nat, s >= 2, NEW p \in Nat \ {0}, NEW c \in Nat, c < p
  PROVE  /\ c * s \in Nat /\ s * p \in Nat
         /\ (c + 1) * s = c * s + s
         /\ c * s + s <= s * p
         /\ (c + 1 = p) => c * s + s = s * p
<1>1. c * s \in Nat /\ s * p \in Nat /\ (p - 1 - c) * s \in Nat
  OBVIOUS
<1>2. s * p = c * s + s + (p - 1 - c) * s
  OBVIOUS
<1> QED BY <1>1, <1>2

LEMMA ChainInitInv == ChainInit => ChainInv
<1> SUFFICES ASSUME ChainInit PROVE ChainInv
  OBVIOUS
<1> USE ChainAssumption DEF ChainInit
<1>1. Press \in Nat /\ Press >= SAMPLE_CNT_MAX /\ 0 * SAMPLE_CNT_MAX = 0
  BY SamplesBelowPress DEF Press
<1>2. ~debounced_signal /\ held # Press
  BY <1>1, ChainAssumption DEF debounced_signal
<1>3. ChainTypeOK
  <2>1. /\ 0 \in Bit /\ 0 \in 0..(SAMPLE_CNT_MAX - 1)
        /\ 0 \in 0..PULSE_CNT_MAX /\ 0 \in 0..Press
    BY <1>1 DEF Bit
  <2> QED BY <2>1, Zenon DEF ChainTypeOK
<1>4. PressIsHeld /\ OneResetPerPress
  BY <1>2 DEF PressIsHeld, OneResetPerPress
<1>5. Samples
  <2>1. held <= saturating_counter * SAMPLE_CNT_MAX + wrapping_count /\ ~(saturating_counter > 0)
    BY <1>1
  <2> QED BY <2>1, Zenon DEF Samples
<1> QED BY <1>3, <1>4, <1>5 DEF ChainInv

(* One cycle, by what the debouncer does in it.                            *)
LEMMA ChainCycleInv ==
  ASSUME ChainInv, NEW in \in Bit, ChainCycle(in)
  PROVE  ChainInv'
<1> USE ChainAssumption
<1> DEFINE S == SAMPLE_CNT_MAX
           n == saturating_counter
<1>0. /\ sync_signal \in Bit /\ mid_signal \in Bit
      /\ wrapping_count \in 0..(S - 1) /\ n \in 0..PULSE_CNT_MAX /\ held \in 0..Press
      /\ old_signal \in BOOLEAN /\ armed \in BOOLEAN
      /\ PressIsHeld /\ OneResetPerPress /\ Samples
  BY DEF ChainInv, ChainTypeOK
<1>1. Press \in Nat /\ Press >= S /\ 0 * S = 0
  BY SamplesBelowPress DEF Press
<1>2. /\ sync_signal' \in Bit /\ mid_signal' \in Bit
      /\ old_signal' = debounced_signal
      /\ wrapping_count' = IF sample_pluse THEN 0 ELSE wrapping_count + 1
      /\ n' = IF sync_signal = 0 THEN 0
              ELSE IF ~debounced_signal /\ sample_pluse /\ sync_signal = 1
              THEN n + 1 ELSE n
      /\ held' = IF sync_signal = 0 THEN 0 ELSE IF held = Press THEN held ELSE held + 1
      /\ armed' = (sync_signal = 0 \/ (armed /\ ~edge_detect_pulse))
  BY <1>0 DEF ChainCycle, Synchronize, Debounce, DetectEdge, Observe, RegisterR, RegisterRCE
<1>3. /\ wrapping_count' \in 0..(S - 1)
      /\ old_signal' \in BOOLEAN /\ armed' \in BOOLEAN
      /\ Press' = Press
  <2>1. wrapping_count' \in 0..(S - 1)
    BY <1>0, <1>2 DEF sample_pluse
  <2> QED BY <1>2, <2>1 DEF debounced_signal, Press
<1>4. SUFFICES /\ n' \in 0..PULSE_CNT_MAX /\ held' \in 0..Press
               /\ PressIsHeld' /\ OneResetPerPress' /\ Samples'
  BY <1>2, <1>3 DEF ChainInv, ChainTypeOK
(* The button is up: everything is cleared.                                *)
<1>5. CASE sync_signal = 0
  <2>1. n' = 0 /\ held' = 0 /\ armed'
    BY <1>2, <1>5
  <2>2. ~debounced_signal' /\ held' # Press'
    BY <1>1, <1>3, <2>1 DEF debounced_signal
  <2>3. PressIsHeld' /\ OneResetPerPress'
    BY <2>2 DEF PressIsHeld, OneResetPerPress
  <2>4. held' <= n' * S + wrapping_count' /\ ~(n' > 0)
    <3>1. n' = 0 /\ held' = 0
      BY <2>1
    <3>2. n' * S = 0
      BY <1>1, <3>1
    <3>3. wrapping_count' \in Nat
      BY <1>3
    <3>4. held' <= n' * S + wrapping_count'
      <4>1. \A w \in Nat : 0 <= 0 + w
        OBVIOUS
      <4>2. 0 <= 0 + wrapping_count'
        BY <3>3, <4>1, Zenon
      <4> QED BY <3>1, <3>2, <4>2, Zenon
    <3>5. ~(n' > 0)
      BY <3>1
    <3> QED BY <3>4, <3>5
  <2>5. Samples'
    BY <2>1, <2>4, Zenon DEF Samples
  <2> QED BY <1>1, <2>1, <2>3, <2>5
(* The press has been counted: held only grows, and the pulse is over.     *)
<1>6. CASE sync_signal = 1 /\ debounced_signal
  <2>1. n' = n /\ old_signal' /\ armed' = (armed /\ ~edge_detect_pulse)
    BY <1>2, <1>6
  <2>2. debounced_signal'
    BY <1>6, <2>1 DEF debounced_signal
  <2>3. held' \in 0..Press /\ held' > Press - S
    BY <1>0, <1>1, <1>2, <1>6 DEF PressIsHeld
  <2>4. PressIsHeld'
    BY <1>3, <2>2, <2>3 DEF PressIsHeld
  <2>5. ~edge_detect_pulse' /\ ~armed'
    BY <1>0, <1>6, <2>1 DEF edge_detect_pulse, OneResetPerPress
  <2>6. OneResetPerPress' /\ Samples'
    BY <2>2, <2>5, Zenon DEF OneResetPerPress, Samples
  <2> QED BY <1>0, <2>1, <2>3, <2>4, <2>6
<1>7. CASE sync_signal = 1 /\ ~debounced_signal
  <2>0. n < PULSE_CNT_MAX /\ n \in Nat
    BY <1>0, <1>7 DEF debounced_signal
  <2> DEFINE x == n * S
  <2>1. /\ x \in Nat /\ (n + 1) * S = x + S /\ x + S <= Press
        /\ (n + 1 = PULSE_CNT_MAX) => x + S = Press
    BY <2>0, SamplesBelowPress DEF Press
  <2>2. /\ held <= x + wrapping_count
        /\ n > 0 => held > x - S + wrapping_count
        /\ armed
    BY <1>0, <1>7 DEF Samples
  <2>3. /\ ~old_signal' /\ armed'
        /\ n' = IF sample_pluse THEN n + 1 ELSE n
    <3>1. ~old_signal' /\ armed'
      BY <1>2, <1>7, <2>2, Zenon DEF edge_detect_pulse
    <3> QED BY <1>2, <1>7, <3>1
  <2>4. OneResetPerPress'
    BY <2>3 DEF OneResetPerPress, edge_detect_pulse
  <2> HIDE DEF x
  <2>5. held' = held + 1 /\ held' \in 0..Press
    BY <1>0, <1>1, <1>2, <1>7, <2>1, <2>2 DEF PressIsHeld
  <2>6. CASE ~sample_pluse
    <3>1. n' = n /\ wrapping_count' = wrapping_count + 1 /\ ~debounced_signal'
      BY <1>2, <1>7, <2>3, <2>6 DEF debounced_signal
    <3>2. /\ held' <= x + wrapping_count'
          /\ n > 0 => held' > x - S + wrapping_count'
      BY <1>0, <2>1, <2>2, <2>5, <3>1
    <3>3. Samples'
      BY <2>3, <3>1, <3>2 DEF Samples, x
    <3>4. held' # Press
      BY <1>0, <1>3, <2>1, <2>5, <3>1, <3>2
    <3>5. PressIsHeld'
      BY <1>3, <3>1, <3>4, Zenon DEF PressIsHeld
    <3> QED BY <1>0, <2>4, <2>5, <3>1, <3>3, <3>5
  <2>7. CASE sample_pluse
    <3>1. n' = n + 1 /\ wrapping_count' = 0 /\ wrapping_count = S - 1
      BY <1>2, <2>3, <2>7 DEF sample_pluse
    <3>2. held' <= x + S /\ held' > x
      <4>1. CASE n > 0
        BY <1>0, <2>1, <2>2, <2>5, <3>1, <4>1
      <4>2. CASE n = 0
        BY <1>0, <1>1, <2>1, <2>2, <2>5, <3>1, <4>2 DEF x
      <4> QED BY <2>0, <4>1, <4>2
    <3>3. Samples'
      <4>1. n' * S = x + S /\ n' > 0
        BY <2>0, <2>1, <3>1
      <4> QED BY <2>1, <2>3, <2>5, <3>1, <3>2, <4>1 DEF Samples
    <3>4. PressIsHeld'
      <4>1. n' = PULSE_CNT_MAX => held' > Press - S
        BY <2>1, <2>5, <3>1, <3>2
      <4>2. held' = Press => n' = PULSE_CNT_MAX
        <5>1. SUFFICES ASSUME n + 1 # PULSE_CNT_MAX PROVE x + S < Press
          BY <2>1, <2>5, <3>1, <3>2
        <5>2. (n + 1) * S + S <= Press
          BY <2>0, <5>1, SamplesBelowPress DEF Press
        <5> QED BY <1>1, <2>1, <5>2
      <4> QED BY <1>3, <4>1, <4>2 DEF PressIsHeld, debounced_signal
    <3> QED BY <2>0, <2>4, <2>5, <3>1, <3>3, <3>4
  <2> QED BY <2>6, <2>7
<1> QED BY <1>0, <1>5, <1>6, <1>7 DEF Bit

LEMMA ChainInvariant == ChainSpec => []ChainInv
<1>1. ChainInit => ChainInv
  BY ChainInitInv
<1>2. ChainInv /\ [ChainNext]_chainVars => ChainInv'
  <2>1. CASE UNCHANGED chainVars
    BY <2>1, Zenon DEF chainVars, ChainInv, ChainTypeOK, PressIsHeld, OneResetPerPress, Samples,
       debounced_signal, edge_detect_pulse, Press
  <2>2. CASE ChainNext
    BY <2>2, ChainCycleInv DEF ChainNext
  <2> QED BY <2>1, <2>2
<1> QED BY <1>1, <1>2, PTL DEF ChainSpec

(* The chain counts a press as a press, whatever the button does before.   *)
THEOREM ChainCorrect == ChainSpec => [](ChainTypeOK /\ PressIsHeld)
<1>1. ChainInv => ChainTypeOK /\ PressIsHeld
  BY DEF ChainInv
<1> QED BY <1>1, ChainInvariant, PTL

(* It raises the reset in the first cycle of a counted press and in no     *)
(* other: once for each press, whatever the button does in between.        *)
THEOREM ChainResetsOnce == ChainSpec => []OneResetPerPress
<1>1. ChainInv => OneResetPerPress
  BY DEF ChainInv
<1> QED BY <1>1, ChainInvariant, PTL

-----------------------------------------------------------------------------
(* A frame word is ten bits.                                               *)
LEMMA FrameWordType == \A b \in Byte : FrameWord(b) \in [0..9 -> {0, 1}]
<1> SUFFICES ASSUME NEW b \in Byte PROVE FrameWord(b) \in [0..9 -> {0, 1}]
  OBVIOUS
<1>1. b \in [0..7 -> {0, 1}]
  BY ByteAssumption
<1>2. \A i \in 0..9 : (i # 0 /\ i # 9) => i - 1 \in 0..7
  OBVIOUS
<1> QED
  BY <1>1, <1>2 DEF FrameWord

(* Every register keeps its range, in particular the wrap of clock_counter *)
(* at the symbol edge and the count-down of bit_counter.                   *)
THEOREM TxTypeCorrect == TxSpec => []TxTypeOK
<1>1. TxInit => TxTypeOK
  <2> SUFFICES ASSUME TxInit PROVE TxTypeOK
    OBVIOUS
  <2>1. clock_counter \in 0..(SYMBOL_EDGE_TIME - 1) /\ bit_counter \in 0..10 /\ in_frame \in Nat
    BY SymbolAssumption DEF TxInit
  <2>2. tx_shifter \in [0..9 -> {0, 1}] /\ byte \in Byte /\ was_reset \in BOOLEAN
    BY DEF TxInit
  <2> QED BY <2>1, <2>2 DEF TxTypeOK
<1>2. TxTypeOK /\ [TxNext]_txVars => TxTypeOK'
  <2> SUFFICES ASSUME TxTypeOK, [TxNext]_txVars PROVE TxTypeOK'
    OBVIOUS
  <2> USE SymbolAssumption DEF TxTypeOK
  <2> DEFINE RegistersOK == /\ clock_counter' \in 0..(SYMBOL_EDGE_TIME - 1)
                            /\ bit_counter' \in 0..10
                            /\ tx_shifter' \in [0..9 -> {0, 1}]
                            /\ byte' \in Byte
  <2>1. ASSUME Reset PROVE RegistersOK
    BY <2>1 DEF Reset
  <2>2. ASSUME NEW b \in Byte, Accept(b) PROVE RegistersOK
    BY <2>2, FrameWordType DEF Accept
  <2>3. ASSUME NextSymbol PROVE RegistersOK
    <3>1. ShiftRight(tx_shifter) \in [0..9 -> {0, 1}]
      <4>1. \A i \in 0..9 : i # 9 => i + 1 \in 0..9
        OBVIOUS
      <4> QED BY <4>1 DEF ShiftRight
    <3>2. bit_counter - 1 \in 0..10
      BY <2>3 DEF NextSymbol, tx_running
    <3> QED BY <2>3, <3>1, <3>2 DEF NextSymbol
  <2>4. ASSUME Tick PROVE RegistersOK
    BY <2>4 DEF Tick, symbol_edge
  <2>5. CASE UNCHANGED txVars
    BY <2>5 DEF txVars
  <2>6. ASSUME NEW reset \in BOOLEAN, Record(reset)
        PROVE  in_frame' \in Nat /\ was_reset' \in BOOLEAN
    BY <2>6 DEF Record
  <2> QED BY <2>1, <2>2, <2>3, <2>4, <2>5, <2>6 DEF TxNext, TxCycle
<1> QED BY <1>1, <1>2, PTL DEF TxSpec

(* The bits still to be sent are always the tail of the accepted byte's    *)
(* frame.                                                                  *)
THEOREM FrameIntactAlways == TxSpec => []FrameIntact
<1>1. TxInit => FrameIntact
  BY DEF TxInit, FrameIntact
<1>2. TxTypeOK /\ FrameIntact /\ [TxNext]_txVars => FrameIntact'
  <2> SUFFICES ASSUME TxTypeOK, FrameIntact, [TxNext]_txVars,
                      NEW i \in 0..9, i < bit_counter'
               PROVE tx_shifter'[i] = FrameWord(byte')[10 - bit_counter' + i]
    BY DEF FrameIntact, FrameWord
  <2> USE DEF TxTypeOK
  <2>1. CASE Reset
    BY <2>1 DEF Reset
  <2>2. ASSUME NEW b \in Byte, Accept(b)
        PROVE tx_shifter'[i] = FrameWord(byte')[10 - bit_counter' + i]
    <3>1. 10 - bit_counter' + i = i
      BY <2>2 DEF Accept
    <3> QED BY <2>2, <3>1 DEF Accept
  <2>3. CASE NextSymbol
    <3>1. /\ bit_counter \in 1..10 /\ bit_counter' = bit_counter - 1
          /\ tx_shifter' = ShiftRight(tx_shifter) /\ byte' = byte
      BY <2>3 DEF NextSymbol, tx_running
    <3>2. i # 9 /\ i + 1 \in 0..9 /\ i + 1 < bit_counter
      BY <3>1
    <3>3. tx_shifter'[i] = tx_shifter[i + 1]
      BY <3>1, <3>2 DEF ShiftRight
    <3>4. tx_shifter[i + 1] = FrameWord(byte)[10 - bit_counter + (i + 1)]
      BY <3>2 DEF FrameIntact
    <3>5. 10 - bit_counter + (i + 1) = 10 - bit_counter' + i
      BY <3>1
    <3> QED BY <3>1, <3>3, <3>4, <3>5
  <2>4. CASE Tick
    BY <2>4 DEF Tick, FrameIntact
  <2>5. CASE UNCHANGED txVars
    BY <2>5 DEF txVars, FrameIntact
  <2> QED BY <2>1, <2>2, <2>3, <2>4, <2>5 DEF TxNext, TxCycle
<1> QED BY <1>1, <1>2, TxTypeCorrect, PTL DEF TxSpec

(* A symbol's index is the quotient of the cycles elapsed by the symbol    *)
(* time.                                                                   *)
LEMMA SymbolIndex ==
  ASSUME NEW S \in Nat, S > 0, NEW k \in Nat, NEW c \in 0..(S - 1)
  PROVE  (k * S + c) \div S = k
  OBVIOUS

LEMMA FrameLength ==
  ASSUME NEW S \in Nat, S > 0, NEW k \in 0..9, NEW c \in 0..(S - 1)
  PROVE  /\ k * S + c \in Nat
         /\ k * S + c < 10 * S
         /\ k * S + c + 1 = 10 * S <=> k = 9 /\ c = S - 1
         /\ (k + 1) * S = k * S + S
  OBVIOUS

(* The transmitter's counters tell the time: bit_counter symbols and the   *)
(* clock counter account for every cycle since the frame began.            *)
FrameClock ==
  in_frame = IF tx_running
             THEN (10 - bit_counter) * SYMBOL_EDGE_TIME + clock_counter ELSE 0

LEMMA FrameClockAlways == TxSpec => []FrameClock
<1>1. TxInit => FrameClock
  BY DEF TxInit, FrameClock, tx_running
<1>2. TxTypeOK /\ FrameClock /\ [TxNext]_txVars => FrameClock'
  <2> SUFFICES ASSUME TxTypeOK, FrameClock, [TxNext]_txVars PROVE FrameClock'
    OBVIOUS
  <2> USE SymbolAssumption DEF TxTypeOK, FrameClock, tx_running
  <2>1. ASSUME NEW reset \in BOOLEAN, Reset, Record(reset) PROVE FrameClock'
    BY <2>1 DEF Reset, Record
  <2>2. ASSUME NEW reset \in BOOLEAN, NEW b \in Byte, Accept(b), Record(reset)
        PROVE  FrameClock'
    <3>1. bit_counter = 0 /\ bit_counter' = 10 /\ clock_counter' = 0 /\ in_frame' = 0
      BY <2>2 DEF Accept, Record, data_in_ready
    <3> QED BY <3>1
  <2>3. ASSUME NEW reset \in BOOLEAN, NextSymbol, Record(reset) PROVE FrameClock'
    <3>1. /\ bit_counter \in 1..10 /\ bit_counter' = bit_counter - 1
          /\ clock_counter = SYMBOL_EDGE_TIME - 1 /\ clock_counter' = 0
      BY <2>3 DEF NextSymbol, symbol_edge
    <3>2. CASE bit_counter' = 0
      BY <2>3, <3>2 DEF Record
    <3>3. CASE bit_counter' # 0
      <4>1. in_frame' = in_frame + 1
        BY <2>3, <3>1, <3>3 DEF Record
      <4>2. PICK k \in 0..9 : k = 10 - bit_counter
        BY <3>1
      <4>3. 10 - bit_counter' = k + 1
        BY <3>1, <4>2
      <4>4. k * SYMBOL_EDGE_TIME + (SYMBOL_EDGE_TIME - 1) + 1 = (k + 1) * SYMBOL_EDGE_TIME
        BY FrameLength, <3>1
      <4> QED BY <3>1, <3>3, <4>1, <4>2, <4>3, <4>4
    <3> QED BY <3>2, <3>3
  <2>4. ASSUME NEW reset \in BOOLEAN, Tick, Record(reset) PROVE FrameClock'
    <3>1. CASE bit_counter = 0
      BY <2>4, <3>1 DEF Tick, Record
    <3>2. CASE bit_counter # 0
      <4>1. /\ clock_counter' = clock_counter + 1 /\ bit_counter' = bit_counter
            /\ in_frame' = in_frame + 1
        BY <2>4, <3>2 DEF Tick, Record
      <4>2. PICK k \in 0..9 : k = 10 - bit_counter
        BY <3>2
      <4>3. in_frame = k * SYMBOL_EDGE_TIME + clock_counter
        BY <3>2, <4>2
      <4>4. k * SYMBOL_EDGE_TIME \in Nat
        BY <4>2
      <4> QED BY <3>2, <4>1, <4>2, <4>3, <4>4
    <3> QED BY <3>1, <3>2
  <2>5. CASE UNCHANGED txVars
    BY <2>5 DEF txVars
  <2> QED BY <2>1, <2>2, <2>3, <2>4, <2>5 DEF TxNext, TxCycle
<1> QED BY <1>1, <1>2, TxTypeCorrect, PTL DEF TxSpec

(* The transmitter implements SerialSender: an accepted byte is on the     *)
(* line for ten symbols of SYMBOL_EDGE_TIME cycles, whatever is offered    *)
(* meanwhile, unless a cycle of reset cuts it short.  Every cycle is one   *)
(* of SerialSender's: of rest, of a frame's begin, advance or end, or of   *)
(* an abort, and that only in a cycle of reset.                            *)
THEOREM TransmitterSendsFrames == TxSpec => SendsFrames
<1> DEFINE at == (10 - bit_counter) * SYMBOL_EDGE_TIME + clock_counter
           Inv == TxTypeOK /\ FrameIntact /\ FrameClock
<1>1. TxInit => Sender!SenderInit
  BY DEF TxInit, Sender!SenderInit, data_in_ready, tx_running, serial_out
<1>2. ASSUME Inv, Inv', NEW reset \in BOOLEAN, NEW valid \in BOOLEAN, NEW b \in Byte,
             TxCycle(reset, valid, b), Record(reset)
      PROVE  Sender!SenderNext
  <2> USE SymbolAssumption DEF TxTypeOK, tx_running, data_in_ready, serial_out
  <2>1. ASSUME bit_counter' # 0
        PROVE  serial_out' = Sender!FrameOf(byte')[10 - bit_counter']
    <3>1. 0 \in 0..9 /\ 0 < bit_counter' /\ 10 - bit_counter' + 0 = 10 - bit_counter'
      BY <1>2, <2>1
    <3>2. tx_shifter'[0] = FrameWord(byte')[10 - bit_counter' + 0]
      BY <1>2, <3>1 DEF FrameIntact
    <3>3. FrameWord(byte') = Sender!FrameOf(byte')
      BY DEF FrameWord, Sender!FrameOf
    <3> QED BY <2>1, <3>1, <3>2, <3>3
  <2>2. CASE reset /\ Reset
    <3>1. bit_counter' = 0 /\ in_frame' = 0 /\ was_reset' = TRUE /\ byte' = byte
      BY <1>2, <2>2 DEF Reset, Record
    <3>2. Sender!Abort
      BY <3>1 DEF Sender!Abort
    <3> QED BY <3>2 DEF Sender!SenderNext
  <2>3. CASE ~reset /\ Accept(b)
    <3>1. /\ bit_counter = 0 /\ bit_counter' = 10 /\ clock_counter' = 0 /\ byte' = b
          /\ in_frame' = 0 /\ was_reset' = FALSE
      BY <1>2, <2>3 DEF Accept, Record
    <3>2. 0 \div SYMBOL_EDGE_TIME = 0
      BY SymbolIndex
    <3>3. serial_out' = Sender!LevelAt(b, 0)
      BY <3>1, <3>2, <2>1, <1>2 DEF Sender!LevelAt
    <3>4. Sender!Take(b)
      BY <3>1, <3>3 DEF Sender!Take
    <3> QED BY <3>4 DEF Sender!SenderNext
  <2>4. CASE ~reset /\ bit_counter = 0 /\ Tick
    <3>1. /\ bit_counter' = 0 /\ byte' = byte /\ in_frame = 0 /\ in_frame' = 0
          /\ was_reset' = FALSE
      BY <1>2, <2>4 DEF Tick, Record, FrameClock
    <3>2. Sender!Rest
      BY <3>1, <2>4 DEF Sender!Rest
    <3> QED BY <3>2 DEF Sender!SenderNext
  <2>5. CASE ~reset /\ bit_counter # 0 /\ NextSymbol
    <3>1. /\ bit_counter' = bit_counter - 1 /\ clock_counter = SYMBOL_EDGE_TIME - 1
          /\ clock_counter' = 0 /\ byte' = byte /\ was_reset' = FALSE /\ in_frame = at
          /\ in_frame' = IF bit_counter' = 0 THEN 0 ELSE at + 1
      BY <1>2, <2>5 DEF NextSymbol, symbol_edge, Record, FrameClock
    <3> DEFINE k == 10 - bit_counter
    <3>2. k \in 0..9 /\ 10 - bit_counter' = k + 1
      BY <2>5, <3>1, <1>2
    <3>3. (k + 1) * SYMBOL_EDGE_TIME + 0 = at + 1 /\ at + 1 \in Nat
      BY <3>1, <3>2
    <3>4. CASE bit_counter' = 0
      <4>1. at + 1 = Sender!FrameTime
        BY <3>1, <3>2, <3>3, <3>4 DEF Sender!FrameTime
      <4>2. Sender!Finish
        BY <4>1, <3>1, <3>4, <2>5 DEF Sender!Finish
      <4> QED BY <4>2 DEF Sender!SenderNext
    <3>5. CASE bit_counter' # 0
      <4>1. at + 1 < Sender!FrameTime
        BY <3>2, <3>5, <3>1, <1>2, FrameLength DEF Sender!FrameTime
      <4>2. (at + 1) \div SYMBOL_EDGE_TIME = k + 1
        BY <3>2, <3>3, SymbolIndex
      <4>3. serial_out' = Sender!LevelAt(byte, at + 1)
        BY <3>1, <3>2, <3>5, <4>2, <2>1, <1>2 DEF Sender!LevelAt
      <4>4. Sender!Advance
        BY <4>1, <4>3, <3>1, <3>5, <2>5 DEF Sender!Advance
      <4> QED BY <4>4 DEF Sender!SenderNext
    <3> QED BY <3>4, <3>5
  <2>6. CASE ~reset /\ bit_counter # 0 /\ Tick
    <3>1. /\ clock_counter' = clock_counter + 1 /\ UNCHANGED <<bit_counter, byte>>
          /\ was_reset' = FALSE /\ in_frame = at /\ in_frame' = at + 1
      BY <1>2, <2>6 DEF Tick, Record, FrameClock
    <3> DEFINE k == 10 - bit_counter
    <3>2. k \in 0..9 /\ k * SYMBOL_EDGE_TIME + clock_counter' = at + 1 /\ at + 1 \in Nat
      BY <2>6, <3>1, <1>2
    <3>3. at + 1 < Sender!FrameTime
      BY <3>2, <3>1, <1>2, FrameLength DEF Sender!FrameTime
    <3>4. (at + 1) \div SYMBOL_EDGE_TIME = k
      <4>1. clock_counter' \in 0..(SYMBOL_EDGE_TIME - 1) /\ k \in Nat
        BY <1>2, <3>2
      <4>2. (k * SYMBOL_EDGE_TIME + clock_counter') \div SYMBOL_EDGE_TIME = k
        BY <4>1, SymbolIndex
      <4> QED BY <4>2, <3>2
    <3>5. serial_out' = Sender!LevelAt(byte, at + 1)
      BY <3>1, <3>2, <3>4, <2>1, <2>6, <1>2 DEF Sender!LevelAt
    <3>6. Sender!Advance
      BY <3>1, <3>3, <3>5, <2>6 DEF Sender!Advance
    <3> QED BY <3>6 DEF Sender!SenderNext
  <2>7. ~(bit_counter = 0 /\ NextSymbol)
    BY DEF NextSymbol
  <2> QED BY <1>2, <2>2, <2>3, <2>4, <2>5, <2>6, <2>7 DEF TxCycle
<1>3. ASSUME UNCHANGED txVars PROVE UNCHANGED Sender!senderVars
  BY <1>3 DEF txVars, Sender!senderVars, data_in_ready, tx_running, serial_out
<1>4. Inv /\ Inv' /\ [TxNext]_txVars => [Sender!SenderNext]_(Sender!senderVars)
  BY <1>2, <1>3 DEF TxNext
<1>5. TxSpec => []Inv
  BY TxTypeCorrect, FrameIntactAlways, FrameClockAlways, PTL
<1> QED BY <1>1, <1>4, <1>5, PTL DEF TxSpec, SendsFrames, Sender!SenderSpec
=============================================================================
