--------------------------- MODULE Devices_proofs ---------------------------
(***************************************************************************)
(* RequestsExact for clocks, key queues, displays and disks of every size, *)
(* and for as many keys and requests as there are. Each device has an      *)
(* invariant of its own; a step of one leaves the others alone.            *)
(***************************************************************************)
EXTENDS Devices, Htif, NesPort, SequenceTheorems, TLAPS

LEMMA Sizes ==
  /\ SECONDS \in Nat \ {0} /\ MINUTES \in Nat \ {0} /\ KEY_QUEUE_LEN \in Nat \ {0}
  /\ W \in Nat \ {0} /\ H \in Nat \ {0} /\ BLKSZ \in Nat \ {0} /\ BYTE \in Nat \ {0}
  /\ DISK \in Nat
BY DevicesAssumption

LEMMA DivMod ==
  ASSUME NEW m \in Nat \ {0}, NEW x \in Nat
  PROVE  \E q \in Nat, r \in 0..(m - 1) :
           q = x \div m /\ r = x % m /\ x = q * m + r
<1>1. x % m \in 0..(m - 1) /\ x \div m \in Int /\ x \div m >= 0
  OBVIOUS
<1>2. ASSUME NEW q \in Int, q = x \div m, NEW r \in Int, r = x % m
      PROVE  x = q * m + r
  BY <1>2
<1>3. PICK q \in Nat : q = x \div m
  BY <1>1
<1>4. PICK r \in 0..(m - 1) : r = x % m
  BY <1>1
<1>5. x = q * m + r
  BY <1>2, <1>3, <1>4
<1> QED BY <1>3, <1>4, <1>5

LEMMA DivUnique ==
  ASSUME NEW m \in Nat \ {0}, NEW q \in Nat, NEW r \in 0..(m - 1), NEW x, x = q * m + r
  PROVE  x \in Nat /\ x \div m = q /\ x % m = r
<1>1. (q * m + r) \div m = q /\ q * m + r \in Nat
  OBVIOUS
<1>2. ASSUME NEW y \in Nat, y = q * m + r PROVE y % m = r
  BY <1>2
<1> QED BY <1>1, <1>2

(* A multiple between -m and m is zero.                                    *)
LEMMA NoMultiple ==
  ASSUME NEW m \in Nat \ {0}, NEW k \in Int, k * m < m, -m < k * m
  PROVE  k = 0
<1>1. CASE k >= 1
  <2>1. (k - 1) * m \in Nat /\ k * m = (k - 1) * m + m
    BY <1>1
  <2> QED BY <2>1
<1>2. CASE k <= -1
  <2>1. (-1 - k) * m \in Nat /\ k * m = -((-1 - k) * m) - m
    BY <1>2
  <2> QED BY <2>1
<1> QED BY <1>1, <1>2

(* Numbers less than m apart with one remainder are one number.            *)
LEMMA SameRemainder ==
  ASSUME NEW m \in Nat \ {0}, NEW x \in Nat, NEW y \in Nat, x <= y, y - x < m, x % m = y % m
  PROVE  x = y
<1>1. PICK p \in Nat, r \in 0..(m - 1) : p = x \div m /\ r = x % m /\ x = p * m + r
  BY DivMod
<1>2. PICK q \in Nat, s \in 0..(m - 1) : q = y \div m /\ s = y % m /\ y = q * m + s
  BY DivMod
<1>3. (q - p) * m = q * m - p * m /\ q * m \in Nat /\ p * m \in Nat
  OBVIOUS
<1>4. (q - p) * m < m /\ -m < (q - p) * m
  BY <1>1, <1>2, <1>3
<1>5. q = p
  BY <1>4, NoMultiple
<1>6. q * m = p * m
  BY <1>5
<1>7. r = s
  BY <1>1, <1>2
<1> QED BY <1>1, <1>2, <1>3, <1>6, <1>7

(* The remainder of the next number.                                       *)
LEMMA NextRemainder ==
  ASSUME NEW m \in Nat \ {0}, NEW x \in Nat
  PROVE  ((x % m) + 1) % m = (x + 1) % m
<1>1. PICK p \in Nat, r \in 0..(m - 1) : p = x \div m /\ r = x % m /\ x = p * m + r
  BY DivMod
<1>2. CASE r + 1 < m
  <2>1. x + 1 = p * m + (r + 1) /\ r + 1 \in 0..(m - 1)
    <3>1. p * m \in Nat
      OBVIOUS
    <3> QED BY <1>1, <1>2, <3>1
  <2>2. (x + 1) % m = r + 1
    <3>1. PICK s \in 0..(m - 1) : s = r + 1
      BY <2>1
    <3>2. PICK y \in Nat : y = x + 1
      OBVIOUS
    <3>3. y = p * m + s
      BY <2>1, <3>1, <3>2
    <3>4. y % m = s
      BY <3>3, DivUnique
    <3> QED BY <3>1, <3>2, <3>4
  <2>3. (r + 1) % m = r + 1
    BY <1>2
  <2> QED BY <1>1, <2>2, <2>3
<1>3. CASE r + 1 = m
  <2>1. x + 1 = (p + 1) * m + 0 /\ p + 1 \in Nat /\ 0 \in 0..(m - 1)
    <3>1. (p + 1) * m = p * m + m /\ p * m \in Nat
      OBVIOUS
    <3>2. x + 1 = (p + 1) * m + 0
      BY <1>1, <1>3, <3>1
    <3> QED BY <3>2
  <2>2. (x + 1) % m = 0
    <3>1. PICK q \in Nat : q = p + 1
      BY <2>1
    <3>2. PICK y \in Nat : y = x + 1
      OBVIOUS
    <3>3. y = q * m + 0 /\ 0 \in 0..(m - 1)
      BY <2>1, <3>1, <3>2
    <3>4. y % m = 0
      BY <3>3, DivUnique
    <3> QED BY <3>2, <3>4
  <2>3. m % m = 0
    OBVIOUS
  <2> QED BY <1>1, <1>3, <2>2, <2>3
<1> QED BY <1>2, <1>3

-----------------------------------------------------------------------------
(* The clock: while the registers are read, the times they were read at    *)
(* follow one another, and less than a minute passes.                      *)
ClockTypeOK ==
  /\ time \in Nat /\ since \in Nat /\ since <= time /\ reading \in BOOLEAN
  /\ rtc \in Seq(Nat) /\ Len(rtc) <= 3
  /\ reading => time - since <= SECONDS - 1
ReadInOrder ==
  \E t1 \in since..time :
     /\ rtc[1] = t1 % SECONDS
     /\ \A n \in 2..Len(rtc) : \E t \in t1..time : rtc[n] = Shown(t)[n]
ClockInv == /\ ClockTypeOK
            /\ reading /\ rtc # <<>> => ReadInOrder
            /\ TimeWasOnClock

(* The registers of the clock come out of BCD as they went in.             *)
LEMMA BcdRead == ASSUME NEW x \in Nat PROVE (Bcd(x) % 16) + (Bcd(x) \div 16) * 10 = x
BY DEF Bcd

LEMMA ShownInNat ==
  ASSUME NEW t \in Nat
  PROVE  /\ \A n \in 1..3 : Shown(t)[n] \in Nat
         /\ Shown(t)[1] = t % SECONDS /\ Shown(t) \in Seq(Nat) /\ Len(Shown(t)) = 3
<1>1. t % SECONDS \in Nat /\ t \div SECONDS \in Nat
  BY Sizes
<1>2. (t \div SECONDS) % MINUTES \in Nat
  BY <1>1, Sizes
<1>3. SECONDS * MINUTES \in Nat \ {0}
  BY Sizes
<1>4. t \div (SECONDS * MINUTES) \in Nat
  <2>1. ASSUME NEW m \in Nat \ {0} PROVE t \div m \in Nat
    OBVIOUS
  <2> QED BY <1>3, <2>1
<1>5. ASSUME NEW x \in Nat, NEW y \in Nat, NEW z \in Nat
      PROVE  /\ \A n \in 1..3 : <<x, y, z>>[n] \in Nat
             /\ <<x, y, z>>[1] = x /\ <<x, y, z>> \in Seq(Nat) /\ Len(<<x, y, z>>) = 3
  OBVIOUS
<1> QED BY <1>1, <1>2, <1>4, <1>5 DEF Shown

LEMMA ReadsRegister ==
  ASSUME time \in Nat, NEW n \in 1..3
  PROVE  read_rtc(n) = Shown(time)[n] /\ read_rtc(n) \in Nat
<1>1. Shown(time)[n] \in Nat
  BY ShownInNat
<1> QED BY <1>1, BcdRead DEF read_rtc, Register

LEMMA ClockInit == InitDevices => ClockInv
<1> SUFFICES ASSUME InitDevices PROVE ClockInv
  OBVIOUS
<1>1. time = 0 /\ since = 0 /\ rtc = <<>> /\ reading = FALSE
  BY DEF InitDevices
<1>2. ClockTypeOK
  <2>1. rtc \in Seq(Nat) /\ Len(rtc) <= 3
    BY <1>1
  <2>2. time \in Nat /\ since \in Nat /\ since <= time
    BY <1>1
  <2> QED BY <1>1, <2>1, <2>2 DEF ClockTypeOK
<1> QED BY <1>1, <1>2, Zenon DEF ClockInv, TimeWasOnClock

LEMMA ClockStep ==
  ASSUME ClockInv, device = "clock", [DevicesNext]_deviceVars
  PROVE  ClockInv'
<1> USE Sizes
<1>0. ClockTypeOK /\ (reading /\ rtc # <<>> => ReadInOrder) /\ TimeWasOnClock
  BY DEF ClockInv
<1>1. CASE Tick
  <2>1. /\ time' = time + 1 /\ UNCHANGED <<since, rtc, reading>>
        /\ reading => time - since < SECONDS - 1
    BY <1>1 DEF Tick
  <2>2. ClockTypeOK'
    BY <1>0, <2>1 DEF ClockTypeOK
  <2>3. ReadInOrder => ReadInOrder'
    <3> SUFFICES ASSUME ReadInOrder PROVE ReadInOrder'
      OBVIOUS
    <3>1. PICK t1 \in since..time :
            /\ rtc[1] = t1 % SECONDS
            /\ \A n \in 2..Len(rtc) : \E t \in t1..time : rtc[n] = Shown(t)[n]
      BY DEF ReadInOrder
    <3>2. t1 \in since..time' /\ \A t \in t1..time : t \in t1..time'
      BY <1>0, <2>1, <3>1 DEF ClockTypeOK
    <3>3. \A n \in 2..Len(rtc) : \E t \in t1..time' : rtc[n] = Shown(t)[n]
      BY <3>1, <3>2
    <3>4. \E u \in since'..time' :
            /\ rtc'[1] = u % SECONDS
            /\ \A n \in 2..Len(rtc') : \E t \in u..time' : rtc'[n] = Shown(t)[n]
      BY <2>1, <3>1, <3>2, <3>3
    <3> QED BY <3>4, Zenon DEF ReadInOrder, Shown
  <2>4. TimeWasOnClock'
    <3> SUFFICES ASSUME ~reading, rtc # <<>> PROVE \E t \in since..time' : rtc = Shown(t)
      BY <2>1, Zenon DEF TimeWasOnClock, Shown
    <3>1. PICK t \in since..time : rtc = Shown(t)
      BY <1>0 DEF TimeWasOnClock
    <3>2. t \in since..time'
      BY <1>0, <2>1, <3>1 DEF ClockTypeOK
    <3> QED BY <3>1, <3>2
  <2> QED BY <1>0, <2>1, <2>2, <2>3, <2>4, Zenon DEF ClockInv
<1>2. CASE Begins
  <2>1. reading' = TRUE /\ since' = time /\ rtc' = <<>> /\ time' = time
    BY <1>2 DEF Begins
  <2>2. ClockTypeOK'
    BY <1>0, <2>1 DEF ClockTypeOK
  <2> QED BY <2>1, <2>2, Zenon DEF ClockInv, TimeWasOnClock
<1>3. CASE read_rtc_async
  <2>1. /\ reading /\ Len(rtc) < 3 /\ rtc' = Append(rtc, read_rtc(Len(rtc) + 1))
        /\ UNCHANGED <<time, since, reading>>
    BY <1>3 DEF read_rtc_async
  <2>2. /\ Len(rtc) \in Nat /\ Len(rtc) + 1 \in 1..3 /\ time \in Nat /\ since \in Nat
        /\ since <= time /\ rtc \in Seq(Nat)
    BY <1>0, <2>1 DEF ClockTypeOK
  <2>3. read_rtc(Len(rtc) + 1) = Shown(time)[Len(rtc) + 1] /\ read_rtc(Len(rtc) + 1) \in Nat
    BY <2>2, ReadsRegister
  <2>4. /\ rtc' \in Seq(Nat) /\ Len(rtc') = Len(rtc) + 1
        /\ rtc'[Len(rtc) + 1] = Shown(time)[Len(rtc) + 1]
        /\ \A n \in 1..Len(rtc) : rtc'[n] = rtc[n]
    BY <2>1, <2>2, <2>3, AppendProperties
  <2>5. \E t1 \in since..time :
          /\ rtc'[1] = t1 % SECONDS
          /\ \A n \in 2..Len(rtc') : \E t \in t1..time : rtc'[n] = Shown(t)[n]
    <3>1. CASE rtc = <<>>
      <4>1. Len(rtc) = 0
        BY <3>1
      <4>2. rtc'[1] = time % SECONDS /\ Len(rtc') = 1
        <5>1. Shown(time)[1] = time % SECONDS
          BY <2>2, ShownInNat
        <5> QED BY <2>4, <4>1, <5>1
      <4>3. time \in since..time
        BY <2>2
      <4> QED BY <4>2, <4>3
    <3>2. CASE rtc # <<>>
      <4>1. PICK t1 \in since..time :
              /\ rtc[1] = t1 % SECONDS
              /\ \A n \in 2..Len(rtc) : \E t \in t1..time : rtc[n] = Shown(t)[n]
        BY <1>0, <2>1, <3>2 DEF ReadInOrder
      <4>2. 1 \in 1..Len(rtc)
        BY <2>2, <3>2
      <4>3. time \in t1..time
        BY <2>2, <4>1
      <4>4. ASSUME NEW n \in 2..Len(rtc') PROVE \E t \in t1..time : rtc'[n] = Shown(t)[n]
        <5>1. CASE n = Len(rtc) + 1
          BY <2>4, <4>3, <5>1
        <5>2. CASE n # Len(rtc) + 1
          <6>1. n \in 2..Len(rtc) /\ n \in 1..Len(rtc)
            BY <2>2, <2>4, <5>2
          <6> QED BY <2>4, <4>1, <6>1
        <5> QED BY <5>1, <5>2
      <4>5. rtc'[1] = t1 % SECONDS
        BY <2>4, <4>1, <4>2
      <4> QED BY <4>1, <4>4, <4>5
    <3> QED BY <3>1, <3>2
  <2>6. ReadInOrder'
    BY <2>1, <2>5 DEF ReadInOrder, Shown
  <2>7. ClockTypeOK'
    BY <1>0, <2>1, <2>2, <2>4 DEF ClockTypeOK
  <2> QED BY <2>1, <2>6, <2>7, Zenon DEF ClockInv, TimeWasOnClock
<1>4. CASE timer_rtc
  <2>1. reading /\ Len(rtc) = 3 /\ time' = time
    BY <1>4 DEF timer_rtc
  <2>2. /\ time \in Nat /\ since \in Nat /\ since <= time /\ rtc \in Seq(Nat)
        /\ time - since < SECONDS /\ rtc # <<>>
    <3>1. /\ time \in Nat /\ since \in Nat /\ since <= time /\ rtc \in Seq(Nat)
          /\ time - since <= SECONDS - 1
      BY <1>0, <2>1 DEF ClockTypeOK
    <3>2. rtc # <<>>
      BY <2>1
    <3> QED BY <3>1, <3>2
  <2>3. CASE read_rtc(1) = rtc[1]
    <3>1. reading' = FALSE /\ rtc' = rtc /\ since' = since
      BY <1>4, <2>3 DEF timer_rtc
    <3>2. PICK t1 \in since..time :
            /\ rtc[1] = t1 % SECONDS
            /\ \A n \in 2..3 : \E t \in t1..time : rtc[n] = Shown(t)[n]
      BY <1>0, <2>1, <2>2 DEF ReadInOrder
    <3>3. t1 \in Nat /\ t1 <= time /\ time - t1 < SECONDS
      BY <2>2, <3>2
    <3>4. Shown(time)[1] = time % SECONDS /\ read_rtc(1) = Shown(time)[1]
      BY <2>2, ReadsRegister, ShownInNat
    <3>5. t1 = time
      BY <2>2, <2>3, <3>2, <3>3, <3>4, SameRemainder
    <3>6. \A n \in 1..3 : rtc[n] = Shown(time)[n]
      <4>1. rtc[1] = Shown(time)[1]
        BY <2>3, <3>4
      <4>2. ASSUME NEW n \in 2..3 PROVE rtc[n] = Shown(time)[n]
        <5>1. PICK t \in t1..time : rtc[n] = Shown(t)[n]
          BY <3>2
        <5>2. t = time
          BY <2>2, <3>5, <5>1
        <5> QED BY <5>1, <5>2
      <4> QED BY <4>1, <4>2
    <3>7. rtc = Shown(time)
      <4>1. Shown(time) \in Seq(Nat) /\ Len(Shown(time)) = 3
        BY <2>2, ShownInNat
      <4> QED BY <2>1, <2>2, <3>6, <4>1, SeqEqual
    <3>8. ClockTypeOK'
      BY <1>0, <2>1, <3>1 DEF ClockTypeOK
    <3>9. TimeWasOnClock'
      <4>1. time \in since..time
        BY <2>2
      <4> QED BY <2>1, <3>1, <3>7, <4>1 DEF TimeWasOnClock, Shown
    <3> QED BY <3>1, <3>8, <3>9, Zenon DEF ClockInv
  <2>4. CASE read_rtc(1) # rtc[1]
    <3>1. rtc' = <<>> /\ since' = time /\ reading' = reading
      BY <1>4, <2>4 DEF timer_rtc
    <3>2. ClockTypeOK'
      BY <1>0, <2>1, <3>1 DEF ClockTypeOK
    <3> QED BY <3>1, <3>2, Zenon DEF ClockInv, TimeWasOnClock
  <2> QED BY <2>3, <2>4
<1>5. CASE UNCHANGED deviceVars
  <2>1. time' = time /\ since' = since /\ rtc' = rtc /\ reading' = reading
    BY <1>5 DEF deviceVars, clockVars
  <2>2. ClockTypeOK' = ClockTypeOK /\ TimeWasOnClock' = TimeWasOnClock
    BY <2>1, Zenon DEF ClockTypeOK, TimeWasOnClock, Shown
  <2>3. ReadInOrder' = ReadInOrder
    BY <2>1, Zenon DEF ReadInOrder, Shown
  <2> QED BY <1>0, <2>1, <2>2, <2>3, Zenon DEF ClockInv
<1> QED BY <1>1, <1>2, <1>3, <1>4, <1>5 DEF DevicesNext, Keys, Draw, Blkio

-----------------------------------------------------------------------------
(* The key queue: arrived counts the keys in it so far, those the program  *)
(* has got are the first of them, and the others wait in order from key_f  *)
(* on. A key that is just being put there has no other's place: between    *)
(* two keys the queue is never full, since one that fills up is emptied.   *)
arrived == Len(keys) - (IF typing = "wait" THEN 0 ELSE 1)

KeyTypeOK ==
  /\ keys \in Seq(Nat) /\ got \in Seq(Nat) /\ typing \in {"wait", "lock", "store", "advance"}
  /\ key_queue \in [0..(KEY_QUEUE_LEN - 1) -> Nat]
  /\ typing # "wait" => Len(keys) > 0
RingInv ==
  /\ key_f = Len(got) % KEY_QUEUE_LEN /\ key_r = arrived % KEY_QUEUE_LEN
  /\ Len(got) <= arrived /\ arrived - Len(got) < KEY_QUEUE_LEN
Waiting ==
  /\ \A i \in (Len(got) + 1)..arrived : key_queue[(i - 1) % KEY_QUEUE_LEN] = keys[i]
  /\ typing = "advance" => key_queue[key_r] = keys[Len(keys)]
GotInOrder == \A i \in 1..Len(got) : got[i] = keys[i]
KeyInv == KeyTypeOK /\ RingInv /\ Waiting /\ GotInOrder

LEMMA KeyInit == InitDevices => KeyInv
<1> SUFFICES ASSUME InitDevices PROVE KeyInv
  OBVIOUS
<1>1. /\ keys = <<>> /\ got = <<>> /\ typing = "wait" /\ key_f = 0 /\ key_r = 0
      /\ key_queue = [i \in 0..(KEY_QUEUE_LEN - 1) |-> 0]
  BY DEF InitDevices
<1>2. Len(keys) = 0 /\ Len(got) = 0 /\ arrived = 0
  BY <1>1 DEF arrived
<1>3. KeyTypeOK
  BY <1>1 DEF KeyTypeOK
<1>4. RingInv
  <2>1. 0 % KEY_QUEUE_LEN = 0 /\ KEY_QUEUE_LEN > 0
    BY Sizes
  <2> QED BY <1>1, <1>2, <2>1 DEF RingInv
<1>5. Waiting /\ GotInOrder
  BY <1>1, <1>2 DEF Waiting, GotInOrder
<1> QED BY <1>3, <1>4, <1>5 DEF KeyInv

(* What the invariants say of the counts.                                  *)
LEMMA Counts ==
  ASSUME KeyInv
  PROVE  /\ Len(keys) \in Nat /\ Len(got) \in Nat /\ arrived \in Nat /\ KEY_QUEUE_LEN \in Nat \ {0}
         /\ Len(got) <= arrived /\ arrived <= Len(keys) /\ arrived - Len(got) < KEY_QUEUE_LEN
         /\ typing = "wait" => arrived = Len(keys)
         /\ typing # "wait" => arrived + 1 = Len(keys)
<1>1. Len(keys) \in Nat /\ Len(got) \in Nat /\ (typing # "wait" => Len(keys) > 0)
  BY DEF KeyInv, KeyTypeOK
<1> QED BY <1>1, Sizes DEF KeyInv, RingInv, arrived

LEMMA TypedStep ==
  ASSUME KeyInv, Typed
  PROVE  KeyInv'
<1> USE DEF KeyInv
<1>1. PICK scancode \in DOMAIN keymap :
        IF keymap[scancode] = NONE THEN UNCHANGED <<keys, typing>>
        ELSE keys' = Append(keys, keymap[scancode]) /\ typing' = "lock"
  BY DEF Typed
<1>2. /\ typing = "wait" /\ key_queue' = key_queue
      /\ key_f' = key_f /\ key_r' = key_r /\ got' = got
  BY DEF Typed
<1>3. CASE keymap[scancode] = NONE
  <2>1. keys' = keys /\ typing' = typing
    BY <1>1, <1>3
  <2> QED BY <1>2, <2>1, Zenon DEF KeyTypeOK, RingInv, Waiting, GotInOrder, arrived
<1>4. CASE keymap[scancode] # NONE
  <2>1. keys' = Append(keys, keymap[scancode]) /\ typing' = "lock" /\ keymap[scancode] \in Nat
    BY <1>1, <1>4 DEF keymap
  <2>2. /\ keys' \in Seq(Nat) /\ Len(keys') = Len(keys) + 1
        /\ \A i \in 1..Len(keys) : keys'[i] = keys[i]
    BY <2>1, AppendProperties DEF KeyTypeOK
  <2>3. arrived' = arrived /\ arrived = Len(keys)
    BY <1>2, <2>1, <2>2, Counts DEF arrived
  <2>4. KeyTypeOK'
    BY <1>2, <2>1, <2>2, Counts DEF KeyTypeOK
  <2>5. RingInv'
    BY <1>2, <2>2, <2>3, Counts DEF RingInv
  <2>6. Waiting' /\ GotInOrder'
    <3>1. \A i \in 1..arrived : keys'[i] = keys[i]
      BY <2>2, <2>3
    <3>2. \A i \in (Len(got) + 1)..arrived : i \in 1..arrived
      BY Counts
    <3>3. \A i \in 1..Len(got) : i \in 1..arrived
      BY Counts
    <3> QED BY <1>2, <2>1, <2>3, <3>1, <3>2, <3>3 DEF Waiting, GotInOrder
  <2> QED BY <2>4, <2>5, <2>6
<1> QED BY <1>3, <1>4

(* Once round the ring is where one was.                                   *)
LEMMA RoundRing ==
  ASSUME NEW n \in Nat, NEW N \in Nat \ {0}
  PROVE  (n + N) % N = n % N
<1>1. PICK p \in Nat, r \in 0..(N - 1) : p = n \div N /\ r = n % N /\ n = p * N + r
  BY DivMod
<1>2. PICK q \in Nat, y \in Nat : q = p + 1 /\ y = n + N
  OBVIOUS
<1>3. q * N = p * N + N /\ p * N \in Nat
  BY <1>2
<1>4. y = q * N + r
  BY <1>1, <1>2, <1>3
<1>5. y % N = r
  BY <1>4, DivUnique
<1> QED BY <1>1, <1>2, <1>5

LEMMA EventThreadStep ==
  ASSUME KeyInv, event_thread
  PROVE  KeyInv'
<1> USE DEF KeyInv
<1>1. CASE typing = "lock"
  <2>1. /\ typing' = "store" /\ keys' = keys /\ key_queue' = key_queue /\ key_f' = key_f
        /\ key_r' = key_r /\ got' = got
    BY <1>1 DEF event_thread
  <2>2. arrived' = arrived
    BY <1>1, <2>1 DEF arrived
  <2> QED BY <1>1, <2>1, <2>2 DEF KeyTypeOK, RingInv, Waiting, GotInOrder
<1>2. CASE typing = "store"
  <2>1. /\ typing' = "advance" /\ key_queue' = [key_queue EXCEPT ![key_r] = keys[Len(keys)]]
        /\ keys' = keys /\ key_f' = key_f /\ key_r' = key_r /\ got' = got
    BY <1>2 DEF event_thread
  <2>2. arrived' = arrived
    BY <1>2, <2>1 DEF arrived
  <2>3. key_r = arrived % KEY_QUEUE_LEN /\ key_r \in 0..(KEY_QUEUE_LEN - 1)
    BY Counts DEF RingInv
  <2>4. keys[Len(keys)] \in Nat
    BY <1>2 DEF KeyTypeOK
  <2>5. KeyTypeOK' /\ RingInv' /\ GotInOrder'
    BY <1>2, <2>1, <2>2, <2>4 DEF KeyTypeOK, RingInv, GotInOrder
  <2>6. key_queue'[key_r] = keys[Len(keys)]
        /\ \A j \in 0..(KEY_QUEUE_LEN - 1) : j # key_r => key_queue'[j] = key_queue[j]
    BY <2>1, <2>3 DEF KeyTypeOK
  <2>7. ASSUME NEW i \in (Len(got) + 1)..arrived
        PROVE  key_queue'[(i - 1) % KEY_QUEUE_LEN] = keys[i]
    <3>1. PICK j \in Nat : j = i - 1
      BY <2>7, Counts
    <3>2. j <= arrived /\ arrived - j < KEY_QUEUE_LEN /\ j # arrived
      BY <1>2, <2>7, <3>1, Counts
    <3>3. j % KEY_QUEUE_LEN # arrived % KEY_QUEUE_LEN
      BY <3>2, SameRemainder, Counts
    <3>4. j % KEY_QUEUE_LEN \in 0..(KEY_QUEUE_LEN - 1)
      BY Counts
    <3>5. key_queue'[j % KEY_QUEUE_LEN] = key_queue[j % KEY_QUEUE_LEN]
      BY <2>3, <2>6, <3>3, <3>4
    <3>6. key_queue[(i - 1) % KEY_QUEUE_LEN] = keys[i]
      BY <2>7 DEF Waiting
    <3> QED BY <3>1, <3>5, <3>6
  <2>8. Waiting'
    BY <2>1, <2>2, <2>6, <2>7 DEF Waiting
  <2> QED BY <2>5, <2>8
<1>3. CASE typing = "advance" /\ Len(keys) - Len(got) # KEY_QUEUE_LEN
  <2>1. /\ typing' = "wait" /\ key_r' = (key_r + 1) % KEY_QUEUE_LEN
        /\ keys' = keys /\ key_f' = key_f /\ key_queue' = key_queue /\ got' = got
    BY <1>3 DEF event_thread
  <2>2. arrived' = arrived + 1 /\ arrived' = Len(keys)
    BY <1>3, <2>1, Counts DEF arrived
  <2>3. key_r' = arrived' % KEY_QUEUE_LEN
    BY <2>1, <2>2, NextRemainder, Counts DEF RingInv
  <2>4. KeyTypeOK' /\ RingInv' /\ GotInOrder'
    <3>1. KeyTypeOK'
      BY <2>1 DEF KeyTypeOK
    <3>2. Len(got') = Len(got) /\ Len(keys') = Len(keys)
      BY <2>1
    <3>3. RingInv'
      <4>1. Len(got) <= arrived' /\ arrived' - Len(got) < KEY_QUEUE_LEN
        BY <1>3, <2>2, Counts
      <4> QED BY <2>1, <2>3, <3>2, <4>1 DEF RingInv
    <3>4. GotInOrder'
      BY <2>1, <3>2 DEF GotInOrder
    <3> QED BY <3>1, <3>3, <3>4
  <2>5. ASSUME NEW i \in (Len(got) + 1)..(arrived + 1)
        PROVE  key_queue[(i - 1) % KEY_QUEUE_LEN] = keys[i]
    <3>1. CASE i = arrived + 1
      <4>1. i - 1 = arrived
        BY <3>1, Counts
      <4> QED BY <1>3, <2>2, <3>1, <4>1 DEF Waiting, RingInv
    <3>2. CASE i # arrived + 1
      <4>1. i \in (Len(got) + 1)..arrived
        BY <2>5, <3>2, Counts
      <4> QED BY <4>1 DEF Waiting
    <3> QED BY <3>1, <3>2
  <2>6. Waiting'
    BY <2>1, <2>2, <2>5 DEF Waiting
  <2> QED BY <2>4, <2>6
(* The queue looks empty, and no key is left to wait.                      *)
<1>4. CASE typing = "advance" /\ Len(keys) - Len(got) = KEY_QUEUE_LEN
  <2>1. /\ typing' = "wait" /\ key_r' = (key_r + 1) % KEY_QUEUE_LEN
        /\ keys' = got /\ key_f' = key_f /\ key_queue' = key_queue /\ got' = got
    BY <1>4 DEF event_thread
  <2>2. PICK n \in Nat, N \in Nat \ {0} :
          /\ n = Len(got) /\ N = KEY_QUEUE_LEN /\ arrived + 1 = n + N /\ arrived' = n
    BY <1>4, <2>1, Counts DEF arrived
  <2>3. key_r' = (n + N) % N
    BY <2>1, <2>2, NextRemainder, Counts DEF RingInv
  <2>4. key_r' = n % N
    BY <2>2, <2>3, RoundRing
  <2>5. KeyTypeOK' /\ GotInOrder'
    BY <2>1 DEF KeyTypeOK, GotInOrder
  <2>6. RingInv'
    BY <2>1, <2>2, <2>4, Counts DEF RingInv
  <2>7. Waiting'
    BY <2>1, <2>2 DEF Waiting
  <2> QED BY <2>5, <2>6, <2>7
<1> QED BY <1>1, <1>2, <1>3, <1>4 DEF event_thread

LEMMA InputStep ==
  ASSUME KeyInv, __am_input_keybrd
  PROVE  KeyInv'
<1> USE DEF KeyInv
<1>1. /\ keys' = keys /\ typing' = typing /\ key_queue' = key_queue /\ key_r' = key_r
      /\ arrived' = arrived
  BY DEF __am_input_keybrd, arrived
<1>2. CASE got' = got /\ key_f' = key_f
  BY <1>1, <1>2, Zenon DEF KeyTypeOK, RingInv, Waiting, GotInOrder
<1>3. CASE key_f # key_r /\ got' = Append(got, key_queue[key_f])
           /\ key_f' = (key_f + 1) % KEY_QUEUE_LEN
  <2>1. Len(got) < arrived
    BY <1>3, Counts DEF RingInv
  <2>2. PICK i \in Nat : i = Len(got) + 1
    BY Counts
  <2>3. i \in (Len(got) + 1)..arrived /\ i - 1 = Len(got)
    BY <2>1, <2>2, Counts
  <2>4. key_queue[key_f] = keys[i]
    <3>1. key_queue[(i - 1) % KEY_QUEUE_LEN] = keys[i]
      BY <2>3 DEF Waiting
    <3>2. key_f = Len(got) % KEY_QUEUE_LEN
      BY DEF RingInv
    <3> QED BY <2>3, <3>1, <3>2
  <2>5. key_f \in 0..(KEY_QUEUE_LEN - 1) /\ key_queue[key_f] \in Nat
    <3>1. PICK n \in Nat : n = Len(got)
      BY Counts
    <3>2. key_f = n % KEY_QUEUE_LEN
      BY <3>1 DEF RingInv
    <3>3. n % KEY_QUEUE_LEN \in 0..(KEY_QUEUE_LEN - 1)
      BY Sizes
    <3> QED BY <3>2, <3>3 DEF KeyTypeOK
  <2>6. /\ got' \in Seq(Nat) /\ Len(got') = i /\ got'[i] = keys[i]
        /\ \A j \in 1..Len(got) : got'[j] = got[j]
    BY <1>3, <2>2, <2>4, <2>5, AppendProperties DEF KeyTypeOK
  <2>7. key_f' = Len(got') % KEY_QUEUE_LEN
    <3>1. PICK n \in Nat : n = Len(got) /\ i = n + 1
      BY <2>2, Counts
    <3>2. key_f' = (key_f + 1) % KEY_QUEUE_LEN /\ key_f = n % KEY_QUEUE_LEN
      BY <1>3, <3>1 DEF RingInv
    <3>3. KEY_QUEUE_LEN \in Nat \ {0}
      BY Sizes
    <3>4. ((n % KEY_QUEUE_LEN) + 1) % KEY_QUEUE_LEN = (n + 1) % KEY_QUEUE_LEN
      BY ONLY <3>1, <3>3, NextRemainder
    <3> QED BY <2>6, <3>1, <3>2, <3>4
  <2>8. KeyTypeOK'
    BY <1>1, <2>6 DEF KeyTypeOK
  <2>9. RingInv'
    BY <1>1, <2>2, <2>3, <2>6, <2>7, Counts DEF RingInv
  <2>10. Waiting'
    <3>1. \A j \in (Len(got') + 1)..arrived : j \in (Len(got) + 1)..arrived
      BY <2>2, <2>6, Counts
    <3> QED BY <1>1, <3>1 DEF Waiting
  <2>11. GotInOrder'
    <3>1. \A j \in 1..Len(got') : j = i \/ j \in 1..Len(got)
      BY <2>2, <2>6, Counts
    <3> QED BY <1>1, <2>6, <3>1 DEF GotInOrder
  <2> QED BY <2>8, <2>9, <2>10, <2>11
<1> QED BY <1>2, <1>3 DEF __am_input_keybrd

LEMMA KeyStep ==
  ASSUME KeyInv, device = "keys", [DevicesNext]_deviceVars
  PROVE  KeyInv'
<1>1. CASE Keys(Typed)
  BY <1>1, TypedStep DEF Keys
<1>2. CASE Keys(event_thread)
  BY <1>2, EventThreadStep DEF Keys
<1>3. CASE Keys(__am_input_keybrd)
  BY <1>3, InputStep DEF Keys
<1>4. CASE UNCHANGED deviceVars
  BY <1>4, Zenon DEF deviceVars, keyVars, KeyInv, KeyTypeOK, RingInv, Waiting, GotInOrder, arrived
<1> QED BY <1>1, <1>2, <1>3, <1>4
        DEF DevicesNext, Tick, Begins, read_rtc_async, timer_rtc, Draw, Blkio

LEMMA KeysAreInOrder == KeyInv => KeysInOrder
<1> SUFFICES ASSUME KeyInv PROVE KeysInOrder
  OBVIOUS
<1>1. /\ keys \in Seq(Nat) /\ got \in Seq(Nat) /\ Len(got) \in Nat /\ Len(got) <= Len(keys)
      /\ \A i \in 1..Len(got) : got[i] = keys[i]
  <2>1. Len(got) \in Nat /\ Len(got) <= Len(keys)
    BY Counts
  <2>2. keys \in Seq(Nat) /\ got \in Seq(Nat)
    BY DEF KeyInv, KeyTypeOK
  <2>3. \A i \in 1..Len(got) : got[i] = keys[i]
    BY DEF KeyInv, GotInOrder
  <2> QED BY <2>1, <2>2, <2>3
<1>2. SubSeq(keys, 1, Len(got)) \in Seq(Nat) /\ Len(SubSeq(keys, 1, Len(got))) = Len(got)
      /\ \A i \in 1..Len(got) : SubSeq(keys, 1, Len(got))[i] = keys[i]
  BY <1>1, SubSeqProperties
<1>3. got = SubSeq(keys, 1, Len(got))
  BY <1>1, <1>2, SeqEqual
<1>4. ASSUME typing = "wait" PROVE key_f = key_r <=> Len(got) = Len(keys)
  <2>1. PICK n \in Nat, m \in Nat, N \in Nat \ {0} :
          /\ n = Len(got) /\ m = Len(keys) /\ N = KEY_QUEUE_LEN /\ n <= m /\ m - n < N
    BY <1>4, Counts
  <2>2. key_f = n % N /\ key_r = m % N
    BY <1>4, <2>1, Counts DEF KeyInv, RingInv
  <2>3. n % N = m % N => n = m
    BY <2>1, SameRemainder
  <2> QED BY <2>1, <2>2, <2>3
<1> QED BY <1>1, <1>3, <1>4 DEF KeysInOrder

-----------------------------------------------------------------------------
(* The display: what Picture says of the requests, for any of them.        *)
OverIn(s, p) == {n \in 1..Len(s) : Covers(s[n], p)}
LastOver(s, p) == CHOOSE n \in OverIn(s, p) : \A k \in OverIn(s, p) : k <= n
PixelOf(draw, p) == Colour(draw, ((p \div W) - draw.y) * draw.w + (p % W) - draw.x)
ShownIn(s, p) == IF OverIn(s, p) = {} THEN 0 ELSE PixelOf(s[LastOver(s, p)], p)

(* Of the rectangles drawn over a place there is a last one.               *)
HasLast(s) == \A p \in Pixels :
                OverIn(s, p) # {} => \E n \in OverIn(s, p) : \A k \in OverIn(s, p) : k <= n
DisplayInv == asked \in Seq(Rectangles) /\ HasLast(asked) /\ DrawnAsAsked

LEMMA PictureIs == Picture = [p \in Pixels |-> ShownIn(asked, p)]
BY Zenon DEF Picture, ShownIn, PixelOf, LastOver, OverIn

LEMMA LastDrawn ==
  ASSUME NEW s \in Seq(Rectangles), NEW draw \in Rectangles, HasLast(s), NEW p \in Pixels
  PROVE  /\ ShownIn(Append(s, draw), p) = IF Covers(draw, p) THEN PixelOf(draw, p) ELSE ShownIn(s, p)
         /\ LET over == OverIn(Append(s, draw), p)
            IN  over # {} => \E n \in over : \A k \in over : k <= n
<1> DEFINE t == Append(s, draw)
           m == Len(s) + 1
<1>1. /\ Len(s) \in Nat /\ Len(t) = m /\ t[m] = draw
      /\ \A n \in 1..Len(s) : t[n] = s[n]
  BY AppendProperties
<1>2. /\ OverIn(t, p) \subseteq 1..m
      /\ \A n \in 1..Len(s) : n \in OverIn(t, p) <=> n \in OverIn(s, p)
      /\ m \in OverIn(t, p) <=> Covers(draw, p)
      /\ OverIn(s, p) \subseteq 1..Len(s)
  BY <1>1 DEF OverIn
<1> HIDE DEF t
<1>3. CASE Covers(draw, p)
  <2>1. m \in OverIn(t, p) /\ \A k \in OverIn(t, p) : k <= m
    BY <1>1, <1>2, <1>3
  <2>2. \A n \in OverIn(t, p) : (\A k \in OverIn(t, p) : k <= n) => n = m
    BY <1>1, <1>2, <2>1
  <2>3. LastOver(t, p) = m
    BY <2>1, <2>2 DEF LastOver
  <2>4. ShownIn(t, p) = PixelOf(draw, p)
    BY <1>1, <2>1, <2>3 DEF ShownIn
  <2> QED BY <1>3, <2>1, <2>4 DEF t
<1>4. CASE ~Covers(draw, p)
  <2>1. OverIn(t, p) = OverIn(s, p)
    <3>1. ASSUME NEW n \in OverIn(t, p) PROVE n \in 1..Len(s)
      <4>1. n \in 1..m /\ n # m
        BY <1>2, <1>4, <3>1
      <4> QED BY <1>1, <4>1
    <3>2. \A n \in OverIn(t, p) : n \in OverIn(s, p)
      BY <1>2, <3>1
    <3>3. \A n \in OverIn(s, p) : n \in OverIn(t, p)
      BY <1>2
    <3> QED BY <3>2, <3>3
  <2>2. ShownIn(t, p) = ShownIn(s, p)
    <3>1. CASE OverIn(s, p) = {}
      BY <2>1, <3>1 DEF ShownIn
    <3>2. CASE OverIn(s, p) # {}
      <4>1. LastOver(t, p) = LastOver(s, p)
        BY <2>1, Zenon DEF LastOver
      <4>2. \E n \in OverIn(s, p) : \A k \in OverIn(s, p) : k <= n
        BY <3>2 DEF HasLast
      <4>3. LastOver(s, p) \in OverIn(s, p)
        BY <4>2, Zenon DEF LastOver
      <4>4. t[LastOver(s, p)] = s[LastOver(s, p)]
        BY <1>1, <1>2, <4>3
      <4> QED BY <2>1, <4>1, <4>4, Zenon DEF ShownIn
    <3> QED BY <3>1, <3>2
  <2>3. OverIn(s, p) # {} => \E n \in OverIn(s, p) : \A k \in OverIn(s, p) : k <= n
    BY DEF HasLast
  <2> QED BY <1>4, <2>1, <2>2, <2>3 DEF t
<1> QED BY <1>3, <1>4

(* A pixel lies len places from the start of row y + j, or not.            *)
LEMMA InRow ==
  ASSUME NEW p \in Nat, NEW x \in Nat, NEW row \in Nat, NEW len \in Nat, x + len <= W
  PROVE  (p - (x + row * W) \in 0..(len - 1)) <=> (p \div W = row /\ p % W \in x..(x + len - 1))
<1> USE Sizes
<1>1. PICK q \in Nat, r \in 0..(W - 1) : q = p \div W /\ r = p % W /\ p = q * W + r
  BY DivMod
<1>2. PICK f \in Nat : f = row * W
  OBVIOUS
<1>3. ASSUME p - (x + row * W) \in 0..(len - 1) PROVE p \div W = row /\ p % W \in x..(x + len - 1)
  <2>1. PICK c \in 0..(W - 1) : c = p - f
    BY <1>2, <1>3
  <2>2. p = row * W + c /\ c \in x..(x + len - 1)
    BY <1>2, <1>3, <2>1
  <2>3. p \div W = row /\ p % W = c
    BY <2>2, DivUnique
  <2> QED BY <2>2, <2>3
<1>4. ASSUME p \div W = row, p % W \in x..(x + len - 1) PROVE p - (x + row * W) \in 0..(len - 1)
  <2>1. p = f + r /\ r \in x..(x + len - 1)
    BY <1>1, <1>2, <1>4
  <2> QED BY <1>2, <2>1
<1> QED BY <1>3, <1>4

LEMMA PaintIs ==
  ASSUME NEW memory, DOMAIN memory = Pixels, NEW draw \in Rectangles, NEW rows, rows \subseteq Nat,
         NEW len \in Nat, draw.x + len <= W, NEW p \in Pixels
  PROVE  Paint(memory, draw, rows, len)[p]
           = IF (p \div W) - draw.y \in rows /\ p % W \in draw.x..(draw.x + len - 1)
             THEN PixelOf(draw, p) ELSE memory[p]
<1> DEFINE at(j) == p - (draw.x + (draw.y + j) * W) \in 0..(len - 1)
<1>1. draw.x \in Nat /\ draw.y \in Nat /\ draw.w \in Nat /\ p \in Nat
  BY Sizes DEF Rectangles, Pixels
<1>2. PICK q \in Nat, r \in 0..(W - 1) : q = p \div W /\ r = p % W /\ p = q * W + r
  BY <1>1, Sizes, DivMod
<1>3. \A j \in rows : at(j) <=> (q = draw.y + j /\ r \in draw.x..(draw.x + len - 1))
  <2> SUFFICES ASSUME NEW j \in rows
               PROVE  at(j) <=> (q = draw.y + j /\ r \in draw.x..(draw.x + len - 1))
    OBVIOUS
  <2>1. PICK row \in Nat : row = draw.y + j
    BY <1>1
  <2> QED BY <1>1, <1>2, <2>1, InRow
<1>4. Paint(memory, draw, rows, len)[p]
        = IF \E j \in rows : at(j)
          THEN LET j == CHOOSE j \in rows : at(j)
               IN  Colour(draw, draw.w * j + (p - (draw.x + (draw.y + j) * W)))
          ELSE memory[p]
  BY DEF Paint
<1> HIDE DEF at
<1>5. CASE q - draw.y \in rows /\ r \in draw.x..(draw.x + len - 1)
  <2>1. at(q - draw.y)
    BY <1>1, <1>3, <1>5
  <2>2. \A j \in rows : at(j) => j = q - draw.y
    BY <1>1, <1>3
  <2>3. (CHOOSE j \in rows : at(j)) = q - draw.y
    BY <1>5, <2>1, <2>2
  <2>4. Paint(memory, draw, rows, len)[p]
          = Colour(draw, draw.w * (q - draw.y) + (p - (draw.x + (draw.y + (q - draw.y)) * W)))
    BY <1>4, <1>5, <2>1, <2>3
  <2>5. draw.w * (q - draw.y) + (p - (draw.x + (draw.y + (q - draw.y)) * W))
          = (q - draw.y) * draw.w + r - draw.x
    <3>1. PICK k \in Nat : k = q - draw.y
      BY <1>5
    <3>2. draw.y + k = q /\ draw.w * k = k * draw.w /\ k * draw.w \in Nat /\ q * W \in Nat
      BY <1>1, <3>1, Sizes
    <3>3. p - (draw.x + q * W) = r - draw.x
      BY <1>1, <1>2, <3>2, Sizes
    <3> QED BY <1>1, <3>1, <3>2, <3>3
  <2> QED BY <1>2, <1>5, <2>4, <2>5 DEF PixelOf
<1>6. CASE ~(q - draw.y \in rows /\ r \in draw.x..(draw.x + len - 1))
  <2>1. \A j \in rows : ~at(j)
    BY <1>1, <1>3, <1>6
  <2> QED BY <1>2, <1>4, <1>6, <2>1
<1> QED BY <1>5, <1>6

(* Each of the displays paints the rectangle, as far as it is on it.       *)
Painted(memory, draw) ==
  [p \in Pixels |-> IF Covers(draw, p) THEN PixelOf(draw, p) ELSE memory[p]]

LEMMA PaintsRectangle ==
  ASSUME NEW memory, DOMAIN memory = Pixels, NEW draw \in Rectangles, NEW rows, rows \subseteq Nat,
         NEW len \in Nat, draw.x + len <= W,
         memory = [p \in Pixels |-> memory[p]],
         \A i \in 0..(H - 1) : i - draw.y \in rows <=> i \in draw.y..(draw.y + draw.h - 1),
         \A i \in 0..(W - 1) : i \in draw.x..(draw.x + len - 1)
                                 <=> i \in draw.x..(draw.x + draw.w - 1)
  PROVE  Paint(memory, draw, rows, len) = Painted(memory, draw)
<1>1. ASSUME NEW p \in Pixels PROVE Paint(memory, draw, rows, len)[p] = Painted(memory, draw)[p]
  <2>1. p \div W \in 0..(H - 1) /\ p % W \in 0..(W - 1)
    <3>1. p \in Nat /\ p < W * H /\ W \in Nat \ {0} /\ H \in Nat \ {0}
      <4>1. W * H \in Nat
        BY Sizes
      <4> QED BY <4>1, Sizes DEF Pixels
    <3>2. PICK q \in Nat, r \in 0..(W - 1) : q = p \div W /\ r = p % W /\ p = q * W + r
      BY <3>1, DivMod
    <3>3. CASE q >= H
      <4>1. PICK k \in Nat : k = q - H
        BY <3>1, <3>3
      <4>2. q * W = H * W + k * W /\ k * W \in Nat /\ H * W \in Nat /\ H * W = W * H
        BY <3>1, <4>1
      <4> QED BY <3>1, <3>2, <4>2
    <3> QED BY <3>1, <3>2, <3>3
  <2>2. (p \div W) - draw.y \in rows /\ p % W \in draw.x..(draw.x + len - 1) <=> Covers(draw, p)
    BY <2>1 DEF Covers
  <2> QED BY <2>2, PaintIs DEF Painted
<1>2. Paint(memory, draw, rows, len) = [p \in Pixels |-> Paint(memory, draw, rows, len)[p]]
  BY DEF Paint
<1>3. Painted(memory, draw) = [p \in Pixels |-> Painted(memory, draw)[p]]
  BY DEF Painted
<1> QED BY <1>1, <1>2, <1>3, Zenon

LEMMA DisplaysPaint ==
  ASSUME NEW memory, DOMAIN memory = Pixels, memory = [p \in Pixels |-> memory[p]],
         NEW draw \in Rectangles
  PROVE  /\ gpu_fbdraw(memory, draw) = Painted(memory, draw)
         /\ BlitSurface(memory, draw) = Painted(memory, draw)
         /\ Inside(draw) => __am_gpu_fbdraw(memory, draw) = Painted(memory, draw)
<1>1. draw.x \in 0..W /\ draw.y \in 0..H /\ draw.w \in 0..W /\ draw.h \in 1..H
      /\ W \in Nat \ {0} /\ H \in Nat \ {0}
  BY Sizes DEF Rectangles
<1>2. gpu_fbdraw(memory, draw) = Painted(memory, draw)
  <2> DEFINE len == IF draw.x + draw.w >= W THEN W - draw.x ELSE draw.w
             rows == {j \in 0..(draw.h - 1) : draw.y + j < H}
  <2>1. len \in Nat /\ draw.x + len <= W /\ rows \subseteq Nat
    BY <1>1
  <2>2. \A i \in 0..(H - 1) : i - draw.y \in rows <=> i \in draw.y..(draw.y + draw.h - 1)
    BY <1>1
  <2>3. \A i \in 0..(W - 1) : i \in draw.x..(draw.x + len - 1)
                                 <=> i \in draw.x..(draw.x + draw.w - 1)
    BY <1>1
  <2> HIDE DEF len, rows
  <2>4. Paint(memory, draw, rows, len) = Painted(memory, draw)
    BY <2>1, <2>2, <2>3, PaintsRectangle
  <2> QED BY <2>4 DEF gpu_fbdraw, len, rows
<1>3. BlitSurface(memory, draw) = Painted(memory, draw)
  <2>1. CASE draw.w = 0 \/ draw.h = 0
    <3>1. \A p \in Pixels : ~Covers(draw, p)
      <4>1. draw.w = 0
        BY <1>1, <2>1
      <4>2. \A i : i \notin draw.x..(draw.x + draw.w - 1)
        BY <1>1, <4>1
      <4> QED BY <4>2 DEF Covers
    <3>2. Painted(memory, draw) = [p \in Pixels |-> memory[p]]
      BY <3>1 DEF Painted
    <3> QED BY <2>1, <3>2 DEF BlitSurface
  <2>2. CASE ~(draw.w = 0 \/ draw.h = 0)
    <3> DEFINE len == Least(draw.w, W - draw.x)
               rows == 0..(Least(draw.h, H - draw.y) - 1)
    <3>1. len \in Nat /\ draw.x + len <= W /\ rows \subseteq Nat
      BY <1>1 DEF Least
    <3>2. \A i \in 0..(H - 1) : i - draw.y \in rows <=> i \in draw.y..(draw.y + draw.h - 1)
      BY <1>1 DEF Least
    <3>3. \A i \in 0..(W - 1) : i \in draw.x..(draw.x + len - 1)
                                   <=> i \in draw.x..(draw.x + draw.w - 1)
      BY <1>1 DEF Least
    <3> HIDE DEF len, rows
    <3>4. Paint(memory, draw, rows, len) = Painted(memory, draw)
      BY <3>1, <3>2, <3>3, PaintsRectangle
    <3> QED BY <2>2, <3>4 DEF BlitSurface, len, rows
  <2> QED BY <2>1, <2>2
<1>4. ASSUME Inside(draw) PROVE __am_gpu_fbdraw(memory, draw) = Painted(memory, draw)
  <2> DEFINE rows == 0..(draw.h - 1)
  <2>1. draw.w \in Nat /\ draw.x + draw.w <= W /\ rows \subseteq Nat
    BY <1>1, <1>4 DEF Inside
  <2>2. \A i \in 0..(H - 1) : i - draw.y \in rows <=> i \in draw.y..(draw.y + draw.h - 1)
    BY <1>1
  <2> HIDE DEF rows
  <2>3. Paint(memory, draw, rows, draw.w) = Painted(memory, draw)
    BY <2>1, <2>2, PaintsRectangle
  <2> QED BY <2>3 DEF __am_gpu_fbdraw, rows
<1> QED BY <1>2, <1>3, <1>4

LEMMA DisplayInit == InitDevices => DisplayInv
<1> SUFFICES ASSUME InitDevices PROVE DisplayInv
  OBVIOUS
<1>1. asked = <<>> /\ fb = [p \in Pixels |-> 0] /\ fb_nemu = fb /\ surface = fb
  BY DEF InitDevices
<1>2. \A p \in Pixels : OverIn(asked, p) = {}
  BY <1>1 DEF OverIn
<1>3. Picture = [p \in Pixels |-> 0]
  BY <1>2, PictureIs DEF ShownIn
<1>4. asked \in Seq(Rectangles)
  BY <1>1
<1> QED BY <1>1, <1>2, <1>3, <1>4 DEF DisplayInv, HasLast, DrawnAsAsked

LEMMA DisplayStep ==
  ASSUME DisplayInv, device = "display", [DevicesNext]_deviceVars
  PROVE  DisplayInv'
<1>0. asked \in Seq(Rectangles) /\ HasLast(asked) /\ DrawnAsAsked
  BY DEF DisplayInv
<1>1. CASE Draw
  <2>1. PICK draw \in Rectangles :
          /\ asked' = Append(asked, draw)
          /\ fb' = gpu_fbdraw(fb, draw)
          /\ fb_nemu' = IF Inside(draw) THEN __am_gpu_fbdraw(fb_nemu, draw) ELSE fb_nemu
          /\ surface' = BlitSurface(surface, draw)
    BY <1>1 DEF Draw
  <2>2. asked' \in Seq(Rectangles)
    BY <1>0, <2>1, AppendProperties
  <2>3. HasLast(asked')
    BY <1>0, <2>1, LastDrawn DEF HasLast
  <2>4. Picture' = Painted(Picture, draw)
    <3>1. Picture' = [p \in Pixels |-> ShownIn(asked', p)]
      BY Zenon DEF Picture, ShownIn, PixelOf, LastOver, OverIn, Covers, Pixels
    <3>2. ASSUME NEW p \in Pixels
          PROVE  ShownIn(asked', p) = IF Covers(draw, p) THEN PixelOf(draw, p) ELSE Picture[p]
      BY <1>0, <2>1, LastDrawn, PictureIs
    <3> QED BY <3>1, <3>2, Zenon DEF Painted
  <2>5. DOMAIN Picture = Pixels /\ Picture = [p \in Pixels |-> Picture[p]]
    BY DEF Picture
  <2>6. fb' = Picture' /\ surface' = Picture'
    BY <1>0, <2>1, <2>4, <2>5, DisplaysPaint DEF DrawnAsAsked
  <2>7. ASSUME \A n \in 1..Len(asked') : Inside(asked'[n]) PROVE fb_nemu' = Picture'
    <3>1. /\ Len(asked') = Len(asked) + 1 /\ Len(asked) \in Nat /\ asked'[Len(asked) + 1] = draw
          /\ \A n \in 1..Len(asked) : asked'[n] = asked[n]
      BY <1>0, <2>1, AppendProperties
    <3>2. Inside(draw) /\ \A n \in 1..Len(asked) : Inside(asked[n])
      BY <2>7, <3>1
    <3>3. fb_nemu = Picture
      BY <1>0, <3>2 DEF DrawnAsAsked
    <3> QED BY <2>1, <2>4, <2>5, <3>2, <3>3, DisplaysPaint
  <2>8. DrawnAsAsked'
    BY <2>6, <2>7 DEF DrawnAsAsked
  <2> QED BY <2>2, <2>3, <2>8 DEF DisplayInv
<1>2. CASE UNCHANGED deviceVars
  <2>1. asked' = asked /\ fb' = fb /\ fb_nemu' = fb_nemu /\ surface' = surface
    BY <1>2 DEF deviceVars, displayVars
  <2>2. DrawnAsAsked' = DrawnAsAsked
    <3>1. Picture' = [p \in Pixels |-> ShownIn(asked', p)]
      BY Zenon DEF Picture, ShownIn, PixelOf, LastOver, OverIn, Covers, Pixels
    <3>2. Picture' = Picture
      BY <2>1, <3>1, PictureIs, Zenon
    <3> QED BY <2>1, <3>2, Zenon DEF DrawnAsAsked
  <2> QED BY <1>0, <2>1, <2>2 DEF DisplayInv
<1> QED BY <1>1, <1>2 DEF DevicesNext, Tick, Begins, read_rtc_async, timer_rtc, Keys, Blkio
-----------------------------------------------------------------------------
(* The disk: a block's number comes out of the ports as it went in, and a  *)
(* place of the image lies in the block it is counted from.                *)
DiskInv ==
  /\ DOMAIN written = 0..(DISK - 1) /\ written = [b \in 0..(DISK - 1) |-> written[b]]
  /\ DOMAIN file = 0..(DISK * BLKSZ - 1)
  /\ BlocksAsWritten

LEMMA Distribute ==
  ASSUME NEW q \in Int, NEW l \in Int, NEW m \in Int, NEW s \in Int
  PROVE  (q * l + s) * m = q * (l * m) + s * m
OBVIOUS

LEMMA TwiceDivided ==
  ASSUME NEW m \in Nat \ {0}, NEW l \in Nat \ {0}, NEW x \in Nat
  PROVE  x \div (l * m) = (x \div m) \div l
<1>1. PICK p \in Nat, r \in 0..(m - 1) : p = x \div m /\ r = x % m /\ x = p * m + r
  BY DivMod
<1>2. PICK q \in Nat, s \in 0..(l - 1) : q = p \div l /\ s = p % l /\ p = q * l + s
  BY DivMod
<1>3. PICK lm \in Nat \ {0} : lm = l * m
  OBVIOUS
<1>4. PICK e \in Nat : e = s * m + r
  OBVIOUS
<1>5. e \in 0..(lm - 1)
  <2>1. (l - 1 - s) * m \in Nat /\ (l - 1 - s) * m = lm - m - s * m
    BY <1>3
  <2> QED BY <1>4, <2>1
<1>6. x = q * lm + e
  <2>1. p * m = q * lm + s * m
    <3>1. p * m = (q * l + s) * m
      BY <1>2
    <3>2. (q * l + s) * m = q * (l * m) + s * m
      BY Distribute
    <3> QED BY <1>3, <3>1, <3>2
  <2> QED BY <1>1, <1>4, <2>1
<1>7. x \div lm = q
  BY <1>5, <1>6, DivUnique
<1> QED BY <1>1, <1>2, <1>3, <1>7

LEMMA PortsAddress ==
  ASSUME NEW x \in 0..(DISK - 1)
  PROVE  Addressed(Ports(x)) = x
<1> USE Sizes
<1>1. PICK p \in Nat, r \in 0..(BYTE - 1) : p = x \div BYTE /\ r = x % BYTE /\ x = p * BYTE + r
  BY DivMod
<1>2. PICK q \in Nat, s \in 0..(BYTE - 1) : q = p \div BYTE /\ s = p % BYTE /\ p = q * BYTE + s
  BY DivMod
<1>3. PICK t \in Nat, u \in 0..(BYTE - 1) : t = q \div BYTE /\ u = q % BYTE /\ q = t * BYTE + u
  BY DivMod
<1>4. PICK two \in Nat \ {0} : two = BYTE * BYTE
  OBVIOUS
<1>5. x \div two = q
  BY <1>1, <1>2, <1>4, TwiceDivided
<1>6. PICK three \in Nat \ {0} : three = BYTE * two
  BY <1>4
<1>7. x \div three = t
  <2>1. x \div three = (x \div two) \div BYTE
    BY <1>4, <1>6, TwiceDivided
  <2> QED BY <1>3, <1>5, <2>1
<1>8. t < 16
  <2>1. x = t * three + (u * two + s * BYTE + r)
    <3>1. q * two = t * three + u * two
      <4>1. (t * BYTE + u) * two = t * (BYTE * two) + u * two
        BY Distribute
      <4> QED BY <1>3, <1>6, <4>1
    <3>2. p * BYTE = q * two + s * BYTE
      <4>1. (q * BYTE + s) * BYTE = q * (BYTE * BYTE) + s * BYTE
        BY Distribute
      <4> QED BY <1>2, <1>4, <4>1
    <3> QED BY <1>1, <3>1, <3>2
  <2>2. u * two \in Nat /\ s * BYTE \in Nat
    BY <1>4
  <2>3. t * three <= x
    BY <2>1, <2>2
  <2>4. x < 16 * three
    BY <1>4, <1>6, DevicesAssumption
  <2>5. CASE t >= 16
    <3>1. (t - 16) * three \in Nat /\ (t - 16) * three = t * three - 16 * three
      BY <2>5
    <3> QED BY <2>3, <2>4, <3>1
  <2> QED BY <2>5
<1>9. Ports(x) = <<r, s, u, t + 14 * 16>>
  <2>1. BYTE * BYTE * BYTE = three
    BY <1>4, <1>6
  <2> QED BY <1>1, <1>2, <1>3, <1>4, <1>5, <1>7, <2>1 DEF Ports, Drive
<1>10. (t + 14 * 16) % 16 = t
  BY <1>8
<1>11. Addressed(Ports(x)) = r + BYTE * (s + BYTE * (u + BYTE * t))
  BY <1>9, <1>10 DEF Addressed
<1>12. BYTE * (u + BYTE * t) = BYTE * q /\ r + BYTE * p = x
  BY <1>1, <1>3
<1>13. s + BYTE * q = p
  BY <1>2
<1> QED BY <1>11, <1>12, <1>13, <1>3
(* A place of the image and its block.                                     *)
LEMMA PlaceInBlock ==
  ASSUME NEW blkno \in Nat, NEW blkcnt \in Nat, NEW k \in Nat
  PROVE  /\ k - blkno * BLKSZ \in 0..(blkcnt * BLKSZ - 1)
              <=> k \div BLKSZ \in blkno..(blkno + blkcnt - 1)
         /\ ((k \div BLKSZ) - blkno) * BLKSZ + (k % BLKSZ) = k - blkno * BLKSZ
<1> USE Sizes
<1>1. PICK q \in Nat, r \in 0..(BLKSZ - 1) : q = k \div BLKSZ /\ r = k % BLKSZ /\ k = q * BLKSZ + r
  BY DivMod
<1>2. (q - blkno) * BLKSZ = q * BLKSZ - blkno * BLKSZ
  OBVIOUS
<1>3. CASE q < blkno
  <2>1. (blkno - 1 - q) * BLKSZ \in Nat
        /\ (blkno - 1 - q) * BLKSZ = blkno * BLKSZ - BLKSZ - q * BLKSZ
    BY <1>3
  <2>2. ~(k - blkno * BLKSZ \in 0..(blkcnt * BLKSZ - 1))
    BY <1>1, <2>1
  <2>3. ~(k \div BLKSZ \in blkno..(blkno + blkcnt - 1))
    BY <1>1, <1>3
  <2> QED BY <1>1, <1>2, <2>2, <2>3
<1>4. CASE q >= blkno /\ q < blkno + blkcnt
  <2>1. (blkno + blkcnt - 1 - q) * BLKSZ \in Nat
        /\ (blkno + blkcnt - 1 - q) * BLKSZ
             = blkno * BLKSZ + blkcnt * BLKSZ - BLKSZ - q * BLKSZ
    BY <1>4
  <2>2. (q - blkno) * BLKSZ \in Nat
    BY <1>4
  <2>3. blkno * BLKSZ \in Nat /\ blkcnt * BLKSZ \in Nat /\ q * BLKSZ \in Nat
    OBVIOUS
  <2>4. k - blkno * BLKSZ \in 0..(blkcnt * BLKSZ - 1)
    BY <1>1, <1>2, <2>1, <2>2, <2>3
  <2>5. k \div BLKSZ \in blkno..(blkno + blkcnt - 1)
    BY <1>1, <1>4
  <2> QED BY <1>1, <1>2, <2>4, <2>5
<1>5. CASE q >= blkno + blkcnt
  <2>1. (q - blkno - blkcnt) * BLKSZ \in Nat
        /\ (q - blkno - blkcnt) * BLKSZ = q * BLKSZ - blkno * BLKSZ - blkcnt * BLKSZ
    BY <1>5
  <2>2. ~(k - blkno * BLKSZ \in 0..(blkcnt * BLKSZ - 1))
    BY <1>1, <2>1
  <2>3. ~(k \div BLKSZ \in blkno..(blkno + blkcnt - 1))
    BY <1>1, <1>5
  <2> QED BY <1>1, <1>2, <2>2, <2>3
<1> QED BY <1>3, <1>4, <1>5

(* A place counted within the blocks of a request.                         *)
LEMMA BlockOfPlace ==
  ASSUME NEW blkno \in Nat, NEW blkcnt \in Nat, blkno + blkcnt <= DISK,
         NEW k \in 0..(blkcnt * BLKSZ - 1)
  PROVE  /\ blkno + (k \div BLKSZ) \in 0..(DISK - 1)
         /\ blkno * BLKSZ + k \in 0..(DISK * BLKSZ - 1)
         /\ (blkno * BLKSZ + k) \div BLKSZ = blkno + (k \div BLKSZ)
         /\ (blkno * BLKSZ + k) % BLKSZ = k % BLKSZ
<1> USE Sizes
<1>1. PICK q \in Nat, r \in 0..(BLKSZ - 1) : q = k \div BLKSZ /\ r = k % BLKSZ /\ k = q * BLKSZ + r
  BY DivMod
<1>2. q < blkcnt
  <2>1. CASE q >= blkcnt
    <3>1. (q - blkcnt) * BLKSZ \in Nat /\ (q - blkcnt) * BLKSZ = q * BLKSZ - blkcnt * BLKSZ
      BY <2>1
    <3> QED BY <1>1, <3>1
  <2> QED BY <2>1
<1>3. PICK b \in Nat : b = blkno + q
  OBVIOUS
<1>4. PICK y \in Nat : y = blkno * BLKSZ + k
  <2>1. blkno * BLKSZ \in Nat
    OBVIOUS
  <2> QED BY <2>1
<1>5. y = b * BLKSZ + r
  <2>1. (blkno + q) * BLKSZ = blkno * BLKSZ + q * BLKSZ
    OBVIOUS
  <2>2. b * BLKSZ = (blkno + q) * BLKSZ
    BY <1>3
  <2>3. blkno * BLKSZ \in Nat /\ q * BLKSZ \in Nat
    OBVIOUS
  <2> QED BY <1>1, <1>4, <2>1, <2>2, <2>3
<1>6. y \div BLKSZ = b /\ y % BLKSZ = r
  BY <1>5, DivUnique
<1>7. y <= DISK * BLKSZ - 1
  <2>1. (DISK - 1 - b) * BLKSZ \in Nat
        /\ (DISK - 1 - b) * BLKSZ = DISK * BLKSZ - BLKSZ - b * BLKSZ
    BY <1>2, <1>3
  <2> QED BY <1>5, <2>1
<1>8. blkno + (k \div BLKSZ) = b /\ k % BLKSZ = r
  BY <1>1, <1>3
<1>9. b \in 0..(DISK - 1) /\ y \in 0..(DISK * BLKSZ - 1)
  BY <1>2, <1>3, <1>7
<1> QED BY <1>4, <1>6, <1>8, <1>9

LEMMA DiskInit == ASSUME InitDevices PROVE DiskInv
<1> USE Sizes
<1> DEFINE zeros == [i \in 0..(BLKSZ - 1) |-> 0]
<1>1. /\ blocks = [b \in 0..(DISK - 1) |-> zeros] /\ written = [b \in 0..(DISK - 1) |-> zeros]
      /\ file = [i \in 0..(DISK * BLKSZ - 1) |-> 0] /\ buffers = <<<<>>, <<>>>>
  BY DEF InitDevices
<1>2. ASSUME NEW k \in DOMAIN file PROVE file[k] = written[k \div BLKSZ][k % BLKSZ]
  <2>1. k \in 0..(DISK * BLKSZ - 1) /\ k \in Nat
    BY <1>1, <1>2
  <2>2. 0 \in Nat /\ 0 + DISK <= DISK /\ 0 * BLKSZ = 0
    OBVIOUS
  <2>3. k \div BLKSZ \in 0..(DISK - 1)
    <3>1. 0 + (k \div BLKSZ) \in 0..(DISK - 1)
      BY <2>1, <2>2, BlockOfPlace
    <3>2. PICK q \in Nat : q = k \div BLKSZ
      BY <2>1, DivMod
    <3> QED BY <3>1, <3>2
  <2>4. k % BLKSZ \in 0..(BLKSZ - 1)
    BY <2>1, DivMod
  <2> QED BY <1>1, <2>1, <2>3, <2>4
<1>3. blocks = written /\ buffers[1] = buffers[2]
  BY <1>1
<1>4. DOMAIN written = 0..(DISK - 1) /\ written = [b \in 0..(DISK - 1) |-> written[b]]
      /\ DOMAIN file = 0..(DISK * BLKSZ - 1)
  BY <1>1
<1> QED BY <1>2, <1>3, <1>4 DEF DiskInv, BlocksAsWritten
(* A request to read gives what the image holds.                           *)
LEMMA DisksRead ==
  ASSUME DiskInv, NEW blkno \in Nat, NEW blkcnt \in Nat, blkno + blkcnt <= DISK
  PROVE  disk_read(blocks, blkno, blkcnt) = __am_disk_read(file, blkno, blkcnt)
<1>1. ASSUME NEW k \in 0..(blkcnt * BLKSZ - 1)
      PROVE  blocks[Addressed(Ports(blkno + (k \div BLKSZ)))][k % BLKSZ] = file[blkno * BLKSZ + k]
  <2>1. PICK b \in 0..(DISK - 1) : b = blkno + (k \div BLKSZ)
    BY BlockOfPlace
  <2>2. PICK y \in 0..(DISK * BLKSZ - 1) : y = blkno * BLKSZ + k
    BY BlockOfPlace
  <2>3. y \div BLKSZ = b /\ y % BLKSZ = k % BLKSZ
    BY <2>1, <2>2, BlockOfPlace
  <2>4. Addressed(Ports(b)) = b
    BY PortsAddress
  <2>5. file[y] = written[b][k % BLKSZ]
    BY <2>3 DEF DiskInv, BlocksAsWritten
  <2>6. blocks[b][k % BLKSZ] = file[y]
    BY <2>5 DEF DiskInv, BlocksAsWritten
  <2> QED BY <2>1, <2>2, <2>4, <2>6, Zenon
<1> QED BY <1>1 DEF disk_read, __am_disk_read

(* A request to write reaches the blocks it names, and only them.          *)
Rewritten(blkno, blkcnt, buf) ==
  [b \in DOMAIN written |-> IF b \in blkno..(blkno + blkcnt - 1)
                            THEN [i \in 0..(BLKSZ - 1) |-> buf[(b - blkno) * BLKSZ + i]]
                            ELSE written[b]]

LEMMA DisksWrite ==
  ASSUME DiskInv, NEW blkno \in Nat, NEW blkcnt \in Nat, blkno + blkcnt <= DISK, NEW buf
  PROVE  disk_write(blocks, blkno, blkcnt, buf) = Rewritten(blkno, blkcnt, buf)
<1> USE Sizes
<1> DEFINE block(n) == [i \in 0..(BLKSZ - 1) |-> buf[n * BLKSZ + i]]
           at(b, n) == Addressed(Ports(blkno + n)) = b
<1>1. ASSUME NEW n \in 0..(blkcnt - 1) PROVE Addressed(Ports(blkno + n)) = blkno + n
  <2>1. PICK x \in 0..(DISK - 1) : x = blkno + n
    BY <1>1
  <2>2. Addressed(Ports(x)) = x
    BY PortsAddress
  <2> QED BY <2>1, <2>2, Zenon
<1>2. ASSUME NEW b \in DOMAIN written
      PROVE  /\ (\E n \in 0..(blkcnt - 1) : at(b, n)) <=> b \in blkno..(blkno + blkcnt - 1)
             /\ (\E n \in 0..(blkcnt - 1) : at(b, n))
                  => block(CHOOSE n \in 0..(blkcnt - 1) : at(b, n)) = block(b - blkno)
  <2>1. b \in Nat
    BY <1>2 DEF DiskInv
  <2>2. ASSUME NEW n \in 0..(blkcnt - 1), at(b, n)
        PROVE  b \in blkno..(blkno + blkcnt - 1) /\ n = b - blkno
    BY <1>1, <2>1, <2>2
  <2>3. ASSUME b \in blkno..(blkno + blkcnt - 1)
        PROVE  \E n \in 0..(blkcnt - 1) : at(b, n)
    <3>1. PICK n \in 0..(blkcnt - 1) : blkno + n = b
      <4>1. b - blkno \in 0..(blkcnt - 1) /\ blkno + (b - blkno) = b
        BY <2>1, <2>3
      <4> QED BY <4>1
    <3>2. at(b, n)
      BY <1>1, <3>1
    <3> QED BY <3>2
  <2>4. ASSUME \E n \in 0..(blkcnt - 1) : at(b, n)
        PROVE  (CHOOSE n \in 0..(blkcnt - 1) : at(b, n)) = b - blkno
    <3> HIDE DEF at
    <3>1. (CHOOSE n \in 0..(blkcnt - 1) : at(b, n)) \in 0..(blkcnt - 1)
          /\ at(b, CHOOSE n \in 0..(blkcnt - 1) : at(b, n))
      BY <2>4, Zenon
    <3> QED BY <2>2, <3>1, Zenon
  <2> HIDE DEF at, block
  <2> QED BY <2>2, <2>3, <2>4, Zenon
<1>3. blocks = written
  BY DEF DiskInv, BlocksAsWritten
<1>4. disk_write(blocks, blkno, blkcnt, buf)
        = [b \in DOMAIN written |->
             IF \E n \in 0..(blkcnt - 1) : at(b, n)
             THEN block(CHOOSE n \in 0..(blkcnt - 1) : at(b, n))
             ELSE written[b]]
  BY <1>3, Zenon DEF disk_write
<1> HIDE DEF at, block
<1>5. disk_write(blocks, blkno, blkcnt, buf)
        = [b \in DOMAIN written |->
             IF b \in blkno..(blkno + blkcnt - 1) THEN block(b - blkno) ELSE written[b]]
  BY <1>2, <1>4
<1> QED BY <1>5, Zenon DEF block, Rewritten

LEMMA DiskStep ==
  ASSUME DiskInv, device = "disk", [DevicesNext]_deviceVars
  PROVE  DiskInv'
<1> USE Sizes
<1>0. /\ DOMAIN written = 0..(DISK - 1) /\ written = [b \in 0..(DISK - 1) |-> written[b]]
      /\ DOMAIN file = 0..(DISK * BLKSZ - 1)
      /\ \A k \in DOMAIN file : file[k] = written[k \div BLKSZ][k % BLKSZ]
  BY DEF DiskInv, BlocksAsWritten
<1>1. CASE Blkio
  <2>1. PICK blkno \in 0..(DISK - 1), blkcnt \in 0..2 :
          /\ blkno + blkcnt <= DISK
          /\ \/ /\ buffers' = <<disk_read(blocks, blkno, blkcnt),
                                __am_disk_read(file, blkno, blkcnt)>>
                /\ UNCHANGED <<blocks, file, written>>
             \/ \E buf \in [0..(blkcnt * BLKSZ - 1) -> {0, 1}] :
                  /\ blocks' = disk_write(blocks, blkno, blkcnt, buf)
                  /\ file' = __am_disk_write(file, blkno, blkcnt, buf)
                  /\ written' = [b \in DOMAIN written |->
                                   IF b \in blkno..(blkno + blkcnt - 1)
                                   THEN [i \in 0..(BLKSZ - 1) |-> buf[(b - blkno) * BLKSZ + i]]
                                   ELSE written[b]]
                  /\ UNCHANGED buffers
    BY <1>1 DEF Blkio
  <2>2. blkno \in Nat /\ blkcnt \in Nat
    BY <2>1
  <2>3. CASE /\ buffers' = <<disk_read(blocks, blkno, blkcnt),
                             __am_disk_read(file, blkno, blkcnt)>>
             /\ UNCHANGED <<blocks, file, written>>
    <3>1. buffers'[1] = buffers'[2]
      BY <2>1, <2>2, <2>3, DisksRead
    <3>2. blocks' = blocks /\ file' = file /\ written' = written
      BY <2>3
    <3> QED BY <3>1, <3>2, Zenon DEF DiskInv, BlocksAsWritten
  <2>4. ASSUME NEW buf,
               blocks' = disk_write(blocks, blkno, blkcnt, buf),
               file' = __am_disk_write(file, blkno, blkcnt, buf),
               written' = [b \in DOMAIN written |->
                             IF b \in blkno..(blkno + blkcnt - 1)
                             THEN [i \in 0..(BLKSZ - 1) |-> buf[(b - blkno) * BLKSZ + i]]
                             ELSE written[b]],
               buffers' = buffers
        PROVE  DiskInv'
    <3>1. blocks' = written'
      <4>1. blkno + blkcnt <= DISK
        BY <2>1
      <4>2. disk_write(blocks, blkno, blkcnt, buf) = Rewritten(blkno, blkcnt, buf)
        BY <2>2, <4>1, DisksWrite
      <4> QED BY <2>4, <4>2, Zenon DEF Rewritten
    <3>2. DOMAIN written' = 0..(DISK - 1) /\ written' = [b \in 0..(DISK - 1) |-> written'[b]]
      BY <1>0, <2>4
    <3>3. DOMAIN file' = 0..(DISK * BLKSZ - 1)
      BY <1>0, <2>4 DEF __am_disk_write
    <3>4. ASSUME NEW k \in DOMAIN file'
          PROVE  file'[k] = written'[k \div BLKSZ][k % BLKSZ]
      <4>1. k \in 0..(DISK * BLKSZ - 1) /\ k \in Nat
        BY <3>3, <3>4
      <4>2. PICK b \in 0..(DISK - 1), r \in 0..(BLKSZ - 1) : b = k \div BLKSZ /\ r = k % BLKSZ
        <5>1. 0 \in Nat /\ 0 + DISK <= DISK
          OBVIOUS
        <5>2. 0 + (k \div BLKSZ) \in 0..(DISK - 1)
          BY <4>1, <5>1, BlockOfPlace
        <5>3. PICK q \in Nat, s \in 0..(BLKSZ - 1) : q = k \div BLKSZ /\ s = k % BLKSZ
          BY <4>1, DivMod
        <5> QED BY <5>2, <5>3
      <4>3. file'[k] = IF k - blkno * BLKSZ \in 0..(blkcnt * BLKSZ - 1)
                       THEN buf[k - blkno * BLKSZ] ELSE file[k]
        BY <1>0, <2>4, <4>1 DEF __am_disk_write
      <4>4. /\ k - blkno * BLKSZ \in 0..(blkcnt * BLKSZ - 1) <=> b \in blkno..(blkno + blkcnt - 1)
            /\ (b - blkno) * BLKSZ + r = k - blkno * BLKSZ
        BY <2>2, <4>1, <4>2, PlaceInBlock
      <4>5. written'[b] = IF b \in blkno..(blkno + blkcnt - 1)
                          THEN [i \in 0..(BLKSZ - 1) |-> buf[(b - blkno) * BLKSZ + i]]
                          ELSE written[b]
        BY <1>0, <2>4
      <4>6. CASE b \in blkno..(blkno + blkcnt - 1)
        <5>1. written'[b][r] = buf[(b - blkno) * BLKSZ + r]
          BY <4>5, <4>6
        <5>2. file'[k] = buf[k - blkno * BLKSZ]
          BY <4>3, <4>4, <4>6
        <5> QED BY <4>2, <4>4, <5>1, <5>2, Zenon
      <4>7. CASE b \notin blkno..(blkno + blkcnt - 1)
        <5>1. written'[b] = written[b] /\ file'[k] = file[k]
          BY <4>3, <4>4, <4>5, <4>7
        <5>2. file[k] = written[b][r]
          BY <1>0, <4>1, <4>2, Zenon
        <5> QED BY <4>2, <5>1, <5>2, Zenon
      <4> QED BY <4>6, <4>7
    <3>5. buffers'[1] = buffers'[2]
      BY <2>4 DEF DiskInv, BlocksAsWritten
    <3> QED BY <3>1, <3>2, <3>3, <3>4, <3>5 DEF DiskInv, BlocksAsWritten
  <2> QED BY <2>1, <2>3, <2>4
<1>2. CASE UNCHANGED deviceVars
  BY <1>2, Zenon DEF deviceVars, diskVars, DiskInv, BlocksAsWritten
<1> QED BY <1>1, <1>2 DEF DevicesNext, Tick, Begins, read_rtc_async, timer_rtc, Keys, Draw

-----------------------------------------------------------------------------
(* A run uses one device, and never another.                               *)
DevicesInv == /\ device \in {"clock", "keys", "display", "disk"}
              /\ device = "clock" => ClockInv
              /\ device = "keys" => KeyInv
              /\ device = "display" => DisplayInv
              /\ device = "disk" => DiskInv

LEMMA OneDevice == [DevicesNext]_deviceVars => device' = device
BY DEF DevicesNext, deviceVars, Tick, Begins, read_rtc_async, timer_rtc, Keys, Draw, Blkio

LEMMA DevicesStep == DevicesInv /\ [DevicesNext]_deviceVars => DevicesInv'
<1> SUFFICES ASSUME DevicesInv, [DevicesNext]_deviceVars PROVE DevicesInv'
  OBVIOUS
<1>1. device' = device
  BY OneDevice
<1>2. CASE device = "clock"
  BY <1>1, <1>2, ClockStep DEF DevicesInv
<1>3. CASE device = "keys"
  BY <1>1, <1>3, KeyStep DEF DevicesInv
<1>4. CASE device = "display"
  BY <1>1, <1>4, DisplayStep DEF DevicesInv
<1>5. CASE device = "disk"
  BY <1>1, <1>5, DiskStep DEF DevicesInv
<1> QED BY <1>2, <1>3, <1>4, <1>5 DEF DevicesInv

(* RequestsExact, of ioe.c, gpu.c, disk.c and input.c: a date was on the   *)
(* clock while it was read, keys come in the order they were typed, the    *)
(* displays show the last rectangle drawn at each place, the disks hold    *)
(* and return what was written last to each block.                         *)
THEOREM DevicesExact == DevicesSpec => []RequestsExact
<1>1. InitDevices => DevicesInv
  BY ClockInit, KeyInit, DisplayInit, DiskInit DEF DevicesInv, InitDevices
<1>2. DevicesInv => RequestsExact
  BY KeysAreInOrder DEF DevicesInv, RequestsExact, ClockInv, DisplayInv, DiskInv
<1> QED BY <1>1, <1>2, DevicesStep, PTL DEF DevicesSpec

(***************************************************************************)
(* riscv/spike/htif.c. What is asked of the host is in one place at a      *)
(* time: a character in cmd or in tohost until it is printed, a system     *)
(* call's answer in answers or in fromhost, the question for a key in cmd, *)
(* in tohost or with the host, and the key itself in answers, in fromhost  *)
(* or in the buffer.                                                       *)
(***************************************************************************)
(* Commands and answers of the system call, and where the question for a   *)
(* key, or the key itself, may be.                                         *)
SystemCall(ch) == tohost = SysWrite(ch)
DoneAt(i) == answers[i] = Done
KeyAt(i) == IsKey(answers[i])
Asking == htif_pc = "tohost" /\ cmd = Asks
Asked == tohost = Asks
KeyAnswered == IsKey(fromhost)
KeyQueued == \E i \in DOMAIN answers : KeyAt(i)

(* What __set_tohost is called for, and what is in tohost.                 *)
CommandInv ==
  /\ htif_pc = "tohost" =>
       \/ cmd = Asks /\ ~call
       \/ cmd = Writes(wrote - 1) /\ ~call /\ wrote > 0
       \/ cmd = SysWrite(wrote - 1) /\ call /\ wrote > 0
  /\ htif_pc = "fromhost" => cmd = SysWrite(wrote - 1) /\ wrote > 0
  /\ xlen = 32 => /\ htif_pc \in {"tohost", "fromhost"} => cmd = SysWrite(wrote - 1)
                  /\ tohost.dev = 0

(* The characters not printed yet are in tohost or in cmd.                 *)
Left == IF htif_pc = "tohost" /\ cmd # Asks THEN wrote - 1 ELSE wrote
PrintInv ==
  /\ Counted(printed)
  /\ htif_pc \notin {"off", "fromhost"} =>
       \/ tohost \in {Zero, Asks} /\ Len(printed) = Left
       \/ tohost = Writes(Left - 1) /\ Len(printed) = Left - 1 /\ xlen = 64
  /\ htif_pc = "fromhost" =>
       \/ tohost = Zero /\ Len(printed) = wrote
       \/ tohost = SysWrite(wrote - 1) /\ Len(printed) = wrote - 1
  /\ htif_pc = "off" => tohost \in {Zero, Exit}
  /\ htif_pc = "off" => Len(printed) >= wrote - (IF xlen = 32 THEN 0 ELSE 1)

(* A system call has one answer at most, and only while it is waited for.  *)
DoneInv ==
  /\ htif_pc # "fromhost" => fromhost # Done /\ \A i \in DOMAIN answers : ~DoneAt(i)
  /\ SystemCall(wrote - 1) \/ fromhost = Done => \A i \in DOMAIN answers : ~DoneAt(i)
  /\ SystemCall(wrote - 1) => fromhost # Done
  /\ \A i, j \in DOMAIN answers : DoneAt(i) /\ DoneAt(j) => i = j

AnswerInv ==
  /\ fromhost \in {Zero, Done, Written} \/ KeyAnswered
  /\ \A i \in DOMAIN answers : answers[i] \in {Done, Written} \/ KeyAt(i)

(* A key is asked for, or on its way, in one place at most.                *)
PlaceInv ==
  /\ Asking => ~Asked /\ ~wanted /\ ~KeyAnswered /\ ~KeyQueued
  /\ Asked => ~wanted /\ ~KeyAnswered /\ ~KeyQueued
  /\ wanted => ~KeyAnswered /\ ~KeyQueued
  /\ KeyAnswered => ~KeyQueued
  /\ \A i, j \in DOMAIN answers : KeyAt(i) /\ KeyAt(j) => i = j
  /\ Asking \/ Asked \/ wanted \/ KeyAnswered \/ KeyQueued => htif_console_buf = -1

(* and it is the last one typed.                                           *)
TypedInv ==
  /\ Counted(returned)
  /\ typed = Len(returned) + (IF OnItsWay THEN 1 ELSE 0)
  /\ htif_console_buf > 0 => htif_console_buf = typed
  /\ KeyAnswered => fromhost.data = typed - 1
  /\ \A i \in DOMAIN answers : KeyAt(i) => answers[i].data = typed - 1

HtifInv ==
  /\ HtifTypeOK /\ htif_pc # "assert"
  /\ CommandInv /\ PrintInv /\ DoneInv /\ AnswerInv /\ Counted(returned)
  /\ htif_pc # "off" => PlaceInv /\ TypedInv


LEMMA Unsent ==
  ASSUME answers' = answers
  PROVE  /\ KeyQueued' <=> KeyQueued
         /\ DOMAIN answers' = DOMAIN answers
         /\ \A i \in DOMAIN answers : (KeyAt(i)' <=> KeyAt(i)) /\ (DoneAt(i)' <=> DoneAt(i)) /\ answers'[i] = answers[i]
BY DEF KeyQueued, KeyAt, DoneAt, IsKey

LEMMA Sent ==
  ASSUME NEW w \in HtifWords, answers \in Seq(HtifWords), answers' = Append(answers, w)
  PROVE  /\ answers' \in Seq(HtifWords) /\ DOMAIN answers' = DOMAIN answers \cup {Len(answers) + 1}
         /\ Len(answers) + 1 \notin DOMAIN answers /\ answers'[Len(answers) + 1] = w
         /\ \A i \in DOMAIN answers : answers'[i] = answers[i]
         /\ KeyQueued' <=> KeyQueued \/ IsKey(w)
<1>1. /\ answers' \in Seq(HtifWords) /\ DOMAIN answers' = DOMAIN answers \cup {Len(answers) + 1}
      /\ Len(answers) + 1 \notin DOMAIN answers /\ answers'[Len(answers) + 1] = w
      /\ \A i \in DOMAIN answers : answers'[i] = answers[i]
  OBVIOUS
<1>2. KeyQueued' <=> KeyQueued \/ IsKey(w)
  BY <1>1, Zenon DEF KeyQueued, KeyAt, IsKey
<1> QED BY <1>1, <1>2

LEMMA Received ==
  ASSUME answers \in Seq(HtifWords), answers # <<>>, answers' = Tail(answers)
  PROVE  /\ answers' \in Seq(HtifWords) /\ 1 \in DOMAIN answers /\ answers[1] = Head(answers)
         /\ Head(answers) \in HtifWords
         /\ \A i \in DOMAIN answers' : i + 1 \in DOMAIN answers /\ answers'[i] = answers[i + 1]
         /\ \A i \in DOMAIN answers' : i \in Nat \ {0}
OBVIOUS

(* The program refuses nothing but the answer to a system call, and finds  *)
(* the last key typed.                                                     *)
LEMMA Known ==
  ASSUME HtifInv
  PROVE  /\ Refused => fromhost = Done /\ htif_pc = "fromhost"
         /\ Checked \in {-1} \cup Nat
         /\ htif_pc # "off" => Checked = IF KeyAnswered THEN typed ELSE htif_console_buf
         /\ htif_pc # "off" /\ Checked > 0 => Checked = typed /\ typed = Len(returned) + 1 /\ ~KeyQueued
         /\ htif_pc # "off" /\ Checked <= 0 => (OnItsWay <=> KeyQueued) /\ ~KeyAnswered
<1> USE DEF TOHOST_CMD, Zero, Asks, Writes, Written, Key, SysWrite, Done, Exit
<1>0. HtifTypeOK /\ DoneInv /\ AnswerInv
  BY DEF HtifInv
<1>1. Refused => fromhost = Done /\ htif_pc = "fromhost"
  BY <1>0 DEF HtifTypeOK, HtifWords, DoneInv, AnswerInv, Refused, KeyAnswered, IsKey
<1>2. Checked \in {-1} \cup Nat
  BY <1>0 DEF HtifTypeOK, HtifWords, Checked
<1>3. ASSUME htif_pc # "off" 
      PROVE  /\ Checked = IF KeyAnswered THEN typed ELSE htif_console_buf
             /\ Checked > 0 => Checked = typed /\ typed = Len(returned) + 1 /\ ~KeyQueued
             /\ Checked <= 0 => (OnItsWay <=> KeyQueued) /\ ~KeyAnswered
  <2>1. PlaceInv /\ TypedInv /\ typed \in Nat /\ htif_console_buf \in {-1} \cup Nat /\ Len(returned) \in Nat
    BY <1>3 DEF HtifInv, HtifTypeOK
  <2>2. OnItsWay <=> htif_console_buf > 0 \/ KeyAnswered \/ KeyQueued
    BY DEF OnItsWay, KeyAnswered, KeyQueued, KeyAt
  <2>3. Checked = IF KeyAnswered THEN 1 + fromhost.data ELSE htif_console_buf
    BY DEF Checked, KeyAnswered, IsKey
  <2>4. KeyAnswered => fromhost.data = typed - 1
    BY <2>1 DEF TypedInv
  <2>5. typed = Len(returned) + (IF OnItsWay THEN 1 ELSE 0) /\ (htif_console_buf > 0 => htif_console_buf = typed)
    BY <2>1 DEF TypedInv
  <2>6. (KeyAnswered => ~KeyQueued) /\ (KeyAnswered \/ KeyQueued => htif_console_buf = -1)
    BY <2>1 DEF PlaceInv
  <2> QED BY <2>1, <2>2, <2>3, <2>4, <2>5, <2>6
<1> QED BY <1>1, <1>2, <1>3

LEMMA WaitTohostStep == ASSUME HtifInv, WaitTohost PROVE HtifInv'
<1> USE CharsAssumption DEF TOHOST_CMD, Zero, Asks, Writes, Written, Key, SysWrite, Done, Exit, programVars, hostVars, check_fromhost, set_tohost
<1>0. HtifTypeOK /\ htif_pc # "assert" /\ CommandInv /\ PrintInv /\ DoneInv /\ AnswerInv /\ Counted(returned)
  BY DEF HtifInv
<1>a. htif_pc # "off" => PlaceInv /\ TypedInv
  BY DEF HtifInv
<1>b. UNCHANGED hostVars /\ answers' = answers /\ wanted' = wanted /\ printed' = printed /\ typed' = typed
  BY DEF WaitTohost
<1>c. /\ KeyQueued' <=> KeyQueued
      /\ DOMAIN answers' = DOMAIN answers
      /\ \A i \in DOMAIN answers : (KeyAt(i)' <=> KeyAt(i)) /\ (DoneAt(i)' <=> DoneAt(i)) /\ answers'[i] = answers[i]
  BY <1>b, Unsent
<1>d. /\ Refused => fromhost = Done /\ htif_pc = "fromhost"
      /\ Checked \in {-1} \cup Nat
      /\ htif_pc # "off" => Checked = IF KeyAnswered THEN typed ELSE htif_console_buf
      /\ htif_pc # "off" /\ Checked > 0 => Checked = typed /\ typed = Len(returned) + 1 /\ ~KeyQueued
      /\ htif_pc # "off" /\ Checked <= 0 => (OnItsWay <=> KeyQueued) /\ ~KeyAnswered
  BY Known
<1>e. /\ OnItsWay <=> htif_console_buf > 0 \/ KeyAnswered \/ KeyQueued
      /\ OnItsWay' <=> htif_console_buf' > 0 \/ KeyAnswered' \/ KeyQueued'
  BY DEF OnItsWay, KeyAnswered, KeyQueued, KeyAt
<1>1. HtifTypeOK'
  BY <1>0, <1>b, <1>d DEF WaitTohost, HtifTypeOK, HtifWords, CommandInv, AskedFor
<1>2. (htif_pc # "assert")'
  BY <1>0, <1>d DEF WaitTohost, HtifTypeOK, HtifWords, CommandInv
<1>3. CommandInv'
  BY <1>0, <1>b, <1>d DEF WaitTohost, HtifTypeOK, HtifWords, CommandInv, PrintInv
<1>4. PrintInv'
  BY <1>0, <1>b, <1>d
     DEF WaitTohost, HtifTypeOK, HtifWords, CommandInv, PrintInv, Left, Counted, DoneInv, SystemCall
<1>5. DoneInv'
  BY <1>0, <1>c, <1>d DEF WaitTohost, HtifTypeOK, HtifWords, CommandInv, PrintInv, DoneInv, SystemCall
<1>6. AnswerInv'
  BY <1>0, <1>c DEF WaitTohost, HtifTypeOK, HtifWords, AnswerInv, KeyAnswered, IsKey
<1>7. Counted(returned)'
  BY <1>0, <1>a, <1>d DEF WaitTohost, HtifTypeOK, HtifWords, Counted
<1>8. ASSUME htif_pc' # "off" PROVE PlaceInv'
  BY <1>0, <1>a, <1>b, <1>c, <1>d, <1>8
     DEF WaitTohost, HtifTypeOK, HtifWords, PlaceInv, Asking, Asked, KeyAnswered, IsKey, AskedFor
<1>9. ASSUME htif_pc' # "off" PROVE TypedInv'
  BY <1>0, <1>a, <1>b, <1>c, <1>d, <1>e, <1>7, <1>9
     DEF WaitTohost, HtifTypeOK, HtifWords, PlaceInv, TypedInv, Asking, Asked, KeyAnswered, IsKey, AskedFor
<1> QED BY <1>1, <1>2, <1>3, <1>4, <1>5, <1>6, <1>7, <1>8, <1>9 DEF HtifInv

LEMMA SetTohostStep == ASSUME HtifInv, SetTohost PROVE HtifInv'
<1> USE CharsAssumption DEF TOHOST_CMD, Zero, Asks, Writes, Written, Key, SysWrite, Done, Exit, programVars, hostVars, check_fromhost, set_tohost
<1>0. HtifTypeOK /\ htif_pc # "assert" /\ CommandInv /\ PrintInv /\ DoneInv /\ AnswerInv /\ Counted(returned)
  BY DEF HtifInv
<1>a. htif_pc # "off" => PlaceInv /\ TypedInv
  BY DEF HtifInv
<1>b. UNCHANGED hostVars /\ answers' = answers /\ wanted' = wanted /\ printed' = printed /\ typed' = typed
  BY DEF SetTohost
<1>c. /\ KeyQueued' <=> KeyQueued
      /\ DOMAIN answers' = DOMAIN answers
      /\ \A i \in DOMAIN answers : (KeyAt(i)' <=> KeyAt(i)) /\ (DoneAt(i)' <=> DoneAt(i)) /\ answers'[i] = answers[i]
  BY <1>b, Unsent
<1>d. /\ Refused => fromhost = Done /\ htif_pc = "fromhost"
      /\ Checked \in {-1} \cup Nat
      /\ htif_pc # "off" => Checked = IF KeyAnswered THEN typed ELSE htif_console_buf
      /\ htif_pc # "off" /\ Checked > 0 => Checked = typed /\ typed = Len(returned) + 1 /\ ~KeyQueued
      /\ htif_pc # "off" /\ Checked <= 0 => (OnItsWay <=> KeyQueued) /\ ~KeyAnswered
  BY Known
<1>e. /\ OnItsWay <=> htif_console_buf > 0 \/ KeyAnswered \/ KeyQueued
      /\ OnItsWay' <=> htif_console_buf' > 0 \/ KeyAnswered' \/ KeyQueued'
  BY DEF OnItsWay, KeyAnswered, KeyQueued, KeyAt
<1>1. HtifTypeOK'
  BY <1>0, <1>b, <1>d DEF SetTohost, HtifTypeOK, HtifWords, CommandInv, AskedFor
<1>2. (htif_pc # "assert")'
  BY <1>0, <1>d DEF SetTohost, HtifTypeOK, HtifWords, CommandInv
<1>3. CommandInv'
  BY <1>0, <1>b, <1>d DEF SetTohost, HtifTypeOK, HtifWords, CommandInv, PrintInv
<1>4. PrintInv'
  BY <1>0, <1>b, <1>d
     DEF SetTohost, HtifTypeOK, HtifWords, CommandInv, PrintInv, Left, Counted, DoneInv, SystemCall
<1>5. DoneInv'
  BY <1>0, <1>c, <1>d DEF SetTohost, HtifTypeOK, HtifWords, CommandInv, PrintInv, DoneInv, SystemCall
<1>6. AnswerInv'
  BY <1>0, <1>c DEF SetTohost, HtifTypeOK, HtifWords, AnswerInv, KeyAnswered, IsKey
<1>7. Counted(returned)'
  BY <1>0, <1>a, <1>d DEF SetTohost, HtifTypeOK, HtifWords, Counted
<1>8. ASSUME htif_pc' # "off" PROVE PlaceInv'
  BY <1>0, <1>a, <1>b, <1>c, <1>d, <1>8
     DEF SetTohost, HtifTypeOK, HtifWords, PlaceInv, Asking, Asked, KeyAnswered, IsKey, AskedFor
<1>9. ASSUME htif_pc' # "off" PROVE TypedInv'
  BY <1>0, <1>a, <1>b, <1>c, <1>d, <1>e, <1>7, <1>9
     DEF SetTohost, HtifTypeOK, HtifWords, PlaceInv, TypedInv, Asking, Asked, KeyAnswered, IsKey, AskedFor
<1> QED BY <1>1, <1>2, <1>3, <1>4, <1>5, <1>6, <1>7, <1>8, <1>9 DEF HtifInv

LEMMA htif_console_getcharStep == ASSUME HtifInv, htif_console_getchar PROVE HtifInv'
<1> USE CharsAssumption DEF TOHOST_CMD, Zero, Asks, Writes, Written, Key, SysWrite, Done, Exit, programVars, hostVars, check_fromhost, set_tohost
<1>0. HtifTypeOK /\ htif_pc # "assert" /\ CommandInv /\ PrintInv /\ DoneInv /\ AnswerInv /\ Counted(returned)
  BY DEF HtifInv
<1>a. htif_pc # "off" => PlaceInv /\ TypedInv
  BY DEF HtifInv
<1>b. UNCHANGED hostVars /\ answers' = answers /\ wanted' = wanted /\ printed' = printed /\ typed' = typed
  BY DEF htif_console_getchar
<1>c. /\ KeyQueued' <=> KeyQueued
      /\ DOMAIN answers' = DOMAIN answers
      /\ \A i \in DOMAIN answers : (KeyAt(i)' <=> KeyAt(i)) /\ (DoneAt(i)' <=> DoneAt(i)) /\ answers'[i] = answers[i]
  BY <1>b, Unsent
<1>d. /\ Refused => fromhost = Done /\ htif_pc = "fromhost"
      /\ Checked \in {-1} \cup Nat
      /\ htif_pc # "off" => Checked = IF KeyAnswered THEN typed ELSE htif_console_buf
      /\ htif_pc # "off" /\ Checked > 0 => Checked = typed /\ typed = Len(returned) + 1 /\ ~KeyQueued
      /\ htif_pc # "off" /\ Checked <= 0 => (OnItsWay <=> KeyQueued) /\ ~KeyAnswered
  BY Known
<1>e. /\ OnItsWay <=> htif_console_buf > 0 \/ KeyAnswered \/ KeyQueued
      /\ OnItsWay' <=> htif_console_buf' > 0 \/ KeyAnswered' \/ KeyQueued'
  BY DEF OnItsWay, KeyAnswered, KeyQueued, KeyAt
<1>1. HtifTypeOK'
  <2>1. returned' \in Seq(Nat)
    BY <1>0, <1>d DEF htif_console_getchar, HtifTypeOK
  <2>5. UNCHANGED <<cmd, call>> \/ set_tohost(1, 0, 0, FALSE)
    BY DEF htif_console_getchar
  <2>6. cmd' = cmd \/ cmd' = Asks
    BY <2>5
  <2>7. call' \in BOOLEAN
    BY <1>0, <2>5, Zenon DEF HtifTypeOK
  <2>2. cmd' \in HtifWords /\ call' \in BOOLEAN
    BY <1>0, <2>6, <2>7 DEF HtifTypeOK, HtifWords
  <2>3. htif_console_buf' \in {-1} \cup Nat
    BY <1>0, <1>d DEF htif_console_getchar, HtifTypeOK, AskedFor
  <2>4. htif_pc' \in {"idle", "tohost", "assert"} /\ fromhost' \in HtifWords
    BY <1>0 DEF htif_console_getchar, HtifTypeOK, HtifWords
  <2> QED BY <1>0, <2>1, <2>2, <2>3, <2>4 DEF htif_console_getchar, HtifTypeOK
<1>2. (htif_pc # "assert")'
  BY <1>0, <1>d DEF htif_console_getchar, HtifTypeOK, HtifWords, CommandInv
<1>3. CommandInv'
  BY <1>0, <1>b, <1>d DEF htif_console_getchar, HtifTypeOK, HtifWords, CommandInv, PrintInv
<1>4. PrintInv'
  BY <1>0, <1>b, <1>d
     DEF htif_console_getchar, HtifTypeOK, HtifWords, CommandInv, PrintInv, Left, Counted, DoneInv, SystemCall
<1>5. DoneInv'
  BY <1>0, <1>c, <1>d DEF htif_console_getchar, HtifTypeOK, HtifWords, CommandInv, PrintInv, DoneInv, SystemCall
<1>6. AnswerInv'
  BY <1>0, <1>c DEF htif_console_getchar, HtifTypeOK, HtifWords, AnswerInv, KeyAnswered, IsKey
<1>7. Counted(returned)'
  BY <1>0, <1>a, <1>d DEF htif_console_getchar, HtifTypeOK, HtifWords, Counted
<1>8. ASSUME htif_pc' # "off" PROVE PlaceInv'
  BY <1>0, <1>a, <1>b, <1>c, <1>d, <1>8
     DEF htif_console_getchar, HtifTypeOK, HtifWords, PlaceInv, Asking, Asked, KeyAnswered, IsKey, AskedFor
<1>9. ASSUME htif_pc' # "off" PROVE TypedInv'
  <2>1. htif_pc # "off" /\ ~Refused /\ fromhost' = Zero /\ typed' = typed /\ ~KeyAnswered'
    BY <1>0, <1>b, <1>d DEF htif_console_getchar, KeyAnswered, IsKey
  <2>2. htif_console_buf' <= 0
    BY <1>d, <2>1 DEF htif_console_getchar, AskedFor
  <2>3. returned' = IF Checked > 0 THEN Append(returned, Checked - 1) ELSE returned
    BY <2>1 DEF htif_console_getchar
  <2>4. Len(returned') = Len(returned) + (IF Checked > 0 THEN 1 ELSE 0) /\ Len(returned) \in Nat
    BY <1>0, <1>d, <2>3 DEF HtifTypeOK
  <2>5. TypedInv /\ typed \in Nat /\ htif_console_buf' \in {-1} \cup Nat
    BY <1>0, <1>a, <1>1, <2>1 DEF HtifTypeOK
  <2>6. OnItsWay' <=> KeyQueued
    BY <1>c, <1>e, <2>1, <2>2, <2>5
  <2>7. typed' = Len(returned') + (IF OnItsWay' THEN 1 ELSE 0)
    <3>1. CASE Checked > 0
      <4>1. typed = Len(returned) + 1 /\ ~OnItsWay'
        BY <1>d, <2>1, <2>6, <3>1
      <4> QED BY <2>1, <2>4, <3>1, <4>1
    <3>2. CASE ~(Checked > 0)
      <4>1. OnItsWay' <=> OnItsWay
        BY <1>d, <2>1, <2>6, <3>2
      <4>2. typed = Len(returned) + (IF OnItsWay THEN 1 ELSE 0)
        BY <2>5 DEF TypedInv
      <4> QED BY <2>1, <2>4, <3>2, <4>1, <4>2
    <3> QED BY <3>1, <3>2
  <2> QED BY <1>c, <1>7, <2>1, <2>2, <2>5, <2>7 DEF TypedInv
<1> QED BY <1>1, <1>2, <1>3, <1>4, <1>5, <1>6, <1>7, <1>8, <1>9 DEF HtifInv

LEMMA htif_console_putcharStep == ASSUME HtifInv, htif_console_putchar PROVE HtifInv'
<1> USE CharsAssumption DEF TOHOST_CMD, Zero, Asks, Writes, Written, Key, SysWrite, Done, Exit, programVars, hostVars, check_fromhost, set_tohost
<1>0. HtifTypeOK /\ htif_pc # "assert" /\ CommandInv /\ PrintInv /\ DoneInv /\ AnswerInv /\ Counted(returned)
  BY DEF HtifInv
<1>a. htif_pc # "off" => PlaceInv /\ TypedInv
  BY DEF HtifInv
<1>b. UNCHANGED hostVars /\ answers' = answers /\ wanted' = wanted /\ printed' = printed /\ typed' = typed
  BY DEF htif_console_putchar
<1>c. /\ KeyQueued' <=> KeyQueued
      /\ DOMAIN answers' = DOMAIN answers
      /\ \A i \in DOMAIN answers : (KeyAt(i)' <=> KeyAt(i)) /\ (DoneAt(i)' <=> DoneAt(i)) /\ answers'[i] = answers[i]
  BY <1>b, Unsent
<1>d. /\ Refused => fromhost = Done /\ htif_pc = "fromhost"
      /\ Checked \in {-1} \cup Nat
      /\ htif_pc # "off" => Checked = IF KeyAnswered THEN typed ELSE htif_console_buf
      /\ htif_pc # "off" /\ Checked > 0 => Checked = typed /\ typed = Len(returned) + 1 /\ ~KeyQueued
      /\ htif_pc # "off" /\ Checked <= 0 => (OnItsWay <=> KeyQueued) /\ ~KeyAnswered
  BY Known
<1>e. /\ OnItsWay <=> htif_console_buf > 0 \/ KeyAnswered \/ KeyQueued
      /\ OnItsWay' <=> htif_console_buf' > 0 \/ KeyAnswered' \/ KeyQueued'
  BY DEF OnItsWay, KeyAnswered, KeyQueued, KeyAt
<1>1. HtifTypeOK'
  <2>1. 2 * wrote + 2 \in Nat /\ wrote \in Nat
    BY <1>0 DEF HtifTypeOK
  <2>3. set_tohost(0, 0, SysWrite(wrote).data, TRUE) \/ set_tohost(1, 1, wrote, FALSE)
    BY DEF htif_console_putchar
  <2>4. cmd' = SysWrite(wrote) \/ cmd' = Writes(wrote)
    BY <2>3
  <2>5. call' \in BOOLEAN
    BY <2>3, Zenon
  <2>2. cmd' \in HtifWords /\ call' \in BOOLEAN
    BY <2>1, <2>4, <2>5 DEF HtifWords
  <2> QED BY <1>0, <2>1, <2>2 DEF htif_console_putchar, HtifTypeOK
<1>2. (htif_pc # "assert")'
  BY <1>0, <1>d DEF htif_console_putchar, HtifTypeOK, HtifWords, CommandInv
<1>3. CommandInv'
  BY <1>0, <1>b, <1>d DEF htif_console_putchar, HtifTypeOK, HtifWords, CommandInv, PrintInv
<1>4. PrintInv'
  BY <1>0, <1>b, <1>d
     DEF htif_console_putchar, HtifTypeOK, HtifWords, CommandInv, PrintInv, Left, Counted, DoneInv, SystemCall
<1>5. DoneInv'
  BY <1>0, <1>c, <1>d DEF htif_console_putchar, HtifTypeOK, HtifWords, CommandInv, PrintInv, DoneInv, SystemCall
<1>6. AnswerInv'
  BY <1>0, <1>c DEF htif_console_putchar, HtifTypeOK, HtifWords, AnswerInv, KeyAnswered, IsKey
<1>7. Counted(returned)'
  BY <1>0, <1>a, <1>d DEF htif_console_putchar, HtifTypeOK, HtifWords, Counted
<1>8. ASSUME htif_pc' # "off" PROVE PlaceInv'
  BY <1>0, <1>a, <1>b, <1>c, <1>d, <1>8
     DEF htif_console_putchar, HtifTypeOK, HtifWords, PlaceInv, Asking, Asked, KeyAnswered, IsKey, AskedFor
<1>9. ASSUME htif_pc' # "off" PROVE TypedInv'
  BY <1>0, <1>a, <1>b, <1>c, <1>d, <1>e, <1>7, <1>9
     DEF htif_console_putchar, HtifTypeOK, HtifWords, PlaceInv, TypedInv, Asking, Asked, KeyAnswered, IsKey,
         AskedFor
<1> QED BY <1>1, <1>2, <1>3, <1>4, <1>5, <1>6, <1>7, <1>8, <1>9 DEF HtifInv

LEMMA htif_syscallStep == ASSUME HtifInv, htif_syscall PROVE HtifInv'
<1> USE CharsAssumption DEF TOHOST_CMD, Zero, Asks, Writes, Written, Key, SysWrite, Done, Exit, programVars, hostVars, check_fromhost, set_tohost
<1>0. HtifTypeOK /\ htif_pc # "assert" /\ CommandInv /\ PrintInv /\ DoneInv /\ AnswerInv /\ Counted(returned)
  BY DEF HtifInv
<1>a. htif_pc # "off" => PlaceInv /\ TypedInv
  BY DEF HtifInv
<1>b. UNCHANGED hostVars /\ answers' = answers /\ wanted' = wanted /\ printed' = printed /\ typed' = typed
  BY DEF htif_syscall
<1>c. /\ KeyQueued' <=> KeyQueued
      /\ DOMAIN answers' = DOMAIN answers
      /\ \A i \in DOMAIN answers : (KeyAt(i)' <=> KeyAt(i)) /\ (DoneAt(i)' <=> DoneAt(i)) /\ answers'[i] = answers[i]
  BY <1>b, Unsent
<1>d. /\ Refused => fromhost = Done /\ htif_pc = "fromhost"
      /\ Checked \in {-1} \cup Nat
      /\ htif_pc # "off" => Checked = IF KeyAnswered THEN typed ELSE htif_console_buf
      /\ htif_pc # "off" /\ Checked > 0 => Checked = typed /\ typed = Len(returned) + 1 /\ ~KeyQueued
      /\ htif_pc # "off" /\ Checked <= 0 => (OnItsWay <=> KeyQueued) /\ ~KeyAnswered
  BY Known
<1>e. /\ OnItsWay <=> htif_console_buf > 0 \/ KeyAnswered \/ KeyQueued
      /\ OnItsWay' <=> htif_console_buf' > 0 \/ KeyAnswered' \/ KeyQueued'
  BY DEF OnItsWay, KeyAnswered, KeyQueued, KeyAt
<1>1. HtifTypeOK'
  BY <1>0, <1>b, <1>d DEF htif_syscall, HtifTypeOK, HtifWords, CommandInv, AskedFor
<1>2. (htif_pc # "assert")'
  BY <1>0, <1>d DEF htif_syscall, HtifTypeOK, HtifWords, CommandInv
<1>3. CommandInv'
  BY <1>0, <1>b, <1>d DEF htif_syscall, HtifTypeOK, HtifWords, CommandInv, PrintInv
<1>4. PrintInv'
  BY <1>0, <1>b, <1>d
     DEF htif_syscall, HtifTypeOK, HtifWords, CommandInv, PrintInv, Left, Counted, DoneInv, SystemCall
<1>5. DoneInv'
  BY <1>0, <1>c, <1>d DEF htif_syscall, HtifTypeOK, HtifWords, CommandInv, PrintInv, DoneInv, SystemCall
<1>6. AnswerInv'
  BY <1>0, <1>c DEF htif_syscall, HtifTypeOK, HtifWords, AnswerInv, KeyAnswered, IsKey
<1>7. Counted(returned)'
  BY <1>0, <1>a, <1>d DEF htif_syscall, HtifTypeOK, HtifWords, Counted
<1>8. ASSUME htif_pc' # "off" PROVE PlaceInv'
  BY <1>0, <1>a, <1>b, <1>c, <1>d, <1>8
     DEF htif_syscall, HtifTypeOK, HtifWords, PlaceInv, Asking, Asked, KeyAnswered, IsKey, AskedFor
<1>9. ASSUME htif_pc' # "off" PROVE TypedInv'
  BY <1>0, <1>a, <1>b, <1>c, <1>d, <1>e, <1>7, <1>9
     DEF htif_syscall, HtifTypeOK, HtifWords, PlaceInv, TypedInv, Asking, Asked, KeyAnswered, IsKey, AskedFor
<1> QED BY <1>1, <1>2, <1>3, <1>4, <1>5, <1>6, <1>7, <1>8, <1>9 DEF HtifInv

LEMMA do_tohost_fromhostStep == ASSUME HtifInv, do_tohost_fromhost PROVE HtifInv'
<1> USE CharsAssumption DEF TOHOST_CMD, Zero, Asks, Writes, Written, Key, SysWrite, Done, Exit, programVars, hostVars, check_fromhost, set_tohost
<1>0. HtifTypeOK /\ htif_pc # "assert" /\ CommandInv /\ PrintInv /\ DoneInv /\ AnswerInv /\ Counted(returned)
  BY DEF HtifInv
<1>a. htif_pc # "off" => PlaceInv /\ TypedInv
  BY DEF HtifInv
<1>b. UNCHANGED hostVars /\ answers' = answers /\ wanted' = wanted /\ printed' = printed /\ typed' = typed
  BY DEF do_tohost_fromhost
<1>c. /\ KeyQueued' <=> KeyQueued
      /\ DOMAIN answers' = DOMAIN answers
      /\ \A i \in DOMAIN answers : (KeyAt(i)' <=> KeyAt(i)) /\ (DoneAt(i)' <=> DoneAt(i)) /\ answers'[i] = answers[i]
  BY <1>b, Unsent
<1>d. /\ Refused => fromhost = Done /\ htif_pc = "fromhost"
      /\ Checked \in {-1} \cup Nat
      /\ htif_pc # "off" => Checked = IF KeyAnswered THEN typed ELSE htif_console_buf
      /\ htif_pc # "off" /\ Checked > 0 => Checked = typed /\ typed = Len(returned) + 1 /\ ~KeyQueued
      /\ htif_pc # "off" /\ Checked <= 0 => (OnItsWay <=> KeyQueued) /\ ~KeyAnswered
  BY Known
<1>e. /\ OnItsWay <=> htif_console_buf > 0 \/ KeyAnswered \/ KeyQueued
      /\ OnItsWay' <=> htif_console_buf' > 0 \/ KeyAnswered' \/ KeyQueued'
  BY DEF OnItsWay, KeyAnswered, KeyQueued, KeyAt
<1>1. HtifTypeOK'
  BY <1>0, <1>b, <1>d DEF do_tohost_fromhost, HtifTypeOK, HtifWords, CommandInv, AskedFor
<1>2. (htif_pc # "assert")'
  BY <1>0, <1>d DEF do_tohost_fromhost, HtifTypeOK, HtifWords, CommandInv
<1>3. CommandInv'
  BY <1>0, <1>b, <1>d DEF do_tohost_fromhost, HtifTypeOK, HtifWords, CommandInv, PrintInv
<1>4. PrintInv'
  <2>1. CASE fromhost.dev = cmd.dev /\ fromhost.cmd = cmd.cmd
    <3>1. fromhost = Done
      BY <1>0, <2>1 DEF do_tohost_fromhost, CommandInv, AnswerInv, KeyAnswered, IsKey
    <3>2. tohost = Zero /\ Len(printed) = wrote
      BY <1>0, <3>1 DEF do_tohost_fromhost, PrintInv, DoneInv, SystemCall
    <3> QED BY <1>0, <1>b, <2>1, <3>2 DEF do_tohost_fromhost, PrintInv, Left
  <2>2. CASE ~(fromhost.dev = cmd.dev /\ fromhost.cmd = cmd.cmd)
    BY <1>0, <1>b, <1>2, <2>2 DEF do_tohost_fromhost, PrintInv, Left
  <2> QED BY <2>1, <2>2
<1>5. DoneInv'
  <2>1. CASE fromhost.dev = cmd.dev /\ fromhost.cmd = cmd.cmd
    <3>1. fromhost = Done
      BY <1>0, <2>1 DEF do_tohost_fromhost, CommandInv, AnswerInv, KeyAnswered, IsKey
    <3>2. \A i \in DOMAIN answers : ~DoneAt(i)
      BY <1>0, <3>1 DEF DoneInv
    <3>3. fromhost' # Done
      BY DEF do_tohost_fromhost
    <3> QED BY <1>c, <3>2, <3>3 DEF DoneInv
  <2>2. CASE ~(fromhost.dev = cmd.dev /\ fromhost.cmd = cmd.cmd)
    BY <1>0, <1>c, <1>2, <2>2 DEF do_tohost_fromhost, DoneInv, SystemCall
  <2> QED BY <2>1, <2>2
<1>6. AnswerInv'
  BY <1>0, <1>c DEF do_tohost_fromhost, HtifTypeOK, HtifWords, AnswerInv, KeyAnswered, IsKey
<1>7. Counted(returned)'
  BY <1>0, <1>a, <1>d DEF do_tohost_fromhost, HtifTypeOK, HtifWords, Counted
<1>8. ASSUME htif_pc' # "off" PROVE PlaceInv'
  BY <1>0, <1>a, <1>b, <1>c, <1>d, <1>8
     DEF do_tohost_fromhost, HtifTypeOK, HtifWords, PlaceInv, Asking, Asked, KeyAnswered, IsKey, AskedFor
<1>9. ASSUME htif_pc' # "off" PROVE TypedInv'
  <2>1. htif_pc # "off" /\ fromhost' = Zero /\ typed' = typed /\ ~KeyAnswered' /\ returned' = returned
    BY <1>0, <1>b DEF do_tohost_fromhost, KeyAnswered, IsKey
  <2>2. TypedInv /\ PlaceInv /\ typed \in Nat /\ htif_console_buf' \in {-1} \cup Nat
    BY <1>0, <1>a, <1>1, <2>1 DEF HtifTypeOK
  <2>3. htif_console_buf' = IF KeyAnswered THEN typed ELSE htif_console_buf
    <3>1. fromhost.dev = cmd.dev /\ fromhost.cmd = cmd.cmd => ~KeyAnswered
      BY <1>0 DEF do_tohost_fromhost, CommandInv, KeyAnswered, IsKey
    <3> QED BY <1>d, <2>1, <3>1 DEF do_tohost_fromhost
  <2>4. OnItsWay' <=> OnItsWay
    <3>1. KeyAnswered => typed > 0
      BY <1>e, <1>0, <2>2 DEF TypedInv, HtifTypeOK
    <3> QED BY <1>c, <1>e, <2>1, <2>3, <3>1
  <2>5. htif_console_buf' > 0 => htif_console_buf' = typed'
    BY <2>1, <2>2, <2>3 DEF TypedInv
  <2> QED BY <1>c, <2>1, <2>2, <2>4, <2>5, <1>7 DEF TypedInv
<1> QED BY <1>1, <1>2, <1>3, <1>4, <1>5, <1>6, <1>7, <1>8, <1>9 DEF HtifInv

LEMMA htif_poweroffStep == ASSUME HtifInv, htif_poweroff PROVE HtifInv'
<1> USE CharsAssumption DEF TOHOST_CMD, Zero, Asks, Writes, Written, Key, SysWrite, Done, Exit, programVars, hostVars, check_fromhost, set_tohost
<1>0. HtifTypeOK /\ htif_pc # "assert" /\ CommandInv /\ PrintInv /\ DoneInv /\ AnswerInv /\ Counted(returned)
  BY DEF HtifInv
<1>a. htif_pc # "off" => PlaceInv /\ TypedInv
  BY DEF HtifInv
<1>b. UNCHANGED hostVars /\ answers' = answers /\ wanted' = wanted /\ printed' = printed /\ typed' = typed
  BY DEF htif_poweroff
<1>c. /\ KeyQueued' <=> KeyQueued
      /\ DOMAIN answers' = DOMAIN answers
      /\ \A i \in DOMAIN answers : (KeyAt(i)' <=> KeyAt(i)) /\ (DoneAt(i)' <=> DoneAt(i)) /\ answers'[i] = answers[i]
  BY <1>b, Unsent
<1>d. /\ Refused => fromhost = Done /\ htif_pc = "fromhost"
      /\ Checked \in {-1} \cup Nat
      /\ htif_pc # "off" => Checked = IF KeyAnswered THEN typed ELSE htif_console_buf
      /\ htif_pc # "off" /\ Checked > 0 => Checked = typed /\ typed = Len(returned) + 1 /\ ~KeyQueued
      /\ htif_pc # "off" /\ Checked <= 0 => (OnItsWay <=> KeyQueued) /\ ~KeyAnswered
  BY Known
<1>e. /\ OnItsWay <=> htif_console_buf > 0 \/ KeyAnswered \/ KeyQueued
      /\ OnItsWay' <=> htif_console_buf' > 0 \/ KeyAnswered' \/ KeyQueued'
  BY DEF OnItsWay, KeyAnswered, KeyQueued, KeyAt
<1>1. HtifTypeOK'
  BY <1>0, <1>b, <1>d DEF htif_poweroff, HtifTypeOK, HtifWords, CommandInv, AskedFor
<1>2. (htif_pc # "assert")'
  BY <1>0, <1>d DEF htif_poweroff, HtifTypeOK, HtifWords, CommandInv
<1>3. CommandInv'
  BY <1>0, <1>b, <1>d DEF htif_poweroff, HtifTypeOK, HtifWords, CommandInv, PrintInv
<1>4. PrintInv'
  BY <1>0, <1>b, <1>d
     DEF htif_poweroff, HtifTypeOK, HtifWords, CommandInv, PrintInv, Left, Counted, DoneInv, SystemCall
<1>5. DoneInv'
  BY <1>0, <1>c, <1>d DEF htif_poweroff, HtifTypeOK, HtifWords, CommandInv, PrintInv, DoneInv, SystemCall
<1>6. AnswerInv'
  BY <1>0, <1>c DEF htif_poweroff, HtifTypeOK, HtifWords, AnswerInv, KeyAnswered, IsKey
<1>7. Counted(returned)'
  BY <1>0, <1>a, <1>d DEF htif_poweroff, HtifTypeOK, HtifWords, Counted
<1>8. ASSUME htif_pc' # "off" PROVE PlaceInv'
  BY <1>0, <1>a, <1>b, <1>c, <1>d, <1>8
     DEF htif_poweroff, HtifTypeOK, HtifWords, PlaceInv, Asking, Asked, KeyAnswered, IsKey, AskedFor
<1>9. ASSUME htif_pc' # "off" PROVE TypedInv'
  BY <1>0, <1>a, <1>b, <1>c, <1>d, <1>e, <1>7, <1>9
     DEF htif_poweroff, HtifTypeOK, HtifWords, PlaceInv, TypedInv, Asking, Asked, KeyAnswered, IsKey, AskedFor
<1> QED BY <1>1, <1>2, <1>3, <1>4, <1>5, <1>6, <1>7, <1>8, <1>9 DEF HtifInv

LEMMA HostTakesStep == ASSUME HtifInv, HostTakes PROVE HtifInv'
<1> USE CharsAssumption DEF TOHOST_CMD, Zero, Asks, Writes, Written, Key, SysWrite, Done, Exit, programVars, hostVars, check_fromhost, set_tohost
<1>0. HtifTypeOK /\ htif_pc # "assert" /\ CommandInv /\ PrintInv /\ DoneInv /\ AnswerInv /\ Counted(returned)
  BY DEF HtifInv
<1>a. htif_pc # "off" => PlaceInv /\ TypedInv
  BY DEF HtifInv
<1>b. UNCHANGED <<xlen, programVars>>
  BY DEF HostTakes
<1>e. /\ OnItsWay <=> htif_console_buf > 0 \/ KeyAnswered \/ KeyQueued
      /\ OnItsWay' <=> htif_console_buf' > 0 \/ KeyAnswered' \/ KeyQueued'
  BY DEF OnItsWay, KeyAnswered, KeyQueued, KeyAt
<1>f. fromhost' = fromhost /\ tohost' = Zero /\ typed' = typed /\ wrote' = wrote /\ wrote \in Nat
  BY <1>0 DEF HostTakes, HtifTypeOK
<1>c. /\ tohost = Exit \/ (tohost = SysWrite(wrote - 1) /\ wrote > 0 /\ htif_pc = "fromhost") \/ tohost = Asks \/ tohost = Writes(Len(printed))
      /\ tohost = Exit => htif_pc = "off"
  <2>1. Left \in Int /\ (tohost = Writes(Left - 1) /\ Len(printed) = Left - 1 => tohost = Writes(Len(printed)))
    BY <1>f DEF Left
  <2>2. tohost # Zero
    BY DEF HostTakes
  <2>3. CASE htif_pc = "off"
    <3>1. tohost = Exit
      BY ONLY <1>0, <2>2, <2>3, Zenon DEF PrintInv
    <3> QED BY ONLY <2>3, <3>1, Zenon
  <2>4. CASE htif_pc = "fromhost"
    BY <1>0, <1>f, <2>2, <2>4 DEF PrintInv, CommandInv
  <2>5. CASE htif_pc \notin {"off", "fromhost"}
    BY <1>0, <1>f, <2>1, <2>2, <2>5 DEF PrintInv
  <2> QED BY <2>3, <2>4, <2>5
<1>d. /\ answers' \in Seq(HtifWords)
      /\ \/ answers' = answers
         \/ /\ DOMAIN answers' = DOMAIN answers \cup {Len(answers) + 1}
            /\ Len(answers) + 1 \notin DOMAIN answers
            /\ answers'[Len(answers) + 1] = IF tohost.dev = 0 THEN Done ELSE Written
            /\ \A i \in DOMAIN answers : answers'[i] = answers[i]
            /\ tohost.dev = 0 => htif_pc = "fromhost" /\ tohost = SysWrite(wrote - 1)
      /\ KeyQueued' <=> KeyQueued
  <2>1. answers' = answers \/ \E w \in {Done, Written} : answers' = Append(answers, w) /\ (w = Done <=> tohost.dev = 0) /\ tohost # Exit
    BY DEF HostTakes
  <2>2. CASE answers' = answers
    BY <1>0, <2>2, Unsent DEF HtifTypeOK
  <2>3. CASE \E w \in {Done, Written} : answers' = Append(answers, w) /\ (w = Done <=> tohost.dev = 0) /\ tohost # Exit
    <3>1. PICK w \in {Done, Written} : answers' = Append(answers, w) /\ (w = Done <=> tohost.dev = 0) /\ tohost # Exit
      BY <2>3
    <3>2. w \in HtifWords /\ ~IsKey(w) /\ w = (IF tohost.dev = 0 THEN Done ELSE Written)
      BY <3>1 DEF HtifWords, IsKey
    <3>3. tohost.dev = 0 => htif_pc = "fromhost" /\ tohost = SysWrite(wrote - 1)
      BY <1>c, <3>1
    <3> QED BY <1>0, <3>1, <3>2, <3>3, Sent DEF HtifTypeOK
  <2> QED BY <2>1, <2>2, <2>3
<1>1. HtifTypeOK'
  <2>1. printed' \in Seq(Nat)
    <3>1. tohost.dev = 0 /\ tohost # Exit => (tohost.data - 2) \div 2 \in Nat
      BY <1>0, <1>c, <1>f
    <3>2. printed' \in {printed, Append(printed, tohost.data)} \/ (tohost.dev = 0 /\ tohost # Exit /\ printed' = Append(printed, (tohost.data - 2) \div 2))
      BY DEF HostTakes
    <3>3. tohost.data \in Nat /\ printed \in Seq(Nat)
      BY <1>0 DEF HtifTypeOK, HtifWords
    <3>4. CASE printed' = printed
      BY <3>3, <3>4
    <3>5. CASE printed' = Append(printed, tohost.data)
      BY ONLY <3>3, <3>5
    <3>6. CASE tohost.dev = 0 /\ tohost # Exit /\ printed' = Append(printed, (tohost.data - 2) \div 2)
      BY <3>1, <3>3, <3>6
    <3> QED BY ONLY <3>2, <3>4, <3>5, <3>6, Zenon
  <2>2. tohost' \in HtifWords
    BY <1>f DEF HtifWords
  <2>3. wanted' \in BOOLEAN /\ exited' \in BOOLEAN
    BY <1>0, Zenon DEF HostTakes, HtifTypeOK
  <2> QED BY <1>0, <1>b, <1>d, <1>f, <2>1, <2>2, <2>3, Zenon DEF HtifTypeOK, programVars
<1>2. (htif_pc # "assert")'
  BY <1>0 DEF HostTakes
<1>3. CommandInv'
  BY <1>0 DEF HostTakes, CommandInv
<1>4. PrintInv'
  <2>1. Len(printed) \in Nat /\ printed \in Seq(Nat)
    BY <1>0 DEF HtifTypeOK
  <2>2. CASE tohost = Exit \/ tohost = Asks
    BY <1>0, <1>b, <1>c, <1>f, <2>2 DEF HostTakes, PrintInv, Left
  <2>3. CASE tohost = SysWrite(wrote - 1) /\ wrote > 0 /\ htif_pc = "fromhost"
    <3>1. printed' = Append(printed, wrote - 1) /\ Len(printed) = wrote - 1
      <4>1. (2 * (wrote - 1) + 2 - 2) \div 2 = wrote - 1
        BY <1>f
      <4>2. tohost.data = 2 * (wrote - 1) + 2 /\ tohost # Exit /\ tohost.dev = 0 /\ tohost # Asks
        BY <1>f, <2>3
      <4>3. printed' = Append(printed, (tohost.data - 2) \div 2)
        BY <4>2 DEF HostTakes
      <4>4. Len(printed) = wrote - 1
        BY <1>0, <1>f, <2>3 DEF PrintInv
      <4> QED BY <4>1, <4>2, <4>3, <4>4
    <3>2. Counted(printed') /\ Len(printed') = wrote
      BY <1>0, <1>f, <2>1, <3>1 DEF Counted, PrintInv
    <3> QED BY <1>b, <1>f, <2>3, <3>2 DEF PrintInv
  <2>4. CASE tohost = Writes(Len(printed))
    <3>1. printed' = Append(printed, Len(printed))
      BY <2>4 DEF HostTakes
    <3>2. Counted(printed') /\ Len(printed') = Len(printed) + 1
      BY <1>0, <2>1, <3>1 DEF Counted, PrintInv
    <3>3. htif_pc # "fromhost" /\ htif_pc # "off"
      BY <1>0, <2>4 DEF PrintInv
    <3>4. Left = Left' /\ Left \in Int
      BY <1>b, <1>f DEF Left
    <3>5. Len(printed) = Left - 1
      BY <1>0, <2>4, <3>3 DEF PrintInv
    <3>9. PICK l \in Int : l = Left
      BY ONLY <3>4, Zenon
    <3>10. Len(printed) = l - 1 /\ Len(printed') = Len(printed) + 1
      BY ONLY <3>2, <3>5, <3>9, Zenon
    <3>11. Len(printed') = l
      BY ONLY <3>10, <2>1
    <3>8. Len(printed') = Left
      BY ONLY <3>9, <3>11, Zenon
    <3>7. Len(printed') = Left'
      BY ONLY <3>4, <3>8, Zenon
    <3>6. htif_pc' = htif_pc /\ tohost' = Zero /\ Len(printed') = Left'
      BY <1>b, <1>f, <3>7, Zenon
    <3> QED BY ONLY <3>2, <3>3, <3>6, Zenon DEF PrintInv
  <2> QED BY <1>c, <2>2, <2>3, <2>4
<1>5. DoneInv'
  <2>1. ~SystemCall(wrote - 1)' \/ wrote = 0
    BY <1>f DEF SystemCall
  <2>2. wrote = 0 => htif_pc # "fromhost"
    BY <1>0 DEF CommandInv
  <2>3. CASE answers' = answers
    BY <1>0, <1>b, <1>f, <2>1, <2>2, <2>3 DEF DoneInv, DoneAt
  <2>4. CASE answers' # answers
    <3>1. CASE tohost.dev = 0
      <4>1. htif_pc = "fromhost" /\ tohost = SysWrite(wrote - 1)
        BY <1>d, <2>4, <3>1
      <4>2. fromhost # Done /\ \A i \in DOMAIN answers : ~DoneAt(i)
        BY <1>0, <4>1 DEF DoneInv, SystemCall
      <4> QED BY <1>b, <1>d, <1>f, <2>1, <2>2, <2>4, <4>1, <4>2 DEF DoneInv, DoneAt
    <3>2. CASE tohost.dev # 0
      BY <1>0, <1>b, <1>d, <1>f, <2>1, <2>2, <2>4, <3>2 DEF DoneInv, DoneAt
    <3> QED BY <3>1, <3>2
  <2> QED BY <2>3, <2>4
<1>6. AnswerInv'
  BY <1>0, <1>d, <1>f DEF AnswerInv, KeyAt, KeyAnswered
<1>7. Counted(returned)'
  BY <1>0 DEF HostTakes
<1>8. ASSUME htif_pc' # "off" PROVE PlaceInv'
  <2>0. PlaceInv /\ htif_pc # "off"
    BY <1>a, <1>8 DEF HostTakes
  <2>1. (Asking' <=> Asking) /\ (KeyAnswered' <=> KeyAnswered) /\ ~Asked' /\ htif_console_buf' = htif_console_buf
    BY <1>f DEF HostTakes, Asking, Asked, KeyAnswered
  <2>2. wanted' = wanted \/ (Asked /\ wanted')
    BY DEF HostTakes, Asked
  <2>3. \A i, j \in DOMAIN answers' : KeyAt(i)' /\ KeyAt(j)' => i = j
    BY <1>d, <2>0 DEF PlaceInv, KeyAt, IsKey
  <2> QED BY <1>d, <2>0, <2>1, <2>2, <2>3 DEF PlaceInv
<1>9. ASSUME htif_pc' # "off" PROVE TypedInv'
  <2>0. TypedInv /\ htif_pc # "off"
    BY <1>a, <1>9 DEF HostTakes
  <2>1. OnItsWay' <=> OnItsWay
    BY <1>b, <1>d, <1>e, <1>f DEF programVars, KeyAnswered
  <2>2. \A i \in DOMAIN answers' : KeyAt(i)' => answers'[i].data = typed - 1
    BY <2>0, <1>d DEF TypedInv, KeyAt, IsKey
  <2> QED BY <2>0, <2>1, <2>2, <1>f, <1>7 DEF HostTakes, TypedInv, KeyAnswered
<1> QED BY <1>1, <1>2, <1>3, <1>4, <1>5, <1>6, <1>7, <1>8, <1>9 DEF HtifInv

LEMMA HostTypesStep == ASSUME HtifInv, HostTypes PROVE HtifInv'
<1> USE CharsAssumption DEF TOHOST_CMD, Zero, Asks, Writes, Written, Key, SysWrite, Done, Exit, programVars, hostVars, check_fromhost, set_tohost
<1>0. HtifTypeOK /\ htif_pc # "assert" /\ CommandInv /\ PrintInv /\ DoneInv /\ AnswerInv /\ Counted(returned)
  BY DEF HtifInv
<1>a. htif_pc # "off" => PlaceInv /\ TypedInv
  BY DEF HtifInv
<1>b. UNCHANGED <<xlen, programVars>>
  BY DEF HostTypes
<1>e. /\ OnItsWay <=> htif_console_buf > 0 \/ KeyAnswered \/ KeyQueued
      /\ OnItsWay' <=> htif_console_buf' > 0 \/ KeyAnswered' \/ KeyQueued'
  BY DEF OnItsWay, KeyAnswered, KeyQueued, KeyAt
<1>c. Key(typed) \in HtifWords /\ answers' = Append(answers, Key(typed))
  BY <1>0 DEF HostTypes, HtifTypeOK, HtifWords
<1>d. /\ answers' \in Seq(HtifWords) /\ DOMAIN answers' = DOMAIN answers \cup {Len(answers) + 1}
      /\ Len(answers) + 1 \notin DOMAIN answers /\ answers'[Len(answers) + 1] = Key(typed)
      /\ \A i \in DOMAIN answers : answers'[i] = answers[i]
      /\ KeyQueued' <=> KeyQueued \/ IsKey(Key(typed))
  BY <1>0, <1>c, Sent DEF HtifTypeOK
<1>f. htif_pc # "off" => ~KeyQueued /\ ~KeyAnswered /\ ~Asking /\ ~Asked /\ htif_console_buf = -1
  BY <1>a DEF HostTypes, PlaceInv
<1>1. HtifTypeOK'
  <2>1. answers' \in Seq(HtifWords) /\ typed' \in Nat
    BY <1>0, <1>d DEF HostTypes, HtifTypeOK
  <2>2. wanted' \in BOOLEAN
    BY Zenon DEF HostTypes
  <2> QED BY <1>0, <2>1, <2>2, Zenon DEF HostTypes, HtifTypeOK
<1>2. (htif_pc # "assert")'
  BY <1>0 DEF HostTypes
<1>3. CommandInv'
  BY <1>0 DEF HostTypes, CommandInv
<1>4. PrintInv'
  BY <1>0 DEF HostTypes, PrintInv, Left
<1>5. DoneInv'
  BY <1>0, <1>d DEF HostTypes, DoneInv, DoneAt, SystemCall
<1>6. AnswerInv'
  BY <1>0, <1>d DEF HostTypes, AnswerInv, KeyAt, KeyAnswered, IsKey
<1>7. Counted(returned)'
  BY <1>0 DEF HostTypes
<1>8. ASSUME htif_pc' # "off" PROVE PlaceInv'
  BY <1>d, <1>f, <1>8 DEF HostTypes, PlaceInv, KeyQueued, KeyAt, KeyAnswered, Asking, Asked
<1>9. ASSUME htif_pc' # "off" PROVE TypedInv'
  BY <1>0, <1>a, <1>d, <1>e, <1>f, <1>9
     DEF HostTypes, HtifTypeOK, HtifWords, TypedInv, KeyQueued, KeyAt, KeyAnswered, IsKey
<1> QED BY <1>1, <1>2, <1>3, <1>4, <1>5, <1>6, <1>7, <1>8, <1>9 DEF HtifInv

LEMMA HostAnswersStep == ASSUME HtifInv, HostAnswers PROVE HtifInv'
<1> USE CharsAssumption DEF TOHOST_CMD, Zero, Asks, Writes, Written, Key, SysWrite, Done, Exit, programVars, hostVars, check_fromhost, set_tohost
<1>0. HtifTypeOK /\ htif_pc # "assert" /\ CommandInv /\ PrintInv /\ DoneInv /\ AnswerInv /\ Counted(returned)
  BY DEF HtifInv
<1>a. htif_pc # "off" => PlaceInv /\ TypedInv
  BY DEF HtifInv
<1>b. UNCHANGED <<xlen, programVars>>
  BY DEF HostAnswers
<1>e. /\ OnItsWay <=> htif_console_buf > 0 \/ KeyAnswered \/ KeyQueued
      /\ OnItsWay' <=> htif_console_buf' > 0 \/ KeyAnswered' \/ KeyQueued'
  BY DEF OnItsWay, KeyAnswered, KeyQueued, KeyAt
<1>d. /\ answers' \in Seq(HtifWords) /\ 1 \in DOMAIN answers /\ answers[1] = fromhost'
      /\ fromhost' \in HtifWords
      /\ \A i \in DOMAIN answers' : i + 1 \in DOMAIN answers /\ answers'[i] = answers[i + 1]
      /\ \A i \in DOMAIN answers' : i \in Nat \ {0}
  BY <1>0, Received DEF HostAnswers, HtifTypeOK
<1>f. ~KeyAnswered /\ fromhost # Done
  BY DEF HostAnswers, KeyAnswered, IsKey
<1>g. /\ KeyAnswered' <=> KeyAt(1)
      /\ KeyQueued' => KeyQueued
      /\ KeyAnswered' => KeyQueued
  BY <1>d DEF KeyAnswered, KeyQueued, KeyAt, IsKey
<1>h. KeyQueued => KeyAnswered' \/ KeyQueued'
  <2>1. SUFFICES ASSUME NEW i \in DOMAIN answers, KeyAt(i) PROVE KeyAnswered' \/ KeyQueued'
    BY DEF KeyQueued
  <2>2. CASE i = 1
    BY <2>1, <2>2, <1>g
  <2>3. CASE i # 1
    <3>1. i - 1 \in DOMAIN answers' /\ answers'[i - 1] = answers[i]
      BY <1>0, <2>3 DEF HostAnswers, HtifTypeOK
    <3> QED BY <2>1, <3>1 DEF KeyQueued, KeyAt
  <2> QED BY <2>2, <2>3
<1>1. HtifTypeOK'
  BY <1>0, <1>d DEF HostAnswers, HtifTypeOK, HtifWords
<1>2. (htif_pc # "assert")'
  BY <1>0 DEF HostAnswers
<1>3. CommandInv'
  BY <1>0 DEF HostAnswers, CommandInv
<1>4. PrintInv'
  BY <1>0 DEF HostAnswers, PrintInv, Left
<1>5. DoneInv'
  <2>1. ASSUME fromhost' = Done, NEW i \in DOMAIN answers' PROVE ~DoneAt(i)'
    <3>1. i + 1 \in DOMAIN answers /\ i + 1 # 1 /\ answers'[i] = answers[i + 1] /\ DoneAt(1)
      BY <1>d, <2>1 DEF DoneAt
    <3> QED BY <1>0, <1>d, <3>1 DEF DoneInv, DoneAt
  <2>2. ASSUME NEW i \in DOMAIN answers', NEW j \in DOMAIN answers', DoneAt(i)', DoneAt(j)' PROVE i = j
    <3>1. i + 1 = j + 1
      BY <1>0, <1>d, <2>2 DEF DoneInv, DoneAt
    <3> QED BY <3>1, <1>d
  <2>3. ASSUME NEW i \in DOMAIN answers', DoneAt(i)' PROVE \E k \in DOMAIN answers : DoneAt(k)
    BY <1>d, <2>3 DEF DoneAt
  <2>4. ASSUME fromhost' = Done PROVE DoneAt(1)
    BY <1>d, <2>4 DEF DoneAt
  <2> QED BY <1>0, <1>d, <2>1, <2>2, <2>3, <2>4 DEF HostAnswers, DoneInv, SystemCall
<1>6. AnswerInv'
  BY <1>0, <1>d DEF HostAnswers, AnswerInv, KeyAt, KeyAnswered, IsKey
<1>7. Counted(returned)'
  BY <1>0 DEF HostAnswers
<1>8. ASSUME htif_pc' # "off" PROVE PlaceInv'
  <2>0. PlaceInv /\ htif_pc # "off"
    BY <1>a, <1>8 DEF HostAnswers
  <2>1. ASSUME KeyAnswered', NEW i \in DOMAIN answers' PROVE ~KeyAt(i)'
    <3>1. i + 1 \in DOMAIN answers /\ i + 1 # 1 /\ answers'[i] = answers[i + 1] /\ KeyAt(1)
      BY <1>d, <1>g, <2>1
    <3> QED BY <2>0, <1>d, <3>1 DEF PlaceInv, KeyAt
  <2>2. ASSUME NEW i \in DOMAIN answers', NEW j \in DOMAIN answers', KeyAt(i)', KeyAt(j)' PROVE i = j
    <3>1. i + 1 = j + 1
      BY <2>0, <1>d, <2>2 DEF PlaceInv, KeyAt
    <3> QED BY <3>1, <1>d
  <2>3. KeyAnswered' => ~KeyQueued'
    BY <2>1 DEF KeyQueued
  <2>4. (Asking' <=> Asking) /\ (Asked' <=> Asked)
    BY DEF HostAnswers, Asking, Asked
  <2> QED BY <2>0, <1>g, <2>2, <2>3, <2>4 DEF HostAnswers, PlaceInv
<1>9. ASSUME htif_pc' # "off" PROVE TypedInv'
  <2>0. TypedInv /\ htif_pc # "off"
    BY <1>a, <1>9 DEF HostAnswers
  <2>1. OnItsWay' <=> OnItsWay
    BY <1>b, <1>e, <1>f, <1>g, <1>h DEF programVars
  <2>2. KeyAnswered' => fromhost'.data = typed - 1
    BY <2>0, <1>d, <1>g DEF TypedInv
  <2>3. \A i \in DOMAIN answers' : KeyAt(i)' => answers'[i].data = typed - 1
    BY <2>0, <1>d DEF TypedInv, KeyAt
  <2> QED BY <2>0, <2>1, <2>2, <2>3, <1>7 DEF HostAnswers, TypedInv
<1> QED BY <1>1, <1>2, <1>3, <1>4, <1>5, <1>6, <1>7, <1>8, <1>9 DEF HtifInv

LEMMA HtifInitInv == InitHtif => HtifInv
<1> SUFFICES ASSUME InitHtif PROVE HtifInv
  OBVIOUS
<1> USE DEF InitHtif, TOHOST_CMD, Zero, Asks, Writes, Written, Key, SysWrite, Done, Exit
<1>1. HtifTypeOK /\ htif_pc # "assert"
  <2>1. call \in BOOLEAN /\ wanted \in BOOLEAN /\ exited \in BOOLEAN
    BY Zenon
  <2>2. cmd \in HtifWords /\ tohost \in HtifWords /\ fromhost \in HtifWords
    BY DEF HtifWords
  <2> QED BY <2>1, <2>2 DEF HtifTypeOK
<1>2. DOMAIN answers = {} /\ ~KeyQueued /\ ~KeyAnswered /\ ~Asking /\ ~Asked
  BY DEF KeyQueued, KeyAnswered, IsKey, Asking, Asked
<1>3. CommandInv /\ AnswerInv /\ DoneInv
  BY <1>2 DEF CommandInv, AnswerInv, DoneInv, SystemCall
<1>4. PrintInv /\ Counted(returned)
  BY DEF PrintInv, Left, Counted
<1>5. PlaceInv
  BY <1>2 DEF PlaceInv
<1>6. ~OnItsWay
  BY <1>2 DEF OnItsWay, IsKey
<1>7. TypedInv
  BY <1>2, <1>4, <1>6 DEF TypedInv
<1> QED BY <1>1, <1>3, <1>4, <1>5, <1>7 DEF HtifInv

LEMMA HtifStep == HtifInv /\ [HtifNext]_htifVars => HtifInv'
<1>1. ASSUME HtifInv, UNCHANGED htifVars PROVE HtifInv'
  BY <1>1 DEF htifVars, programVars, hostVars, HtifInv, HtifTypeOK, CommandInv, PrintInv, DoneInv, AnswerInv,
              PlaceInv, TypedInv, SystemCall, DoneAt, KeyAt, Asking, Asked, KeyAnswered, KeyQueued, Left,
              OnItsWay, Counted
<1> QED BY <1>1, WaitTohostStep, SetTohostStep, htif_console_getcharStep, htif_console_putcharStep, htif_syscallStep,
           do_tohost_fromhostStep, htif_poweroffStep, HostTakesStep, HostTypesStep, HostAnswersStep DEF HtifNext

LEMMA HtifInvExact == HtifInv => HtifExact
<1> SUFFICES ASSUME HtifInv PROVE HtifExact
  OBVIOUS
<1>1. Counted(printed) /\ Counted(returned) /\ htif_pc # "assert"
  BY DEF HtifInv, PrintInv
<1>2. htif_pc \in {"idle", "off"} => Len(printed) >= wrote - (IF xlen = 32 THEN 0 ELSE 1)
  <2>1. PrintInv /\ wrote \in Nat /\ Len(printed) \in Nat /\ (xlen = 64 => xlen # 32)
    BY DEF HtifInv, HtifTypeOK
  <2> QED BY <2>1 DEF PrintInv, Left
<1>3. htif_pc # "off" => typed = Len(returned) + (IF OnItsWay THEN 1 ELSE 0)
  BY DEF HtifInv, TypedInv
<1> QED BY <1>1, <1>2, <1>3 DEF HtifExact

(* Characters and keys pass through the two words of memory as they are to *)
(* (htif.c): none is lost, doubled or out of order, whatever the number of *)
(* them and however the host takes its time.                               *)
THEOREM HtifKeepsOrder == HtifSpec => []HtifExact
<1>1. HtifSpec => []HtifInv
  BY HtifInitInv, HtifStep, PTL DEF HtifSpec
<1> QED BY <1>1, HtifInvExact, PTL

(***************************************************************************)
(* The data port of the emulated picture unit, for every number of         *)
(* accesses, address and byte. A unit is a record of PpuRecords; the sets  *)
(* of its fixed registers have names so that the provers need not look     *)
(* into them.                                                              *)
(***************************************************************************)
Octets == 0..255
AnyFunction == UNION {[S -> Octets] : S \in SUBSET Int}
Zeros == {0}
Trues == {TRUE}
Nothings == {<<>>}
Mirrorings == {1024, 2048}
Units(Readiness) ==
  [PPUCTRL : 0..255, PPUMASK : Zeros, PPUSTATUS : Int, OAMADDR : Zeros, PPUSCROLL_X : Zeros, PPUSCROLL_Y : Zeros,
   PPUADDR : Nat, scroll_received_x : BOOLEAN, addr_received_high_byte : BOOLEAN, addr_latch : 0..255,
   first_read : BOOLEAN, ready : Readiness, mirroring_xor : Mirrorings, scanline : Zeros,
   sprite_hit : BOOLEAN, ram : AnyFunction, spr : Nothings]
PpuRecords == Units(Trues)

LEMMA PutFun ==
  ASSUME NEW f \in AnyFunction, NEW a \in Int, NEW v \in Octets
  PROVE  /\ Put(f, a, v) \in AnyFunction
         /\ DOMAIN Put(f, a, v) = DOMAIN f \cup {a}
         /\ Put(f, a, v)[a] = v
         /\ \A b \in DOMAIN f : b # a => Put(f, a, v)[b] = f[b]
<1>1. PICK S \in SUBSET Int : f \in [S -> Octets]
  BY DEF AnyFunction
<1>2. Put(f, a, v) = [x \in S \cup {a} |-> IF x = a THEN v ELSE f[x]]
  BY <1>1 DEF Put
<1>3. {a} \cup S \in SUBSET Int /\ Put(f, a, v) \in [{a} \cup S -> Octets]
  BY <1>1, <1>2
<1>4. Put(f, a, v) \in AnyFunction
  BY <1>3 DEF AnyFunction
<1> QED
  BY <1>1, <1>2, <1>4

LEMMA PutIn ==
  ASSUME NEW f \in AnyFunction, NEW a \in Int, NEW v \in Octets
  PROVE  Put(f, a, v) \in AnyFunction
  BY PutFun

LEMMA PutAt ==
  ASSUME NEW f \in AnyFunction, NEW a \in Int, NEW v \in Octets
  PROVE  a \in DOMAIN Put(f, a, v) /\ Put(f, a, v)[a] = v
<1>1. DOMAIN Put(f, a, v) = DOMAIN f \cup {a}
  BY PutFun
<1>2. Put(f, a, v)[a] = v
  BY PutFun
<1> QED
  BY <1>1, <1>2

LEMMA MirrorIs ==
  ASSUME NEW a \in Nametables, NEW x \in {1024, 2048}
  PROVE  /\ a + x * (1 - 2 * ((a \div x) % 2)) = 2 * x * (a \div (2 * x)) + ((a + x) % (2 * x))
         /\ a + x * (1 - 2 * ((a \div x) % 2)) \in Nametables
<1>1. CASE x = 1024
  <2>1. PICK q \in 8..11 : 1024 * q <= a /\ a < 1024 * q + 1024
    BY DEF Nametables
  <2>2. a \div 1024 = q
    BY <2>1 DEF Nametables
  <2>3. CASE q \in {8, 10}
    <3>1. q % 2 = 0 /\ a \div 2048 = q \div 2 /\ (a + 1024) % 2048 = a + 1024 - 1024 * q
      BY <2>1, <2>3 DEF Nametables
    <3> QED
      BY <1>1, <2>1, <2>2, <2>3, <3>1 DEF Nametables
  <2>4. CASE q \in {9, 11}
    <3>1. q % 2 = 1 /\ a \div 2048 = (q - 1) \div 2 /\ (a + 1024) % 2048 = a - 1024 * q
      BY <2>1, <2>4 DEF Nametables
    <3> QED
      BY <1>1, <2>1, <2>2, <2>4, <3>1 DEF Nametables
  <2> QED
    BY <2>1, <2>3, <2>4
<1>2. CASE x = 2048
  <2>1. PICK q \in 4..5 : 2048 * q <= a /\ a < 2048 * q + 2048
    BY DEF Nametables
  <2>2. a \div 2048 = q
    BY <2>1 DEF Nametables
  <2>3. a \div 4096 = 2 /\ (a + 2048) % 4096 = IF q = 4 THEN a - 6144 - 0 ELSE a - 10240
    BY <2>1 DEF Nametables
  <2>4. 2 * x = 4096 /\ q % 2 = IF q = 4 THEN 0 ELSE 1
    BY <1>2, <2>1
  <2>5. a + x * (1 - 2 * ((a \div x) % 2)) = IF q = 4 THEN a + 2048 ELSE a - 2048
    BY <1>2, <2>1, <2>2, <2>4 DEF Nametables
  <2>6. 2 * x * (a \div (2 * x)) + ((a + x) % (2 * x)) = IF q = 4 THEN a + 2048 ELSE a - 2048
    BY <1>2, <2>1, <2>3, <2>4 DEF Nametables
  <2> QED
    BY <2>1, <2>5, <2>6 DEF Nametables
<1> QED
  BY <1>1, <1>2

LEMMA RealAddress ==
  ASSUME NEW a \in Int
  PROVE  /\ a < 16128 => ppu_get_real_ram_address(a) = a
         /\ ppu_get_real_ram_address(a) >= 16128 <=> a >= 16128
         /\ ppu_get_real_ram_address(a) \in Int
         /\ ppu_get_real_ram_address(ppu_get_real_ram_address(a)) = ppu_get_real_ram_address(a)
  BY DEF ppu_get_real_ram_address

(* What each access makes of the unit.                                     *)
LEMMA IsReady ==
  ASSUME NEW q \in PpuRecords
  PROVE  q.ready
<1>1. q.ready \in Trues
  BY DEF PpuRecords, Units
<1> QED
  BY <1>1, Zenon DEF Trues

(* One register at a time.                                                 *)
LEMMA SetStatus == ASSUME NEW m \in PpuRecords, NEW v \in Int
  PROVE  [m EXCEPT !.PPUSTATUS = v] \in PpuRecords
  BY DEF PpuRecords, Units

LEMMA SetAddress == ASSUME NEW m \in PpuRecords, NEW v \in Nat
  PROVE  [m EXCEPT !.PPUADDR = v] \in PpuRecords
  BY DEF PpuRecords, Units

LEMMA SetLatch == ASSUME NEW m \in PpuRecords, NEW v \in 0..255
  PROVE  [m EXCEPT !.addr_latch = v] \in PpuRecords
  BY DEF PpuRecords, Units

LEMMA SetReceived == ASSUME NEW m \in PpuRecords, NEW v \in BOOLEAN
  PROVE  [m EXCEPT !.addr_received_high_byte = v] \in PpuRecords
  BY DEF PpuRecords, Units

LEMMA SetFirst == ASSUME NEW m \in PpuRecords, NEW v \in BOOLEAN
  PROVE  [m EXCEPT !.first_read = v] \in PpuRecords
  BY DEF PpuRecords, Units

LEMMA SetX == ASSUME NEW m \in PpuRecords, NEW v \in BOOLEAN
  PROVE  [m EXCEPT !.scroll_received_x = v] \in PpuRecords
  BY DEF PpuRecords, Units

LEMMA SetControl == ASSUME NEW m \in PpuRecords, NEW v \in 0..255
  PROVE  [m EXCEPT !.PPUCTRL = v] \in PpuRecords
  BY DEF PpuRecords, Units

LEMMA SetRam == ASSUME NEW m \in PpuRecords, NEW v \in AnyFunction
  PROVE  [m EXCEPT !.ram = v] \in PpuRecords
  BY DEF PpuRecords, Units

LEMMA NoFlag == TRUE \in BOOLEAN /\ FALSE \in BOOLEAN
  OBVIOUS

LEMMA MaskedOK ==
  ASSUME NEW q \in PpuRecords
  PROVE  /\ Masked(q) \in PpuRecords
         /\ Masked(q).PPUCTRL = q.PPUCTRL /\ Masked(q).ram = q.ram
         /\ Masked(q).mirroring_xor = q.mirroring_xor
         /\ Masked(q).addr_latch = q.addr_latch
<1>1. Masked(q) = [q EXCEPT !.PPUADDR = q.PPUADDR % 16384]
  BY DEF Masked
<1>4. Masked(q) \in PpuRecords
  BY <1>1 DEF PpuRecords, Units
<1>6. /\ Masked(q).PPUCTRL = q.PPUCTRL /\ Masked(q).ram = q.ram
      /\ Masked(q).mirroring_xor = q.mirroring_xor /\ Masked(q).addr_latch = q.addr_latch
  BY <1>1 DEF PpuRecords, Units
<1> QED
  BY <1>4, <1>6

LEMMA MaskedAddress ==
  ASSUME NEW q \in PpuRecords
  PROVE  /\ Masked(q).PPUADDR = q.PPUADDR % 16384
         /\ Masked(q).PPUADDR \in Nat /\ Masked(q).PPUADDR < 16384
         /\ Masked(q).PPUADDR % 16384 = Masked(q).PPUADDR
<1>1. Masked(q) = [q EXCEPT !.PPUADDR = q.PPUADDR % 16384]
  BY DEF Masked
<1>2. q.PPUADDR % 16384 \in Nat /\ q.PPUADDR % 16384 < 16384
  BY DEF PpuRecords, Units
<1>3. (q.PPUADDR % 16384) % 16384 = q.PPUADDR % 16384
  BY <1>2
<1>4. Masked(q).PPUADDR = q.PPUADDR % 16384
  BY <1>1 DEF PpuRecords, Units
<1> QED
  BY <1>2, <1>3, <1>4

LEMMA MaskedFlags ==
  ASSUME NEW q \in PpuRecords
  PROVE  /\ Masked(q).first_read = q.first_read
         /\ Masked(q).addr_received_high_byte = q.addr_received_high_byte
<1>1. Masked(q) = [q EXCEPT !.PPUADDR = q.PPUADDR % 16384]
  BY DEF Masked
<1> QED
  BY <1>1 DEF PpuRecords, Units

(* What an access leaves: the address, the control register, the memory.   *)
Leaves(r, address, control, memory) ==
  r.PPUADDR = address /\ r.PPUCTRL = control /\ r.ram = memory

LEMMA StatusRead ==
  ASSUME NEW q \in PpuRecords, NEW r, r = after_ppuio_read(q, STATUS)
  PROVE  /\ r \in PpuRecords /\ r.first_read = TRUE
         /\ Leaves(r, Masked(q).PPUADDR, q.PPUCTRL, q.ram)
<1>1. PICK m : m = Masked(q)
  OBVIOUS
<1>2. PICK seen : seen = common_modify_bitb(common_modify_bitb(m.PPUSTATUS, 7, FALSE), 6, FALSE)
  OBVIOUS
<1>3. seen \in Int
  <2>1. \A i \in Int : common_modify_bitb(i, 7, FALSE) \in Int /\ common_modify_bitb(i, 6, FALSE) \in Int
    BY DEF common_modify_bitb
  <2>2. m.PPUSTATUS \in Int
    <3>1. m \in PpuRecords
      BY <1>1, MaskedOK
    <3> QED
      BY <3>1 DEF PpuRecords, Units
  <2> QED
    BY <1>2, <2>1, <2>2
<1>4. r = [m EXCEPT !.PPUSTATUS = seen, !.scroll_received_x = FALSE,
                    !.addr_received_high_byte = FALSE, !.addr_latch = 0, !.first_read = TRUE]
  BY <1>1, <1>2 DEF after_ppuio_read, STATUS
<1>5. m \in PpuRecords
  BY <1>1, MaskedOK
<1>6. r \in PpuRecords
  <2>1. PICK a : a = [m EXCEPT !.PPUSTATUS = seen]
    OBVIOUS
  <2>2. PICK b : b = [a EXCEPT !.scroll_received_x = FALSE]
    OBVIOUS
  <2>3. PICK c : c = [b EXCEPT !.addr_received_high_byte = FALSE]
    OBVIOUS
  <2>4. PICK d : d = [c EXCEPT !.addr_latch = 0]
    OBVIOUS
  <2>5. r = [d EXCEPT !.first_read = TRUE]
    BY <1>4, <2>1, <2>2, <2>3, <2>4
  <2>6. a \in PpuRecords
    BY <1>3, <1>5, <2>1, SetStatus
  <2>7. b \in PpuRecords /\ c \in PpuRecords
    BY <2>2, <2>3, <2>6, NoFlag, SetX, SetReceived, Zenon
  <2>8. d \in PpuRecords
    <3>1. 0 \in 0..255
      OBVIOUS
    <3> QED
      BY <2>4, <2>7, <3>1, SetLatch, Zenon
  <2> QED
    BY <2>5, <2>8, NoFlag, SetFirst, Zenon
<1>7. /\ r.first_read = TRUE /\ r.PPUADDR = m.PPUADDR
      /\ r.PPUCTRL = m.PPUCTRL /\ r.ram = m.ram /\ r.mirroring_xor = m.mirroring_xor
  BY <1>4, <1>5 DEF PpuRecords, Units
<1> QED
  BY <1>1, <1>6, <1>7, MaskedOK DEF Leaves

LEMMA AddressRead ==
  ASSUME NEW q \in PpuRecords
  PROVE  after_ppuio_read(q, ADDRESS) = Masked(q)
  BY DEF after_ppuio_read, ADDRESS

LEMMA DataRead ==
  ASSUME NEW q \in PpuRecords, NEW r, r = after_ppuio_read(q, DATA)
  PROVE  /\ r \in PpuRecords /\ r.first_read = FALSE
         /\ r.PPUADDR = IF q.first_read THEN Masked(q).PPUADDR
                        ELSE Masked(q).PPUADDR + ppu_vram_address_increment(q)
         /\ r.PPUCTRL = q.PPUCTRL /\ r.ram = q.ram /\ r.mirroring_xor = q.mirroring_xor
<1>1. PICK m : m = Masked(q)
  OBVIOUS
<1>2. PICK inc : inc = ppu_vram_address_increment(m)
  OBVIOUS
<1>3. inc = ppu_vram_address_increment(q) /\ inc \in {1, 32}
  BY <1>1, <1>2, MaskedOK DEF ppu_vram_address_increment
<1>4. r = IF m.first_read THEN [m EXCEPT !.first_read = FALSE] ELSE [m EXCEPT !.PPUADDR = m.PPUADDR + inc]
  BY <1>1, <1>2 DEF after_ppuio_read, DATA
<1>5. m \in PpuRecords
  BY <1>1, MaskedOK
<1>6. CASE m.first_read
  <2>1. r = [m EXCEPT !.first_read = FALSE]
    BY <1>4, <1>6
  <2>2. /\ r \in PpuRecords /\ r.PPUADDR = m.PPUADDR /\ r.first_read = FALSE
        /\ r.PPUCTRL = m.PPUCTRL /\ r.ram = m.ram /\ r.mirroring_xor = m.mirroring_xor
    BY <1>5, <2>1 DEF PpuRecords, Units
  <2> QED
    BY <1>1, <1>6, <2>2, MaskedOK, MaskedFlags
<1>7. CASE ~m.first_read
  <2>1. r = [m EXCEPT !.PPUADDR = m.PPUADDR + inc]
    BY <1>4, <1>7
  <2>2. m.PPUADDR + inc \in Nat
    BY <1>1, <1>3, MaskedAddress
  <2>3. r \in PpuRecords
    BY <1>5, <2>1, <2>2 DEF PpuRecords, Units
  <2>4. r.first_read = m.first_read /\ m.first_read \in BOOLEAN
    BY <1>5, <2>1 DEF PpuRecords, Units
  <2>5. /\ r.PPUADDR = m.PPUADDR + inc
        /\ r.PPUCTRL = m.PPUCTRL /\ r.ram = m.ram /\ r.mirroring_xor = m.mirroring_xor
    BY <1>5, <2>1 DEF PpuRecords, Units
  <2> QED
    BY <1>1, <1>3, <1>7, <2>3, <2>4, <2>5, MaskedOK, MaskedFlags
<1> QED
  BY <1>6, <1>7

LEMMA ControlWritten ==
  ASSUME NEW q \in PpuRecords, NEW c \in Octets, NEW r, r = ppuio_write(q, 8192, c)
  PROVE  /\ r \in PpuRecords
         /\ Leaves(r, Masked(q).PPUADDR, c, q.ram)
<1>1. PICK m : m = Masked(q)
  OBVIOUS
<1>2. m \in PpuRecords
  BY <1>1, MaskedOK
<1>3. r = [m EXCEPT !.PPUCTRL = c]
  <2>1. m.ready
    BY <1>2, IsReady
  <2> QED
    BY <1>1, <2>1 DEF ppuio_write
<1>5. /\ r \in PpuRecords /\ r.PPUCTRL = c /\ r.PPUADDR = m.PPUADDR
      /\ r.ram = m.ram /\ r.mirroring_xor = m.mirroring_xor
  BY <1>2, <1>3 DEF PpuRecords, Units, Octets
<1> QED
  BY <1>1, <1>5, MaskedOK DEF Leaves

LEMMA ControlFlag ==
  ASSUME NEW q \in PpuRecords, NEW c \in Octets, NEW r, r = ppuio_write(q, 8192, c)
  PROVE  r.first_read = q.first_read
<1>1. PICK m : m = Masked(q)
  OBVIOUS
<1>2. m \in PpuRecords
  BY <1>1, MaskedOK
<1>3. r = [m EXCEPT !.PPUCTRL = c]
  <2>1. m.ready
    BY <1>2, IsReady
  <2> QED
    BY <1>1, <2>1 DEF ppuio_write
<1>4. r.first_read = m.first_read
  BY <1>2, <1>3 DEF PpuRecords, Units
<1> QED
  BY <1>1, <1>4, MaskedFlags

LEMMA HighWritten ==
  ASSUME NEW q \in PpuRecords, NEW h \in 0..255, ~q.addr_received_high_byte,
         NEW r, r = ppuio_write(after_ppuio_read(q, ADDRESS), ADDRESS, h)
  PROVE  /\ r \in PpuRecords /\ r.first_read = TRUE
         /\ Leaves(r, Masked(q).PPUADDR, q.PPUCTRL, q.ram)
<1>1. PICK p : p = Masked(q)
  OBVIOUS
<1>2. PICK m : m = Masked(p)
  OBVIOUS
<1>3. p \in PpuRecords /\ m \in PpuRecords
  BY <1>1, <1>2, MaskedOK
<1>4. ~m.addr_received_high_byte
  BY <1>1, <1>2, <1>3, MaskedFlags
<1>5. /\ m.PPUADDR = p.PPUADDR /\ m.PPUCTRL = q.PPUCTRL
      /\ m.ram = q.ram /\ m.mirroring_xor = q.mirroring_xor
  BY <1>1, <1>2, <1>3, MaskedOK, MaskedAddress
<1>6. r = [m EXCEPT !.addr_latch = h, !.addr_received_high_byte = TRUE, !.first_read = TRUE]
  <2>1. r = ppuio_write(p, ADDRESS, h)
    BY <1>1, AddressRead
  <2>2. m.ready
    BY <1>3, IsReady
  <2> QED
    BY <1>2, <1>4, <2>1, <2>2 DEF ppuio_write, ADDRESS
<1>7. /\ r \in PpuRecords /\ r.first_read = TRUE /\ r.PPUADDR = m.PPUADDR
      /\ r.PPUCTRL = m.PPUCTRL /\ r.ram = m.ram /\ r.mirroring_xor = m.mirroring_xor
  BY <1>3, <1>6 DEF PpuRecords, Units
<1> QED
  BY <1>1, <1>5, <1>7 DEF Leaves

LEMMA LowWritten ==
  ASSUME NEW q \in PpuRecords, NEW l \in Octets, q.addr_received_high_byte = TRUE,
         NEW r, r = ppuio_write(after_ppuio_read(q, ADDRESS), ADDRESS, l)
  PROVE  /\ r \in PpuRecords /\ r.first_read = TRUE
         /\ Leaves(r, q.addr_latch * 256 + l, q.PPUCTRL, q.ram)
<1>1. PICK p : p = Masked(q)
  OBVIOUS
<1>2. PICK m : m = Masked(p)
  OBVIOUS
<1>3. p \in PpuRecords /\ m \in PpuRecords
  BY <1>1, <1>2, MaskedOK
<1>4. m.addr_received_high_byte
  BY <1>1, <1>2, <1>3, MaskedFlags
<1>5. /\ m.addr_latch = q.addr_latch /\ m.PPUCTRL = q.PPUCTRL
      /\ m.ram = q.ram /\ m.mirroring_xor = q.mirroring_xor
  BY <1>1, <1>2, <1>3, MaskedOK
<1>6. PICK a : a = m.addr_latch * 256 + l
  OBVIOUS
<1>7. a \in Nat /\ a = q.addr_latch * 256 + l
  <2>1. m.addr_latch \in 0..255
    BY <1>3 DEF PpuRecords, Units
  <2> QED
    BY <1>5, <1>6, <2>1 DEF Octets
<1>8. r = [m EXCEPT !.PPUADDR = a, !.addr_received_high_byte = FALSE, !.first_read = TRUE]
  <2>1. r = ppuio_write(p, ADDRESS, l)
    BY <1>1, AddressRead
  <2>2. m.ready
    BY <1>3, IsReady
  <2> QED
    BY <1>2, <1>4, <1>6, <2>1, <2>2 DEF ppuio_write, ADDRESS
<1> a \in Nat
  BY <1>7
<1>10. r \in PpuRecords
  <2>1. PICK x : x = [m EXCEPT !.PPUADDR = a]
    OBVIOUS
  <2>2. PICK y : y = [x EXCEPT !.addr_received_high_byte = FALSE]
    OBVIOUS
  <2>3. r = [y EXCEPT !.first_read = TRUE]
    BY <1>8, <2>1, <2>2
  <2>4. x \in PpuRecords
    BY <1>3, <1>7, <2>1, SetAddress
  <2> QED
    BY <2>2, <2>3, <2>4, NoFlag, SetReceived, SetFirst, Zenon
<1>9. /\ r.first_read = TRUE /\ r.PPUADDR = a
      /\ r.PPUCTRL = m.PPUCTRL /\ r.ram = m.ram /\ r.mirroring_xor = m.mirroring_xor
  BY <1>3, <1>8 DEF PpuRecords, Units
<1> QED
  BY <1>5, <1>7, <1>9, <1>10 DEF Leaves

(* A store: the read before it moves the port on, the byte goes to the     *)
(* address and to its mirror.                                              *)
InMirror(a, x) == a + x * (1 - 2 * ((a \div x) % 2))

LEMMA DataWritten ==
  ASSUME NEW q \in PpuRecords, NEW b \in Octets,
         NEW r, r = ppuio_write(after_ppuio_read(q, DATA), DATA, b),
         NEW a, a = Masked(after_ppuio_read(q, DATA)).PPUADDR
  PROVE  /\ r \in PpuRecords /\ r.first_read = FALSE
         /\ Leaves(r, a, q.PPUCTRL, Put(Put(q.ram, Place(InMirror(a, q.mirroring_xor)), b), Place(a), b))
<1>1. PICK p : p = after_ppuio_read(q, DATA)
  OBVIOUS
<1>2. PICK m : m = Masked(p)
  OBVIOUS
<1>3. p \in PpuRecords /\ m \in PpuRecords
  <2>1. p \in PpuRecords
    BY <1>1, DataRead, Zenon
  <2> QED
    BY <1>2, <2>1, MaskedOK, Zenon
<1>4. ~m.first_read
  <2>1. p.first_read = FALSE
    BY <1>1, DataRead, Zenon
  <2>2. m.first_read = p.first_read
    BY <1>2, <1>3, MaskedFlags, Zenon
  <2> QED
    BY <2>1, <2>2
<1>5. /\ m.PPUADDR = a /\ m.PPUCTRL = q.PPUCTRL
      /\ m.ram = q.ram /\ m.mirroring_xor = q.mirroring_xor
  <2>1. /\ p.PPUCTRL = q.PPUCTRL /\ p.ram = q.ram /\ p.mirroring_xor = q.mirroring_xor
    BY <1>1, DataRead, Zenon
  <2>2. /\ m.PPUCTRL = p.PPUCTRL
        /\ m.ram = p.ram /\ m.mirroring_xor = p.mirroring_xor
    BY <1>2, <1>3, MaskedOK, Zenon
  <2>3. a = m.PPUADDR
    BY <1>1, <1>2
  <2> QED
    BY <2>1, <2>2, <2>3
<1>6. a \in Nat
  BY <1>2, <1>3, <1>5, MaskedAddress
<1>7. PICK i : i = InMirror(a, m.mirroring_xor)
  OBVIOUS
<1>8. i \in Int
  <2>1. m.mirroring_xor \in Mirrorings
    BY <1>3 DEF PpuRecords, Units
  <2>2. PICK x \in {1024, 2048} : x = m.mirroring_xor
    BY <2>1 DEF Mirrorings
  <2>3. InMirror(a, x) \in Int
    BY <1>6 DEF InMirror
  <2> QED
    BY <1>7, <2>2, <2>3
<1>9. PICK f : f = Put(m.ram, Place(i), b)
  OBVIOUS
<1>10. PICK g : g = Put(f, Place(a), b)
  OBVIOUS
<1>11. f \in AnyFunction /\ g \in AnyFunction
  <2>1. Place(i) \in Int /\ Place(a) \in Int
    BY <1>6, <1>8, RealAddress DEF Place
  <2>2. m.ram \in AnyFunction
    BY <1>3 DEF PpuRecords, Units
  <2> QED
    BY <1>9, <1>10, <2>1, <2>2, PutFun, Zenon
<1>12. PICK n : n = [m EXCEPT !.ram = f]
  BY Zenon
<1>13. n \in PpuRecords /\ n.ram = f
  BY <1>3, <1>11, <1>12, SetRam DEF PpuRecords, Units
<1>14. r = [n EXCEPT !.ram = g]
  <2>1. r = ppuio_write(p, DATA, b)
    BY <1>1
  <2>2. r = ppu_ram_write(ppu_ram_write(m, i, b), m.PPUADDR, b)
    BY <1>2, <1>5, <1>7, <2>1 DEF ppuio_write, DATA, InMirror
  <2>3. ppu_ram_write(m, i, b) = n
    BY <1>3, <1>9, <1>12 DEF ppu_ram_write, Place
  <2> QED
    <3>1. r = ppu_ram_write(n, a, b)
      BY <1>5, <2>2, <2>3
    <3>2. ppu_ram_write(n, a, b) = [n EXCEPT !.ram = Put(n.ram, Place(a), b)]
      BY DEF ppu_ram_write, Place
    <3> QED
      BY <1>10, <1>13, <3>1, <3>2
<1>15. r \in PpuRecords
  BY <1>11, <1>13, <1>14, SetRam
<1>16. r = [m EXCEPT !.ram = g]
  BY ONLY <1>12, <1>14
<1>17. r.first_read = m.first_read /\ m.first_read \in BOOLEAN
  BY <1>3, <1>16 DEF PpuRecords, Units
<1>18. /\ r.PPUADDR = m.PPUADDR /\ r.PPUCTRL = m.PPUCTRL
       /\ r.ram = g /\ r.mirroring_xor = m.mirroring_xor
  BY <1>3, <1>16 DEF PpuRecords, Units
<1>19. r.first_read = FALSE
  BY <1>4, <1>17
<1> QED
  BY <1>5, <1>7, <1>9, <1>10, <1>15, <1>18, <1>19 DEF Leaves

(* The memory of the unit holds what the manual's does, at each address    *)
(* that a game stores to and that the palettes' mirrors leave.             *)
Stores == Nametables \cup Palettes
Agrees(f, g) == \A x \in DOMAIN f : /\ x \in Stores /\ Place(x) = x
                                    /\ x \in DOMAIN g /\ g[x] = f[x]

LEMMA AgreesPut ==
  ASSUME NEW f \in AnyFunction, NEW g \in AnyFunction, NEW a \in Int, NEW v \in Octets,
         Agrees(f, g), a \in Stores, Place(a) = a
  PROVE  Agrees(Put(f, a, v), Put(g, a, v))
<1>1. PICK f1 : f1 = Put(f, a, v)
  OBVIOUS
<1>2. PICK g1 : g1 = Put(g, a, v)
  OBVIOUS
<1>3. /\ DOMAIN f1 = DOMAIN f \cup {a} /\ f1[a] = v
      /\ \A x \in DOMAIN f : x # a => f1[x] = f[x]
  BY <1>1, PutFun
<1>4. /\ DOMAIN g1 = DOMAIN g \cup {a} /\ g1[a] = v
      /\ \A x \in DOMAIN g : x # a => g1[x] = g[x]
  BY <1>2, PutFun
<1>5. Agrees(f1, g1)
  BY <1>3, <1>4 DEF Agrees
<1> QED
  BY <1>1, <1>2, <1>5

LEMMA AgreesElsewhere ==
  ASSUME NEW f \in AnyFunction, NEW g \in AnyFunction, NEW a \in Int, NEW v \in Octets,
         Agrees(f, g), a \notin Stores
  PROVE  Agrees(f, Put(g, a, v))
<1>1. PICK g1 : g1 = Put(g, a, v)
  OBVIOUS
<1>2. /\ DOMAIN g1 = DOMAIN g \cup {a}
      /\ \A x \in DOMAIN g : x # a => g1[x] = g[x]
  BY ONLY <1>1, PutFun, g \in AnyFunction, a \in Int, v \in Octets
<1>3. Agrees(f, g1)
  BY <1>2 DEF Agrees
<1> QED
  BY <1>1, <1>3

(* The place of every store is one that a game stores to.                  *)
LEMMA PlaceStores ==
  ASSUME NEW a \in Stores
  PROVE  Place(a) \in Stores /\ Place(a) \in Int /\ Place(Place(a)) = Place(a)
<1>1. a \in Int
  BY DEF Stores, Nametables, Palettes
<1>2. Place(a) \in Int /\ Place(Place(a)) = Place(a)
  BY <1>1, RealAddress DEF Place
<1>3. CASE a \in Nametables
  BY <1>3 DEF Place, ppu_get_real_ram_address, Stores, Nametables
<1>4. CASE a \in Palettes
  <2>1. PICK k : k = a % 32
    OBVIOUS
  <2>2. k \in 0..31
    BY <1>1, <2>1
  <2>3. Place(a) = 16128 + (IF k \in {16, 20, 24, 28} THEN k - 16 ELSE k)
    BY <1>4, <2>1 DEF Place, ppu_get_real_ram_address, Palettes
  <2>4. Place(a) \in 16128..16159
    BY <2>2, <2>3
  <2> QED
    BY <1>2, <2>4 DEF Stores, Palettes
<1> QED
  BY <1>2, <1>3, <1>4 DEF Stores

(* A store keeps the memories together: in a nametable both have the byte  *)
(* at its mirror, and from a palette the unit writes beside them.          *)
LEMMA AgreesStore ==
  ASSUME NEW f \in AnyFunction, NEW g \in AnyFunction, NEW a \in Stores, NEW v \in Octets,
         NEW x \in {1024, 2048}, NEW mirror, Agrees(f, g),
         mirror = IF a \in Nametables THEN 2 * x * (a \div (2 * x)) + ((a + x) % (2 * x)) ELSE a
  PROVE  /\ Put(Put(f, Place(mirror), v), Place(a), v) \in AnyFunction
         /\ Agrees(Put(Put(f, Place(mirror), v), Place(a), v),
                   Put(Put(g, Place(InMirror(a, x)), v), Place(a), v))
<1>0. f \in AnyFunction /\ g \in AnyFunction /\ v \in Octets /\ Agrees(f, g)
  OBVIOUS
<1>1. a \in Int /\ Place(a) \in Stores /\ Place(a) \in Int /\ Place(Place(a)) = Place(a)
  <2>1. a \in Int
    BY DEF Stores, Nametables, Palettes
  <2> QED
    BY ONLY <2>1, PlaceStores, a \in Stores
<1>2. CASE a \in Nametables
  <2>1. mirror = InMirror(a, x) /\ InMirror(a, x) \in Nametables
    BY <1>2, MirrorIs DEF InMirror
  <2>2. PICK m : m = Place(mirror)
    OBVIOUS
  <2>3. m \in Stores /\ m \in Int /\ Place(m) = m
    BY <2>1, <2>2, PlaceStores DEF Stores
  <2>4. PICK f1 : f1 = Put(f, m, v)
    OBVIOUS
  <2>5. PICK g1 : g1 = Put(g, m, v)
    OBVIOUS
  <2>6. f1 \in AnyFunction /\ g1 \in AnyFunction /\ Agrees(f1, g1)
    <3>1. Put(f, m, v) \in AnyFunction /\ Put(g, m, v) \in AnyFunction
      BY ONLY <1>0, <2>3, PutIn
    <3>2. Agrees(Put(f, m, v), Put(g, m, v))
      BY ONLY <1>0, <2>3, AgreesPut
    <3> QED
      BY <2>4, <2>5, <3>1, <3>2
  <2>7. Put(f1, Place(a), v) \in AnyFunction /\ Agrees(Put(f1, Place(a), v), Put(g1, Place(a), v))
    <3>1. Put(f1, Place(a), v) \in AnyFunction
      BY ONLY <1>0, <1>1, <2>6, PutIn
    <3>2. Agrees(Put(f1, Place(a), v), Put(g1, Place(a), v))
      BY ONLY <1>0, <1>1, <2>6, AgreesPut
    <3> QED
      BY <3>1, <3>2
  <2> QED
    BY <2>1, <2>2, <2>4, <2>5, <2>7
<1>3. CASE a \notin Nametables
  <2>1. mirror = a /\ a \in Palettes
    BY <1>3 DEF Stores
  <2>2. PICK p : p = Place(a)
    OBVIOUS
  <2>3. PICK i : i = InMirror(a, x)
    OBVIOUS
  <2>4. i \in {a - 1024, a - 2048}
    <3>1. CASE x = 1024
      <4>1. a \div 1024 = 15
        BY <2>1 DEF Palettes
      <4> QED
        BY <1>1, <2>3, <3>1, <4>1 DEF InMirror
    <3>2. CASE x = 2048
      <4>1. a \div 2048 = 7
        BY <2>1 DEF Palettes
      <4> QED
        BY <1>1, <2>3, <3>2, <4>1 DEF InMirror
    <3> QED
      BY <3>1, <3>2
  <2>5. Place(i) \in Int /\ Place(i) \notin Stores
    BY <2>1, <2>4 DEF Palettes, Nametables, Stores, Place, ppu_get_real_ram_address
  <2>6. PICK g1 : g1 = Put(g, Place(i), v)
    OBVIOUS
  <2>7. g1 \in AnyFunction /\ Agrees(f, g1)
    <3>1. i \in Int /\ Place(i) = i
      BY <2>1, <2>4 DEF Palettes, Place, ppu_get_real_ram_address
    <3> QED
      <4>1. Put(g, i, v) \in AnyFunction
        BY ONLY <1>0, <3>1, PutIn
      <4>2. Agrees(f, Put(g, i, v))
        BY ONLY <1>0, <2>5, <3>1, AgreesElsewhere
      <4> QED
        BY ONLY <2>6, <3>1, <4>1, <4>2
  <2>8. PICK f1 : f1 = Put(f, p, v)
    OBVIOUS
  <2>9. f1 \in AnyFunction /\ Put(f1, p, v) = f1
    <3>1. f1 \in AnyFunction
      BY ONLY <1>0, <1>1, <2>2, <2>8, PutIn
    <3>2. p \in DOMAIN f1 /\ f1[p] = v
      BY ONLY <1>0, <1>1, <2>2, <2>8, PutAt
    <3>3. PICK S \in SUBSET Int : f1 \in [S -> Octets]
      BY ONLY <3>1 DEF AnyFunction
    <3>4. S \cup {p} = S
      BY <3>2, <3>3
    <3>5. Put(f1, p, v) = [y \in S |-> IF y = p THEN v ELSE f1[y]]
      BY <3>3, <3>4 DEF Put
    <3>6. \A y \in S : (IF y = p THEN v ELSE f1[y]) = f1[y]
      BY <3>2
    <3>7. [y \in S |-> IF y = p THEN v ELSE f1[y]] = f1
      BY <3>3, <3>6
    <3> QED
      BY <3>1, <3>5, <3>7
  <2>10. Agrees(f1, Put(g1, p, v))
    <3>1. p \in Int /\ p \in Stores /\ Place(p) = p
      BY ONLY <1>1, <2>2
    <3>2. Agrees(Put(f, p, v), Put(g1, p, v))
      BY ONLY <1>0, <2>7, <3>1, AgreesPut
    <3> QED
      BY ONLY <2>8, <3>2
  <2> QED
    BY <2>1, <2>2, <2>3, <2>6, <2>8, <2>9, <2>10
<1> QED
  BY <1>2, <1>3

(* The induction: a port that is not disturbed lands where the manual      *)
(* says, half an address or not; and the memories agree.                   *)
PortTypeOK == /\ ppu \in PpuRecords
              /\ expected \in Int
              /\ stored \in AnyFunction
              /\ disturbed \in BOOLEAN
LandingInv == expected # -1 /\ ~disturbed => Landing % 16384 = expected
StoredInv == Agrees(stored, ppu.ram)
PortInv == PortTypeOK /\ LandingInv /\ StoredInv

LEMMA Steps ==
  ASSUME NEW n \in Nat, NEW k \in {1, 32}
  PROVE  ((n % 16384) + k) % 16384 = (n + k) % 16384 /\ (n % 16384) % 16384 = n % 16384
  OBVIOUS

LEMMA IncrementIs ==
  ASSUME NEW q
  PROVE  ppu_vram_address_increment(q) \in {1, 32}
  BY DEF ppu_vram_address_increment

LEMMA SameIncrement ==
  ASSUME NEW q, NEW r, q.PPUCTRL = r.PPUCTRL
  PROVE  ppu_vram_address_increment(q) = ppu_vram_address_increment(r)
  BY DEF ppu_vram_address_increment

Reset(no, yes, none) ==
  [PPUCTRL |-> 0, PPUMASK |-> 0, PPUSTATUS |-> 160, OAMADDR |-> 0,
   PPUSCROLL_X |-> 0, PPUSCROLL_Y |-> 0, PPUADDR |-> 0,
   scroll_received_x |-> no, addr_received_high_byte |-> no, addr_latch |-> 0,
   first_read |-> yes, ready |-> no, mirroring_xor |-> 1024, scanline |-> 0,
   sprite_hit |-> no, ram |-> none, spr |-> none]

LEMMA ResetIs ==
  ASSUME NEW no \in BOOLEAN, NEW yes \in BOOLEAN, NEW none \in Nothings,
         none \in AnyFunction, 0 \in Zeros, 1024 \in Mirrorings
  PROVE  Reset(no, yes, none) \in Units(BOOLEAN)
  BY DEF Reset, Units

LEMMA BecomesReady ==
  ASSUME NEW q \in Units(BOOLEAN), NEW yes \in Trues
  PROVE  [q EXCEPT !.ready = yes] \in PpuRecords
  BY DEF PpuRecords, Units

LEMMA SetMirroring ==
  ASSUME NEW q \in PpuRecords, NEW x \in Mirrorings
  PROVE  [q EXCEPT !.mirroring_xor = x] \in PpuRecords
  BY DEF PpuRecords, Units

LEMMA PortInit ==
  ASSUME InitPort
  PROVE  PortInv
<1>1. PICK mirroring \in {0, 1} :
        ppu = [Ppu EXCEPT !.ready = TRUE, !.mirroring_xor = 1024 * 2^mirroring]
  BY DEF InitPort
<1>2. 1024 * 2^mirroring \in Mirrorings
  <2>1. CASE mirroring = 0
    BY <2>1 DEF Mirrorings
  <2>2. CASE mirroring = 1
    BY <2>2 DEF Mirrorings
  <2> QED
    BY <2>1, <2>2
<1>3. PICK x : x = 1024 * 2^mirroring
  OBVIOUS
<1>4. ppu \in PpuRecords
  <2>1. <<>> \in AnyFunction /\ <<>> \in Nothings /\ 0 \in Zeros /\ TRUE \in Trues
    BY DEF AnyFunction, Nothings, Zeros, Trues
  <2>2. 0 \in 0..255 /\ 0 \in Nat /\ 160 \in Int /\ 1024 \in Mirrorings
    BY DEF Mirrorings
  <2>3. Ppu \in Units(BOOLEAN)
    <3>1. Ppu = Reset(FALSE, TRUE, <<>>)
      BY DEF Ppu, Reset
    <3>2. PICK no \in BOOLEAN : no = FALSE
      BY NoFlag, Zenon
    <3>3. PICK yes \in BOOLEAN : yes = TRUE
      BY NoFlag, Zenon
    <3>4. PICK none \in Nothings : none \in AnyFunction /\ none = <<>>
      BY <2>1
    <3>5. Reset(no, yes, none) \in Units(BOOLEAN)
      BY <2>1, <2>2, <3>4, ResetIs
    <3> QED
      BY ONLY <3>1, <3>2, <3>3, <3>4, <3>5
  <2>4. PICK p : p = [Ppu EXCEPT !.ready = TRUE]
    OBVIOUS
  <2>5. p \in PpuRecords
    BY <2>1, <2>3, <2>4, BecomesReady, Zenon
  <2>6. ppu = [p EXCEPT !.mirroring_xor = x]
    BY <1>1, <1>3, <2>4
  <2> QED
    <3>1. x \in Mirrorings
      BY ONLY <1>2, <1>3
    <3> QED
      BY ONLY <2>5, <2>6, <3>1, SetMirroring, Zenon
<1>5. expected = -1 /\ stored = <<>>
  BY DEF InitPort
<1>6. <<>> \in AnyFunction
  BY DEF AnyFunction
<1>7. StoredInv
  BY <1>5 DEF StoredInv, Agrees
<1> QED
  <2>1. expected \in Int /\ stored \in AnyFunction
    BY <1>5, <1>6
  <2>3. disturbed = FALSE
    BY DEF InitPort
  <2>4. disturbed \in BOOLEAN
    BY <2>3, NoFlag, Zenon
  <2>2. LandingInv
    BY <1>5 DEF LandingInv
  <2> QED
    BY <1>4, <1>7, <2>1, <2>2, <2>4, Zenon DEF PortInv, PortTypeOK

(* Where the next access to the data goes.                                 *)
Lands(q) == IF q.first_read THEN q.PPUADDR ELSE q.PPUADDR + ppu_vram_address_increment(q)

LEMMA LandsFirst ==
  ASSUME NEW q \in PpuRecords, q.first_read
  PROVE  Lands(q) % 16384 = Masked(q).PPUADDR
  BY MaskedAddress DEF Lands

LEMMA FirstStays ==
  ASSUME NEW q \in PpuRecords, NEW r \in PpuRecords, q.first_read, r.first_read,
         r.PPUADDR = Masked(q).PPUADDR
  PROVE  Lands(r) % 16384 = Lands(q) % 16384
<1>1. Lands(q) % 16384 = Masked(q).PPUADDR
  BY LandsFirst
<1>2. Lands(r) = Masked(q).PPUADDR
  BY DEF Lands
<1> QED
  BY <1>1, <1>2, MaskedAddress

LEMMA SameStays ==
  ASSUME NEW q \in PpuRecords, NEW r \in PpuRecords, r.first_read = q.first_read,
         r.PPUADDR = Masked(q).PPUADDR, r.PPUCTRL = q.PPUCTRL
  PROVE  Lands(r) % 16384 = Lands(q) % 16384
<1>1. CASE q.first_read
  <2>1. r.first_read
    BY ONLY <1>1, r.first_read = q.first_read
  <2> QED
    BY ONLY <1>1, <2>1, q \in PpuRecords, r \in PpuRecords, r.PPUADDR = Masked(q).PPUADDR, FirstStays
<1>2. CASE ~q.first_read
  <2>1. PICK k \in {1, 32} : k = ppu_vram_address_increment(q)
    BY IncrementIs
  <2>2. PICK n \in Nat : n = q.PPUADDR
    BY DEF PpuRecords, Units
  <2>3. Lands(q) = n + k /\ Lands(r) = (n % 16384) + k
    BY <1>2, <2>1, <2>2, MaskedAddress, SameIncrement DEF Lands
  <2> QED
    BY <2>3, Steps
<1> QED
  BY <1>1, <1>2

LEMMA ReadStays ==
  ASSUME NEW q \in PpuRecords, NEW p, p = after_ppuio_read(q, DATA)
  PROVE  p.PPUADDR % 16384 = Lands(q) % 16384
<1>1. p.PPUADDR = IF q.first_read THEN Masked(q).PPUADDR
                  ELSE Masked(q).PPUADDR + ppu_vram_address_increment(q)
  BY DataRead
<1>2. PICK n \in Nat : n = q.PPUADDR
  BY DEF PpuRecords, Units
<1>3. PICK k \in {1, 32} : k = ppu_vram_address_increment(q)
  BY IncrementIs
<1>4. Masked(q).PPUADDR = n % 16384
  BY <1>2, MaskedAddress
<1>5. CASE q.first_read
  <2>1. Lands(q) = n /\ p.PPUADDR = n % 16384
    BY <1>1, <1>2, <1>4, <1>5 DEF Lands
  <2> QED
    BY <1>3, <2>1, Steps
<1>6. CASE ~q.first_read
  <2>1. Lands(q) = n + k /\ p.PPUADDR = (n % 16384) + k
    BY <1>1, <1>2, <1>3, <1>4, <1>6 DEF Lands
  <2> QED
    BY <2>1, Steps
<1> QED
  BY <1>5, <1>6

(* After an access to the data the port lands one increment further.       *)
LEMMA Follows ==
  ASSUME NEW q \in PpuRecords, NEW r \in PpuRecords, ~r.first_read, r.PPUCTRL = q.PPUCTRL,
         r.PPUADDR % 16384 = Lands(q) % 16384
  PROVE  Lands(r) % 16384 = ((Lands(q) % 16384) + ppu_vram_address_increment(q)) % 16384
<1>1. PICK n \in Nat : n = r.PPUADDR
  BY DEF PpuRecords, Units
<1>2. PICK k \in {1, 32} : k = ppu_vram_address_increment(q)
  BY IncrementIs
<1>3. Lands(r) = n + k
  BY <1>1, <1>2, SameIncrement DEF Lands
<1>4. Lands(q) % 16384 = n % 16384
  BY <1>1
<1> QED
  BY <1>2, <1>3, <1>4, Steps

(* An access that stores nothing in the unit and lands where it did, or    *)
(* makes the port disturbed, keeps the invariant.                          *)
LEMMA PortKept ==
  ASSUME PortInv, ppu' \in PpuRecords, ppu'.ram = ppu.ram, UNCHANGED <<expected, stored>>,
         disturbed' \in BOOLEAN,
         expected # -1 /\ ~disturbed' => Lands(ppu') % 16384 = expected
  PROVE  PortInv'
<1>1. PortTypeOK'
  BY DEF PortInv, PortTypeOK
<1>2. StoredInv'
  <2>1. Agrees(stored, ppu.ram) /\ stored' = stored
    BY DEF PortInv, StoredInv
  <2>2. Agrees(stored', ppu'.ram)
    BY ONLY <2>1, ppu'.ram = ppu.ram
  <2> QED
    BY <2>2 DEF StoredInv
<1>3. LandingInv'
  <2>1. Landing' = Lands(ppu')
    BY DEF Landing, Lands
  <2> QED
    BY <2>1 DEF LandingInv
<1> QED
  BY <1>1, <1>2, <1>3 DEF PortInv

LEMMA LandingIs ==
  ASSUME PortInv
  PROVE  expected # -1 /\ ~disturbed => Lands(ppu) % 16384 = expected
<1>1. Landing = Lands(ppu)
  BY DEF Landing, Lands
<1> QED
  BY <1>1 DEF PortInv, LandingInv

LEMMA PollStatusKeeps ==
  ASSUME PortInv, PollStatus
  PROVE  PortInv'
<1>1. ppu \in PpuRecords /\ disturbed \in BOOLEAN
  BY DEF PortInv, PortTypeOK
<1>2. ppu' = after_ppuio_read(ppu, STATUS) /\ UNCHANGED <<expected, stored>>
  BY DEF PollStatus
<1>3. disturbed' = (disturbed \/ ~ppu.first_read)
  BY DEF PollStatus, Disturbs
<1>4. ppu' \in PpuRecords
  BY <1>1, <1>2, StatusRead
<1>5. ppu'.first_read
  BY <1>1, <1>2, StatusRead
<1>6. ppu'.PPUADDR = Masked(ppu).PPUADDR /\ ppu'.ram = ppu.ram
  <2>1. Leaves(ppu', Masked(ppu).PPUADDR, ppu.PPUCTRL, ppu.ram)
    BY <1>1, <1>2, StatusRead
  <2> QED
    BY ONLY <2>1 DEF Leaves
<1>7. ASSUME expected # -1, ~disturbed' PROVE Lands(ppu') % 16384 = expected
  <2>1. ~disturbed /\ ppu.first_read
    BY <1>3, <1>7
  <2> QED
    BY <1>1, <1>4, <1>5, <1>6, <1>7, <2>1, FirstStays, LandingIs
<1>8. disturbed' \in BOOLEAN
  BY <1>3
<1> QED
  BY <1>2, <1>4, <1>6, <1>7, <1>8, PortKept

LEMMA SetHighKeeps ==
  ASSUME PortInv, SetHigh
  PROVE  PortInv'
<1>1. ppu \in PpuRecords /\ disturbed \in BOOLEAN /\ ~ppu.addr_received_high_byte
  BY DEF PortInv, PortTypeOK, SetHigh
<1>2. PICK h \in 0..255 : ppu' = ppuio_write(after_ppuio_read(ppu, ADDRESS), ADDRESS, h)
  BY PortAssumption DEF SetHigh
<1>3. disturbed' = (disturbed \/ ~ppu.first_read) /\ UNCHANGED <<expected, stored>>
  BY DEF SetHigh, Disturbs
<1>4. ppu' \in PpuRecords
  BY <1>1, <1>2, HighWritten
<1>5. ppu'.first_read
  BY <1>1, <1>2, HighWritten
<1>6. ppu'.PPUADDR = Masked(ppu).PPUADDR /\ ppu'.ram = ppu.ram
  <2>1. Leaves(ppu', Masked(ppu).PPUADDR, ppu.PPUCTRL, ppu.ram)
    BY <1>1, <1>2, HighWritten
  <2> QED
    BY ONLY <2>1 DEF Leaves
<1>7. ASSUME expected # -1, ~disturbed' PROVE Lands(ppu') % 16384 = expected
  <2>1. ~disturbed /\ ppu.first_read
    BY <1>3, <1>7
  <2> QED
    BY <1>1, <1>4, <1>5, <1>6, <1>7, <2>1, FirstStays, LandingIs
<1>8. disturbed' \in BOOLEAN
  BY <1>3
<1> QED
  BY <1>3, <1>4, <1>6, <1>7, <1>8, PortKept

LEMMA SetIncrementKeeps ==
  ASSUME PortInv, SetIncrement
  PROVE  PortInv'
<1>1. ppu \in PpuRecords /\ disturbed \in BOOLEAN
  BY DEF PortInv, PortTypeOK
<1>2. PICK c \in Octets : ppu' = ppuio_write(ppu, 8192, c)
  BY DEF SetIncrement, Octets
<1>3. ppu' \in PpuRecords
  BY <1>1, <1>2, ControlWritten
<1>4. ppu'.first_read = ppu.first_read
  BY <1>1, <1>2, ControlFlag
<1>5. ppu'.PPUADDR = Masked(ppu).PPUADDR /\ ppu'.ram = ppu.ram
  <2>1. Leaves(ppu', Masked(ppu).PPUADDR, c, ppu.ram)
    BY <1>1, <1>2, ControlWritten
  <2> QED
    BY ONLY <2>1 DEF Leaves
<1>6. CASE ppu'.PPUCTRL = ppu.PPUCTRL
  <2>1. disturbed' = disturbed /\ UNCHANGED <<expected, stored>>
    BY <1>6 DEF SetIncrement
  <2>2. Lands(ppu') % 16384 = Lands(ppu) % 16384
    BY <1>1, <1>3, <1>4, <1>5, <1>6, SameStays
  <2>3. expected # -1 /\ ~disturbed' => Lands(ppu') % 16384 = expected
    BY <2>1, <2>2, LandingIs
  <2>4. disturbed' \in BOOLEAN
    BY <1>1, <2>1
  <2> QED
    BY <1>3, <1>5, <2>1, <2>3, <2>4, PortKept
<1>7. CASE ppu'.PPUCTRL # ppu.PPUCTRL
  <2>1. disturbed' = (disturbed \/ ~ppu.first_read) /\ UNCHANGED <<expected, stored>>
    BY <1>7 DEF SetIncrement, Disturbs
  <2>2. ASSUME expected # -1, ~disturbed' PROVE Lands(ppu') % 16384 = expected
    <3>1. ~disturbed /\ ppu.first_read
      BY <2>1, <2>2
    <3>2. ppu'.first_read
      BY ONLY <1>4, <3>1
    <3> QED
      BY <1>1, <1>3, <1>5, <2>2, <3>1, <3>2, FirstStays, LandingIs
  <2>3. disturbed' \in BOOLEAN
    BY <2>1
  <2> QED
    BY <1>3, <1>5, <2>1, <2>2, <2>3, PortKept
<1> QED
  BY <1>6, <1>7

LEMMA SetLowKeeps ==
  ASSUME PortInv, SetLow
  PROVE  PortInv'
<1>1. ppu \in PpuRecords /\ ppu.addr_received_high_byte
  BY DEF PortInv, PortTypeOK, SetLow
<1>2. PICK l \in Octets : /\ ppu' = ppuio_write(after_ppuio_read(ppu, ADDRESS), ADDRESS, l)
                        /\ expected' = (256 * ppu.addr_latch + l) % 16384
  BY PortAssumption DEF SetLow, Octets
<1>0. ppu.addr_received_high_byte = TRUE
  <2>1. ppu.addr_received_high_byte \in BOOLEAN
    BY <1>1 DEF PpuRecords, Units
  <2> QED
    BY <1>1, <2>1, Zenon
<1>3. disturbed' = FALSE /\ stored' = stored
  BY DEF SetLow
<1>12. ppu' = ppuio_write(after_ppuio_read(ppu, ADDRESS), ADDRESS, l)
  BY <1>2
<1>4. ppu' \in PpuRecords
  BY <1>0, <1>1, <1>12, LowWritten
<1>5. ppu'.first_read
  BY <1>0, <1>1, <1>12, LowWritten
<1>6. ppu'.PPUADDR = ppu.addr_latch * 256 + l /\ ppu'.ram = ppu.ram
  <2>1. Leaves(ppu', ppu.addr_latch * 256 + l, ppu.PPUCTRL, ppu.ram)
    BY <1>0, <1>1, <1>12, LowWritten
  <2> QED
    BY ONLY <2>1 DEF Leaves
<1>7. PICK k \in 0..255 : k = ppu.addr_latch
  BY <1>1 DEF PpuRecords, Units
<1>8. expected' \in Int /\ Lands(ppu') % 16384 = expected'
  <2>1. expected' = (256 * k + l) % 16384
    BY <1>2, <1>7
  <2>2. Lands(ppu') = k * 256 + l
    BY <1>5, <1>6, <1>7 DEF Lands
  <2> QED
    BY <2>1, <2>2 DEF Octets
<1>9. PortTypeOK'
  <2>1. disturbed' \in BOOLEAN
    BY <1>3, NoFlag, Zenon
  <2>2. stored' \in AnyFunction
    BY <1>3 DEF PortInv, PortTypeOK
  <2> QED
    BY <1>4, <1>8, <2>1, <2>2 DEF PortTypeOK
<1>10. StoredInv'
  <2>1. Agrees(stored, ppu.ram)
    BY DEF PortInv, StoredInv
  <2>2. Agrees(stored', ppu'.ram)
    BY ONLY <1>3, <1>6, <2>1
  <2> QED
    BY <2>2 DEF StoredInv
<1>11. LandingInv'
  <2>1. Landing' = Lands(ppu')
    BY DEF Landing, Lands
  <2> QED
    BY <1>8, <2>1 DEF LandingInv
<1> QED
  BY <1>9, <1>10, <1>11 DEF PortInv

LEMMA ReadyIs ==
  ASSUME PortInv, Ready
  PROVE  Lands(ppu) % 16384 = expected
  BY LandingIs DEF Ready

LEMMA FollowingIs ==
  ASSUME PortInv
  PROVE  Following \in Int /\ Following = (expected + ppu_vram_address_increment(ppu)) % 16384
<1>1. expected \in Int
  BY DEF PortInv, PortTypeOK
<1>2. ppu_vram_address_increment(ppu) \in {1, 32}
  BY IncrementIs
<1> QED
  BY <1>1, <1>2 DEF Following

LEMMA LoadDataKeeps ==
  ASSUME PortInv, LoadData
  PROVE  PortInv'
<1>1. ppu \in PpuRecords
  BY DEF PortInv, PortTypeOK
<1>2. ppu' = after_ppuio_read(ppu, DATA) /\ Ready /\ expected' = Following
  BY DEF LoadData
<1>3. stored' = stored /\ disturbed' = disturbed
  BY DEF LoadData
<1>4. ppu' \in PpuRecords
  BY <1>1, <1>2, DataRead, Zenon
<1>5. ~ppu'.first_read
  BY <1>1, <1>2, DataRead
<1>6. ppu'.PPUCTRL = ppu.PPUCTRL /\ ppu'.ram = ppu.ram
  BY <1>1, <1>2, DataRead, Zenon
<1>7. ppu'.PPUADDR % 16384 = Lands(ppu) % 16384
  BY ONLY <1>1, <1>2, ReadStays
<1>8. expected' \in Int /\ Lands(ppu') % 16384 = expected'
  <2>1. Lands(ppu') % 16384 = ((Lands(ppu) % 16384) + ppu_vram_address_increment(ppu)) % 16384
    BY ONLY <1>1, <1>4, <1>5, <1>6, <1>7, Follows
  <2>2. Lands(ppu) % 16384 = expected
    BY <1>2, ReadyIs
  <2> QED
    BY ONLY <1>2, <2>1, <2>2, FollowingIs, PortInv
<1>9. PortTypeOK'
  BY <1>3, <1>4, <1>8 DEF PortInv, PortTypeOK
<1>10. StoredInv'
  <2>1. Agrees(stored, ppu.ram)
    BY DEF PortInv, StoredInv
  <2>2. Agrees(stored', ppu'.ram)
    BY ONLY <1>3, <1>6, <2>1
  <2> QED
    BY <2>2 DEF StoredInv
<1>11. LandingInv'
  <2>1. Landing' = Lands(ppu')
    BY DEF Landing, Lands
  <2> QED
    BY <1>8, <2>1 DEF LandingInv
<1> QED
  BY <1>9, <1>10, <1>11 DEF PortInv

LEMMA StoreDataKeeps ==
  ASSUME PortInv, StoreData
  PROVE  PortInv'
<1>1. ppu \in PpuRecords /\ stored \in AnyFunction
  BY DEF PortInv, PortTypeOK
<1>2. Ready /\ expected \in Stores /\ expected' = Following /\ disturbed' = disturbed
  BY DEF StoreData, Stores
<1>3. PICK b \in Octets :
        /\ ppu' = ppuio_write(after_ppuio_read(ppu, DATA), DATA, b)
        /\ stored' = Put(Put(stored, Place(Mirror(expected)), b), Place(expected), b)
  BY PortAssumption DEF StoreData, Octets
<1>4. PICK p : p = after_ppuio_read(ppu, DATA)
  OBVIOUS
<1>5. PICK a : a = Masked(p).PPUADDR
  OBVIOUS
<1>6. p \in PpuRecords
  BY <1>1, <1>4, DataRead, Zenon
<1>7. a = expected
  <2>1. a = p.PPUADDR % 16384
    BY <1>5, <1>6, MaskedAddress
  <2>2. p.PPUADDR % 16384 = Lands(ppu) % 16384
    BY ONLY <1>1, <1>4, ReadStays
  <2>3. Lands(ppu) % 16384 = expected
    BY <1>2, ReadyIs
  <2> QED
    BY ONLY <2>1, <2>2, <2>3
<1>8. a = Masked(after_ppuio_read(ppu, DATA)).PPUADDR
  BY <1>4, <1>5
<1>9. ppu' \in PpuRecords
  BY <1>1, <1>3, <1>8, DataWritten, Zenon
<1>10. ~ppu'.first_read
  BY <1>1, <1>3, <1>8, DataWritten
<1>11. /\ ppu'.ram = Put(Put(ppu.ram, Place(InMirror(a, ppu.mirroring_xor)), b), Place(a), b)
       /\ ppu'.PPUADDR = a /\ ppu'.PPUCTRL = ppu.PPUCTRL
  <2>1. Leaves(ppu', a, ppu.PPUCTRL,
               Put(Put(ppu.ram, Place(InMirror(a, ppu.mirroring_xor)), b), Place(a), b))
    BY <1>1, <1>3, <1>8, DataWritten
  <2> QED
    BY ONLY <2>1 DEF Leaves
<1>12. expected' \in Int /\ Lands(ppu') % 16384 = expected'
  <2>1. Lands(ppu) % 16384 = expected
    BY <1>2, ReadyIs
  <2>2. a % 16384 = a
    BY <1>5, <1>6, MaskedAddress
  <2>3. ppu'.PPUADDR % 16384 = Lands(ppu) % 16384
    BY ONLY <1>7, <1>11, <2>1, <2>2
  <2>4. Lands(ppu') % 16384 = ((Lands(ppu) % 16384) + ppu_vram_address_increment(ppu)) % 16384
    BY ONLY <1>1, <1>9, <1>10, <1>11, <2>3, Follows
  <2> QED
    BY ONLY <1>2, <2>1, <2>4, FollowingIs, PortInv
<1>13. stored' \in AnyFunction /\ Agrees(stored', ppu'.ram)
  <2>1. PICK f \in AnyFunction : f = stored
    BY <1>1
  <2>2. PICK g \in AnyFunction : g = ppu.ram
    BY <1>1 DEF PpuRecords, Units
  <2>3. PICK x \in {1024, 2048} : x = ppu.mirroring_xor
    BY <1>1 DEF PpuRecords, Units, Mirrorings
  <2>4. PICK m : m = Mirror(expected)
    OBVIOUS
  <2>5. m = IF a \in Nametables THEN 2 * x * (a \div (2 * x)) + ((a + x) % (2 * x)) ELSE a
    BY <1>7, <2>3, <2>4 DEF Mirror
  <2>6. Agrees(f, g) /\ a \in Stores
    BY <1>2, <1>7, <2>1, <2>2 DEF PortInv, StoredInv
  <2>7. /\ Put(Put(f, Place(m), b), Place(a), b) \in AnyFunction
        /\ Agrees(Put(Put(f, Place(m), b), Place(a), b),
                  Put(Put(g, Place(InMirror(a, x)), b), Place(a), b))
    BY ONLY <2>5, <2>6, AgreesStore, f \in AnyFunction, g \in AnyFunction, b \in Octets, x \in {1024, 2048}
  <2>8. stored' = Put(Put(f, Place(m), b), Place(a), b)
    BY ONLY <1>3, <1>7, <2>1, <2>4
  <2>9. ppu'.ram = Put(Put(g, Place(InMirror(a, x)), b), Place(a), b)
    BY ONLY <1>11, <2>2, <2>3
  <2> QED
    BY ONLY <2>7, <2>8, <2>9
<1>14. PortTypeOK'
  BY <1>2, <1>9, <1>12, <1>13 DEF PortInv, PortTypeOK
<1>15. StoredInv'
  BY <1>13 DEF StoredInv
<1>16. LandingInv'
  <2>1. Landing' = Lands(ppu')
    BY DEF Landing, Lands
  <2> QED
    BY <1>12, <2>1 DEF LandingInv
<1> QED
  BY <1>14, <1>15, <1>16 DEF PortInv

LEMMA PortInductive ==
  ASSUME PortInv, [PortNext]_portVars
  PROVE  PortInv'
<1>1. CASE PortNext
  BY <1>1, PollStatusKeeps, SetHighKeeps, SetLowKeeps, SetIncrementKeeps, StoreDataKeeps,
     LoadDataKeeps, Zenon DEF PortNext
<1>2. CASE UNCHANGED portVars
  BY <1>2 DEF portVars, PortInv, PortTypeOK, LandingInv, Landing, StoredInv
<1> QED
  BY <1>1, <1>2

(* What the invariant says of the data port: the next access lands where   *)
(* the manual says, and what a game stored is what it reads.               *)
LEMMA PortExact ==
  ASSUME PortInv
  PROVE  DataPortExact
<1>1. Ready => Landing % 16384 = expected
  BY DEF Ready, PortInv, LandingInv
<1>2. ASSUME NEW x \in DOMAIN stored
      PROVE  ppu_ram_read(ppu, x) = stored[x]
  <2>1. Place(x) = x /\ x \in DOMAIN ppu.ram /\ ppu.ram[x] = stored[x]
    BY DEF PortInv, StoredInv, Agrees
  <2> QED
    BY <2>1 DEF ppu_ram_read, Get, Place
<1> QED
  BY <1>1, <1>2 DEF DataPortExact

(* ppuio_read and ppuio_write of ppu.c: in every session at the ports, a   *)
(* load or a store goes to the address that the manual says, and whatever  *)
(* was stored in a nametable or a palette is where it belongs.             *)
THEOREM PortKeepsPlace == PortSpec => []DataPortExact
<1>1. InitPort => PortInv
  BY PortInit
<1>2. PortInv /\ [PortNext]_portVars => PortInv'
  BY PortInductive
<1>3. PortInv => DataPortExact
  BY PortExact
<1> QED
  BY <1>1, <1>2, <1>3, PTL DEF PortSpec
=============================================================================
