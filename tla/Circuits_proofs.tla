-------------------------- MODULE Circuits_proofs --------------------------
(***************************************************************************)
(* The circuits compute what they are for on words of every width and for  *)
(* every immediate of every format. A word is its four bytes, and both     *)
(* halves of it; the powers of two stay symbols.                           *)
(***************************************************************************)
EXTENDS Circuits, WellFoundedInduction, TLAPS

LEMMA DivMod ==
  ASSUME NEW m \in Nat \ {0}, NEW x \in Int
  PROVE  \E q \in Int, r \in 0..(m - 1) :
           q = x \div m /\ r = x % m /\ x = q * m + r /\ (x \in Nat => q \in Nat)
<1>1. x % m \in 0..(m - 1) /\ x \div m \in Int /\ (x \in Nat => x \div m >= 0)
  OBVIOUS
<1>2. ASSUME NEW q \in Int, q = x \div m, NEW r \in Int, r = x % m
      PROVE  x = q * m + r
  BY <1>2
<1>3. PICK q \in Int : q = x \div m
  BY <1>1
<1>4. PICK r \in 0..(m - 1) : r = x % m
  BY <1>1
<1>5. x = q * m + r
  BY <1>2, <1>3, <1>4
<1>6. x \in Nat => q \in Nat
  BY <1>1, <1>3
<1> QED BY <1>3, <1>4, <1>5, <1>6

LEMMA DivUnique ==
  ASSUME NEW m \in Nat \ {0}, NEW q \in Int, NEW r \in 0..(m - 1), NEW x, x = q * m + r
  PROVE  x \in Int /\ x \div m = q /\ x % m = r
<1>1. (q * m + r) \div m = q /\ q * m + r \in Int
  OBVIOUS
<1>2. ASSUME NEW y \in Int, y = q * m + r PROVE y % m = r
  BY <1>2
<1> QED BY <1>1, <1>2

LEMMA Distribute ==
  ASSUME NEW q \in Int, NEW l \in Int, NEW m \in Int, NEW s \in Int
  PROVE  (q * l + s) * m = q * (l * m) + s * m
OBVIOUS

(* Two digits make a number below the product of their radices.            *)
LEMMA TwoDigits ==
  ASSUME NEW m \in Nat \ {0}, NEW l \in Nat \ {0}, NEW q \in 0..(l - 1), NEW r \in 0..(m - 1)
  PROVE  q * m + r \in 0..(l * m - 1)
<1>1. (l - 1 - q) * m \in Nat /\ (l - 1 - q) * m = l * m - m - q * m
  OBVIOUS
<1>2. q * m \in Nat /\ l * m \in Nat
  OBVIOUS
<1> QED BY <1>1, <1>2

-----------------------------------------------------------------------------
(* The powers that the circuits are made of.                               *)
LEMMA Powers ==
  /\ ByteModulus \in Nat \ {0, 1} /\ HalfModulus \in Nat \ {0, 1} /\ Modulus \in Nat \ {0, 1}
  /\ HalfModulus = ByteModulus * ByteModulus /\ Modulus = HalfModulus * HalfModulus
  /\ 2^(BYTE_BITS * 0) = 1 /\ 2^(BYTE_BITS * 1) = ByteModulus
  /\ 2^(BYTE_BITS * 2) = HalfModulus /\ 2^(BYTE_BITS * 3) = HalfModulus * ByteModulus
  /\ 2^(BYTE_BITS - 1) \in Nat \ {0} /\ ByteModulus = 2 * 2^(BYTE_BITS - 1)
  /\ 2^(2 * BYTE_BITS - 1) \in Nat \ {0} /\ HalfModulus = 2 * 2^(2 * BYTE_BITS - 1)
  /\ 2^(DWIDTH - 1) \in Nat \ {0} /\ Modulus = 2 * 2^(DWIDTH - 1)
<1>0. BYTE_BITS \in Nat \ {0} /\ DWIDTH = 4 * BYTE_BITS /\ 2^0 = 1 /\ 2^1 = 2
  BY WidthAssumption, PowerAssumption DEF DWIDTH
<1>1. ASSUME NEW m \in Nat, NEW n \in Nat, m + n <= DWIDTH, NEW k, k = m + n
      PROVE  2^m \in Nat \ {0} /\ 2^k = 2^m * 2^n
  BY <1>0, <1>1, PowerAssumption
<1>9. ASSUME NEW k \in Nat \ {0}, k <= DWIDTH
      PROVE  2^(k - 1) \in Nat \ {0} /\ 2^k = 2 * 2^(k - 1)
  <2>1. PICK n \in Nat : n = k - 1
    BY <1>9
  <2>2. 2^n \in Nat \ {0}
    <3>1. n + 0 <= DWIDTH /\ 0 \in Nat /\ n = n + 0
      BY <1>0, <1>9, <2>1
    <3> QED BY <1>1, <3>1
  <2>3. 2^k = 2^1 * 2^n
    <3>1. 1 + n <= DWIDTH /\ 1 \in Nat /\ k = 1 + n
      BY <1>9, <2>1
    <3> QED BY <1>1, <3>1
  <2> QED BY <1>0, <2>1, <2>2, <2>3
<1>2. 2^(BYTE_BITS - 1) \in Nat \ {0} /\ 2^BYTE_BITS = 2 * 2^(BYTE_BITS - 1)
  <2>1. BYTE_BITS \in Nat \ {0} /\ BYTE_BITS <= DWIDTH
    BY <1>0
  <2> QED BY <1>9, <2>1
<1>3. 2^(2 * BYTE_BITS - 1) \in Nat \ {0} /\ 2^(2 * BYTE_BITS) = 2 * 2^(2 * BYTE_BITS - 1)
  <2>1. 2 * BYTE_BITS \in Nat \ {0} /\ 2 * BYTE_BITS <= DWIDTH
    BY <1>0
  <2> QED BY <1>9, <2>1
<1>4. 2^(DWIDTH - 1) \in Nat \ {0} /\ 2^DWIDTH = 2 * 2^(DWIDTH - 1)
  <2>1. DWIDTH \in Nat \ {0} /\ DWIDTH <= DWIDTH
    BY <1>0
  <2> QED BY <1>9, <2>1
<1>5. 2^(2 * BYTE_BITS) = 2^BYTE_BITS * 2^BYTE_BITS
  BY <1>0, <1>1
<1>6. 2^DWIDTH = 2^(2 * BYTE_BITS) * 2^(2 * BYTE_BITS)
  BY <1>0, <1>1
<1>7. 2^(3 * BYTE_BITS) = 2^(2 * BYTE_BITS) * 2^BYTE_BITS
  BY <1>0, <1>1
<1>8. BYTE_BITS * 0 = 0 /\ BYTE_BITS * 1 = BYTE_BITS /\ BYTE_BITS * 2 = 2 * BYTE_BITS
      /\ BYTE_BITS * 3 = 3 * BYTE_BITS
  BY <1>0
<1>10. 2^(BYTE_BITS * 0) = 2^0 /\ 2^(BYTE_BITS * 1) = 2^BYTE_BITS
       /\ 2^(BYTE_BITS * 2) = 2^(2 * BYTE_BITS) /\ 2^(BYTE_BITS * 3) = 2^(3 * BYTE_BITS)
  BY <1>8, Zenon
<1>11. ASSUME NEW x \in Nat \ {0}, NEW y, y = 2 * x
       PROVE  y \in Nat \ {0, 1}
  BY <1>11
<1>12. /\ ByteModulus \in Nat \ {0, 1} /\ HalfModulus \in Nat \ {0, 1}
       /\ Modulus \in Nat \ {0, 1}
  BY <1>2, <1>3, <1>4, <1>11 DEF ByteModulus, HalfModulus, Modulus
<1> QED BY <1>0, <1>2, <1>3, <1>4, <1>5, <1>6, <1>7, <1>10, <1>12
        DEF ByteModulus, HalfModulus, Modulus
-----------------------------------------------------------------------------
(* A word of four bytes.                                                   *)
B == ByteModulus
ByteVal == 0..(B - 1)
Word4(d0, d1, d2, d3) == (d3 * B + d2) * HalfModulus + (d1 * B + d0)

LEMMA Sizes ==
  /\ B \in Nat \ {0, 1} /\ HalfModulus \in Nat \ {0, 1} /\ Modulus \in Nat \ {0, 1}
  /\ HalfModulus = B * B /\ Modulus = HalfModulus * HalfModulus
BY Powers DEF B

LEMMA FourBytes ==
  ASSUME NEW d0 \in ByteVal, NEW d1 \in ByteVal, NEW d2 \in ByteVal, NEW d3 \in ByteVal,
         NEW x, x = Word4(d0, d1, d2, d3)
  PROVE  /\ x \in Value
         /\ LaneOf(x, 0) = d0 /\ LaneOf(x, 1) = d1 /\ LaneOf(x, 2) = d2 /\ LaneOf(x, 3) = d3
         /\ x % HalfModulus = d1 * B + d0 /\ (x \div HalfModulus) % HalfModulus = d3 * B + d2
         /\ x % ByteModulus = d0
<1> USE Sizes
<1>1. PICK lo \in 0..(HalfModulus - 1) : lo = d1 * B + d0
  BY TwoDigits DEF ByteVal
<1>2. PICK hi \in 0..(HalfModulus - 1) : hi = d3 * B + d2
  BY TwoDigits DEF ByteVal
<1>3. x = hi * HalfModulus + lo
  BY <1>1, <1>2 DEF Word4
<1>4. x \in 0..(Modulus - 1)
  BY <1>3, TwoDigits
<1>5. x \div HalfModulus = hi /\ x % HalfModulus = lo
  BY <1>3, DivUnique
<1>6. hi % HalfModulus = hi
  BY <1>2
<1>7. lo \div B = d1 /\ lo % B = d0 /\ hi \div B = d3 /\ hi % B = d2
  <2>1. d0 \in 0..(B - 1) /\ d1 \in Int /\ d2 \in 0..(B - 1) /\ d3 \in Int
    BY DEF ByteVal
  <2>2. lo \div B = d1 /\ lo % B = d0
    BY <1>1, <2>1, DivUnique
  <2>3. hi \div B = d3 /\ hi % B = d2
    BY <1>2, <2>1, DivUnique
  <2> QED BY <2>2, <2>3
<1>8. x % B = d0 /\ (x \div B) % B = d1
  <2>1. PICK p \in Nat : p = hi * B
    OBVIOUS
  <2>2. PICK y \in Int : y = p + d1
    BY DEF ByteVal
  <2>3. x = y * B + d0
    <3>1. (hi * B + d1) * B = hi * (B * B) + d1 * B
      BY Distribute DEF ByteVal
    <3>2. hi * (B * B) = hi * HalfModulus
      OBVIOUS
    <3>3. d1 * B \in Nat /\ hi * HalfModulus \in Nat /\ y * B = (hi * B + d1) * B
      BY <2>1, <2>2 DEF ByteVal
    <3> QED BY <1>1, <1>3, <3>1, <3>2, <3>3 DEF ByteVal
  <2>4. x \div B = y /\ x % B = d0
    BY <2>3, DivUnique DEF ByteVal
  <2>5. y = hi * B + d1
    BY <2>1, <2>2
  <2>6. y % B = d1
    <3>1. d1 \in 0..(B - 1) /\ hi \in Int
      BY DEF ByteVal
    <3> QED BY <2>5, <3>1, DivUnique
  <2> QED BY <2>4, <2>6
<1>9. (x \div (HalfModulus * B)) % B = d3
  <2>1. PICK t \in Nat \ {0} : t = HalfModulus * B
    OBVIOUS
  <2>2. PICK e \in 0..(t - 1) : e = d2 * HalfModulus + lo
    <3>1. d2 * HalfModulus + lo \in 0..(B * HalfModulus - 1)
      BY TwoDigits DEF ByteVal
    <3> QED BY <2>1, <3>1
  <2>3. x = d3 * t + e
    <3>1. (d3 * B + d2) * HalfModulus = d3 * (B * HalfModulus) + d2 * HalfModulus
      BY Distribute DEF ByteVal
    <3>2. d3 * (B * HalfModulus) = d3 * t /\ d3 * t \in Nat /\ d2 * HalfModulus \in Nat
      BY <2>1 DEF ByteVal
    <3>3. hi * HalfModulus = (d3 * B + d2) * HalfModulus
      BY <1>2
    <3> QED BY <1>3, <2>2, <3>1, <3>2, <3>3
  <2>4. x \div t = d3
    BY <2>3, DivUnique DEF ByteVal
  <2>5. d3 % B = d3
    BY DEF ByteVal
  <2> QED BY <2>1, <2>4, <2>5
<1>10. x \div 1 = x
  BY <1>4
<1>11. /\ LaneOf(x, 0) = (x \div 1) % B /\ LaneOf(x, 1) = (x \div B) % B
       /\ LaneOf(x, 2) = (x \div HalfModulus) % B
       /\ LaneOf(x, 3) = (x \div (HalfModulus * B)) % B
  BY Powers, Zenon DEF LaneOf, B
<1>12. x % ByteModulus = d0
  BY <1>8 DEF B
<1> QED BY <1>1, <1>2, <1>4, <1>5, <1>6, <1>7, <1>8, <1>9, <1>10, <1>11, <1>12 DEF Value

LEMMA WordOfBytes ==
  ASSUME NEW x \in Value
  PROVE  \E d0 \in ByteVal, d1 \in ByteVal, d2 \in ByteVal, d3 \in ByteVal :
           x = Word4(d0, d1, d2, d3)
<1> USE Sizes
<1>1. PICK hi \in Int, lo \in 0..(HalfModulus - 1) : x = hi * HalfModulus + lo /\ hi \in Nat
  <2>1. x \in Nat /\ x \in Int /\ HalfModulus \in Nat \ {0}
    BY DEF Value
  <2>2. \E h \in Int, l \in 0..(HalfModulus - 1) :
           h = x \div HalfModulus /\ l = x % HalfModulus /\ x = h * HalfModulus + l
             /\ (x \in Nat => h \in Nat)
    BY ONLY <2>1, DivMod, Zenon
  <2> QED BY ONLY <2>1, <2>2, Zenon
<1>2. hi < HalfModulus
  <2>1. CASE hi >= HalfModulus
    <3>1. (hi - HalfModulus) * HalfModulus \in Nat
          /\ (hi - HalfModulus) * HalfModulus = hi * HalfModulus - Modulus
      BY <1>1, <2>1
    <3>2. x <= Modulus - 1
      BY DEF Value
    <3> QED BY <1>1, <3>1, <3>2
  <2> QED BY <1>1, <2>1
<1>3. ASSUME NEW y \in 0..(HalfModulus - 1)
      PROVE  \E p \in ByteVal, q \in ByteVal : y = p * B + q
  <2>1. PICK p \in Int, q \in 0..(B - 1) : y = p * B + q /\ p \in Nat
    <3>1. y \in Nat /\ y \in Int /\ B \in Nat \ {0}
      OBVIOUS
    <3>2. \E p \in Int, q \in 0..(B - 1) :
             p = y \div B /\ q = y % B /\ y = p * B + q /\ (y \in Nat => p \in Nat)
      BY ONLY <3>1, DivMod, Zenon
    <3> QED BY ONLY <3>1, <3>2, Zenon
  <2>2. p < B
    <3>1. CASE p >= B
      <4>1. (p - B) * B \in Nat /\ (p - B) * B = p * B - HalfModulus
        BY <2>1, <3>1
      <4> QED BY <2>1, <4>1
    <3> QED BY <2>1, <3>1
  <2> QED BY <2>1, <2>2 DEF ByteVal
<1>4. PICK d1 \in ByteVal, d0 \in ByteVal : lo = d1 * B + d0
  BY <1>3
<1>5. PICK d3 \in ByteVal, d2 \in ByteVal : hi = d3 * B + d2
  BY <1>1, <1>2, <1>3
<1> QED BY <1>1, <1>4, <1>5 DEF Word4

(* Moved by whole bytes, a word loses its upper ones.                      *)
LEMMA MovedBytes ==
  ASSUME NEW d0 \in ByteVal, NEW d1 \in ByteVal, NEW d2 \in ByteVal, NEW d3 \in ByteVal,
         NEW x, x = Word4(d0, d1, d2, d3)
  PROVE  /\ wdata(0, x) = x
         /\ wdata(1, x) = Word4(0, d0, d1, d2)
         /\ wdata(2, x) = Word4(0, 0, d0, d1)
         /\ wdata(3, x) = Word4(0, 0, 0, d0)
<1> USE Sizes
<1>0. /\ d0 \in Int /\ d1 \in Int /\ d2 \in Int /\ d3 \in Int /\ 0 \in ByteVal
      /\ x \in Value /\ x \in Int
  BY FourBytes DEF ByteVal, Value
<1>1. /\ wdata(0, x) = (x * 1) % Modulus /\ wdata(1, x) = (x * B) % Modulus
      /\ wdata(2, x) = (x * HalfModulus) % Modulus
      /\ wdata(3, x) = (x * (HalfModulus * B)) % Modulus
  BY Powers, Zenon DEF wdata, ShiftLeft, B
<1>2. ASSUME NEW q \in Int, NEW y \in Value, NEW z, z = q * Modulus + y
      PROVE  z % Modulus = y
  <2>1. y \in 0..(Modulus - 1)
    BY DEF Value
  <2>2. PICK w \in Int : w = z /\ w = q * Modulus + y
    BY <1>2, <2>1
  <2>3. w % Modulus = y
    <3>1. PICK r \in 0..(Modulus - 1) : r = y
      BY <2>1
    <3>2. w = q * Modulus + r /\ q \in Int /\ r \in 0..(Modulus - 1) /\ Modulus \in Nat \ {0}
      BY <2>2, <3>1
    <3> QED BY ONLY <3>1, <3>2, DivUnique
  <2> QED BY <2>2, <2>3
<1>3. wdata(0, x) = x
  BY <1>0, <1>1 DEF Value
<1>4. wdata(1, x) = Word4(0, d0, d1, d2)
  <2>1. PICK y \in Value : y = (d2 * B + d1) * HalfModulus + (d0 * B + 0)
    BY <1>0, FourBytes DEF Word4
  <2>2. ((d3 * B + d2) * (B * B) + (d1 * B + d0)) * B
          = d3 * ((B * B) * (B * B)) + ((d2 * B + d1) * (B * B) + (d0 * B + 0))
    BY <1>0
  <2>3. x * B = d3 * Modulus + y
    BY <2>1, <2>2 DEF Word4
  <2>4. (x * B) % Modulus = y
    BY <1>0, <1>2, <2>3
  <2>5. y = Word4(0, d0, d1, d2)
    BY <2>1 DEF Word4
  <2> QED BY <1>1, <2>4, <2>5, Zenon
<1>5. wdata(2, x) = Word4(0, 0, d0, d1)
  <2>1. PICK y \in Value : y = (d1 * B + d0) * HalfModulus + (0 * B + 0)
    BY <1>0, FourBytes DEF Word4
  <2>2. ((d3 * B + d2) * HalfModulus + (d1 * B + d0)) * HalfModulus
          = (d3 * B + d2) * (HalfModulus * HalfModulus)
              + ((d1 * B + d0) * HalfModulus + (0 * B + 0))
    BY <1>0
  <2>3. x * HalfModulus = (d3 * B + d2) * Modulus + y
    BY <2>1, <2>2 DEF Word4
  <2>4. d3 * B + d2 \in Int
    BY <1>0
  <2>5. (x * HalfModulus) % Modulus = y
    <3>1. PICK q \in Int : q = d3 * B + d2
      BY <2>4
    <3>2. x * HalfModulus = q * Modulus + y
      BY <2>3, <3>1
    <3> QED BY <1>2, <3>2
  <2>6. y = Word4(0, 0, d0, d1)
    BY <2>1 DEF Word4
  <2> QED BY <1>1, <2>5, <2>6, Zenon
<1>6. wdata(3, x) = Word4(0, 0, 0, d0)
  <2>1. PICK y \in Value : y = (d0 * B + 0) * HalfModulus + (0 * B + 0)
    BY <1>0, FourBytes DEF Word4
  <2>2. ((d3 * B + d2) * HalfModulus + (d1 * B + d0)) * (HalfModulus * B)
          = ((d3 * B + d2) * B) * (HalfModulus * HalfModulus) + d1 * (HalfModulus * (B * B))
              + ((d0 * B + 0) * HalfModulus + (0 * B + 0))
    BY <1>0
  <2>3. PICK q \in Int : q = (d3 * B + d2) * B + d1
    BY <1>0
  <2>4. q * Modulus = ((d3 * B + d2) * B) * Modulus + d1 * Modulus
    BY <1>0, <2>3
  <2>5. x * (HalfModulus * B) = q * Modulus + y
    <3>1. x * (HalfModulus * B)
            = ((d3 * B + d2) * B) * Modulus + d1 * Modulus + y
      BY <2>1, <2>2 DEF Word4
    <3> QED BY <1>0, <2>4, <3>1
  <2>6. (x * (HalfModulus * B)) % Modulus = y
    BY <1>2, <2>3, <2>5
  <2>7. y = Word4(0, 0, 0, d0)
    BY <2>1 DEF Word4
  <2> QED BY <1>1, <2>6, <2>7, Zenon
<1> QED BY <1>3, <1>4, <1>5, <1>6

(* Written with byte enables, memory has the new bytes where they are set. *)
LEMMA StoredBytes ==
  ASSUME NEW old, NEW new, NEW lanes,
         \A l \in 0..3 : LaneOf(old, l) \in ByteVal /\ LaneOf(new, l) \in ByteVal
  PROVE  LET e(l) == IF l \in lanes THEN LaneOf(new, l) ELSE LaneOf(old, l)
         IN  Stored(old, new, lanes) = Word4(e(0), e(1), e(2), e(3))
<1> USE Sizes
<1> DEFINE e(l) == IF l \in lanes THEN LaneOf(new, l) ELSE LaneOf(old, l)
<1>1. e(0) \in ByteVal /\ e(1) \in ByteVal /\ e(2) \in ByteVal /\ e(3) \in ByteVal
  OBVIOUS
<1>2. \A l : LaneOf(IF l \in lanes THEN new ELSE old, l) = e(l)
  OBVIOUS
<1> HIDE DEF e
<1>3. Stored(old, new, lanes) = e(0) * 1 + e(1) * B + e(2) * HalfModulus + e(3) * (HalfModulus * B)
  <2>1. Stored(old, new, lanes)
          = LaneOf(IF 0 \in lanes THEN new ELSE old, 0) * 2^(BYTE_BITS * 0)
            + LaneOf(IF 1 \in lanes THEN new ELSE old, 1) * 2^(BYTE_BITS * 1)
            + LaneOf(IF 2 \in lanes THEN new ELSE old, 2) * 2^(BYTE_BITS * 2)
            + LaneOf(IF 3 \in lanes THEN new ELSE old, 3) * 2^(BYTE_BITS * 3)
    BY Zenon DEF Stored
  <2>2. /\ 2^(BYTE_BITS * 0) = 1 /\ 2^(BYTE_BITS * 1) = B
        /\ 2^(BYTE_BITS * 2) = HalfModulus /\ 2^(BYTE_BITS * 3) = HalfModulus * B
    BY Powers DEF B
  <2>3. /\ LaneOf(IF 0 \in lanes THEN new ELSE old, 0) = e(0)
        /\ LaneOf(IF 1 \in lanes THEN new ELSE old, 1) = e(1)
        /\ LaneOf(IF 2 \in lanes THEN new ELSE old, 2) = e(2)
        /\ LaneOf(IF 3 \in lanes THEN new ELSE old, 3) = e(3)
    BY <1>2, Zenon
  <2>4. Stored(old, new, lanes)
          = e(0) * 2^(BYTE_BITS * 0) + e(1) * 2^(BYTE_BITS * 1)
            + e(2) * 2^(BYTE_BITS * 2) + e(3) * 2^(BYTE_BITS * 3)
    BY <2>1, <2>3, Zenon
  <2> QED BY <2>2, <2>4, Zenon
<1>4. PICK e0 \in Int, e1 \in Int, e2 \in Int, e3 \in Int :
        e0 = e(0) /\ e1 = e(1) /\ e2 = e(2) /\ e3 = e(3)
  BY <1>1 DEF ByteVal
<1>5. e0 * 1 + e1 * B + e2 * HalfModulus + e3 * (HalfModulus * B)
        = (e3 * B + e2) * HalfModulus + (e1 * B + e0)
  OBVIOUS
<1>6. Stored(old, new, lanes) = Word4(e(0), e(1), e(2), e(3))
  BY <1>3, <1>4, <1>5 DEF Word4
<1> QED BY <1>6 DEF e

-----------------------------------------------------------------------------
(* The uppermost bit of a field of a word, and its extension.              *)
LEMMA UpperBit ==
  ASSUME NEW p \in Nat \ {0}, NEW m \in Nat \ {0}, m = 2 * p, NEW x \in Nat,
         NEW t \in 0..(m - 1), t = x % m
  PROVE  (x \div p) % 2 = 1 <=> t >= p
<1>1. PICK q \in Int : x = q * m + t
  <2>1. PICK k \in Int, r \in 0..(m - 1) : r = x % m /\ x = k * m + r
    <3>1. x \in Int
      OBVIOUS
    <3>2. \E k \in Int, r \in 0..(m - 1) :
             k = x \div m /\ r = x % m /\ x = k * m + r /\ (x \in Nat => k \in Nat)
      BY ONLY <3>1, m \in Nat \ {0}, DivMod, Zenon
    <3> QED BY ONLY <3>2, Zenon
  <2>2. r = t
    BY <2>1
  <2> QED BY <2>1, <2>2
<1>2. PICK s \in 0..1, u \in 0..(p - 1) : t = s * p + u
  <2>1. CASE t < p
    <3>1. 0 \in 0..1 /\ t \in 0..(p - 1) /\ t = 0 * p + t
      BY <2>1
    <3> QED BY <3>1
  <2>2. CASE t >= p
    <3>1. 1 \in 0..1 /\ t - p \in 0..(p - 1) /\ t = 1 * p + (t - p)
      BY <2>2
    <3> QED BY <3>1
  <2> QED BY <2>1, <2>2
<1>3. PICK y \in Int : y = 2 * q + s
  OBVIOUS
<1>4. x = y * p + u
  <2>1. (2 * q + s) * p = q * (2 * p) + s * p
    OBVIOUS
  <2>2. y * p = q * m + s * p
    BY <1>3, <2>1
  <2>3. q * m \in Int /\ s * p \in Int
    OBVIOUS
  <2>4. PICK qm \in Int, sp \in Int : qm = q * m /\ sp = s * p
    BY <2>3
  <2>5. x = qm + t /\ t = sp + u /\ y * p = qm + sp
    BY <1>1, <1>2, <2>2, <2>4
  <2> QED BY <2>5
<1>5. x \div p = y
  BY <1>4, DivUnique
<1>6. y % 2 = s
  BY <1>3
<1>7. s = 1 <=> t >= p
  <2>1. s = 0 \/ s = 1
    OBVIOUS
  <2> QED BY <1>2, <2>1
<1> QED BY <1>5, <1>6, <1>7

LEMMA Extended ==
  ASSUME NEW p \in Nat \ {0}, NEW m \in Nat \ {0}, m = 2 * p, NEW c \in Nat \ {0},
         Modulus = c * m, NEW t \in 0..(m - 1)
  PROVE  /\ SignExtend(t, m) % m = t
         /\ SignExtend(t, m) >= Modulus \div 2 <=> t >= p
<1> USE Sizes
<1>1. c * p \in Nat /\ c * m = 2 * (c * p) /\ (c - 1) * p \in Nat /\ (c - 1) * p = c * p - p
  OBVIOUS
<1>2. Modulus \div 2 = c * p /\ m \div 2 = p
  BY <1>1
<1>3. CASE t < p
  <2>1. SignExtend(t, m) = t
    BY <1>2, <1>3 DEF SignExtend
  <2> QED BY <1>1, <1>2, <1>3, <2>1
<1>4. CASE t >= p
  <2>1. SignExtend(t, m) = t + Modulus - m
    BY <1>2, <1>4 DEF SignExtend
  <2>2. PICK y \in Int : y = t + Modulus - m
    OBVIOUS
  <2>3. y = (c - 1) * m + t
    <3>1. (c - 1) * m = c * m - m
      OBVIOUS
    <3> QED BY <2>2, <3>1
  <2>4. y % m = t
    <3>1. PICK d \in Int : d = c - 1
      OBVIOUS
    <3>2. y = d * m + t
      BY <2>3, <3>1
    <3> QED BY <3>2, DivUnique
  <2>5. y >= c * p
    BY <1>1, <1>4, <2>2
  <2> QED BY <1>2, <1>4, <2>1, <2>2, <2>4, <2>5
<1> QED BY <1>3, <1>4

-----------------------------------------------------------------------------
(* What a load makes of the byte or half it finds.                         *)
LEMMA ByteLoaded ==
  ASSUME NEW x \in Value, NEW k \in 0..3, NEW mem, LaneOf(mem, k) = x % ByteModulus
  PROVE  /\ loadControl(4, k, mem) = x % ByteModulus
         /\ loadControl(0, k, mem) % ByteModulus = x % ByteModulus
         /\ loadControl(0, k, mem) >= Modulus \div 2 <=> BitAt(x, BYTE_BITS - 1) = 1
<1> USE Sizes
<1>1. /\ loadControl(4, k, mem) = LaneOf(mem, k)
      /\ loadControl(0, k, mem) = SignExtend(LaneOf(mem, k), ByteModulus)
  BY DEF loadControl, LaneOf
<1>2. PICK p \in Nat \ {0} : p = 2^(BYTE_BITS - 1) /\ ByteModulus = 2 * p
  BY Powers
<1>3. PICK t \in 0..(ByteModulus - 1) : t = x % ByteModulus
  BY Powers DEF Value
<1>4. PICK c \in Nat \ {0} : c = B * HalfModulus
  OBVIOUS
<1>5. Modulus = c * ByteModulus
  <2>1. (B * B) * (B * B) = (B * (B * B)) * B
    OBVIOUS
  <2> QED BY <1>4, <2>1 DEF B
<1>6. /\ SignExtend(t, ByteModulus) % ByteModulus = t
      /\ SignExtend(t, ByteModulus) >= Modulus \div 2 <=> t >= p
  BY <1>2, <1>5, Powers, Extended
<1>7. (x \div p) % 2 = 1 <=> t >= p
  <2>1. x \in Nat
    BY DEF Value
  <2> QED BY <1>2, <1>3, <2>1, Powers, UpperBit
<1>8. BitAt(x, BYTE_BITS - 1) = (x \div p) % 2
  BY <1>2 DEF BitAt
<1> QED BY <1>1, <1>3, <1>6, <1>7, <1>8

LEMMA HalfLoaded ==
  ASSUME NEW x \in Value, NEW k \in {0, 2}, NEW mem \in Value,
         k = 0 => mem % HalfModulus = x % HalfModulus,
         k = 2 => (mem \div HalfModulus) % HalfModulus = x % HalfModulus
  PROVE  /\ loadControl(5, k, mem) = x % HalfModulus
         /\ loadControl(1, k, mem) >= Modulus \div 2 <=> BitAt(x, 2 * BYTE_BITS - 1) = 1
<1> USE Sizes
<1>1. (mem \div 2^(2 * BYTE_BITS * (k \div 2))) % HalfModulus = x % HalfModulus
  <2>1. CASE k = 0
    <3>1. 2 * BYTE_BITS * (k \div 2) = BYTE_BITS * 0
      BY <2>1, WidthAssumption
    <3>2. 2^(2 * BYTE_BITS * (k \div 2)) = 1
      BY <3>1, Powers
    <3>3. mem \div 1 = mem
      BY DEF Value
    <3> QED BY <2>1, <3>2, <3>3
  <2>2. CASE k = 2
    <3>1. 2 * BYTE_BITS * (k \div 2) = BYTE_BITS * 2
      BY <2>2, WidthAssumption
    <3>2. 2^(2 * BYTE_BITS * (k \div 2)) = HalfModulus
      BY <3>1, Powers
    <3> QED BY <2>2, <3>2
  <2> QED BY <2>1, <2>2
<1>2. PICK t \in 0..(HalfModulus - 1) : t = x % HalfModulus
  BY DEF Value
<1>3. loadControl(5, k, mem) = t /\ loadControl(1, k, mem) = SignExtend(t, HalfModulus)
  BY <1>1, <1>2 DEF loadControl
<1>4. PICK p \in Nat \ {0} : p = 2^(2 * BYTE_BITS - 1) /\ HalfModulus = 2 * p
  BY Powers
<1>5. SignExtend(t, HalfModulus) >= Modulus \div 2 <=> t >= p
  BY <1>4, Powers, Extended
<1>6. (x \div p) % 2 = 1 <=> t >= p
  <2>1. x \in Nat
    BY DEF Value
  <2> QED BY <1>2, <1>4, <2>1, Powers, UpperBit
<1>7. BitAt(x, 2 * BYTE_BITS - 1) = (x \div p) % 2
  BY <1>4 DEF BitAt
<1> QED BY <1>2, <1>3, <1>5, <1>6, <1>7

LEMMA StoreLoad == ASSUME a \in Value, b \in Value PROVE StoreLoadRight
<1> USE Sizes
<1> DEFINE mem(t, k) == Stored(b, wdata(k, a), wbe(t, k))
<1>1. PICK a0 \in ByteVal, a1 \in ByteVal, a2 \in ByteVal, a3 \in ByteVal :
        a = Word4(a0, a1, a2, a3)
  BY WordOfBytes
<1>2. PICK b0 \in ByteVal, b1 \in ByteVal, b2 \in ByteVal, b3 \in ByteVal :
        b = Word4(b0, b1, b2, b3)
  BY WordOfBytes
<1>3. /\ mem(0, 0) = Word4(a0, b1, b2, b3) /\ mem(0, 1) = Word4(b0, a0, b2, b3)
      /\ mem(0, 2) = Word4(b0, b1, a0, b3) /\ mem(0, 3) = Word4(b0, b1, b2, a0)
      /\ mem(1, 0) = Word4(a0, a1, b2, b3) /\ mem(1, 2) = Word4(b0, b1, a0, a1)
      /\ mem(2, 0) = a
  <2>1. 0 \in ByteVal
    BY DEF ByteVal
  <2>2. ASSUME NEW n0 \in ByteVal, NEW n1 \in ByteVal, NEW n2 \in ByteVal, NEW n3 \in ByteVal,
               NEW w, w = Word4(n0, n1, n2, n3), NEW lanes
        PROVE  Stored(b, w, lanes)
                 = Word4(IF 0 \in lanes THEN n0 ELSE b0, IF 1 \in lanes THEN n1 ELSE b1,
                         IF 2 \in lanes THEN n2 ELSE b2, IF 3 \in lanes THEN n3 ELSE b3)
    <3>1. LaneOf(w, 0) = n0 /\ LaneOf(w, 1) = n1 /\ LaneOf(w, 2) = n2 /\ LaneOf(w, 3) = n3
      BY <2>2, FourBytes
    <3>2. LaneOf(b, 0) = b0 /\ LaneOf(b, 1) = b1 /\ LaneOf(b, 2) = b2 /\ LaneOf(b, 3) = b3
      BY <1>2, FourBytes
    <3>3. \A l \in 0..3 : LaneOf(b, l) \in ByteVal /\ LaneOf(w, l) \in ByteVal
      <4>1. \A l \in 0..3 : l = 0 \/ l = 1 \/ l = 2 \/ l = 3
        OBVIOUS
      <4> QED BY <3>1, <3>2, <4>1
    <3> QED BY <3>1, <3>2, <3>3, StoredBytes
  <2>3. /\ wbe(0, 0) = {0} /\ wbe(0, 1) = {1} /\ wbe(0, 2) = {2} /\ wbe(0, 3) = {3}
        /\ wbe(1, 0) = {0, 1} /\ wbe(1, 2) = {2, 3} /\ wbe(2, 0) = 0..3
    BY DEF wbe
  <2>4. /\ wdata(0, a) = Word4(a0, a1, a2, a3) /\ wdata(1, a) = Word4(0, a0, a1, a2)
        /\ wdata(2, a) = Word4(0, 0, a0, a1) /\ wdata(3, a) = Word4(0, 0, 0, a0)
    BY <1>1, MovedBytes
  <2>5. Stored(b, wdata(0, a), {0}) = Word4(a0, b1, b2, b3)
    BY <2>2, <2>4
  <2>6. Stored(b, wdata(1, a), {1}) = Word4(b0, a0, b2, b3)
    BY <2>1, <2>2, <2>4
  <2>7. Stored(b, wdata(2, a), {2}) = Word4(b0, b1, a0, b3)
    BY <2>1, <2>2, <2>4
  <2>8. Stored(b, wdata(3, a), {3}) = Word4(b0, b1, b2, a0)
    BY <2>1, <2>2, <2>4
  <2>9. Stored(b, wdata(0, a), {0, 1}) = Word4(a0, a1, b2, b3)
    BY <2>2, <2>4
  <2>10. Stored(b, wdata(2, a), {2, 3}) = Word4(b0, b1, a0, a1)
    BY <2>1, <2>2, <2>4
  <2>11. Stored(b, wdata(0, a), 0..3) = a
    BY <1>1, <2>2, <2>4
  <2> QED BY <2>3, <2>5, <2>6, <2>7, <2>8, <2>9, <2>10, <2>11
<1>4. /\ a % ByteModulus = a0 /\ a % HalfModulus = a1 * B + a0
      /\ LaneOf(b, 0) = b0 /\ LaneOf(b, 1) = b1 /\ LaneOf(b, 2) = b2 /\ LaneOf(b, 3) = b3
  BY <1>1, <1>2, FourBytes
<1>5. \A k \in 0..3 : k = 0 \/ k = 1 \/ k = 2 \/ k = 3
  OBVIOUS
<1> HIDE DEF mem
<1>6. ASSUME NEW k \in 0..3
      PROVE  /\ LaneOf(mem(0, k), k) = a % ByteModulus
             /\ \A l \in (0..3) \ {k} : LaneOf(mem(0, k), l) = LaneOf(b, l)
  <2>1. CASE k = 0
    <3>1. /\ LaneOf(mem(0, 0), 0) = a0 /\ LaneOf(mem(0, 0), 1) = b1
          /\ LaneOf(mem(0, 0), 2) = b2 /\ LaneOf(mem(0, 0), 3) = b3
      BY <1>3, FourBytes
    <3> QED BY <1>4, <1>5, <2>1, <3>1
  <2>2. CASE k = 1
    <3>1. /\ LaneOf(mem(0, 1), 0) = b0 /\ LaneOf(mem(0, 1), 1) = a0
          /\ LaneOf(mem(0, 1), 2) = b2 /\ LaneOf(mem(0, 1), 3) = b3
      BY <1>3, FourBytes
    <3> QED BY <1>4, <1>5, <2>2, <3>1
  <2>3. CASE k = 2
    <3>1. /\ LaneOf(mem(0, 2), 0) = b0 /\ LaneOf(mem(0, 2), 1) = b1
          /\ LaneOf(mem(0, 2), 2) = a0 /\ LaneOf(mem(0, 2), 3) = b3
      BY <1>3, FourBytes
    <3> QED BY <1>4, <1>5, <2>3, <3>1
  <2>4. CASE k = 3
    <3>1. /\ LaneOf(mem(0, 3), 0) = b0 /\ LaneOf(mem(0, 3), 1) = b1
          /\ LaneOf(mem(0, 3), 2) = b2 /\ LaneOf(mem(0, 3), 3) = a0
      BY <1>3, FourBytes
    <3> QED BY <1>4, <1>5, <2>4, <3>1
  <2> QED BY <1>5, <2>1, <2>2, <2>3, <2>4
<1>7. ASSUME NEW k \in {0, 2}
      PROVE  /\ mem(1, k) \in Value
             /\ k = 0 => mem(1, k) % HalfModulus = a % HalfModulus
             /\ k = 2 => (mem(1, k) \div HalfModulus) % HalfModulus = a % HalfModulus
             /\ \A l \in (0..3) \ {k, k + 1} : LaneOf(mem(1, k), l) = LaneOf(b, l)
  <2>1. CASE k = 0
    <3>1. /\ mem(1, 0) \in Value /\ mem(1, 0) % HalfModulus = a1 * B + a0
          /\ LaneOf(mem(1, 0), 2) = b2 /\ LaneOf(mem(1, 0), 3) = b3
      BY <1>3, FourBytes
    <3> QED BY <1>4, <1>5, <2>1, <3>1
  <2>2. CASE k = 2
    <3>1. /\ mem(1, 2) \in Value /\ (mem(1, 2) \div HalfModulus) % HalfModulus = a1 * B + a0
          /\ LaneOf(mem(1, 2), 0) = b0 /\ LaneOf(mem(1, 2), 1) = b1
      BY <1>3, FourBytes
    <3> QED BY <1>4, <1>5, <2>2, <3>1
  <2> QED BY <2>1, <2>2
<1>8. loadControl(2, 0, mem(2, 0)) = a
  BY <1>3 DEF loadControl
<1>9. ASSUME NEW k \in 0..3
      PROVE  /\ loadControl(4, k, mem(0, k)) = a % ByteModulus
             /\ loadControl(0, k, mem(0, k)) % ByteModulus = a % ByteModulus
             /\ (loadControl(0, k, mem(0, k)) >= Modulus \div 2) <=> BitAt(a, BYTE_BITS - 1) = 1
             /\ \A l \in (0..3) \ (k..(k + 1 - 1)) : LaneOf(mem(0, k), l) = LaneOf(b, l)
  <2>1. k..(k + 1 - 1) = {k}
    OBVIOUS
  <2> QED BY <1>6, <2>1, ByteLoaded
<1>10. ASSUME NEW k \in 0..3, k % 2 = 0
       PROVE  /\ loadControl(5, k, mem(1, k)) = a % HalfModulus
              /\ (loadControl(1, k, mem(1, k)) >= Modulus \div 2)
                   <=> BitAt(a, 2 * BYTE_BITS - 1) = 1
              /\ \A l \in (0..3) \ (k..(k + 2 - 1)) : LaneOf(mem(1, k), l) = LaneOf(b, l)
  <2>1. k..(k + 2 - 1) = {k, k + 1} /\ k \in {0, 2}
    BY <1>10
  <2>2. /\ loadControl(5, k, mem(1, k)) = a % HalfModulus
        /\ (loadControl(1, k, mem(1, k)) >= Modulus \div 2) <=> BitAt(a, 2 * BYTE_BITS - 1) = 1
    BY <1>7, <2>1, HalfLoaded
  <2> QED BY <1>7, <2>1, <2>2
<1> QED BY <1>8, <1>9, <1>10, Zenon DEF StoreLoadRight, mem

-----------------------------------------------------------------------------
(* Sums, differences and orders: a word is below its modulus, its sign is  *)
(* set when it is not below half of it.                                    *)
LEMMA SignBit ==
  ASSUME NEW x \in Value, NEW h \in Nat \ {0}, Modulus = 2 * h
  PROVE  /\ Msb(x) = IF x >= h THEN 1 ELSE 0
         /\ Signed(x) = IF x < h THEN x ELSE x - Modulus
         /\ Modulus \div 2 = h
<1> USE Sizes
<1>1. PICK p \in Nat \ {0} : p = 2^(DWIDTH - 1) /\ Modulus = 2 * p
  BY Powers
<1>2. p = h
  BY <1>1
<1>3. x \div h = IF x >= h THEN 1 ELSE 0
  <2>1. CASE x < h
    <3>1. PICK r \in 0..(h - 1) : r = x
      BY <2>1 DEF Value
    <3>2. x = 0 * h + r
      BY <3>1
    <3>3. x \div h = 0 /\ x \in Int
      BY <3>2, DivUnique
    <3> QED BY <2>1, <3>3
  <2>2. CASE x >= h
    <3>1. PICK r \in 0..(h - 1) : r = x - h
      BY <2>2 DEF Value
    <3>2. x = 1 * h + r
      BY <3>1 DEF Value
    <3>3. x \div h = 1 /\ x \in Int
      BY <3>2, DivUnique
    <3> QED BY <2>2, <3>3
  <2> QED BY <2>1, <2>2 DEF Value
<1>4. Msb(x) = (x \div h) % 2
  BY <1>1, <1>2 DEF Msb, BitAt
<1>5. Msb(x) = IF x >= h THEN 1 ELSE 0
  <2>1. 1 % 2 = 1 /\ 0 % 2 = 0
    OBVIOUS
  <2> QED BY <1>3, <1>4, <2>1
<1>6. Modulus \div 2 = h
  BY <1>2
<1>7. x < h <=> ~(x >= h)
  BY DEF Value
<1> QED BY <1>5, <1>6, <1>7 DEF Signed

LEMMA Reduced ==
  ASSUME NEW x \in Int, x >= -Modulus, x < 2 * Modulus
  PROVE  x % Modulus = IF x < 0 THEN x + Modulus ELSE IF x < Modulus THEN x ELSE x - Modulus
<1> USE Sizes
<1>1. CASE x < 0
  <2>1. PICK r \in 0..(Modulus - 1) : r = x + Modulus
    BY <1>1
  <2>2. x = (-1) * Modulus + r
    BY <2>1
  <2>3. x % Modulus = r
    <3>1. -1 \in Int
      OBVIOUS
    <3> QED BY <2>2, <3>1, DivUnique
  <2> QED BY <1>1, <2>1, <2>3
<1>2. CASE x >= 0 /\ x < Modulus
  BY <1>2
<1>3. CASE x >= Modulus
  <2>1. PICK r \in 0..(Modulus - 1) : r = x - Modulus
    BY <1>3
  <2>2. x = 1 * Modulus + r
    BY <2>1
  <2>3. x % Modulus = r
    BY <2>2, DivUnique
  <2> QED BY <1>3, <2>1, <2>3
<1> QED BY <1>1, <1>2, <1>3

LEMMA Adds == ASSUME a \in Value, b \in Value PROVE AdderExact
<1> USE Sizes
<1>1. PICK h \in Nat \ {0} : Modulus = 2 * h
  BY Powers
<1>2. PICK m \in Nat \ {0} : m = Modulus /\ m = 2 * h
  BY <1>1
<1>3. /\ a \in 0..(m - 1) /\ b \in 0..(m - 1) /\ m \div 2 = h
  BY <1>2 DEF Value
<1>4. ASSUME NEW x \in 0..(m - 1)
      PROVE  /\ Msb(x) = IF x >= h THEN 1 ELSE 0
             /\ Signed(x) = IF x < h THEN x ELSE x - m
  BY <1>1, <1>2, SignBit DEF Value
<1>5. ASSUME NEW x \in Int, x >= -m, x < 2 * m
      PROVE  x % m = IF x < 0 THEN x + m ELSE IF x < m THEN x ELSE x - m
  BY <1>2, <1>5, Reduced
<1>6. PICK s \in 0..(m - 1) : s = (a + b) % m /\ s = IF a + b < m THEN a + b ELSE a + b - m
  <2>1. a + b \in Int /\ a + b >= -m /\ a + b < 2 * m
    BY <1>3
  <2>2. (a + b) % m = IF a + b < m THEN a + b ELSE a + b - m
    BY <1>3, <1>5, <2>1
  <2> QED BY <1>3, <2>2
<1>7. PICK t \in 0..(m - 1) : t = NotW(b) /\ t = m - 1 - b
  BY <1>2, <1>3 DEF NotW
<1>8. PICK d \in 0..(m - 1) : d = (a + t + 1) % m /\ d = (a - b) % m
                              /\ d = IF a < b THEN a - b + m ELSE a - b
  <2>1. a + t + 1 \in Int /\ a + t + 1 >= -m /\ a + t + 1 < 2 * m
        /\ a - b \in Int /\ a - b >= -m /\ a - b < 2 * m
    BY <1>3, <1>7
  <2>2. (a + t + 1) % m = IF a < b THEN a - b + m ELSE a - b
    BY <1>3, <1>5, <1>7, <2>1
  <2>3. (a - b) % m = IF a < b THEN a - b + m ELSE a - b
    BY <1>3, <1>5, <2>1
  <2> QED BY <1>3, <2>2, <2>3
<1>9. /\ adder(a, b, 0).out = s
      /\ adder(a, b, 0).cf = (Flag(a + b >= m) + 0) % 2
      /\ adder(a, b, 0).of <=> Msb(a) = Msb(b) /\ Msb(s) # Msb(a)
  <2>1. PICK z \in Int : z = a + b + 0 /\ z = a + b /\ z % Modulus = s
    BY <1>2, <1>3, <1>6
  <2>2. adder(a, b, 0).out = z % Modulus
    BY <1>3, <2>1 DEF adder
  <2>3. adder(a, b, 0).cf = (Flag(z >= Modulus) + 0) % 2
    BY <1>3, <2>1 DEF adder
  <2>4. adder(a, b, 0).of = (Msb(a) = Msb(b) /\ Msb(s) # Msb(a))
    <3>1. z % Modulus = s /\ a + b + 0 = z /\ 0 # 1
      BY <2>1
    <3> QED BY <3>1, Zenon DEF adder
  <2> QED BY <1>2, <2>1, <2>2, <2>3, <2>4
<1>10. /\ adder(a, b, 1).out = d
       /\ adder(a, b, 1).cf = (Flag(a + t + 1 >= m) + 1) % 2
       /\ adder(a, b, 1).of <=> Msb(a) = Msb(t) /\ Msb(d) # Msb(a)
       /\ adder(a, b, 1).zf <=> d = 0
  BY <1>2, <1>7, <1>8 DEF adder
<1>11. adder(a, b, 0).cf = 1 <=> a + b >= m
  BY <1>9 DEF Flag
<1>12. adder(a, b, 1).cf = 1 <=> a < b
  BY <1>3, <1>7, <1>10 DEF Flag
<1>13. \A x : InSigned(x) <=> x >= -h /\ x < h
  BY <1>2, <1>3 DEF InSigned
<1>14. adder(a, b, 0).of <=> ~InSigned(Signed(a) + Signed(b))
  BY <1>2, <1>3, <1>4, <1>6, <1>9, <1>13
<1>15. adder(a, b, 1).of <=> ~InSigned(Signed(a) - Signed(b))
  BY <1>2, <1>3, <1>4, <1>7, <1>8, <1>10, <1>13
<1>16. adder(a, b, 1).zf <=> a = b
  BY <1>3, <1>8, <1>10
<1> QED BY <1>2, <1>6, <1>8, <1>9, <1>10, <1>11, <1>12, <1>14, <1>15, <1>16, Zenon
        DEF AdderExact

LEMMA Compares == ASSUME a \in Value, b \in Value PROVE CompareExact
<1> USE Sizes
<1>1. PICK h \in Nat \ {0} : Modulus = 2 * h
  BY Powers
<1>2. /\ a \in 0..(2 * h - 1) /\ b \in 0..(2 * h - 1) /\ Modulus \div 2 = h
  BY <1>1 DEF Value
<1>3. ASSUME NEW x \in Value
      PROVE  /\ Signed(x) = IF x < h THEN x ELSE x - 2 * h
             /\ (x + Modulus \div 2) % Modulus = IF x < h THEN x + h ELSE x - h
  <2>1. x \in 0..(2 * h - 1)
    BY <1>1 DEF Value
  <2>2. PICK y \in Int : y = x + h
    BY <2>1
  <2>3. y >= -Modulus /\ y < 2 * Modulus
    BY <1>1, <2>1, <2>2
  <2>4. y % Modulus = IF y < Modulus THEN y ELSE y - Modulus
    <3>1. y % Modulus
            = IF y < 0 THEN y + Modulus ELSE IF y < Modulus THEN y ELSE y - Modulus
      BY <2>3, Reduced
    <3> QED BY <2>1, <2>2, <3>1
  <2>5. (x + Modulus \div 2) % Modulus = y % Modulus
    BY <1>2, <2>2
  <2> QED BY <1>1, <2>1, <2>2, <2>4, <2>5, SignBit
<1>4. Signed(a) < Signed(b)
        <=> (a + Modulus \div 2) % Modulus < (b + Modulus \div 2) % Modulus
  BY <1>2, <1>3
<1>5. alu(a, b, 0, 2) = Flag(Signed(a) < Signed(b)) /\ alu(a, b, 0, 3) = Flag(a < b)
  BY DEF alu
<1>6. alu(a, b, 0, 2) = 1 <=> Signed(a) < Signed(b)
  BY <1>5 DEF Flag
<1>7. alu(a, b, 0, 3) = 1 <=> a < b
  BY <1>5 DEF Flag
<1>8. /\ brCond(4, a, b) <=> Signed(a) < Signed(b)
      /\ brCond(5, a, b) <=> ~(Signed(a) < Signed(b))
      /\ brCond(6, a, b) <=> a < b
      /\ brCond(7, a, b) <=> ~(a < b)
      /\ brCond(0, a, b) <=> a = b
      /\ brCond(1, a, b) <=> a # b
  BY DEF brCond
<1>9. ~(a < b) <=> a >= b
  BY <1>2
<1>10. ~((a + Modulus \div 2) % Modulus < (b + Modulus \div 2) % Modulus)
         <=> (a + Modulus \div 2) % Modulus >= (b + Modulus \div 2) % Modulus
  BY <1>2, <1>3
<1> QED BY <1>4, <1>6, <1>7, <1>8, <1>9, <1>10 DEF CompareExact

(* WordsExact, of adder.v, alu.v, brCond.v, storeControl.v, loadControl.v, *)
(* on every pair of words of every width: flags, orders and what a load    *)
(* takes out after a store.                                                *)
THEOREM WordsCorrect == WordsExact
BY Adds, Compares, StoreLoad DEF WordsExact

-----------------------------------------------------------------------------
(* The bits of an immediate: above its sign they are all the sign.         *)
LEMMA PowerLarge ==
  ASSUME NEW i \in 5..30
  PROVE  /\ 2^i \in Nat /\ 2^i >= 2^5
         /\ i >= 11 => 2^i >= 2^11
         /\ i >= 12 => 2^i >= 2^12
         /\ i >= 20 => 2^i >= 2^20
<1> DEFINE Large(n) == /\ 2^n \in Nat /\ 2^n >= 2^5
                       /\ n >= 11 => 2^n >= 2^11
                       /\ n >= 12 => 2^n >= 2^12
                       /\ n >= 20 => 2^n >= 2^20
<1>1. /\ Large(5) /\ Large(6) /\ Large(7) /\ Large(8) /\ Large(9) /\ Large(10) /\ Large(11)
      /\ Large(12) /\ Large(13) /\ Large(14) /\ Large(15) /\ Large(16) /\ Large(17)
      /\ Large(18) /\ Large(19) /\ Large(20) /\ Large(21) /\ Large(22) /\ Large(23)
      /\ Large(24) /\ Large(25) /\ Large(26) /\ Large(27) /\ Large(28) /\ Large(29) /\ Large(30)
  BY SMT
<1> HIDE DEF Large
<1>3. Large(i)
  <2>1. CASE i <= 17
    <3>1. \/ i = 5 \/ i = 6 \/ i = 7 \/ i = 8 \/ i = 9 \/ i = 10 \/ i = 11 \/ i = 12 \/ i = 13
          \/ i = 14 \/ i = 15 \/ i = 16 \/ i = 17
      BY <2>1, SMT
    <3> QED BY ONLY <1>1, <3>1, Zenon
  <2>2. CASE i > 17
    <3>1. \/ i = 18 \/ i = 19 \/ i = 20 \/ i = 21 \/ i = 22 \/ i = 23 \/ i = 24 \/ i = 25
          \/ i = 26 \/ i = 27 \/ i = 28 \/ i = 29 \/ i = 30
      BY <2>2, SMT
    <3> QED BY ONLY <1>1, <3>1, Zenon
  <2> QED BY <2>1, <2>2
<1> QED BY <1>3 DEF Large

LEMMA AboveSign ==
  ASSUME NEW v \in Int, NEW i \in 5..31,
         \/ v \in 0..31
         \/ v \in -(2^11)..(2^11 - 1) /\ i >= 11
         \/ v \in -(2^12)..(2^12 - 1) /\ i >= 12
         \/ v \in -(2^20)..(2^20 - 1) /\ i >= 20
  PROVE  ImmBit(v, i) = IF v < 0 THEN 1 ELSE 0
<1>1. CASE i = 31
  BY <1>1, SMT DEF ImmBit
<1>2. CASE i # 31
  <2>1. PICK p \in Nat \ {0} : p = 2^i /\ v >= -p /\ v < p
    <3>1. i \in 5..30
      BY <1>2
    <3>4. 2^i \in Nat /\ 2^i >= 2^5 /\ (i >= 11 => 2^i >= 2^11)
          /\ (i >= 12 => 2^i >= 2^12) /\ (i >= 20 => 2^i >= 2^20)
      BY <3>1, PowerLarge, Zenon
    <3>2. PICK p \in Nat : p = 2^i /\ p >= 2^5 /\ (i >= 11 => p >= 2^11)
                          /\ (i >= 12 => p >= 2^12) /\ (i >= 20 => p >= 2^20)
      BY <3>4, Zenon
    <3>3. p \in Nat \ {0} /\ v >= -p /\ v < p
      BY <3>2, SMT
    <3> QED BY <3>2, <3>3
  <2>2. CASE v < 0
    <3>1. PICK r \in 0..(p - 1) : r = v + p
      BY <2>1, <2>2, SMT
    <3>2. v = (-1) * p + r /\ -1 \in Int
      BY <3>1, SMT
    <3>3. v \div p = -1
      BY <3>2, DivUnique, SMT
    <3> QED BY <1>2, <2>1, <2>2, <3>3, SMT DEF ImmBit
  <2>3. CASE v >= 0
    <3>1. v \in 0..(p - 1) /\ v = 0 * p + v
      BY <2>1, <2>3, SMT
    <3>2. v \div p = 0
      BY <3>1, DivUnique, SMT
    <3> QED BY <1>2, <2>1, <2>3, <3>2, SMT DEF ImmBit
  <2> QED BY <2>2, <2>3, SMT
<1> QED BY <1>1, <1>2

LEMMA BelowUpper ==
  ASSUME NEW w \in Int, NEW i \in 0..11
  PROVE  ImmBit(2^12 * w, i) = 0
<1>1. /\ 2^0 = 1 /\ 2^1 = 2 /\ 2^2 = 4 /\ 2^3 = 8 /\ 2^4 = 16 /\ 2^5 = 32
      /\ 2^6 = 64 /\ 2^7 = 128 /\ 2^8 = 256 /\ 2^9 = 512 /\ 2^10 = 1024 /\ 2^11 = 2048
  BY SMT
<1>2. /\ (4096 * w) \div 1 = 2 * (2048 * w) /\ (4096 * w) \div 2 = 2 * (1024 * w)
      /\ (4096 * w) \div 4 = 2 * (512 * w) /\ (4096 * w) \div 8 = 2 * (256 * w)
      /\ (4096 * w) \div 16 = 2 * (128 * w) /\ (4096 * w) \div 32 = 2 * (64 * w)
      /\ (4096 * w) \div 64 = 2 * (32 * w) /\ (4096 * w) \div 128 = 2 * (16 * w)
      /\ (4096 * w) \div 256 = 2 * (8 * w) /\ (4096 * w) \div 512 = 2 * (4 * w)
      /\ (4096 * w) \div 1024 = 2 * (2 * w) /\ (4096 * w) \div 2048 = 2 * w
  BY SMT
<1>3. \A y \in Int : (2 * y) % 2 = 0
  BY SMT
<1>4. \/ i = 0 \/ i = 1 \/ i = 2 \/ i = 3 \/ i = 4 \/ i = 5
      \/ i = 6 \/ i = 7 \/ i = 8 \/ i = 9 \/ i = 10 \/ i = 11
  BY SMT
<1> DEFINE Even(n) == \E y \in Int : (2^12 * w) \div 2^n = 2 * y
<1>7. /\ Even(0) /\ Even(1) /\ Even(2) /\ Even(3) /\ Even(4) /\ Even(5) /\ Even(6)
      /\ Even(7) /\ Even(8) /\ Even(9) /\ Even(10) /\ Even(11)
  BY <1>1, <1>2, SMT
<1> HIDE DEF Even
<1>8. Even(i)
  BY <1>4, <1>7, Zenon
<1>5. PICK y \in Int : (2^12 * w) \div 2^i = 2 * y
  BY <1>8 DEF Even
<1>6. i # 31
  BY SMT
<1>9. ImmBit(2^12 * w, i) = ((2^12 * w) \div 2^i) % 2
  BY <1>6, Zenon DEF ImmBit
<1> QED BY <1>3, <1>5, <1>9, Zenon

LEMMA ImmediateSets ==
  /\ Immediates("I") = -(2^11)..(2^11 - 1) /\ Immediates("S") = -(2^11)..(2^11 - 1)
  /\ Immediates("CSR") = 0..31
  /\ Immediates("B") = {2 * v : v \in -(2^11)..(2^11 - 1)}
  /\ Immediates("J") = {2 * v : v \in -(2^19)..(2^19 - 1)}
  /\ Immediates("U") = {2^12 * v : v \in -(2^19)..(2^19 - 1)}
<1>1. Immediates("I") = -(2^11)..(2^11 - 1)
  BY DEF Immediates
<1>2. Immediates("S") = -(2^11)..(2^11 - 1)
  BY DEF Immediates
<1>3. Immediates("CSR") = 0..31
  BY DEF Immediates
<1>4. Immediates("B") = {2 * v : v \in -(2^11)..(2^11 - 1)}
  BY DEF Immediates
<1>5. Immediates("J") = {2 * v : v \in -(2^19)..(2^19 - 1)}
  BY DEF Immediates
<1>6. Immediates("U") = {2^12 * v : v \in -(2^19)..(2^19 - 1)}
  BY DEF Immediates
<1> QED BY <1>1, <1>2, <1>3, <1>4, <1>5, <1>6, Zenon

(* A bit of an instruction that a field of its format holds.               *)
LEMMA FieldBit ==
  ASSUME NEW f, NEW v, NEW fill, NEW i \in 7..31, NEW x \in Layout[f],
         i \in x.at..(x.at + x.width - 1),
         \A y \in Layout[f] : i \in y.at..(y.at + y.width - 1) => y = x
  PROVE  Encoded(f, v, fill)[i] = ImmBit(v, x.from + i - x.at)
<1>1. (CHOOSE y \in Layout[f] : i \in y.at..(y.at + y.width - 1)) = x
  OBVIOUS
<1>2. \E y \in Layout[f] : i \in y.at..(y.at + y.width - 1)
  OBVIOUS
<1> QED BY <1>1, <1>2, Zenon DEF Encoded

LEMMA ShortDecoded ==
  ASSUME NEW v \in Immediates("I"), NEW fill
  PROVE  immGen("I", Encoded("I", v, fill)) = [i \in 0..31 |-> ImmBit(v, i)]
<1> DEFINE inst == Encoded("I", v, fill)
<1>1. v \in -(2^11)..(2^11 - 1)
  BY ImmediateSets
<1>2. ASSUME NEW i \in 20..31 PROVE inst[i] = ImmBit(v, i - 20)
  <2>1. PICK x : x = Field(20, 0, 12)
    OBVIOUS
  <2>2. Layout["I"] = {x}
    BY <2>1 DEF Layout, Format
  <2>3. x.at = 20 /\ x.from = 0 /\ x.width = 12
    BY <2>1 DEF Field
  <2>4. inst[i] = ImmBit(v, x.from + i - x.at)
    BY <2>2, <2>3, FieldBit
  <2>5. x.from + i - x.at = i - 20
    BY <2>3
  <2> QED BY <2>4, <2>5
<1> HIDE DEF inst
<1>3. ASSUME NEW i \in 0..31
      PROVE  (IF i <= 10 THEN inst[i + 20] ELSE inst[31]) = ImmBit(v, i)
  <2>1. CASE i <= 10
    <3>1. i + 20 \in 20..31 /\ (i + 20) - 20 = i
      BY <2>1
    <3> QED BY <1>2, <2>1, <3>1
  <2>2. CASE ~(i <= 10)
    <3>1. inst[31] = ImmBit(v, 11)
      BY <1>2
    <3> QED BY <1>1, <2>2, <3>1, AboveSign, SMT
  <2> QED BY <2>1, <2>2
<1>4. immGen("I", inst) = [i \in 0..31 |-> IF i <= 10 THEN inst[i + 20] ELSE inst[31]]
  BY DEF immGen, ShortImm, Imm
<1>5. immGen("I", inst) = [i \in 0..31 |-> ImmBit(v, i)]
  BY <1>3, <1>4
<1> QED BY <1>5 DEF inst

LEMMA CsrDecoded ==
  ASSUME NEW v \in Immediates("CSR"), NEW fill
  PROVE  immGen("CSR", Encoded("CSR", v, fill)) = [i \in 0..31 |-> ImmBit(v, i)]
<1> DEFINE inst == Encoded("CSR", v, fill)
<1>1. v \in 0..31 /\ v \in Int
  <2>1. v \in Immediates("CSR")
    OBVIOUS
  <2>2. v \in 0..31
    BY <2>1, ImmediateSets, Zenon
  <2> QED BY <2>2, SMT
<1>2. Layout["CSR"] = {Field(15, 0, 5)}
  BY DEF Layout, Format
<1>3. ASSUME NEW i \in 15..19 PROVE inst[i] = ImmBit(v, i - 15)
  <2>1. PICK x : x = Field(15, 0, 5)
    OBVIOUS
  <2>2. x.at = 15 /\ x.from = 0 /\ x.width = 5
    BY <2>1 DEF Field
  <2>3. /\ x \in Layout["CSR"] /\ i \in 7..31 /\ i \in x.at..(x.at + x.width - 1)
        /\ \A y \in Layout["CSR"] : i \in y.at..(y.at + y.width - 1) => y = x
    BY <1>2, <2>1, <2>2 DEF Field
  <2>4. inst[i] = ImmBit(v, x.from + i - x.at)
    BY <2>3, FieldBit
  <2>5. x.from + i - x.at = i - 15
    BY <2>2
  <2> QED BY <2>4, <2>5
<1> HIDE DEF inst
<1>4. ASSUME NEW i \in 0..31
      PROVE  (IF i < 5 THEN inst[i + 15] ELSE 0) = ImmBit(v, i)
  <2>1. CASE i < 5
    <3>1. PICK j \in 15..19 : j = i + 15
      BY <2>1
    <3>2. inst[j] = ImmBit(v, i)
      <4>1. j - 15 = i
        BY <3>1
      <4> QED BY <1>3, <4>1
    <3> QED BY <2>1, <3>1, <3>2
  <2>2. CASE ~(i < 5)
    <3>1. i \in 5..31
      BY <2>2
    <3> QED BY <1>1, <2>2, <3>1, AboveSign, SMT
  <2> QED BY <2>1, <2>2
<1>5. immGen("CSR", inst) = [i \in 0..31 |-> IF i < 5 THEN inst[i + 15] ELSE 0]
  BY DEF immGen, CsrImm, Imm
<1>6. immGen("CSR", inst) = [i \in 0..31 |-> ImmBit(v, i)]
  BY <1>4, <1>5
<1> QED BY <1>6 DEF inst

LEMMA StoreDecoded ==
  ASSUME NEW v \in Immediates("S"), NEW fill
  PROVE  immGen("S", Encoded("S", v, fill)) = [i \in 0..31 |-> ImmBit(v, i)]
<1> DEFINE inst == Encoded("S", v, fill)
<1>1. v \in -(2^11)..(2^11 - 1) /\ v \in Int
  <2>1. v \in Immediates("S")
    OBVIOUS
  <2>2. v \in -(2^11)..(2^11 - 1)
    BY <2>1, ImmediateSets, Zenon
  <2> QED BY <2>2, SMT
<1>2. Layout["S"] = {Field(25, 5, 7), Field(7, 0, 5)}
  BY DEF Layout, Format
<1>3. ASSUME NEW i \in 25..31 PROVE inst[i] = ImmBit(v, i - 20)
  <2>1. PICK x : x = Field(25, 5, 7)
    OBVIOUS
  <2>2. x.at = 25 /\ x.from = 5 /\ x.width = 7
    BY <2>1 DEF Field
  <2>3. /\ x \in Layout["S"] /\ i \in 7..31 /\ i \in x.at..(x.at + x.width - 1)
        /\ \A y \in Layout["S"] : i \in y.at..(y.at + y.width - 1) => y = x
    BY <1>2, <2>1, <2>2 DEF Field
  <2>4. inst[i] = ImmBit(v, x.from + i - x.at)
    BY <2>3, FieldBit
  <2>5. x.from + i - x.at = i - 20
    BY <2>2
  <2> QED BY <2>4, <2>5
<1>4. ASSUME NEW i \in 7..11 PROVE inst[i] = ImmBit(v, i - 7)
  <2>1. PICK x : x = Field(7, 0, 5)
    OBVIOUS
  <2>2. x.at = 7 /\ x.from = 0 /\ x.width = 5
    BY <2>1 DEF Field
  <2>3. /\ x \in Layout["S"] /\ i \in 7..31 /\ i \in x.at..(x.at + x.width - 1)
        /\ \A y \in Layout["S"] : i \in y.at..(y.at + y.width - 1) => y = x
    BY <1>2, <2>1, <2>2 DEF Field
  <2>4. inst[i] = ImmBit(v, x.from + i - x.at)
    BY <2>3, FieldBit
  <2>5. x.from + i - x.at = i - 7
    BY <2>2
  <2> QED BY <2>4, <2>5
<1> HIDE DEF inst
<1>5. ASSUME NEW i \in 0..31
      PROVE  (CASE i \in 0..4 -> inst[i + 7] [] i \in 5..10 -> inst[i + 20] [] i >= 11 -> inst[31])
               = ImmBit(v, i)
  <2>1. CASE i \in 0..4
    <3>1. PICK j \in 7..11 : j = i + 7
      BY <2>1
    <3>2. inst[j] = ImmBit(v, i)
      <4>1. j - 7 = i
        BY <3>1
      <4> QED BY <1>4, <4>1
    <3> QED BY <2>1, <3>1, <3>2
  <2>2. CASE i \in 5..10
    <3>1. PICK j \in 25..31 : j = i + 20
      BY <2>2
    <3>2. inst[j] = ImmBit(v, i)
      <4>1. j - 20 = i
        BY <3>1
      <4> QED BY <1>3, <4>1
    <3> QED BY <2>2, <3>1, <3>2
  <2>3. CASE i >= 11
    <3>1. inst[31] = ImmBit(v, 11)
      BY <1>3
    <3>2. ImmBit(v, 11) = ImmBit(v, i)
      BY <1>1, <2>3, AboveSign, SMT
    <3> QED BY <2>3, <3>1, <3>2
  <2> QED BY <2>1, <2>2, <2>3
<1>6. immGen("S", inst)
      = [i \in 0..31 |-> CASE i \in 0..4 -> inst[i + 7] [] i \in 5..10 -> inst[i + 20]
                           [] i >= 11 -> inst[31]]
  BY DEF immGen, StoreImm, Imm
<1>7. immGen("S", inst) = [i \in 0..31 |-> ImmBit(v, i)]
  BY <1>5, <1>6
<1> QED BY <1>7 DEF inst

LEMMA BranchDecoded ==
  ASSUME NEW v \in Immediates("B"), NEW fill
  PROVE  immGen("B", Encoded("B", v, fill)) = [i \in 0..31 |-> ImmBit(v, i)]
<1> DEFINE inst == Encoded("B", v, fill)
<1>0. PICK w \in -(2^11)..(2^11 - 1) : v = 2 * w
  BY ImmediateSets, Zenon
<1>1. v \in -(2^12)..(2^12 - 1) /\ v \in Int
  BY <1>0, SMT
<1>2. Layout["B"] = {Field(31, 12, 1), Field(25, 5, 6), Field(8, 1, 4), Field(7, 11, 1)}
  BY DEF Layout, Format
<1>3. ASSUME NEW i \in 31..31 PROVE inst[i] = ImmBit(v, i - 19)
  <2>1. PICK x : x = Field(31, 12, 1)
    OBVIOUS
  <2>2. x.at = 31 /\ x.from = 12 /\ x.width = 1
    BY <2>1 DEF Field
  <2>3. /\ x \in Layout["B"] /\ i \in 7..31 /\ i \in x.at..(x.at + x.width - 1)
        /\ \A y \in Layout["B"] : i \in y.at..(y.at + y.width - 1) => y = x
    BY <1>2, <2>1, <2>2 DEF Field
  <2>4. inst[i] = ImmBit(v, x.from + i - x.at)
    BY <2>3, FieldBit
  <2>5. x.from + i - x.at = i - 19
    BY <2>2
  <2> QED BY <2>4, <2>5
<1>4. ASSUME NEW i \in 25..30 PROVE inst[i] = ImmBit(v, i - 20)
  <2>1. PICK x : x = Field(25, 5, 6)
    OBVIOUS
  <2>2. x.at = 25 /\ x.from = 5 /\ x.width = 6
    BY <2>1 DEF Field
  <2>3. /\ x \in Layout["B"] /\ i \in 7..31 /\ i \in x.at..(x.at + x.width - 1)
        /\ \A y \in Layout["B"] : i \in y.at..(y.at + y.width - 1) => y = x
    BY <1>2, <2>1, <2>2 DEF Field
  <2>4. inst[i] = ImmBit(v, x.from + i - x.at)
    BY <2>3, FieldBit
  <2>5. x.from + i - x.at = i - 20
    BY <2>2
  <2> QED BY <2>4, <2>5
<1>5. ASSUME NEW i \in 8..11 PROVE inst[i] = ImmBit(v, i - 7)
  <2>1. PICK x : x = Field(8, 1, 4)
    OBVIOUS
  <2>2. x.at = 8 /\ x.from = 1 /\ x.width = 4
    BY <2>1 DEF Field
  <2>3. /\ x \in Layout["B"] /\ i \in 7..31 /\ i \in x.at..(x.at + x.width - 1)
        /\ \A y \in Layout["B"] : i \in y.at..(y.at + y.width - 1) => y = x
    BY <1>2, <2>1, <2>2 DEF Field
  <2>4. inst[i] = ImmBit(v, x.from + i - x.at)
    BY <2>3, FieldBit
  <2>5. x.from + i - x.at = i - 7
    BY <2>2
  <2> QED BY <2>4, <2>5
<1>6. ASSUME NEW i \in 7..7 PROVE inst[i] = ImmBit(v, i + 4)
  <2>1. PICK x : x = Field(7, 11, 1)
    OBVIOUS
  <2>2. x.at = 7 /\ x.from = 11 /\ x.width = 1
    BY <2>1 DEF Field
  <2>3. /\ x \in Layout["B"] /\ i \in 7..31 /\ i \in x.at..(x.at + x.width - 1)
        /\ \A y \in Layout["B"] : i \in y.at..(y.at + y.width - 1) => y = x
    BY <1>2, <2>1, <2>2 DEF Field
  <2>4. inst[i] = ImmBit(v, x.from + i - x.at)
    BY <2>3, FieldBit
  <2>5. x.from + i - x.at = i + 4
    BY <2>2
  <2> QED BY <2>4, <2>5
<1> HIDE DEF inst
<1>7. ASSUME NEW i \in 0..31
      PROVE  (CASE i = 0 -> 0 [] i \in 1..4 -> inst[i + 7] [] i \in 5..10 -> inst[i + 20]
                [] i = 11 -> inst[7] [] i >= 12 -> inst[31]) = ImmBit(v, i)
  <2>1. CASE i = 0
    <3>1. w \in Int /\ v = 2 * w
      BY <1>0, SMT
    <3>2. ImmBit(v, 0) = ((2 * w) \div 1) % 2
      BY <3>1, PowerAssumption DEF ImmBit
    <3> QED BY <2>1, <3>2
  <2>2. CASE i \in 1..4
    <3>1. PICK j \in 8..11 : j = i + 7
      BY <2>2
    <3>2. inst[j] = ImmBit(v, i)
      <4>1. j - 7 = i
        BY <3>1
      <4> QED BY <1>5, <4>1
    <3> QED BY <2>2, <3>1, <3>2
  <2>3. CASE i \in 5..10
    <3>1. PICK j \in 25..30 : j = i + 20
      BY <2>3
    <3>2. inst[j] = ImmBit(v, i)
      <4>1. j - 20 = i
        BY <3>1
      <4> QED BY <1>4, <4>1
    <3> QED BY <2>3, <3>1, <3>2
  <2>4. CASE i = 11
    <3>1. inst[7] = ImmBit(v, 7 + 4)
      BY <1>6
    <3> QED BY <2>4, <3>1
  <2>5. CASE i >= 12
    <3>1. inst[31] = ImmBit(v, 12)
      BY <1>3
    <3>2. ImmBit(v, 12) = ImmBit(v, i)
      BY <1>1, <2>5, AboveSign, SMT
    <3> QED BY <2>5, <3>1, <3>2
  <2> QED BY <2>1, <2>2, <2>3, <2>4, <2>5
<1>8. immGen("B", inst)
      = [i \in 0..31 |-> CASE i = 0 -> 0 [] i \in 1..4 -> inst[i + 7] [] i \in 5..10 -> inst[i + 20]
                           [] i = 11 -> inst[7] [] i >= 12 -> inst[31]]
  BY DEF immGen, BranchImm, Imm
<1>9. immGen("B", inst) = [i \in 0..31 |-> ImmBit(v, i)]
  BY <1>7, <1>8
<1> QED BY <1>9 DEF inst

LEMMA JumpDecoded ==
  ASSUME NEW v \in Immediates("J"), NEW fill
  PROVE  immGen("J", Encoded("J", v, fill)) = [i \in 0..31 |-> ImmBit(v, i)]
<1> DEFINE inst == Encoded("J", v, fill)
<1>0. PICK w \in -(2^19)..(2^19 - 1) : v = 2 * w
  BY ImmediateSets, Zenon
<1>1. v \in -(2^20)..(2^20 - 1) /\ v \in Int
  BY <1>0, SMT
<1>2. Layout["J"] = {Field(31, 20, 1), Field(21, 1, 10), Field(20, 11, 1), Field(12, 12, 8)}
  BY DEF Layout, Format
<1>3. ASSUME NEW i \in 31..31 PROVE inst[i] = ImmBit(v, i - 11)
  <2>1. PICK x : x = Field(31, 20, 1)
    OBVIOUS
  <2>2. x.at = 31 /\ x.from = 20 /\ x.width = 1
    BY <2>1 DEF Field
  <2>3. /\ x \in Layout["J"] /\ i \in 7..31 /\ i \in x.at..(x.at + x.width - 1)
        /\ \A y \in Layout["J"] : i \in y.at..(y.at + y.width - 1) => y = x
    BY <1>2, <2>1, <2>2 DEF Field
  <2>4. inst[i] = ImmBit(v, x.from + i - x.at)
    BY <2>3, FieldBit
  <2>5. x.from + i - x.at = i - 11
    BY <2>2
  <2> QED BY <2>4, <2>5
<1>4. ASSUME NEW i \in 21..30 PROVE inst[i] = ImmBit(v, i - 20)
  <2>1. PICK x : x = Field(21, 1, 10)
    OBVIOUS
  <2>2. x.at = 21 /\ x.from = 1 /\ x.width = 10
    BY <2>1 DEF Field
  <2>3. /\ x \in Layout["J"] /\ i \in 7..31 /\ i \in x.at..(x.at + x.width - 1)
        /\ \A y \in Layout["J"] : i \in y.at..(y.at + y.width - 1) => y = x
    BY <1>2, <2>1, <2>2 DEF Field
  <2>4. inst[i] = ImmBit(v, x.from + i - x.at)
    BY <2>3, FieldBit
  <2>5. x.from + i - x.at = i - 20
    BY <2>2
  <2> QED BY <2>4, <2>5
<1>5. ASSUME NEW i \in 20..20 PROVE inst[i] = ImmBit(v, i - 9)
  <2>1. PICK x : x = Field(20, 11, 1)
    OBVIOUS
  <2>2. x.at = 20 /\ x.from = 11 /\ x.width = 1
    BY <2>1 DEF Field
  <2>3. /\ x \in Layout["J"] /\ i \in 7..31 /\ i \in x.at..(x.at + x.width - 1)
        /\ \A y \in Layout["J"] : i \in y.at..(y.at + y.width - 1) => y = x
    BY <1>2, <2>1, <2>2 DEF Field
  <2>4. inst[i] = ImmBit(v, x.from + i - x.at)
    BY <2>3, FieldBit
  <2>5. x.from + i - x.at = i - 9
    BY <2>2
  <2> QED BY <2>4, <2>5
<1>6. ASSUME NEW i \in 12..19 PROVE inst[i] = ImmBit(v, i)
  <2>1. PICK x : x = Field(12, 12, 8)
    OBVIOUS
  <2>2. x.at = 12 /\ x.from = 12 /\ x.width = 8
    BY <2>1 DEF Field
  <2>3. /\ x \in Layout["J"] /\ i \in 7..31 /\ i \in x.at..(x.at + x.width - 1)
        /\ \A y \in Layout["J"] : i \in y.at..(y.at + y.width - 1) => y = x
    BY <1>2, <2>1, <2>2 DEF Field
  <2>4. inst[i] = ImmBit(v, x.from + i - x.at)
    BY <2>3, FieldBit
  <2>5. x.from + i - x.at = i
    BY <2>2
  <2> QED BY <2>4, <2>5
<1> HIDE DEF inst
<1>7. ASSUME NEW i \in 0..31
      PROVE  (CASE i = 0 -> 0 [] i \in 1..10 -> inst[i + 20] [] i = 11 -> inst[20]
                [] i \in 12..19 -> inst[i] [] i >= 20 -> inst[31]) = ImmBit(v, i)
  <2>1. CASE i = 0
    <3>1. w \in Int /\ v = 2 * w
      BY <1>0, SMT
    <3>2. ImmBit(v, 0) = ((2 * w) \div 1) % 2
      BY <3>1, PowerAssumption DEF ImmBit
    <3> QED BY <2>1, <3>2
  <2>2. CASE i \in 1..10
    <3>1. PICK j \in 21..30 : j = i + 20
      BY <2>2
    <3>2. inst[j] = ImmBit(v, i)
      <4>1. j - 20 = i
        BY <3>1
      <4> QED BY <1>4, <4>1
    <3> QED BY <2>2, <3>1, <3>2
  <2>3. CASE i = 11
    <3>1. inst[20] = ImmBit(v, 20 - 9)
      BY <1>5
    <3> QED BY <2>3, <3>1
  <2>4. CASE i \in 12..19
    <3>1. PICK j \in 12..19 : j = i
      BY <2>4
    <3>2. inst[j] = ImmBit(v, i)
      <4>1. j = i
        BY <3>1
      <4> QED BY <1>6, <4>1
    <3> QED BY <2>4, <3>1, <3>2
  <2>5. CASE i >= 20
    <3>1. inst[31] = ImmBit(v, 20)
      BY <1>3
    <3>2. ImmBit(v, 20) = ImmBit(v, i)
      BY <1>1, <2>5, AboveSign, SMT
    <3> QED BY <2>5, <3>1, <3>2
  <2> QED BY <2>1, <2>2, <2>3, <2>4, <2>5
<1>8. immGen("J", inst)
      = [i \in 0..31 |-> CASE i = 0 -> 0 [] i \in 1..10 -> inst[i + 20] [] i = 11 -> inst[20]
                           [] i \in 12..19 -> inst[i] [] i >= 20 -> inst[31]]
  BY DEF immGen, JumpImm, Imm
<1>9. immGen("J", inst) = [i \in 0..31 |-> ImmBit(v, i)]
  BY <1>7, <1>8
<1> QED BY <1>9 DEF inst

LEMMA UpperDecoded ==
  ASSUME NEW v \in Immediates("U"), NEW fill
  PROVE  immGen("U", Encoded("U", v, fill)) = [i \in 0..31 |-> ImmBit(v, i)]
<1> DEFINE inst == Encoded("U", v, fill)
<1>0. PICK w \in -(2^19)..(2^19 - 1) : v = 2^12 * w
  BY ImmediateSets, Zenon
<1>1. v \in Int
  BY <1>0, SMT
<1>2. Layout["U"] = {Field(12, 12, 20)}
  BY DEF Layout, Format
<1>3. ASSUME NEW i \in 12..31 PROVE inst[i] = ImmBit(v, i)
  <2>1. PICK x : x = Field(12, 12, 20)
    OBVIOUS
  <2>2. x.at = 12 /\ x.from = 12 /\ x.width = 20
    BY <2>1 DEF Field
  <2>3. /\ x \in Layout["U"] /\ i \in 7..31 /\ i \in x.at..(x.at + x.width - 1)
        /\ \A y \in Layout["U"] : i \in y.at..(y.at + y.width - 1) => y = x
    BY <1>2, <2>1, <2>2 DEF Field
  <2>4. inst[i] = ImmBit(v, x.from + i - x.at)
    BY <2>3, FieldBit
  <2>5. x.from + i - x.at = i
    BY <2>2
  <2> QED BY <2>4, <2>5
<1> HIDE DEF inst
<1>4. ASSUME NEW i \in 0..31
      PROVE  (IF i >= 12 THEN inst[i] ELSE 0) = ImmBit(v, i)
  <2>1. CASE i >= 12
    <3>1. PICK j \in 12..31 : j = i
      BY <2>1
    <3>2. inst[j] = ImmBit(v, i)
      <4>1. j = i
        BY <3>1
      <4> QED BY <1>3, <4>1
    <3> QED BY <2>1, <3>1, <3>2
  <2>2. CASE ~(i >= 12)
    <3>1. w \in Int /\ v = 2^12 * w
      BY <1>0, SMT
    <3>2. i \in 0..11
      BY <2>2
    <3> QED BY <2>2, <3>1, <3>2, BelowUpper
  <2> QED BY <2>1, <2>2
<1>5. immGen("U", inst) = [i \in 0..31 |-> IF i >= 12 THEN inst[i] ELSE 0]
  BY DEF immGen, UpperImm, Imm
<1>6. immGen("U", inst) = [i \in 0..31 |-> ImmBit(v, i)]
  BY <1>4, <1>5
<1> QED BY <1>6 DEF inst

(* ImmediateDecoded, of immGen.v: every immediate of every format comes    *)
(* out of the instruction that an assembler put it into.                   *)
THEOREM ImmediateCorrect ==
  ASSUME format \in Format, value \in Immediates(format), rest \in Bit
  PROVE  ImmediateDecoded
<1>1. \/ format = "I" \/ format = "S" \/ format = "B"
      \/ format = "U" \/ format = "J" \/ format = "CSR"
  BY DEF Format
<1>2. CASE format = "I"
  BY <1>2, ShortDecoded, Zenon DEF ImmediateDecoded
<1>3. CASE format = "S"
  BY <1>3, StoreDecoded, Zenon DEF ImmediateDecoded
<1>4. CASE format = "B"
  BY <1>4, BranchDecoded, Zenon DEF ImmediateDecoded
<1>5. CASE format = "U"
  BY <1>5, UpperDecoded, Zenon DEF ImmediateDecoded
<1>6. CASE format = "J"
  BY <1>6, JumpDecoded, Zenon DEF ImmediateDecoded
<1>7. CASE format = "CSR"
  BY <1>7, CsrDecoded, Zenon DEF ImmediateDecoded
<1> QED BY <1>1, <1>2, <1>3, <1>4, <1>5, <1>6, <1>7

-----------------------------------------------------------------------------
(* Induction, by the least number that is not in a set.                    *)
LEMMA LeastNatural ==
  ASSUME NEW T \in SUBSET Nat, T # {}
  PROVE  \E x \in T : \A y \in T : x <= y
<1>1. PICK x \in T : \A y \in T : ~ (<<y, x>> \in OpToRel(<, Nat))
  BY NatLessThanWellFounded, WFMin
<1>2. ASSUME NEW y \in T PROVE x <= y
  <2>1. <<y, x>> \notin OpToRel(<, Nat) /\ <<y, x>> \in Nat \X Nat
    BY <1>1
  <2>2. ~(y < x)
    BY <2>1 DEF OpToRel
  <2> QED BY <2>2
<1> QED BY <1>2

LEMMA UpTo ==
  ASSUME NEW N \in Nat, NEW S, 0 \in S, \A n \in 0..(N - 1) : n \in S => n + 1 \in S
  PROVE  \A n \in 0..N : n \in S
<1> DEFINE T == (0..N) \ S
<1>1. SUFFICES ASSUME T # {} PROVE FALSE
  OBVIOUS
<1>2. PICK x \in T : \A y \in T : x <= y
  <2>1. T \in SUBSET Nat
    OBVIOUS
  <2> QED BY <1>1, <2>1, LeastNatural
<1>3. x \in 1..N /\ x \notin S
  OBVIOUS
<1>4. PICK n \in 0..(N - 1) : x = n + 1
  BY <1>3
<1>5. n \in S
  <2>1. n \notin T
    BY <1>2, <1>4
  <2> QED BY <2>1
<1> QED BY <1>3, <1>4, <1>5

(* A function on 0..N given by its first value and by what each one makes  *)
(* of the one before.                                                      *)
LEMMA Recursion ==
  ASSUME NEW N \in Nat, NEW base \in Int, NEW step \in [1..N -> [Int -> Int]]
  PROVE  \E f \in [0..N -> Int] : \A i \in 0..N : f[i] = IF i = 0 THEN base ELSE step[i][f[i - 1]]
<1> DEFINE Upto(n, f) == \A i \in 0..n : f[i] = IF i = 0 THEN base ELSE step[i][f[i - 1]]
           S == {n \in 0..N : \E f \in [0..n -> Int] : Upto(n, f)}
<1>1. 0 \in S
  <2> DEFINE g == [i \in 0..0 |-> base]
  <2>1. g \in [0..0 -> Int] /\ Upto(0, g)
    OBVIOUS
  <2>2. \E f \in [0..0 -> Int] : Upto(0, f)
    BY ONLY <2>1
  <2>3. 0 \in 0..N
    OBVIOUS
  <2> QED BY ONLY <2>2, <2>3
<1>2. ASSUME NEW n \in 0..(N - 1), n \in S PROVE n + 1 \in S
  <2>1. PICK f \in [0..n -> Int] : Upto(n, f)
    BY <1>2
  <2> DEFINE g == [i \in 0..(n + 1) |-> IF i = n + 1 THEN step[n + 1][f[n]] ELSE f[i]]
  <2>2. step[n + 1][f[n]] \in Int
    BY <2>1
  <2>3. g \in [0..(n + 1) -> Int]
    BY <2>1, <2>2
  <2>4. ASSUME NEW i \in 0..(n + 1)
        PROVE  g[i] = IF i = 0 THEN base ELSE step[i][g[i - 1]]
    <3>1. CASE i = n + 1
      <4>1. g[i] = step[n + 1][f[n]] /\ i # 0 /\ i - 1 = n /\ g[n] = f[n]
        BY <3>1
      <4> QED BY <3>1, <4>1
    <3>2. CASE i \in 0..n
      <4>1. n \in Nat /\ i # n + 1 /\ (i # 0 => i - 1 \in 0..(n + 1) /\ i - 1 # n + 1)
        BY <3>2
      <4>2. g[i] = f[i] /\ (i # 0 => g[i - 1] = f[i - 1])
        BY <4>1
      <4> HIDE DEF g
      <4> QED BY <2>1, <3>2, <4>2
    <3> QED BY <3>1, <3>2
  <2> HIDE DEF g
  <2>5. \E h \in [0..(n + 1) -> Int] : Upto(n + 1, h)
    BY <2>3, <2>4
  <2>6. n + 1 \in 0..N
    OBVIOUS
  <2> QED BY ONLY <2>5, <2>6
<1> HIDE DEF S
<1>3. \A n \in 0..N : n \in S
  <2>1. \A n \in 0..(N - 1) : n \in S => n + 1 \in S
    BY <1>2
  <2> QED BY ONLY <1>1, <2>1, N \in Nat, UpTo
<1>4. N \in S
  BY <1>3
<1> QED BY <1>4 DEF S

-----------------------------------------------------------------------------
LEMMA Power ==
  ASSUME NEW m \in Nat, NEW n \in Nat, m + n <= DWIDTH
  PROVE  2^m \in Nat \ {0} /\ 2^n \in Nat \ {0} /\ 2^(m + n) \in Nat \ {0} /\ 2^(m + n) = 2^m * 2^n
<1>1. DWIDTH \in Nat
  BY WidthAssumption DEF DWIDTH
<1>2. m \in 0..DWIDTH /\ n \in 0..DWIDTH /\ m + n \in 0..DWIDTH /\ 0 \in 0..DWIDTH
  BY <1>1
<1>3. m + 0 <= DWIDTH /\ n + 0 <= DWIDTH /\ (m + n) + 0 <= DWIDTH
  BY <1>1
<1> QED BY <1>2, <1>3, PowerAssumption

LEMMA PowerNext ==
  ASSUME NEW i \in 0..(DWIDTH - 1)
  PROVE  2^i \in Nat \ {0} /\ 2^(i + 1) = 2 * 2^i /\ 2^(i + 1) \in Nat \ {0}
<1>1. DWIDTH \in Nat /\ i \in Nat /\ 1 \in Nat /\ i + 1 <= DWIDTH /\ 2^1 = 2
  BY WidthAssumption, PowerAssumption DEF DWIDTH
<1>2. 2^i \in Nat \ {0} /\ 2^(i + 1) \in Nat \ {0} /\ 2^(i + 1) = 2^i * 2^1
  BY <1>1, Power
<1> QED BY <1>1, <1>2

LEMMA PowerOrder ==
  ASSUME NEW m \in Nat, NEW n \in Nat, m <= n, n <= DWIDTH
  PROVE  2^m <= 2^n
<1>1. PICK k \in Nat : n = m + k
  <2>1. n - m \in Nat /\ n = m + (n - m)
    OBVIOUS
  <2> QED BY <2>1
<1>2. 2^m \in Nat \ {0} /\ 2^k \in Nat \ {0} /\ 2^n = 2^m * 2^k
  BY <1>1, Power
<1>3. \A p, q \in Nat \ {0} : p <= p * q
  OBVIOUS
<1> QED BY <1>2, <1>3

(* A number modulo the next power of two has one more bit.                 *)
LEMMA LowBits ==
  ASSUME NEW x \in Nat, NEW i \in 0..(DWIDTH - 1)
  PROVE  /\ BitAt(x, i) \in {0, 1}
         /\ x % 2^(i + 1) = (x % 2^i) + BitAt(x, i) * 2^i
         /\ x % 2^i \in 0..(2^i - 1)
<1>1. PICK p \in Nat \ {0} : p = 2^i /\ 2^(i + 1) = 2 * p /\ 2 * p \in Nat \ {0}
  BY PowerNext
<1>2. PICK q \in Int, r \in 0..(p - 1) : q = x \div p /\ r = x % p /\ x = q * p + r
  BY <1>1, DivMod
<1>3. PICK h \in Int, c \in 0..1 : h = q \div 2 /\ c = q % 2 /\ q = h * 2 + c
  <2>1. 2 \in Nat \ {0}
    OBVIOUS
  <2>2. PICK h \in Int, c \in 0..(2 - 1) : h = q \div 2 /\ c = q % 2 /\ q = h * 2 + c
    BY ONLY q \in Int, <2>1, DivMod
  <2> QED BY <2>2
<1>4. c * p + r \in 0..(2 * p - 1)
  <2>1. 2 \in Nat \ {0} /\ c \in 0..(2 - 1)
    BY <1>3
  <2> QED BY <1>1, <1>2, <2>1, TwoDigits
<1>5. x = h * (2 * p) + (c * p + r)
  BY <1>1, <1>2, <1>3, Distribute
<1>6. x % (2 * p) = c * p + r
  <2>1. PICK m \in Nat \ {0} : m = 2 * p
    BY <1>1
  <2>2. PICK t \in 0..(m - 1) : t = c * p + r
    BY <1>4, <2>1
  <2>3. x = h * m + t
    BY <1>5, <2>1, <2>2
  <2>4. x % m = t
    BY ONLY <2>3, m \in Nat \ {0}, t \in 0..(m - 1), h \in Int, DivUnique
  <2> QED BY <2>1, <2>2, <2>4
<1>7. BitAt(x, i) = c
  BY <1>1, <1>2, <1>3 DEF BitAt
<1> QED BY <1>1, <1>2, <1>3, <1>6, <1>7

-----------------------------------------------------------------------------
(* Shifts compose.                                                         *)
LEMMA ShiftLeftTwice ==
  ASSUME NEW x \in Nat, NEW n \in Nat, NEW k \in Nat, n + k <= DWIDTH
  PROVE  ShiftLeft(ShiftLeft(x, n), k) = ShiftLeft(x, n + k) /\ ShiftLeft(x, n) \in Nat
<1>1. PICK p \in Nat \ {0}, q \in Nat \ {0} : p = 2^n /\ q = 2^k /\ 2^(n + k) = p * q
  BY Power
<1>2. PICK m \in Nat \ {0} : m = Modulus
  BY Powers
<1>3. x * p \in Int /\ x * (p * q) = (x * p) * q
  OBVIOUS
<1>4. PICK h \in Int, r \in 0..(m - 1) : r = (x * p) % m /\ x * p = h * m + r
  BY <1>3, DivMod
<1>5. PICK g \in Int, t \in 0..(m - 1) : t = (r * q) % m /\ r * q = g * m + t
  <2>1. r * q \in Int
    BY <1>4
  <2> QED BY <2>1, DivMod
<1>6. x * (p * q) = (h * q + g) * m + t
  <2>1. (h * m + r) * q = h * m * q + r * q
    BY Distribute
  <2>2. (h * q + g) * m = h * m * q + g * m
    OBVIOUS
  <2>3. x * (p * q) = (h * m + r) * q
    BY ONLY <1>3, <1>4, Zenon
  <2>4. h * m * q \in Int /\ g * m \in Int /\ t \in Int /\ r * q \in Int
    BY <1>5
  <2> QED BY ONLY <1>5, <2>1, <2>2, <2>3, <2>4
<1>7. (x * (p * q)) % m = t
  <2>1. h * q + g \in Int
    OBVIOUS
  <2> QED BY <1>6, <2>1, DivUnique
<1>8. ShiftLeft(x, n) = r /\ ShiftLeft(x, n + k) = t
  BY <1>1, <1>2, <1>4, <1>7, Zenon DEF ShiftLeft
<1>9. ShiftLeft(r, k) = t
  BY <1>1, <1>2, <1>5, Zenon DEF ShiftLeft
<1>10. r \in Nat
  OBVIOUS
<1> QED BY <1>8, <1>9, <1>10

(* A word shifted right by n places and filled with its sign: fill times   *)
(* the ones of the n upper places.                                         *)
LEMMA ShiftRightTwice ==
  ASSUME NEW x \in Nat, NEW n \in Nat, NEW k \in Nat, n + k <= DWIDTH, NEW fill \in {0, 1}
  PROVE  /\ ShiftRightFill(ShiftRightFill(x, n, fill), k, fill) = ShiftRightFill(x, n + k, fill)
         /\ ShiftRightFill(x, n, fill) \in Int
<1>0. DWIDTH \in Nat
  BY WidthAssumption DEF DWIDTH
<1>1. PICK l \in Nat : DWIDTH = n + k + l
  <2>1. DWIDTH - (n + k) \in Nat
    BY <1>0
  <2> QED BY <1>0, <2>1
<1>2. PICK p \in Nat \ {0}, q \in Nat \ {0} : p = 2^n /\ q = 2^k /\ 2^(n + k) = p * q
  BY Power
<1>3. PICK s \in Nat \ {0} : s = 2^l /\ 2^(DWIDTH - (n + k)) = s
  <2>1. l + 0 <= DWIDTH /\ DWIDTH - (n + k) = l
    BY <1>1
  <2> QED BY <2>1, Power
<1>4. 2^(DWIDTH - n) = q * s
  <2>1. DWIDTH - n = k + l /\ k + l <= DWIDTH
    BY <1>1
  <2> QED BY <1>2, <1>3, <2>1, Power
<1>5. 2^(DWIDTH - k) = p * s
  <2>1. DWIDTH - k = n + l /\ n + l <= DWIDTH
    BY <1>1
  <2> QED BY <1>2, <1>3, <2>1, Power
<1>6. Modulus = p * q * s
  <2>1. (n + k) + l <= DWIDTH /\ n + k \in Nat /\ DWIDTH = (n + k) + l
    BY <1>1
  <2>2. 2^((n + k) + l) = 2^(n + k) * 2^l
    BY <2>1, Power
  <2> QED BY <1>2, <1>3, <2>1, <2>2 DEF Modulus
<1>7. PICK h \in Int, r \in 0..(p - 1) : h = x \div p /\ x = h * p + r
  BY DivMod
<1>8. PICK g \in Int, c \in 0..(q - 1) : g = h \div q /\ h = g * q + c
  BY DivMod
<1>9. x \div (p * q) = g
  <2>1. PICK m \in Nat \ {0} : m = p * q
    <3>1. p * q \in Nat \ {0}
      BY <1>2, Power
    <3> QED BY <3>1
  <2>2. PICK t \in 0..(m - 1) : t = c * p + r
    <3>1. c * p + r \in 0..(q * p - 1)
      BY TwoDigits
    <3>2. q * p = p * q
      OBVIOUS
    <3> QED BY <2>1, <3>1, <3>2
  <2>3. x = g * m + t
    <3>1. (g * q + c) * p = g * (q * p) + c * p
      BY Distribute
    <3>2. g * (q * p) = g * (p * q) /\ g * (p * q) \in Int /\ c * p \in Int
      OBVIOUS
    <3>3. x = (g * q + c) * p + r
      BY ONLY <1>7, <1>8, Zenon
    <3>4. x = g * (p * q) + c * p + r
      BY ONLY <3>1, <3>2, <3>3
    <3>5. g * (p * q) + c * p + r = g * (p * q) + (c * p + r)
      BY ONLY <3>2, r \in 0..(p - 1), p \in Nat \ {0}
    <3> QED BY ONLY <2>1, <2>2, <3>4, <3>5, Zenon
  <2>4. x \div m = g
    BY ONLY <2>3, m \in Nat \ {0}, t \in 0..(m - 1), g \in Int, DivUnique
  <2> QED BY <2>1, <2>4
<1> DEFINE F == p * q * s
<1>10. F \in Int /\ q * s \in Int /\ p * s \in Int
  OBVIOUS
<1> HIDE DEF F
<1>11. PICK u \in Int : u = h + fill * (F - q * s)
  BY <1>10
<1>12. ShiftRightFill(x, n, fill) = u
  BY <1>2, <1>4, <1>6, <1>7, <1>11, Zenon DEF ShiftRightFill, F
<1>13. ShiftRightFill(x, n + k, fill) = g + fill * (F - s)
  BY <1>2, <1>3, <1>6, <1>9, Zenon DEF ShiftRightFill, F
<1>14. PICK v \in Int : v = u \div q
  OBVIOUS
<1>15. ShiftRightFill(u, k, fill) = v + fill * (F - p * s)
  BY <1>2, <1>5, <1>6, <1>14, Zenon DEF ShiftRightFill, F
<1>16. CASE fill = 0
  <2>1. u = h /\ v = g
    BY <1>8, <1>10, <1>11, <1>14, <1>16
  <2> QED BY <1>10, <1>12, <1>13, <1>15, <1>16, <2>1
<1>17. CASE fill = 1
  <2>1. PICK o \in Int : o = p * s - s
    BY <1>10
  <2>2. u = (g + o) * q + c
    <3>1. (g + o) * q = g * q + o * q /\ g * q \in Int
      OBVIOUS
    <3>2. o * q = F - q * s
      BY <2>1 DEF F
    <3> QED BY <1>8, <1>10, <1>11, <1>17, <3>1, <3>2
  <2>3. u \div q = g + o
    <3>1. PICK e \in Int : e = g + o
      OBVIOUS
    <3>2. u = e * q + c
      BY <2>2, <3>1
    <3>3. u \div q = e
      BY ONLY <3>2, e \in Int, q \in Nat \ {0}, c \in 0..(q - 1), DivUnique
    <3> QED BY <3>1, <3>3
  <2>4. v = g + o
    BY <1>14, <2>3
  <2> QED BY <1>10, <1>12, <1>13, <1>15, <1>17, <2>1, <2>4
<1> QED BY <1>16, <1>17

-----------------------------------------------------------------------------
(* The stages of the shifter.                                              *)
Filled(A_L, din) == IF A_L THEN Msb(din) ELSE 0
Stage(f, i, din, shamt, L_R, fill) ==
  IF i = 0 THEN din
  ELSE IF BitAt(shamt, i - 1) = 0 THEN f[i - 1]
  ELSE IF L_R THEN ShiftLeft(f[i - 1], 2^(i - 1))
  ELSE ShiftRightFill(f[i - 1], 2^(i - 1), fill)
Stages(f, din, shamt, L_R, fill) == f = [i \in 0..SHAMT_BITS |-> Stage(f, i, din, shamt, L_R, fill)]
Moved(din, n, L_R, fill) == IF L_R THEN ShiftLeft(din, n) ELSE ShiftRightFill(din, n, fill)

LEMMA ShifterIs ==
  ASSUME NEW din, NEW shamt, NEW L_R, NEW A_L, NEW f,
         f = CHOOSE g : Stages(g, din, shamt, L_R, Filled(A_L, din))
  PROVE  shifter(din, shamt, L_R, A_L) = f[SHAMT_BITS]
BY DEF shifter, Stages, Stage, Filled

LEMMA Amounts ==
  ASSUME NEW shamt \in Nat, NEW i \in 0..(SHAMT_BITS - 1)
  PROVE  /\ 2^i \in Nat \ {0} /\ shamt % 2^i \in Nat /\ (shamt % 2^i) + 2^i <= DWIDTH
         /\ BitAt(shamt, i) \in {0, 1}
         /\ shamt % 2^(i + 1) = (shamt % 2^i) + BitAt(shamt, i) * 2^i
<1>1. SHAMT_BITS \in Nat /\ DWIDTH \in Nat /\ SHAMT_BITS <= DWIDTH /\ 2^SHAMT_BITS = DWIDTH
  BY WidthAssumption, PowerAssumption DEF DWIDTH
<1>2. i \in 0..(DWIDTH - 1) /\ i + 1 \in Nat /\ i + 1 <= SHAMT_BITS
  BY <1>1
<1>3. PICK p \in Nat \ {0} : p = 2^i /\ 2^(i + 1) = 2 * p
  BY <1>2, PowerNext
<1>4. 2 * p <= DWIDTH
  BY <1>1, <1>2, <1>3, PowerOrder
<1>5. PICK r \in 0..(p - 1) : r = shamt % 2^i
  BY <1>2, <1>3, LowBits
<1>6. BitAt(shamt, i) \in {0, 1} /\ shamt % 2^(i + 1) = (shamt % 2^i) + BitAt(shamt, i) * 2^i
  BY <1>2, LowBits
<1>7. r + p <= DWIDTH
  BY <1>1, <1>4
<1> QED BY <1>3, <1>5, <1>6, <1>7

LEMMA ShiftsInInt ==
  ASSUME NEW v \in Int, NEW n \in Nat, n <= DWIDTH, NEW fill \in {0, 1}
  PROVE  ShiftLeft(v, n) \in Int /\ ShiftRightFill(v, n, fill) \in Int
<1>1. DWIDTH \in Nat /\ DWIDTH - n \in Nat /\ n + 0 <= DWIDTH /\ (DWIDTH - n) + 0 <= DWIDTH
  BY WidthAssumption DEF DWIDTH
<1>2. PICK p \in Nat \ {0} : p = 2^n
  BY <1>1, Power
<1>3. PICK q \in Nat \ {0} : q = 2^(DWIDTH - n)
  BY <1>1, Power
<1>4. PICK m \in Nat \ {0} : m = Modulus
  BY Powers
<1>5. (v * p) % m \in Int
  <2>1. v * p \in Int
    OBVIOUS
  <2> QED BY <2>1
<1>6. v \div p \in Int /\ m - q \in Int
  OBVIOUS
<1>7. fill * (m - q) \in Int
  BY <1>6
<1>8. \A i, j \in Int : i + j \in Int
  OBVIOUS
<1>9. v \div p + fill * (m - q) \in Int
  BY ONLY <1>6, <1>7, <1>8, Zenon
<1> QED BY <1>2, <1>3, <1>4, <1>5, <1>9, Zenon DEF ShiftLeft, ShiftRightFill

LEMMA StagesExist ==
  ASSUME NEW din \in Int, NEW shamt \in Nat, NEW L_R, NEW fill \in {0, 1}
  PROVE  \E f \in [0..SHAMT_BITS -> Int] : Stages(f, din, shamt, L_R, fill)
<1> DEFINE Next(i, v) == IF BitAt(shamt, i - 1) = 0 THEN v
                         ELSE IF L_R THEN ShiftLeft(v, 2^(i - 1)) ELSE ShiftRightFill(v, 2^(i - 1), fill)
           step == [i \in 1..SHAMT_BITS |-> [v \in Int |-> Next(i, v)]]
<1>1. SHAMT_BITS \in Nat
  BY WidthAssumption
<1>2. ASSUME NEW i \in 1..SHAMT_BITS, NEW v \in Int
      PROVE  Next(i, v) \in Int
  <2>1. PICK j \in 0..(SHAMT_BITS - 1) : j = i - 1
    BY <1>1
  <2>2. 2^j \in Nat /\ 2^j <= DWIDTH
    <3>1. PICK p \in Nat \ {0}, r \in Nat : p = 2^j /\ r = shamt % 2^j /\ r + p <= DWIDTH
      BY <2>1, Amounts
    <3> QED BY <3>1, WidthAssumption DEF DWIDTH
  <2>3. ShiftLeft(v, 2^j) \in Int /\ ShiftRightFill(v, 2^j, fill) \in Int
    BY <2>2, ShiftsInInt
  <2> QED BY <2>1, <2>3
<1>3. step \in [1..SHAMT_BITS -> [Int -> Int]]
  BY <1>2, Zenon
<1>4. ASSUME NEW i \in 1..SHAMT_BITS, NEW v \in Int PROVE step[i][v] = Next(i, v)
  OBVIOUS
<1> HIDE DEF step, Next
<1>5. PICK f \in [0..SHAMT_BITS -> Int] :
        \A i \in 0..SHAMT_BITS : f[i] = IF i = 0 THEN din ELSE step[i][f[i - 1]]
  BY <1>1, <1>3, Recursion
<1>6. ASSUME NEW i \in 0..SHAMT_BITS
      PROVE  f[i] = Stage(f, i, din, shamt, L_R, fill)
  <2>1. CASE i = 0
    BY <1>5, <2>1 DEF Stage
  <2>2. CASE i # 0
    <3>1. i \in 1..SHAMT_BITS /\ i - 1 \in 0..SHAMT_BITS
      BY <1>1, <2>2
    <3>2. f[i] = Next(i, f[i - 1])
      BY <1>4, <1>5, <2>2, <3>1
    <3> QED BY <2>2, <3>2, Zenon DEF Stage, Next
  <2> QED BY <2>1, <2>2
<1>7. f = [i \in 0..SHAMT_BITS |-> f[i]]
  OBVIOUS
<1>8. Stages(f, din, shamt, L_R, fill)
  BY <1>6, <1>7, Zenon DEF Stages
<1> QED BY <1>8

LEMMA NotMoved ==
  ASSUME NEW din \in Value, NEW fill \in {0, 1}
  PROVE  ShiftLeft(din, 0) = din /\ ShiftRightFill(din, 0, fill) = din
<1>1. PICK m \in Nat \ {0} : m = Modulus
  BY Powers
<1>2. 2^0 = 1 /\ DWIDTH - 0 = DWIDTH
  BY PowerAssumption, WidthAssumption DEF DWIDTH
<1>3. din \in 0..(m - 1)
  BY <1>1 DEF Value
<1>4. (din * 1) % m = din /\ din \div 1 = din
  BY <1>3
<1>5. ShiftLeft(din, 0) = din
  BY <1>1, <1>2, <1>4, Zenon DEF ShiftLeft
<1>6. ShiftRightFill(din, 0, fill) = din + fill * (m - m)
  BY <1>1, <1>2, <1>4, Zenon DEF ShiftRightFill, Modulus
<1>7. din + fill * (m - m) = din
  BY <1>3
<1> QED BY <1>5, <1>6, <1>7

LEMMA MovedByStages ==
  ASSUME NEW din \in Value, NEW shamt \in Nat, NEW L_R, NEW fill \in {0, 1},
         NEW f, Stages(f, din, shamt, L_R, fill)
  PROVE  \A i \in 0..SHAMT_BITS : f[i] = Moved(din, shamt % 2^i, L_R, fill)
<1> DEFINE S == {i \in 0..SHAMT_BITS : f[i] = Moved(din, shamt % 2^i, L_R, fill)}
<1>1. SHAMT_BITS \in Nat /\ din \in Nat
  BY WidthAssumption, Powers DEF Value
<1>2. ASSUME NEW i \in 0..SHAMT_BITS PROVE f[i] = Stage(f, i, din, shamt, L_R, fill)
  BY DEF Stages
<1>3. 0 \in S
  <2>1. 0 \in 0..SHAMT_BITS
    BY <1>1
  <2>2. shamt % 2^0 = 0
    <3>1. 2^0 = 1
      BY PowerAssumption
    <3>2. shamt % 1 = 0
      OBVIOUS
    <3> QED BY <3>1, <3>2, Zenon
  <2>3. f[0] = din
    BY <1>2, <2>1, Zenon DEF Stage
  <2>4. Moved(din, shamt % 2^0, L_R, fill) = din
    BY <2>2, NotMoved, Zenon DEF Moved
  <2> QED BY <2>1, <2>3, <2>4
<1>4. ASSUME NEW i \in 0..(SHAMT_BITS - 1), i \in S PROVE i + 1 \in S
  <2>1. i + 1 \in 0..SHAMT_BITS /\ i + 1 # 0 /\ (i + 1) - 1 = i /\ i \in 0..SHAMT_BITS
    BY <1>1
  <2>2. PICK k \in Nat \ {0} : k = 2^i
    BY Amounts
  <2>3. PICK n \in Nat : n = shamt % 2^i /\ n + k <= DWIDTH
    BY <2>2, Amounts
  <2>4. PICK c \in {0, 1} : c = BitAt(shamt, i) /\ shamt % 2^(i + 1) = n + c * k
    BY <2>2, <2>3, Amounts
  <2>5. f[i] = Moved(din, n, L_R, fill)
    BY <1>4, <2>3
  <2>6. f[i + 1] = IF c = 0 THEN f[i] ELSE Moved(f[i], k, L_R, fill)
    BY <1>2, <2>1, <2>2, <2>4, Zenon DEF Stage, Moved
  <2>7. CASE c = 0
    <3>1. n + c * k = n
      BY <2>7
    <3> QED BY <2>1, <2>4, <2>5, <2>6, <2>7, <3>1
  <2>8. CASE c = 1
    <3>1. n + c * k = n + k /\ k \in Nat
      BY <2>8
    <3>2. Moved(Moved(din, n, L_R, fill), k, L_R, fill) = Moved(din, n + k, L_R, fill)
      <4>1. din \in Nat /\ n \in Nat /\ k \in Nat /\ n + k <= DWIDTH
        BY <1>1, <2>3, <3>1
      <4>2. ShiftLeft(ShiftLeft(din, n), k) = ShiftLeft(din, n + k)
        BY ONLY <4>1, ShiftLeftTwice
      <4>3. ShiftRightFill(ShiftRightFill(din, n, fill), k, fill) = ShiftRightFill(din, n + k, fill)
        BY ONLY <4>1, fill \in {0, 1}, ShiftRightTwice
      <4> QED BY <4>2, <4>3, Zenon DEF Moved
    <3>3. f[i + 1] = Moved(din, shamt % 2^(i + 1), L_R, fill)
      BY <2>4, <2>5, <2>6, <2>8, <3>1, <3>2
    <3> QED BY <2>1, <3>3
  <2> QED BY <2>7, <2>8
<1> HIDE DEF S
<1>5. \A i \in 0..SHAMT_BITS : i \in S
  <2>1. \A i \in 0..(SHAMT_BITS - 1) : i \in S => i + 1 \in S
    BY <1>4
  <2>2. SHAMT_BITS \in Nat
    BY <1>1
  <2> QED BY ONLY <1>3, <2>1, <2>2, UpTo
<1> QED BY <1>5 DEF S

(* The five stages together move by the whole amount.                      *)
LEMMA Shifts ==
  ASSUME NEW din \in Value, NEW shamt \in Nat, shamt < 2^SHAMT_BITS, NEW L_R, NEW A_L
  PROVE  shifter(din, shamt, L_R, A_L) = Moved(din, shamt, L_R, Filled(A_L, din))
<1>1. 2^SHAMT_BITS \in Nat \ {0} /\ SHAMT_BITS \in Nat /\ shamt \in Nat
  BY WidthAssumption
<1>2. PICK fill \in {0, 1} : fill = Filled(A_L, din)
  <2>1. Msb(din) \in {0, 1}
    <3>1. din \in Nat /\ DWIDTH - 1 \in 0..(DWIDTH - 1)
      BY WidthAssumption DEF Value, DWIDTH
    <3> QED BY <3>1, LowBits DEF Msb
  <2> QED BY <2>1 DEF Filled
<1>3. PICK out : out = CHOOSE g : Stages(g, din, shamt, L_R, fill)
  OBVIOUS
<1>4. din \in Int /\ shamt \in Nat
  BY DEF Value
<1>5. PICK h \in [0..SHAMT_BITS -> Int] : Stages(h, din, shamt, L_R, fill)
  BY <1>4, StagesExist, Zenon
<1>6. Stages(out, din, shamt, L_R, fill)
  BY <1>3, <1>5, Zenon
<1>7. SHAMT_BITS \in 0..SHAMT_BITS /\ shamt % 2^SHAMT_BITS = shamt
  <2>1. PICK p \in Nat \ {0} : p = 2^SHAMT_BITS
    BY <1>1
  <2>2. shamt % p = shamt
    BY <2>1
  <2> QED BY <1>1, <2>1, <2>2
<1>8. out[SHAMT_BITS] = Moved(din, shamt, L_R, fill)
  <2>1. \A i \in 0..SHAMT_BITS : out[i] = Moved(din, shamt % 2^i, L_R, fill)
    BY ONLY <1>6, MovedByStages
  <2> QED BY <1>7, <2>1
<1> QED BY <1>2, <1>3, <1>8, ShifterIs

-----------------------------------------------------------------------------
(* Words and their bits.                                                   *)
Bits == [BitPlaces -> {0, 1}]
SumsUp(f, bit) == f = [n \in 0..DWIDTH |-> IF n = 0 THEN 0 ELSE f[n - 1] + bit[n - 1] * 2^(n - 1)]

LEMMA PerBitIs ==
  ASSUME NEW bit, NEW f, f = CHOOSE g : SumsUp(g, bit)
  PROVE  PerBit(bit) = f[DWIDTH]
BY DEF PerBit, SumsUp

LEMMA SumExists ==
  ASSUME NEW bit \in Bits
  PROVE  \E f \in [0..DWIDTH -> Int] : SumsUp(f, bit)
<1> DEFINE step == [i \in 1..DWIDTH |-> [v \in Int |-> v + bit[i - 1] * 2^(i - 1)]]
<1>1. DWIDTH \in Nat
  BY WidthAssumption DEF DWIDTH
<1>2. ASSUME NEW i \in 1..DWIDTH, NEW v \in Int
      PROVE  v + bit[i - 1] * 2^(i - 1) \in Int
  <2>1. PICK j \in 0..(DWIDTH - 1) : j = i - 1
    BY <1>1
  <2>2. PICK p \in Nat \ {0} : p = 2^j
    BY PowerNext
  <2>3. PICK c \in {0, 1} : c = bit[j]
    BY DEF Bits, BitPlaces
  <2>4. v + c * p \in Int
    OBVIOUS
  <2> QED BY <2>1, <2>2, <2>3, <2>4, Zenon
<1>3. step \in [1..DWIDTH -> [Int -> Int]]
  BY <1>2, Zenon
<1>4. ASSUME NEW i \in 1..DWIDTH, NEW v \in Int PROVE step[i][v] = v + bit[i - 1] * 2^(i - 1)
  OBVIOUS
<1> HIDE DEF step
<1>5. PICK f \in [0..DWIDTH -> Int] :
        \A i \in 0..DWIDTH : f[i] = IF i = 0 THEN 0 ELSE step[i][f[i - 1]]
  <2>1. 0 \in Int
    OBVIOUS
  <2> QED BY <1>1, <1>3, <2>1, Recursion
<1>6. ASSUME NEW i \in 0..DWIDTH
      PROVE  f[i] = IF i = 0 THEN 0 ELSE f[i - 1] + bit[i - 1] * 2^(i - 1)
  <2>1. CASE i = 0
    BY <1>5, <2>1
  <2>2. CASE i # 0
    <3>1. i \in 1..DWIDTH /\ i - 1 \in 0..DWIDTH
      BY <1>1, <2>2
    <3>2. f[i] = step[i][f[i - 1]] /\ f[i - 1] \in Int
      BY <1>5, <2>2, <3>1
    <3> QED BY <1>4, <2>2, <3>1, <3>2, Zenon
  <2> QED BY <2>1, <2>2
<1>7. f = [i \in 0..DWIDTH |-> f[i]]
  OBVIOUS
<1>8. SumsUp(f, bit)
  BY <1>6, <1>7, Zenon DEF SumsUp
<1> QED BY <1>8

(* A bit on top of a number leaves the bits of the number.                 *)
OnTop(n, x, c, y) == /\ y \in 0..(2^(n + 1) - 1)
                     /\ BitAt(y, n) = c
                     /\ \A i \in 0..(n - 1) : BitAt(y, i) = BitAt(x, i)

LEMMA BitOnTop ==
  ASSUME NEW n \in 0..(DWIDTH - 1), NEW p \in Nat \ {0}, p = 2^n,
         NEW x \in 0..(p - 1), NEW c \in {0, 1}, NEW y, y = x + c * p
  PROVE  OnTop(n, x, c, y)
<1>1. p = 2^n /\ 2^(n + 1) = 2 * p
  BY PowerNext
<1>2. x \in 0..(p - 1) /\ y = c * p + x
  <2>1. x \in 0..(p - 1)
    OBVIOUS
  <2>2. x + c * p = c * p + x
    BY <2>1
  <2> QED BY <1>1, <2>1, <2>2
<1>3. y \in 0..(2 * p - 1)
  <2>1. 2 \in Nat \ {0} /\ c \in 0..(2 - 1)
    OBVIOUS
  <2> QED BY <1>2, <2>1, TwoDigits
<1>4. y \div p = c
  <2>1. c \in Int
    OBVIOUS
  <2> QED BY ONLY <1>2, <2>1, p \in Nat \ {0}, DivUnique
<1>5. BitAt(y, n) = c
  <2>1. c % 2 = c
    OBVIOUS
  <2> QED BY <1>1, <1>4, <2>1, Zenon DEF BitAt
<1>6. ASSUME NEW i \in 0..(n - 1) PROVE BitAt(y, i) = BitAt(x, i)
  <2>1. DWIDTH \in Nat /\ n \in Nat /\ n < DWIDTH
    BY WidthAssumption DEF DWIDTH
  <2>2. PICK l \in Nat : n = i + 1 + l
    <3>1. n - 1 - i \in Nat /\ n = i + 1 + (n - 1 - i)
      BY <2>1
    <3> QED BY <3>1
  <2>3. PICK q \in Nat \ {0} : q = 2^i /\ 2^(i + 1) = 2 * q
    <3>1. i \in 0..(DWIDTH - 1)
      BY <2>1
    <3> QED BY <3>1, PowerNext
  <2>4. PICK s \in Nat \ {0} : s = 2^l /\ p = (2 * q) * s
    <3>1. (i + 1) + l <= DWIDTH /\ i + 1 \in Nat /\ n = (i + 1) + l
      BY <2>1, <2>2
    <3>2. 2^l \in Nat \ {0} /\ 2^((i + 1) + l) = 2^(i + 1) * 2^l
      BY <3>1, Power
    <3> QED BY <1>1, <2>3, <3>1, <3>2
  <2>5. PICK h \in Int, r \in 0..(q - 1) : h = x \div q /\ x = h * q + r
    BY DivMod
  <2>6. PICK g \in Int : g = h + 2 * (c * s)
    OBVIOUS
  <2>7. y = g * q + r
    <3>1. g * q = h * q + c * ((2 * q) * s) /\ h * q \in Int
      BY <2>6
    <3>2. c * p \in Int /\ c * p = c * ((2 * q) * s)
      BY <2>4
    <3>3. g * q = h * q + c * p
      BY <3>1, <3>2, Zenon
    <3>4. PICK u \in Int, w \in Int : u = c * p /\ w = h * q
      BY <3>1, <3>2
    <3>5. x = w + r /\ y = u + x /\ g * q = w + u
      BY <1>2, <2>5, <3>3, <3>4, Zenon
    <3>6. u + (w + r) = (w + u) + r
      OBVIOUS
    <3> QED BY <3>5, <3>6, Zenon
  <2>8. y \div q = g
    BY ONLY <2>7, g \in Int, q \in Nat \ {0}, r \in 0..(q - 1), DivUnique
  <2>9. g % 2 = h % 2
    <3>1. PICK e \in Int : e = c * s
      OBVIOUS
    <3>2. g = h + 2 * e
      BY <2>6, <3>1
    <3> QED BY <3>2
  <2> QED BY <2>3, <2>5, <2>8, <2>9, Zenon DEF BitAt
<1> QED BY <1>1, <1>3, <1>5, <1>6 DEF OnTop

(* A sum of bits has these bits.                                           *)
LEMMA SumHasBits ==
  ASSUME NEW bit \in Bits
  PROVE  PerBit(bit) \in Value /\ \A i \in BitPlaces : BitAt(PerBit(bit), i) = bit[i]
<1>1. DWIDTH \in Nat
  BY WidthAssumption DEF DWIDTH
<1>2. PICK f : f = CHOOSE g : SumsUp(g, bit)
  OBVIOUS
<1>3. PICK h \in [0..DWIDTH -> Int] : SumsUp(h, bit)
  BY SumExists
<1>4. SumsUp(f, bit)
  BY <1>2, <1>3, Zenon
<1> DEFINE S == {n \in 0..DWIDTH : /\ f[n] \in 0..(2^n - 1)
                                   /\ \A i \in 0..(n - 1) : BitAt(f[n], i) = bit[i]}
<1>5. 0 \in S
  <2>1. 0 \in 0..DWIDTH
    BY <1>1
  <2>2. f[0] = 0
    BY <1>4, <2>1 DEF SumsUp
  <2>3. 2^0 = 1
    BY PowerAssumption
  <2>4. f[0] \in 0..(2^0 - 1)
    BY <2>2, <2>3
  <2>5. \A i \in 0..(0 - 1) : BitAt(f[0], i) = bit[i]
    OBVIOUS
  <2> QED BY ONLY <2>1, <2>4, <2>5
<1>6. ASSUME NEW n \in 0..(DWIDTH - 1), n \in S PROVE n + 1 \in S
  <2>1. n + 1 \in 0..DWIDTH /\ n + 1 # 0 /\ (n + 1) - 1 = n /\ n \in BitPlaces
    BY <1>1 DEF BitPlaces
  <2>2. PICK c \in {0, 1} : c = bit[n]
    BY <2>1 DEF Bits
  <2>3. f[n + 1] = f[n] + c * 2^n
    BY <1>4, <2>1, <2>2 DEF SumsUp
  <2>8. PICK p \in Nat \ {0} : p = 2^n
    BY PowerNext
  <2>4. PICK x \in 0..(p - 1) : x = f[n]
    BY <1>6, <2>8
  <2>5. PICK y : y = f[n + 1] /\ y = x + c * p
    BY <2>3, <2>4, <2>8
  <2>6. /\ y \in 0..(2^(n + 1) - 1) /\ BitAt(y, n) = c
        /\ \A i \in 0..(n - 1) : BitAt(y, i) = BitAt(x, i)
    <3>1. OnTop(n, x, c, y)
      BY <2>5, <2>8, BitOnTop
    <3> QED BY ONLY <3>1 DEF OnTop
  <2>7. ASSUME NEW i \in 0..((n + 1) - 1) PROVE BitAt(y, i) = bit[i]
    <3>1. i = n \/ i \in 0..(n - 1)
      OBVIOUS
    <3>2. \A j \in 0..(n - 1) : BitAt(x, j) = bit[j]
      BY <1>6, <2>4
    <3> QED BY <2>2, <2>6, <3>1, <3>2, Zenon
  <2> QED BY <2>1, <2>5, <2>6, <2>7, Zenon
<1> HIDE DEF S
<1>7. \A n \in 0..DWIDTH : n \in S
  <2>1. \A n \in 0..(DWIDTH - 1) : n \in S => n + 1 \in S
    BY <1>6
  <2> QED BY ONLY <1>1, <1>5, <2>1, UpTo
<1>8. DWIDTH \in S
  BY <1>1, <1>7
<1>9. f[DWIDTH] \in Value /\ \A i \in BitPlaces : BitAt(f[DWIDTH], i) = bit[i]
  BY <1>8, Zenon DEF S, Value, Modulus, BitPlaces
<1> QED BY <1>2, <1>9, PerBitIs, Zenon

(* Two words with the same bits are the same.                              *)
LEMMA BitsDecide ==
  ASSUME NEW x \in Value, NEW y \in Value, \A i \in BitPlaces : BitAt(x, i) = BitAt(y, i)
  PROVE  x = y
<1>1. DWIDTH \in Nat
  BY WidthAssumption DEF DWIDTH
<1>2. x \in Nat /\ y \in Nat
  BY DEF Value
<1> DEFINE S == {n \in 0..DWIDTH : x % 2^n = y % 2^n}
<1>3. 0 \in S
  <2>1. 2^0 = 1 /\ x % 1 = 0 /\ y % 1 = 0 /\ 0 \in 0..DWIDTH
    BY <1>1, <1>2, PowerAssumption
  <2> QED BY <2>1, Zenon
<1>4. ASSUME NEW n \in 0..(DWIDTH - 1), n \in S PROVE n + 1 \in S
  <2>1. n + 1 \in 0..DWIDTH /\ n \in BitPlaces
    BY <1>1 DEF BitPlaces
  <2>2. x % 2^(n + 1) = (x % 2^n) + BitAt(x, n) * 2^n
    BY <1>2, LowBits
  <2>3. y % 2^(n + 1) = (y % 2^n) + BitAt(y, n) * 2^n
    BY <1>2, LowBits
  <2>4. x % 2^n = y % 2^n
    BY <1>4
  <2>5. x % 2^(n + 1) = y % 2^(n + 1)
    BY <2>1, <2>2, <2>3, <2>4, Zenon
  <2> QED BY ONLY <2>1, <2>5
<1> HIDE DEF S
<1>5. \A n \in 0..DWIDTH : n \in S
  <2>1. \A n \in 0..(DWIDTH - 1) : n \in S => n + 1 \in S
    BY <1>4
  <2> QED BY ONLY <1>1, <1>3, <2>1, UpTo
<1>6. x % Modulus = y % Modulus
  <2>1. DWIDTH \in S
    BY <1>1, <1>5
  <2> QED BY <2>1, Zenon DEF S, Modulus
<1>7. PICK m \in Nat \ {0} : m = Modulus
  BY Powers
<1>8. x \in 0..(m - 1) /\ y \in 0..(m - 1)
  BY <1>7 DEF Value
<1>9. x % m = x /\ y % m = y
  BY <1>8
<1> QED BY <1>6, <1>7, <1>9, Zenon

LEMMA TheWordWith ==
  ASSUME NEW bit \in Bits, NEW ones, ones = {i \in BitPlaces : bit[i] = 1}
  PROVE  WordWith(ones) = PerBit(bit)
<1>1. PICK w \in Value : w = PerBit(bit) /\ \A i \in BitPlaces : BitAt(w, i) = bit[i]
  BY SumHasBits
<1>2. \A i \in BitPlaces : BitAt(w, i) = 1 <=> i \in ones
  BY <1>1
<1>3. PICK v : v = WordWith(ones)
  OBVIOUS
<1>4. v \in Value /\ \A i \in BitPlaces : BitAt(v, i) = 1 <=> i \in ones
  BY <1>1, <1>2, <1>3, Zenon DEF WordWith
<1>5. ASSUME NEW i \in BitPlaces PROVE BitAt(v, i) = BitAt(w, i)
  <2>1. BitAt(v, i) \in {0, 1} /\ BitAt(w, i) \in {0, 1}
    <3>1. v \in Nat /\ w \in Nat /\ i \in 0..(DWIDTH - 1)
      BY <1>4 DEF Value, BitPlaces
    <3> QED BY <3>1, LowBits
  <2>2. BitAt(v, i) = 1 <=> BitAt(w, i) = 1
    BY <1>2, <1>4
  <2> QED BY <2>1, <2>2
<1>6. v = w
  BY <1>4, <1>5, BitsDecide
<1> QED BY <1>1, <1>3, <1>6

LEMMA BitwiseExact ==
  ASSUME NEW x \in Value, NEW y \in Value
  PROVE  And(x, y) = op_and(x, y) /\ Or(x, y) = op_or(x, y) /\ Xor(x, y) = op_xor(x, y)
<1>1. ASSUME NEW i \in BitPlaces
      PROVE  BitAt(x, i) \in {0, 1} /\ BitAt(y, i) \in {0, 1}
  <2>1. x \in Nat /\ y \in Nat /\ i \in 0..(DWIDTH - 1)
    BY DEF Value, BitPlaces
  <2> QED BY <2>1, LowBits
<1>2. And(x, y) = op_and(x, y)
  <2>1. PICK bit : bit = [i \in BitPlaces |-> BitAt(x, i) * BitAt(y, i)]
    OBVIOUS
  <2>2. bit \in Bits
    BY <1>1, <2>1 DEF Bits
  <2>3. Ones(x) \cap Ones(y) = {i \in BitPlaces : bit[i] = 1}
    BY <1>1, <2>1 DEF Ones
  <2> QED BY <2>1, <2>2, <2>3, TheWordWith DEF And, op_and
<1>3. Or(x, y) = op_or(x, y)
  <2>1. PICK bit : bit = [i \in BitPlaces |-> IF BitAt(x, i) + BitAt(y, i) > 0 THEN 1 ELSE 0]
    OBVIOUS
  <2>2. bit \in Bits
    BY <1>1, <2>1 DEF Bits
  <2>3. Ones(x) \cup Ones(y) = {i \in BitPlaces : bit[i] = 1}
    BY <1>1, <2>1 DEF Ones
  <2> QED BY <2>1, <2>2, <2>3, TheWordWith DEF Or, op_or
<1>4. Xor(x, y) = op_xor(x, y)
  <2>1. PICK bit : bit = [i \in BitPlaces |-> (BitAt(x, i) + BitAt(y, i)) % 2]
    OBVIOUS
  <2>2. bit \in Bits
    BY <1>1, <2>1 DEF Bits
  <2>3. (Ones(x) \ Ones(y)) \cup (Ones(y) \ Ones(x)) = {i \in BitPlaces : bit[i] = 1}
    BY <1>1, <2>1 DEF Ones
  <2> QED BY <2>1, <2>2, <2>3, TheWordWith DEF Xor, op_xor
<1> QED BY <1>2, <1>3, <1>4

(* A right shift that fills with the sign divides the signed number.       *)
LEMMA RightShifts ==
  ASSUME NEW x \in Value, NEW n \in 0..(DWIDTH - 1)
  PROVE  /\ ShiftRightFill(x, n, 0) = x \div 2^n
         /\ ShiftRightFill(x, n, Msb(x)) = (Signed(x) \div 2^n) % Modulus
<1>1. DWIDTH \in Nat /\ n \in Nat /\ DWIDTH - n \in Nat /\ n + (DWIDTH - n) = DWIDTH
  BY WidthAssumption DEF DWIDTH
<1>2. PICK p \in Nat \ {0}, q \in Nat \ {0} : p = 2^n /\ q = 2^(DWIDTH - n) /\ Modulus = q * p
  <2>1. n + (DWIDTH - n) <= DWIDTH
    BY <1>1
  <2>2. 2^n \in Nat \ {0} /\ 2^(DWIDTH - n) \in Nat \ {0} /\ 2^(n + (DWIDTH - n)) = 2^n * 2^(DWIDTH - n)
    BY ONLY <1>1, <2>1, Power
  <2>3. \A i, j \in Nat : i * j = j * i
    OBVIOUS
  <2> QED BY <1>1, <2>2, <2>3 DEF Modulus
<1>3. PICK m \in Nat \ {0} : m = Modulus /\ m = q * p
  BY <1>2, Powers
<1>4. x \in 0..(m - 1)
  BY <1>3 DEF Value
<1>5. PICK h \in Int, r \in 0..(p - 1) : h = x \div p /\ x = h * p + r
  BY <1>4, DivMod
<1>6. h \in 0..(q - 1)
  <2>1. h >= 0
    BY <1>4, <1>5
  <2>2. h < q
    <3>1. SUFFICES ASSUME h >= q PROVE FALSE
      OBVIOUS
    <3>2. (h - q) * p \in Nat /\ (h - q) * p = h * p - q * p
      BY <3>1
    <3> QED BY <1>3, <1>4, <1>5, <3>2
  <2> QED BY <2>1, <2>2
<1>7. \A fill \in {0, 1} : ShiftRightFill(x, n, fill) = h + fill * (m - q)
  BY <1>2, <1>3, <1>5, Zenon DEF ShiftRightFill
<1>8. ShiftRightFill(x, n, 0) = x \div 2^n
  <2>1. h + 0 * (m - q) = h
    OBVIOUS
  <2> QED BY <1>2, <1>5, <1>7, <2>1
<1>9. (Msb(x) = 0 /\ Signed(x) = x) \/ (Msb(x) = 1 /\ Signed(x) = x - m)
  <2>1. PICK k \in Nat \ {0} : Modulus = 2 * k
    BY Powers
  <2>2. /\ Msb(x) = IF x >= k THEN 1 ELSE 0
        /\ Signed(x) = IF x < k THEN x ELSE x - Modulus
    BY <2>1, SignBit
  <2>3. x \in Int
    BY <1>4
  <2>4. CASE x < k
    <3>1. ~(x >= k)
      BY <2>3, <2>4
    <3> QED BY <2>2, <2>4, <3>1, Zenon
  <2>5. CASE x >= k
    <3>1. ~(x < k)
      BY <2>3, <2>5
    <3> QED BY <1>3, <2>2, <2>5, <3>1, Zenon
  <2> QED BY <2>3, <2>4, <2>5
<1>10. CASE Msb(x) = 0 /\ Signed(x) = x
  <2>1. m - q >= 0
    <3>1. q * (p - 1) \in Nat /\ q * (p - 1) = q * p - q
      OBVIOUS
    <3> QED BY <1>3, <3>1
  <2>2. h \in 0..(m - 1)
    BY <1>6, <2>1
  <2>3. h % m = h
    BY <2>2
  <2> QED BY <1>2, <1>3, <1>5, <1>8, <1>10, <2>3
<1>11. CASE Msb(x) = 1 /\ Signed(x) = x - m
  <2>0. PICK y \in Int : y = x - m
    BY <1>4
  <2>1. PICK g \in Int : g = h - q
    OBVIOUS
  <2>2. y = g * p + r
    <3>1. g * p = h * p - q * p
      BY <2>1
    <3> QED BY <1>3, <1>5, <2>0, <3>1
  <2>3. y \div p = g
    BY ONLY <2>2, g \in Int, p \in Nat \ {0}, r \in 0..(p - 1), DivUnique
  <2>4. PICK t \in 0..(m - 1) : t = h + (m - q)
    <3>1. q * (p - 1) \in Nat /\ q * (p - 1) = q * p - q
      OBVIOUS
    <3> QED BY <1>3, <1>6, <3>1
  <2>5. g = (-1) * m + t
    BY <2>1, <2>4
  <2>6. g % m = t
    <3>1. PICK e \in Int : e = -1
      OBVIOUS
    <3>2. g = e * m + t
      BY <2>5, <3>1
    <3> QED BY ONLY <3>2, e \in Int, m \in Nat \ {0}, t \in 0..(m - 1), DivUnique
  <2>7. ShiftRightFill(x, n, 1) = t
    BY <1>7, <2>4
  <2>8. Signed(x) = y /\ Msb(x) = 1
    BY <1>11, <2>0
  <2>9. (Signed(x) \div 2^n) % Modulus = t
    BY <1>2, <1>3, <2>3, <2>6, <2>8, Zenon
  <2> QED BY <1>8, <2>7, <2>8, <2>9, Zenon
<1> QED BY <1>8, <1>9, <1>10, <1>11

LEMMA AddsAndSubtracts ==
  ASSUME NEW x \in Value, NEW y \in Value
  PROVE  adder(x, y, 0).out = (x + y) % Modulus /\ adder(x, y, 1).out = (x - y) % Modulus
<1>1. PICK m \in Nat \ {0} : m = Modulus
  BY Powers
<1>2. x \in 0..(m - 1) /\ y \in 0..(m - 1)
  BY <1>1 DEF Value
<1>3. adder(x, y, 0).out = (x + y) % Modulus
  <2>1. PICK z \in Int : z = x + y + 0 /\ z = x + y
    BY <1>2
  <2> QED BY <2>1 DEF adder
<1>4. PICK z \in Int : z = x + (Modulus - 1 - y) + 1 /\ z = x - y + m
  BY <1>1, <1>2
<1>5. adder(x, y, 1).out = z % Modulus
  BY <1>4 DEF adder, NotW
<1>6. z % Modulus = (x - y) % Modulus
  <2>1. z >= -Modulus /\ z < 2 * Modulus /\ x - y \in Int /\ x - y >= -Modulus /\ x - y < 2 * Modulus
    BY <1>1, <1>2, <1>4
  <2>2. z % Modulus = IF z < 0 THEN z + Modulus ELSE IF z < Modulus THEN z ELSE z - Modulus
    BY <2>1, Reduced
  <2>3. (x - y) % Modulus = IF x - y < 0 THEN x - y + Modulus
                            ELSE IF x - y < Modulus THEN x - y ELSE x - y - Modulus
    BY <2>1, Reduced
  <2> QED BY <1>1, <1>2, <1>4, <2>2, <2>3
<1> QED BY <1>3, <1>5, <1>6

LEMMA ShiftAmount ==
  ASSUME NEW y \in Value
  PROVE  \E n \in 0..(DWIDTH - 1) :
           n \in Nat /\ n = y % DWIDTH /\ n = y % 2^SHAMT_BITS /\ n < 2^SHAMT_BITS
<1>1. DWIDTH \in Nat \ {0} /\ y \in Int /\ 2^SHAMT_BITS = DWIDTH
  BY WidthAssumption DEF DWIDTH, Value
<1>2. PICK n \in 0..(DWIDTH - 1) : n = y % DWIDTH
  <2>1. y % DWIDTH \in 0..(DWIDTH - 1)
    BY <1>1
  <2> QED BY <2>1
<1>3. n \in Nat /\ n < DWIDTH
  BY <1>1
<1> QED BY <1>1, <1>2, <1>3, Zenon

(* The ten operations.                                                     *)
LEMMA AluOfWords == ASSUME NEW x \in Value, NEW y \in Value PROVE sim(x, y)
<1>1. PICK n \in 0..(DWIDTH - 1) :
        n \in Nat /\ n = y % DWIDTH /\ n = y % 2^SHAMT_BITS /\ n < 2^SHAMT_BITS
  BY ShiftAmount
<1>2. n = y % DWIDTH
  BY <1>1
<1>3. y % 2^SHAMT_BITS = n
  BY <1>1
<1>4. ASSUME NEW L_R, NEW A_L
      PROVE  shifter(x, n, L_R, A_L) = Moved(x, n, L_R, Filled(A_L, x))
  <2>1. n \in Nat /\ n < 2^SHAMT_BITS
    BY <1>1
  <2> QED BY <2>1, Shifts
<1>5. alu(x, y, 0, 0) = op_add(x, y) /\ alu(x, y, 1, 0) = op_sub(x, y)
  BY AddsAndSubtracts DEF alu, op_add, op_sub
<1>6. alu(x, y, 0, 1) = op_sll(x, y)
  <2>1. 1 \div 4 = 0
    OBVIOUS
  <2>2. alu(x, y, 0, 1) = shifter(x, n, 1 \div 4 = 0, 0 = 1)
    <3>1. alu(x, y, 0, 1) = shifter(x, y % 2^SHAMT_BITS, 1 \div 4 = 0, 0 = 1)
      BY DEF alu
    <3> QED BY <1>3, <3>1, Zenon
  <2> QED BY <1>2, <1>4, <2>1, <2>2 DEF Moved, op_sll, ShiftLeft
<1>7. alu(x, y, 0, 5) = op_srl(x, y)
  <2>1. 5 \div 4 = 1 /\ 0 # 1
    OBVIOUS
  <2>2. alu(x, y, 0, 5) = shifter(x, n, 5 \div 4 = 0, 0 = 1)
    <3>1. alu(x, y, 0, 5) = shifter(x, y % 2^SHAMT_BITS, 5 \div 4 = 0, 0 = 1)
      BY DEF alu
    <3> QED BY <1>3, <3>1, Zenon
  <2>3. alu(x, y, 0, 5) = ShiftRightFill(x, n, 0)
    BY <1>4, <2>1, <2>2 DEF Moved, Filled
  <2> QED BY <1>2, <2>3, RightShifts DEF op_srl
<1>8. alu(x, y, 1, 5) = op_sra(x, y)
  <2>1. 5 \div 4 = 1 /\ 0 # 1
    OBVIOUS
  <2>2. alu(x, y, 1, 5) = shifter(x, n, 5 \div 4 = 0, 1 = 1)
    <3>1. alu(x, y, 1, 5) = shifter(x, y % 2^SHAMT_BITS, 5 \div 4 = 0, 1 = 1)
      BY DEF alu
    <3> QED BY <1>3, <3>1, Zenon
  <2>3. alu(x, y, 1, 5) = ShiftRightFill(x, n, Msb(x))
    BY <1>4, <2>1, <2>2 DEF Moved, Filled
  <2> QED BY <1>2, <2>3, RightShifts DEF op_sra
<1>9. alu(x, y, 0, 2) = op_slt(x, y) /\ alu(x, y, 0, 3) = op_sltu(x, y)
  BY DEF alu, Flag, op_slt, op_sltu
<1>10. /\ alu(x, y, 0, 4) = op_xor(x, y) /\ alu(x, y, 0, 6) = op_or(x, y)
       /\ alu(x, y, 0, 7) = op_and(x, y)
  BY BitwiseExact DEF alu
<1>11. ASSUME NEW opcode \in OPCODE
       PROVE  alu(x, y, opcode \div 8, opcode % 8) = aluop(opcode, x, y)
  <2>1. CASE opcode = 0
    <3>1. 0 \div 8 = 0 /\ 0 % 8 = 0
      OBVIOUS
    <3> QED BY <1>5, <2>1, <3>1 DEF aluop
  <2>2. CASE opcode = 8
    <3>1. 8 \div 8 = 1 /\ 8 % 8 = 0
      OBVIOUS
    <3> QED BY <1>5, <2>2, <3>1 DEF aluop
  <2>3. CASE opcode = 13
    <3>1. 13 \div 8 = 1 /\ 13 % 8 = 5
      OBVIOUS
    <3> QED BY <1>8, <2>3, <3>1 DEF aluop
  <2>4. CASE opcode \in {1, 2, 3, 4, 5, 6, 7}
    <3>1. opcode \div 8 = 0 /\ opcode % 8 = opcode
      BY <2>4
    <3> QED BY <1>6, <1>7, <1>9, <1>10, <2>4, <3>1 DEF aluop
  <2> QED BY <2>1, <2>2, <2>3, <2>4 DEF OPCODE
<1> QED BY <1>11 DEF sim

(* alu.v computes what the testbench expects of it, for any two words.     *)
THEOREM AluCorrect == AluExact
BY AluOfWords DEF AluExact

-----------------------------------------------------------------------------
(* The words that come out of the circuits.                                *)
LEMMA Divided ==
  ASSUME NEW x \in Value, NEW n \in 0..(DWIDTH - 1)
  PROVE  x \div 2^n \in Value
<1>1. PICK p \in Nat \ {0} : p = 2^n
  BY PowerNext
<1>2. PICK h \in Int, r \in 0..(p - 1) : h = x \div p /\ x = h * p + r
  BY DivMod DEF Value
<1>3. PICK m \in Nat \ {0} : m = Modulus /\ x \in 0..(m - 1)
  BY Powers DEF Value
<1>4. h \in 0..(m - 1)
  <2>1. h >= 0
    BY <1>2, <1>3
  <2>2. h * (p - 1) \in Nat /\ h * (p - 1) = h * p - h
    BY <2>1
  <2> QED BY <1>2, <1>3, <2>1, <2>2
<1> QED BY <1>1, <1>2, <1>3, <1>4 DEF Value

LEMMA ModInValue == ASSUME NEW x \in Int PROVE x % Modulus \in Value
<1>1. PICK m \in Nat \ {0} : m = Modulus
  BY Powers
<1>2. x % m \in 0..(m - 1)
  OBVIOUS
<1> QED BY <1>1, <1>2 DEF Value

LEMMA OpsInValue ==
  ASSUME NEW x \in Value, NEW y \in Value, NEW opcode \in OPCODE
  PROVE  aluop(opcode, x, y) \in Value
<1>1. x \in Int /\ y \in Int
  BY DEF Value
<1>2. PICK n \in 0..(DWIDTH - 1) : n = y % DWIDTH
  <2>1. DWIDTH \in Nat \ {0}
    BY WidthAssumption DEF DWIDTH
  <2>2. y % DWIDTH \in 0..(DWIDTH - 1)
    BY <1>1, <2>1
  <2> QED BY <2>2
<1>3. PICK p \in Nat \ {0} : p = 2^n
  BY PowerNext
<1>4. op_add(x, y) \in Value /\ op_sub(x, y) \in Value
  <2>1. x + y \in Int /\ x - y \in Int
    BY <1>1
  <2> QED BY <2>1, ModInValue DEF op_add, op_sub
<1>5. op_sll(x, y) \in Value
  <2>1. x * p \in Int
    BY <1>1
  <2>2. (x * p) % Modulus \in Value
    BY <2>1, ModInValue
  <2> QED BY <1>2, <1>3, <2>2, Zenon DEF op_sll
<1>6. op_srl(x, y) \in Value
  BY <1>2, Divided DEF op_srl
<1>7. op_sra(x, y) \in Value
  <2>1. Signed(x) \in Int
    <3>1. PICK m \in Nat \ {0} : m = Modulus
      BY Powers
    <3> QED BY <1>1, <3>1 DEF Signed
  <2>2. PICK s \in Int : s = Signed(x) \div p
    BY <2>1
  <2>3. s % Modulus \in Value
    BY ModInValue
  <2> QED BY <1>2, <1>3, <2>2, <2>3, Zenon DEF op_sra
<1>8. op_slt(x, y) \in Value /\ op_sltu(x, y) \in Value
  <2>1. 0 \in Value /\ 1 \in Value
    BY Powers DEF Value
  <2> QED BY <2>1 DEF op_slt, op_sltu
<1>9. op_and(x, y) \in Value /\ op_or(x, y) \in Value /\ op_xor(x, y) \in Value
  <2>1. ASSUME NEW bit \in Bits PROVE PerBit(bit) \in Value
    BY SumHasBits
  <2>2. ASSUME NEW i \in BitPlaces
        PROVE  BitAt(x, i) \in {0, 1} /\ BitAt(y, i) \in {0, 1}
    <3>1. x \in Nat /\ y \in Nat /\ i \in 0..(DWIDTH - 1)
      BY DEF Value, BitPlaces
    <3> QED BY <3>1, LowBits
  <2>3. /\ [i \in BitPlaces |-> BitAt(x, i) * BitAt(y, i)] \in Bits
        /\ [i \in BitPlaces |-> IF BitAt(x, i) + BitAt(y, i) > 0 THEN 1 ELSE 0] \in Bits
        /\ [i \in BitPlaces |-> (BitAt(x, i) + BitAt(y, i)) % 2] \in Bits
    BY <2>2 DEF Bits
  <2>4. And(x, y) \in Value /\ Or(x, y) \in Value /\ Xor(x, y) \in Value
    BY <2>1, <2>3, Zenon DEF And, Or, Xor
  <2> QED BY <2>4, BitwiseExact
<1> QED BY <1>4, <1>5, <1>6, <1>7, <1>8, <1>9 DEF aluop, OPCODE

LEMMA LoadsInValue ==
  ASSUME NEW w \in Value, NEW l \in 0..3, NEW f \in 0..7
  PROVE  loadControl(f, l, w) \in Value
<1> USE Sizes
<1>1. PICK d0 \in ByteVal, d1 \in ByteVal, d2 \in ByteVal, d3 \in ByteVal : w = Word4(d0, d1, d2, d3)
  BY WordOfBytes
<1>2. (w \div 2^(BYTE_BITS * l)) % ByteModulus \in 0..(ByteModulus - 1)
  <2>1. LaneOf(w, l) \in ByteVal
    BY <1>1, FourBytes
  <2> QED BY <2>1 DEF LaneOf, ByteVal, B
<1>3. (w \div 2^(2 * BYTE_BITS * (l \div 2))) % HalfModulus \in 0..(HalfModulus - 1)
  <2>1. l \div 2 \in {0, 1} /\ 2 * BYTE_BITS * 0 = 0 /\ 2 * BYTE_BITS * 1 = 2 * BYTE_BITS
    BY WidthAssumption
  <2>2. 2^0 = 1 /\ 2^(2 * BYTE_BITS) = HalfModulus
    BY PowerAssumption DEF HalfModulus
  <2>3. PICK p \in Nat \ {0} : p = 2^(2 * BYTE_BITS * (l \div 2))
    <3>1. 2^(2 * BYTE_BITS * (l \div 2)) \in {1, HalfModulus}
      BY <2>1, <2>2, Zenon
    <3> QED BY <3>1
  <2>4. PICK h \in Nat \ {0} : h = HalfModulus
    OBVIOUS
  <2>5. (w \div p) % h \in 0..(h - 1)
    <3>1. w \in Int
      BY DEF Value
    <3>2. w \div p \in Int
      BY <3>1
    <3> QED BY <3>2
  <2> QED BY <2>3, <2>4, <2>5, Zenon
<1>4. ASSUME NEW c \in Nat \ {0}, NEW m \in Nat \ {0}, Modulus = c * m, NEW t \in 0..(m - 1)
      PROVE  t \in Value /\ SignExtend(t, m) \in Value
  <2>1. m <= Modulus
    <3>1. (c - 1) * m \in Nat /\ (c - 1) * m = c * m - m
      OBVIOUS
    <3> QED BY <1>4, <3>1
  <2>2. t \in 0..(Modulus - 1) /\ t + Modulus - m \in 0..(Modulus - 1)
    BY <2>1
  <2> QED BY <2>2, Zenon DEF Value, SignExtend
<1>5. PICK tmp1 \in 0..(ByteModulus - 1) : tmp1 = (w \div 2^(BYTE_BITS * l)) % ByteModulus
  BY <1>2
<1>6. PICK tmp2 \in 0..(HalfModulus - 1) : tmp2 = (w \div 2^(2 * BYTE_BITS * (l \div 2))) % HalfModulus
  BY <1>3
<1>7. tmp2 \in Value /\ SignExtend(tmp2, HalfModulus) \in Value
  <2>1. HalfModulus \in Nat \ {0}
    OBVIOUS
  <2> QED BY <1>4, <2>1
<1>8. tmp1 \in Value /\ SignExtend(tmp1, ByteModulus) \in Value
  <2>1. PICK c \in Nat \ {0} : c = HalfModulus * B /\ Modulus = c * ByteModulus
    <3>1. HalfModulus * B \in Nat \ {0} /\ HalfModulus * (B * B) = (HalfModulus * B) * B
      OBVIOUS
    <3> QED BY <3>1 DEF B
  <2>2. ByteModulus \in Nat \ {0}
    BY DEF B
  <2> QED BY <1>4, <2>1, <2>2
<1>9. 0 \in Value
  BY DEF Value
<1> QED BY <1>5, <1>6, <1>7, <1>8, <1>9, Zenon DEF loadControl

LEMMA StoresInValue ==
  ASSUME NEW x \in Value, NEW y \in Value, NEW l \in 0..3, NEW lanes
  PROVE  wdata(l, y) \in Value /\ Stored(x, y, lanes) \in Value /\ wdata(0, y) = y
<1> USE Sizes
<1>0. 0 \in ByteVal
  BY DEF ByteVal
<1>1. PICK d0 \in ByteVal, d1 \in ByteVal, d2 \in ByteVal, d3 \in ByteVal : y = Word4(d0, d1, d2, d3)
  BY WordOfBytes
<1>2. PICK e0 \in ByteVal, e1 \in ByteVal, e2 \in ByteVal, e3 \in ByteVal : x = Word4(e0, e1, e2, e3)
  BY WordOfBytes
<1>3. \A c0, c1, c2, c3 \in ByteVal : Word4(c0, c1, c2, c3) \in Value
  BY FourBytes
<1>4. wdata(l, y) \in Value /\ wdata(0, y) = y
  <2>1. /\ wdata(0, y) = y /\ wdata(1, y) = Word4(0, d0, d1, d2)
        /\ wdata(2, y) = Word4(0, 0, d0, d1) /\ wdata(3, y) = Word4(0, 0, 0, d0)
    BY <1>1, MovedBytes
  <2>2. l = 0 \/ l = 1 \/ l = 2 \/ l = 3
    OBVIOUS
  <2>3. y \in Value /\ Word4(0, d0, d1, d2) \in Value /\ Word4(0, 0, d0, d1) \in Value
        /\ Word4(0, 0, 0, d0) \in Value
    BY <1>0, <1>3
  <2>4. wdata(0, y) \in Value /\ wdata(1, y) \in Value /\ wdata(2, y) \in Value /\ wdata(3, y) \in Value
    BY <2>1, <2>3
  <2> QED BY <2>1, <2>2, <2>4
<1>5. \A k \in 0..3 : LaneOf(x, k) \in ByteVal /\ LaneOf(y, k) \in ByteVal
  BY <1>1, <1>2, FourBytes
<1> DEFINE e(k) == IF k \in lanes THEN LaneOf(y, k) ELSE LaneOf(x, k)
<1>6. e(0) \in ByteVal /\ e(1) \in ByteVal /\ e(2) \in ByteVal /\ e(3) \in ByteVal
  BY <1>5
<1>7. Stored(x, y, lanes) = Word4(e(0), e(1), e(2), e(3))
  BY <1>5, StoredBytes
<1> HIDE DEF e
<1>8. Word4(e(0), e(1), e(2), e(3)) \in Value
  BY ONLY <1>3, <1>6
<1> QED BY <1>4, <1>7, <1>8

(* The circuits satisfy what the proofs about the pipeline assume of them  *)
(* (ArithAssumption, StoreAssumption and TxAssumption of Machine).         *)
THEOREM CircuitsFitPipeline ==
  \A x, y \in Value, f \in 0..7, l \in 0..3, lanes \in SUBSET (0..3) :
    /\ adder(x, y, 0).out \in Value /\ adder(x, y, 1).out \in Value
    /\ alu(x, y, 0, 0) = adder(x, y, 0).out /\ alu(x, y, 1, 0) = adder(x, y, 1).out
    /\ alu(x, y, 0, f) \in Value /\ alu(x, y, 1, f) \in Value
    /\ f \notin {0, 5} => alu(x, y, 1, f) = alu(x, y, 0, f)
    /\ brCond(f, x, y) \in BOOLEAN
    /\ loadControl(f, l, y) \in Value /\ wdata(l, y) \in Value
    /\ wbe(f, l) \in SUBSET (0..3)
    /\ Stored(x, y, lanes) \in Value
    /\ wdata(0, y) = y
<1> SUFFICES ASSUME NEW x \in Value, NEW y \in Value, NEW f \in 0..7, NEW l \in 0..3,
                    NEW lanes \in SUBSET (0..3)
             PROVE  /\ adder(x, y, 0).out \in Value /\ adder(x, y, 1).out \in Value
                    /\ alu(x, y, 0, 0) = adder(x, y, 0).out /\ alu(x, y, 1, 0) = adder(x, y, 1).out
                    /\ alu(x, y, 0, f) \in Value /\ alu(x, y, 1, f) \in Value
                    /\ f \notin {0, 5} => alu(x, y, 1, f) = alu(x, y, 0, f)
                    /\ brCond(f, x, y) \in BOOLEAN
                    /\ loadControl(f, l, y) \in Value /\ wdata(l, y) \in Value
                    /\ wbe(f, l) \in SUBSET (0..3)
                    /\ Stored(x, y, lanes) \in Value
                    /\ wdata(0, y) = y
  OBVIOUS
<1>1. alu(x, y, 0, 0) = adder(x, y, 0).out /\ alu(x, y, 1, 0) = adder(x, y, 1).out
  BY DEF alu
<1>2. sim(x, y)
  BY AluOfWords
<1>3. \A opcode \in OPCODE : alu(x, y, opcode \div 8, opcode % 8) \in Value
  BY <1>2, OpsInValue DEF sim
<1>4. alu(x, y, 0, f) \in Value
  <2>1. f \in OPCODE /\ f \div 8 = 0 /\ f % 8 = f
    BY DEF OPCODE
  <2> QED BY <1>3, <2>1
<1>5. alu(x, y, 1, 0) \in Value /\ alu(x, y, 1, 5) \in Value
  <2>1. 8 \in OPCODE /\ 8 \div 8 = 1 /\ 8 % 8 = 0 /\ 13 \in OPCODE /\ 13 \div 8 = 1 /\ 13 % 8 = 5
    BY DEF OPCODE
  <2> QED BY <1>3, <2>1
<1>6. ASSUME f \notin {0, 5} PROVE alu(x, y, 1, f) = alu(x, y, 0, f)
  <2>1. CASE f = 1
    <3>1. PICK n \in Nat : n = y % 2^SHAMT_BITS /\ n < 2^SHAMT_BITS
      BY ShiftAmount
    <3>2. alu(x, y, 0, 1) = shifter(x, y % 2^SHAMT_BITS, 1 \div 4 = 0, 0 = 1)
      BY DEF alu
    <3>3. alu(x, y, 1, 1) = shifter(x, y % 2^SHAMT_BITS, 1 \div 4 = 0, 1 = 1)
      BY DEF alu
    <3>4. 1 \div 4 = 0
      OBVIOUS
    <3>5. alu(x, y, 0, 1) = ShiftLeft(x, n) /\ alu(x, y, 1, 1) = ShiftLeft(x, n)
      <4>1. \A A_L : shifter(x, n, 1 \div 4 = 0, A_L) = Moved(x, n, 1 \div 4 = 0, Filled(A_L, x))
        BY <3>1, Shifts
      <4>2. \A fill : Moved(x, n, 1 \div 4 = 0, fill) = ShiftLeft(x, n)
        BY <3>4, Zenon DEF Moved
      <4> QED BY <3>1, <3>2, <3>3, <4>1, <4>2, Zenon
    <3> QED BY <2>1, <3>5
  <2>2. CASE f \in {2, 3, 4, 6, 7}
    BY <2>2 DEF alu
  <2> QED BY <1>6, <2>1, <2>2
<1>7. alu(x, y, 1, f) \in Value
  BY <1>4, <1>5, <1>6
<1>8. brCond(f, x, y) \in BOOLEAN
  <2>1. x \in Int /\ y \in Int /\ Signed(x) \in Int /\ Signed(y) \in Int
    BY Powers DEF Value, Signed
  <2>2. PICK s \in Int, t \in Int : s = Signed(x) /\ t = Signed(y)
    BY <2>1
  <2>3. (x = y) \in BOOLEAN /\ (x # y) \in BOOLEAN
    BY Zenon
  <2>5. (x < y) \in BOOLEAN
    BY <2>1
  <2>6. (~(x < y)) \in BOOLEAN
    BY <2>1
  <2>7. (s < t) \in BOOLEAN
    OBVIOUS
  <2>8. (~(s < t)) \in BOOLEAN
    OBVIOUS
  <2>4. brCond(f, x, y) \in BOOLEAN
    BY <2>2, <2>3, <2>5, <2>6, <2>7, <2>8, Zenon DEF brCond
  <2> QED BY <2>4
<1>9. wbe(f, l) \in SUBSET (0..3)
  BY DEF wbe
<1>10. loadControl(f, l, y) \in Value
  BY LoadsInValue
<1>11. wdata(l, y) \in Value /\ Stored(x, y, lanes) \in Value /\ wdata(0, y) = y
  BY StoresInValue
<1>12. adder(x, y, 0).out \in Value /\ adder(x, y, 1).out \in Value
  <2>1. 0 \in OPCODE /\ 0 \div 8 = 0 /\ 0 % 8 = 0
    BY DEF OPCODE
  <2>2. alu(x, y, 0, 0) \in Value
    BY <1>3, <2>1
  <2> QED BY <1>1, <1>5, <2>2
<1> QED BY <1>1, <1>4, <1>6, <1>7, <1>8, <1>9, <1>10, <1>11, <1>12
=============================================================================
