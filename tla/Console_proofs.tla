--------------------------- MODULE Console_proofs ---------------------------
(***************************************************************************)
(* What the monitor has of a token is what was typed and erased, and what  *)
(* the terminal shows of it, for all keys, sessions, images and sizes of   *)
(* the buffer.                                                             *)
(***************************************************************************)
EXTENDS Console, SequenceTheorems, WellFoundedInduction, TLAPS

(* The characters that are read, and those that are shown.                 *)
Char == KEYS \cup {Hex[i] : i \in 1..16}
             \cup {CR, SPACE, BS, DEL, "x", "f", "i", "l", "e", Garbled, None}
Shown == Char \cup {LF, "h", "d", "u", ">", "1", "5", ":"}

ConsoleTypeOK ==
  /\ todo \in Seq(Shown) /\ cells \in Seq(Shown) /\ col \in Nat
  /\ buf \in Seq(Char) /\ typed \in Seq(Char)
  /\ got \in Char /\ rx \in Char /\ arriving \in Char
  /\ toType \in Seq(Char) /\ toSend \in Seq([ch : Char, after : Nat])
  /\ args \in Seq(Int) /\ mem \in [MEMORY -> Int]

(* The arguments that each read of a token relies on.                      *)
Stores == {"sw", "sh", "sb"}
ArgsInv ==
  /\ want = "value" => cmd \in Stores
  /\ want = "address" /\ cmd \in Stores => Len(args) = 1
  /\ want = "length" => Len(args) = 1
  /\ want = "image" => Len(args) = 2

(* Every line feed is behind a carriage return, and nothing is erased.     *)
Plain(s) ==
  \A i \in 1..Len(s) : /\ s[i] # BS
                       /\ s[i] = CR => i < Len(s) /\ s[i + 1] = LF
                       /\ s[i] = LF => i > 1 /\ s[i - 1] = CR

(* Before column c of the line stands t; from column n on nothing does.    *)
OnScreen(line, t, c) == /\ Len(t) <= c /\ c <= Len(line)
                        /\ \A i \in 1..Len(t) : line[c - Len(t) + i] = t[i]
Clear(line, n) == \A i \in n..Len(line) : i > 0 => line[i] = SPACE
Stands(t) == OnScreen(cells, t, col) /\ Clear(cells, col + 1)

Erasing == {BS, DEL}
Erased(t) == IF t = <<>> THEN <<>> ELSE Front(t)

(* What of the token is on the screen; the digits of an image are not      *)
(* edited.                                                                 *)
Kept(t) == IF want = "image" THEN <<>> ELSE t

(* The phases of the monitor: it waits for a key; writes what a command    *)
(* says; echoes the end of a line, a key, or one that erases; blanks what  *)
(* was erased.                                                             *)
Waiting == got = None /\ todo = <<>> /\ Stands(Kept(buf))
Writing == /\ got = None /\ todo # <<>> /\ buf = <<>>
           /\ \/ Plain(todo) /\ Stands(<<>>)
              \/ Head(todo) = LF /\ Plain(Tail(todo)) /\ col = 0
Ending == /\ got = CR
          /\ \/ todo \in {<<>>, Newline} /\ Stands(<<>>)
             \/ todo = <<LF>> /\ col = 0
Echoing == /\ got \notin {None, CR} \cup Erasing
           /\ \/ todo = <<got>> /\ Stands(Kept(buf))
              \/ todo = <<>> /\ Stands(Kept(Append(buf, got)))
Backing == /\ got \in Erasing /\ want # "image"
           /\ \/ todo = <<BS>> /\ Stands(buf)
              \/ todo = <<>> /\ OnScreen(cells, Erased(buf), col) /\ Clear(cells, col + 2)
Blanking ==
  /\ got = None /\ want # "image"
  /\ \/ todo = <<SPACE, BS>> /\ OnScreen(cells, buf, col) /\ Clear(cells, col + 2)
     \/ /\ todo = <<SPACE>> /\ buf = <<>>
        /\ OnScreen(cells, <<>>, col) /\ Clear(cells, col + 2)
     \/ /\ todo = <<BS>> /\ col > 0 /\ col <= Len(cells)
        /\ OnScreen(cells, buf, col - 1) /\ Clear(cells, col)

MonitorReads == (TokenRead \ {"parse"}) \cup {"image", "program"}
Phase == Waiting \/ Writing \/ Ending \/ Echoing \/ Backing \/ Blanking
MonitorInv == want \in MonitorReads => Phase

(* The monitor's token and the program jumped to.                          *)
BufInv == /\ want \in TokenRead \ {"parse"} => \A i \in 1..Len(buf) : buf[i] \notin {CR, BS, DEL}
          /\ want = "program" => got = None

AsTyped(s) == ToSet(s) \cap {CR, BS, DEL} = {} => cells = s /\ col = Len(s)
EchoInv == want = "echo" => \/ todo = <<>> /\ got = None /\ AsTyped(typed)
                            \/ todo = <<got>> /\ got # None /\ AsTyped(typed)
                            \/ todo = <<>> /\ got # None /\ AsTyped(Append(typed, got))

(* No key that erases among the words of an image, which the monitor reads *)
(* without editing.                                                        *)
ImageUnedited == want = "image" => got \notin Erasing

(* Induction, by the least number that is not in a set.                    *)
LEMMA LeastNatural ==
  ASSUME NEW T \in SUBSET Nat, T # {}
  PROVE  \E x \in T : \A y \in T : x <= y
<1>1. PICK x \in T : \A y \in T : ~ (<<y, x>> \in OpToRel(<, Nat))
  BY NatLessThanWellFounded, WFMin
<1>2. ASSUME NEW y \in T PROVE x <= y
  <2>1. <<y, x>> \notin OpToRel(<, Nat) /\ <<y, x>> \in Nat \X Nat
    BY <1>1
  <2>2. ~(y < x)
    BY <2>1 DEF OpToRel
  <2> QED BY <2>2
<1> QED BY <1>2

LEMMA UpTo ==
  ASSUME NEW N \in Nat, NEW S, 0 \in S, \A n \in 0..(N - 1) : n \in S => n + 1 \in S
  PROVE  \A n \in 0..N : n \in S
<1> DEFINE T == (0..N) \ S
<1>1. SUFFICES ASSUME T # {} PROVE FALSE
  OBVIOUS
<1>2. PICK x \in T : \A y \in T : x <= y
  <2>1. T \in SUBSET Nat
    OBVIOUS
  <2> QED BY <1>1, <2>1, LeastNatural
<1>3. x \in 1..N /\ x \notin S
  OBVIOUS
<1>4. PICK n \in 0..(N - 1) : x = n + 1
  BY <1>3
<1>5. n \in S
  <2>1. n \notin T
    BY <1>2, <1>4
  <2> QED BY <2>1
<1> QED BY <1>3, <1>4, <1>5

(* A function on 0..N given by its first value and by what each one makes  *)
(* of the one before.                                                      *)
HasRecursion(N, V, base, step) ==
  \E f \in [0..N -> V] : \A i \in 0..N : f[i] = IF i = 0 THEN base ELSE step[i][f[i - 1]]

LEMMA Recursion ==
  ASSUME NEW N \in Nat, NEW V, NEW base \in V, NEW step \in [1..N -> [V -> V]]
  PROVE  HasRecursion(N, V, base, step)
<1> DEFINE Upto(n, f) == \A i \in 0..n : f[i] = IF i = 0 THEN base ELSE step[i][f[i - 1]]
           S == {n \in 0..N : \E f \in [0..n -> V] : Upto(n, f)}
<1>1. 0 \in S
  <2> DEFINE g == [i \in 0..0 |-> base]
  <2>1. g \in [0..0 -> V] /\ Upto(0, g)
    OBVIOUS
  <2>2. \E f \in [0..0 -> V] : Upto(0, f)
    BY ONLY <2>1
  <2>3. 0 \in 0..N
    OBVIOUS
  <2> QED BY ONLY <2>2, <2>3
<1>2. ASSUME NEW n \in 0..(N - 1), n \in S PROVE n + 1 \in S
  <2>1. PICK f \in [0..n -> V] : Upto(n, f)
    BY <1>2
  <2> DEFINE g == [i \in 0..(n + 1) |-> IF i = n + 1 THEN step[n + 1][f[n]] ELSE f[i]]
  <2>2. step[n + 1][f[n]] \in V
    BY <2>1
  <2>3. g \in [0..(n + 1) -> V]
    BY <2>1, <2>2
  <2>4. ASSUME NEW i \in 0..(n + 1)
        PROVE  g[i] = IF i = 0 THEN base ELSE step[i][g[i - 1]]
    <3>1. CASE i = n + 1
      <4>1. g[i] = step[n + 1][f[n]] /\ i # 0 /\ i - 1 = n /\ g[n] = f[n]
        BY <3>1
      <4> QED BY <3>1, <4>1
    <3>2. CASE i \in 0..n
      <4>1. n \in Nat /\ i # n + 1 /\ (i # 0 => i - 1 \in 0..(n + 1) /\ i - 1 # n + 1)
        BY <3>2
      <4>2. g[i] = f[i] /\ (i # 0 => g[i - 1] = f[i - 1])
        BY <4>1
      <4> HIDE DEF g
      <4> QED BY <2>1, <3>2, <4>2
    <3> QED BY <3>1, <3>2
  <2> HIDE DEF g
  <2>5. \E h \in [0..(n + 1) -> V] : Upto(n + 1, h)
    BY <2>3, <2>4
  <2>6. n + 1 \in 0..N
    OBVIOUS
  <2> QED BY ONLY <2>5, <2>6
<1> HIDE DEF S
<1>3. \A n \in 0..N : n \in S
  <2>1. \A n \in 0..(N - 1) : n \in S => n + 1 \in S
    BY <1>2
  <2> QED BY ONLY <1>1, <2>1, N \in Nat, UpTo
<1>4. N \in S
  BY <1>3
<1> QED BY <1>4 DEF S, HasRecursion

(* Sequences without their last element, or with one replaced.             *)
LEMMA FrontSeq ==
  ASSUME NEW S, NEW s \in Seq(S), s # <<>>
  PROVE  /\ Front(s) \in Seq(S) /\ Len(Front(s)) = Len(s) - 1
         /\ \A i \in 1..(Len(s) - 1) : Front(s)[i] = s[i]
<1>1. Len(s) \in Nat \ {0}
  BY EmptySeq
<1>2. Len(s) - 1 \in Int /\ \A i \in 1..(Len(s) - 1) : s[i] \in S
  BY <1>1, ElementOfSeq
<1>3. Front(s) = SubSeq(s, 1, Len(s) - 1)
  BY DEF Front
<1>4. PICK m \in Nat : m = Len(s) - 1
  BY <1>1
<1>5. PICK t : t = SubSeq(s, 1, m)
  OBVIOUS
<1>6. /\ t \in Seq(S) /\ Len(t) = IF 1 <= m THEN m - 1 + 1 ELSE 0
      /\ \A i \in 1..(m - 1 + 1) : t[i] = s[1 + i - 1]
  BY <1>2, <1>4, <1>5, SubSeqProperties
<1>7. Len(t) = m /\ \A i \in 1..m : t[i] = s[i]
  <2>1. Len(t) = m /\ m - 1 + 1 = m
    BY <1>6
  <2>2. ASSUME NEW i \in 1..m PROVE t[i] = s[i]
    <3>1. 1 + i - 1 = i
      OBVIOUS
    <3> QED BY <1>6, <2>1, <3>1
  <2> QED BY <2>1, <2>2
<1> QED BY <1>3, <1>4, <1>5, <1>6, <1>7

(***************************************************************************)
(* What was typed and erased.                                              *)
(***************************************************************************)
EditStep(t, k) == IF k \notin {BS, DEL} THEN Append(t, k)
                  ELSE IF t = <<>> THEN <<>> ELSE Front(t)
Edits(f, keys) ==
  f = [i \in 0..Len(keys) |-> IF i = 0 THEN <<>> ELSE EditStep(f[i - 1], keys[i])]

LEMMA EditedIs ==
  ASSUME NEW keys, NEW f, f = CHOOSE g : Edits(g, keys)
  PROVE  Edited(keys) = f[Len(keys)]
BY DEF Edited, Edits, EditStep

LEMMA EditStepType ==
  ASSUME NEW t \in Seq(Char), NEW k \in Char
  PROVE  EditStep(t, k) \in Seq(Char)
<1>1. Append(t, k) \in Seq(Char) /\ <<>> \in Seq(Char)
  BY AppendProperties, EmptySeq
<1>2. t # <<>> => Front(t) \in Seq(Char)
  BY FrontSeq
<1> QED BY <1>1, <1>2 DEF EditStep

LEMMA EditsExist ==
  ASSUME NEW keys \in Seq(Char)
  PROVE  \E f \in [0..Len(keys) -> Seq(Char)] : Edits(f, keys)
<1> DEFINE n == Len(keys)
           step == [i \in 1..n |-> [t \in Seq(Char) |-> EditStep(t, keys[i])]]
<1>1. n \in Nat
  BY LenProperties
<1>2. ASSUME NEW i \in 1..n, NEW t \in Seq(Char) PROVE EditStep(t, keys[i]) \in Seq(Char)
  BY ElementOfSeq, EditStepType
<1>3. step \in [1..n -> [Seq(Char) -> Seq(Char)]]
  BY <1>2, Zenon
<1>4. ASSUME NEW i \in 1..n, NEW t \in Seq(Char) PROVE step[i][t] = EditStep(t, keys[i])
  OBVIOUS
<1>5. <<>> \in Seq(Char)
  BY EmptySeq
<1> HIDE DEF n, step
<1>6. PICK f \in [0..n -> Seq(Char)] :
        \A i \in 0..n : f[i] = IF i = 0 THEN <<>> ELSE step[i][f[i - 1]]
  <2>1. PICK V, e : V = Seq(Char) /\ e = <<>>
    OBVIOUS
  <2>2. e \in V /\ step \in [1..n -> [V -> V]]
    BY <1>3, <1>5, <2>1
  <2>3. HasRecursion(n, V, e, step)
    BY <1>1, <2>2, Recursion
  <2> QED BY <2>1, <2>3, Zenon DEF HasRecursion
<1>7. ASSUME NEW i \in 0..n
      PROVE  f[i] = IF i = 0 THEN <<>> ELSE EditStep(f[i - 1], keys[i])
  <2>1. CASE i = 0
    BY <1>6, <2>1
  <2>2. CASE i # 0
    <3>1. i \in 1..n /\ i - 1 \in 0..n
      BY <1>1, <2>2
    <3>2. f[i] = step[i][f[i - 1]] /\ f[i - 1] \in Seq(Char)
      BY <1>6, <2>2, <3>1
    <3> QED BY <1>4, <2>2, <3>1, <3>2, Zenon
  <2> QED BY <2>1, <2>2
<1>8. f = [i \in 0..n |-> f[i]]
  OBVIOUS
<1>9. Edits(f, keys)
  BY <1>7, <1>8, Zenon DEF Edits, n
<1> QED BY <1>6, <1>9 DEF n

LEMMA EditedEmpty == Edited(<<>>) = <<>>
<1>1. PICK f : f = CHOOSE g : Edits(g, <<>>)
  OBVIOUS
<1>2. <<>> \in Seq(Char) /\ Len(<<>>) = 0
  BY EmptySeq
<1>3. Edits(f, <<>>)
  BY <1>1, <1>2, EditsExist, Zenon
<1>4. f[0] = <<>>
  BY <1>2, <1>3 DEF Edits
<1> QED BY <1>1, <1>2, <1>4, EditedIs

(* One key more is one step more.                                          *)
LEMMA EditedAppend ==
  ASSUME NEW s \in Seq(Char), NEW k \in Char
  PROVE  Edited(Append(s, k)) = EditStep(Edited(s), k)
<1>1. PICK t \in Seq(Char) :
        /\ t = Append(s, k) /\ Len(t) = Len(s) + 1 /\ t[Len(s) + 1] = k
        /\ \A i \in 1..Len(s) : t[i] = s[i]
  <2>1. PICK t : t = Append(s, k)
    OBVIOUS
  <2>2. /\ t \in Seq(Char) /\ Len(t) = Len(s) + 1 /\ t[Len(s) + 1] = k
        /\ \A i \in 1..Len(s) : t[i] = s[i]
    BY <2>1, AppendProperties
  <2> QED BY <2>1, <2>2
<1>2. PICK n \in Nat : n = Len(s)
  BY LenProperties
<1>3. PICK f : f = CHOOSE g : Edits(g, s)
  OBVIOUS
<1>4. PICK h : h = CHOOSE g : Edits(g, t)
  OBVIOUS
<1>5. Edits(f, s) /\ Edits(h, t)
  BY <1>1, <1>3, <1>4, EditsExist, Zenon
<1>6. /\ \A i \in 0..n : f[i] = IF i = 0 THEN <<>> ELSE EditStep(f[i - 1], s[i])
      /\ \A i \in 0..(n + 1) : h[i] = IF i = 0 THEN <<>> ELSE EditStep(h[i - 1], t[i])
  <2>1. f = [i \in 0..n |-> IF i = 0 THEN <<>> ELSE EditStep(f[i - 1], s[i])]
    BY <1>2, <1>5 DEF Edits
  <2>2. h = [i \in 0..(n + 1) |-> IF i = 0 THEN <<>> ELSE EditStep(h[i - 1], t[i])]
    BY <1>1, <1>2, <1>5 DEF Edits
  <2> QED BY <2>1, <2>2, Zenon
<1> DEFINE S == {i \in 0..n : f[i] = h[i]}
<1>7. 0 \in S
  BY <1>6
<1>8. ASSUME NEW i \in 0..(n - 1), i \in S PROVE i + 1 \in S
  <2>1. i + 1 \in 0..n /\ i + 1 \in 0..(n + 1) /\ i + 1 # 0 /\ (i + 1) - 1 = i /\ i + 1 \in 1..n
    OBVIOUS
  <2>2. t[i + 1] = s[i + 1]
    BY <1>1, <1>2, <2>1
  <2>3. f[i + 1] = EditStep(f[(i + 1) - 1], s[i + 1])
    BY <1>6, <2>1, Zenon
  <2>4. h[i + 1] = EditStep(h[(i + 1) - 1], t[i + 1])
    BY <1>6, <2>1, Zenon
  <2>5. f[i] = h[i]
    BY <1>8
  <2>6. f[i + 1] = h[i + 1]
    BY ONLY <2>1, <2>2, <2>3, <2>4, <2>5
  <2> QED BY <2>1, <2>6
<1> HIDE DEF S
<1>9. \A i \in 0..n : i \in S
  <2>1. \A i \in 0..(n - 1) : i \in S => i + 1 \in S
    BY <1>8
  <2> QED BY ONLY <1>7, <2>1, n \in Nat, UpTo
<1>10. f[n] = h[n]
  BY <1>9 DEF S
<1>11. h[n + 1] = EditStep(h[n], k)
  <2>1. n + 1 \in 0..(n + 1) /\ n + 1 # 0 /\ (n + 1) - 1 = n /\ t[n + 1] = k
    BY <1>1, <1>2
  <2>2. h[n + 1] = EditStep(h[(n + 1) - 1], t[n + 1])
    BY <1>6, <2>1, Zenon
  <2> QED BY ONLY <2>1, <2>2
<1>12. Edited(s) = f[n] /\ Edited(t) = h[n + 1]
  <2>1. Edited(s) = f[Len(s)]
    BY <1>3, EditedIs
  <2>2. Edited(t) = h[Len(t)]
    BY <1>4, EditedIs
  <2> QED BY <1>1, <1>2, <2>1, <2>2
<1> QED BY <1>1, <1>10, <1>11, <1>12

(***************************************************************************)
(* Characters and conversions.                                             *)
(***************************************************************************)
LEMMA Characters ==
  /\ Char \subseteq Shown /\ LF \in Shown /\ LF \notin Char
  /\ {CR, SPACE, BS, DEL, None, Garbled, "x", "f", "i", "l", "e"} \subseteq Char
  /\ \A i \in 1..16 : Hex[i] \in Char /\ Hex[i] \notin {CR, LF, BS, DEL}
  /\ KEYS \subseteq Char
<1>1. LF \notin Char
  BY ConsoleAssumption DEF Char, Hex, CR, LF, BS, DEL, SPACE, Garbled, None
<1>2. \A i \in 1..16 : Hex[i] \in Char
  BY DEF Char
<1>3. \A i \in 1..16 : Hex[i] \notin {CR, LF, BS, DEL}
  BY DEF Hex, CR, LF, BS, DEL
<1>4. Char \subseteq Shown /\ LF \in Shown
  BY DEF Shown
<1>5. /\ {CR, SPACE, BS, DEL, None, Garbled, "x", "f", "i", "l", "e"} \subseteq Char
      /\ KEYS \subseteq Char
  BY DEF Char
<1> QED BY <1>1, <1>2, <1>3, <1>4, <1>5

LEMMA Distinct ==
  /\ CR # LF /\ CR # BS /\ CR # DEL /\ CR # SPACE /\ LF # BS /\ LF # SPACE /\ BS # SPACE /\ BS # DEL
  /\ DEL # SPACE /\ DEL # LF
  /\ None \notin {CR, LF, BS, DEL, SPACE} /\ Garbled \notin {CR, LF, BS, DEL, SPACE, None}
BY DEF CR, LF, BS, DEL, SPACE, None, Garbled

(* The digits of a number.                                                 *)
Digit == {Hex[i] : i \in 1..16}

LEMMA HexWritten ==
  ASSUME NEW x \in Int, NEW n \in Nat, n >= 2, NEW bytes \in {1, 2, 4}
  PROVE  /\ to_ascii_hex(x, n, bytes) \in Seq(Digit)
         /\ n = 9 /\ bytes = 4 => Len(to_ascii_hex(x, n, bytes)) = 8
<1> DEFINE m == 2 * bytes
           k == IF m < n - 1 THEN m ELSE n - 1
<1>1. m \in {2, 4, 8} /\ k \in Nat /\ k <= m /\ (n = 9 /\ bytes = 4 => k = 8)
  OBVIOUS
<1>2. to_ascii_hex(x, n, bytes) = [i \in 1..k |-> Hex[((x \div 16^(m - i)) % 16) + 1]]
  BY DEF to_ascii_hex
<1>3. ASSUME NEW i \in 1..k PROVE Hex[((x \div 16^(m - i)) % 16) + 1] \in Digit
  <2>1. m - i \in 0..7
    BY <1>1
  <2>2. PICK p \in Nat \ {0} : p = 16^(m - i)
    BY <2>1, DigitAssumption
  <2>3. PICK q \in Int : q = x \div p
    OBVIOUS
  <2>4. (q % 16) + 1 \in 1..16
    OBVIOUS
  <2> QED BY <2>2, <2>3, <2>4 DEF Digit
<1> HIDE DEF m, k
<1>4. PICK s : s = to_ascii_hex(x, n, bytes)
  OBVIOUS
<1>5. s \in [1..k -> Digit]
  BY <1>2, <1>3, <1>4
<1>6. s \in Seq(Digit) /\ Len(s) = k
  BY <1>1, <1>5
<1> QED BY <1>1, <1>4, <1>6

LEMMA DigitsAre == Digit \subseteq Char /\ Digit \cap {CR, LF, BS, DEL} = {}
BY Characters DEF Digit

(* What is read is a number.                                               *)
NumberStep(digits, base, bytes, t, c) ==
  IF c \in digits THEN Unsigned(base * t + DigitValue[c], bytes) ELSE t
Numbers(f, digits, base, s, bytes) ==
  f = [i \in 0..Len(s) |-> IF i = 0 THEN 0 ELSE NumberStep(digits, base, bytes, f[i - 1], s[i])]

LEMMA NumberIs ==
  ASSUME NEW digits, NEW base, NEW s, NEW bytes, NEW f,
         Numbers(f, digits, base, s, bytes)
  PROVE  \E h : Numbers(h, digits, base, s, bytes) /\ Number(digits, base, s, bytes) = h[Len(s)]
<1> DEFINE h == CHOOSE g : Numbers(g, digits, base, s, bytes)
<1>1. Number(digits, base, s, bytes) = h[Len(s)]
  BY DEF Number, Numbers, NumberStep
<1>2. Numbers(h, digits, base, s, bytes)
  BY Zenon
<1> QED BY <1>1, <1>2

LEMMA ValueOfDigit == \A c \in HexDigit : DigitValue[c] \in 0..15
<1> SUFFICES ASSUME NEW c \in HexDigit PROVE DigitValue[c] \in 0..15
  OBVIOUS
<1> DEFINE HasValue(v) == Hex[v + 1] = c \/ (v > 9 /\ Upper[v - 9] = c)
<1>1. DigitValue[c] = CHOOSE v \in 0..15 : HasValue(v)
  BY DEF DigitValue
<1>2. \E v \in 0..15 : HasValue(v)
  <2>1. CASE \E i \in 1..16 : c = Hex[i]
    <3>1. PICK i \in 1..16 : c = Hex[i]
      BY <2>1
    <3>2. i - 1 \in 0..15 /\ (i - 1) + 1 = i
      OBVIOUS
    <3>3. HasValue(i - 1)
      BY <3>1, <3>2
    <3> QED BY <3>2, <3>3
  <2>2. CASE \E i \in 1..6 : c = Upper[i]
    <3>1. PICK i \in 1..6 : c = Upper[i]
      BY <2>2
    <3>2. i + 9 \in 0..15 /\ (i + 9) - 9 = i /\ i + 9 > 9
      OBVIOUS
    <3>3. HasValue(i + 9)
      BY <3>1, <3>2
    <3> QED BY <3>2, <3>3
  <2> QED BY <2>1, <2>2 DEF HexDigit
<1> HIDE DEF HasValue
<1>3. (CHOOSE v \in 0..15 : HasValue(v)) \in 0..15
  BY <1>2, Zenon
<1> QED BY <1>1, <1>3

LEMMA NumberInInt ==
  ASSUME NEW digits \in SUBSET HexDigit, NEW base \in Nat, NEW S, NEW s \in Seq(S),
         NEW bytes \in {1, 2, 4}
  PROVE  Number(digits, base, s, bytes) \in Int
<1> DEFINE n == Len(s)
           step == [i \in 1..n |-> [t \in Int |-> NumberStep(digits, base, bytes, t, s[i])]]
<1>1. n \in Nat
  BY LenProperties
<1>2. ASSUME NEW t \in Int, NEW c PROVE NumberStep(digits, base, bytes, t, c) \in Int
  <2>1. c \in digits => DigitValue[c] \in Int
    BY ValueOfDigit
  <2>2. ASSUME NEW u \in Int PROVE Unsigned(u, bytes) \in Int
    <3>1. CASE bytes = 4
      BY <3>1 DEF Unsigned
    <3>2. CASE bytes # 4
      <4>1. bytes \in 0..3
        BY <3>2
      <4>2. PICK p \in Nat \ {0} : p = 256^bytes
        BY <4>1, DigitAssumption
      <4>3. u % p \in Int
        OBVIOUS
      <4> QED BY <3>2, <4>2, <4>3 DEF Unsigned
    <3> QED BY <3>1, <3>2
  <2>3. c \in digits => base * t + DigitValue[c] \in Int
    BY <2>1
  <2> QED BY <2>2, <2>3 DEF NumberStep
<1>3. step \in [1..n -> [Int -> Int]]
  BY <1>2, Zenon
<1>4. ASSUME NEW i \in 1..n, NEW t \in Int
      PROVE  step[i][t] = NumberStep(digits, base, bytes, t, s[i])
  OBVIOUS
<1> HIDE DEF n, step
<1>5. PICK f \in [0..n -> Int] :
        \A i \in 0..n : f[i] = IF i = 0 THEN 0 ELSE step[i][f[i - 1]]
  <2>1. 0 \in Int
    OBVIOUS
  <2>2. HasRecursion(n, Int, 0, step)
    BY <1>1, <1>3, <2>1, Recursion
  <2> QED BY <2>2, Zenon DEF HasRecursion
<1>6. ASSUME NEW i \in 0..n
      PROVE  f[i] = IF i = 0 THEN 0 ELSE NumberStep(digits, base, bytes, f[i - 1], s[i])
  <2>1. CASE i = 0
    BY <1>5, <2>1
  <2>2. CASE i # 0
    <3>1. i \in 1..n /\ i - 1 \in 0..n
      BY <1>1, <2>2
    <3>2. f[i] = step[i][f[i - 1]] /\ f[i - 1] \in Int
      BY <1>5, <2>2, <3>1
    <3> QED BY <1>4, <2>2, <3>1, <3>2, Zenon
  <2> QED BY <2>1, <2>2
<1>7. f = [i \in 0..n |-> f[i]]
  OBVIOUS
<1>8. Numbers(f, digits, base, s, bytes)
  BY <1>6, <1>7, Zenon DEF Numbers, n
<1>9. PICK h : Numbers(h, digits, base, s, bytes) /\ Number(digits, base, s, bytes) = h[Len(s)]
  BY <1>8, NumberIs
<1>10. h = [i \in 0..n |-> IF i = 0 THEN 0 ELSE NumberStep(digits, base, bytes, h[i - 1], s[i])]
  BY <1>9, Zenon DEF Numbers, n
<1> DEFINE T == {i \in 0..n : h[i] \in Int}
<1>11. 0 \in T
  BY <1>1, <1>10
<1>12. ASSUME NEW i \in 0..(n - 1), i \in T PROVE i + 1 \in T
  <2>1. i + 1 \in 0..n /\ i + 1 # 0 /\ (i + 1) - 1 = i
    BY <1>1
  <2>2. h[i + 1] = NumberStep(digits, base, bytes, h[i], s[i + 1])
    BY <1>10, <2>1
  <2> QED BY <1>2, <1>12, <2>1, <2>2
<1> HIDE DEF T
<1>13. \A i \in 0..n : i \in T
  <2>1. \A i \in 0..(n - 1) : i \in T => i + 1 \in T
    BY <1>12
  <2> QED BY ONLY <1>1, <1>11, <2>1, UpTo
<1>14. h[n] \in Int
  BY <1>1, <1>13 DEF T
<1>15. n = Len(s)
  BY DEF n
<1> QED BY <1>9, <1>14, <1>15

LEMMA ParsedInInt ==
  ASSUME NEW s \in Seq(Char), NEW bytes \in {1, 2, 4}
  PROVE  ascii_hex_to(s, bytes) \in Int /\ ascii_dec_to(s, bytes) \in Int
<1>1. ASSUME NEW n \in Nat PROVE Prefix(s, n) \in Seq(Char)
  <2>1. Len(s) \in Nat
    BY LenProperties
  <2>2. PICK k \in Nat : k <= Len(s) /\ k = IF Len(s) < n THEN Len(s) ELSE n
    BY <2>1
  <2>3. Prefix(s, n) = SubSeq(s, 1, k)
    BY <2>2 DEF Prefix
  <2>4. \A i \in 1..k : s[i] \in Char
    BY <2>1, <2>2, ElementOfSeq
  <2> QED BY <2>2, <2>3, <2>4, SubSeqProperties
<1>2. DecDigit \in SUBSET HexDigit /\ HexDigit \in SUBSET HexDigit
  BY DEF DecDigit, HexDigit
<1>3. 2 * bytes \in Nat /\ 2 * bytes + 1 \in Nat
  OBVIOUS
<1>4. PICK s1 \in Seq(Char) : s1 = Prefix(s, 2 * bytes)
  BY <1>1, <1>3
<1>5. PICK s2 \in Seq(Char) : s2 = Prefix(s, 2 * bytes + 1)
  BY <1>1, <1>3
<1>6. Number(HexDigit, 16, s1, bytes) \in Int /\ Number(DecDigit, 10, s2, bytes) \in Int
  <2>1. 16 \in Nat /\ 10 \in Nat
    OBVIOUS
  <2> QED BY <1>2, <2>1, NumberInInt
<1> QED BY <1>4, <1>5, <1>6 DEF ascii_hex_to, ascii_dec_to

(* What is loaded is a number, and what is stored leaves numbers.          *)
Loads(f, a, bytes) ==
  f = [i \in 0..bytes |-> IF i = 0 THEN 0 ELSE 256 * f[i - 1] + Fetch(a + bytes - i)]

LEMMA LoadIs ==
  ASSUME NEW a, NEW bytes, NEW f, Loads(f, a, bytes)
  PROVE  \E h : Loads(h, a, bytes) /\ Load(a, bytes) = h[bytes]
<1> DEFINE h == CHOOSE g : Loads(g, a, bytes)
<1>1. Load(a, bytes) = h[bytes]
  BY DEF Load, Loads
<1>2. Loads(h, a, bytes)
  BY Zenon
<1> QED BY <1>1, <1>2

LEMMA LoadInInt ==
  ASSUME mem \in [MEMORY -> Int], NEW a \in Int, NEW bytes \in {1, 2, 4}
  PROVE  Load(a, bytes) \in Int
<1> DEFINE step == [i \in 1..bytes |-> [t \in Int |-> 256 * t + Fetch(a + bytes - i)]]
<1>1. \A x : Fetch(x) \in Int
  BY DEF Fetch
<1>2. ASSUME NEW t \in Int, NEW x PROVE 256 * t + Fetch(x) \in Int
  BY <1>1
<1>3. step \in [1..bytes -> [Int -> Int]]
  BY <1>2, Zenon
<1>4. ASSUME NEW i \in 1..bytes, NEW t \in Int
      PROVE  step[i][t] = 256 * t + Fetch(a + bytes - i)
  OBVIOUS
<1> HIDE DEF step
<1>5. PICK f \in [0..bytes -> Int] :
        \A i \in 0..bytes : f[i] = IF i = 0 THEN 0 ELSE step[i][f[i - 1]]
  <2>1. 0 \in Int /\ bytes \in Nat
    OBVIOUS
  <2>2. HasRecursion(bytes, Int, 0, step)
    BY <1>3, <2>1, Recursion
  <2> QED BY <2>2, Zenon DEF HasRecursion
<1>6. ASSUME NEW i \in 0..bytes
      PROVE  f[i] = IF i = 0 THEN 0 ELSE 256 * f[i - 1] + Fetch(a + bytes - i)
  <2>1. CASE i = 0
    BY <1>5, <2>1
  <2>2. CASE i # 0
    <3>1. i \in 1..bytes /\ i - 1 \in 0..bytes
      BY <2>2
    <3>2. f[i] = step[i][f[i - 1]] /\ f[i - 1] \in Int
      BY <1>5, <2>2, <3>1
    <3> QED BY <1>4, <2>2, <3>1, <3>2, Zenon
  <2> QED BY <2>1, <2>2
<1>7. f = [i \in 0..bytes |-> f[i]]
  OBVIOUS
<1>8. Loads(f, a, bytes)
  BY <1>6, <1>7, Zenon DEF Loads
<1>9. PICK h : Loads(h, a, bytes) /\ Load(a, bytes) = h[bytes]
  BY <1>8, LoadIs
<1>10. h = [i \in 0..bytes |-> IF i = 0 THEN 0 ELSE 256 * h[i - 1] + Fetch(a + bytes - i)]
  BY <1>9, Zenon DEF Loads
<1>11. h[bytes] \in Int
  <2>1. ASSUME NEW i \in 1..bytes, h[i - 1] \in Int PROVE h[i] \in Int
    <3>1. h[i] = 256 * h[i - 1] + Fetch(a + bytes - i)
      BY <1>10
    <3> QED BY <1>2, <2>1, <3>1
  <2>2. h[0] \in Int
    BY <1>10
  <2>3. h[1] \in Int
    BY <2>1, <2>2
  <2>4. bytes >= 2 => h[2] \in Int
    BY <2>1, <2>3
  <2>5. bytes = 4 => h[3] \in Int
    BY <2>1, <2>4
  <2>6. bytes = 4 => h[4] \in Int
    BY <2>1, <2>5
  <2> QED BY <2>3, <2>4, <2>6
<1> QED BY <1>9, <1>11

LEMMA StoreType ==
  ASSUME mem \in [MEMORY -> Int], NEW a \in Int, NEW bytes \in {1, 2, 4}, NEW v \in Int,
         Store(a, bytes, v)
  PROVE  mem' \in [MEMORY -> Int]
<1>1. ASSUME NEW x \in MEMORY, x \in a..(a + bytes - 1)
      PROVE  (v \div 256^(x - a)) % 256 \in Int
  <2>1. x - a \in 0..3
    BY <1>1
  <2>2. PICK p \in Nat \ {0} : p = 256^(x - a)
    BY <2>1, DigitAssumption
  <2>3. PICK q \in Int : q = v \div p
    OBVIOUS
  <2> QED BY <2>2, <2>3
<1> DEFINE new == [x \in MEMORY |-> IF x \in a..(a + bytes - 1)
                                    THEN (v \div 256^(x - a)) % 256 ELSE mem[x]]
<1>2. mem' = new
  BY DEF Store
<1>3. \A x \in MEMORY : (IF x \in a..(a + bytes - 1)
                         THEN (v \div 256^(x - a)) % 256 ELSE mem[x]) \in Int
  BY <1>1
<1>4. new \in [MEMORY -> Int]
  BY <1>3, Zenon
<1> QED BY <1>2, <1>4

(***************************************************************************)
(* What the monitor writes: whole lines and a prompt.                      *)
(***************************************************************************)
Output(s) == s \in Seq(Shown) /\ Plain(s)

LEMMA OutputConcat ==
  ASSUME NEW s, NEW t, Output(s), Output(t)
  PROVE  Output(s \o t)
<1>1. s \in Seq(Shown) /\ t \in Seq(Shown) /\ Plain(s) /\ Plain(t)
  BY DEF Output
<1>2. PICK m \in Nat, n \in Nat : m = Len(s) /\ n = Len(t)
  BY <1>1, LenProperties
<1>3. PICK u \in Seq(Shown) :
        /\ u = s \o t /\ Len(u) = m + n
        /\ \A i \in 1..(m + n) : u[i] = IF i <= m THEN s[i] ELSE t[i - m]
  <2>1. PICK u : u = s \o t
    OBVIOUS
  <2>2. /\ u \in Seq(Shown) /\ Len(u) = Len(s) + Len(t)
        /\ \A i \in 1..(Len(s) + Len(t)) : u[i] = IF i <= Len(s) THEN s[i] ELSE t[i - Len(s)]
    BY <1>1, <2>1, ConcatProperties
  <2> QED BY <1>2, <2>1, <2>2
<1>4. ASSUME NEW i \in 1..(m + n)
      PROVE  /\ u[i] # BS
             /\ u[i] = CR => i < m + n /\ u[i + 1] = LF
             /\ u[i] = LF => i > 1 /\ u[i - 1] = CR
  <2>1. CASE i <= m
    <3>1. i \in 1..m /\ u[i] = s[i]
      BY <1>3, <2>1
    <3>2. /\ s[i] # BS
          /\ s[i] = CR => i < m /\ s[i + 1] = LF
          /\ s[i] = LF => i > 1 /\ s[i - 1] = CR
      BY <1>1, <1>2, <3>1 DEF Plain
    <3>3. i < m => i + 1 \in 1..(m + n) /\ i + 1 <= m
      BY <3>1
    <3>4. i < m => u[i + 1] = s[i + 1]
      BY <1>3, <3>3
    <3>5. i > 1 => i - 1 \in 1..(m + n) /\ i - 1 <= m
      BY <3>1
    <3>6. i > 1 => u[i - 1] = s[i - 1]
      BY <1>3, <3>5
    <3> QED BY <3>1, <3>2, <3>4, <3>6
  <2>2. CASE i > m
    <3>1. PICK j \in 1..n : j = i - m
      BY <2>2
    <3>2. u[i] = t[j]
      BY <1>3, <2>2, <3>1
    <3>3. /\ t[j] # BS
          /\ t[j] = CR => j < n /\ t[j + 1] = LF
          /\ t[j] = LF => j > 1 /\ t[j - 1] = CR
      BY <1>1, <1>2 DEF Plain
    <3>4. j < n => /\ i < m + n /\ i + 1 \in 1..(m + n) /\ ~(i + 1 <= m) /\ (i + 1) - m = j + 1
      BY <3>1
    <3>5. j < n => u[i + 1] = t[j + 1]
      BY <1>3, <3>4
    <3>6. j > 1 => /\ i > 1 /\ i - 1 \in 1..(m + n) /\ ~(i - 1 <= m) /\ (i - 1) - m = j - 1
      BY <3>1
    <3>7. j > 1 => u[i - 1] = t[j - 1]
      BY <1>3, <3>6
    <3> QED BY <3>2, <3>3, <3>4, <3>5, <3>6, <3>7
  <2> QED BY <2>1, <2>2
<1> QED BY <1>3, <1>4 DEF Output, Plain

LEMMA OutputOrdinary ==
  ASSUME NEW S \in SUBSET Shown, S \cap {CR, LF, BS} = {}, NEW s \in Seq(S)
  PROVE  Output(s)
<1>1. s \in Seq(Shown)
  BY SeqMonotonic
<1>2. \A i \in 1..Len(s) : s[i] \in S
  BY ElementOfSeq
<1> QED BY <1>1, <1>2 DEF Output, Plain

LEMMA OutputWords ==
  /\ Output(<<>>) /\ Output(Newline) /\ Output(Prompt) /\ Output(<<":">>)
  /\ Output([i \in 1..20 |-> "u"])
  /\ Output(<<"1", "5", "1", ">", SPACE>>)
<1>1. Output(<<>>) /\ Output(<<":">>)
  <2>1. /\ <<>> \in Seq({":"}) /\ <<":">> \in Seq({":"}) /\ {":"} \in SUBSET Shown
        /\ {":"} \cap {CR, LF, BS} = {}
    BY EmptySeq DEF Shown, CR, LF, BS
  <2> QED BY <2>1, OutputOrdinary
<1>2. Output(Newline)
  <2>1. CR \in Shown /\ LF \in Shown /\ CR # LF /\ CR # BS /\ LF # BS
    BY Characters, Distinct
  <2> QED BY <2>1 DEF Newline, Output, Plain
<1>3. Output(Prompt) /\ Output(<<"1", "5", "1", ">", SPACE>>)
  <2> DEFINE S == {"h", "d", "u", ">", "1", "5", SPACE}
  <2>1. S \in SUBSET Shown /\ S \cap {CR, LF, BS} = {}
    BY Characters DEF Shown, CR, LF, BS, SPACE
  <2>2. Prompt \in Seq(S) /\ <<"1", "5", "1", ">", SPACE>> \in Seq(S)
    BY DEF Prompt
  <2> QED BY <2>1, <2>2, OutputOrdinary
<1>4. Output([i \in 1..20 |-> "u"])
  <2>1. [i \in 1..20 |-> "u"] \in [1..20 -> {"u"}]
    OBVIOUS
  <2>2. [i \in 1..20 |-> "u"] \in Seq({"u"})
    BY <2>1, SeqDef
  <2>3. {"u"} \in SUBSET Shown /\ {"u"} \cap {CR, LF, BS} = {}
    BY DEF Shown, CR, LF, BS
  <2> QED BY <2>2, <2>3, OutputOrdinary
<1> QED BY <1>1, <1>2, <1>3, <1>4

LEMMA OutputDigits ==
  ASSUME NEW x \in Int, NEW bytes \in {1, 2, 4}
  PROVE  Output(to_ascii_hex(x, BUFFER_LEN, bytes))
<1>1. to_ascii_hex(x, BUFFER_LEN, bytes) \in Seq(Digit)
  BY ConsoleAssumption, HexWritten
<1>2. Digit \in SUBSET Shown /\ Digit \cap {CR, LF, BS} = {}
  BY DigitsAre, Characters
<1> QED BY <1>1, <1>2, OutputOrdinary

LEMMA OutputUnrecognized ==
  ASSUME NEW t \in Seq(Char), \A i \in 1..Len(t) : t[i] \notin {CR, BS, DEL}
  PROVE  Output(Unrecognized(t))
<1>1. \A i \in 1..Len(t) : t[i] \in Char /\ t[i] # LF
  BY ElementOfSeq, Characters
<1>2. t \in Seq(Shown)
  BY SeqMonotonic, Characters
<1>3. Output(t)
  BY <1>1, <1>2 DEF Output, Plain
<1>4. Output(Newline \o [i \in 1..20 |-> "u"])
  BY OutputWords, OutputConcat
<1>5. Output((Newline \o [i \in 1..20 |-> "u"]) \o t)
  BY <1>3, <1>4, OutputConcat
<1>6. Output(((Newline \o [i \in 1..20 |-> "u"]) \o t) \o Newline)
  BY <1>5, OutputWords, OutputConcat
<1> QED BY <1>6 DEF Unrecognized

(***************************************************************************)
(* What becomes of a complete token.                                       *)
(***************************************************************************)
TokenDone ==
  /\ buf' = <<>> /\ typed' = <<>> /\ Output(todo')
  /\ args' \in Seq(Int) /\ mem' \in [MEMORY -> Int]
  /\ want' \in IF want = "parse" THEN {"halt"} ELSE MonitorReads
  /\ ArgsInv'

LEMMA EndsDone ==
  ASSUME NEW s, Output(s), Ends(s)
  PROVE  /\ buf' = <<>> /\ typed' = <<>> /\ Output(todo') /\ want' = "command"
         /\ args' \in Seq(Int) /\ args' = <<>> /\ ArgsInv'
<1>1. Output(s \o Prompt)
  BY OutputWords, OutputConcat
<1>2. /\ buf' = <<>> /\ typed' = <<>> /\ want' = "command" /\ todo' = s \o Prompt /\ args' = <<>>
  BY DEF Ends, NextToken
<1>3. ArgsInv'
  BY <1>2 DEF ArgsInv
<1>4. args' \in Seq(Int)
  BY <1>2, EmptySeq
<1> QED BY <1>1, <1>2, <1>3, <1>4

LEMMA TokenIsDone ==
  ASSUME ConsoleTypeOK, ArgsInv, BufInv, want \in TokenRead, todo = <<>>, Token(buf)
  PROVE  TokenDone
<1> USE DEF TokenDone
<1>1. /\ args \in Seq(Int) /\ mem \in [MEMORY -> Int] /\ buf \in Seq(Char) /\ Output(todo)
  BY OutputWords DEF ConsoleTypeOK
<1>2. CASE want = "command"
  <2>1. Command(buf)
    BY <1>2 DEF Token
  <2>2. ASSUME NEW c \in DOMAIN Word \ {"run"}, cmd' = c, UNCHANGED <<todo, args, mem>>,
               NextToken(IF c \in {"sw", "sh", "sb"} THEN "value" ELSE "address")
        PROVE  TokenDone
    <3>1. want' = IF c \in {"sw", "sh", "sb"} THEN "value" ELSE "address"
      BY <2>2 DEF NextToken
    <3>2. ArgsInv'
      BY <2>2, <3>1 DEF ArgsInv, Stores
    <3>3. want' \in MonitorReads /\ want # "parse"
      BY <1>2, <3>1 DEF MonitorReads, TokenRead
    <3> QED BY <1>1, <2>2, <3>2, <3>3 DEF NextToken
  <2>3. ASSUME NextToken("program"), UNCHANGED <<todo, cmd, args, mem>>
        PROVE  TokenDone
    <3>1. ArgsInv' /\ want' \in MonitorReads /\ want # "parse"
      BY <1>2, <2>3 DEF ArgsInv, NextToken, MonitorReads
    <3> QED BY <1>1, <2>3, <3>1 DEF NextToken
  <2>4. ASSUME Ends(Unrecognized(buf)), UNCHANGED mem PROVE TokenDone
    <3>1. Output(Unrecognized(buf))
      BY <1>1, <1>2, OutputUnrecognized DEF BufInv, TokenRead
    <3>2. "command" \in MonitorReads /\ want # "parse"
      BY <1>2 DEF MonitorReads, TokenRead
    <3> QED BY <1>1, <2>4, <3>1, <3>2, EndsDone
  <2> QED BY <2>1, <2>2, <2>3, <2>4 DEF Command
<1>3. CASE want = "value"
  <2>1. Value(buf) /\ cmd \in Stores
    BY <1>3 DEF Token, ArgsInv
  <2>2. Bytes[cmd] \in {1, 2, 4}
    BY <2>1 DEF Bytes, Stores
  <2>3. PICK v \in Int : v = ascii_hex_to(buf, Bytes[cmd])
    BY <1>1, <2>2, ParsedInInt
  <2>4. /\ args' = <<v>> /\ want' = "address" /\ buf' = <<>> /\ typed' = <<>>
        /\ todo' = todo /\ mem' = mem
    BY <2>1, <2>3 DEF Value, NextToken
  <2>5. args' \in Seq(Int) /\ Len(args') = 1
    BY <2>4
  <2>6. ArgsInv' /\ want' \in MonitorReads /\ want # "parse"
    BY <1>3, <2>4, <2>5 DEF ArgsInv, MonitorReads, TokenRead
  <2> QED BY <1>1, <2>4, <2>5, <2>6
<1>4. CASE want = "address"
  <2>1. Address(buf)
    BY <1>4 DEF Token
  <2>2. PICK a \in Int : a = ascii_hex_to(buf, 4)
    BY <1>1, ParsedInInt
  <2>3. CASE /\ cmd = "file" /\ args' = <<a>> /\ NextToken("length") /\ UNCHANGED <<todo, cmd, mem>>
    <3>1. /\ args' = <<a>> /\ want' = "length" /\ buf' = <<>> /\ typed' = <<>>
          /\ todo' = todo /\ mem' = mem
      BY <2>3 DEF NextToken
    <3>2. args' \in Seq(Int) /\ Len(args') = 1
      BY <3>1
    <3>3. ArgsInv' /\ want' \in MonitorReads /\ want # "parse"
      BY <1>4, <3>1, <3>2 DEF ArgsInv, MonitorReads, TokenRead
    <3> QED BY <1>1, <3>1, <3>2, <3>3
  <2>4. CASE NextToken("program") /\ UNCHANGED <<todo, cmd, args, mem>>
    <3>1. ArgsInv' /\ want' \in MonitorReads /\ want # "parse"
      BY <1>4, <2>4 DEF ArgsInv, NextToken, MonitorReads
    <3> QED BY <1>1, <2>4, <3>1 DEF NextToken
  <2>5. CASE /\ cmd \in {"lw", "lhu", "lbu"}
             /\ Ends(to_ascii_hex(a, BUFFER_LEN, 4) \o <<":">>
                     \o to_ascii_hex(Load(a, Bytes[cmd]), BUFFER_LEN, Bytes[cmd]) \o Newline)
             /\ UNCHANGED mem
    <3>1. Bytes[cmd] \in {1, 2, 4}
      BY <2>5 DEF Bytes
    <3>2. Output(to_ascii_hex(a, BUFFER_LEN, 4))
      BY OutputDigits
    <3>3. PICK v \in Int : v = Load(a, Bytes[cmd])
      BY <1>1, <3>1, LoadInInt
    <3>4. Output(to_ascii_hex(v, BUFFER_LEN, Bytes[cmd]))
      BY <3>1, OutputDigits
    <3>5. Output(to_ascii_hex(a, BUFFER_LEN, 4) \o <<":">>)
      BY <3>2, OutputWords, OutputConcat
    <3>6. Output((to_ascii_hex(a, BUFFER_LEN, 4) \o <<":">>)
                   \o to_ascii_hex(v, BUFFER_LEN, Bytes[cmd]))
      BY <3>4, <3>5, OutputConcat
    <3>7. Output(to_ascii_hex(a, BUFFER_LEN, 4) \o <<":">>
                     \o to_ascii_hex(Load(a, Bytes[cmd]), BUFFER_LEN, Bytes[cmd]) \o Newline)
      BY <3>3, <3>6, OutputWords, OutputConcat
    <3>8. "command" \in MonitorReads /\ want # "parse"
      BY <1>4 DEF MonitorReads, TokenRead
    <3> QED BY <1>1, <2>5, <3>7, <3>8, EndsDone
  <2>6. CASE cmd \in {"sw", "sh", "sb"} /\ Store(a, Bytes[cmd], args[1]) /\ Ends(<<>>)
    <3>1. Bytes[cmd] \in {1, 2, 4}
      BY <2>6 DEF Bytes
    <3>2. Len(args) = 1 /\ args[1] \in Int
      BY <1>1, <1>4, <2>6, ElementOfSeq DEF ArgsInv, Stores
    <3>3. mem' \in [MEMORY -> Int]
      BY <1>1, <2>6, <3>1, <3>2, StoreType
    <3>4. "command" \in MonitorReads /\ want # "parse"
      BY <1>4 DEF MonitorReads, TokenRead
    <3> QED BY <2>6, <3>3, <3>4, OutputWords, EndsDone
  <2> QED BY <2>1, <2>2, <2>3, <2>4, <2>5, <2>6 DEF Address
<1>5. CASE want = "length"
  <2>1. Length(buf)
    BY <1>5 DEF Token
  <2>2. PICK n \in Int : n = ascii_dec_to(buf, 4)
    BY <1>1, ParsedInInt
  <2>3. CASE Ends(<<>>) /\ UNCHANGED mem
    <3>1. "command" \in MonitorReads /\ want # "parse"
      BY <1>5 DEF MonitorReads, TokenRead
    <3> QED BY <1>1, <2>3, <3>1, OutputWords, EndsDone
  <2>4. CASE args' = <<args[1], n>> /\ NextToken("image") /\ UNCHANGED <<todo, cmd, mem>>
    <3>1. Len(args) = 1 /\ args[1] \in Int
      BY <1>1, <1>5, ElementOfSeq DEF ArgsInv
    <3>2. args' \in Seq(Int) /\ Len(args') = 2
      BY <2>4, <3>1
    <3>3. want' = "image" /\ buf' = <<>> /\ typed' = <<>> /\ todo' = todo /\ mem' = mem
      BY <2>4 DEF NextToken
    <3>4. ArgsInv' /\ want' \in MonitorReads /\ want # "parse"
      BY <1>5, <3>2, <3>3 DEF ArgsInv, MonitorReads
    <3> QED BY <1>1, <3>2, <3>3, <3>4
  <2> QED BY <2>1, <2>2, <2>3, <2>4 DEF Length
<1>6. CASE want = "parse"
  <2>1. Parsed(buf)
    BY <1>6 DEF Token
  <2>2. ArgsInv' /\ want' = "halt"
    BY <2>1 DEF Parsed, NextToken, ArgsInv
  <2> QED BY <1>1, <1>6, <2>1, <2>2 DEF Parsed, NextToken
<1> QED BY <1>2, <1>3, <1>4, <1>5, <1>6 DEF TokenRead

(***************************************************************************)
(* The terminal.                                                           *)
(***************************************************************************)
LEMMA ReplaceSeq ==
  ASSUME NEW S, NEW s \in Seq(S), NEW i \in 1..Len(s), NEW c \in S
  PROVE  /\ ReplaceAt(s, i, c) \in Seq(S) /\ Len(ReplaceAt(s, i, c)) = Len(s)
         /\ \A j \in 1..Len(s) : ReplaceAt(s, i, c)[j] = IF j = i THEN c ELSE s[j]
BY ExceptSeq DEF ReplaceAt

LEMMA ShowType ==
  ASSUME cells \in Seq(Shown), col \in Nat, NEW c \in Shown, Show(c)
  PROVE  cells' \in Seq(Shown) /\ col' \in Nat
<1>1. CASE c = CR
  <2>1. col' = 0 /\ cells' = cells
    BY <1>1, Distinct DEF Show
  <2> QED BY <2>1
<1>2. CASE c = LF
  BY <1>2, Distinct, EmptySeq DEF Show
<1>3. CASE c = BS
  BY <1>3, Distinct DEF Show
<1>4. CASE c \notin {CR, LF, BS}
  <2>1. /\ cells' = IF col < Len(cells) THEN ReplaceAt(cells, col + 1, c)
                    ELSE cells \o [i \in 1..(col - Len(cells)) |-> SPACE] \o <<c>>
        /\ col' = col + 1
    BY <1>4 DEF Show
  <2>2. Len(cells) \in Nat
    BY LenProperties
  <2>3. CASE col < Len(cells)
    <3>1. col + 1 \in 1..Len(cells)
      BY <2>2, <2>3
    <3> QED BY <2>1, <2>3, <3>1, ReplaceSeq
  <2>4. CASE ~(col < Len(cells))
    <3>1. PICK k \in Nat : k = col - Len(cells)
      BY <2>2, <2>4
    <3>2. SPACE \in Shown
      BY Characters
    <3>3. [i \in 1..k |-> SPACE] \in [1..k -> Shown]
      BY <3>2
    <3>4. [i \in 1..k |-> SPACE] \in Seq(Shown)
      BY <3>3, SeqDef
    <3>5. <<c>> \in Seq(Shown)
      OBVIOUS
    <3>6. cells \o [i \in 1..k |-> SPACE] \in Seq(Shown)
      BY <3>4, ConcatProperties
    <3>7. cells \o [i \in 1..k |-> SPACE] \o <<c>> \in Seq(Shown)
      BY <3>5, <3>6, ConcatProperties
    <3> QED BY <2>1, <2>4, <3>1, <3>7
  <2> QED BY <2>1, <2>3, <2>4
<1> QED BY <1>1, <1>2, <1>3, <1>4

(* An ordinary character on the current line.                              *)
LEMMA ShowOrdinary ==
  ASSUME cells \in Seq(Shown), col \in Nat, col <= Len(cells),
         NEW c \in Shown, c \notin {CR, LF, BS}, Show(c)
  PROVE  /\ cells' \in Seq(Shown) /\ col' = col + 1
         /\ Len(cells') = IF col = Len(cells) THEN Len(cells) + 1 ELSE Len(cells)
         /\ cells'[col + 1] = c
         /\ \A i \in 1..Len(cells) : i # col + 1 => cells'[i] = cells[i]
         /\ col = Len(cells) => cells' = Append(cells, c)
<1>1. /\ cells' = IF col < Len(cells) THEN ReplaceAt(cells, col + 1, c)
                  ELSE cells \o [i \in 1..(col - Len(cells)) |-> SPACE] \o <<c>>
      /\ col' = col + 1
  BY DEF Show
<1>2. PICK n \in Nat : n = Len(cells)
  BY LenProperties
<1>3. CASE col < n
  <2>1. col + 1 \in 1..Len(cells)
    BY <1>2, <1>3
  <2>2. cells' = ReplaceAt(cells, col + 1, c)
    BY <1>1, <1>2, <1>3
  <2>3. /\ cells' \in Seq(Shown) /\ Len(cells') = Len(cells)
        /\ \A j \in 1..Len(cells) : cells'[j] = IF j = col + 1 THEN c ELSE cells[j]
    <3>0. PICK s \in Seq(Shown) : s = cells
      OBVIOUS
    <3>1. PICK i \in 1..Len(s) : i = col + 1
      BY <2>1, <3>0
    <3>2. /\ ReplaceAt(s, i, c) \in Seq(Shown) /\ Len(ReplaceAt(s, i, c)) = Len(s)
          /\ \A j \in 1..Len(s) : ReplaceAt(s, i, c)[j] = IF j = i THEN c ELSE s[j]
      BY ReplaceSeq
    <3> QED BY <2>2, <3>0, <3>1, <3>2
  <2> QED BY <1>1, <1>2, <1>3, <2>1, <2>3
<1>4. CASE col = n
  <2>1. [i \in 1..(col - Len(cells)) |-> SPACE] = <<>>
    BY <1>2, <1>4
  <2>2. cells \o <<>> = cells
    BY ConcatEmptySeq
  <2>3. cells' = cells \o <<c>>
    BY <1>1, <1>2, <1>4, <2>1, <2>2
  <2>4. cells' = Append(cells, c)
    BY <2>3, AppendIsConcat
  <2>5. /\ cells' \in Seq(Shown) /\ Len(cells') = Len(cells) + 1
        /\ \A i \in 1..Len(cells) : cells'[i] = cells[i]
        /\ cells'[Len(cells) + 1] = c
    BY <2>4, AppendProperties
  <2> QED BY <1>1, <1>2, <1>4, <2>4, <2>5
<1> QED BY <1>2, <1>3, <1>4

(***************************************************************************)
(* Types.                                                                  *)
(***************************************************************************)
LEMMA LoaderText == hex_to_serial \in Seq([ch : Char, after : Nat])
<1> DEFINE P == [ch : Char, after : Nat]
<1>1. ASSUME NEW s \in Seq(Char) PROVE Slowly(s) \in Seq(P)
  <2>1. PICK n \in Nat : n = Len(s)
    BY LenProperties
  <2>2. \A i \in 1..n : s[i] \in Char
    BY <2>1, ElementOfSeq
  <2>3. COMMAND_PAUSE \in Nat
    BY ConsoleAssumption
  <2>4. Slowly(s) \in [1..n -> P]
    BY <2>1, <2>2, <2>3 DEF Slowly
  <2> HIDE DEF P
  <2> QED BY <2>4, SeqDef
<1>2. Digit \subseteq Char
  BY DigitsAre
<1>3. to_ascii_hex(ADDRESS, 9, 4) \in Seq(Char)
  <2>1. ADDRESS \in Int /\ 9 \in Nat /\ 9 >= 2 /\ 4 \in {1, 2, 4}
    BY ConsoleAssumption
  <2>2. to_ascii_hex(ADDRESS, 9, 4) \in Seq(Digit)
    BY <2>1, HexWritten
  <2> QED BY <1>2, <2>2, SeqMonotonic
<1>4. Decimal(4 * Len(IMAGE)) \in Seq(Char)
  <2>1. PICK n \in Nat : n = 4 * Len(IMAGE) /\ n < 100
    BY ConsoleAssumption, LenProperties
  <2>2. /\ n < 10 => n + 1 \in 1..16
        /\ (n \div 10) + 1 \in 1..16 /\ (n % 10) + 1 \in 1..16
    <3>1. n \div 10 \in 0..9
      BY <2>1
    <3>2. n % 10 \in 0..9
      BY <2>1
    <3>3. PICK q \in 0..9, m \in 0..9 : q = n \div 10 /\ m = n % 10
      BY <3>1, <3>2
    <3>4. q + 1 \in 1..16 /\ m + 1 \in 1..16
      OBVIOUS
    <3>5. n < 10 => n + 1 \in 1..16
      BY <2>1
    <3> QED BY <3>3, <3>4, <3>5
  <2>3. /\ n < 10 => Hex[n + 1] \in Char
        /\ Hex[(n \div 10) + 1] \in Char /\ Hex[(n % 10) + 1] \in Char
    BY <2>2, Characters
  <2> QED BY <2>1, <2>3 DEF Decimal
<1>5. <<CR>> \in Seq(Char) /\ <<SPACE>> \in Seq(Char) /\ Word.file \in Seq(Char)
  <2>1. Word.file = <<"f", "i", "l", "e">>
    BY DEF Word
  <2> QED BY <2>1, Characters
<1>6. <<CR>> \o Word.file \o <<SPACE>> \o to_ascii_hex(ADDRESS, 9, 4) \o <<SPACE>>
         \o Decimal(4 * Len(IMAGE)) \o <<SPACE>> \in Seq(Char)
  BY <1>3, <1>4, <1>5, ConcatProperties
<1>7. [i \in 1..(8 * Len(IMAGE)) |-> WordPaced(IMAGE[(i + 7) \div 8])[((i - 1) % 8) + 1]] \in Seq(P)
  <2>1. PICK n \in Nat : n = Len(IMAGE)
    BY ConsoleAssumption, LenProperties
  <2>2. ASSUME NEW w \in Nat, NEW i \in 1..8 PROVE WordPaced(w)[i] \in P
    <3>1. 9 \in Nat /\ 9 >= 2 /\ 4 \in {1, 2, 4} /\ w \in Int
      OBVIOUS
    <3>2. PICK s \in Seq(Digit) : s = to_ascii_hex(w, 9, 4) /\ Len(s) = 8
      BY <3>1, HexWritten
    <3>3. s[i] \in Char
      BY <1>2, <3>2, ElementOfSeq
    <3>4. WORD_PAUSE \in Nat /\ 2 * WORD_PAUSE \in Nat
      BY ConsoleAssumption
    <3> QED BY <3>2, <3>3, <3>4 DEF WordPaced
  <2>3. ASSUME NEW i \in 1..(8 * n)
        PROVE  WordPaced(IMAGE[(i + 7) \div 8])[((i - 1) % 8) + 1] \in P
    <3>1. (i + 7) \div 8 \in 1..n
      BY <2>1
    <3>2. ((i - 1) % 8) + 1 \in 1..8
      BY <2>1
    <3>3. IMAGE[(i + 7) \div 8] \in Nat
      BY <2>1, <3>1, ConsoleAssumption, ElementOfSeq
    <3> QED BY <2>2, <3>2, <3>3
  <2> DEFINE F == [i \in 1..(8 * n) |-> WordPaced(IMAGE[(i + 7) \div 8])[((i - 1) % 8) + 1]]
  <2> HIDE DEF P
  <2>4. F \in [1..(8 * n) -> P] /\ 8 * n \in Nat
    BY <2>3
  <2>5. F \in Seq(P)
    BY <2>4, SeqDef
  <2> QED BY <2>1, <2>5
<1> HIDE DEF P
<1>8. PICK s \in Seq(P) :
        s = Slowly(<<CR>> \o Word.file \o <<SPACE>> \o to_ascii_hex(ADDRESS, 9, 4) \o <<SPACE>>
                     \o Decimal(4 * Len(IMAGE)) \o <<SPACE>>)
  BY <1>1, <1>6
<1>9. PICK t \in Seq(P) :
        t = [i \in 1..(8 * Len(IMAGE)) |->
              WordPaced(IMAGE[(i + 7) \div 8])[((i - 1) % 8) + 1]]
  BY <1>7
<1>10. s \o t \in Seq(P)
  BY ConcatProperties
<1> QED BY <1>8, <1>9, <1>10 DEF hex_to_serial, P

(***************************************************************************)
(* The types, the arguments of the commands and the token, at each step.   *)
(***************************************************************************)
Basis == ConsoleTypeOK /\ ArgsInv /\ BufInv

(* What the program has, untouched.                                        *)
LEMMA BasisKept ==
  ASSUME Basis, UNCHANGED <<want, cmd, args, buf, got>>, ConsoleTypeOK'
  PROVE  Basis'
BY DEF Basis, ArgsInv, BufInv

LEMMA StepStutters ==
  ASSUME Basis, UNCHANGED consoleVars
  PROVE  Basis'
BY DEF Basis, ConsoleTypeOK, ArgsInv, BufInv, consoleVars, hostVars, portVars, programVars,
       screenVars

LEMMA StepWrites ==
  ASSUME Basis, uwrite_int8
  PROVE  Basis'
<1>1. /\ todo \in Seq(Shown) /\ todo # <<>> /\ todo' = Tail(todo) /\ Show(Head(todo))
      /\ cells \in Seq(Shown) /\ col \in Nat
  BY DEF Basis, ConsoleTypeOK, uwrite_int8
<1>2. Head(todo) \in Shown /\ Tail(todo) \in Seq(Shown)
  BY <1>1, HeadTailProperties
<1>3. cells' \in Seq(Shown) /\ col' \in Nat
  BY <1>1, <1>2, ShowType
<1>4. UNCHANGED <<hostVars, arriving, rx, got, want, cmd, args, buf, mem, typed>>
  BY DEF uwrite_int8
<1>5. ConsoleTypeOK'
  BY <1>1, <1>2, <1>3, <1>4 DEF Basis, ConsoleTypeOK, hostVars
<1> QED BY <1>4, <1>5, BasisKept

(* What an echo is made of.                                                *)
LEMMA EchoType == \A c \in Char : Echo(c) \in Seq(Shown) /\ <<c>> \in Seq(Shown)
<1> SUFFICES ASSUME NEW c \in Char PROVE Echo(c) \in Seq(Shown) /\ <<c>> \in Seq(Shown)
  OBVIOUS
<1>1. c \in Shown /\ BS \in Shown /\ CR \in Shown /\ LF \in Shown
  BY Characters
<1>2. <<c>> \in Seq(Shown) /\ <<BS>> \in Seq(Shown) /\ <<CR, LF>> \in Seq(Shown)
  BY <1>1
<1>3. Echo(c) \in {<<c>>, <<BS>>, <<CR, LF>>}
  BY Distinct DEF Echo, Newline
<1> QED BY <1>2, <1>3

LEMMA StepReads ==
  ASSUME Basis, uread_int8
  PROVE  Basis'
<1>1. /\ rx \in Char /\ got' = rx /\ rx' = None
      /\ todo' = IF want = "echo" THEN <<rx>> ELSE Echo(rx)
      /\ want # "program"
  BY DEF Basis, ConsoleTypeOK, uread_int8
<1>2. UNCHANGED <<hostVars, arriving, tx, want, cmd, args, buf, mem, screenVars, typed>>
  BY DEF uread_int8
<1>3. todo' \in Seq(Shown) /\ None \in Char
  BY <1>1, EchoType, Characters
<1>4. ConsoleTypeOK'
  BY <1>1, <1>2, <1>3 DEF Basis, ConsoleTypeOK, hostVars, screenVars
<1>5. ArgsInv' /\ BufInv'
  BY <1>1, <1>2 DEF Basis, ArgsInv, BufInv
<1> QED BY <1>4, <1>5 DEF Basis

(* A step of the program on a character it has read.                       *)
LEMMA StepIdle ==
  ASSUME Basis, Idle, todo' \in Seq(Shown), buf' \in Seq(Char), typed' \in Seq(Char),
         args' \in Seq(Int), mem' \in [MEMORY -> Int]
  PROVE  ConsoleTypeOK'
<1>1. None \in Char
  BY Characters
<1> QED BY <1>1 DEF Basis, ConsoleTypeOK, Idle, hostVars, portVars, screenVars

LEMMA StepErases ==
  ASSUME Basis, Idle, got \in Char, Erase
  PROVE  Basis'
<1>1. /\ buf \in Seq(Char) /\ typed \in Seq(Char) /\ args \in Seq(Int) /\ mem \in [MEMORY -> Int]
  BY DEF Basis, ConsoleTypeOK
<1>2. buf' \in Seq(Char) /\ \A i \in 1..Len(buf') : i \in 1..Len(buf) /\ buf'[i] = buf[i]
  <2>1. CASE buf = <<>>
    <3>1. buf' = <<>>
      BY <2>1 DEF Erase
    <3> QED BY <3>1, EmptySeq
  <2>2. CASE buf # <<>>
    <3>1. buf' = Front(buf)
      BY <2>2 DEF Erase
    <3>2. PICK n \in Nat : n = Len(buf)
      BY <1>1, LenProperties
    <3>3. buf' \in Seq(Char) /\ Len(buf') = n - 1 /\ \A i \in 1..(n - 1) : buf'[i] = buf[i]
      BY <1>1, <2>2, <3>1, <3>2, FrontSeq
    <3> QED BY <3>2, <3>3
  <2> QED BY <2>1, <2>2
<1>3. typed' \in Seq(Char)
  <2>1. typed' = Append(typed, got)
    BY DEF Erase
  <2> QED BY <1>1, <2>1, AppendProperties
<1>4. todo' \in Seq(Shown)
  <2>1. todo' \in {<<SPACE>>, <<SPACE, BS>>}
    BY DEF Erase
  <2>2. SPACE \in Shown /\ BS \in Shown
    BY Characters
  <2>3. <<SPACE>> \in Seq(Shown) /\ <<SPACE, BS>> \in Seq(Shown)
    BY <2>2
  <2> QED BY <2>1, <2>3
<1>5. UNCHANGED <<want, cmd, args, mem>>
  BY DEF Erase
<1>6. ConsoleTypeOK'
  BY <1>1, <1>2, <1>3, <1>4, <1>5, StepIdle
<1>7. ArgsInv'
  BY <1>5 DEF Basis, ArgsInv
<1>8. BufInv'
  BY <1>2, <1>5 DEF Basis, BufInv, Idle
<1> QED BY <1>6, <1>7, <1>8 DEF Basis

LEMMA StepAccumulates ==
  ASSUME Basis, Idle, got \in Char, Accumulate, todo = <<>>,
         want \in TokenRead \ {"parse"} => got \notin {CR, BS, DEL}
  PROVE  Basis'
<1>1. /\ buf \in Seq(Char) /\ typed \in Seq(Char) /\ args \in Seq(Int) /\ mem \in [MEMORY -> Int]
      /\ todo \in Seq(Shown)
  BY DEF Basis, ConsoleTypeOK
<1>2. /\ buf' = Append(buf, got) /\ typed' = Append(typed, got)
      /\ UNCHANGED <<todo, want, cmd, args, mem>>
  BY DEF Accumulate
<1>3. /\ Append(buf, got) \in Seq(Char) /\ Len(Append(buf, got)) = Len(buf) + 1
      /\ \A i \in 1..Len(buf) : Append(buf, got)[i] = buf[i]
      /\ Append(buf, got)[Len(buf) + 1] = got
      /\ Append(typed, got) \in Seq(Char)
  BY <1>1, AppendProperties
<1>4. ConsoleTypeOK'
  BY <1>1, <1>2, <1>3, StepIdle
<1>5. ArgsInv'
  BY <1>2 DEF Basis, ArgsInv
<1>6. BufInv'
  <2>1. PICK n \in Nat : n = Len(buf)
    BY <1>1, LenProperties
  <2>2. \A i \in 1..(n + 1) : i = n + 1 \/ i \in 1..n
    OBVIOUS
  <2>3. ASSUME want \in TokenRead \ {"parse"}, NEW i \in 1..(n + 1)
        PROVE  buf'[i] \notin {CR, BS, DEL}
    BY <1>2, <1>3, <2>1, <2>2, <2>3 DEF Basis, BufInv
  <2>4. Len(buf') = n + 1
    BY <1>2, <1>3, <2>1
  <2> QED BY <1>2, <2>3, <2>4 DEF BufInv, Idle
<1> QED BY <1>4, <1>5, <1>6 DEF Basis

LEMMA StepToken ==
  ASSUME Basis, Idle, TokenDone
  PROVE  Basis'
<1>1. /\ buf' \in Seq(Char) /\ typed' \in Seq(Char) /\ todo' \in Seq(Shown)
      /\ args' \in Seq(Int) /\ mem' \in [MEMORY -> Int] /\ Len(buf') = 0
  BY EmptySeq DEF TokenDone, Output
<1>2. ConsoleTypeOK'
  BY <1>1, StepIdle
<1>3. ArgsInv' /\ BufInv'
  BY <1>1 DEF TokenDone, BufInv, Idle
<1> QED BY <1>2, <1>3 DEF Basis

LEMMA StepReadToken ==
  ASSUME Basis, read_token
  PROVE  Basis'
<1>1. /\ Idle /\ want \in TokenRead /\ todo = <<>> /\ got \in Char
      /\ \/ want # "parse" /\ got \in {BS, DEL} /\ Erase
         \/ got \in Separator /\ Token(buf)
         \/ /\ got \notin Separator /\ (want = "parse" \/ got \notin {BS, DEL})
            /\ \/ Accumulate
               \/ Len(buf) + 1 = BUFFER_LEN /\ Token(buf)
  BY DEF read_token, Returned, TokenRead, Basis, ConsoleTypeOK
<1>2. CASE Erase
  BY <1>1, <1>2, StepErases
<1>3. CASE Token(buf)
  <2>1. TokenDone
    BY <1>1, <1>3, TokenIsDone DEF Basis
  <2> QED BY <1>1, <2>1, StepToken
<1>4. CASE got \notin Separator /\ (want = "parse" \/ got \notin {BS, DEL}) /\ Accumulate
  <2>1. want \in TokenRead \ {"parse"} => got \notin {CR, BS, DEL}
    BY <1>4 DEF Separator
  <2> QED BY <1>1, <1>4, <2>1, StepAccumulates
<1> QED BY <1>1, <1>2, <1>3, <1>4

(* A word of the image: a digit more, or the word is stored.               *)
LEMMA StoreIsDone ==
  ASSUME Basis, store
  PROVE  /\ todo = <<>> /\ got # None /\ want = "image" /\ Idle
         /\ \/ /\ buf' = Append(buf, got) /\ typed' = <<>>
               /\ UNCHANGED <<todo, want, cmd, args, mem>>
            \/ /\ buf' = <<>> /\ typed' = <<>> /\ Output(todo')
               /\ args' \in Seq(Int) /\ mem' \in [MEMORY -> Int]
               /\ want' \in MonitorReads \ {"program"} /\ ArgsInv'
<1>1. /\ todo = <<>> /\ got # None /\ want = "image" /\ Idle
  BY DEF store, Returned
<1>2. CASE Len(buf) < 7
  BY <1>1, <1>2 DEF store
<1>3. CASE ~(Len(buf) < 7)
  <2>1. /\ args \in Seq(Int) /\ mem \in [MEMORY -> Int] /\ buf \in Seq(Char) /\ got \in Char
        /\ Len(args) = 2
    BY <1>1 DEF Basis, ConsoleTypeOK, ArgsInv
  <2>2. args[1] \in Int /\ args[2] \in Int
    <3>1. 1 \in 1..Len(args) /\ 2 \in 1..Len(args)
      BY <2>1
    <3> QED BY <2>1, <3>1, ElementOfSeq
  <2>3. Append(buf, got) \in Seq(Char)
    BY <2>1, AppendProperties
  <2>4. PICK v \in Int : v = ascii_hex_to(Append(buf, got), 4)
    BY <2>3, ParsedInInt
  <2>5. /\ Store(args[1], 4, v)
        /\ \/ /\ args' = <<args[1] + 4, args[2] - 4>> /\ NextToken("image")
              /\ UNCHANGED <<todo, cmd>>
           \/ Ends(<<>>)
    BY <1>3, <2>4 DEF store
  <2>6. mem' \in [MEMORY -> Int]
    <3>1. 4 \in {1, 2, 4}
      OBVIOUS
    <3> QED BY <2>1, <2>2, <2>5, <3>1, StoreType
  <2>7. CASE /\ args' = <<args[1] + 4, args[2] - 4>> /\ NextToken("image")
             /\ UNCHANGED <<todo, cmd>>
    <3>1. buf' = <<>> /\ typed' = <<>> /\ want' = "image" /\ todo' = <<>>
      BY <1>1, <2>7 DEF NextToken
    <3>2. args' \in Seq(Int) /\ Len(args') = 2
      BY <2>2, <2>7
    <3>3. ArgsInv' /\ want' \in MonitorReads \ {"program"}
      BY <3>1, <3>2 DEF ArgsInv, MonitorReads
    <3>4. Output(todo')
      BY <3>1, OutputWords
    <3> QED BY <1>1, <2>6, <3>1, <3>2, <3>3, <3>4
  <2>8. CASE Ends(<<>>)
    <3>1. /\ buf' = <<>> /\ typed' = <<>> /\ Output(todo') /\ want' = "command"
          /\ args' \in Seq(Int) /\ ArgsInv'
      BY <2>8, OutputWords, EndsDone
    <3>2. want' \in MonitorReads \ {"program"}
      BY <3>1 DEF MonitorReads, TokenRead
    <3> QED BY <1>1, <2>6, <3>1, <3>2
  <2> QED BY <2>5, <2>7, <2>8
<1> QED BY <1>2, <1>3

LEMMA StepStores ==
  ASSUME Basis, store
  PROVE  Basis'
<1>1. /\ todo = <<>> /\ want = "image" /\ Idle /\ got \in Char
      /\ buf \in Seq(Char) /\ args \in Seq(Int) /\ mem \in [MEMORY -> Int]
  BY StoreIsDone DEF Basis, ConsoleTypeOK
<1>2. CASE /\ buf' = Append(buf, got) /\ typed' = <<>>
           /\ UNCHANGED <<todo, want, cmd, args, mem>>
  <2>1. /\ buf' \in Seq(Char) /\ typed' \in Seq(Char) /\ todo' \in Seq(Shown)
    BY <1>1, <1>2, AppendProperties, EmptySeq
  <2>2. ConsoleTypeOK'
    BY <1>1, <1>2, <2>1, StepIdle
  <2>3. ArgsInv' /\ BufInv'
    BY <1>1, <1>2 DEF Basis, ArgsInv, BufInv, TokenRead
  <2> QED BY <2>2, <2>3 DEF Basis
<1>3. CASE /\ buf' = <<>> /\ typed' = <<>> /\ Output(todo')
           /\ args' \in Seq(Int) /\ mem' \in [MEMORY -> Int]
           /\ want' \in MonitorReads \ {"program"} /\ ArgsInv'
  <2>1. TokenDone
    BY <1>1, <1>3 DEF TokenDone
  <2> QED BY <1>1, <2>1, StepToken
<1> QED BY <1>2, <1>3, StoreIsDone

LEMMA StepEcho ==
  ASSUME Basis, echo
  PROVE  Basis'
<1>1. /\ todo = <<>> /\ want = "echo" /\ Idle /\ typed' = Append(typed, got)
      /\ UNCHANGED <<todo, want, cmd, args, buf, mem>>
  BY DEF echo, Returned
<1>2. /\ got \in Char /\ typed \in Seq(Char) /\ buf \in Seq(Char) /\ args \in Seq(Int)
      /\ mem \in [MEMORY -> Int] /\ todo \in Seq(Shown)
  BY DEF Basis, ConsoleTypeOK
<1>3. typed' \in Seq(Char)
  BY <1>1, <1>2, AppendProperties
<1>4. ConsoleTypeOK'
  BY <1>1, <1>2, <1>3, StepIdle
<1>5. ArgsInv' /\ BufInv'
  BY <1>1 DEF Basis, ArgsInv, BufInv, Idle
<1> QED BY <1>4, <1>5 DEF Basis

LEMMA StepReturns ==
  ASSUME Basis, ProgramReturns
  PROVE  Basis'
<1>1. /\ Ends(<<>>) /\ UNCHANGED <<hostVars, portVars, screenVars, got, mem>>
      /\ want = "program"
  BY DEF ProgramReturns
<1>2. /\ buf' = <<>> /\ typed' = <<>> /\ Output(todo') /\ want' = "command"
      /\ args' \in Seq(Int) /\ ArgsInv'
  BY <1>1, OutputWords, EndsDone
<1>3. ConsoleTypeOK'
  BY <1>1, <1>2, EmptySeq DEF Basis, ConsoleTypeOK, Output, hostVars, portVars, screenVars
<1>4. BufInv'
  BY <1>2, EmptySeq DEF BufInv
<1> QED BY <1>2, <1>3, <1>4 DEF Basis

LEMMA StepTypes ==
  ASSUME Basis, Types
  PROVE  Basis'
<1>1. /\ UNCHANGED <<toSend, tx, programVars, screenVars>>
      /\ toType \in Seq(Char) /\ rx \in Char
  BY DEF Types, Basis, ConsoleTypeOK
<1>2. /\ None \in Char /\ Garbled \in Char /\ "x" \in Char /\ BS \in Char /\ DEL \in Char
  BY Characters
<1>3. CASE toType # <<>> /\ Begin(Head(toType)) /\ toType' = Tail(toType)
  <2>1. Head(toType) \in Char /\ Tail(toType) \in Seq(Char)
    BY <1>1, <1>3, HeadTailProperties
  <2>2. arriving' \in Char /\ rx' \in Char /\ toType' \in Seq(Char)
    BY <1>2, <1>3, <2>1 DEF Begin
  <2>3. ConsoleTypeOK'
    BY <1>1, <2>2 DEF Basis, ConsoleTypeOK, programVars, screenVars
  <2> QED BY <1>1, <2>3, BasisKept DEF programVars
<1>4. CASE Begin("x") /\ \E erase \in {BS, DEL} : toType' = <<erase>> \o toType
  <2>1. PICK e \in Char : toType' = <<e>> \o toType
    BY <1>2, <1>4
  <2>2. <<e>> \in Seq(Char)
    OBVIOUS
  <2>3. toType' \in Seq(Char)
    BY <1>1, <2>1, <2>2, ConcatProperties
  <2>4. arriving' \in Char /\ rx' \in Char
    BY <1>2, <1>4 DEF Begin
  <2>5. ConsoleTypeOK'
    BY <1>1, <2>3, <2>4 DEF Basis, ConsoleTypeOK, programVars, screenVars
  <2> QED BY <1>1, <2>5, BasisKept DEF programVars
<1> QED BY <1>3, <1>4 DEF Types

LEMMA StepLoads ==
  ASSUME Basis, StartLoader \/ LoaderSends \/ Frame
  PROVE  Basis'
<1>1. CASE StartLoader
  <2>1. UNCHANGED <<toType, portVars, programVars, screenVars>> /\ toSend' = hex_to_serial
    BY <1>1 DEF StartLoader
  <2>2. ConsoleTypeOK'
    BY <2>1, LoaderText DEF Basis, ConsoleTypeOK, portVars, programVars, screenVars
  <2> QED BY <2>1, <2>2, BasisKept DEF programVars
<1>2. CASE LoaderSends
  <2>1. /\ UNCHANGED <<toType, tx, programVars, screenVars>>
        /\ toSend # <<>> /\ Begin(Head(toSend).ch) /\ toSend' = Tail(toSend)
        /\ toSend \in Seq([ch : Char, after : Nat]) /\ rx \in Char
    BY <1>2 DEF LoaderSends, Basis, ConsoleTypeOK
  <2>2. Head(toSend) \in [ch : Char, after : Nat] /\ Tail(toSend) \in Seq([ch : Char, after : Nat])
    BY <2>1, HeadTailProperties
  <2>3. Head(toSend).ch \in Char
    BY <2>2
  <2>4. arriving' \in Char /\ rx' \in Char
    BY <2>1, <2>3, Characters DEF Begin
  <2>5. ConsoleTypeOK'
    BY <2>1, <2>2, <2>4 DEF Basis, ConsoleTypeOK, programVars, screenVars
  <2> QED BY <2>1, <2>5, BasisKept DEF programVars
<1>3. CASE Frame
  <2>1. /\ UNCHANGED <<toType, toSend, programVars, screenVars>>
        /\ arriving' \in Char /\ rx' \in Char
    BY <1>3, Characters DEF Frame, Basis, ConsoleTypeOK
  <2>2. ConsoleTypeOK'
    BY <2>1 DEF Basis, ConsoleTypeOK, programVars, screenVars
  <2> QED BY <2>1, <2>2, BasisKept DEF programVars
<1> QED BY <1>1, <1>2, <1>3

LEMMA BasisInit == ASSUME ConsoleInit PROVE Basis
<1>1. /\ todo \in Seq(Shown) /\ want \in {"command", "parse", "echo"}
  <2>1. PICK p \in {"bios", "parse", "echo"} : want = Start(p).want /\ todo = Start(p).todo
    BY ConsoleAssumption DEF ConsoleInit
  <2>2. \/ todo = Newline \o Prompt \/ todo = Newline \o <<"1", "5", "1", ">", SPACE>>
        \/ todo = <<>>
    BY <2>1 DEF Start
  <2>3. want \in {"command", "parse", "echo"}
    BY <2>1 DEF Start
  <2>4. /\ Output(Newline \o Prompt) /\ Output(Newline \o <<"1", "5", "1", ">", SPACE>>)
        /\ Output(<<>>)
    BY OutputWords, OutputConcat
  <2> QED BY <2>2, <2>3, <2>4 DEF Output
<1>2. toType \in Seq(Char)
  <2>1. KEYS \subseteq Char
    BY Characters
  <2>2. toType \in Seq(KEYS)
    BY ConsoleAssumption DEF ConsoleInit
  <2> QED BY <2>1, <2>2, SeqMonotonic
<1>3. None \in Char
  BY Characters
<1>4. /\ cells = <<>> /\ col = 0 /\ buf = <<>> /\ typed = <<>> /\ got = None /\ rx = None
      /\ arriving = None /\ toSend = <<>> /\ args = <<>> /\ mem = [a \in MEMORY |-> 0]
  BY DEF ConsoleInit
<1>5. ConsoleTypeOK
  BY <1>1, <1>2, <1>3, <1>4, EmptySeq DEF ConsoleTypeOK
<1>6. ArgsInv /\ BufInv
  BY <1>1, <1>4 DEF ArgsInv, BufInv
<1> QED BY <1>5, <1>6 DEF Basis

LEMMA BasisNext == ASSUME Basis, [ConsoleNext]_consoleVars PROVE Basis'
BY StepStutters, StepWrites, StepReads, StepReadToken, StepStores, StepEcho, StepReturns,
   StepTypes, StepLoads DEF ConsoleNext, Program, Host

(***************************************************************************)
(* The token is what the editing keys have left.                           *)
(***************************************************************************)
LEMMA TokenKept ==
  ASSUME TokenAsEdited, UNCHANGED <<want, buf, typed>>
  PROVE  TokenAsEdited'
BY DEF TokenAsEdited

LEMMA TokenStarts ==
  ASSUME buf' = <<>>, typed' = <<>>
  PROVE  TokenAsEdited'
BY EditedEmpty DEF TokenAsEdited

LEMMA TokenAtKey ==
  ASSUME Basis, TokenAsEdited, want \in TokenRead, got \in Char, want' = want,
         typed' = Append(typed, got),
         \/ want # "parse" /\ got \in {BS, DEL} /\ Erase
         \/ (want = "parse" \/ got \notin {BS, DEL}) /\ Accumulate
  PROVE  TokenAsEdited'
<1>1. typed \in Seq(Char)
  BY DEF Basis, ConsoleTypeOK
<1>2. Edited(typed') = EditStep(Edited(typed), got)
  BY <1>1, EditedAppend
<1>3. CASE want = "parse"
  BY <1>3 DEF TokenAsEdited, Accumulate
<1>4. CASE want # "parse"
  <2>1. buf = Edited(typed)
    BY <1>4 DEF TokenAsEdited
  <2>2. buf' = EditStep(buf, got)
    BY <1>4 DEF Erase, Accumulate, EditStep
  <2>3. buf' = Edited(typed')
    BY <1>2, <2>1, <2>2
  <2> QED BY <1>4, <2>3 DEF TokenAsEdited
<1> QED BY <1>3, <1>4

LEMMA TokenNext ==
  ASSUME Basis, TokenAsEdited, [ConsoleNext]_consoleVars
  PROVE  TokenAsEdited'
<1>1. CASE uwrite_int8 \/ uread_int8 \/ Host \/ Frame \/ UNCHANGED consoleVars
  <2>1. UNCHANGED <<want, buf, typed>>
    BY <1>1 DEF uwrite_int8, uread_int8, Host, Types, StartLoader, LoaderSends, Frame,
                consoleVars, programVars
  <2> QED BY <2>1, TokenKept
<1>2. CASE read_token
  <2>1. /\ want \in TokenRead /\ todo = <<>> /\ got \in Char
        /\ \/ want # "parse" /\ got \in {BS, DEL} /\ Erase
           \/ (want = "parse" \/ got \notin {BS, DEL}) /\ Accumulate
           \/ Token(buf)
    BY <1>2 DEF read_token, Returned, TokenRead, Basis, ConsoleTypeOK
  <2>2. CASE Token(buf)
    <3>1. TokenDone
      BY <2>1, <2>2, TokenIsDone DEF Basis
    <3> QED BY <3>1, TokenStarts DEF TokenDone
  <2>3. CASE \/ want # "parse" /\ got \in {BS, DEL} /\ Erase
             \/ (want = "parse" \/ got \notin {BS, DEL}) /\ Accumulate
    <3>1. want' = want /\ typed' = Append(typed, got)
      BY <2>3 DEF Erase, Accumulate
    <3> QED BY <2>1, <2>3, <3>1, TokenAtKey
  <2> QED BY <2>1, <2>2, <2>3
<1>3. CASE store
  <2>1. CASE want' = "image"
    BY <2>1 DEF TokenAsEdited, TokenRead
  <2>2. CASE want' # "image"
    <3>1. buf' = <<>> /\ typed' = <<>>
      BY <1>3, <2>2, StoreIsDone
    <3> QED BY <3>1, TokenStarts
  <2> QED BY <2>1, <2>2
<1>4. CASE echo
  BY <1>4 DEF echo, TokenAsEdited, TokenRead
<1>5. CASE ProgramReturns
  <2>1. Output(<<>>) /\ Ends(<<>>)
    BY <1>5, OutputWords DEF ProgramReturns
  <2> QED BY <2>1, EndsDone, TokenStarts
<1> QED BY <1>1, <1>2, <1>3, <1>4, <1>5 DEF ConsoleNext, Program

(* The buffer of the monitor holds what a line editor would have made of   *)
(* the keys of the token, however they were echoed, erased and delayed.    *)
THEOREM TokenTrue == ConsoleSpec => []TokenAsEdited
<1>1. ConsoleInit => Basis /\ TokenAsEdited
  <2>1. ConsoleInit => TokenAsEdited
    BY EditedEmpty DEF ConsoleInit, TokenAsEdited
  <2> QED BY <2>1, BasisInit
<1>2. Basis /\ TokenAsEdited /\ [ConsoleNext]_consoleVars => (Basis /\ TokenAsEdited)'
  BY BasisNext, TokenNext
<1> QED BY <1>1, <1>2, PTL DEF ConsoleSpec

(***************************************************************************)
(* The line of the terminal while the monitor writes.                      *)
(***************************************************************************)
LEMMA PlainTail ==
  ASSUME NEW s \in Seq(Shown), s # <<>>, Plain(s)
  PROVE  /\ Head(s) \notin {BS, LF}
         /\ Head(s) # CR => Plain(Tail(s))
         /\ Head(s) = CR => Tail(s) # <<>> /\ Head(Tail(s)) = LF /\ Plain(Tail(Tail(s)))
<1>1. PICK n \in Nat : n = Len(s) /\ n > 0
  BY LenProperties, EmptySeq
<1>2. PICK t \in Seq(Shown) : /\ t = Tail(s) /\ Len(t) = n - 1 /\ Head(s) = s[1]
                              /\ \A i \in 1..(n - 1) : t[i] = s[i + 1]
  <2>1. /\ Head(s) = s[1] /\ Tail(s) \in Seq(Shown) /\ Len(Tail(s)) = Len(s) - 1
        /\ \A i \in 1..Len(Tail(s)) : Tail(s)[i] = s[i + 1]
    BY HeadTailProperties
  <2> QED BY <1>1, <2>1
<1>3. \A i \in 1..n : /\ s[i] # BS
                      /\ s[i] = CR => i < n /\ s[i + 1] = LF
                      /\ s[i] = LF => i > 1 /\ s[i - 1] = CR
  BY <1>1 DEF Plain
<1>4. s[1] \notin {BS, LF}
  BY <1>1, <1>3
<1>5. ASSUME s[1] # CR PROVE Plain(t)
  <2>1. ASSUME NEW i \in 1..(n - 1)
        PROVE  /\ t[i] # BS
               /\ t[i] = CR => i < n - 1 /\ t[i + 1] = LF
               /\ t[i] = LF => i > 1 /\ t[i - 1] = CR
    <3>1. t[i] = s[i + 1] /\ i + 1 \in 1..n /\ i + 1 - 1 = i
      BY <1>2
    <3>2. i < n - 1 => t[i + 1] = s[i + 1 + 1]
      BY <1>2
    <3>3. i > 1 => t[i - 1] = s[i]
      BY <1>2
    <3>4. i = 1 \/ i > 1
      OBVIOUS
    <3>5. s[i + 1] = LF => s[i] = CR
      BY <1>3, <3>1
    <3>6. s[i + 1] = CR => i + 1 < n /\ s[i + 1 + 1] = LF
      BY <1>3, <3>1
    <3>7. t[i] # BS
      BY <1>3, <3>1
    <3>8. t[i] = CR => i < n - 1 /\ t[i + 1] = LF
      BY <3>1, <3>2, <3>6
    <3>9. t[i] = LF => i > 1 /\ t[i - 1] = CR
      BY <1>5, <3>1, <3>3, <3>4, <3>5
    <3> QED BY <3>7, <3>8, <3>9
  <2> QED BY <1>2, <2>1 DEF Plain
<1>6. ASSUME s[1] = CR PROVE t # <<>> /\ Head(t) = LF /\ Plain(Tail(t))
  <2>1. 1 < n /\ s[2] = LF
    <3>1. 1 \in 1..n /\ 1 + 1 = 2
      BY <1>1
    <3> QED BY <1>3, <1>6, <3>1
  <2>2. t # <<>>
    <3>1. Len(t) # 0
      BY <1>2, <2>1
    <3> QED BY <3>1, EmptySeq
  <2>3. t[1] = LF
    <3>1. 1 \in 1..(n - 1) /\ 1 + 1 = 2
      BY <2>1
    <3> QED BY <1>2, <2>1, <3>1
  <2>4. PICK u \in Seq(Shown) : /\ u = Tail(t) /\ Len(u) = n - 2 /\ Head(t) = t[1]
                                /\ \A i \in 1..(n - 2) : u[i] = t[i + 1]
    <3>1. /\ Head(t) = t[1] /\ Tail(t) \in Seq(Shown) /\ Len(Tail(t)) = Len(t) - 1
          /\ \A i \in 1..Len(Tail(t)) : Tail(t)[i] = t[i + 1]
      BY <2>2, HeadTailProperties
    <3>2. Len(t) - 1 = n - 2
      BY <1>2
    <3> QED BY <3>1, <3>2
  <2>5. ASSUME NEW i \in 1..(n - 2)
        PROVE  /\ u[i] # BS
               /\ u[i] = CR => i < n - 2 /\ u[i + 1] = LF
               /\ u[i] = LF => i > 1 /\ u[i - 1] = CR
    <3>1. \A j \in 1..(n - 2) : u[j] = s[j + 2]
      <4>1. \A j \in 1..(n - 2) : j + 1 \in 1..(n - 1) /\ j + 1 + 1 = j + 2
        BY <2>1
      <4> QED BY <1>2, <2>4, <4>1
    <3>2. i + 2 \in 1..n /\ i + 2 - 1 = i + 1 /\ i + 1 + 2 = i + 2 + 1 /\ i - 1 + 2 = i + 1
      BY <2>1
    <3>3. u[i] = s[i + 2]
      BY <3>1
    <3>4. s[i + 2] = LF => s[i + 1] = CR
      BY <1>3, <3>2
    <3>5. s[i + 2] = CR => i + 2 < n /\ s[i + 2 + 1] = LF
      BY <1>3, <3>2
    <3>6. u[i] # BS
      BY <1>3, <3>2, <3>3
    <3>7. ASSUME u[i] = CR PROVE i < n - 2 /\ u[i + 1] = LF
      <4>1. i + 2 < n
        BY <3>3, <3>5, <3>7
      <4>2. i + 1 \in 1..(n - 2)
        BY <2>1, <4>1
      <4> QED BY <3>1, <3>2, <3>3, <3>5, <3>7, <4>1, <4>2
    <3>8. ASSUME u[i] = LF PROVE i > 1 /\ u[i - 1] = CR
      <4>1. s[i + 1] = CR
        BY <3>3, <3>4, <3>8
      <4>2. i # 1
        <5>1. i = 1 => i + 1 = 2
          OBVIOUS
        <5> QED BY <2>1, <4>1, <5>1, Distinct
      <4>3. i - 1 \in 1..(n - 2)
        BY <4>2
      <4> QED BY <3>1, <3>2, <4>1, <4>2, <4>3
    <3> QED BY <3>6, <3>7, <3>8
  <2>6. Plain(u)
    BY <2>4, <2>5 DEF Plain
  <2> QED BY <2>2, <2>3, <2>4, <2>6
<1> QED BY <1>2, <1>4, <1>5, <1>6

(* Less stands there too.                                                  *)
LEMMA OnNone ==
  ASSUME NEW line \in Seq(Shown), NEW t \in Seq(Char), NEW c \in Nat, OnScreen(line, t, c)
  PROVE  OnScreen(line, <<>>, c) /\ c <= Len(line)
<1>1. Len(t) \in Nat /\ Len(line) \in Nat /\ Len(<<>>) = 0
  BY LenProperties, EmptySeq
<1> QED BY <1>1 DEF OnScreen

LEMMA ClearFrom ==
  ASSUME NEW line \in Seq(Shown), NEW n \in Nat, NEW m \in Nat, n <= m, Clear(line, n)
  PROVE  Clear(line, m)
<1>1. Len(line) \in Nat
  BY LenProperties
<1> QED BY <1>1 DEF Clear

(* An ordinary character leaves what stands before it and stands behind.   *)
LEMMA PutOrdinary ==
  ASSUME cells \in Seq(Shown), col \in Nat, col <= Len(cells),
         NEW c \in Shown, c \notin {CR, LF, BS}, Show(c)
  PROVE  /\ col' = col + 1 /\ cells' \in Seq(Shown) /\ OnScreen(cells', <<>>, col + 1)
         /\ \A t \in Seq(Char) : OnScreen(cells, t, col) => OnScreen(cells', t, col)
         /\ Clear(cells, col + 2) => Clear(cells', col + 2)
         /\ Clear(cells, col + 2) /\ c = SPACE => Clear(cells', col + 1)
         /\ c \in Char => \A t \in Seq(Char) :
              OnScreen(cells, t, col) => OnScreen(cells', Append(t, c), col + 1)
<1>1. /\ cells' \in Seq(Shown) /\ col' = col + 1
      /\ Len(cells') = IF col = Len(cells) THEN Len(cells) + 1 ELSE Len(cells)
      /\ cells'[col + 1] = c
      /\ \A i \in 1..Len(cells) : i # col + 1 => cells'[i] = cells[i]
  BY ShowOrdinary
<1>2. PICK n \in Nat : n = Len(cells) /\ col <= n
  BY LenProperties
<1>3. PICK m \in Nat : /\ m = Len(cells') /\ n <= m /\ col + 1 <= m /\ m <= n + 1
                       /\ m = n + 1 => col = n
  BY <1>1, <1>2
<1>4. OnScreen(cells', <<>>, col + 1)
  BY <1>3, EmptySeq DEF OnScreen
<1>5. ASSUME NEW t \in Seq(Char), OnScreen(cells, t, col)
      PROVE  OnScreen(cells', t, col)
  <2>1. PICK k \in Nat : k = Len(t) /\ k <= col /\ \A i \in 1..k : cells[col - k + i] = t[i]
    BY <1>5, LenProperties DEF OnScreen
  <2>2. ASSUME NEW i \in 1..k PROVE cells'[col - k + i] = t[i]
    <3>1. col - k + i \in 1..n /\ col - k + i # col + 1
      BY <1>2, <2>1
    <3> QED BY <1>1, <1>2, <2>1, <3>1
  <2> QED BY <1>3, <2>1, <2>2 DEF OnScreen
<1>6. ASSUME Clear(cells, col + 2) PROVE Clear(cells', col + 2)
  <2>1. ASSUME NEW i \in (col + 2)..m, i > 0 PROVE cells'[i] = SPACE
    <3>1. i \in 1..n /\ i # col + 1 /\ i \in (col + 2)..n
      BY <1>2, <1>3
    <3>2. cells[i] = SPACE
      BY <1>2, <1>6, <2>1, <3>1 DEF Clear
    <3> QED BY <1>1, <1>2, <3>1, <3>2
  <2> QED BY <1>3, <2>1 DEF Clear
<1>7. ASSUME Clear(cells, col + 2), c = SPACE PROVE Clear(cells', col + 1)
  <2>1. ASSUME NEW i \in (col + 1)..m, i > 0 PROVE cells'[i] = SPACE
    <3>1. CASE i = col + 1
      BY <1>1, <1>7, <3>1
    <3>2. CASE i # col + 1
      <4>1. i \in (col + 2)..m
        BY <3>2
      <4> QED BY <1>3, <1>6, <1>7, <2>1, <4>1 DEF Clear
    <3> QED BY <3>1, <3>2
  <2> QED BY <1>3, <2>1 DEF Clear
<1>8. ASSUME c \in Char, NEW t \in Seq(Char), OnScreen(cells, t, col)
      PROVE  OnScreen(cells', Append(t, c), col + 1)
  <2>1. PICK k \in Nat : k = Len(t) /\ k <= col /\ \A i \in 1..k : cells'[col - k + i] = t[i]
    BY <1>5, <1>8, LenProperties DEF OnScreen
  <2>2. PICK u : /\ u = Append(t, c) /\ Len(u) = k + 1 /\ u[k + 1] = c
                 /\ \A i \in 1..k : u[i] = t[i]
    <3>1. /\ Len(Append(t, c)) = Len(t) + 1 /\ Append(t, c)[Len(t) + 1] = c
          /\ \A i \in 1..Len(t) : Append(t, c)[i] = t[i]
      BY <1>8, AppendProperties
    <3> QED BY <2>1, <3>1
  <2>3. ASSUME NEW i \in 1..(k + 1) PROVE cells'[(col + 1) - (k + 1) + i] = u[i]
    <3>1. (col + 1) - (k + 1) + i = col - k + i /\ col - k + (k + 1) = col + 1
      BY <2>1
    <3>2. i = k + 1 \/ i \in 1..k
      OBVIOUS
    <3> QED BY <1>1, <2>1, <2>2, <3>1, <3>2
  <2> QED BY <1>3, <2>1, <2>2, <2>3 DEF OnScreen
<1> QED BY <1>1, <1>4, <1>5, <1>6, <1>7, <1>8

(***************************************************************************)
(* Each character the monitor writes leads to the next phase.              *)
(***************************************************************************)
LEMMA ShowControls ==
  /\ Show(CR) => col' = 0 /\ cells' = cells
  /\ Show(LF) => cells' = <<>> /\ col' = col
  /\ Show(BS) => col' = (IF col = 0 THEN 0 ELSE col - 1) /\ cells' = cells
BY Distinct DEF Show

LEMMA FreshLine ==
  ASSUME cells' = <<>>, col' = 0
  PROVE  Stands(<<>>)'
<1>1. Len(<<>>) = 0
  BY EmptySeq
<1> QED BY <1>1 DEF Stands, OnScreen, Clear

(* Where the program is before it writes a character.                      *)
LEMMA Writes ==
  ASSUME Basis, uwrite_int8
  PROVE  /\ cells \in Seq(Shown) /\ col \in Nat /\ buf \in Seq(Char) /\ got \in Char
         /\ todo \in Seq(Shown) /\ todo # <<>> /\ todo' = Tail(todo) /\ Show(Head(todo))
         /\ Head(todo) \in Shown /\ Tail(todo) \in Seq(Shown)
         /\ got' = got /\ want' = want /\ buf' = buf
<1>1. /\ cells \in Seq(Shown) /\ col \in Nat /\ buf \in Seq(Char) /\ got \in Char
      /\ todo \in Seq(Shown) /\ todo # <<>> /\ todo' = Tail(todo) /\ Show(Head(todo))
      /\ got' = got /\ want' = want /\ buf' = buf
  BY DEF Basis, ConsoleTypeOK, uwrite_int8
<1> QED BY <1>1, HeadTailProperties

LEMMA WriteWriting == ASSUME Basis, uwrite_int8, Writing PROVE Phase'
<1>1. got = None /\ buf = <<>> /\ todo # <<>>
  BY DEF Writing
<1>2. ASSUME Plain(todo'), Stands(<<>>)' PROVE Phase'
  <2>1. got' = None /\ buf' = <<>>
    BY <1>1, Writes
  <2>2. CASE todo' = <<>>
    <3>1. Kept(buf)' = <<>>
      BY <2>1 DEF Kept
    <3> QED BY <1>2, <2>1, <2>2, <3>1 DEF Phase, Waiting
  <2>3. CASE todo' # <<>>
    BY <1>2, <2>1, <2>3 DEF Phase, Writing
  <2> QED BY <2>2, <2>3
<1>3. CASE Plain(todo) /\ Stands(<<>>)
  <2>1. /\ Head(todo) \notin {BS, LF}
        /\ Head(todo) # CR => Plain(Tail(todo))
        /\ Head(todo) = CR => Tail(todo) # <<>> /\ Head(Tail(todo)) = LF /\ Plain(Tail(Tail(todo)))
    BY <1>3, Writes, PlainTail
  <2>2. CASE Head(todo) = CR
    <3>1. col' = 0
      BY <2>2, Writes, ShowControls
    <3>2. todo' # <<>> /\ Head(todo') = LF /\ Plain(Tail(todo')) /\ got' = None /\ buf' = <<>>
      BY <1>1, <2>1, <2>2, Writes
    <3> QED BY <3>1, <3>2 DEF Phase, Writing
  <2>3. CASE Head(todo) # CR
    <3>1. OnScreen(cells, <<>>, col) /\ Clear(cells, col + 1) /\ <<>> \in Seq(Char)
      BY <1>3, EmptySeq DEF Stands
    <3>2. col <= Len(cells)
      BY <3>1, Writes, OnNone
    <3>3. Clear(cells, col + 2)
      BY <3>1, Writes, ClearFrom
    <3>4. OnScreen(cells', <<>>, col + 1) /\ Clear(cells', col + 2) /\ col' = col + 1
      BY <2>1, <2>3, <3>2, <3>3, Writes, PutOrdinary
    <3>5. Stands(<<>>)'
      <4>1. col' + 1 = col + 2
        BY <3>4, Writes
      <4> QED BY <3>4, <4>1 DEF Stands
    <3> QED BY <1>2, <2>1, <2>3, <3>5, Writes
  <2> QED BY <2>2, <2>3
<1>4. CASE Head(todo) = LF /\ Plain(Tail(todo)) /\ col = 0
  <2>1. cells' = <<>> /\ col' = 0
    BY <1>4, Writes, ShowControls
  <2> QED BY <1>2, <1>4, <2>1, FreshLine, Writes
<1> QED BY <1>3, <1>4 DEF Writing

LEMMA WriteEnding == ASSUME Basis, uwrite_int8, Ending PROVE Phase'
<1>1. got' = CR /\ got = CR
  BY Writes DEF Ending
<1>2. CASE todo = Newline /\ Stands(<<>>)
  <2>1. Head(todo) = CR /\ Tail(todo) = <<LF>>
    BY <1>2 DEF Newline
  <2>2. col' = 0 /\ todo' = <<LF>>
    BY <2>1, Writes, ShowControls
  <2> QED BY <1>1, <2>2 DEF Phase, Ending
<1>3. CASE todo = <<LF>> /\ col = 0
  <2>1. Head(todo) = LF /\ Tail(todo) = <<>>
    BY <1>3
  <2>2. cells' = <<>> /\ col' = 0 /\ todo' = <<>>
    BY <1>3, <2>1, Writes, ShowControls
  <2> QED BY <1>1, <2>2, FreshLine DEF Phase, Ending
<1> QED BY <1>2, <1>3, Writes DEF Ending

LEMMA WriteEchoing == ASSUME Basis, uwrite_int8, Echoing PROVE Phase'
<1>1. got \notin {None, CR} \cup Erasing /\ todo = <<got>> /\ Stands(Kept(buf))
  BY Writes DEF Echoing
<1>2. got \in Char /\ got \in Shown /\ got \notin {CR, LF, BS} /\ Show(got) /\ todo' = <<>>
  <2>1. Head(todo) = got /\ Tail(todo) = <<>>
    BY <1>1
  <2> QED BY <1>1, <2>1, Writes, Characters DEF Erasing
<1>3. /\ OnScreen(cells, Kept(buf), col) /\ Clear(cells, col + 1) /\ Kept(buf) \in Seq(Char)
  BY <1>1, Writes, EmptySeq DEF Stands, Kept
<1>4. col <= Len(cells) /\ Clear(cells, col + 2)
  BY <1>3, Writes, OnNone, ClearFrom
<1>5. /\ col' = col + 1 /\ OnScreen(cells', <<>>, col + 1) /\ Clear(cells', col + 2)
      /\ OnScreen(cells', Append(Kept(buf), got), col + 1)
  BY <1>2, <1>3, <1>4, Writes, PutOrdinary
<1>6. Stands(Kept(Append(buf, got)))'
  <2>1. col' + 1 = col + 2
    BY <1>5, Writes
  <2>2. Kept(Append(buf, got))' \in {<<>>, Append(Kept(buf), got)}
    BY Writes DEF Kept
  <2> QED BY <1>5, <2>1, <2>2 DEF Stands
<1> QED BY <1>1, <1>2, <1>6, Writes DEF Phase, Echoing

LEMMA WriteBacking == ASSUME Basis, uwrite_int8, Backing PROVE Phase'
<1>1. got \in Erasing /\ want # "image" /\ todo = <<BS>> /\ Stands(buf)
  BY Writes DEF Backing
<1>2. /\ todo' = <<>> /\ col' = (IF col = 0 THEN 0 ELSE col - 1) /\ cells' = cells
      /\ got' = got /\ want' = want /\ buf' = buf
  <2>1. Head(todo) = BS /\ Tail(todo) = <<>>
    BY <1>1
  <2> QED BY <2>1, Writes, ShowControls
<1>3. PICK n \in Nat, k \in Nat : /\ n = Len(cells) /\ k = Len(buf) /\ k <= col /\ col <= n
                                  /\ \A i \in 1..k : cells[col - k + i] = buf[i]
                                  /\ \A i \in (col + 1)..n : i > 0 => cells[i] = SPACE
  <2>1. Len(cells) \in Nat /\ Len(buf) \in Nat
    BY Writes, LenProperties
  <2> QED BY <1>1, <2>1 DEF Stands, OnScreen, Clear
<1>4. col' \in Nat /\ col' <= n /\ (col = 0 => col' = 0) /\ (col # 0 => col' = col - 1)
  BY <1>2, <1>3, Writes
<1>5. Clear(cells, col' + 2)
  <2>0. \A c \in Nat, d \in Nat : /\ (c = 0 => d = 0) /\ (c # 0 => d = c - 1)
                               => \A i \in (d + 2)..n : i \in (c + 1)..n /\ i > 0
    OBVIOUS
  <2>1. ASSUME NEW i \in (col' + 2)..n PROVE cells[i] = SPACE
    <3>1. PICK c \in Nat, d \in Nat : c = col /\ d = col' /\ (c = 0 => d = 0) /\ (c # 0 => d = c - 1)
      BY <1>4, Writes
    <3>2. i \in (d + 2)..n
      BY <3>1
    <3>3. i \in (c + 1)..n /\ i > 0
      BY <2>0, <3>1, <3>2, Zenon
    <3> QED BY <1>3, <3>1, <3>3
  <2> QED BY <1>3, <2>1 DEF Clear
<1>6. OnScreen(cells, Erased(buf), col')
  <2>1. CASE buf = <<>>
    <3>1. Erased(buf) = <<>> /\ Len(<<>>) = 0
      BY <2>1, EmptySeq DEF Erased
    <3> QED BY <1>3, <1>4, <3>1 DEF OnScreen
  <2>2. CASE buf # <<>>
    <3>1. k > 0 /\ col' = col - 1
      BY <1>3, <1>4, <2>2, Writes, EmptySeq
    <3>2. PICK t : t = Erased(buf) /\ Len(t) = k - 1 /\ \A i \in 1..(k - 1) : t[i] = buf[i]
      <4>1. Len(Front(buf)) = Len(buf) - 1 /\ \A i \in 1..(Len(buf) - 1) : Front(buf)[i] = buf[i]
        BY <2>2, Writes, FrontSeq
      <4> QED BY <1>3, <2>2, <4>1 DEF Erased
    <3>3. ASSUME NEW i \in 1..(k - 1) PROVE cells[(col - 1) - (k - 1) + i] = t[i]
      <4>1. (col - 1) - (k - 1) + i = col - k + i /\ i \in 1..k
        BY Writes
      <4> QED BY <1>3, <3>2, <4>1
    <3>4. k - 1 <= col - 1 /\ col - 1 <= n
      BY <1>3, <1>4, <3>1, Writes
    <3>5. Len(t) <= col - 1 /\ \A i \in 1..Len(t) : cells[(col - 1) - Len(t) + i] = t[i]
      BY <3>2, <3>3, <3>4
    <3>6. OnScreen(cells, t, col - 1)
      BY <1>3, <3>4, <3>5 DEF OnScreen
    <3> QED BY <3>1, <3>2, <3>6
  <2> QED BY <2>1, <2>2
<1> QED BY <1>1, <1>2, <1>5, <1>6 DEF Phase, Backing

LEMMA WriteBlanking == ASSUME Basis, uwrite_int8, Blanking PROVE Phase'
<1>1. got = None /\ want # "image" /\ got' = None /\ want' # "image" /\ buf' = buf
  BY Writes DEF Blanking
<1>2. ASSUME Head(todo) = SPACE, NEW t \in Seq(Char), OnScreen(cells, t, col),
             Clear(cells, col + 2)
      PROVE  /\ col' = col + 1 /\ OnScreen(cells', t, col) /\ OnScreen(cells', <<>>, col')
             /\ Clear(cells', col') /\ Clear(cells', col' + 1) /\ col' > 0 /\ col' - 1 = col
  <2>1. col <= Len(cells)
    BY <1>2, Writes, OnNone
  <2>2. /\ SPACE \in Shown /\ SPACE \notin {CR, LF, BS}
    BY Characters, Distinct
  <2>3. /\ col' = col + 1 /\ OnScreen(cells', <<>>, col + 1) /\ OnScreen(cells', t, col)
        /\ Clear(cells', col + 1) /\ Clear(cells', col + 2)
    BY <1>2, <2>1, <2>2, Writes, PutOrdinary
  <2>4. col' + 1 = col + 2 /\ col' > 0 /\ col' - 1 = col
    <3>1. PICK c \in Nat : c = col
      BY Writes
    <3>2. col' = c + 1 /\ (c + 1) + 1 = c + 2 /\ c + 1 > 0 /\ (c + 1) - 1 = c
      BY <2>3, <3>1
    <3> QED BY <3>1, <3>2
  <2>5. Clear(cells', col') /\ Clear(cells', col' + 1) /\ OnScreen(cells', <<>>, col')
    BY <2>3, <2>4
  <2> QED BY <2>3, <2>4, <2>5
<1>3. CASE todo = <<SPACE, BS>> /\ OnScreen(cells, buf, col) /\ Clear(cells, col + 2)
  <2>1. Head(todo) = SPACE /\ Tail(todo) = <<BS>>
    BY <1>3
  <2>2. /\ OnScreen(cells', buf, col' - 1) /\ OnScreen(cells', <<>>, col') /\ Clear(cells', col')
        /\ col' > 0 /\ todo' = <<BS>>
    BY <1>2, <1>3, <2>1, Writes
  <2>3. col' <= Len(cells')
    BY <2>2 DEF OnScreen
  <2> QED BY <1>1, <2>2, <2>3 DEF Phase, Blanking
<1>4. CASE todo = <<SPACE>> /\ buf = <<>> /\ OnScreen(cells, <<>>, col) /\ Clear(cells, col + 2)
  <2>1. Head(todo) = SPACE /\ Tail(todo) = <<>> /\ <<>> \in Seq(Char)
    BY <1>4, EmptySeq
  <2>2. OnScreen(cells', <<>>, col') /\ Clear(cells', col' + 1) /\ todo' = <<>>
    BY <1>2, <1>4, <2>1, Writes
  <2>3. Kept(buf)' = <<>>
    BY <1>1, <1>4 DEF Kept
  <2> QED BY <1>1, <2>2, <2>3 DEF Phase, Waiting, Stands
<1>5. CASE /\ todo = <<BS>> /\ col > 0 /\ col <= Len(cells)
           /\ OnScreen(cells, buf, col - 1) /\ Clear(cells, col)
  <2>1. Head(todo) = BS /\ Tail(todo) = <<>>
    BY <1>5
  <2>2. todo' = <<>> /\ col' = col - 1 /\ cells' = cells /\ col - 1 + 1 = col
    BY <1>5, <2>1, Writes, ShowControls
  <2>3. Kept(buf)' = buf
    BY <1>1 DEF Kept
  <2> QED BY <1>1, <1>5, <2>2, <2>3 DEF Phase, Waiting, Stands
<1> QED BY <1>3, <1>4, <1>5 DEF Blanking

LEMMA MonitorWrites ==
  ASSUME Basis, MonitorInv, uwrite_int8
  PROVE  MonitorInv'
<1>1. CASE want \notin MonitorReads
  BY <1>1, Writes DEF MonitorInv
<1>2. CASE want \in MonitorReads
  <2>1. ~Waiting
    BY Writes DEF Waiting
  <2>2. Phase'
    BY <1>2, <2>1, WriteWriting, WriteEnding, WriteEchoing, WriteBacking, WriteBlanking
       DEF MonitorInv, Phase
  <2> QED BY <2>2 DEF MonitorInv
<1> QED BY <1>1, <1>2

(***************************************************************************)
(* The characters the monitor reads, and what it does on them.             *)
(***************************************************************************)
LEMMA OnlyWaiting ==
  ASSUME Phase, todo = <<>>, got = None
  PROVE  Waiting
BY Distinct DEF Phase, Writing, Ending, Echoing, Backing, Blanking, Erasing

LEMMA MonitorReadsKey ==
  ASSUME Basis, MonitorInv, ImageUnedited', uread_int8
  PROVE  MonitorInv'
<1>1. /\ todo = <<>> /\ got = None /\ rx # None /\ rx \in Char /\ buf \in Seq(Char)
      /\ cells \in Seq(Shown) /\ col \in Nat
      /\ got' = rx /\ (want # "echo" => todo' = Echo(rx))
      /\ UNCHANGED <<want, buf, cells, col>>
  BY DEF uread_int8, screenVars, Basis, ConsoleTypeOK
<1>2. SUFFICES ASSUME want \in MonitorReads PROVE Phase'
  BY <1>1 DEF MonitorInv
<1>3. Stands(Kept(buf)) /\ todo' = Echo(rx)
  BY <1>1, <1>2, OnlyWaiting DEF MonitorInv, Waiting, MonitorReads, TokenRead
<1>4. Stands(Kept(buf))' /\ Kept(buf) \in Seq(Char)
  BY <1>1, <1>3, EmptySeq DEF Stands, Kept
<1>5. CASE rx = CR
  <2>1. todo' = Newline
    BY <1>3, <1>5, Distinct DEF Echo
  <2>2. OnScreen(cells, Kept(buf), col) /\ Clear(cells, col + 1)
    BY <1>3 DEF Stands
  <2>3. OnScreen(cells, <<>>, col)
    BY <1>1, <1>4, <2>2, OnNone
  <2>4. Stands(<<>>)'
    BY <1>1, <2>2, <2>3 DEF Stands
  <2> QED BY <1>1, <1>5, <2>1, <2>4 DEF Phase, Ending
<1>6. CASE rx \in Erasing
  <2>1. todo' = <<BS>>
    BY <1>3, <1>6, Distinct DEF Echo, Erasing
  <2>2. want' # "image" /\ want # "image"
    BY <1>1, <1>6 DEF ImageUnedited
  <2>3. Stands(buf)'
    BY <1>1, <1>4, <2>2 DEF Kept
  <2> QED BY <1>1, <1>6, <2>1, <2>2, <2>3 DEF Phase, Backing
<1>7. CASE rx \notin {CR} \cup Erasing
  <2>1. todo' = <<rx>>
    BY <1>3, <1>7 DEF Echo, Erasing
  <2> QED BY <1>1, <1>4, <1>7, <2>1 DEF Phase, Echoing
<1> QED BY <1>5, <1>6, <1>7

(* A command that ends writes whole lines from where the cursor stands.    *)
LEMMA MonitorGoesOn ==
  ASSUME Basis, Stands(<<>>), UNCHANGED <<cells, col>>, got' = None, buf' = <<>>, Output(todo')
  PROVE  MonitorInv'
<1>1. Stands(<<>>)' /\ Kept(buf)' = <<>>
  BY DEF Stands, Kept
<1>2. CASE todo' = <<>>
  BY <1>1, <1>2 DEF MonitorInv, Phase, Waiting
<1>3. CASE todo' # <<>>
  BY <1>1, <1>3 DEF MonitorInv, Phase, Writing, Output
<1> QED BY <1>2, <1>3

LEMMA MonitorReadsToken ==
  ASSUME Basis, MonitorInv, read_token
  PROVE  MonitorInv'
<1>1. /\ todo = <<>> /\ got # None /\ got' = None /\ want \in TokenRead
      /\ UNCHANGED <<cells, col>>
      /\ cells \in Seq(Shown) /\ col \in Nat /\ buf \in Seq(Char) /\ got \in Char
  BY DEF read_token, Returned, Idle, screenVars, TokenRead, Basis, ConsoleTypeOK
<1>2. ASSUME Token(buf) PROVE TokenDone
  BY <1>1, <1>2, TokenIsDone DEF Basis
<1>3. CASE want = "parse"
  <2>1. want' \in {"parse", "halt"}
    BY <1>2, <1>3 DEF read_token, Accumulate, TokenDone
  <2> QED BY <2>1 DEF MonitorInv, MonitorReads, TokenRead
<1>4. CASE want # "parse"
  <2>1. want \in MonitorReads /\ want # "image"
    BY <1>1, <1>4 DEF MonitorReads, TokenRead
  <2>2. Ending \/ Echoing \/ Backing
    BY <1>1, <2>1 DEF MonitorInv, Phase, Waiting, Writing, Blanking
  <2>3. ASSUME Stands(<<>>), Token(buf) PROVE MonitorInv'
    BY <1>1, <1>2, <2>3, MonitorGoesOn DEF TokenDone
  <2>4. CASE Ending
    <3>1. got = CR /\ Stands(<<>>)
      BY <1>1, <2>4 DEF Ending
    <3>2. Token(buf)
      BY <3>1, Distinct DEF read_token, Separator
    <3> QED BY <2>3, <3>1, <3>2
  <2>5. CASE Echoing
    <3>1. got \notin Erasing /\ Stands(Append(buf, got))
      BY <1>1, <2>1, <2>5 DEF Echoing, Kept
    <3>2. Append(buf, got) \in Seq(Char)
      BY <1>1, AppendProperties
    <3>3. Stands(<<>>)
      BY <1>1, <3>1, <3>2, OnNone DEF Stands
    <3>4. Token(buf) \/ Accumulate
      BY <3>1 DEF read_token, Erasing
    <3>5. CASE Accumulate
      <4>1. buf' = Append(buf, got) /\ todo' = <<>> /\ want' = want
        BY <1>1, <3>5 DEF Accumulate
      <4>2. Kept(buf)' = Append(buf, got)
        BY <2>1, <4>1 DEF Kept
      <4>3. PICK t : t = Append(buf, got)
        OBVIOUS
      <4>4. OnScreen(cells', t, col') /\ Clear(cells', col' + 1)
        BY <1>1, <3>1, <4>3 DEF Stands
      <4>5. Stands(Kept(buf))'
        BY <4>2, <4>3, <4>4 DEF Stands
      <4> QED BY <1>1, <4>1, <4>5 DEF MonitorInv, Phase, Waiting
    <3> QED BY <2>3, <3>3, <3>4, <3>5
  <2>6. CASE Backing
    <3>1. /\ got \in Erasing /\ OnScreen(cells, Erased(buf), col) /\ Clear(cells, col + 2)
      BY <1>1, <2>6 DEF Backing
    <3>2. Erase
      BY <1>4, <3>1, Distinct DEF read_token, Separator, Erasing
    <3>3. /\ buf' = Erased(buf) /\ want' # "image"
          /\ todo' = IF buf = <<>> THEN <<SPACE>> ELSE <<SPACE, BS>>
      BY <2>1, <3>2 DEF Erase, Erased
    <3>4. OnScreen(cells, buf, col)' /\ Clear(cells, col + 2)'
      BY <1>1, <3>1, <3>3
    <3>5. buf = <<>> => buf' = <<>>
      BY <3>3 DEF Erased
    <3>6. Blanking'
      BY <1>1, <3>3, <3>4, <3>5 DEF Blanking
    <3> QED BY <3>6 DEF MonitorInv, Phase
  <2> QED BY <2>2, <2>4, <2>5, <2>6
<1> QED BY <1>3, <1>4

LEMMA MonitorStores ==
  ASSUME Basis, MonitorInv, ImageUnedited, store
  PROVE  MonitorInv'
<1>1. /\ todo = <<>> /\ got # None /\ want = "image" /\ got' = None /\ UNCHANGED <<cells, col>>
      /\ \/ want' = want /\ todo' = todo
         \/ buf' = <<>> /\ Output(todo')
  BY StoreIsDone DEF Idle, screenVars
<1>2. got \notin Erasing /\ Phase
  BY <1>1 DEF ImageUnedited, MonitorInv, MonitorReads
<1>3. Stands(<<>>)
  <2>1. Ending \/ Echoing
    BY <1>1, <1>2 DEF Phase, Waiting, Writing, Blanking, Backing
  <2> QED BY <1>1, <2>1 DEF Ending, Echoing, Kept
<1>4. CASE want' = want /\ todo' = todo
  <2>1. Kept(buf)' = <<>>
    BY <1>1, <1>4 DEF Kept
  <2>2. Stands(<<>>)'
    BY <1>1, <1>3 DEF Stands
  <2> QED BY <1>1, <1>4, <2>1, <2>2 DEF MonitorInv, Phase, Waiting
<1>5. CASE buf' = <<>> /\ Output(todo')
  BY <1>1, <1>3, <1>5, MonitorGoesOn
<1> QED BY <1>1, <1>4, <1>5

LEMMA MonitorReturns ==
  ASSUME Basis, MonitorInv, ProgramReturns
  PROVE  MonitorInv'
<1>1. /\ want = "program" /\ todo = <<>> /\ Ends(<<>>) /\ got' = got /\ UNCHANGED <<cells, col>>
      /\ cells \in Seq(Shown) /\ col \in Nat /\ buf \in Seq(Char)
  BY DEF ProgramReturns, screenVars, Basis, ConsoleTypeOK
<1>2. got = None /\ Phase
  BY <1>1 DEF Basis, BufInv, MonitorInv, MonitorReads
<1>3. Stands(Kept(buf)) /\ Kept(buf) \in Seq(Char)
  BY <1>1, <1>2, OnlyWaiting, EmptySeq DEF Waiting, Kept
<1>4. Stands(<<>>)
  BY <1>1, <1>3, OnNone DEF Stands
<1>5. buf' = <<>> /\ Output(todo')
  BY <1>1, OutputWords, EndsDone
<1> QED BY <1>1, <1>2, <1>4, <1>5, MonitorGoesOn

LEMMA MonitorNext ==
  ASSUME Basis, MonitorInv, ImageUnedited, ImageUnedited', [ConsoleNext]_consoleVars
  PROVE  MonitorInv'
<1>1. CASE Host \/ Frame \/ UNCHANGED consoleVars
  <2>1. UNCHANGED <<want, buf, got, todo, cells, col>>
    BY <1>1 DEF Host, Types, StartLoader, LoaderSends, Frame, consoleVars, programVars, screenVars
  <2>2. Phase => Phase'
    BY <2>1 DEF Phase, Waiting, Writing, Ending, Echoing, Backing, Blanking, Stands, Kept
  <2> QED BY <2>1, <2>2 DEF MonitorInv
<1>2. CASE echo
  BY <1>2 DEF echo, MonitorInv, MonitorReads, TokenRead
<1> QED BY <1>1, <1>2, MonitorWrites, MonitorReadsKey, MonitorReadsToken, MonitorStores,
           MonitorReturns DEF ConsoleNext, Program

(***************************************************************************)
(* The echo program.                                                       *)
(***************************************************************************)
LEMMA AppendedKeys ==
  ASSUME NEW s \in Seq(Char), NEW c \in Char, ToSet(Append(s, c)) \cap {CR, BS, DEL} = {}
  PROVE  ToSet(s) \cap {CR, BS, DEL} = {} /\ c \notin {CR, BS, DEL}
<1>1. PICK n \in Nat : n = Len(s)
  BY LenProperties
<1>2. PICK t \in Seq(Char) : /\ t = Append(s, c) /\ Len(t) = n + 1 /\ t[n + 1] = c
                             /\ \A i \in 1..n : t[i] = s[i]
  <2>1. /\ Append(s, c) \in Seq(Char) /\ Len(Append(s, c)) = Len(s) + 1
        /\ Append(s, c)[Len(s) + 1] = c
        /\ \A i \in 1..Len(s) : Append(s, c)[i] = s[i]
    BY AppendProperties
  <2> QED BY <1>1, <2>1
<1>3. DOMAIN s = 1..n /\ DOMAIN t = 1..(n + 1)
  BY <1>1, <1>2, LenProperties
<1>4. \A i \in 1..(n + 1) : t[i] \notin {CR, BS, DEL}
  BY <1>2, <1>3 DEF ToSet
<1>5. c \notin {CR, BS, DEL} /\ \A i \in 1..n : s[i] \notin {CR, BS, DEL}
  <2>1. n + 1 \in 1..(n + 1) /\ \A i \in 1..n : i \in 1..(n + 1)
    OBVIOUS
  <2> QED BY <1>2, <1>4, <2>1
<1> QED BY <1>3, <1>5 DEF ToSet

LEMMA EchoWrites ==
  ASSUME Basis, EchoInv, uwrite_int8
  PROVE  EchoInv'
<1>1. SUFFICES ASSUME want = "echo" PROVE EchoInv'
  BY Writes DEF EchoInv
<1>2. todo = <<got>> /\ got # None /\ AsTyped(typed)
  BY <1>1, Writes DEF EchoInv
<1>3. typed' = typed /\ typed \in Seq(Char)
  BY DEF uwrite_int8, Basis, ConsoleTypeOK
<1>4. todo' = <<>> /\ Show(got)
  <2>1. Head(todo) = got /\ Tail(todo) = <<>>
    BY <1>2
  <2> QED BY <2>1, Writes
<1>5. ASSUME ToSet(Append(typed, got)) \cap {CR, BS, DEL} = {}
      PROVE  cells' = Append(typed, got) /\ col' = Len(Append(typed, got))
  <2>1. cells = typed /\ col = Len(typed) /\ got \notin {CR, BS, DEL}
    BY <1>2, <1>3, <1>5, Writes, AppendedKeys DEF AsTyped
  <2>2. got \in Shown /\ got \notin {CR, LF, BS} /\ col = Len(cells) /\ col <= Len(cells)
    BY <2>1, Writes, Characters
  <2>3. col' = col + 1 /\ cells' = Append(cells, got)
    BY <1>4, <2>2, Writes, ShowOrdinary
  <2>4. Len(Append(typed, got)) = Len(typed) + 1
    BY <1>3, Writes, AppendProperties
  <2> QED BY <2>1, <2>3, <2>4
<1>6. AsTyped(Append(typed, got))'
  BY <1>3, <1>5, Writes DEF AsTyped
<1> QED BY <1>2, <1>4, <1>6, Writes DEF EchoInv

LEMMA EchoNext ==
  ASSUME Basis, EchoInv, [ConsoleNext]_consoleVars
  PROVE  EchoInv'
<1>1. CASE Host \/ Frame \/ UNCHANGED consoleVars
  <2>1. UNCHANGED <<want, typed, got, todo, cells, col>>
    BY <1>1 DEF Host, Types, StartLoader, LoaderSends, Frame, consoleVars, programVars, screenVars
  <2> QED BY <2>1 DEF EchoInv, AsTyped
<1>2. CASE uread_int8
  <2>1. /\ todo = <<>> /\ got = None /\ got' # None /\ UNCHANGED <<want, typed, cells, col>>
        /\ want = "echo" => todo' = <<got'>>
    BY <1>2 DEF uread_int8, screenVars
  <2> QED BY <2>1 DEF EchoInv, AsTyped
<1>3. CASE echo
  <2>1. /\ todo = <<>> /\ got # None /\ want = "echo" /\ got' = None /\ typed' = Append(typed, got)
        /\ UNCHANGED <<todo, want, cells, col>>
    BY <1>3 DEF echo, Returned, Idle, screenVars
  <2>2. AsTyped(Append(typed, got))
    BY <2>1 DEF EchoInv
  <2>3. AsTyped(typed)'
    BY <2>1, <2>2 DEF AsTyped
  <2> QED BY <2>1, <2>3 DEF EchoInv
<1>4. CASE read_token
  <2>1. want \in TokenRead /\ todo = <<>>
    BY <1>4 DEF read_token, Returned, TokenRead
  <2>2. want' \in TokenRead \cup MonitorReads \cup {"halt"}
    BY <1>4, <2>1, TokenIsDone DEF read_token, Erase, Accumulate, TokenDone, Basis
  <2> QED BY <2>2 DEF EchoInv, TokenRead, MonitorReads
<1>5. CASE store
  BY <1>5, StoreIsDone DEF EchoInv, MonitorReads, TokenRead
<1>6. CASE ProgramReturns
  BY <1>6 DEF ProgramReturns, Ends, NextToken, EchoInv
<1> QED BY <1>1, <1>2, <1>3, <1>4, <1>5, <1>6, EchoWrites DEF ConsoleNext, Program

(***************************************************************************)
(* What is seen.                                                           *)
(***************************************************************************)
LEMMA ScreenInit == ASSUME ConsoleInit PROVE MonitorInv /\ EchoInv
<1>1. cells = <<>> /\ col = 0 /\ buf = <<>> /\ typed = <<>> /\ got = None
  BY DEF ConsoleInit
<1>2. PICK p \in {"bios", "parse", "echo"} : want = Start(p).want /\ todo = Start(p).todo
  BY ConsoleAssumption DEF ConsoleInit
<1>3. Stands(<<>>)
  <2>1. Len(<<>>) = 0
    BY EmptySeq
  <2> QED BY <1>1, <2>1 DEF Stands, OnScreen, Clear
<1>4. CASE p = "bios"
  <2>1. want = "command" /\ todo = Newline \o Prompt
    BY <1>2, <1>4 DEF Start
  <2>2. Plain(Newline \o Prompt)
    BY OutputWords, OutputConcat DEF Output
  <2>3. CASE todo = <<>>
    <3>1. Kept(buf) = <<>>
      BY <1>1 DEF Kept
    <3> QED BY <1>1, <1>3, <2>1, <2>3, <3>1 DEF MonitorInv, Phase, Waiting, EchoInv
  <2>4. CASE todo # <<>>
    BY <1>1, <1>3, <2>1, <2>2, <2>4 DEF MonitorInv, Phase, Writing, EchoInv
  <2> QED BY <2>3, <2>4
<1>5. CASE p = "parse"
  <2>1. want = "parse"
    BY <1>2, <1>5 DEF Start
  <2> QED BY <2>1 DEF MonitorInv, MonitorReads, TokenRead, EchoInv
<1>6. CASE p = "echo"
  <2>1. want = "echo" /\ todo = <<>>
    BY <1>2, <1>6 DEF Start
  <2>2. AsTyped(typed)
    BY <1>1, EmptySeq DEF AsTyped
  <2> QED BY <1>1, <2>1, <2>2 DEF MonitorInv, MonitorReads, TokenRead, EchoInv
<1> QED BY <1>2, <1>4, <1>5, <1>6

LEMMA SeenIsTyped ==
  ASSUME Basis, MonitorInv, EchoInv
  PROVE  WhatYouSee
<1>1. SUFFICES ASSUME Quiet PROVE WhatYouSee
  BY DEF WhatYouSee
<1>2. todo = <<>> /\ got = None
  BY <1>1 DEF Quiet, Reading
<1>3. cells \in Seq(Shown) /\ col \in Nat /\ buf \in Seq(Char)
  BY DEF Basis, ConsoleTypeOK
<1>4. ASSUME want \in TokenRead \ {"parse"}
      PROVE  /\ \E start \in 0..col : buf = SubSeq(cells, start + 1, col)
             /\ \A i \in (col + 1)..Len(cells) : cells[i] = SPACE
  <2>1. Phase /\ Kept(buf) = buf
    BY <1>4 DEF MonitorInv, MonitorReads, TokenRead, Kept
  <2>2. OnScreen(cells, buf, col) /\ Clear(cells, col + 1)
    BY <1>2, <2>1, OnlyWaiting DEF Waiting, Stands
  <2>3. PICK n \in Nat, c \in Nat, k \in Nat :
          /\ n = Len(cells) /\ c = col /\ k = Len(buf) /\ k <= c /\ c <= n
          /\ \A i \in 1..k : cells[c - k + i] = buf[i]
          /\ \A i \in (c + 1)..n : i > 0 => cells[i] = SPACE
    <3>1. Len(cells) \in Nat /\ Len(buf) \in Nat
      BY <1>3, LenProperties
    <3> QED BY <1>3, <2>2, <3>1 DEF OnScreen, Clear
  <2>4. PICK d \in 0..c : d = c - k
    BY <2>3
  <2>5. PICK t \in Seq(Shown) : /\ t = SubSeq(cells, d + 1, c) /\ Len(t) = k
                                /\ \A i \in 1..k : t[i] = cells[d + i]
    <3>1. d + 1 \in 1..(n + 1) /\ c \in 0..n /\ c - (d + 1) + 1 = k
      BY <2>3, <2>4
    <3>2. CASE k = 0
      <4>1. SubSeq(cells, d + 1, c) = <<>>
        BY <1>3, <2>3, <2>4, <3>2, SubSeqEmpty
      <4>2. <<>> \in Seq(Shown) /\ Len(<<>>) = k
        BY <3>2, EmptySeq
      <4>3. \A i \in 1..k : <<>>[i] = cells[d + i]
        BY <3>2
      <4> QED BY <4>1, <4>2, <4>3
    <3>3. CASE k > 0
      <4>1. d + 1 \in 1..n /\ c \in d..n /\ d + 1 <= c
        BY <2>3, <2>4, <3>3
      <4>2. /\ SubSeq(cells, d + 1, c) \in Seq(Shown)
            /\ Len(SubSeq(cells, d + 1, c)) = (IF d + 1 <= c THEN c - (d + 1) + 1 ELSE 0)
            /\ \A i \in 1..(c - (d + 1) + 1) : SubSeq(cells, d + 1, c)[i] = cells[d + 1 + i - 1]
        BY <1>3, <2>3, <4>1, SubSeqProperties
      <4>3. \A i \in 1..k : d + 1 + i - 1 = d + i
        OBVIOUS
      <4> QED BY <3>1, <4>1, <4>2, <4>3
    <3> QED BY <3>2, <3>3
  <2>6. t = buf
    <3>1. \A i \in 1..k : t[i] = buf[i]
      BY <2>3, <2>4, <2>5
    <3>2. buf \in Seq(Shown)
      BY <1>3, Characters, SeqMonotonic
    <3>3. Len(t) = Len(buf) /\ Len(t) = k
      BY <2>3, <2>5
    <3> QED BY <3>1, <3>2, <3>3, SeqEqual
  <2>7. \E start \in 0..col : buf = SubSeq(cells, start + 1, col)
    BY <2>3, <2>5, <2>6
  <2>8. ASSUME NEW i \in (col + 1)..Len(cells) PROVE cells[i] = SPACE
    <3>1. i \in (c + 1)..n /\ i > 0
      BY <2>3
    <3> QED BY <2>3, <3>1
  <2> QED BY <2>7, <2>8
<1>5. ASSUME want = "echo", ToSet(typed) \cap {CR, BS, DEL} = {} PROVE cells = typed
  BY <1>2, <1>5 DEF EchoInv, AsTyped
<1> QED BY <1>4, <1>5 DEF WhatYouSee

(* As long as nobody types an erasing key among the words of an image, the *)
(* unfinished token stands before the cursor whenever the monitor waits.   *)
THEOREM ScreenTrue == ConsoleSpec /\ []ImageUnedited => []WhatYouSee
<1>1. ConsoleInit => Basis /\ MonitorInv /\ EchoInv
  BY BasisInit, ScreenInit
<1>2. Basis /\ MonitorInv /\ EchoInv /\ ImageUnedited /\ ImageUnedited' /\ [ConsoleNext]_consoleVars
        => (Basis /\ MonitorInv /\ EchoInv)'
  BY BasisNext, MonitorNext, EchoNext
<1>3. Basis /\ MonitorInv /\ EchoInv => WhatYouSee
  BY SeenIsTyped
<1> QED BY <1>1, <1>2, <1>3, PTL DEF ConsoleSpec
=============================================================================
