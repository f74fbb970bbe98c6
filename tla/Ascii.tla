------------------------------- MODULE Ascii -------------------------------
(***************************************************************************)
(* The number conversions of software/151_library/ascii.c and the string   *)
(* comparison of string.c. A string is a sequence of characters, its       *)
(* terminator left out; bytes is the size of the integer type.             *)
(***************************************************************************)
EXTENDS Integers, Sequences, SequencesExt

Hex == <<"0", "1", "2", "3", "4", "5", "6", "7", "8", "9", "a", "b", "c", "d", "e", "f">>
Upper == <<"A", "B", "C", "D", "E", "F">>
DecDigit == {Hex[i] : i \in 1..10}
HexDigit == {Hex[i] : i \in 1..16} \cup {Upper[i] : i \in 1..6}
DigitValue == [c \in HexDigit |-> CHOOSE v \in 0..15 : \/ Hex[v + 1] = c
                                                       \/ v > 9 /\ Upper[v - 9] = c]

(* What is needed of powers, for numbers of up to four bytes.              *)
ASSUME DigitAssumption == /\ \A i \in 0..7 : 16^i \in Nat \ {0}
                          /\ \A i \in 0..3 : 256^i \in Nat \ {0}

(* The first n characters, or all there are.                               *)
Prefix(s, n) == SubSeq(s, 1, IF Len(s) < n THEN Len(s) ELSE n)

(* A value in an unsigned type. The 32-bit values of the runs stay below   *)
(* 2^31, where TLC's integers end.                                         *)
Unsigned(t, bytes) == IF bytes = 4 THEN t ELSE t % 256^bytes

(* Characters that are no digits are passed over, not refused.             *)
Number(digits, base, s, bytes) ==
  LET t[i \in 0..Len(s)] ==
        IF i = 0 THEN 0
        ELSE IF s[i] \in digits THEN Unsigned(base * t[i - 1] + DigitValue[s[i]], bytes)
        ELSE t[i - 1]
  IN  t[Len(s)]

ascii_dec_to(s, bytes) == Number(DecDigit, 10, Prefix(s, 2 * bytes + 1), bytes)
ascii_hex_to(s, bytes) == Number(HexDigit, 16, Prefix(s, 2 * bytes), bytes)

(* The leading digits, as many as a buffer of n characters holds.          *)
to_ascii_hex(x, n, bytes) ==
  LET m == 2 * bytes
  IN  [i \in 1..(IF m < n - 1 THEN m ELSE n - 1) |-> Hex[((x \div 16^(m - i)) % 16) + 1]]

strcmp151(s0, s1) == IF s0 = s1 THEN 0 ELSE 1
=============================================================================
