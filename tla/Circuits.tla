------------------------------ MODULE Circuits ------------------------------
(***************************************************************************)
(* What the circuits of Datapath are for, said of any operands a and b and *)
(* of any immediate value of a format: a state is an input.                *)
(***************************************************************************)
EXTENDS Datapath

(* What is needed of powers, for any width.                                *)
ASSUME PowerAssumption ==
  /\ 2^0 = 1 /\ 2^1 = 2 /\ SHAMT_BITS <= DWIDTH
  /\ \A m, n \in 0..DWIDTH : m + n <= DWIDTH => /\ 2^m \in Nat \ {0}
                                                /\ 2^(m + n) = 2^m * 2^n

VARIABLES
  a, b,                   \* operands, or a word to store and the word in memory
  format, value, rest     \* rest fills the bits that hold no immediate

InSigned(x) == x >= -(Modulus \div 2) /\ x < Modulus \div 2

(* The adder adds and, with cin, subtracts modulo the word size, and its   *)
(* flags say what was lost: cf an unsigned carry or borrow, of a signed    *)
(* result out of range.                                                    *)
AdderExact ==
  LET sum == adder(a, b, 0)
      dif == adder(a, b, 1)
  IN  /\ sum.out = (a + b) % Modulus
      /\ dif.out = (a - b) % Modulus
      /\ (sum.cf = 1 <=> a + b >= Modulus) /\ (dif.cf = 1 <=> a < b)
      /\ sum.of <=> ~InSigned(Signed(a) + Signed(b))
      /\ dif.of <=> ~InSigned(Signed(a) - Signed(b))
      /\ dif.zf <=> a = b

(* SLT and the signed branches order words as two's complement numbers:    *)
(* the order of the words with the sign bit flipped.                       *)
CompareExact ==
  LET Flipped(x) == (x + Modulus \div 2) % Modulus
  IN  /\ (alu(a, b, 0, 2) = 1) <=> Flipped(a) < Flipped(b)
      /\ (alu(a, b, 0, 3) = 1) <=> a < b
      /\ brCond(4, a, b) <=> Flipped(a) < Flipped(b)
      /\ brCond(5, a, b) <=> Flipped(a) >= Flipped(b)
      /\ brCond(6, a, b) <=> a < b
      /\ brCond(7, a, b) <=> a >= b
      /\ brCond(0, a, b) <=> ~brCond(1, a, b)

(* A store followed by a load of the same width at the same aligned        *)
(* address returns what was stored, sign- or zero-extended, and the rest   *)
(* of the word keeps its bytes.                                            *)
StoreLoadRight ==
  \A bottom \in 0..3 :
    LET Mem(t) == Stored(b, wdata(bottom, a), wbe(t, bottom))
        Kept(t, size) == \A l \in (0..3) \ (bottom..(bottom + size - 1)) :
                           LaneOf(Mem(t), l) = LaneOf(b, l)
    IN  /\ loadControl(4, bottom, Mem(0)) = a % ByteModulus
        /\ loadControl(0, bottom, Mem(0)) % ByteModulus = a % ByteModulus
        /\ (loadControl(0, bottom, Mem(0)) >= Modulus \div 2) <=> BitAt(a, BYTE_BITS - 1) = 1
        /\ Kept(0, 1)
        /\ bottom % 2 = 0 => /\ loadControl(5, bottom, Mem(1)) = a % HalfModulus
                          /\ (loadControl(1, bottom, Mem(1)) >= Modulus \div 2)
                               <=> BitAt(a, 2 * BYTE_BITS - 1) = 1
                          /\ Kept(1, 2)
        /\ bottom = 0 => loadControl(2, bottom, Mem(2)) = a

(* adder.v, alu.v, brCond.v, storeControl.v, loadControl.v: sums,           *)
(* differences, their flags and the orders are those of the numbers, and a *)
(* word, half or byte that a store's byte enables put into a word of       *)
(* memory is the one a load takes out, while the other bytes stay.         *)
WordsExact == a \in Value /\ b \in Value => AdderExact /\ CompareExact /\ StoreLoadRight

(* alu.v: the ALU gives what its testbench (alu.cpp) expects, for each of  *)
(* the operations of C: sums, orders, shifts by the low bits of the second *)
(* operand, with the sign or without, and the bits that either word, both, *)
(* or one of them has.                                                     *)
AluExact == a \in Value /\ b \in Value => sim(a, b)

(* Where a format puts its immediate: width bits of it, from bit from up,  *)
(* at bit at of the instruction.                                           *)
Field(at, from, width) == [at |-> at, from |-> from, width |-> width]
Layout ==
  [f \in Format |->
     CASE f = "I" -> {Field(20, 0, 12)}
       [] f = "S" -> {Field(25, 5, 7), Field(7, 0, 5)}
       [] f = "B" -> {Field(31, 12, 1), Field(25, 5, 6), Field(8, 1, 4), Field(7, 11, 1)}
       [] f = "U" -> {Field(12, 12, 20)}
       [] f = "J" -> {Field(31, 20, 1), Field(21, 1, 10), Field(20, 11, 1), Field(12, 12, 8)}
       [] f = "CSR" -> {Field(15, 0, 5)}]

(* Two's complement, without 2^31.                                         *)
ImmBit(v, i) == IF i = 31 THEN (IF v < 0 THEN 1 ELSE 0) ELSE (v \div 2^i) % 2

Encoded(f, v, fill) ==
  [i \in 7..31 |->
     IF \E x \in Layout[f] : i \in x.at..(x.at + x.width - 1)
     THEN LET x == CHOOSE x \in Layout[f] : i \in x.at..(x.at + x.width - 1)
          IN  ImmBit(v, x.from + i - x.at)
     ELSE fill]

(* The immediates of a format: 12 bits or 20, signed, with their low bits  *)
(* left out in the long formats; the 5 bits of CSR are not signed.         *)
Immediates(f) ==
  CASE f \in {"I", "S"} -> -(2^11)..(2^11 - 1)
    [] f = "B" -> {2 * v : v \in -(2^11)..(2^11 - 1)}
    [] f = "CSR" -> 0..31
    [] f = "J" -> {2 * v : v \in -(2^19)..(2^19 - 1)}
    [] f = "U" -> {2^12 * v : v \in -(2^19)..(2^19 - 1)}

(* immGen.v returns the immediate an assembler put into the instruction,   *)
(* sign extended.                                                          *)
ImmediateDecoded ==
  format \in Format => immGen(format, Encoded(format, value, rest))
                      = [i \in 0..31 |-> ImmBit(value, i)]
=============================================================================
