------------------------------ MODULE Datapath ------------------------------
(***************************************************************************)
(* The combinational circuits of hardware/vsrc/riscv_core: adder, shifter, *)
(* ALU, branch condition, load and store alignment, for words of four      *)
(* bytes of BYTE_BITS bits.  A word is a natural number below 2^DWIDTH.    *)
(***************************************************************************)
EXTENDS Integers

CONSTANTS BYTE_BITS,    \* 8 in the source
          SHAMT_BITS    \* 5 in the source

ASSUME WidthAssumption == /\ BYTE_BITS \in Nat /\ BYTE_BITS > 0 /\ SHAMT_BITS \in Nat
                          /\ 4 * BYTE_BITS = 2^SHAMT_BITS

DWIDTH == 4 * BYTE_BITS
Modulus == 2^DWIDTH
ByteModulus == 2^BYTE_BITS
HalfModulus == 2^(2 * BYTE_BITS)
Value == 0..(Modulus - 1)

BitAt(x, i) == (x \div 2^i) % 2
Msb(x) == BitAt(x, DWIDTH - 1)
Flag(p) == IF p THEN 1 ELSE 0

(* Mutants: the complement without its carry, an extension that forgets    *)
(* the sign.                                                               *)
NotWCarry(x) == (Modulus - x) % Modulus
ZeroExtend(x, m) == x

NotW(x) == Modulus - 1 - x
Signed(x) == IF x < Modulus \div 2 THEN x ELSE x - Modulus

BitPlaces == 0..(DWIDTH - 1)

(* The word of these bits, added up from the lowest.                       *)
PerBit(bit) ==
  LET low[n \in 0..DWIDTH] == IF n = 0 THEN 0 ELSE low[n - 1] + bit[n - 1] * 2^(n - 1)
  IN  low[DWIDTH]

Xor(x, y) == PerBit([i \in BitPlaces |-> (BitAt(x, i) + BitAt(y, i)) % 2])
Or(x, y) == PerBit([i \in BitPlaces |-> IF BitAt(x, i) + BitAt(y, i) > 0 THEN 1 ELSE 0])
And(x, y) == PerBit([i \in BitPlaces |-> BitAt(x, i) * BitAt(y, i)])

(* adder.v: a + (b ^ {cin}) + cin, and the flags.                          *)
adder(ina, inb, cin) ==
  LET t == IF cin = 1 THEN NotW(inb) ELSE inb
      total == ina + t + cin
      out == total % Modulus
  IN  [out |-> out,
       cf |-> (Flag(total >= Modulus) + cin) % 2,
       of |-> Msb(ina) = Msb(t) /\ Msb(out) # Msb(ina),
       zf |-> out = 0,
       sf |-> Msb(out)]

(* shifter.v: stage i moves by 2^i places when bit i of the amount is set; *)
(* a right shift fills with the sign of din when A_L.                      *)
ShiftLeft(x, n) == (x * 2^n) % Modulus
ShiftRightFill(x, n, fill) == x \div 2^n + fill * (Modulus - 2^(DWIDTH - n))

shifter(din, shamt, L_R, A_L) ==
  LET fill == IF A_L THEN Msb(din) ELSE 0
      shift_out[i \in 0..SHAMT_BITS] ==
        IF i = 0 THEN din
        ELSE IF BitAt(shamt, i - 1) = 0 THEN shift_out[i - 1]
        ELSE IF L_R THEN ShiftLeft(shift_out[i - 1], 2^(i - 1))
        ELSE ShiftRightFill(shift_out[i - 1], 2^(i - 1), fill)
  IN  shift_out[SHAMT_BITS]

(* alu.v with as_inb low; op3 is op[3], f is op[2:0].                      *)
alu(ina, inb, op3, f) ==
  LET shifted == shifter(ina, inb % 2^SHAMT_BITS, f \div 4 = 0, op3 = 1)
  IN  CASE f = 0 -> adder(ina, inb, op3).out
        [] f \in {1, 5} -> shifted
        [] f = 2 -> Flag(Signed(ina) < Signed(inb))
        [] f = 3 -> Flag(ina < inb)
        [] f = 4 -> Xor(ina, inb)
        [] f = 6 -> Or(ina, inb)
        [] f = 7 -> And(ina, inb)

(***************************************************************************)
(* csrc/alu.cpp: the operations of C that the testbench of the ALU expects *)
(* of it, for each of its ten codes. And its loop over them.               *)
(***************************************************************************)
Ones(x) == {i \in BitPlaces : BitAt(x, i) = 1}
WordWith(ones) == CHOOSE w \in Value : \A i \in BitPlaces : BitAt(w, i) = 1 <=> i \in ones

op_add(x, y) == (x + y) % Modulus
op_sub(x, y) == (x - y) % Modulus
op_sll(x, y) == (x * 2^(y % DWIDTH)) % Modulus
op_slt(x, y) == IF Signed(x) < Signed(y) THEN 1 ELSE 0
op_sltu(x, y) == IF x < y THEN 1 ELSE 0
op_and(x, y) == WordWith(Ones(x) \cap Ones(y))
op_or(x, y) == WordWith(Ones(x) \cup Ones(y))
op_xor(x, y) == WordWith((Ones(x) \ Ones(y)) \cup (Ones(y) \ Ones(x)))
op_srl(x, y) == x \div 2^(y % DWIDTH)
op_sra(x, y) == (Signed(x) \div 2^(y % DWIDTH)) % Modulus

OPCODE == {0, 8, 1, 2, 3, 4, 6, 7, 5, 13}
aluop(opcode, x, y) ==
  CASE opcode = 0 -> op_add(x, y)
    [] opcode = 8 -> op_sub(x, y)
    [] opcode = 1 -> op_sll(x, y)
    [] opcode = 2 -> op_slt(x, y)
    [] opcode = 3 -> op_sltu(x, y)
    [] opcode = 4 -> op_xor(x, y)
    [] opcode = 6 -> op_or(x, y)
    [] opcode = 7 -> op_and(x, y)
    [] opcode = 5 -> op_srl(x, y)
    [] opcode = 13 -> op_sra(x, y)
sim(x, y) == \A opcode \in OPCODE : alu(x, y, opcode \div 8, opcode % 8) = aluop(opcode, x, y)

(* brCond.v                                                                *)
brCond(br_type, ina, inb) ==
  CASE br_type = 0 -> ina = inb
    [] br_type = 1 -> ina # inb
    [] br_type = 4 -> Signed(ina) < Signed(inb)
    [] br_type = 5 -> ~(Signed(ina) < Signed(inb))
    [] br_type = 6 -> ina < inb
    [] br_type = 7 -> ~(ina < inb)
    [] OTHER -> FALSE

SignExtend(x, m) == IF x < m \div 2 THEN x ELSE x + Modulus - m

(* loadControl.v: bytes by both low address bits, halves by the upper one. *)
loadControl(ld_type, sum_low, din) ==
  LET tmp1 == (din \div 2^(BYTE_BITS * sum_low)) % ByteModulus
      tmp2 == (din \div 2^(2 * BYTE_BITS * (sum_low \div 2))) % HalfModulus
  IN  CASE ld_type = 0 -> SignExtend(tmp1, ByteModulus)
        [] ld_type = 1 -> SignExtend(tmp2, HalfModulus)
        [] ld_type = 2 -> din
        [] ld_type = 4 -> tmp1
        [] ld_type = 5 -> tmp2
        [] OTHER -> 0

(* storeControl.v: the four-bit write enables, cut off at lane 3, and the  *)
(* data moved to its lane.                                                 *)
wbe(st_type, sum_low) ==
  CASE st_type = 0 -> {sum_low}
    [] st_type = 1 -> {sum_low, sum_low + 1} \cap (0..3)
    [] st_type = 2 -> 0..3
    [] OTHER -> {}

wdata(sum_low, din) == ShiftLeft(din, BYTE_BITS * sum_low)

LaneOf(x, l) == (x \div 2^(BYTE_BITS * l)) % ByteModulus

(* SYNC_RAM_WBE: the word in memory after a write with byte enables.       *)
Stored(old, new, lanes) ==
  LET lane(l) == LaneOf(IF l \in lanes THEN new ELSE old, l) * 2^(BYTE_BITS * l)
  IN  lane(0) + lane(1) + lane(2) + lane(3)

(***************************************************************************)
(* immGen.v: the immediate of an instruction of 32 bits, from its bits     *)
(* 31..7.                                                                  *)
(***************************************************************************)
Bit == {0, 1}
Format == {"CSR", "U", "J", "B", "S", "I"}
InstBits == [7..31 -> Bit]

Imm(bit(_)) == [i \in 0..31 |-> bit(i)]

CsrImm(inst) == Imm(LAMBDA i : IF i < 5 THEN inst[i + 15] ELSE 0)

UpperImm(inst) == Imm(LAMBDA i : IF i >= 12 THEN inst[i] ELSE 0)

JumpImm(inst) == Imm(LAMBDA i : CASE i = 0 -> 0
                                  [] i \in 1..10 -> inst[i + 20]
                                  [] i = 11 -> inst[20]
                                  [] i \in 12..19 -> inst[i]
                                  [] i >= 20 -> inst[31])

(* Mutant: the two displaced bits of a branch exchanged.                    *)
BranchImmSwapped(inst) == Imm(LAMBDA i : CASE i = 0 -> 0
                                           [] i \in 1..4 -> inst[i + 7]
                                           [] i \in 5..10 -> inst[i + 20]
                                           [] i = 12 -> inst[7]
                                           [] i = 11 \/ i > 12 -> inst[31])

BranchImm(inst) == Imm(LAMBDA i : CASE i = 0 -> 0
                                    [] i \in 1..4 -> inst[i + 7]
                                    [] i \in 5..10 -> inst[i + 20]
                                    [] i = 11 -> inst[7]
                                    [] i >= 12 -> inst[31])

StoreImm(inst) == Imm(LAMBDA i : CASE i \in 0..4 -> inst[i + 7]
                                   [] i \in 5..10 -> inst[i + 20]
                                   [] i >= 11 -> inst[31])

ShortImm(inst) == Imm(LAMBDA i : IF i <= 10 THEN inst[i + 20] ELSE inst[31])

(* The opcodes of the source, by the format of their immediate.            *)
immGen(format, inst) == CASE format = "CSR" -> CsrImm(inst)
                          [] format = "U" -> UpperImm(inst)
                          [] format = "J" -> JumpImm(inst)
                          [] format = "B" -> BranchImm(inst)
                          [] format = "S" -> StoreImm(inst)
                          [] format = "I" -> ShortImm(inst)
=============================================================================
