------------------------------- MODULE MCCpu -------------------------------
(***************************************************************************)
(* The pipeline on eight-bit words of four two-bit bytes, with the         *)
(* arithmetic of Datapath.  Address bits 7..4 are the region, as bits      *)
(* 31..28 are in the source, and bits 1..0 the byte; the four I/O words    *)
(* and three of their bytes stand for the seven I/O registers.  A word is  *)
(* an instruction by its place in Alphabet, so a program may store         *)
(* instructions and jump to them.                                          *)
(***************************************************************************)
EXTENDS Cpu, Sequences

CONSTANT Programs   \* the instructions, by number, of each BIOS tried

DP == INSTANCE Datapath WITH BYTE_BITS <- 2, SHAMT_BITS <- 3

MCWord == DP!Value
MCByte == 0..3
MCLowByte(w) == w % 4
MCIoByte(b) == b

MCUs == {[low |-> 5, high |-> 6]}
MCReg == 0..2
MCBiosWord == 0..3
MCBiosIndex(w) == (w \div 4) % 4
MCRamWord == 0..1
MCRamIndex(w) == (w \div 4) % 2
MCRegion(w) == w \div 16

MCIoReg(w) ==
  CASE w = 128 -> "ctrl"
    [] w = 132 -> "rx"
    [] w = 136 -> "tx"
    [] w = 140 -> "us_low"
    [] w = 129 -> "cycle"
    [] w = 133 -> "inst"
    [] w = 141 -> "us_high"
    [] OTHER -> "none"

MCPlus4(w) == (w + 4) % 256
MCAdd(a, b) == DP!adder(a, b, 0).out
MCSub(a, b) == DP!adder(a, b, 1).out
MCArith(f, alt, a, b) == DP!alu(a, b, IF alt THEN 1 ELSE 0, f)
MCBranchTaken(f, a, b) == DP!brCond(f, a, b)
MCLoadControl(f, a, w) == DP!loadControl(f, a % 4, w)
MCStoreLanes(f, a) == DP!wbe(f, a % 4)
MCStoreData(a, w) == DP!wdata(a % 4, w)
MCMerge(old, new, lanes) == DP!Stored(old, new, lanes)
MCIoStatus(v, r) == (IF v THEN 2 ELSE 0) + (IF r THEN 1 ELSE 0)
MCInc(w) == (w + 1) % 4     \* bound: counters of two bits

I(opc, rd, rs1, rs2, f, alt, imm) ==
  [opcode |-> opc, rd |-> rd, rs1 |-> rs1, rs2 |-> rs2, funct3 |-> f, bit30 |-> alt,
   imm |-> imm]

Alphabet == <<
  I("OTHER", 0, 0, 0, 0, FALSE, 0),        \*  0  the all-zero word
  I("LUI", 1, 0, 0, 0, FALSE, 16),         \*  1  x1 = data memory
  I("LUI", 1, 0, 0, 0, FALSE, 32),         \*  2  x1 = instruction memory
  I("LUI", 1, 0, 0, 0, FALSE, 128),        \*  3  x1 = I/O
  I("ARI_ITYPE", 2, 0, 0, 0, TRUE, 13),    \*  4  addi x2, x0, 13, with a 1 in bit 30
  I("ARI_RTYPE", 2, 1, 2, 0, FALSE, 0),    \*  5  add x2, x1, x2
  I("ARI_RTYPE", 1, 2, 1, 0, TRUE, 0),     \*  6  sub x1, x2, x1
  I("ARI_ITYPE", 2, 2, 0, 5, TRUE, 1),     \*  7  srai x2, x2, 1
  I("LOAD", 2, 1, 0, 2, FALSE, 0),         \*  8  lw x2, 0(x1): data or UART status
  I("LOAD", 2, 1, 0, 2, FALSE, 4),         \*  9  lw x2, 4(x1): data or received byte
  I("LOAD", 2, 1, 0, 2, FALSE, 1),         \* 10  lw x2, 1(x1): data or cycle count
  I("STORE", 0, 1, 2, 2, FALSE, 0),        \* 11  sw x2, 0(x1)
  I("STORE", 0, 1, 2, 0, FALSE, 8),        \* 12  sb x2, 8(x1): data or transmit
  I("STORE", 0, 1, 2, 2, FALSE, 12),       \* 13  sw x2, 12(x1): data or counter reset
  I("BRANCH", 0, 1, 2, 0, FALSE, 8),       \* 14  beq x1, x2, +8
  I("BRANCH", 0, 2, 1, 4, FALSE, 252),     \* 15  blt x2, x1, -4
  I("JAL", 2, 0, 0, 0, FALSE, 8),          \* 16  jal x2, +8
  I("JALR", 2, 1, 0, 0, FALSE, 0),         \* 17  jalr x2, 0(x1)
  I("JAL", 0, 0, 0, 0, FALSE, 244),        \* 18  jal x0, -12: back to the start
  I("AUIPC", 1, 0, 0, 0, FALSE, 4),        \* 19  auipc x1, 4
  I("CSR", 1, 2, 0, 1, FALSE, 2),          \* 20  csrrw x1, x2
  I("CSR", 0, 1, 0, 5, FALSE, 1),          \* 21  csrrwi 1
  I("LOAD", 0, 1, 0, 2, FALSE, 4),         \* 22  lw x0, 4(x1): discards a received byte
  I("ARI_ITYPE", 0, 1, 0, 0, FALSE, 1),    \* 23  addi x0, x1, 1
  I("LOAD", 2, 1, 0, 2, FALSE, 5),         \* 24  lw x2, 5(x1): data or instruction count
  I("LOAD", 2, 1, 0, 2, FALSE, 12),        \* 25  lw x2, 12(x1): data or microseconds, low
  I("LOAD", 2, 1, 0, 2, FALSE, 13),        \* 26  lw x2, 13(x1): data or microseconds, high
  I("LOAD", 1, 1, 0, 0, FALSE, 1)          \* 27  lb x1, 1(x1)
>>

MCDecode(w) == IF w < Len(Alphabet) THEN Alphabet[w + 1] ELSE Alphabet[1]

MCBiosImages == {[a \in MCBiosWord |-> p[a + 1]] : p \in Programs}

(* Three instructions and a jump back.  Every result meets every use at    *)
(* distance one and two; a few programs for the instructions left out.     *)
Dependent == {1, 4, 5, 8, 11, 14, 16}
HazardPrograms == {<<i, j, k, 18>> : i, j, k \in Dependent}
                  \cup {<<i, j, k, 18>> : i \in {1, 4, 19}, j \in {6, 7, 15, 20, 21, 23, 27},
                                          k \in {0, 6, 7, 11, 15, 20, 21, 23}}

(* x1 holds the I/O region; two accesses to it, or one and a use.          *)
IoPrograms == {<<3, i, j, 18>> : i, j \in {8, 9, 10, 12, 13, 14, 22, 24, 25, 26}}

(* x1 holds the instruction memory; instructions are stored there and      *)
(* jumped to, and may try to store more.                                   *)
LoadedPrograms == {<<i, j, k, 17>> : i \in {2, 4}, j \in {2, 4, 13}, k \in {11, 12, 13}}

DependentPrograms == HazardPrograms \cup LoadedPrograms
=============================================================================
