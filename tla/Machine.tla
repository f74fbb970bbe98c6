------------------------------ MODULE Machine ------------------------------
(***************************************************************************)
(* The vocabulary shared by the instruction set (Rv32i) and the pipeline   *)
(* (Cpu): words, the address map, instruction fields and the arithmetic    *)
(* the two agree on.  Arithmetic is a parameter: what module Datapath      *)
(* defines bit by bit is assumed here only to return words, so the         *)
(* theorems hold for every word size.                                      *)
(***************************************************************************)
EXTENDS Naturals

CONSTANTS Word, Zero,
          Byte, ZeroByte, LowByte(_),
          IoByte(_),          \* a byte in the lowest lane, the other lanes zero
          RxByte,             \* the bytes the serial line may bring
          Us,                 \* the values of the microsecond timer
          Reg,                \* register numbers, 0..n
          RESET_PC,
          BiosWord, DmemWord, ImemWord,                 \* word addresses of each memory
          BiosIndex(_), DmemIndex(_), ImemIndex(_),     \* byte address -> word address
          BiosImages,         \* the contents the BIOS ROM may be given
          Region(_),          \* address bits 31..28
          IoReg(_),           \* the memory-mapped register at an address, or "none"
          Decode(_),          \* word -> Instr
          Plus4(_), Add(_, _), Sub(_, _),
          Arith(_, _, _, _),  \* funct3, bit 30, two operands
          BranchTaken(_, _, _),         \* funct3, two operands
          LoadControl(_, _, _),         \* funct3, address, the word read
          StoreLanes(_, _),             \* funct3, address: the byte lanes written
          StoreData(_, _),              \* address, the word stored, moved to its lanes
          Merge(_, _, _),     \* word in memory, word stored, byte lanes written
          IoStatus(_, _),     \* rx valid, tx ready -> word
          Inc(_)              \* the counters' successor, modulo their width

Opcode == {"CSR", "LUI", "AUIPC", "JAL", "JALR", "BRANCH", "STORE", "LOAD",
           "ARI_RTYPE", "ARI_ITYPE", "OTHER"}
Funct3 == 0..7
ADD_SUB == 0
SRL_SRA == 5
CSRRW == 1
CSRRWI == 5

(* The fields of an instruction and the immediate its format gives it.     *)
Instr == [opcode : Opcode, rd : Reg, rs1 : Reg, rs2 : Reg, funct3 : Funct3,
          bit30 : BOOLEAN, imm : Word]

IoRegs == {"ctrl", "rx", "tx", "cycle", "inst", "us_low", "us_high", "none"}

ASSUME WordAssumption ==
  /\ Zero \in Word /\ ZeroByte \in Byte /\ RxByte \subseteq Byte
  /\ \A b \in Byte : IoByte(b) \in Word
  /\ Us \subseteq [low : Word, high : Word]
  /\ RESET_PC \in Word /\ Reg \subseteq Nat /\ 0 \in Reg
  /\ \A w \in Word : /\ Decode(w) \in Instr
                     /\ Region(w) \in 0..15 /\ IoReg(w) \in IoRegs
                     /\ IoReg(w) # "none" => Region(w) = 8
                     /\ BiosIndex(w) \in BiosWord
                     /\ DmemIndex(w) \in DmemWord
                     /\ ImemIndex(w) \in ImemWord
                     /\ Plus4(w) \in Word /\ Inc(w) \in Word /\ LowByte(w) \in Byte
  /\ \A v, r \in BOOLEAN : IoStatus(v, r) \in Word
  /\ BiosImages \subseteq [BiosWord -> Word]

(* Bit 30 of an instruction chooses between two operations only for        *)
(* ADD/SUB and SRL/SRA; elsewhere the ALU ignores it.                      *)
ASSUME ArithAssumption ==
  \A a, b \in Word :
    /\ Add(a, b) \in Word /\ Sub(a, b) \in Word /\ StoreData(a, b) \in Word
    /\ Arith(ADD_SUB, FALSE, a, b) = Add(a, b)
    /\ Arith(ADD_SUB, TRUE, a, b) = Sub(a, b)
    /\ \A f \in Funct3 :
         LET plain == Arith(f, FALSE, a, b)
             alt == Arith(f, TRUE, a, b)
         IN  /\ plain \in Word /\ alt \in Word
             /\ f \notin {ADD_SUB, SRL_SRA} => alt = plain
             /\ LoadControl(f, a, b) \in Word
             /\ BranchTaken(f, a, b) \in BOOLEAN

Lanes == SUBSET (0..3)

ASSUME StoreAssumption ==
  \A a, b \in Word : /\ \A f \in Funct3 : StoreLanes(f, a) \in Lanes
                     /\ \A lanes \in Lanes : Merge(a, b, lanes) \in Word

(* The transmitter's register is word aligned: what is stored to it is not *)
(* moved to another lane.                                                  *)
ASSUME TxAssumption ==
  \A a, w \in Word : IoReg(a) = "tx" => LowByte(StoreData(a, w)) = LowByte(w)

(* address[30]: fetch from the BIOS.  Region 2 or 3 and 1 or 3: writes to  *)
(* the instruction and the data memory; 1 or 3: reads of the data memory.  *)
InBios(pc) == Region(pc) \in {4, 5, 6, 7, 12, 13, 14, 15}
ToDmem(a) == Region(a) \in {1, 3}
ToImem(a) == Region(a) \in {2, 3}

(* The program counter leaves the BIOS by a jump: reset enters the BIOS,   *)
(* and the last word of the ROM, which alone may be followed by another    *)
(* memory, is no store.                                                    *)
ASSUME BiosAssumption ==
  /\ InBios(RESET_PC)
  /\ \A image \in BiosImages, pc \in Word :
       InBios(pc) /\ ~InBios(Plus4(pc)) => Decode(image[BiosIndex(pc)]).opcode # "STORE"
=============================================================================
