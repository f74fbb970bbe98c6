------------------------------- MODULE NesCpu -------------------------------
(***************************************************************************)
(* The 6502 of the emulator litenes, cpu.c with cpu-addressing.c: the      *)
(* machine of NesBus with the registers PC, SP, A, X, Y, P and the         *)
(* operand op_value, op_address of the instruction at hand. Every handler  *)
(* is an operator from the machine to the machine.                         *)
(***************************************************************************)
EXTENDS NesBus
LOCAL INSTANCE Bitwise

carry_bp == 0
zero_bp == 1
interrupt_bp == 2
decimal_bp == 3
break_bp == 4
unused_bp == 5
overflow_bp == 6
negative_bp == 7

FlagSet(s, bp) == common_bit_set(s.P, bp)
Carry(s) == IF FlagSet(s, carry_bp) THEN 1 ELSE 0
Modify(s, bp, on) == [s EXCEPT !.P = common_modify_bitb(@, bp, on)]
cpu_update_zn_flags(s, value) ==
  Modify(Modify(s, zero_bp, value = 0), negative_bp, value >= 128)

(* The stack. A word is written at the addresses below 0x101 + SP, so that *)
(* an empty stack at SP = 0 reaches back into the zero page.               *)
cpu_stack_pushb(s, data) == [memory_writeb(s, 256 + s.SP, data) EXCEPT !.SP = (@ - 1) % 256]
cpu_stack_pushw(s, data) == [memory_writew(s, 255 + s.SP, data) EXCEPT !.SP = (@ - 2) % 256]
Popped(s, n) == [s EXCEPT !.SP = (@ + n) % 256]
TopByte(s) == memory_readb(s, 256 + s.SP)
TopWord(s) == memory_readw(s, 255 + s.SP)
cpu_nmi_interrupt_address(s) == memory_readw(s, 65530)
cpu_reset_interrupt_address(s) == memory_readw(s, 65532)

(* Addressing modes: operand and program counter. A crossed page costs a   *)
(* cycle where the operand's page is not the page of the next instruction. *)
Operand(s, address, length, crossing) ==
  LET pc == (s.PC + length) % 65536
  IN  [after_readb(s, address) EXCEPT
        !.op_address = address, !.op_value = memory_readb(s, address), !.PC = pc,
        !.op_cycles = @ + (IF crossing /\ address \div 256 # pc \div 256 THEN 1 ELSE 0)]

(* The zero page is read where it is stored, not through the bus.          *)
ZeroPage(s, address) ==
  [s EXCEPT !.op_address = address, !.op_value = Get(s.ram, address),
            !.PC = (@ + 1) % 65536]

(* Mutant: the offset of a branch taken for a number without sign.         *)
Relative_forwards(s) ==
  LET pc == (s.PC + 1) % 65536
  IN  [s EXCEPT !.op_address = pc + memory_readb(s, s.PC), !.PC = pc]

Relative(s) ==
  LET offset == memory_readb(s, s.PC)
      pc == (s.PC + 1) % 65536
      target == pc + offset - (IF offset >= 128 THEN 256 ELSE 0)
  IN  [s EXCEPT !.op_address = target, !.PC = pc,
                !.op_cycles = @ + (IF target \div 256 # pc \div 256 THEN 1 ELSE 0)]

(* A pointer at the end of a page takes its high byte from its beginning.  *)
Indirect(s) ==
  LET arg == memory_readw(s, s.PC)
  IN  [s EXCEPT !.PC = (@ + 2) % 65536,
                !.op_address = IF arg % 256 = 255
                               THEN 256 * memory_readb(s, arg - 255) + memory_readb(s, arg)
                               ELSE memory_readw(s, arg)]

cpu_op_address_mode(s, mode) ==
  LET byte == memory_readb(s, s.PC)
      word == memory_readw(s, s.PC)
      pointer(p) == memory_readb(s, p % 256) + 256 * memory_readb(s, (p + 1) % 256)
  IN  CASE mode = "implied" -> s
        [] mode = "immediate" -> [s EXCEPT !.op_value = byte, !.PC = (@ + 1) % 65536]
        [] mode = "zero_page" -> ZeroPage(s, byte)
        [] mode = "zero_page_x" -> ZeroPage(s, (byte + s.X) % 256)
        [] mode = "zero_page_y" -> ZeroPage(s, (byte + s.Y) % 256)
        [] mode = "absolute" -> Operand(s, word, 2, FALSE)
        [] mode = "absolute_x" -> Operand(s, word + s.X, 2, TRUE)
        [] mode = "absolute_y" -> Operand(s, (word + s.Y) % 65536, 2, TRUE)
        [] mode = "relative" -> Relative(s)
        [] mode = "indirect" -> Indirect(s)
        [] mode = "indirect_x" -> Operand(s, pointer(byte + s.X), 1, FALSE)
        [] mode = "indirect_y" -> Operand(s, (pointer(byte) + s.Y) % 65536, 1, TRUE)

(* Arithmetic; overflow is a result with a sign the operands do not have.  *)
SetA(s, v) == cpu_update_zn_flags([s EXCEPT !.A = v], v)
SetX(s, v) == cpu_update_zn_flags([s EXCEPT !.X = v], v)
SetY(s, v) == cpu_update_zn_flags([s EXCEPT !.Y = v], v)
Negative(v) == v % 256 >= 128
adc(s) ==
  LET result == s.A + s.op_value + Carry(s)
      v == Negative(s.A) = Negative(s.op_value) /\ Negative(s.A) # Negative(result)
  IN  SetA(Modify(Modify(s, carry_bp, result >= 256), overflow_bp, v), result % 256)

(* Mutant: a borrow that was not asked for.                                *)
sbc_borrow(s) == adc([s EXCEPT !.op_value = 255 - @, !.P = common_modify_bitb(@, carry_bp, FALSE)])

sbc(s) ==
  LET result == s.A - s.op_value - (1 - Carry(s))
      v == Negative(s.A) # Negative(s.op_value) /\ Negative(s.A) # Negative(result)
  IN  SetA(Modify(Modify(s, carry_bp, result >= 0), overflow_bp, v), result % 256)

compare(s, reg) ==
  LET result == reg - s.op_value
  IN  Modify(Modify(Modify(s, carry_bp, result >= 0), zero_bp, result = 0),
             negative_bp, Negative(result))

and(s) == SetA(s, s.A & s.op_value)
eor(s) == SetA(s, s.A ^^ s.op_value)
ora(s) == SetA(s, s.A | s.op_value)
bit(s) ==
  LET q == Modify(s, zero_bp, (s.A & s.op_value) = 0)
  IN  [q EXCEPT !.P = (@ % 64) + 64 * (s.op_value \div 64)]

(* Shifts of v: the result and the carry that leaves.                      *)
Shifted(s, op, v) ==
  CASE op = "asl" -> [v |-> (2 * v) % 256, c |-> v >= 128]
    [] op = "lsr" -> [v |-> v \div 2, c |-> v % 2 = 1]
    [] op = "rol" -> [v |-> ((2 * v) % 256) + Carry(s), c |-> v >= 128]
    [] op = "ror" -> [v |-> (v \div 2) + 128 * Carry(s), c |-> v % 2 = 1]
ShiftA(s, op) ==
  LET r == Shifted(s, op, s.A) IN SetA(Modify(s, carry_bp, r.c), r.v)
Store(s, v) == memory_writeb(s, s.op_address, v)
StoreFlags(s, v) == cpu_update_zn_flags(Store([s EXCEPT !.op_value = v], v), v)
Shift(s, op) ==
  LET r == Shifted(s, op, s.op_value) IN StoreFlags(Modify(s, carry_bp, r.c), r.v)

cpu_branch(s, taken) == IF taken THEN [s EXCEPT !.PC = s.op_address % 65536] ELSE s

jsr(s) == [cpu_stack_pushw(s, (s.PC - 1) % 65536) EXCEPT !.PC = s.op_address % 65536]
rts(s) == LET q == Popped(s, 2) IN [q EXCEPT !.PC = (TopWord(q) + 1) % 65536]
brk(s) ==
  LET q == cpu_stack_pushb(cpu_stack_pushw(s, (s.PC - 1) % 65536), s.P)
  IN  [Modify(Modify(q, unused_bp, TRUE), break_bp, TRUE) EXCEPT
         !.PC = cpu_nmi_interrupt_address(s)]

rti(s) ==
  LET q == Popped(s, 1)
      r == Popped(q, 2)
  IN  [Modify([r EXCEPT !.P = TopByte(q)], unused_bp, TRUE) EXCEPT !.PC = TopWord(r)]
php(s) == cpu_stack_pushb(s, common_modify_bitb(common_modify_bitb(s.P, 4, TRUE), 5, TRUE))
plp(s) ==
  LET q == Popped(s, 1)
  IN  [q EXCEPT !.P = common_modify_bitb(common_modify_bitb(TopByte(q), 4, FALSE), 5, TRUE)]

(* Both a write and an operation of another instruction on the result:     *)
(* the extended instruction set. dcm and ins write before they compare or  *)
(* subtract; axa also takes the address's high byte.                       *)
dcm(s) ==
  LET v == (s.op_value - 1) % 256 IN compare([Store(s, v) EXCEPT !.op_value = v], s.A)
ins(s) ==
  LET v == (s.op_value + 1) % 256 IN sbc([Store(s, v) EXCEPT !.op_value = v])

cpu_op_handler(s, op) ==
  CASE op = "adc" -> adc(s)
    [] op = "sbc" -> sbc(s)
    [] op = "and" -> and(s)
    [] op = "eor" -> eor(s)
    [] op = "ora" -> ora(s)
    [] op = "bit" -> bit(s)
    [] op \in {"asl", "lsr", "rol", "ror"} -> Shift(s, op)
    [] op = "asla" -> ShiftA(s, "asl")
    [] op = "lsra" -> ShiftA(s, "lsr")
    [] op = "rola" -> ShiftA(s, "rol")
    [] op = "rora" -> ShiftA(s, "ror")
    [] op = "lda" -> SetA(s, s.op_value)
    [] op = "ldx" -> SetX(s, s.op_value)
    [] op = "ldy" -> SetY(s, s.op_value)
    [] op = "sta" -> Store(s, s.A)
    [] op = "stx" -> Store(s, s.X)
    [] op = "sty" -> Store(s, s.Y)
    [] op = "tax" -> SetX(s, s.A)
    [] op = "txa" -> SetA(s, s.X)
    [] op = "tay" -> SetY(s, s.A)
    [] op = "tya" -> SetA(s, s.Y)
    [] op = "tsx" -> SetX(s, s.SP)
    [] op = "txs" -> [s EXCEPT !.SP = s.X]
    [] op = "bcs" -> cpu_branch(s, FlagSet(s, carry_bp))
    [] op = "beq" -> cpu_branch(s, FlagSet(s, zero_bp))
    [] op = "bmi" -> cpu_branch(s, FlagSet(s, negative_bp))
    [] op = "bvs" -> cpu_branch(s, FlagSet(s, overflow_bp))
    [] op = "bcc" -> cpu_branch(s, ~FlagSet(s, carry_bp))
    [] op = "bne" -> cpu_branch(s, ~FlagSet(s, zero_bp))
    [] op = "bpl" -> cpu_branch(s, ~FlagSet(s, negative_bp))
    [] op = "bvc" -> cpu_branch(s, ~FlagSet(s, overflow_bp))
    [] op = "jmp" -> cpu_branch(s, TRUE)
    [] op = "jsr" -> jsr(s)
    [] op = "rts" -> rts(s)
    [] op = "brk" -> brk(s)
    [] op = "rti" -> rti(s)
    [] op = "clc" -> Modify(s, carry_bp, FALSE)
    [] op = "cld" -> Modify(s, decimal_bp, FALSE)
    [] op = "cli" -> Modify(s, interrupt_bp, FALSE)
    [] op = "clv" -> Modify(s, overflow_bp, FALSE)
    [] op = "sec" -> Modify(s, carry_bp, TRUE)
    [] op = "sed" -> Modify(s, decimal_bp, TRUE)
    [] op = "sei" -> Modify(s, interrupt_bp, TRUE)
    [] op = "cmp" -> compare(s, s.A)
    [] op = "cpx" -> compare(s, s.X)
    [] op = "cpy" -> compare(s, s.Y)
    [] op = "inc" -> StoreFlags(s, (s.op_value + 1) % 256)
    [] op = "inx" -> SetX(s, (s.X + 1) % 256)
    [] op = "iny" -> SetY(s, (s.Y + 1) % 256)
    [] op = "dec" -> StoreFlags(s, (s.op_value - 1) % 256)
    [] op = "dex" -> SetX(s, (s.X - 1) % 256)
    [] op = "dey" -> SetY(s, (s.Y - 1) % 256)
    [] op = "php" -> php(s)
    [] op = "pha" -> cpu_stack_pushb(s, s.A)
    [] op = "pla" -> LET q == Popped(s, 1) IN SetA(q, TopByte(q))
    [] op = "plp" -> plp(s)
    [] op = "aso" -> ora(Shift(s, "asl"))
    [] op = "rla" -> and(Shift(s, "rol"))
    [] op = "lse" -> eor(Shift(s, "lsr"))
    [] op = "rra" -> adc(Shift(s, "ror"))
    [] op = "axa" -> Store(s, s.A & s.X & (s.op_address \div 256))
    [] op = "axs" -> Store(s, s.A & s.X)
    [] op = "dcm" -> dcm(s)
    [] op = "ins" -> ins(s)
    [] op = "lax" -> SetA([s EXCEPT !.X = s.op_value], s.op_value)
    [] OTHER -> s                        \* nop and ____FE____

(* The opcode table of cpu_init: opcodes 32 apart share mode and cycles,   *)
(* but for the ones listed alone. An opcode of neither has no handler.     *)
Column(base, mode, cycles, ops) ==
  {[code |-> base + 32 * (i - 1), op |-> ops[i], mode |-> mode, cycles |-> cycles]
     : i \in {j \in 1..8 : ops[j] # ""}}
Alone(codes, mode, op, cycles) ==
  {[code |-> c, op |-> op, mode |-> mode, cycles |-> cycles] : c \in codes}

Alu == <<"ora", "and", "eor", "adc", "sta", "lda", "cmp", "sbc">>
Loading == [Alu EXCEPT ![5] = ""]
Shifts == <<"asl", "rol", "lsr", "ror", "", "", "dec", "inc">>
Both == <<"aso", "rla", "lse", "rra", "", "", "dcm", "ins">>
Extension == <<"fe", "fe", "fe", "fe", "", "", "fe", "fe">>
Index == <<"", "bit", "", "", "sty", "ldy", "cpy", "cpx">>

Columns ==
  UNION {Column(1, "indirect_x", 6, Alu), Column(5, "zero_page", 3, Alu),
         Column(9, "immediate", 2, Loading), Column(13, "absolute", 4, [Alu EXCEPT ![2] = ""]),
         Column(17, "indirect_y", 5, Loading), Column(21, "zero_page_x", 4, Alu),
         Column(25, "absolute_y", 4, Loading), Column(29, "absolute_x", 4, Loading),
         Column(6, "zero_page", 5, Shifts), Column(14, "absolute", 6, Shifts),
         Column(22, "zero_page_x", 6, Shifts), Column(30, "absolute_x", 7, Shifts),
         Column(10, "implied", 2, <<"asla", "rola", "lsra", "rora", "txa", "tax", "dex", "nop">>),
         Column(0, "immediate", 2, [Index EXCEPT ![2] = "", ![5] = ""]),
         Column(4, "zero_page", 3, Index), Column(12, "absolute", 4, Index),
         Column(8, "implied", 2, <<"", "", "", "", "dey", "tay", "iny", "inx">>),
         Column(24, "implied", 2, <<"clc", "sec", "cli", "sei", "tya", "clv", "cld", "sed">>),
         Column(16, "relative", 2, <<"bpl", "bmi", "bvc", "bvs", "bcc", "bcs", "bne", "beq">>)}

Singles ==
  UNION {Alone({0}, "implied", "brk", 7), Alone({32}, "absolute", "jsr", 6),
         Alone({64}, "implied", "rti", 6), Alone({96}, "implied", "rts", 6),
         Alone({8}, "implied", "php", 3), Alone({40}, "implied", "plp", 4),
         Alone({72}, "implied", "pha", 3), Alone({104}, "implied", "pla", 4),
         Alone({76}, "absolute", "jmp", 3), Alone({108}, "indirect", "jmp", 5),
         Alone({45}, "absolute", "and", 2), Alone({145}, "indirect_y", "sta", 6),
         Alone({153}, "absolute_y", "sta", 5), Alone({157}, "absolute_x", "sta", 5),
         Alone({134}, "zero_page", "stx", 3), Alone({142}, "absolute", "stx", 4),
         Alone({150}, "zero_page_y", "stx", 4), Alone({148}, "zero_page_x", "sty", 4),
         Alone({180}, "zero_page_x", "ldy", 4), Alone({188}, "absolute_x", "ldy", 4),
         Alone({162}, "immediate", "ldx", 2), Alone({166}, "zero_page", "ldx", 3),
         Alone({174}, "absolute", "ldx", 4), Alone({182}, "zero_page_y", "ldx", 4),
         Alone({190}, "absolute_y", "ldx", 4), Alone({154}, "implied", "txs", 2),
         Alone({186}, "implied", "tsx", 2)}

(* The extended set, and the instructions that only take their operand.    *)
Extended ==
  UNION {Column(3, "indirect_x", 8, Both), Column(7, "zero_page", 5, Both),
         Column(15, "absolute", 6, Both), Column(19, "indirect_y", 8, Both),
         Column(23, "zero_page_x", 6, Both), Column(27, "absolute_y", 7, Both),
         Column(31, "absolute_x", 7, Both),
         Alone({131}, "indirect_x", "axs", 6), Alone({135}, "zero_page", "axs", 3),
         Alone({143}, "absolute", "axs", 4), Alone({151}, "zero_page_y", "axs", 4),
         Alone({147}, "indirect_y", "axa", 6), Alone({159}, "absolute_y", "axa", 5),
         Alone({163}, "indirect_x", "lax", 6), Alone({167}, "zero_page", "lax", 3),
         Alone({175}, "absolute", "lax", 4), Alone({179}, "indirect_y", "lax", 5),
         Alone({183}, "zero_page_y", "lax", 4), Alone({191}, "absolute_y", "lax", 4),
         Alone({235}, "immediate", "sbc", 2),
         Column(20, "zero_page_x", 1, Extension), Column(26, "implied", 1, Extension),
         Column(28, "absolute_x", 1, Extension), Alone({4, 68, 100}, "zero_page", "fe", 1),
         Alone({12}, "absolute", "fe", 1), Alone({128}, "immediate", "fe", 1)}

Instructions == Columns \cup Singles \cup Extended
Opcodes == {i.code : i \in Instructions}
Instruction == [c \in Opcodes |-> CHOOSE i \in Instructions : i.code = c]

(* One turn of cpu_run: the machine after an instruction, and its cycles.  *)
(* Instructions are fetched from memory, never from a register.            *)
Step(s) ==
  LET code == memory_readb(s, s.PC)
      q == [s EXCEPT !.PC = (@ + 1) % 65536, !.op_cycles = 0]
      i == Instruction[code]
  IN  IF code \in Opcodes THEN cpu_op_handler(cpu_op_address_mode(q, i.mode), i.op) ELSE q
(* Mutant: only the cycles beyond those of the table are counted.          *)
StepCycles_extra(s, next) == next.op_cycles
StepCycles(s, next) ==
  LET code == memory_readb(s, s.PC)
  IN  IF code \in Opcodes THEN Instruction[code].cycles + next.op_cycles ELSE 0

cpu_init(s) == [s EXCEPT !.P = 36, !.SP = 0, !.A = 0, !.X = 0, !.Y = 0]
cpu_reset(s) == [Modify(s, interrupt_bp, TRUE) EXCEPT
                   !.PC = cpu_reset_interrupt_address(s), !.SP = (@ - 3) % 256]

(* The interrupt flag is set, and the unused one cleared, before the flags *)
(* are saved.                                                              *)
cpu_interrupt(s) ==
  LET p == Modify(Modify(s, interrupt_bp, TRUE), unused_bp, FALSE)
  IN  IF ~ppu_generates_nmi(s.ppu) THEN s
      ELSE [cpu_stack_pushb(cpu_stack_pushw(p, s.PC), p.P) EXCEPT
              !.PC = cpu_nmi_interrupt_address(s)]
=============================================================================
