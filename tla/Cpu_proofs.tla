----------------------------- MODULE Cpu_proofs -----------------------------
(***************************************************************************)
(* The pipeline keeps its types, executes what memory holds, commits one   *)
(* instruction per cycle, and implements the instruction set, for every    *)
(* word size, memory size and program that Machine's assumptions allow:    *)
(* first what the pipeline keeps to itself, then CpuSpec => ImplementsIsa. *)
(***************************************************************************)
EXTENDS Cpu, TLAPS

(* What the assumptions on the arithmetic give, one fact at a time.        *)
LEMMA Closed ==
  ASSUME NEW a \in Word, NEW b \in Word, NEW f \in Funct3, NEW alt \in BOOLEAN
  PROVE  /\ Add(a, b) \in Word /\ Sub(a, b) \in Word /\ StoreData(a, b) \in Word
         /\ Arith(f, alt, a, b) \in Word /\ LoadControl(f, a, b) \in Word
         /\ BranchTaken(f, a, b) \in BOOLEAN
         /\ Plus4(a) \in Word /\ Inc(a) \in Word /\ LowByte(a) \in Byte
         /\ Decode(a) \in Instr
  <1>1. /\ Plus4(a) \in Word /\ Inc(a) \in Word /\ LowByte(a) \in Byte
        /\ Decode(a) \in Instr
    BY WordAssumption
  <1>2. Add(a, b) \in Word /\ Sub(a, b) \in Word /\ StoreData(a, b) \in Word
    BY ArithAssumption
  <1>3. /\ Arith(f, FALSE, a, b) \in Word /\ Arith(f, TRUE, a, b) \in Word
        /\ LoadControl(f, a, b) \in Word
        /\ BranchTaken(f, a, b) \in BOOLEAN
    BY ArithAssumption
  <1>4. alt = TRUE \/ alt = FALSE
    OBVIOUS
  <1>. QED
    BY <1>1, <1>2, <1>3, <1>4

(* The values on the wires of the write-back stage are words.              *)
LEMMA WbWires ==
  ASSUME CpuTypeOK
  PROVE  wd \in Word
  <1>1. io_out \in Word
    BY WordAssumption DEF CpuTypeOK, io_out, uart_tx_data_in_ready
  <1>2. mem_out \in Word
    BY <1>1, WordAssumption DEF CpuTypeOK, mem_out
  <1>3. ld_out \in Word
    BY <1>2, ArithAssumption DEF CpuTypeOK, ld_out
  <1>. QED
    BY <1>3, WordAssumption DEF CpuTypeOK, wd

(* The values on the wires of the execute stage have their types.          *)
LEMMA ExWires ==
  ASSUME CpuTypeOK
  PROVE  /\ d \in Instr /\ RS1 \in Word /\ RS2 \in Word
         /\ alu_sum \in Word /\ alu_out \in Word
         /\ csr_din \in Word /\ wdata \in Word /\ wbe \in Lanes
  <1>1. d \in Instr
    BY WordAssumption DEF CpuTypeOK, d, inst
  <1>2. RS1 \in Word /\ RS2 \in Word
    BY <1>1, WbWires DEF CpuTypeOK, RS1, RS2, Forwarded, Instr
  <1>3. alu_srca \in Word /\ alu_srcb \in Word
    BY <1>1, <1>2 DEF CpuTypeOK, alu_srca, alu_srcb, Instr
  <1>4. alu_sum \in Word
    BY <1>3, ArithAssumption DEF alu_sum
  <1>5. op \in Funct3 /\ op3 \in BOOLEAN
    BY <1>1 DEF op, op3, Instr, Funct3, ADD_SUB, r_type, i_type
  <1>6. alu_out \in Word
    BY <1>3, <1>4, <1>5, Closed DEF alu_out
  <1>7. wdata \in Word /\ wbe \in Lanes
    BY <1>1, <1>2, <1>4, ArithAssumption, StoreAssumption DEF wdata, wbe, Instr
  <1>. QED
    BY <1>1, <1>2, <1>4, <1>6, <1>7 DEF csr_din, Instr

(* A byte-enabled write keeps a memory of words.                           *)
LEMMA MemoryWrite ==
  ASSUME CpuTypeOK, NEW S, NEW mem \in [S -> Word], NEW enable \in BOOLEAN, NEW i \in S
  PROVE  Written(mem, enable, i) \in [S -> Word]
  BY ExWires, StoreAssumption DEF Written

(* CpuTypeOK is inductive.                                                 *)
LEMMA TypeInit == CpuInit => CpuTypeOK
  <1>. SUFFICES ASSUME CpuInit PROVE CpuTypeOK
    OBVIOUS
  <1>. USE DEF CpuInit
  <1>1. /\ rf \in [Reg -> Word] /\ dmem \in [DmemWord -> Word] /\ imem \in [ImemWord -> Word]
        /\ bios \in [BiosWord -> Word]
    BY WordAssumption
  <1>2. bios_douta \in Word /\ imem_doutb \in Word
    BY <1>1, WordAssumption
  <1>3. rf_we_ex \in BOOLEAN /\ jmp_type_ex \in BOOLEAN /\ ld_type_ex \in BOOLEAN
        /\ tx_busy \in BOOLEAN /\ has_byte \in BOOLEAN
    OBVIOUS
  <1>. QED
    BY <1>1, <1>2, <1>3, WordAssumption DEF CpuTypeOK, Funct3

(* Every register is loaded from wires of its type.                        *)
LEMMA TypeStep == CpuTypeOK /\ [CpuNext]_cpuVars => CpuTypeOK'
  <1>1. ASSUME CpuTypeOK, NEW rst \in BOOLEAN, NEW ended \in BOOLEAN, NEW done \in BOOLEAN,
               NEW byte \in RxByte, NEW now \in Us, Cycle(rst, ended, done, byte, now)
        PROVE  CpuTypeOK'
    <2>. USE <1>1 DEF Cycle
    <2>1. pc_in(rst) \in Word
      BY ExWires, WordAssumption DEF pc_in, CpuTypeOK
    <2>2. /\ pc_if' \in Word /\ bios_douta' \in Word /\ imem_doutb' \in Word
      BY <2>1, WordAssumption
         DEF Fetch, MemoryAccess, BiosMem, InstMem, RegisterR, CpuTypeOK
    <2>3. /\ rd_ex' \in Reg /\ rf_we_ex' \in BOOLEAN /\ jmp_type_ex' \in BOOLEAN
          /\ ld_type_ex' \in BOOLEAN /\ alu_ex' \in Word /\ pc_ex' \in Word
          /\ funct3_ex' \in Funct3 /\ csr_q' \in Word
      <3>1. st_type \in BOOLEAN /\ br_type \in BOOLEAN /\ jmp_type \in BOOLEAN /\ ld_type \in BOOLEAN
        BY DEF st_type, br_type, jmp_type, ld_type
      <3>2. rf_we_ex' \in BOOLEAN /\ jmp_type_ex' \in BOOLEAN /\ ld_type_ex' \in BOOLEAN
        BY <3>1, Zenon DEF Execute, RegisterR
      <3>3. /\ rd_ex' \in Reg /\ alu_ex' \in Word /\ pc_ex' \in Word
            /\ funct3_ex' \in Funct3 /\ csr_q' \in Word
        BY ExWires, WordAssumption
           DEF Execute, RegisterR, RegisterRCE, CpuTypeOK, Instr, Funct3
      <3>. QED
        BY <3>2, <3>3
    <2>4. instCount' \in Word /\ cycleCount' \in Word
      BY WordAssumption DEF Counters, RegisterR, RegisterRCE, CpuTypeOK
    <2>5. /\ dmem' \in [DmemWord -> Word] /\ imem' \in [ImemWord -> Word]
          /\ dmem_douta' \in Word /\ bios_doutb' \in Word /\ bios' \in BiosImages
      <3>1. dmem_we \in BOOLEAN /\ imem_we \in BOOLEAN
        BY DEF dmem_we, imem_we, st_type
      <3>. QED
        BY <3>1, ExWires, MemoryWrite, WordAssumption
           DEF MemoryAccess, BiosMem, DataMem, InstMem, CpuTypeOK
    <2>6. rf' \in [Reg -> Word]
      BY WbWires DEF WriteBack, CpuTypeOK
    <2>7. /\ tx_busy' \in BOOLEAN /\ tx_data' \in Byte /\ has_byte' \in BOOLEAN
          /\ rx_data' \in RxByte
      BY ExWires, WordAssumption
         DEF Uart, RegisterCE, RegisterRCE, CpuTypeOK, uart_tx_data_in
    <2>. QED
      BY <2>2, <2>3, <2>4, <2>5, <2>6, <2>7 DEF CpuTypeOK
  <1>2. CpuTypeOK /\ UNCHANGED cpuVars => CpuTypeOK'
    BY DEF CpuTypeOK, cpuVars, fetchRegs, memories, wbRegs, uart
  <1>. QED
    BY <1>1, <1>2 DEF CpuNext

(* Every register, memory and device latch keeps its type.                 *)
THEOREM CpuTypeCorrect == CpuSpec => []CpuTypeOK
  BY TypeInit, TypeStep, PTL DEF CpuSpec

-----------------------------------------------------------------------------
(* The instruction executed is the one memory holds: only code in the BIOS *)
(* writes the instruction memory, and it leaves the BIOS by jumps, in      *)
(* which nothing is stored.                                                *)
FetchInv == CpuTypeOK /\ FetchCoherent

(* The first instruction is in the ROM's output register.                  *)
LEMMA FetchInit == CpuInit => FetchCoherent
  BY DEF CpuInit, FetchCoherent, inst

(* The address fetched is not written by the instruction in EX.            *)
LEMMA FetchStep == FetchInv /\ [CpuNext]_cpuVars => FetchCoherent'
  <1>1. ASSUME FetchInv, NEW rst \in BOOLEAN, NEW ended \in BOOLEAN, NEW done \in BOOLEAN,
               NEW byte \in RxByte, NEW now \in Us, Cycle(rst, ended, done, byte, now)
        PROVE  FetchCoherent'
    <2>1. /\ pc_if' = pc_in(rst) /\ bios' = bios
          /\ bios_douta' = bios[BiosIndex(pc_if')] /\ imem_doutb' = imem[ImemIndex(pc_if')]
      BY <1>1 DEF Cycle, Fetch, MemoryAccess, BiosMem, InstMem, RegisterR, pc_in
    <2>2. CASE InBios(pc_if')
      BY <2>1, <2>2 DEF FetchCoherent, inst
    <2>3. CASE ~InBios(pc_if') /\ ~imem_we
      BY <1>1, <2>1, <2>3 DEF FetchCoherent, inst, Cycle, MemoryAccess, InstMem, Written
    <2>4. CASE ~InBios(pc_if') /\ imem_we
      <3>1. st_type /\ InBios(pc_if)
        BY <2>4 DEF imem_we
      <3>2. ~jmp_flag
        BY <3>1 DEF st_type, jmp_flag, jmp_type, br_type
      <3>3. pc_if' = Plus4(pc_if)
        BY <2>1, <2>4, <3>2, BiosAssumption DEF pc_in
      <3>4. Decode(bios[BiosIndex(pc_if)]).opcode = "STORE"
        BY <1>1, <3>1 DEF FetchInv, FetchCoherent, st_type, d
      <3>. QED
        BY <1>1, <2>4, <3>1, <3>3, <3>4, BiosAssumption DEF FetchInv, CpuTypeOK
    <2>. QED
      BY <2>2, <2>3, <2>4
  <1>2. FetchInv /\ UNCHANGED cpuVars => FetchCoherent'
    BY DEF FetchInv, FetchCoherent, inst, cpuVars, fetchRegs, memories
  <1>. QED
    BY <1>1, <1>2 DEF CpuNext

(* Types and fetch coherence hold at every edge.                           *)
LEMMA FetchInvariant == CpuSpec => []FetchInv
  BY TypeInit, TypeStep, FetchInit, FetchStep, PTL DEF CpuSpec, FetchInv

(* No instruction is executed stale, for every program whose BIOS is as    *)
(* BiosAssumption says: cpu.v needs neither stall nor flush.               *)
THEOREM FetchAlwaysCoherent == CpuSpec => []FetchCoherent
  BY FetchInvariant, PTL DEF FetchInv

(* The two counters are reset together and step together.                  *)
THEOREM OneInstructionPerCycle == CpuSpec => []OnePerCycle
  <1>1. CpuInit => OnePerCycle
    BY DEF CpuInit, OnePerCycle
  <1>2. OnePerCycle /\ [CpuNext]_cpuVars => OnePerCycle'
    BY DEF OnePerCycle, CpuNext, Cycle, Counters, RegisterR, RegisterRCE, cpuVars
  <1>. QED
    BY <1>1, <1>2, PTL DEF CpuSpec

-----------------------------------------------------------------------------
(***************************************************************************)
(* Under the refinement mapping of Cpu, every clock edge of the pipeline   *)
(* is one whole instruction of Rv32i, or its Reset.  One lemma per         *)
(* instruction class says so; each rests on FetchInv (the instruction in   *)
(* EX is the one memory holds) and on what one edge does to the mapped     *)
(* registers (RegsStep) and to the device (DeviceStep).                    *)
(***************************************************************************)

(* The architectural registers and the byte the software may still load.   *)
regs_if == [r \in Reg |-> Forwarded(r)]
waiting == has_byte /\ ~uart_rx_data_out_ready
reads_rx == ld_type /\ IoReg(alu_out) = "rx"

(* The wires that FetchInv makes words, registers and instructions.        *)
LEMMA Types == FetchInv => CpuTypeOK /\ d \in Instr /\ RS1 \in Word /\ RS2 \in Word
                           /\ alu_out \in Word /\ alu_sum \in Word
  BY ExWires DEF FetchInv

(* The decoder of the pipeline sees the instruction of the architecture.   *)
LEMMA CurrentIsDecoded == FetchInv => ISA!Current = d
  BY DEF ISA!Current, FetchInv, FetchCoherent, d, ISA!InBios, InBios

(* A source register reads what the architecture says it holds.            *)
LEMMA Operands ==
  ASSUME FetchInv
  PROVE  regs_if[d.rs1] = RS1 /\ regs_if[d.rs2] = RS2
  BY Types DEF regs_if, RS1, RS2, Instr

(* One edge moves the pending write-back into the register file ...        *)
LEMMA RegsSettle ==
  ASSUME CpuTypeOK, WriteBack
  PROVE  rf' = regs_if
  <1>1. wa \in Reg /\ rf \in [Reg -> Word]
    BY DEF CpuTypeOK, wa
  <1>. QED
    BY <1>1 DEF WriteBack, regs_if, Forwarded

(* ... and makes the result of the executed instruction the pending one.   *)
LEMMA RegsStep ==
  ASSUME CpuTypeOK, WriteBack, Execute(FALSE)
  PROVE  regs_if' = IF ~(st_type \/ br_type) /\ d.rd # 0
                    THEN [regs_if EXCEPT ![d.rd] = wd'] ELSE regs_if
  <1>1. wa' = d.rd /\ we' = (~(st_type \/ br_type) /\ d.rd # 0)
    BY DEF Execute, RegisterR, wa, we
  <1>2. rf' = regs_if
    BY RegsSettle
  <1>3. regs_if' = [r \in Reg |-> IF we' /\ wa' = r THEN wd' ELSE rf'[r]]
    BY DEF regs_if, Forwarded
  <1>. QED
    BY <1>1, <1>2, <1>3, ExWires DEF regs_if, Instr

(* A reset discards the executed instruction, not the pending write-back.  *)
LEMMA RegsReset ==
  ASSUME CpuTypeOK, WriteBack, Execute(TRUE)
  PROVE  regs_if' = regs_if
  <1>1. ~we'
    BY DEF Execute, RegisterR, we
  <1>2. rf' = regs_if
    BY RegsSettle
  <1>. QED
    BY <1>1, <1>2 DEF regs_if, Forwarded

(* The value written back.                                                 *)
LEMMA Result ==
  ASSUME Execute(FALSE)
  PROVE  wd' = CASE jmp_type -> Plus4(pc_if)
                 [] ~jmp_type /\ ld_type -> LoadControl(d.funct3, alu_out, mem_out')
                 [] OTHER -> alu_out
  BY DEF Execute, RegisterR, wd, ld_out

(* A byte that waits for the software is there until a load takes it.      *)
LEMMA ByteWaits ==
  ASSUME CpuTypeOK, NEW rst \in BOOLEAN, NEW ended \in BOOLEAN, NEW done \in BOOLEAN, NEW byte,
         Uart(rst, ended, done, byte), Execute(rst)
  PROVE  /\ waiting => has_byte'
         /\ waiting' = (has_byte' /\ ~(~rst /\ reads_rx))
  <1>1. waiting => has_byte'
    BY DEF Uart, RegisterRCE, waiting, CpuTypeOK
  <1>2. uart_rx_data_out_ready' = (~rst /\ reads_rx)
    <2>1. CASE rst
      BY <2>1 DEF Execute, RegisterR, uart_rx_data_out_ready
    <2>2. CASE ~rst
      BY <2>2 DEF Execute, RegisterR, uart_rx_data_out_ready, reads_rx
    <2>. QED
      BY <2>1, <2>2
  <1>. QED
    BY <1>1, <1>2 DEF waiting

(* The UART over a cycle, as the software sees it.                         *)
LEMMA DeviceStep ==
  ASSUME CpuTypeOK, NEW ended \in BOOLEAN, NEW done \in BOOLEAN, NEW byte \in RxByte, NEW now \in Us,
         Cycle(FALSE, ended, done, byte, now)
  PROVE  ISA!DeviceMoves(uart_tx_data_in_valid, uart_tx_data_in, reads_rx, has_byte')
  <1>1. (waiting => has_byte') /\ waiting' = (has_byte' /\ ~reads_rx)
    BY ByteWaits DEF Cycle
  <1>2. IF uart_tx_data_in_valid /\ ~tx_busy
        THEN tx_busy' = TRUE /\ tx_data' = uart_tx_data_in
        ELSE tx_busy' \in {tx_busy, FALSE} /\ UNCHANGED tx_data
    BY DEF Cycle, Uart, RegisterCE, uart_tx_data_in_ready, CpuTypeOK
  <1>3. rx_data' \in RxByte /\ us' \in Us
    BY DEF Cycle, Uart
  <1>. QED
    BY <1>1, <1>2, <1>3 DEF ISA!DeviceMoves, waiting

(* The same for an instruction that neither loads nor stores.              *)
LEMMA DeviceIdle ==
  ASSUME CpuTypeOK, NEW ended \in BOOLEAN, NEW done \in BOOLEAN, NEW byte \in RxByte, NEW now \in Us,
         Cycle(FALSE, ended, done, byte, now), ~st_type, ~ld_type
  PROVE  ISA!DeviceIdles
  <1>1. ISA!DeviceMoves(FALSE, uart_tx_data_in, FALSE, has_byte')
    <2>1. uart_tx_data_in_valid = FALSE /\ reads_rx = FALSE
      BY DEF uart_tx_data_in_valid, reads_rx
    <2>. QED
      BY <2>1, DeviceStep
  <1>2. ISA!DeviceMoves(FALSE, tx_data, FALSE, has_byte')
    BY <1>1 DEF ISA!DeviceMoves
  <1>3. has_byte' \in BOOLEAN
    BY DEF Cycle, Uart, RegisterRCE, CpuTypeOK
  <1>. QED
    BY <1>2, <1>3 DEF ISA!DeviceIdles

(* An instruction that is no store leaves the memories alone and counts.   *)
LEMMA NoStoreStep ==
  ASSUME CpuTypeOK, NEW ended, NEW done, NEW byte, NEW now,
         Cycle(FALSE, ended, done, byte, now), ~st_type
  PROVE  ISA!NoStore
  <1>1. ~dmem_we /\ ~imem_we /\ ~counterRst(FALSE)
    BY DEF dmem_we, imem_we, counterRst
  <1>. QED
    BY <1>1 DEF ISA!NoStore, Cycle, MemoryAccess, BiosMem, DataMem, InstMem, Written,
           Counters, RegisterRCE

(* An instruction that only computes: alu_out to rd, on to the next.       *)
LEMMA ComputeStep ==
  ASSUME FetchInv, NEW ended \in BOOLEAN, NEW done \in BOOLEAN, NEW byte \in RxByte, NEW now \in Us,
         Cycle(FALSE, ended, done, byte, now),
         d.opcode \in {"LUI", "AUIPC", "ARI_RTYPE", "ARI_ITYPE", "CSR", "OTHER"}
  PROVE  /\ ISA!SetReg(d.rd, alu_out) /\ pc_if' = Plus4(pc_if)
         /\ d.opcode # "CSR" => UNCHANGED csr_q
         /\ ISA!NoStore /\ ISA!DeviceIdles
  <1>1. ~st_type /\ ~br_type /\ ~ld_type /\ ~jmp_type
    BY DEF st_type, br_type, ld_type, jmp_type
  <1>2. wd' = alu_out
    BY <1>1, Result DEF Cycle
  <1>3. ISA!SetReg(d.rd, alu_out)
    BY <1>1, <1>2, RegsStep, Types DEF Cycle, ISA!SetReg, regs_if
  <1>4. pc_if' = Plus4(pc_if)
    BY <1>1 DEF Cycle, Fetch, RegisterR, pc_in, jmp_flag
  <1>5. d.opcode # "CSR" => UNCHANGED csr_q
    BY DEF Cycle, Execute, RegisterRCE, csr_type
  <1>. QED
    BY <1>1, <1>3, <1>4, <1>5, NoStoreStep, DeviceIdle, Types

-----------------------------------------------------------------------------
(* The ALU adds and subtracts with its adder and ignores bit 30 elsewhere. *)
LEMMA ArithFacts ==
  ASSUME NEW a \in Word, NEW b \in Word
  PROVE  /\ Arith(ADD_SUB, FALSE, a, b) = Add(a, b)
         /\ Arith(ADD_SUB, TRUE, a, b) = Sub(a, b)
         /\ \A f \in Funct3 \ {ADD_SUB, SRL_SRA} : Arith(f, TRUE, a, b) = Arith(f, FALSE, a, b)
  <1>1. Arith(ADD_SUB, FALSE, a, b) = Add(a, b) /\ Arith(ADD_SUB, TRUE, a, b) = Sub(a, b)
    BY ArithAssumption
  <1>2. \A f \in Funct3 : f \notin {ADD_SUB, SRL_SRA}
                          => Arith(f, TRUE, a, b) = Arith(f, FALSE, a, b)
    BY ArithAssumption, Zenon
  <1>. QED
    BY <1>1, <1>2

(* alu_op and the operand selectors give what Op asks for.                 *)
LEMMA ArithOp ==
  ASSUME FetchInv, r_type
  PROVE  alu_out = Arith(d.funct3, d.bit30, RS1, RS2)
  <1>1. op = d.funct3 /\ op3 = d.bit30 /\ alu_srca = RS1 /\ alu_srcb = RS2 /\ ~lui_type
    <2>1. op = d.funct3 /\ alu_srca = RS1 /\ alu_srcb = RS2 /\ ~lui_type
      BY DEF op, alu_srca, alu_srcb, r_type, lui_type, br_type, auipc_type
    <2>2. ~i_type /\ d.bit30 \in BOOLEAN
      BY Types DEF r_type, i_type, Instr
    <2>3. op3 = d.bit30
      BY <2>2 DEF op3
    <2>. QED
      BY <2>1, <2>3
  <1>2. CASE d.funct3 = ADD_SUB /\ d.bit30
    <2>1. d.bit30 = TRUE
      BY <1>2, Types DEF Instr
    <2>2. alu_out = Sub(RS1, RS2)
      BY <1>1, <1>2 DEF alu_out, alu_sum
    <2>. QED
      BY <1>2, <2>1, <2>2, Types, ArithFacts
  <1>3. CASE d.funct3 = ADD_SUB /\ ~d.bit30
    <2>1. d.bit30 = FALSE
      BY <1>3, Types DEF Instr
    <2>2. alu_out = Add(RS1, RS2)
      BY <1>1, <1>3 DEF alu_out, alu_sum
    <2>3. Arith(ADD_SUB, FALSE, RS1, RS2) = Add(RS1, RS2)
      BY Types, ArithFacts
    <2>. QED
      BY <1>3, <2>1, <2>2, <2>3, Zenon
  <1>4. CASE d.funct3 # ADD_SUB
    <2>1. op = d.funct3 /\ ~lui_type
      BY <1>1
    <2>2. alu_out = Arith(op, op3, alu_srca, alu_srcb)
      BY <1>4, <2>1, Zenon DEF alu_out
    <2>. QED
      BY <1>1, <2>2, Zenon
  <1>. QED
    BY <1>2, <1>3, <1>4

(* ... and OpImm: bit 30 is a bit of the immediate except in a right shift. *)
LEMMA ArithImm ==
  ASSUME FetchInv, i_type
  PROVE  alu_out = Arith(d.funct3, d.funct3 = SRL_SRA /\ d.bit30, RS1, d.imm)
  <1>1. op = d.funct3 /\ alu_srca = RS1 /\ alu_srcb = d.imm /\ ~lui_type
    BY DEF op, alu_srca, alu_srcb, i_type, r_type, lui_type, br_type, auipc_type
  <1>2. op3 = (d.funct3 # ADD_SUB /\ d.bit30)
    BY DEF op3, i_type, r_type
  <1>3. CASE d.funct3 = ADD_SUB
    <2>0. d.funct3 # SRL_SRA
      BY <1>3 DEF SRL_SRA, ADD_SUB
    <2>1. (d.funct3 = SRL_SRA /\ d.bit30) = FALSE /\ op3 = FALSE
      BY <1>2, <1>3, <2>0, Zenon
    <2>2. d.imm \in Word
      BY Types DEF Instr
    <2>3. alu_out = Add(RS1, d.imm)
      BY <1>1, <1>3, <2>1 DEF alu_out, alu_sum
    <2>. QED
      BY <1>3, <2>1, <2>2, <2>3, Types, ArithFacts
  <1>4. CASE d.funct3 = SRL_SRA
    <2>1. (d.funct3 = SRL_SRA /\ d.bit30) = op3
      BY <1>2, <1>4 DEF SRL_SRA, ADD_SUB
    <2>. QED
      BY <1>1, <1>4, <2>1 DEF alu_out, SRL_SRA, ADD_SUB
  <1>5. CASE d.funct3 \notin {ADD_SUB, SRL_SRA}
    <2>1. (d.funct3 = SRL_SRA /\ d.bit30) = FALSE
      BY <1>5
    <2>2. d.imm \in Word /\ d.funct3 \in Funct3
      BY Types DEF Instr
    <2>3. Arith(d.funct3, TRUE, RS1, d.imm) = Arith(d.funct3, FALSE, RS1, d.imm)
      <3>1. d.funct3 \in Funct3 \ {ADD_SUB, SRL_SRA} /\ RS1 \in Word
        BY <1>5, <2>2, Types
      <3>. QED
        BY ONLY <2>2, <3>1, ArithFacts, Zenon
    <2>4. op3 = TRUE \/ op3 = FALSE
      BY <1>2
    <2>. QED
      BY <1>1, <1>5, <2>1, <2>3, <2>4 DEF alu_out
  <1>. QED
    BY <1>3, <1>4, <1>5

(* The instructions that only compute.                                     *)
LEMMA ComputeRefines ==
  ASSUME FetchInv, NEW ended \in BOOLEAN, NEW done \in BOOLEAN, NEW byte \in RxByte, NEW now \in Us,
         Cycle(FALSE, ended, done, byte, now)
  PROVE  /\ lui_type => ISA!Lui
         /\ auipc_type => ISA!Auipc
         /\ r_type => ISA!Op
         /\ i_type => ISA!OpImm
         /\ d.opcode = "OTHER" => ISA!Unspecified
         /\ csr_type => ISA!Csr
  <1>0. ISA!Current = d /\ regs_if[d.rs1] = RS1 /\ regs_if[d.rs2] = RS2
    BY CurrentIsDecoded, Operands
  <1>1. ASSUME d.opcode \in {"LUI", "AUIPC", "ARI_RTYPE", "ARI_ITYPE"}
        PROVE  ISA!Computes(alu_out)
    BY <1>0, <1>1, ComputeStep DEF ISA!Computes
  <1>2. ASSUME lui_type PROVE ISA!Lui
    <2>1. alu_out = d.imm
      BY <1>2 DEF lui_type, alu_out, alu_srcb, r_type
    <2>. QED
      BY <1>0, <1>1, <1>2, <2>1 DEF lui_type, ISA!Lui
  <1>3. ASSUME auipc_type PROVE ISA!Auipc
    <2>1. alu_out = Add(pc_if, d.imm)
      BY <1>3 DEF auipc_type, lui_type, alu_out, alu_sum, alu_srca, alu_srcb, r_type, i_type, op, op3
    <2>. QED
      BY <1>0, <1>1, <1>3, <2>1 DEF auipc_type, ISA!Auipc
  <1>4. ASSUME r_type PROVE ISA!Op
    BY <1>0, <1>1, <1>4, ArithOp DEF r_type, ISA!Op, regs_if
  <1>5. ASSUME i_type PROVE ISA!OpImm
    BY <1>0, <1>1, <1>5, ArithImm, Zenon DEF i_type, ISA!OpImm, regs_if, SRL_SRA, ISA!SRL_SRA
  <1>6. ASSUME d.opcode \in {"OTHER", "CSR"} PROVE ISA!SetRegToSome(d.rd)
    <2>1. ISA!SetReg(d.rd, alu_out)
      BY <1>6, ComputeStep
    <2>2. regs_if \in [Reg -> Word]
      BY WbWires DEF FetchInv, CpuTypeOK, regs_if, Forwarded
    <2>. QED
      BY <2>1, <2>2, Types DEF ISA!SetReg, ISA!SetRegToSome, regs_if, Instr
  <1>7. ASSUME d.opcode = "OTHER" PROVE ISA!Unspecified
    BY <1>0, <1>6, <1>7, ComputeStep DEF ISA!Unspecified
  <1>8. ASSUME csr_type PROVE ISA!Csr
    <2>1. csr_q' = csr_din
      BY <1>8 DEF Cycle, Execute, RegisterRCE
    <2>2. /\ csr_q' \in Word
          /\ d.funct3 = CSRRW => csr_q' = RS1
          /\ d.funct3 = CSRRWI => csr_q' = d.imm
      BY <2>1, ExWires DEF FetchInv, csr_din, CSRRW, CSRRWI
    <2>. QED
      BY <1>0, <1>6, <1>8, <2>2, ComputeStep DEF csr_type, ISA!Csr, regs_if, CSRRW, ISA!CSRRW, CSRRWI, ISA!CSRRWI
  <1>. QED
    BY <1>2, <1>3, <1>4, <1>5, <1>7, <1>8

(* Jumps link and branches compare while the target is being added.        *)
LEMMA JumpRefines ==
  ASSUME FetchInv, NEW ended \in BOOLEAN, NEW done \in BOOLEAN, NEW byte \in RxByte, NEW now \in Us,
         Cycle(FALSE, ended, done, byte, now)
  PROVE  /\ jmp_type => ISA!Jump
         /\ br_type => ISA!Branch
  <1>0. ISA!Current = d /\ regs_if[d.rs1] = RS1 /\ regs_if[d.rs2] = RS2
    BY CurrentIsDecoded, Operands
  <1>1. jmp_type \/ br_type => alu_sum = Add(alu_srca, d.imm)
    BY DEF alu_srcb, alu_sum, op3, r_type, i_type, jmp_type, br_type
  <1>2. ASSUME jmp_type PROVE ISA!Jump
    <2>1. ~st_type /\ ~br_type /\ ~ld_type /\ ~auipc_type /\ ~csr_type
      BY <1>2 DEF st_type, br_type, ld_type, jmp_type, auipc_type, csr_type
    <2>2. ISA!SetReg(d.rd, Plus4(pc_if))
      <3>1. wd' = Plus4(pc_if)
        BY <1>2, Result DEF Cycle
      <3>. QED
        BY <2>1, <3>1, RegsStep, Types DEF Cycle, ISA!SetReg, regs_if
    <2>3. pc_if' = Add(IF d.opcode = "JAL" THEN pc_if ELSE RS1, d.imm)
      BY <1>1, <1>2, <2>1 DEF Cycle, Fetch, RegisterR, pc_in, jmp_flag, alu_srca
    <2>4. UNCHANGED csr_q
      BY <2>1 DEF Cycle, Execute, RegisterRCE
    <2>5. ISA!NoStore /\ ISA!DeviceIdles
      BY <2>1, NoStoreStep, DeviceIdle, Types
    <2>. QED
      BY <1>0, <1>2, <2>2, <2>3, <2>4, <2>5 DEF ISA!Jump, jmp_type, regs_if
  <1>3. ASSUME br_type PROVE ISA!Branch
    <2>1. ~st_type /\ ~jmp_type /\ ~ld_type /\ ~csr_type
      BY <1>3 DEF st_type, br_type, ld_type, jmp_type, csr_type
    <2>2. regs_if' = regs_if
      BY <1>3, RegsStep, Types DEF Cycle
    <2>3. pc_if' = IF BranchTaken(d.funct3, RS1, RS2) THEN Add(pc_if, d.imm) ELSE Plus4(pc_if)
      BY <1>1, <1>3, <2>1 DEF Cycle, Fetch, RegisterR, pc_in, jmp_flag, br_taken, alu_srca
    <2>4. UNCHANGED csr_q
      BY <2>1 DEF Cycle, Execute, RegisterRCE
    <2>. QED
      BY <1>0, <1>3, <2>1, <2>2, <2>3, <2>4, NoStoreStep, DeviceIdle, Types
         DEF ISA!Branch, br_type, regs_if
  <1>. QED
    BY <1>2, <1>3

(* Loads and stores address with the sum, which is also the ALU's result.  *)
LEMMA Address ==
  ASSUME FetchInv, st_type \/ ld_type
  PROVE  alu_out = alu_sum /\ alu_sum = Add(RS1, d.imm)
  BY DEF st_type, ld_type, alu_out, alu_sum, alu_srca, alu_srcb, op, op3, r_type, i_type,
         lui_type, br_type, auipc_type

(* What a load brings: the memories were read at the edge, the device is   *)
(* read in the cycle after it.                                             *)
LEMMA LoadedWord ==
  ASSUME FetchInv, OnePerCycle', NEW ended \in BOOLEAN, NEW done \in BOOLEAN, NEW byte \in RxByte,
         NEW now \in Us, Cycle(FALSE, ended, done, byte, now)
  PROVE  mem_out' = ISA!MemValue(alu_out, has_byte')
  <1>1. /\ alu_ex' = alu_out
        /\ dmem_douta' = dmem[DmemIndex(alu_out)] /\ bios_doutb' = bios[BiosIndex(alu_out)]
    BY DEF Cycle, Execute, MemoryAccess, BiosMem, DataMem, RegisterR
  <1>2. io_out' = ISA!IoValue(alu_out, has_byte')
    BY <1>1 DEF io_out, ISA!IoValue, uart_tx_data_in_ready, OnePerCycle
  <1>. QED
    BY <1>1, <1>2 DEF mem_out, ISA!MemValue, ISA!ToDmem

(* The write-back of a load, one cycle later, is the load.                 *)
LEMMA LoadRefines ==
  ASSUME FetchInv, OnePerCycle', NEW ended \in BOOLEAN, NEW done \in BOOLEAN, NEW byte \in RxByte,
         NEW now \in Us, Cycle(FALSE, ended, done, byte, now), ld_type
  PROVE  ISA!Load
  <1>0. ISA!Current = d /\ regs_if[d.rs1] = RS1
    BY CurrentIsDecoded, Operands
  <1>1. ~st_type /\ ~br_type /\ ~jmp_type /\ ~csr_type
    BY DEF st_type, br_type, ld_type, jmp_type, csr_type
  <1>2. wd' = LoadControl(d.funct3, alu_out, ISA!MemValue(alu_out, has_byte'))
    BY <1>1, Result, LoadedWord DEF Cycle
  <1>3. ISA!SetReg(d.rd, LoadControl(d.funct3, alu_out, ISA!MemValue(alu_out, has_byte')))
    BY <1>1, <1>2, RegsStep, Types DEF Cycle, ISA!SetReg, regs_if
  <1>4. ISA!DeviceMoves(FALSE, tx_data, IoReg(alu_out) = "rx", has_byte')
    <2>1. uart_tx_data_in_valid = FALSE /\ reads_rx = (IoReg(alu_out) = "rx")
      BY <1>1 DEF uart_tx_data_in_valid, reads_rx
    <2>2. ISA!DeviceMoves(FALSE, uart_tx_data_in, IoReg(alu_out) = "rx", has_byte')
      BY <2>1, DeviceStep, Types
    <2>. QED
      BY <2>2 DEF ISA!DeviceMoves
  <1>5. pc_if' = Plus4(pc_if) /\ UNCHANGED csr_q
    BY <1>1 DEF Cycle, Fetch, Execute, RegisterR, RegisterRCE, pc_in, jmp_flag
  <1>6. has_byte' \in BOOLEAN
    BY Types DEF Cycle, Uart, RegisterRCE, CpuTypeOK
  <1>7. alu_out = Add(RS1, d.imm)
    BY Address
  <1>. QED
    BY <1>0, <1>1, <1>3, <1>4, <1>5, <1>6, <1>7, NoStoreStep, Types DEF ISA!Load, ld_type, regs_if

(* A store writes its byte lanes at the edge that ends its EX stage.       *)
LEMMA StoreMemoryStep ==
  ASSUME FetchInv, st_type, NEW rst, MemoryAccess(rst)
  PROVE  ISA!StoreMemory(alu_out)
  <1>0. ISA!Current = d /\ regs_if[d.rs2] = RS2
    BY CurrentIsDecoded, Operands
  <1>1. alu_out = alu_sum
    BY Address
  <1>2. \A old : Merge(old, wdata, wbe)
                = Merge(old, StoreData(alu_out, RS2), StoreLanes(d.funct3, alu_out))
    BY <1>1 DEF wdata, wbe
  <1>3. /\ dmem_we = ISA!ToDmem(alu_out)
        /\ imem_we = (ISA!ToImem(alu_out) /\ ISA!InBios(pc_if))
    BY DEF dmem_we, imem_we, ISA!ToDmem, ISA!ToImem, ISA!InBios, InBios
  <1>. QED
    BY <1>0, <1>2, <1>3 DEF ISA!StoreMemory, MemoryAccess, BiosMem, DataMem, InstMem, Written, regs_if

(* A store, to memory, to the transmitter or to the counter reset.         *)
LEMMA StoreRefines ==
  ASSUME FetchInv, NEW ended \in BOOLEAN, NEW done \in BOOLEAN, NEW byte \in RxByte,
         NEW now \in Us, Cycle(FALSE, ended, done, byte, now), st_type
  PROVE  ISA!Store
  <1>0. ISA!Current = d /\ regs_if[d.rs1] = RS1 /\ regs_if[d.rs2] = RS2
    BY CurrentIsDecoded, Operands
  <1>1. ~ld_type /\ ~br_type /\ ~jmp_type /\ ~csr_type
    BY DEF st_type, br_type, ld_type, jmp_type, csr_type
  <1>2. alu_out = alu_sum /\ ISA!StoreAddress = alu_out
    BY <1>0, Address DEF ISA!StoreAddress, regs_if
  <1>3. ISA!StoreMemory(alu_out)
    BY StoreMemoryStep DEF Cycle
  <1>4. instCount' = IF IoReg(alu_out) = "us_low" THEN Zero ELSE Inc(instCount)
    BY DEF Cycle, Counters, counterRst, RegisterRCE
  <1>5. ISA!DeviceMoves(IoReg(alu_out) = "tx", LowByte(RS2), FALSE, has_byte')
    <2>1. uart_tx_data_in_valid = (IoReg(alu_out) = "tx") /\ reads_rx = FALSE
      BY <1>1 DEF uart_tx_data_in_valid, reads_rx
    <2>2. ISA!DeviceMoves(IoReg(alu_out) = "tx", uart_tx_data_in, FALSE, has_byte')
      BY <2>1, DeviceStep, Types
    <2>3. IoReg(alu_out) = "tx" => uart_tx_data_in = LowByte(RS2)
      BY <1>2, Types, TxAssumption DEF uart_tx_data_in, wdata
    <2>. QED
      BY <2>2, <2>3 DEF ISA!DeviceMoves
  <1>6. pc_if' = Plus4(pc_if) /\ UNCHANGED csr_q
    BY <1>1 DEF Cycle, Fetch, Execute, RegisterR, RegisterRCE, pc_in, jmp_flag
  <1>7. regs_if' = regs_if
    BY RegsStep, Types DEF Cycle
  <1>8. has_byte' \in BOOLEAN
    BY Types DEF Cycle, Uart, RegisterRCE, CpuTypeOK
  <1>. QED
    BY <1>0, <1>2, <1>3, <1>4, <1>5, <1>6, <1>7, <1>8 DEF ISA!Store, st_type, regs_if

(* Reset, during which a store in EX still reaches memory.                 *)
LEMMA ResetRefines ==
  ASSUME FetchInv, NEW ended \in BOOLEAN, NEW done \in BOOLEAN, NEW byte \in RxByte,
         NEW now \in Us, Cycle(TRUE, ended, done, byte, now)
  PROVE  ISA!Reset
  <1>0. ISA!Current = d /\ regs_if[d.rs1] = RS1
    BY CurrentIsDecoded, Operands
  <1>1. IF st_type THEN ISA!StoreMemory(ISA!StoreAddress) ELSE UNCHANGED <<dmem, imem, bios>>
    <2>1. CASE st_type
      <3>1. ISA!StoreAddress = alu_out
        BY <1>0, <2>1, Address DEF ISA!StoreAddress, regs_if
      <3>. QED
        BY <2>1, <3>1, StoreMemoryStep DEF Cycle
    <2>2. CASE ~st_type
      BY <2>2 DEF Cycle, MemoryAccess, BiosMem, DataMem, InstMem, Written, dmem_we, imem_we
    <2>. QED
      BY <2>1, <2>2
  <1>2. regs_if' = regs_if
    BY RegsReset, Types DEF Cycle
  <1>3. has_byte' \in BOOLEAN
    BY Types DEF Cycle, Uart, RegisterRCE, CpuTypeOK
  <1>4. (waiting => has_byte') /\ waiting' = has_byte'
    <2>1. (waiting => has_byte') /\ waiting' = (has_byte' /\ ~(~TRUE /\ reads_rx))
      BY ByteWaits, Types, Zenon DEF Cycle
    <2>. QED
      BY <1>3, <2>1
  <1>5. /\ pc_if' = RESET_PC /\ csr_q' = Zero /\ instCount' = Zero
        /\ tx_busy' = FALSE /\ UNCHANGED tx_data
        /\ rx_data' \in RxByte /\ us' \in Us
    BY DEF Cycle, Fetch, Execute, Counters, Uart, RegisterR, RegisterRCE, RegisterCE, counterRst
  <1>. QED
    BY <1>0, <1>1, <1>2, <1>3, <1>4, <1>5 DEF ISA!Reset, st_type, regs_if, waiting

(* Each edge executes one whole instruction, or resets.                    *)
LEMMA StepRefines ==
  FetchInv /\ OnePerCycle /\ OnePerCycle' /\ [CpuNext]_cpuVars => [ISA!IsaNext]_(ISA!isaVars)
  <1>1. ASSUME FetchInv, OnePerCycle', NEW rst \in BOOLEAN, NEW ended \in BOOLEAN,
               NEW done \in BOOLEAN, NEW byte \in RxByte, NEW now \in Us,
               Cycle(rst, ended, done, byte, now)
        PROVE  ISA!IsaNext
    <2>1. CASE rst = TRUE
      BY <1>1, <2>1, ResetRefines DEF ISA!IsaNext
    <2>2. CASE rst = FALSE
      <3>1. d.opcode \in Opcode
        BY <1>1, Types DEF Instr
      <3>2. Cycle(FALSE, ended, done, byte, now)
        BY <1>1, <2>2
      <3>3. CASE d.opcode \in {"LUI", "AUIPC", "ARI_RTYPE", "ARI_ITYPE", "CSR", "OTHER"}
        BY <1>1, <3>2, <3>3, ComputeRefines
           DEF ISA!IsaNext, lui_type, auipc_type, r_type, i_type, csr_type
      <3>4. CASE d.opcode \in {"JAL", "JALR", "BRANCH"}
        BY <1>1, <3>2, <3>4, JumpRefines DEF ISA!IsaNext, jmp_type, br_type
      <3>5. CASE d.opcode = "LOAD"
        BY <1>1, <3>2, <3>5, LoadRefines DEF ISA!IsaNext, ld_type
      <3>6. CASE d.opcode = "STORE"
        BY <1>1, <3>2, <3>6, StoreRefines DEF ISA!IsaNext, st_type
      <3>. QED
        BY <3>1, <3>3, <3>4, <3>5, <3>6 DEF Opcode
    <2>. QED
      BY <2>1, <2>2
  <1>2. UNCHANGED cpuVars => UNCHANGED ISA!isaVars
    BY DEF cpuVars, fetchRegs, memories, wbRegs, uart, ISA!isaVars, ISA!device, Forwarded,
       uart_rx_data_out_ready, we, wa, wd, ld_out, mem_out, io_out, uart_tx_data_in_ready
  <1>. QED
    BY <1>1, <1>2 DEF CpuNext

(* The pipeline starts where the architecture starts.                      *)
LEMMA InitRefines == CpuInit => ISA!IsaInit
  BY DEF CpuInit, ISA!IsaInit, Forwarded, we, wa, uart_rx_data_out_ready

(* cpu.v implements the instruction set: forwarding, the early fetch, the  *)
(* late write-back and the late sampling of I/O never show in program      *)
(* order.                                                                  *)
THEOREM PipelineImplementsIsa == CpuSpec => ImplementsIsa
  BY InitRefines, StepRefines, FetchInvariant, OneInstructionPerCycle, PTL
     DEF CpuSpec, ImplementsIsa, ISA!IsaSpec
=============================================================================
