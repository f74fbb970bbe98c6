-------------------------------- MODULE Cpu --------------------------------
(***************************************************************************)
(* hardware/vsrc/riscv_core/cpu.v: the three-stage pipeline, one step per  *)
(* clock edge.  In a cycle the instruction at pc_if is decoded and         *)
(* executed with operands forwarded from the one before it, which writes   *)
(* its result back, while the next instruction is read from memory.        *)
(* Names are those of the Verilog; a wire is a state function.             *)
(***************************************************************************)
EXTENDS Machine, Eecs151

VARIABLES
  pc_if,
  bios_douta, imem_doutb,    \* the memories' instruction output registers
  bios_doutb, dmem_douta,    \* their data output registers
  rf, dmem, imem, bios,      \* register file, memories, ROM
  csr_q,
  rd_ex, rf_we_ex, jmp_type_ex, ld_type_ex, alu_ex, pc_ex, funct3_ex,
  instCount, cycleCount,
  tx_busy, tx_data,          \* UART transmitter: bit_counter # 0, and the byte it took
  has_byte, rx_data,         \* UART receiver
  us                         \* usCount

memories == <<dmem, imem, bios>>
uart == <<tx_busy, tx_data, has_byte, rx_data>>
wbRegs == <<rd_ex, rf_we_ex, jmp_type_ex, ld_type_ex, alu_ex, pc_ex, funct3_ex>>
fetchRegs == <<pc_if, bios_douta, imem_doutb, bios_doutb, dmem_douta>>
cpuVars == <<fetchRegs, rf, memories, csr_q, wbRegs, instCount, cycleCount, uart, us>>

-----------------------------------------------------------------------------
(* WB stage: the result of the instruction that left EX at the last edge.  *)

uart_tx_data_in_ready == ~tx_busy

(* Mutants of this stage: the status bits swapped, x0 written.             *)
io_out_swapped == CASE IoReg(alu_ex) = "ctrl" -> IoStatus(uart_tx_data_in_ready, has_byte)
                    [] IoReg(alu_ex) = "rx" -> IoByte(rx_data)
                    [] IoReg(alu_ex) \in {"cycle", "inst"} -> cycleCount
                    [] IoReg(alu_ex) = "us_low" -> us.low
                    [] IoReg(alu_ex) = "us_high" -> us.high
                    [] OTHER -> Zero
we_x0 == rf_we_ex

io_out == CASE IoReg(alu_ex) = "ctrl" -> IoStatus(has_byte, uart_tx_data_in_ready)
            [] IoReg(alu_ex) = "rx" -> IoByte(rx_data)
            [] IoReg(alu_ex) = "cycle" -> cycleCount
            [] IoReg(alu_ex) = "inst" -> instCount
            [] IoReg(alu_ex) = "us_low" -> us.low
            [] IoReg(alu_ex) = "us_high" -> us.high
            [] OTHER -> Zero

uart_rx_data_out_ready == ld_type_ex /\ IoReg(alu_ex) = "rx"

mem_out == CASE Region(alu_ex) \in {1, 3} -> dmem_douta
             [] Region(alu_ex) = 4 -> bios_doutb
             [] Region(alu_ex) = 8 -> io_out
             [] OTHER -> Zero

ld_out == LoadControl(funct3_ex, alu_ex, mem_out)

wd == CASE jmp_type_ex -> Plus4(pc_ex)
        [] ~jmp_type_ex /\ ld_type_ex -> ld_out
        [] OTHER -> alu_ex

wa == rd_ex
we == rf_we_ex /\ wa # 0

-----------------------------------------------------------------------------
(* EX stage, with the operands forwarded from WB.                          *)

(* Mutants of this stage: the memory chosen by the program counter of WB,  *)
(* an instruction memory that any code may write, a counter that misses    *)
(* the software's reset, a whole word sent to the transmitter.             *)
inst_by_wb == IF InBios(pc_ex) THEN bios_douta ELSE imem_doutb

inst == IF InBios(pc_if) THEN bios_douta ELSE imem_doutb
d == Decode(inst)

Forwarded(ra) == IF we /\ wa = ra THEN wd ELSE rf[ra]
RS1 == Forwarded(d.rs1)
RS2 == Forwarded(d.rs2)

csr_type == d.opcode = "CSR"
lui_type == d.opcode = "LUI"
auipc_type == d.opcode = "AUIPC"
jmp_type == d.opcode \in {"JAL", "JALR"}
br_type == d.opcode = "BRANCH"
st_type == d.opcode = "STORE"
ld_type == d.opcode = "LOAD"
r_type == d.opcode = "ARI_RTYPE"
i_type == d.opcode = "ARI_ITYPE"

(* alu_op: op3 is its bit 3, op its low bits.                              *)
op3 == (r_type \/ i_type) /\ ~(i_type /\ d.funct3 = ADD_SUB) /\ d.bit30
op == IF r_type \/ i_type THEN d.funct3 ELSE ADD_SUB

alu_srca == IF d.opcode = "JAL" \/ br_type \/ auipc_type THEN pc_if ELSE RS1
alu_srcb == IF r_type THEN RS2 ELSE d.imm

alu_sum == IF op3 THEN Sub(alu_srca, alu_srcb) ELSE Add(alu_srca, alu_srcb)
alu_out == IF lui_type THEN alu_srcb
           ELSE IF op = ADD_SUB THEN alu_sum
           ELSE Arith(op, op3, alu_srca, alu_srcb)

br_taken == BranchTaken(d.funct3, RS1, RS2)
jmp_flag == jmp_type \/ (br_type /\ br_taken)

csr_din == IF d.funct3 >= 4 THEN d.imm ELSE RS1

imem_we_anywhere == st_type /\ Region(alu_out) \in {2, 3}

counterRst(rst) == rst \/ (st_type /\ IoReg(alu_out) = "us_low")
wbe == StoreLanes(d.funct3, alu_sum)
wdata == StoreData(alu_sum, RS2)
uart_tx_data_in == LowByte(wdata)
uart_tx_data_in_valid == st_type /\ IoReg(alu_out) = "tx"

dmem_we == st_type /\ Region(alu_out) \in {1, 3}
imem_we == st_type /\ Region(alu_out) \in {2, 3} /\ InBios(pc_if)

(* A byte-enabled write.                                                   *)
Written(mem, enable, i) ==
  IF enable THEN [mem EXCEPT ![i] = Merge(mem[i], wdata, wbe)] ELSE mem

-----------------------------------------------------------------------------
(* IF stage: the memories are addressed by the next program counter.       *)

pc_in(rst) == IF rst THEN RESET_PC ELSE IF jmp_flag THEN alu_sum ELSE Plus4(pc_if)

-----------------------------------------------------------------------------
CpuInit ==
  /\ pc_if = RESET_PC
  /\ bios \in BiosImages
  /\ imem = [a \in ImemWord |-> Zero] /\ dmem = [a \in DmemWord |-> Zero]
  /\ rf = [r \in Reg |-> Zero]
  /\ bios_douta = bios[BiosIndex(RESET_PC)] /\ imem_doutb = imem[ImemIndex(RESET_PC)]
  /\ bios_doutb = Zero /\ dmem_douta = Zero
  /\ csr_q = Zero
  /\ rd_ex = 0 /\ rf_we_ex = FALSE /\ jmp_type_ex = FALSE /\ ld_type_ex = FALSE
  /\ alu_ex = Zero /\ pc_ex = Zero /\ funct3_ex = 0
  /\ instCount = Zero /\ cycleCount = Zero
  /\ tx_busy = FALSE /\ tx_data = ZeroByte /\ has_byte = FALSE /\ rx_data \in RxByte
  /\ us \in Us

Fetch(rst) == pc_if' = RegisterR(RESET_PC, pc_in(rst), rst)

Execute(rst) == /\ rd_ex' = RegisterR(0, d.rd, rst)
                /\ rf_we_ex' = RegisterR(FALSE, ~(st_type \/ br_type), rst)
                /\ jmp_type_ex' = RegisterR(FALSE, jmp_type, rst)
                /\ ld_type_ex' = RegisterR(FALSE, ld_type, rst)
                /\ alu_ex' = RegisterR(Zero, alu_out, rst)
                /\ pc_ex' = RegisterR(Zero, pc_if, rst)
                /\ funct3_ex' = RegisterR(0, d.funct3, rst)
                /\ csr_q' = RegisterRCE(csr_q, Zero, csr_din, rst, csr_type)

CountersApart(rst) == /\ instCount' = RegisterRCE(instCount, Zero, Inc(instCount), rst, TRUE)
                      /\ cycleCount' = RegisterR(Zero, Inc(cycleCount), counterRst(rst))

Counters(rst) == /\ instCount' = RegisterRCE(instCount, Zero, Inc(instCount), counterRst(rst), TRUE)
                 /\ cycleCount' = RegisterR(Zero, Inc(cycleCount), counterRst(rst))

(* The memories: read at the address of the next instruction and at the    *)
(* address of the load or store, written by the store.  No write looks at  *)
(* rst.                                                                    *)
BiosMem(rst) == /\ bios_douta' = bios[BiosIndex(pc_in(rst))]
                /\ bios_doutb' = bios[BiosIndex(alu_out)]
                /\ UNCHANGED bios

DataMem == /\ dmem' = Written(dmem, dmem_we, DmemIndex(alu_out))
           /\ dmem_douta' = dmem[DmemIndex(alu_out)]

InstMem(rst) == /\ imem' = Written(imem, imem_we, ImemIndex(alu_out))
                /\ imem_doutb' = imem[ImemIndex(pc_in(rst))]

MemoryAccess(rst) == BiosMem(rst) /\ DataMem /\ InstMem(rst)

WriteBack == rf' = IF we THEN [rf EXCEPT ![wa] = wd] ELSE rf

(* The UART as the CPU sees it.  ended: the last symbol of a frame goes    *)
(* out; done: the receiver has sampled a stop bit; byte: its shift         *)
(* register, which keeps moving under an unread byte.                      *)
Uart(rst, ended, done, byte) ==
  LET start == uart_tx_data_in_valid /\ uart_tx_data_in_ready
  IN  /\ tx_busy' = IF rst THEN FALSE ELSE IF start THEN TRUE ELSE tx_busy /\ ~ended
      /\ tx_data' = RegisterCE(tx_data, uart_tx_data_in, start /\ ~rst)
      /\ has_byte' = RegisterRCE(has_byte, FALSE, TRUE,
                                 has_byte /\ uart_rx_data_out_ready, done)
      /\ rx_data' = byte

(* One clock edge.                                                         *)
Cycle(rst, ended, done, byte, now) ==
  /\ Fetch(rst)
  /\ Execute(rst)
  /\ Counters(rst)
  /\ MemoryAccess(rst)
  /\ WriteBack
  /\ Uart(rst, ended, done, byte)
  /\ us' = now

CpuNext == \E rst, ended, done \in BOOLEAN, byte \in RxByte, now \in Us :
             Cycle(rst, ended, done, byte, now)

CpuSpec == CpuInit /\ [][CpuNext]_cpuVars

-----------------------------------------------------------------------------
CpuTypeOK ==
  /\ pc_if \in Word /\ bios_douta \in Word /\ imem_doutb \in Word
  /\ bios_doutb \in Word /\ dmem_douta \in Word
  /\ rf \in [Reg -> Word] /\ dmem \in [DmemWord -> Word] /\ imem \in [ImemWord -> Word]
  /\ bios \in BiosImages
  /\ csr_q \in Word
  /\ rd_ex \in Reg /\ rf_we_ex \in BOOLEAN /\ jmp_type_ex \in BOOLEAN /\ ld_type_ex \in BOOLEAN
  /\ alu_ex \in Word /\ pc_ex \in Word /\ funct3_ex \in Funct3
  /\ instCount \in Word /\ cycleCount \in Word
  /\ tx_busy \in BOOLEAN /\ tx_data \in Byte /\ has_byte \in BOOLEAN /\ rx_data \in RxByte
  /\ us \in Us

(* The instruction being executed is what the memories hold now at the     *)
(* program counter: it was read one cycle early, from memory that the      *)
(* instruction then in EX could still write, and no stall or flush covers  *)
(* for that.                                                               *)
FetchCoherent ==
  inst = IF InBios(pc_if) THEN bios[BiosIndex(pc_if)] ELSE imem[ImemIndex(pc_if)]

(* "The instruction counter should be incremented for every instruction    *)
(* that is committed", the cycle counter every cycle: the pipeline commits *)
(* one instruction per cycle, so both agree at all times.                  *)
OnePerCycle == instCount = cycleCount

(* The pipeline implements the instruction set, one instruction per cycle: *)
(* the architectural registers are the register file with the pending      *)
(* write-back applied, and the byte the load in WB is about to take is     *)
(* gone.  No hazard between neighbouring instructions shows through.       *)
ISA == INSTANCE Rv32i WITH
         pc <- pc_if,
         regs <- [r \in Reg |-> Forwarded(r)],
         csr <- csr_q,
         count <- instCount,
         has_byte <- has_byte /\ ~uart_rx_data_out_ready

ImplementsIsa == ISA!IsaSpec
=============================================================================
