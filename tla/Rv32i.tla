------------------------------- MODULE Rv32i -------------------------------
(***************************************************************************)
(* The RV32I machine the software is written for: one whole instruction    *)
(* per step, in program order.  A load or store to the I/O region sees the *)
(* UART and the counters at one instant.  The device moves in the same     *)
(* step: the transmitter may become idle, a byte may arrive.               *)
(***************************************************************************)
EXTENDS Machine

VARIABLES pc, regs, dmem, imem, bios,
          csr,               \* tohost
          count,             \* instructions since the counters were reset
          tx_busy, tx_data,  \* the transmitter and the byte last given to it
          has_byte, rx_data, \* the receiver
          us                 \* the microsecond timer

device == <<tx_busy, tx_data, has_byte, rx_data, us>>
isaVars == <<pc, regs, dmem, imem, bios, csr, count, device>>

IsaInit == /\ pc = RESET_PC
           /\ regs = [r \in Reg |-> Zero]
           /\ dmem = [a \in DmemWord |-> Zero]
           /\ imem = [a \in ImemWord |-> Zero]
           /\ bios \in BiosImages
           /\ csr = Zero /\ count = Zero
           /\ tx_busy = FALSE /\ tx_data = ZeroByte
           /\ has_byte = FALSE /\ rx_data \in RxByte
           /\ us \in Us

(* The instruction at the program counter.                                 *)
Current == Decode(IF InBios(pc) THEN bios[BiosIndex(pc)] ELSE imem[ImemIndex(pc)])

SetReg(rd, v) == regs' = IF rd = 0 THEN regs ELSE [regs EXCEPT ![rd] = v]

(* The device over a step in which byte b is stored to the transmitter     *)
(* (sent) and the receiver's data register is read (read), with arrived    *)
(* whether a byte is there at the instant of the read.                     *)
DeviceMoves(sent, b, read, arrived) ==
  /\ IF sent /\ ~tx_busy THEN tx_busy' = TRUE /\ tx_data' = b
                         ELSE tx_busy' \in {tx_busy, FALSE} /\ UNCHANGED tx_data
  /\ has_byte => arrived
  /\ has_byte' = (arrived /\ ~read)
  /\ rx_data' \in RxByte
  /\ us' \in Us

DeviceIdles == \E arrived \in BOOLEAN : DeviceMoves(FALSE, tx_data, FALSE, arrived)

(* The value of an I/O register, read with the device's state after the    *)
(* step began and before this read takes the byte.                         *)
IoValue(a, arrived) ==
  CASE IoReg(a) = "ctrl" -> IoStatus(arrived, ~tx_busy')
    [] IoReg(a) = "rx" -> IoByte(rx_data')
    [] IoReg(a) \in {"cycle", "inst"} -> count'
    [] IoReg(a) = "us_low" -> us'.low
    [] IoReg(a) = "us_high" -> us'.high
    [] OTHER -> Zero

MemValue(a, arrived) ==
  CASE ToDmem(a) -> dmem[DmemIndex(a)]
    [] Region(a) = 4 -> bios[BiosIndex(a)]
    [] Region(a) = 8 -> IoValue(a, arrived)
    [] OTHER -> Zero

(* What every instruction but a store leaves alone, and the counter.       *)
NoStore == UNCHANGED <<dmem, imem, bios>> /\ count' = Inc(count)

(* An instruction that only computes: v to rd, and on to the next.         *)
Computes(v) == /\ SetReg(Current.rd, v)
               /\ pc' = Plus4(pc)
               /\ UNCHANGED csr
               /\ NoStore /\ DeviceIdles

Lui == Current.opcode = "LUI" /\ Computes(Current.imm)
Auipc == Current.opcode = "AUIPC" /\ Computes(Add(pc, Current.imm))

Op == /\ Current.opcode = "ARI_RTYPE"
      /\ Computes(Arith(Current.funct3, Current.bit30, regs[Current.rs1], regs[Current.rs2]))

OpImm == /\ Current.opcode = "ARI_ITYPE"
         /\ Computes(Arith(Current.funct3, Current.funct3 = SRL_SRA /\ Current.bit30,
                           regs[Current.rs1], Current.imm))

(* rd receives a word that the specification does not fix.                 *)
SetRegToSome(rd) == /\ regs' \in [Reg -> Word]
                    /\ \A r \in Reg : r # rd \/ r = 0 => regs'[r] = regs[r]

(* An encoding outside the implemented set leaves its rd unspecified.      *)
Unspecified == /\ Current.opcode = "OTHER"
               /\ SetRegToSome(Current.rd)
               /\ pc' = Plus4(pc)
               /\ UNCHANGED csr
               /\ NoStore /\ DeviceIdles

(* CSRRW and CSRRWI write tohost; what rd receives is unspecified.         *)
Csr == /\ Current.opcode = "CSR"
       /\ SetRegToSome(Current.rd)
       /\ csr' \in Word
       /\ Current.funct3 = CSRRW => csr' = regs[Current.rs1]
       /\ Current.funct3 = CSRRWI => csr' = Current.imm
       /\ pc' = Plus4(pc)
       /\ NoStore /\ DeviceIdles

Jump == /\ Current.opcode \in {"JAL", "JALR"}
        /\ SetReg(Current.rd, Plus4(pc))
        /\ pc' = Add(IF Current.opcode = "JAL" THEN pc ELSE regs[Current.rs1], Current.imm)
        /\ UNCHANGED csr
        /\ NoStore /\ DeviceIdles

Branch == /\ Current.opcode = "BRANCH"
          /\ pc' = IF BranchTaken(Current.funct3, regs[Current.rs1], regs[Current.rs2])
                   THEN Add(pc, Current.imm) ELSE Plus4(pc)
          /\ UNCHANGED <<regs, csr>>
          /\ NoStore /\ DeviceIdles

Load == /\ Current.opcode = "LOAD"
        /\ LET a == Add(regs[Current.rs1], Current.imm)
           IN  \E arrived \in BOOLEAN :
                 /\ NoStore
                 /\ DeviceMoves(FALSE, tx_data, IoReg(a) = "rx", arrived)
                 /\ SetReg(Current.rd,
                           LoadControl(Current.funct3, a, MemValue(a, arrived)))
        /\ pc' = Plus4(pc)
        /\ UNCHANGED csr

(* The memory half of a store; code outside the BIOS cannot write imem.    *)
StoreMemory(a) ==
  LET Stored(old) == Merge(old, StoreData(a, regs[Current.rs2]), StoreLanes(Current.funct3, a))
  IN  /\ dmem' = IF ToDmem(a)
                 THEN [dmem EXCEPT ![DmemIndex(a)] = Stored(dmem[DmemIndex(a)])] ELSE dmem
      /\ imem' = IF ToImem(a) /\ InBios(pc)
                 THEN [imem EXCEPT ![ImemIndex(a)] = Stored(imem[ImemIndex(a)])] ELSE imem
      /\ UNCHANGED bios

StoreAddress == Add(regs[Current.rs1], Current.imm)

Store == /\ Current.opcode = "STORE"
         /\ StoreMemory(StoreAddress)
         /\ count' = IF IoReg(StoreAddress) = "us_low" THEN Zero ELSE Inc(count)
         /\ \E arrived \in BOOLEAN :
              DeviceMoves(IoReg(StoreAddress) = "tx",
                          LowByte(regs[Current.rs2]), FALSE, arrived)
         /\ pc' = Plus4(pc)
         /\ UNCHANGED <<regs, csr>>

(* Reset abandons the current instruction, except that a store's memory    *)
(* write is not held back; registers and memories keep their contents.     *)
Reset == /\ pc' = RESET_PC
         /\ csr' = Zero /\ count' = Zero
         /\ IF Current.opcode = "STORE" THEN StoreMemory(StoreAddress)
                                        ELSE UNCHANGED <<dmem, imem, bios>>
         /\ UNCHANGED <<regs, tx_data>>
         /\ tx_busy' = FALSE
         /\ \E arrived \in BOOLEAN : (has_byte => arrived) /\ has_byte' = arrived
         /\ rx_data' \in RxByte
         /\ us' \in Us

IsaNext == \/ Lui \/ Auipc \/ Op \/ OpImm \/ Unspecified \/ Csr
           \/ Jump \/ Branch \/ Load \/ Store \/ Reset

IsaSpec == IsaInit /\ [][IsaNext]_isaVars
=============================================================================
