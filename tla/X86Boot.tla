------------------------------ MODULE X86Boot -------------------------------
(***************************************************************************)
(* How a machine of x86/qemu comes up: boot/main.c loads arguments and     *)
(* program from the disk, trm.c finds heap and processors and gives each   *)
(* processor its segments, ioe.c routes interrupts to the first of them,   *)
(* cte.c makes the table of interrupt gates, and the other processors go   *)
(* through the part of this that is theirs, one after the other.           *)
(***************************************************************************)
EXTENDS Integers, FiniteSets, SequencesExt

CONSTANTS
  SECTSIZE, MEM,     \* words of a sector, and of the memory the loader writes
  MAX_CPU,           \* processors there is room for
  MAXINTR            \* the last line of the interrupt router

VARIABLES
  bits,              \* 32 or 64
  stage, cpu,        \* what comes next, and for which processor
  memory, phdrs,     \* the loader: memory, and the program headers still to load
  loaded,            \* history: the headers of the file
  cmos, heap,        \* what the clock's memory and the linker say, the heap
  entries, ptr, ncpu,          \* the table of processors
  gdt, idt,
  todo, reg, redirection,      \* the stores to the router to come, its registers
  interrupted        \* history: vector and processor of the last interrupt

loaderVars == <<memory, phdrs, loaded>>
trmVars == <<cmos, heap, entries, ptr, ncpu>>
routerVars == <<todo, reg, redirection, interrupted>>
bootVars == <<bits, stage, cpu, loaderVars, trmVars, gdt, idt, routerVars>>

None == <<>>
Bits(x, at, n) == (x \div 2^at) % 2^n

(***************************************************************************)
(* boot/main.c. The disk holds the boot sector, two sectors of arguments   *)
(* and the file of the program; each word is named by where it comes from. *)
(* Sectors are read whole, to where they would begin.                      *)
(***************************************************************************)
ARGSIZE == 2 * SECTSIZE
MAINARG_ADDR == 0
HEADER == ARGSIZE                   \* where the header of the file is loaded
KERNEL == HEADER + SECTSIZE         \* of the 4096 bytes read there, the first sector
Disk(k) == k + 1                    \* word k of the disk
FileAt(k) == Disk(k + ARGSIZE + SECTSIZE)

read_disk(mem, buf, sect) ==
  [a \in DOMAIN mem |-> IF a \in buf..(buf + SECTSIZE - 1) THEN Disk(sect * SECTSIZE + a - buf) ELSE mem[a]]

(* Mutant: from the sector that the area begins behind.                    *)
FirstSector_next(buf) == buf + SECTSIZE - 1 - ((buf + SECTSIZE - 1) % SECTSIZE)

FirstSector(buf) == buf - (buf % SECTSIZE)

copy_from_disk(mem, buf, nbytes, disk_offset) ==
  LET sect == (disk_offset \div SECTSIZE) + (ARGSIZE \div SECTSIZE) + 1
  IN  FoldLeft(LAMBDA m, i : IF FirstSector(buf) + i * SECTSIZE < buf + nbytes
                             THEN read_disk(m, FirstSector(buf) + i * SECTSIZE, sect + i) ELSE m,
               mem, [i \in 1..(nbytes + 1) |-> i - 1])

load_program(mem, ph) ==
  LET copied == copy_from_disk(mem, ph.p_paddr, ph.p_filesz, ph.p_offset)
  IN  [a \in DOMAIN mem |-> IF a \in (ph.p_paddr + ph.p_filesz)..(ph.p_paddr + ph.p_memsz - 1) THEN 0
                            ELSE copied[a]]

load_kernel ==
  /\ stage = "kernel"
  /\ IF cpu = 0
     THEN /\ memory' = copy_from_disk(copy_from_disk(memory, MAINARG_ADDR, ARGSIZE, -ARGSIZE),
                                      HEADER, SECTSIZE, 0)
          /\ stage' = "elf"
     ELSE stage' = "percpu" /\ UNCHANGED memory
  /\ UNCHANGED <<bits, cpu, phdrs, loaded, trmVars, gdt, idt, routerVars>>

load_elf ==
  /\ stage = "elf"
  /\ IF phdrs = <<>> THEN stage' = "heap" /\ UNCHANGED <<memory, phdrs>>
     ELSE /\ memory' = load_program(memory, Head(phdrs))
          /\ phdrs' = Tail(phdrs) /\ UNCHANGED stage
  /\ UNCHANGED <<bits, cpu, loaded, trmVars, gdt, idt, routerVars>>

(***************************************************************************)
(* trm.c. Two bytes of the clock's memory hold the size of the memory over *)
(* 16 MB in units of 64 KB. The entries of the table of processors are 20  *)
(* bytes for a processor, whose first byte is 0, and 8 for all else.       *)
(***************************************************************************)
MB == 2^20
heap_init ==
  /\ stage = "heap"
  /\ heap' = [start |-> MB * ((cmos.end + MB - 1) \div MB),
              end |-> (cmos.lo + (cmos.hi + 1) * 2^8) * 2^16]
  /\ stage' = "table"
  /\ UNCHANGED <<bits, cpu, loaderVars, cmos, entries, ptr, ncpu, gdt, idt, routerVars>>

Size(entry) == IF entry = 0 THEN 20 ELSE 8
Place(n) == FoldLeft(LAMBDA sum, e : sum + Size(e), 0, SubSeq(entries, 1, n - 1))

(* A byte of the table: within an entry it may be anything.                *)
ByteIn(byte) == \E n \in DOMAIN entries :
                  IF ptr = Place(n) THEN byte = entries[n]
                  ELSE ptr \in (Place(n) + 1)..(Place(n) + Size(entries[n]) - 1)

ioapicread(r) == <<[select |-> TRUE, value |-> r]>>
ioapicwrite(r, data) == <<[select |-> TRUE, value |-> r], [select |-> FALSE, value |-> data]>>

REG_VER == 1
REG_TABLE == 16
INT_DISABLED == 2^16
T_IRQ0 == 32
IRQ_KBD == 1
IRQ_COM1 == 4

ioapic_init ==
  ioapicread(REG_VER)
    \o FlattenSeq([n \in 1..(MAXINTR + 1) |-> ioapicwrite(REG_TABLE + 2 * (n - 1), INT_DISABLED + T_IRQ0 + n - 1)
                                              \o ioapicwrite(REG_TABLE + 2 * (n - 1) + 1, 0)])
ioapic_enable(irq, cpunum) == ioapicwrite(REG_TABLE + 2 * irq, T_IRQ0 + irq)
                                \o ioapicwrite(REG_TABLE + 2 * irq + 1, cpunum * 2^24)

lapic_init ==
  /\ stage = "table"
  /\ IF ptr < Place(Len(entries) + 1)
     THEN \E byte \in 0..2 :
            /\ ByteIn(byte)
            /\ ptr' = IF byte = 0 THEN ptr + 12 + 8 ELSE ptr + 8
            /\ ncpu' = IF byte = 0 THEN ncpu + 1 ELSE ncpu
            /\ stage' = IF byte = 0 /\ ncpu + 1 > MAX_CPU THEN "panic" ELSE "table"
            /\ UNCHANGED todo
     ELSE stage' = "router" /\ todo' = ioapic_init /\ UNCHANGED <<ptr, ncpu>>
  /\ UNCHANGED <<bits, cpu, loaderVars, cmos, heap, entries, gdt, idt, reg, redirection, interrupted>>

(***************************************************************************)
(* x86.h: descriptors. The limit of a segment of SEG32 counts pages: the   *)
(* low twelve bits that its argument has are dropped.                      *)
(***************************************************************************)
DPL_KERN == 0
DPL_USER == 3
STA_X == 8
STA_W == 2
STA_R == 2
STS_T32A == 9
STS_TG == 15
FLAT == 2^20 - 1       \* 0xffffffff, in pages

SegDesc(type, s, dpl, base, lim, l, g) ==
  [lim_15_0 |-> Bits(lim, 0, 16), base_15_0 |-> Bits(base, 0, 16), base_23_16 |-> Bits(base, 16, 8),
   type |-> type, s |-> s, dpl |-> dpl, p |-> 1, lim_19_16 |-> Bits(lim, 16, 4),
   l |-> l, g |-> g, base_31_24 |-> Bits(base, 24, 8)]
SEG16(type, base, lim, dpl) == SegDesc(type, 0, dpl, base, lim, 0, 0)
SEG32(type, base, pages, dpl) == SegDesc(type, 1, dpl, base, pages, 0, 1)
SEG64(type, dpl) == SegDesc(type, 1, dpl, 0, 0, 1, 0)

GATE32(type, cs, entry, dpl) == [off_15_0 |-> Bits(entry, 0, 16), cs |-> cs, type |-> type, dpl |-> dpl,
                                 p |-> 1, off_31_16 |-> Bits(entry, 16, 16), off_63_32 |-> 0]
GATE64(type, cs, entry, dpl) == [off_15_0 |-> Bits(entry, 0, 16), cs |-> cs, type |-> type, dpl |-> dpl,
                                 p |-> 1, off_31_16 |-> Bits(entry, 16, 16),
                                 off_63_32 |-> (entry \div 2^16) \div 2^16]
GATE(type, cs, entry, dpl) == IF bits = 64 THEN GATE64(type, cs, entry, dpl) ELSE GATE32(type, cs, entry, dpl)

KSEL(seg) == 8 * seg + DPL_KERN
SEG_KCODE == 1
SEG_KDATA == 2
SEG_UCODE == 3
SEG_UDATA == 4
SEG_TSS == 5

(* The task state segment of a processor lies in the kernel's data.        *)
TSS(c) == 2^20 + 70000 * c
TSS_SIZE == 104

Flat(type, dpl) == IF bits = 64 THEN SEG64(type, dpl) ELSE SEG32(type, 0, FLAT, dpl)
percpu_initgdt ==
  [seg \in {SEG_KCODE, SEG_KDATA, SEG_UCODE, SEG_UDATA, SEG_TSS} |->
     CASE seg = SEG_KCODE -> Flat(STA_X + STA_R, DPL_KERN)
       [] seg = SEG_KDATA -> Flat(STA_W, DPL_KERN)
       [] seg = SEG_UCODE -> Flat(STA_X + STA_R, DPL_USER)
       [] seg = SEG_UDATA -> Flat(STA_W, DPL_USER)
       [] seg = SEG_TSS -> SEG16(STS_T32A, TSS(cpu), TSS_SIZE - 1, DPL_KERN)]

(* __am_percpu_init: the router again lets in keyboard and serial line.    *)
percpu_init ==
  /\ todo = <<>>
  /\ stage = IF cpu = 0 THEN "router" ELSE "percpu"
  /\ gdt' = [gdt EXCEPT ![cpu] = percpu_initgdt]
  /\ todo' = ioapic_enable(IRQ_KBD, 0) \o ioapic_enable(IRQ_COM1, 0)
  /\ stage' = "initirq"
  /\ UNCHANGED <<bits, cpu, loaderVars, trmVars, idt, reg, redirection, interrupted>>

(***************************************************************************)
(* cte.c. The interrupts that have a handler of their own, of which a      *)
(* program may raise two.                                                  *)
(***************************************************************************)
NR_IRQ == 256
IRQS == (0..16) \cup {19, 31} \cup (32..47) \cup {128, 129}
Dpl(id) == IF id \in {128, 129} THEN DPL_USER ELSE DPL_KERN
irqall == 2^20 + 100
irq(id) == 2^20 + 65000 + 7 * id

cte_init ==
  /\ stage = "run" /\ cpu = 0 /\ idt = None
  /\ idt' = [id \in 0..(NR_IRQ - 1) |-> IF id \in IRQS THEN GATE(STS_TG, KSEL(SEG_KCODE), irq(id), Dpl(id))
                                        ELSE GATE(STS_TG, KSEL(SEG_KCODE), irqall, DPL_KERN)]
  /\ UNCHANGED <<bits, stage, cpu, loaderVars, trmVars, gdt, routerVars>>

(* The first processor starts the next one and waits until it is ready.    *)
bootap ==
  /\ stage = "run" /\ cpu + 1 < ncpu
  /\ cpu' = cpu + 1 /\ stage' = "kernel"
  /\ UNCHANGED <<bits, loaderVars, trmVars, gdt, idt, routerVars>>

(***************************************************************************)
(* The router: a register that selects, and one for the data.              *)
(***************************************************************************)
ioapic ==
  /\ stage \in {"router", "initirq"} /\ todo # <<>>
  /\ todo' = Tail(todo)
  /\ IF Head(todo).select THEN reg' = Head(todo).value /\ UNCHANGED redirection
     ELSE redirection' = [redirection EXCEPT ![reg] = Head(todo).value] /\ UNCHANGED reg
  /\ stage' = IF stage = "initirq" /\ Len(todo) = 1 THEN "run" ELSE stage
  /\ UNCHANGED <<bits, cpu, loaderVars, trmVars, gdt, idt, interrupted>>

Interrupt ==
  /\ stage \notin {"kernel", "elf", "heap", "table"} \/ cpu > 0
  /\ \E line \in 0..MAXINTR :
       LET entry == redirection[REG_TABLE + 2 * line]
       IN  /\ Bits(entry, 16, 1) = 0
           /\ interrupted' = <<Bits(entry, 0, 8), Bits(redirection[REG_TABLE + 2 * line + 1], 24, 8)>>
  /\ UNCHANGED <<bits, stage, cpu, loaderVars, trmVars, gdt, idt, todo, reg, redirection>>

(***************************************************************************)
(* The machines: any file on one of two processors, its segments in the    *)
(* order of their addresses and apart, any table of processors with one file, any    *)
(* size of memory with one of each.                                        *)
(***************************************************************************)
Segments == {ph \in [p_paddr : KERNEL..(KERNEL + 5), p_filesz : 0..3, p_memsz : 1..3, p_offset : 0..3] :
               /\ ph.p_filesz <= ph.p_memsz
               /\ ph.p_paddr % SECTSIZE = ph.p_offset % SECTSIZE}
Files == {<<ph1, ph2>> \in Segments \X Segments :
            /\ ph1.p_paddr + ph1.p_memsz <= ph2.p_paddr
            /\ ph1.p_offset \in {1, 2} /\ ph2.p_offset \in {0, 3}}
AFile == <<CHOOSE ph \in Segments : ph.p_filesz = 1>>
Tables == UNION {[1..n -> 0..2] : n \in 1..4}
ATable == <<1, 0, 2>>
Memories == [end : {1, MB, 3 * MB - 1}, lo : {0, 1, 255}, hi : {0, 3, 60}]
AMemory == [end |-> MB, lo |-> 0, hi |-> 7]

InitBoot ==
  /\ bits \in {32, 64}
  /\ \/ bits = 32 /\ phdrs \in Files /\ entries = ATable /\ cmos = AMemory
     \/ phdrs = AFile /\ entries \in Tables /\ cmos = AMemory
     \/ phdrs = AFile /\ entries = ATable /\ cmos \in Memories
  /\ stage = "kernel" /\ cpu = 0 /\ loaded = phdrs
  /\ memory = [a \in 0..(MEM - 1) |-> -1]
  /\ heap = None /\ ptr = 0 /\ ncpu = 0
  /\ gdt = [c \in 0..(MAX_CPU - 1) |-> None] /\ idt = None
  /\ todo = <<>> /\ reg = 0 /\ interrupted = None
  /\ redirection = [r \in REG_TABLE..(REG_TABLE + 2 * MAXINTR + 1) |-> INT_DISABLED]

BootNext == \/ load_kernel \/ load_elf
            \/ heap_init \/ lapic_init \/ percpu_init
            \/ cte_init \/ bootap
            \/ ioapic \/ Interrupt

BootSpec == InitBoot /\ [][BootNext]_bootVars

-----------------------------------------------------------------------------
(* Where the sectors of a segment lie, those read before and behind it     *)
(* included: a segment without data that begins within a sector has one.   *)
Sectors(ph) == {a \div SECTSIZE : a \in FirstSector(ph.p_paddr)..(ph.p_paddr + ph.p_filesz - 1)}

(* On every processor a program finds its arguments, what its file holds   *)
(* for each segment, and zero in the rest of it, except where the sectors  *)
(* of a later segment lie over an earlier one: there it finds what stands  *)
(* that far before the later one in the file. It is the same word in a     *)
(* file laid out as the memory is, unless it should be zero.               *)
LoadedExact ==
  stage \notin {"kernel", "elf"} \/ cpu > 0 =>
    /\ \A a \in 0..(ARGSIZE - 1) : memory[MAINARG_ADDR + a] = Disk(SECTSIZE + a)
    /\ \A i \in DOMAIN loaded :
         \A a \in loaded[i].p_paddr..(loaded[i].p_paddr + loaded[i].p_memsz - 1) :
           LET over == {j \in DOMAIN loaded : j > i /\ a \div SECTSIZE \in Sectors(loaded[j])}
               last == loaded[IF over = {} THEN i ELSE CHOOSE j \in over : \A k \in over : k <= j]
           IN  memory[a] = IF over = {} /\ a >= last.p_paddr + last.p_filesz THEN 0
                           ELSE FileAt(last.p_offset + a - last.p_paddr)

(* The heap is the memory above the program, to a MB, and the processors   *)
(* counted are those of the entries passed.                                *)
FoundExact ==
  /\ heap # None => /\ heap.end = 16 * MB + 16 * MB * cmos.hi + 2^16 * cmos.lo
                    /\ heap.start \in cmos.end..(cmos.end + MB - 1) /\ heap.start % MB = 0
  /\ \E n \in 1..(Len(entries) + 1) :
       /\ ptr = Place(n)
       /\ ncpu = Len(SelectSeq(SubSeq(entries, 1, n - 1), LAMBDA e : e = 0))
  /\ ncpu > MAX_CPU <=> stage = "panic"

(* What the processor reads out of descriptors, by its manual.             *)
BaseOf(d) == d.base_15_0 + 2^16 * d.base_23_16 + 2^24 * d.base_31_24
LimitOf(d) == d.lim_15_0 + 2^16 * d.lim_19_16
EntryOf(d) == d.off_15_0 + 2^16 * d.off_31_16

(* A processor that runs has segments that hold all the memory, two of     *)
(* them for programs, and its own task state. An interrupt goes to its own *)
(* handler or to that of all others, in the kernel's code, through a gate  *)
(* that a program may use for EX_SYSCALL and EX_YIELD only.                *)
DescriptorsExact ==
  /\ \A c \in 0..(ncpu - 1) :
       c < cpu \/ (c = cpu /\ stage = "run") =>
         /\ \A seg \in SEG_KCODE..SEG_UDATA :
              /\ BaseOf(gdt[c][seg]) = 0 /\ gdt[c][seg].s = 1
              /\ IF bits = 64 THEN gdt[c][seg].l = 1 ELSE LimitOf(gdt[c][seg]) = FLAT /\ gdt[c][seg].g = 1
              /\ gdt[c][seg].dpl = DPL_USER <=> seg \in {SEG_UCODE, SEG_UDATA}
         /\ BaseOf(gdt[c][SEG_TSS]) = TSS(c) /\ LimitOf(gdt[c][SEG_TSS]) = TSS_SIZE - 1
         /\ gdt[c][SEG_TSS].g = 0
  /\ idt # None =>
       /\ \A id \in 0..(NR_IRQ - 1) : /\ EntryOf(idt[id]) = IF id \in IRQS THEN irq(id) ELSE irqall
                                      /\ idt[id].off_63_32 = 0 /\ idt[id].cs = KSEL(SEG_KCODE)
       /\ {id \in 0..(NR_IRQ - 1) : idt[id].dpl = DPL_USER} = {128, 129}

(* Keyboard and serial line interrupt the first processor, at their        *)
(* vectors, and no other line does.                                        *)
RoutedExact ==
  /\ interrupted # None => interrupted \in {<<T_IRQ0 + IRQ_KBD, 0>>, <<T_IRQ0 + IRQ_COM1, 0>>}
  /\ stage = "run" => \A line \in 0..MAXINTR :
                        Bits(redirection[REG_TABLE + 2 * line], 16, 1) = 0 <=> line \in {IRQ_KBD, IRQ_COM1}

(* The machine comes up: trm.c, ioe.c, cte.c and boot/main.c of x86/qemu.  *)
BootExact == LoadedExact /\ FoundExact /\ DescriptorsExact /\ RoutedExact
=============================================================================
