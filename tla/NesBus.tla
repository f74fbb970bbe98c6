------------------------------- MODULE NesBus -------------------------------
(***************************************************************************)
(* What the processor of the emulator litenes sees through its addresses:  *)
(* memory.c, mmc.c, psg.c and the registers of ppu.c. A machine s is a     *)
(* record; its memories are functions on the addresses that were written,  *)
(* 0 elsewhere. A read may change the machine: memory_readb is the byte,   *)
(* after_readb the machine it leaves.                                      *)
(***************************************************************************)
EXTENDS Integers, Sequences, TLC, SequencesExt

Get(f, a) == IF a \in DOMAIN f THEN f[a] ELSE 0
Put(f, a, v) == [x \in DOMAIN f \cup {a} |-> IF x = a THEN v ELSE f[x]]

common_bit_set(value, position) == (value \div 2^position) % 2 = 1
common_modify_bitb(value, position, set) ==
  value + 2^position * ((IF set THEN 1 ELSE 0) - ((value \div 2^position) % 2))

(* The picture unit. ppu_latch and PPUSCROLL, which nothing reads, are     *)
(* left out.                                                               *)
Ppu == [PPUCTRL |-> 0, PPUMASK |-> 0, PPUSTATUS |-> 160, OAMADDR |-> 0,
        PPUSCROLL_X |-> 0, PPUSCROLL_Y |-> 0, PPUADDR |-> 0,
        scroll_received_x |-> FALSE, addr_received_high_byte |-> FALSE, addr_latch |-> 0,
        first_read |-> TRUE, ready |-> FALSE, mirroring_xor |-> 1024, scanline |-> 0,
        sprite_hit |-> FALSE, ram |-> <<>>, spr |-> <<>>]

ppu_get_real_ram_address(address) ==
  IF address < 16128 THEN address       \* 0x3F00
  ELSE LET a == address % 32 IN 16128 + (IF a \in {16, 20, 24, 28} THEN a - 16 ELSE a)
ppu_ram_read(ppu, address) == Get(ppu.ram, ppu_get_real_ram_address(address))
ppu_ram_write(ppu, address, data) ==
  [ppu EXCEPT !.ram = Put(@, ppu_get_real_ram_address(address), data)]
ppu_vram_address_increment(ppu) == IF common_bit_set(ppu.PPUCTRL, 2) THEN 32 ELSE 1
ppu_sprram_write(ppu, data) ==
  [ppu EXCEPT !.spr = Put(@, ppu.OAMADDR, data), !.OAMADDR = (@ + 1) % 256]
ppu_generates_nmi(ppu) == common_bit_set(ppu.PPUCTRL, 7)

Masked(ppu) == [ppu EXCEPT !.PPUADDR = @ % 16384]

ppuio_read(ppu, address) ==
  CASE address % 8 = 2 -> ppu.PPUSTATUS
    [] address % 8 = 4 -> Get(ppu.spr, ppu.OAMADDR)
    [] address % 8 = 7 -> ppu_ram_read(ppu, ppu.PPUADDR % 16384)
    [] OTHER -> 255

(* Mutant: the first access after the address was set not told apart.      *)
after_ppuio_read_first(q, address) ==
  LET ppu == Masked(q)
  IN  IF address % 8 = 7 THEN [ppu EXCEPT !.PPUADDR = @ + ppu_vram_address_increment(ppu)] ELSE ppu

(* The data port moves on when it is read, except for the first time.      *)
after_ppuio_read(q, address) ==
  LET ppu == Masked(q)
      seen == common_modify_bitb(common_modify_bitb(ppu.PPUSTATUS, 7, FALSE), 6, FALSE)
  IN  CASE address % 8 = 2 -> [ppu EXCEPT !.PPUSTATUS = seen, !.scroll_received_x = FALSE,
                                !.addr_received_high_byte = FALSE, !.addr_latch = 0,
                                !.first_read = TRUE]
        [] address % 8 = 7 ->
             IF ppu.first_read THEN [ppu EXCEPT !.first_read = FALSE]
             ELSE [ppu EXCEPT !.PPUADDR = @ + ppu_vram_address_increment(ppu)]
        [] OTHER -> ppu

(* A byte for the data port goes to its address and to its mirror. Writing *)
(* does not move the port on: the read that the addressing mode makes      *)
(* before every store does.                                                *)
ppuio_write(q, address, data) ==
  LET ppu == Masked(q)
      a == address % 8
      xor == ppu.mirroring_xor
      mirror == ppu.PPUADDR + xor * (1 - 2 * ((ppu.PPUADDR \div xor) % 2))
  IN  CASE a = 0 /\ ppu.ready -> [ppu EXCEPT !.PPUCTRL = data]
        [] a = 1 /\ ppu.ready -> [ppu EXCEPT !.PPUMASK = data]
        [] a = 3 -> [ppu EXCEPT !.OAMADDR = data]
        [] a = 4 -> ppu_sprram_write(ppu, data)
        [] a = 5 /\ ppu.scroll_received_x ->
             [ppu EXCEPT !.PPUSCROLL_Y = data, !.scroll_received_x = FALSE]
        [] a = 5 /\ ~ppu.scroll_received_x ->
             [ppu EXCEPT !.PPUSCROLL_X = data, !.scroll_received_x = TRUE]
        [] a = 6 /\ ppu.ready /\ ppu.addr_received_high_byte ->
             [ppu EXCEPT !.PPUADDR = ppu.addr_latch * 256 + data,
                         !.addr_received_high_byte = FALSE, !.first_read = TRUE]
        [] a = 6 /\ ppu.ready /\ ~ppu.addr_received_high_byte ->
             [ppu EXCEPT !.addr_latch = data,
                         !.addr_received_high_byte = TRUE, !.first_read = TRUE]
        [] a = 7 -> ppu_ram_write(ppu_ram_write(ppu, mirror, data), ppu.PPUADDR, data)
        [] OTHER -> ppu

(* The joystick: after a strobe, one key at each read, then 0. Keys are    *)
(* numbered in the order of MAP; the tenth entry is no key.                *)
Psg == [p |-> 10, prev_write |-> 0, key_state |-> [k \in 1..9 |-> 0]]
JOYSTICK == 16406                        \* 0x4016
psgio_read(psg, address) ==
  IF address = JOYSTICK /\ psg.p < 9 THEN psg.key_state[psg.p + 1] ELSE 0
after_psgio_read(psg, address) ==
  IF address = JOYSTICK THEN [psg EXCEPT !.p = IF @ < 10 THEN @ + 1 ELSE @] ELSE psg
psgio_write(psg, address, data) ==
  [psg EXCEPT !.p = IF address = JOYSTICK /\ data % 2 = 0 /\ psg.prev_write = 1 THEN 0 ELSE @,
              !.prev_write = data % 2]
psg_detect_key(psg, key, keydown) ==
  [psg EXCEPT !.key_state[key] = IF keydown THEN 1 ELSE 0]

(* A write to a cartridge of type 3 brings its only page of patterns back. *)
ppu_copy(ppu, page) == [ppu EXCEPT !.ram = page @@ @]
mmc_write(s, address, data) ==
  [s EXCEPT !.memory = Put(@, address, data),
            !.ppu = IF s.mmc_id = 3 /\ data % 4 = 0 THEN ppu_copy(@, s.chr) ELSE @]

memory_readb(s, address) ==
  LET a == address % 65536
  IN  CASE a \div 8192 \in {0, 3} -> Get(s.ram, a % 2048)
        [] a \div 8192 = 1 -> ppuio_read(s.ppu, a)
        [] a \div 8192 = 2 -> psgio_read(s.psg, a)
        [] OTHER -> Get(s.memory, a)

after_readb(s, address) ==
  LET a == address % 65536
  IN  CASE a \div 8192 = 1 -> [s EXCEPT !.ppu = after_ppuio_read(@, a)]
        [] a \div 8192 = 2 -> [s EXCEPT !.psg = after_psgio_read(@, a)]
        [] OTHER -> s

memory_writeb(s, address, data) ==
  LET a == address % 65536
      dma(ppu, i) == ppu_sprram_write(ppu, Get(s.ram, (256 * data + i) % 2048))
  IN  CASE a = 16404 -> [s EXCEPT !.ppu = FoldLeft(dma, @, [i \in 1..256 |-> i - 1])]
        [] a # 16404 /\ a \div 8192 \in {0, 3} -> [s EXCEPT !.ram = Put(@, a % 2048, data)]
        [] a # 16404 /\ a \div 8192 = 1 -> [s EXCEPT !.ppu = ppuio_write(@, a, data)]
        [] a # 16404 /\ a \div 8192 = 2 -> [s EXCEPT !.psg = psgio_write(@, a, data)]
        [] OTHER -> mmc_write(s, a, data)

memory_readw(s, address) == memory_readb(s, address) + 256 * memory_readb(s, address + 1)
memory_writew(s, address, data) ==
  memory_writeb(memory_writeb(s, address, data % 256), address + 1, data \div 256)
=============================================================================
