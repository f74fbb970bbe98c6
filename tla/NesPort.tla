------------------------------ MODULE NesPort ------------------------------
(***************************************************************************)
(* A game at the address and data ports of the emulated picture unit, one  *)
(* access at a time in any order, beside what the unit's manual says that  *)
(* the ports do: the address moves on at every access to the data.         *)
(***************************************************************************)
EXTENDS NesBus

CONSTANTS
  ACCESSES,    \* bound on the accesses of the run
  HIGHS,       \* high bytes of the addresses that the game sets
  LOWS,        \* low bytes
  COLOURS      \* what it stores

ASSUME PortAssumption ==
  /\ ACCESSES \in Nat
  /\ HIGHS \subseteq 0..255 /\ LOWS \subseteq 0..255 /\ COLOURS \subseteq 0..255

VARIABLES
  ppu,        \* the unit
  expected,   \* the manual's address of the next data, -1 before one is set
  stored,     \* what the manual has at the addresses written
  disturbed,  \* the port was used in a way that the emulation cannot follow
  accesses    \* accesses so far

portVars == <<ppu, expected, stored, disturbed, accesses>>

STATUS == 8194
ADDRESS == 8198
DATA == 8199

InitPort == /\ \E mirroring \in {0, 1} :
                 ppu = [Ppu EXCEPT !.ready = TRUE, !.mirroring_xor = 1024 * 2^mirroring]
            /\ expected = -1
            /\ stored = <<>>
            /\ disturbed = FALSE
            /\ accesses = 0

Access == accesses < ACCESSES /\ accesses' = accesses + 1

(* Between two accesses to the data, a read of the status and half an      *)
(* address make the next access count as the first again; a new increment  *)
(* is used for the step that the access before it should have taken.       *)
Disturbs == disturbed' = (disturbed \/ ~ppu.first_read)

PollStatus == /\ Access
              /\ ppu' = after_ppuio_read(ppu, STATUS)
              /\ Disturbs
              /\ UNCHANGED <<expected, stored>>

(* sta $2006: the addressing mode reads the port before it is written.     *)
SetHigh == /\ Access
           /\ ~ppu.addr_received_high_byte
           /\ \E h \in HIGHS : ppu' = ppuio_write(after_ppuio_read(ppu, ADDRESS), ADDRESS, h)
           /\ Disturbs
           /\ UNCHANGED <<expected, stored>>

SetLow == /\ Access
          /\ ppu.addr_received_high_byte
          /\ \E l \in LOWS :
               /\ ppu' = ppuio_write(after_ppuio_read(ppu, ADDRESS), ADDRESS, l)
               /\ expected' = (256 * ppu.addr_latch + l) % 16384
          /\ disturbed' = FALSE
          /\ UNCHANGED stored

SetIncrement == /\ Access
                /\ \E c \in {0, 4} : ppu' = ppuio_write(ppu, 8192, c)
                /\ IF ppu'.PPUCTRL = ppu.PPUCTRL THEN UNCHANGED disturbed ELSE Disturbs
                /\ UNCHANGED <<expected, stored>>

Ready == expected # -1 /\ ~disturbed /\ ~ppu.addr_received_high_byte
Following == (expected + ppu_vram_address_increment(ppu)) % 16384

(* The manual's memory: a nametable and its mirror are one, and so are the *)
(* palette entries of colour 0. Games store to these two areas. (The test  *)
(* before a byte is mirrored is always true: a store to the patterns would *)
(* reach a second pattern as well.)                                        *)
Nametables == 8192..12287
Palettes == 16128..16383
Place(a) == ppu_get_real_ram_address(a)
Mirror(a) == LET x == ppu.mirroring_xor
             IN  IF a \in Nametables THEN 2 * x * (a \div (2 * x)) + ((a + x) % (2 * x)) ELSE a

StoreData == /\ Access /\ Ready /\ expected \in Nametables \cup Palettes
             /\ \E b \in COLOURS :
                  /\ ppu' = ppuio_write(after_ppuio_read(ppu, DATA), DATA, b)
                  /\ stored' = Put(Put(stored, Place(Mirror(expected)), b), Place(expected), b)
             /\ expected' = Following
             /\ UNCHANGED disturbed

LoadData == /\ Access /\ Ready
            /\ ppu' = after_ppuio_read(ppu, DATA)
            /\ expected' = Following
            /\ UNCHANGED <<stored, disturbed>>

PortNext == PollStatus \/ SetHigh \/ SetLow \/ SetIncrement \/ StoreData \/ LoadData

PortSpec == InitPort /\ [][PortNext]_portVars

(* ppu.c: the read that every store makes first moves the port to where    *)
(* the manual says that the store goes, so that whatever was stored is     *)
(* where it belongs, over wraps, mirrors and palettes.                     *)
Landing == IF ppu.first_read THEN ppu.PPUADDR
           ELSE ppu.PPUADDR + ppu_vram_address_increment(ppu)
DataPortExact ==
  /\ Ready => Landing % 16384 = expected
  /\ \A a \in DOMAIN stored : ppu_ram_read(ppu, a) = stored[a]
=============================================================================
