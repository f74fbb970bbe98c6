------------------------------ MODULE NesFrame ------------------------------
(***************************************************************************)
(* The emulator litenes running a cartridge: fce_load_rom, fce_init and    *)
(* the loop of fce_run, one scanline at a time. The cartridge is a game's  *)
(* usual beginning: wait for two vertical blanks, switch the interrupt on, *)
(* then count while the interrupt handler counts frames. What is drawn is  *)
(* NesPpu's; here the canvas is only the frame whose lines it holds.       *)
(***************************************************************************)
EXTENDS NesPpu

CONSTANT FRAMES        \* bound on the frames of the run

ASSUME FramesAssumption == FRAMES \in 3..255

VARIABLES
  nes,        \* the machine
  left,       \* cycles left of the call of cpu_run at hand
  part,      \* which of ppu_cycle's three calls that is
  scanlines,  \* scanlines left of the frame that fce_run paces
  canvas,     \* the frame drawn on the canvas last, or -1
  shown       \* the frame shown last, or -1

frameVars == <<nes, left, part, scanlines, canvas, shown>>

(* The beginning of mario-rom.c: sei, cld, the control register, the stack *)
(* and the two waits, each lda $2002, bpl; then what the model adds.       *)
Startup == <<120, 216, 169, 16, 141, 0, 32, 162, 255, 154, 173, 2, 32, 16, 251, 173, 2, 32, 16, 251>>
AWAKE == 32768 + Len(Startup)
MainLoop == <<169, 144, 141, 0, 32, 230, 16, 24, 169, 1, 105, 2, 201, 3, 240, 245, 230, 18, 76, 25, 128>>
OnBlank == <<72, 173, 2, 32, 169, 9, 230, 17, 104, 64>>
HANDLER == 33024
Code == Startup \o MainLoop
Cartridge ==
  [signature |-> TRUE, prg_block_count |-> 2, rom_type |-> 1, chr_block_count |-> 1, chr |-> (0 :> 129) @@ (8191 :> 24),
   prg |-> [a \in 32768..(32767 + Len(Code)) |-> Code[a - 32767]]
           @@ [a \in HANDLER..(HANDLER + Len(OnBlank) - 1) |-> OnBlank[a - HANDLER + 1]]
           @@ (65530 :> HANDLER % 256) @@ (65531 :> HANDLER \div 256)
           @@ (65532 :> 0) @@ (65533 :> 128)]

(* A cartridge of one block of program has it twice, one block of patterns *)
(* goes to the cartridge's page and to the picture unit (a second one is   *)
(* asserted away); types other than 0 and 3 and other files are refused.   *)
fce_load_rom(s, rom) ==
  LET mmc_id == (rom.rom_type % 256) \div 16
      block == [a \in {b \in DOMAIN rom.prg : b < 49152} |-> rom.prg[a]]
      twice == [a \in {b + 16384 : b \in DOMAIN block} |-> block[a - 16384]] @@ block
  IN  IF ~rom.signature \/ mmc_id \notin {0, 3} THEN s
      ELSE [s EXCEPT !.mmc_id = mmc_id,
                     !.memory = (IF rom.prg_block_count = 1 THEN twice ELSE rom.prg) @@ @,
                     !.chr = IF rom.chr_block_count = 1 THEN rom.chr ELSE @,
                     !.ppu = IF rom.chr_block_count = 1 THEN ppu_copy(@, rom.chr) ELSE @]

ppu_set_mirroring(s, mirroring) == [s EXCEPT !.ppu.mirroring_xor = 1024 * 2^mirroring]
ppu_init(s) == [s EXCEPT !.ppu = [Ppu EXCEPT !.ram = s.ppu.ram, !.spr = s.ppu.spr]]
fce_init(s, rom) == cpu_reset(ppu_set_mirroring(ppu_init(cpu_init(s)), rom.rom_type % 2))

PowerOn == [PC |-> 0, SP |-> 0, A |-> 0, X |-> 0, Y |-> 0, P |-> 0,
            op_value |-> 0, op_address |-> 0, op_cycles |-> 0, ram |-> <<>>, memory |-> <<>>,
            ppu |-> Ppu, psg |-> Psg, mmc_id |-> 0, chr |-> <<>>,
            clock |-> FALSE, background |-> <<>>, frame_cnt |-> 0]

(* The calls' cycles, in those of the processor.                           *)
Cycles == <<256 \div 3, (85 - 16) \div 3, 16 \div 3>>

InitFrame == /\ nes = fce_init(fce_load_rom(PowerOn, Cartridge), Cartridge)
             /\ left = Cycles[1]
             /\ part = 1
             /\ scanlines = 262
             /\ canvas = -1
             /\ shown = -1

candraw(s) == s.frame_cnt % 2 = 0

(* One turn of cpu_run's loop. The cycles of the last instruction beyond   *)
(* the call's are not made up for.                                         *)
Instruct ==
  /\ left > 0
  /\ nes' = [Step(nes) EXCEPT !.clock = TRUE]
  /\ left' = left - StepCycles(nes, nes')
  /\ UNCHANGED <<part, scanlines, canvas, shown>>

(* The rest of ppu_cycle, with the loop of fce_run around it. Lines are    *)
(* drawn in every second frame; fce_update_screen counts the frame before  *)
(* it looks whether to show, so that a canvas is shown when the frame      *)
(* after it ends.                                                          *)
Background ==
  /\ left <= 0 /\ part = 1
  /\ nes' = BackgroundLine(nes)
  /\ canvas' = IF candraw(nes) /\ nes'.ppu.scanline < SCR_H THEN nes.frame_cnt ELSE canvas
  /\ part' = 2
  /\ left' = Cycles[2]
  /\ UNCHANGED <<scanlines, shown>>

SpritesDrawn ==
  /\ left <= 0 /\ part = 2
  /\ nes' = SpriteLine(nes)
  /\ part' = 3
  /\ left' = Cycles[3]
  /\ UNCHANGED <<scanlines, canvas, shown>>

LineEnd ==
  /\ left <= 0 /\ part = 3
  /\ nes.frame_cnt < FRAMES
  /\ nes' = BeginCycle(EndCycle(nes))
  /\ part' = 1
  /\ left' = Cycles[1]
  /\ scanlines' = IF scanlines = 1 THEN 262 ELSE scanlines - 1
  /\ shown' = IF nes'.frame_cnt # nes.frame_cnt /\ candraw(nes') THEN canvas ELSE shown
  /\ UNCHANGED canvas

Cycle == Instruct \/ Background \/ SpritesDrawn \/ LineEnd

FrameSpec == InitFrame /\ [][Cycle]_frameVars /\ WF_frameVars(Cycle)

(* cpu.c, ppu.c: each frame interrupts the program once, when line 241     *)
(* ends, and the program computes what it would without the interrupt: it  *)
(* never takes the way of a sum that came out wrong, nor loses its stack.  *)
Vblanks == nes.frame_cnt + (IF nes.ppu.scanline > 241 \/ (nes.ppu.scanline = 241 /\ part = 1)
                            THEN 1 ELSE 0)
InMain == nes.PC \in AWAKE..(32767 + Len(Code))
OneInterruptPerFrame ==
  /\ InMain /\ ppu_generates_nmi(nes.ppu) => Get(nes.ram, 17) = Vblanks - 1
  /\ InMain => nes.SP = 255
  /\ Get(nes.ram, 18) = 0

(* fce.c: what is shown is a frame that was drawn, the last but one.       *)
ShownWasDrawn == shown # -1 => shown % 2 = 0 /\ shown \in {nes.frame_cnt - 2, nes.frame_cnt - 3}

(* The program is never anywhere but in its own instructions: interrupt    *)
(* and return keep the place where it was.                                 *)
OnlyItsCode == nes.PC \in (32768..(32767 + Len(Code))) \cup (HANDLER..(HANDLER + Len(OnBlank) - 1))

(* The frames that the program and the user get are the machine's.         *)
FramesExact == OneInterruptPerFrame /\ ShownWasDrawn /\ OnlyItsCode

(* The program gets through both of its waits for a vertical blank: the    *)
(* flag it polls is set and it reads it before the frame ends.             *)
StartsUp == <>(ppu_generates_nmi(nes.ppu))
=============================================================================
