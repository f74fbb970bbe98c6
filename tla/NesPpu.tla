------------------------------- MODULE NesPpu -------------------------------
(***************************************************************************)
(* The picture of the emulator litenes: scanlines of ppu.c, the frame and  *)
(* the canvas of fce.c. A line is a set of pixels [x, y, idx] to be drawn; *)
(* no two of the background have the same place.                           *)
(***************************************************************************)
EXTENDS NesCpu, FiniteSetsExt

SCR_W == 256
SCR_H == 240

ppu_base_nametable_address(ppu) == 8192 + 1024 * (ppu.PPUCTRL % 4)
ppu_sprite_pattern_table_address(ppu) == IF common_bit_set(ppu.PPUCTRL, 3) THEN 4096 ELSE 0
ppu_background_pattern_table_address(ppu) == IF common_bit_set(ppu.PPUCTRL, 4) THEN 4096 ELSE 0
ppu_sprite_height(ppu) == IF common_bit_set(ppu.PPUCTRL, 5) THEN 16 ELSE 8
ppu_shows_background_in_leftmost_8px(ppu) == common_bit_set(ppu.PPUMASK, 1)
ppu_shows_background(ppu) == common_bit_set(ppu.PPUMASK, 3)
ppu_shows_sprites(ppu) == common_bit_set(ppu.PPUMASK, 4)
ppu_set_sprite_overflow(ppu) == [ppu EXCEPT !.PPUSTATUS = common_modify_bitb(@, 5, TRUE)]
ppu_set_sprite_0_hit(ppu, yes) == [ppu EXCEPT !.PPUSTATUS = common_modify_bitb(@, 6, yes)]
ppu_set_in_vblank(ppu, yes) == [ppu EXCEPT !.PPUSTATUS = common_modify_bitb(@, 7, yes)]

(* The two planes of a pattern put together: ppu_l_h_addition_table.       *)
Plane(v, x) == (v \div 2^(7 - x)) % 2
Color(ppu, address, x) ==
  2 * Plane(ppu_ram_read(ppu, address + 8), x) + Plane(ppu_ram_read(ppu, address), x)

(* Mutant: tiles that begin at the right edge only.                        *)
Columns_short(ppu, m) ==
  {t \in 0..31 : 8 * t - ppu.PPUSCROLL_X + m <= 248 /\ 8 * t - ppu.PPUSCROLL_X + m >= 0}

(* Tiles of the left nametable (m = 0) and of the one to its right (256)   *)
(* that may reach the screen.                                              *)
TileColumns(ppu, m) ==
  {t \in (IF ppu_shows_background_in_leftmost_8px(ppu) THEN 0 ELSE 1)..31 :
     8 * t - ppu.PPUSCROLL_X + m <= 256}

ppu_draw_background_scanline(ppu, mirror) ==
  LET m == IF mirror THEN 256 ELSE 0
      names == ppu_base_nametable_address(ppu) + 4 * m
      tile(t) == ppu_background_pattern_table_address(ppu) + (ppu.scanline % 8)
                 + 16 * ppu_ram_read(ppu, names + t + 32 * (ppu.scanline \div 8))
      shift(t) == (IF ppu.scanline % 32 >= 16 THEN 4 ELSE 0) + (IF t % 4 >= 2 THEN 2 ELSE 0)
      attribute(t) == (ppu_ram_read(ppu, names + 960 + (t \div 4) + 8 * (ppu.scanline \div 32))
                       \div 2^shift(t)) % 4
  IN  UNION {{[x |-> 8 * t + x - ppu.PPUSCROLL_X + m, y |-> ppu.scanline + 1,
               idx |-> ppu_ram_read(ppu, 16128 + 4 * attribute(t) + Color(ppu, tile(t), x)),
               column |-> 8 * t + x, color |-> Color(ppu, tile(t), x)]
                : x \in {i \in 0..7 : Color(ppu, tile(t), i) # 0}} : t \in TileColumns(ppu, m)}

(* Sprites on the scanline. Which row of a sprite is drawn follows from    *)
(* the scanline's own number, not from its distance to the sprite.         *)
Sprites(ppu) ==
  {n \in 0..63 : LET y == Get(ppu.spr, 4 * n)
                 IN  ~(y > ppu.scanline \/ y + ppu_sprite_height(ppu) < ppu.scanline)}
ppu_draw_sprite(ppu, n) ==
  LET at(i) == Get(ppu.spr, 4 * n + i)
      row == ppu.scanline % 8
      tile == ppu_sprite_pattern_table_address(ppu) + 16 * at(1)
              + (IF at(2) >= 128 THEN 7 - row ELSE row)
      color(x) == Color(ppu, tile, IF (at(2) \div 64) % 2 = 1 THEN 7 - x ELSE x)
  IN  {[x |-> at(3) + x, y |-> at(0) + row + 1, color |-> color(x),
        idx |-> ppu_ram_read(ppu, 16144 + 4 * (at(2) % 4) + color(x))]
         : x \in {i \in 0..7 : color(i) # 0}}

(* Sprite 0 hits where the last colour that the background drew at its     *)
(* place, in whatever frame, is its own colour.                            *)
ppu_draw_sprite_scanline(ppu, background) ==
  LET hit == /\ 0 \in Sprites(ppu)
             /\ ppu_shows_background(ppu) /\ ~ppu.sprite_hit
             /\ \E p \in ppu_draw_sprite(ppu, 0) : Get(background, <<p.x, p.y - 1>>) = p.color
      over == IF Cardinality(Sprites(ppu)) > 8 THEN ppu_set_sprite_overflow(ppu) ELSE ppu
  IN  [pixels |-> UNION {ppu_draw_sprite(ppu, n) : n \in Sprites(ppu)},
       ppu |-> IF hit THEN [ppu_set_sprite_0_hit(over, TRUE) EXCEPT !.sprite_hit = TRUE]
               ELSE over]

(* ppu_cycle between its three calls of cpu_run. The unit is ready as soon *)
(* as the processor has counted anything: cpu_clock() > 29658 holds of an  *)
(* unsigned count that cpu_run only subtracts from.                        *)
BeginCycle(s) == IF s.clock THEN [s EXCEPT !.ppu.ready = TRUE] ELSE s

BackgroundLine(s0) ==
  LET s == [s0 EXCEPT !.ppu.scanline = @ + 1]
      left == ppu_draw_background_scanline(s.ppu, FALSE)
      right == ppu_draw_background_scanline(s.ppu, TRUE)
      colors(line) == [c \in {<<p.column, s.ppu.scanline>> : p \in line} |->
                         (CHOOSE p \in line : p.column = c[1]).color]
  IN  IF s.ppu.scanline < SCR_H /\ ppu_shows_background(s.ppu)
      THEN [s EXCEPT !.background = colors(right) @@ colors(left) @@ @] ELSE s

SpriteLine(s) ==
  IF s.ppu.scanline < SCR_H /\ ppu_shows_sprites(s.ppu)
  THEN [s EXCEPT !.ppu = ppu_draw_sprite_scanline(@, s.background).ppu] ELSE s

EndCycle(s) ==
  CASE s.ppu.scanline = 241 ->
         cpu_interrupt([s EXCEPT !.ppu = ppu_set_in_vblank(ppu_set_sprite_0_hit(@, FALSE), TRUE)])
    [] s.ppu.scanline = 262 ->
         [s EXCEPT !.ppu = [ppu_set_in_vblank(@, FALSE) EXCEPT !.scanline = -1, !.sprite_hit = FALSE],
                   !.frame_cnt = @ + 1]
    [] OTHER -> s
=============================================================================
