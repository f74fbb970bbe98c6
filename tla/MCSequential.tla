---------------------------- MODULE MCSequential ----------------------------
(***************************************************************************)
(* What nothing interrupts. Functions of their inputs, against what they   *)
(* are for: a state is an input of one of them, and no step changes it.    *)
(* And programs that share nothing with others: one of them runs by        *)
(* itself. The functions are the circuits; the numbers of 151_library,     *)
(* string and memory functions on every pair of strings of up to three     *)
(* bytes at 0 and 4 and on every overlap, one directive of vprintf against *)
(* the C standard, for every combination of flags, after a call that has   *)
(* used the buffer, and the arithmetic of int64.c and libgcc; and of the   *)
(* emulated console instructions of the 6502, each run from memory by      *)
(* Step, and scanlines of the picture unit against the picture they are    *)
(* lines of.                                                               *)
(***************************************************************************)
EXTENDS Circuits, Ascii, Klib, NesPpu, FiniteSets

CONSTANTS COLS, ROWS, DISKS, PEGS, BALLS, COMMANDS, CELL, TAPE, BITS,
          LETTERS, NCHAR, FPS, CPS, CHAR_H, SCREEN_W, SCREEN_H, MAX_FRAMES, TYPED,
          TILES_X, TILES_Y, WIDTH, HEIGHT, MAX_LENGTH, LONGEST, N

(* Every word, with the words around zero and around the sign's change.    *)
InitPair ==
  /\ a \in Value
  /\ b \in {(e + i) % Modulus : e \in {0, Modulus \div 2}, i \in -16..16}

(* Every short immediate; of the long ones those with one or two bits set, *)
(* and their negatives.                                                    *)
Sparse(bits) == LET some == {2^i + 2^j : i, j \in bits} \cup {2^i : i \in bits}
                IN  some \cup {-v : v \in some}
Values(f) == CASE f \in {"I", "S"} -> -2048..2047
               [] f = "B" -> {2 * v : v \in -2048..2047}
               [] f = "CSR" -> 0..31
               [] f = "J" -> Sparse(1..18)
               [] f = "U" -> Sparse(12..29)

InitImm == /\ format \in Format
           /\ value \in Values(format)
           /\ rest \in Bit

-----------------------------------------------------------------------------
VARIABLES token   \* [x, bytes, n]: a value, its type's size, a buffer

Numbers(bytes) == CASE bytes = 1 -> 0..255
                   [] bytes = 2 -> (0..300) \cup {4095, 4096, 9999, 10000, 32768, 65535}
                   [] bytes = 4 -> {0, 9, 65536, 99999999, 100000000, 999999999, 1000000000,
                                    1234567890, 2147483647}
InitNumber == \E bytes \in {1, 2, 4}, n \in 2..10 :
                \E x \in Numbers(bytes) : token = [x |-> x, bytes |-> bytes, n |-> n]

RECURSIVE Decimal(_)
Decimal(x) == (IF x < 10 THEN <<>> ELSE Decimal(x \div 10)) \o <<Hex[(x % 10) + 1]>>

(* ascii.c: a number's hexadecimal digits, cut to the buffer they are      *)
(* written to, read back as what they say. Decimal digits are read to one  *)
(* more than twice the size of the type: all there are of the types of one *)
(* and two bytes, but the tenth of four is dropped.                        *)
AsciiRight ==
  LET x == token.x
      bytes == token.bytes
      digits == to_ascii_hex(x, token.n, bytes)
      cut == 2 * bytes - Len(digits)
  IN  /\ Len(digits) < token.n
      /\ ascii_hex_to(digits, bytes) = x \div 16^cut
      /\ ascii_dec_to(Decimal(x), bytes) = IF x < 1000000000 THEN x ELSE x \div 10

-----------------------------------------------------------------------------
VARIABLES area   \* [m, d, s, n]: strings when d = 4 and s = 0

Strings == {[m |-> [p \in 0..14 |->
                      IF p \in 0..2 THEN x[p + 1] ELSE IF p \in 4..6 THEN y[p - 3]
                      ELSE IF p \in {3, 7, 14} THEN 0 ELSE fill],
             d |-> 4, s |-> 0, n |-> n] : x, y \in [1..3 -> 0..2], fill \in {0, 9}, n \in 0..4}
Areas == {[m |-> [p \in 0..14 |-> p + 1], d |-> d, s |-> s, n |-> n] : d, s \in 0..8, n \in 0..6}

InitArea == area \in Strings \cup Areas

Text(m, p) == [i \in 1..strlen(m, p) |-> m[p + i - 1]]
Take(t, n) == SubSeq(t, 1, IF Len(t) < n THEN Len(t) ELSE n)
At(t, i) == IF i > Len(t) THEN 0 ELSE t[i]
Sign(x) == IF x < 0 THEN -1 ELSE IF x > 0 THEN 1 ELSE 0
Order(t, u) ==    \* lexicographic, a prefix first
  IF t = u THEN 0
  ELSE LET i == Min({k \in 1..4 : At(t, k) # At(u, k)}) IN Sign(At(t, i) - At(u, i))

MoveRight ==
  LET m == area.m
      moved == [p \in DOMAIN m |-> IF p \in area.d..(area.d + area.n - 1)
                                   THEN m[p - area.d + area.s] ELSE m[p]]
  IN  /\ memmove(m, area.d, area.s, area.n) = moved
      /\ memmove151(m, area.d, area.s, area.n) = moved
      /\ \A v \in {0, 258} :
           memset(m, area.d, v, area.n) = memset151(m, area.d, v, area.n)
      /\ memcmp(m, area.d, area.s, area.n) = 0
           <=> \A i \in 0..(area.n - 1) : m[area.d + i] = m[area.s + i]

(* Comparison, copy and concatenation of strings, in memory that holds     *)
(* anything. strcat is right only where its result ends at a byte that was *)
(* clear before. strncpy leaves the last byte of its field as it was where *)
(* it should clear it, and writes all over memory as soon as the source    *)
(* leaves no room for a terminator.                                        *)
StringRight ==
  LET m == area.m
      x == Text(m, 0)
      y == Text(m, 4)
      n == area.n
      field == 8..(8 + n - 1)
      copy == strncpy(m, 8, 0, n)
  IN  /\ Sign(strcmp(m, 0, 4)) = Order(x, y)
      /\ Sign(strncmp(m, 0, 4, n)) = Order(Take(x, n), Take(y, n))
      /\ Text(strcpy(m, 8, 0), 8) = x
      /\ Text(strcat(m, 4, 0), 4) = y \o x <=> m[4 + Len(y) + Len(x)] = 0
      /\ Len(x) < n => /\ Take(Text([copy EXCEPT ![8 + n - 1] = 0], 8), n) = x
                       /\ copy[8 + n - 1] = m[8 + n - 1]
                       /\ \A p \in DOMAIN m \ field : copy[p] = m[p]
      /\ Len(x) >= n => \A p \in DOMAIN m \ field : p # 8 + n - 1 => copy[p] = 0

StringsRight == IF area.s = 0 /\ area.d = 4 /\ area.m[3] = 0 THEN StringRight ELSE MoveRight

-----------------------------------------------------------------------------
VARIABLES directive   \* [flags, width, prec, len, conv, arg, before]

StarPrec == -2    \* precision given as * with argument 0
Widths == {0, 1, 3, 6, -3}     \* a negative one is given as * as well
Precs == {-1, 0, 1, 3, StarPrec}
Stale == {"NUL", "7"}     \* buffer[1] when the call starts

InitDirective ==
  \E flags \in SUBSET FLAGS, w \in Widths, p \in Precs, before \in Stale :
    \/ \E c \in {"d", "u", "o", "x"}, n \in {-130, -11, 0, 66},
          len \in IF p = -1 THEN {<<>>, <<"l">>, <<"h", "h">>} ELSE {<<>>} :
         directive = [flags |-> flags, width |-> w, prec |-> p, len |-> len, conv |-> c,
                      arg |-> n, before |-> before]
    \/ \E s \in {<<>>, <<"a">>, <<"a", "b", "c", "d">>} :
         directive = [flags |-> flags, width |-> w, prec |-> p, len |-> <<>>, conv |-> "s",
                      arg |-> s, before |-> before]
    \/ \E c \in {"a", NUL} :
         directive = [flags |-> flags, width |-> w, prec |-> p, len |-> <<>>, conv |-> "c",
                      arg |-> c, before |-> before]

Directive(x) == <<"%">> \o SetToSeq(x.flags)
               \o (CASE x.width = 0 -> <<>> [] x.width < 0 -> <<"*">>
                     [] OTHER -> <<Digit[x.width + 1]>>)
               \o (CASE x.prec = -1 -> <<>> [] x.prec = StarPrec -> <<".", "*">>
                     [] OTHER -> <<".", Digit[x.prec + 1]>>)
               \o x.len \o <<x.conv>>
Args(x) == (IF x.width < 0 THEN <<x.width>> ELSE <<>>)
             \o (IF x.prec = StarPrec THEN <<0>> ELSE <<>>) \o <<x.arg>>
Result(x) == vprintf(Directive(x), Args(x), <<"5", x.before, NUL, NUL, NUL, NUL, NUL, NUL, NUL, NUL>>)

(* The standard: the digits to at least the precision, none for 0 at       *)
(* precision 0; a sign or a prefix; zeros or blanks to the width.          *)
Flags(x) == IF x.width < 0 THEN x.flags \cup {"-"} ELSE x.flags
Width(x) == IF x.width < 0 THEN -x.width ELSE x.width
Precision(x) == IF x.prec = StarPrec THEN 0 ELSE x.prec
Standard(x) ==
  LET n == IF x.conv = "d" THEN AsSigned(x.arg, x.len) ELSE AsUnsigned(x.arg, x.len)
      base == CASE x.conv = "x" -> 16 [] x.conv = "o" -> 8 [] OTHER -> 10
      abs == IF n < 0 THEN -n ELSE n
      Places == {k \in 1..6 : abs >= base^(k - 1)}
      wanted == IF Precision(x) = -1 THEN 1 ELSE Precision(x)
      size == IF Cardinality(Places) < wanted THEN wanted ELSE Cardinality(Places)
      digits == [i \in 1..size |-> LowerHex[((abs \div base^(size - i)) % base) + 1]]
      number == IF x.conv = "o" /\ "#" \in Flags(x) /\ (digits = <<>> \/ digits[1] # "0")
                THEN <<"0">> \o digits ELSE digits
      lead == CASE n < 0 -> <<"-">>
                [] n >= 0 /\ x.conv = "d" /\ "+" \in Flags(x) -> <<"+">>
                [] n >= 0 /\ x.conv = "d" /\ "+" \notin Flags(x) /\ " " \in Flags(x) -> <<" ">>
                [] x.conv = "x" /\ "#" \in Flags(x) /\ n # 0 -> <<"0", "x">>
                [] OTHER -> <<>>
      text == CASE x.conv = "s" -> IF Precision(x) \in 0..Len(x.arg)
                                   THEN SubSeq(x.arg, 1, Precision(x)) ELSE x.arg
                [] x.conv = "c" -> <<x.arg>>
                [] OTHER -> lead \o number
      pad == Width(x) - Len(text)
  IN  CASE pad <= 0 -> text
        [] "-" \in Flags(x) -> text \o Repeat(" ", pad)
        [] "-" \notin Flags(x) /\ "0" \in Flags(x) /\ Precision(x) = -1
             -> lead \o Repeat("0", pad) \o number
        [] OTHER -> Repeat(" ", pad) \o text

IsNumber(x) == x.conv \in {"d", "u", "o", "x"}
RightJustified(x) == "-" \notin Flags(x)

(* Where it differs: a 0 of no digits also loses sign and width; a         *)
(* precision of 0 from the arguments is none; and a field filled on its    *)
(* left holds the string to its terminator, whatever its precision, or the *)
(* character with what an earlier number left behind it in the buffer.     *)
NoDigits(x) == /\ IsNumber(x) /\ x.arg = 0 /\ x.prec = 0
               /\ Width(x) > 0 \/ (x.conv = "d" /\ {"+", " "} \cap Flags(x) # {})
StarIgnored(x) == x.prec = StarPrec /\ (IF IsNumber(x) THEN TRUE ELSE x.conv = "s" /\ x.arg # <<>>)
Overrun(x) == /\ RightJustified(x)
              /\ \/ /\ x.conv = "s" /\ x.prec \in 0..(Len(x.arg) - 1) /\ x.prec <= Width(x)
                 \/ x.conv = "c" /\ Width(x) > 0 /\ (x.before # NUL \/ x.arg = NUL)

Refuses(x) == \/ x.conv \in {"c", "s"} /\ "#" \in Flags(x)
              \/ x.conv \in {"c", "s"} /\ x.prec = -1 /\ "0" \in Flags(x) /\ "-" \notin Flags(x)
              \/ x.conv \in {"d", "u"} /\ "#" \in Flags(x)
              \/ x.conv \in {"u", "o", "x"} /\ {"+", " "} \cap Flags(x) # {}

(* Every directive not refused writes what the standard says, with the     *)
(* exceptions named above, and an overrun's count is the standard's length *)
(* all the same: the caller cannot tell. atoi reads a number back, and 0   *)
(* where the number has a sign.                                            *)
Agrees(x, r, std) ==
  /\ Refuses(x) => r.count = 0 /\ r.text = <<>>
  /\ ~Refuses(x) /\ ~NoDigits(x) /\ ~StarIgnored(x) =>
       /\ r.count = Len(std)
       /\ r.text = std \o <<NUL>> <=> ~Overrun(x)
       /\ x.conv = "d" => atoi(r.text) = IF {"-", "+"} \cap ToSet(std) # {} THEN 0
                                         ELSE AsSigned(x.arg, x.len)
PrintfRight == Agrees(directive, Result(directive), Standard(directive))

-----------------------------------------------------------------------------
(* The soft arithmetic against the operators of TLA+: every double word of *)
(* 2W bits for the divisor and those near the edges of the halves and of   *)
(* the sign for the dividend; the staged bit counts of wider words too.    *)
VARIABLES operands   \* [a, b]

Wide == INSTANCE Klib WITH W <- 8

Dwords == 0..(2^(2 * W) - 1)
Edges == {e + i : e \in {0, 2^W, 2^(2 * W - 1), 2^(2 * W)}, i \in -24..24} \cap Dwords
InitOperands == operands \in [a : Edges, b : Dwords]

(* C's quotient and remainder: towards zero, and of the dividend's sign.   *)
Abs(x) == IF x < 0 THEN -x ELSE x
Quotient(x, y) == (IF (x < 0) = (y < 0) THEN 1 ELSE -1) * (Abs(x) \div Abs(y))
Remainder(x, y) == x - y * Quotient(x, y)

(* The division functions agree with division on every pair of double      *)
(* words with a divisor other than 0; the only overflow wraps around.      *)
DivisionRight ==
  LET u == operands.a
      v == operands.b
      x == TwosComplement(u, 2 * W)
      y == TwosComplement(v, 2 * W)
  IN  v # 0 => /\ __udivdi3(u, v) = u \div v
               /\ __umoddi3(u, v) = u % v
               /\ __divdi3(u, v) = Dword(Quotient(x, y))
               /\ __moddi3(u, v) = Dword(Remainder(x, y))
               /\ __divmoddi4(u, v) = [quo |-> __divdi3(u, v), rem |-> __moddi3(u, v)]

(* Words divide as the instructions of the M extension would, by 0 too.    *)
WordDivisionRight ==
  LET u == operands.a
      v == operands.b
      x == TwosComplement(u, W)
      y == TwosComplement(v, W)
  IN  u < 2^W /\ v < 2^W =>
        /\ __udivsi3(u, v).a0 = IF v = 0 THEN 2^W - 1 ELSE u \div v
        /\ __umodsi3(u, v) = IF v = 0 THEN u ELSE u % v
        /\ __divsi3(u, v) = IF v = 0 THEN 2^W - 1 ELSE Word(Quotient(x, y))
        /\ __modsi3(u, v) = IF v = 0 THEN u ELSE Word(Remainder(x, y))
        /\ __mulsi3(u, v) = Word(u * v)

Leading(x, n) == n - 1 - Max({i \in 0..(n - 1) : x >= 2^i})
Trailing(x, n) == Min({i \in 0..(n - 1) : x % 2^(i + 1) # 0})

BitsRight ==
  LET u == operands.a
  IN  /\ operands.b < 2 * W => __ashldi3(u, operands.b) = Dword(u * 2^operands.b)
      /\ operands.b = 0 /\ u # 0 => /\ __clzdi2(u) = Leading(u, 2 * W)
                                    /\ __ctzdi2(u) = Trailing(u, 2 * W)
                                    /\ Wide!__clzsi2(u) = Leading(u, 8)
                                    /\ Wide!__ctzsi2(u) = Trailing(u, 8)

(* Soft arithmetic is arithmetic: int64.c and riscv/npc/libgcc.            *)
ArithmeticRight == /\ DivisionRight
                   /\ WordDivisionRight
                   /\ BitsRight
                   /\ __muldi3(operands.a, operands.b) = Dword(operands.a * operands.b)

-----------------------------------------------------------------------------
(***************************************************************************)
(* Instructions against the manual of the 6502: arithmetic on the edges of *)
(* a byte, addresses at the ends of pages, calls and interrupts at every   *)
(* stack pointer.                                                          *)
(***************************************************************************)
VARIABLES trial   \* [kind, a, m, c]: two bytes and the carry, or x, y, sp

ByteEdges == {0, 1, 2, 64, 85, 127, 128, 129, 170, 254, 255}
InitTrial ==
  trial \in [kind : {"alu", "halves"}, a : ByteEdges, m : ByteEdges, c : {0, 1}]
       \cup [kind : {"address"}, a : ByteEdges, m : ByteEdges, c : {0}]
       \cup [kind : {"stack"}, a : 0..255, m : {0, 85, 170, 255}, c : {0}]

(* A machine whose RAM holds at each address a byte that differs from its  *)
(* neighbours', with a program at the top of a page of the cartridge.      *)
CODE == 33022                            \* 0x80FE
NMI == 36864
Byte(i) == (7 * i + (i \div 256) + 3) % 256
RamAtStart == [i \in 0..2047 |-> Byte(i)]
Machine(program, acc, x, y, sp, p) ==
  [PC |-> CODE, SP |-> sp, A |-> acc, X |-> x, Y |-> y, P |-> p,
   op_value |-> 0, op_address |-> 0, op_cycles |-> 0,
   ram |-> RamAtStart,
   memory |-> [i \in CODE..(CODE + Len(program) - 1) |-> program[i - CODE + 1]]
              @@ (65530 :> NMI % 256) @@ (65531 :> NMI \div 256),
   ppu |-> [Ppu EXCEPT !.PPUCTRL = 128], psg |-> Psg, mmc_id |-> 0, chr |-> <<>>]

RECURSIVE Turns(_, _)
Turns(s, n) == IF n = 0 THEN s ELSE Turns(Step(s), n - 1)
Byte2(v) == IF v >= 128 THEN v - 256 ELSE v     \* as a signed number
ZN(s, v) == FlagSet(s, zero_bp) = (v = 0) /\ FlagSet(s, negative_bp) = (v >= 128)

(* The machines of a trial and how many instructions each runs; r holds    *)
(* what has become of them.                                                *)
AluTrials ==
  LET with(program, n) == [s |-> Machine(program, trial.a, 0, 0, 255, trial.c), n |-> n]
      one(code) == with(<<code, trial.m>>, 1)
      nine(code) == with([i \in 1..9 |-> code], 9)
  IN  [sum |-> one(105), difference |-> one(233), compare |-> one(201), and |-> one(41),
       or |-> one(9), eor |-> one(73), rol |-> nine(42), ror |-> nine(106)]

(* Sum, difference and comparison, their carry and their overflow, and     *)
(* rotation: nine places bring a byte and its carry back.                  *)
AluRuns(r) ==
  LET acc == trial.a
      m == trial.m
      c == trial.c
      signed(v) == v \in -128..127
  IN  /\ r.sum.A + 256 * Carry(r.sum) = acc + m + c
      /\ FlagSet(r.sum, overflow_bp) = ~signed(Byte2(acc) + Byte2(m) + c)
      /\ r.difference.A = (acc - m - (1 - c)) % 256
      /\ Carry(r.difference) = (IF acc >= m + (1 - c) THEN 1 ELSE 0)
      /\ FlagSet(r.difference, overflow_bp) = ~signed(Byte2(acc) - Byte2(m) - (1 - c))
      /\ ZN(r.sum, r.sum.A) /\ ZN(r.difference, r.difference.A)
      /\ FlagSet(r.compare, carry_bp) = (acc >= m)
      /\ ZN(r.compare, (acc - m) % 256) /\ r.compare.A = acc
      /\ \A s \in {r.rol, r.ror} : s.A = acc /\ Carry(s) = c
      /\ r.eor.A = r.or.A - r.and.A /\ r.or.A = acc + m - r.and.A

AddressTrials ==
  LET x == trial.a
      z == trial.m
      one(code, index) == [s |-> Machine(<<code, z, 7>>, 0, index, index, 255, 0), n |-> 1]
  IN  [zp |-> one(165, x), zpx |-> one(181, x), abs |-> one(173, x), absx |-> one(189, x),
       absy |-> one(185, x), indx |-> one(161, x), indy |-> one(177, x),
       branch |-> one(144, 0), jump |-> one(108, 0)]

(* A load takes its byte from where the manual says: indices and pointers  *)
(* stay in the zero page, a jump's pointer in its page, and a branch goes  *)
(* from the instruction after it.                                          *)
AddressRuns(r) ==
  LET x == trial.a
      z == trial.m
      word(i) == Byte(i % 256) + 256 * Byte((i + 1) % 256)
      at(s, i) == IF (i % 65536) \div 8192 \in {0, 3} THEN Byte((i % 65536) % 2048)
                  ELSE Get(s.memory, i % 65536)
      readable(i) == i % 65536 \notin 8192..24575
      absolute == z + 1792
  IN  /\ r.zp.A = Byte(z) /\ r.zp.PC = CODE + 2
      /\ r.zpx.A = Byte((z + x) % 256)
      /\ r.abs.A = Byte(absolute) /\ r.abs.PC = CODE + 3
      /\ r.absx.A = Byte((absolute + x) % 2048) /\ r.absy.A = r.absx.A
      /\ readable(word(z + x)) => r.indx.A = at(r.indx, word(z + x))
      /\ readable(word(z) + x) => r.indy.A = at(r.indy, word(z) + x)
      /\ r.branch.PC = CODE + 2 + Byte2(z)
      /\ r.jump.PC = Byte(absolute) + 256 * Byte(IF z = 255 THEN 1792 ELSE absolute + 1)

Handler == <<72, 169, 0, 104, 64>>       \* saves A, clears it, restores it, returns
StackTrials ==
  LET sp == trial.a
      p == trial.m
      calling == [Machine(<<32, 0, 144>>, 0, 0, 0, sp, p) EXCEPT !.memory = (NMI :> 96) @@ @]
      handling == [Machine(<<234>>, 17, 0, 0, sp, p) EXCEPT
                     !.memory = [i \in NMI..(NMI + 4) |-> Handler[i - NMI + 1]] @@ @]
  IN  [saved |-> [s |-> Machine(<<72, 169, 1, 104>>, p, 0, 0, sp, 0), n |-> 3],
       flags |-> [s |-> Machine(<<8, 56, 40>>, 0, 0, 0, sp, p), n |-> 3],
       call |-> [s |-> calling, n |-> 1], back |-> [s |-> calling, n |-> 2],
       handler |-> [s |-> cpu_interrupt(handling), n |-> 0],
       resumed |-> [s |-> cpu_interrupt(handling), n |-> 4]]

(* What is pushed comes back whatever the stack pointer, even where it     *)
(* wraps: a call returns behind it, and an interrupt whose handler saves   *)
(* and restores A leaves only the interrupt flag and the unused flag set.  *)
StackRuns(r) ==
  LET sp == trial.a
      p == trial.m
      with(flags, position, v) == common_modify_bitb(flags, position, v)
  IN  /\ \A s \in {r.saved, r.flags, r.back, r.resumed} : s.SP = sp
      /\ r.saved.A = p
      /\ r.flags.P = with(with(p, break_bp, FALSE), unused_bp, TRUE)
      /\ r.call.PC = NMI /\ r.back.PC = CODE + 3
      /\ r.handler.PC = NMI /\ r.resumed.PC = CODE /\ r.resumed.A = 17
      /\ r.resumed.P = with(with(p, interrupt_bp, TRUE), unused_bp, TRUE)
      /\ sp # 0 => \A i \in 0..255 : Get(r.resumed.ram, i) = Byte(i)

(* An instruction of the extended set does what its two halves do.         *)
Joined == {<<7, 6, 5>>, <<39, 38, 37>>, <<71, 70, 69>>, <<103, 102, 101>>,
           <<199, 198, 197>>, <<231, 230, 229>>, <<167, 165, 166>>}
HalfTrials ==
  LET with(program) ==
        [Machine(program, trial.a, 3, 0, 255, trial.c) EXCEPT !.ram[16] = trial.m]
  IN  [k \in Joined \X {1, 2} |->
         [s |-> with(IF k[2] = 1 THEN <<k[1][1], 16>> ELSE <<k[1][2], 16, k[1][3], 16>>),
          n |-> k[2]]]
HalvesRun(r) ==
  LET seen(s) == <<s.A, s.X, s.P, s.ram>>
  IN  \A code \in Joined : seen(r[<<code, 1>>]) = seen(r[<<code, 2>>])

InstructionsRight ==
  LET runs == CASE trial.kind = "alu" -> AluTrials [] trial.kind = "address" -> AddressTrials
                [] trial.kind = "stack" -> StackTrials [] trial.kind = "halves" -> HalfTrials
  IN  \A r \in {[k \in DOMAIN runs |-> Turns(runs[k].s, runs[k].n)]} :
        CASE trial.kind = "alu" -> AluRuns(r) [] trial.kind = "address" -> AddressRuns(r)
          [] trial.kind = "stack" -> StackRuns(r) [] trial.kind = "halves" -> HalvesRun(r)

-----------------------------------------------------------------------------
VARIABLES picture   \* [kind, a, b, c]: scroll, line and left column, or y, flips, height

InitPicture ==
  picture \in [kind : {"background"}, a : {0, 1, 7, 8, 9, 100, 128, 248, 249, 255},
               b : {0, 117, 239}, c : {0, 1}]
         \cup [kind : {"sprite"}, a : {0, 1, 7, 8, 100, 231, 232, 236, 239}, b : 0..3, c : {0, 1}]

Ram == [i \in (0..511) \cup (8192..10239) \cup (16128..16159) |->
          IF i < 8192 THEN (37 * i + (i \div 8)) % 256
          ELSE IF i < 16128 THEN (11 * i + (i \div 64)) % 32 ELSE i - 16128]

(* The colour of a nametable's pixel, from pattern, attribute and palette. *)
Pixel(column, line) ==
  LET table == 8192 + 1024 * (column \div 256)
      t == (column % 256) \div 8
      name == Ram[table + t + 32 * (line \div 8)]
      bits(i) == (Ram[16 * name + (line % 8) + 8 * i] \div 2^(7 - (column % 8))) % 2
      quarter == 2 * ((line \div 16) % 2) + ((t \div 2) % 2)
      palette == (Ram[table + 960 + (t \div 4) + 8 * (line \div 32)] \div 4^quarter) % 4
  IN  [color |-> bits(0) + 2 * bits(1), idx |-> 4 * palette + bits(0) + 2 * bits(1)]

(* On the screen x shows column x + scroll of two nametables side by side. *)
(* The first tile can be left out, but it is the nametable's first tile,   *)
(* not the screen's.                                                       *)
BackgroundRight ==
  LET ppu == [Ppu EXCEPT !.ram = Ram, !.PPUSCROLL_X = picture.a, !.scanline = picture.b,
                         !.PPUMASK = 8 + 2 * picture.c]
      drawn == {p \in ppu_draw_background_scanline(ppu, FALSE)
                      \cup ppu_draw_background_scanline(ppu, TRUE) : p.x \in 0..(SCR_W - 1)}
      column(x) == (x + picture.a) % 512
      opaque == {x \in 0..(SCR_W - 1) : /\ Pixel(column(x), picture.b).color # 0
                                        /\ picture.c = 1 \/ column(x) % 256 >= 8}
  IN  {<<p.x, p.y, p.idx>> : p \in drawn}
        = {<<x, picture.b + 1, Pixel(column(x), picture.b).idx>> : x \in opaque}

(* A sprite is drawn whole and once flipped, although the row drawn on a   *)
(* scanline is not the one the line crosses; near the bottom the rows of   *)
(* missing lines are lost. Sprites of two tiles show the first one only.   *)
SpriteRight ==
  LET flip == picture.b
      y == picture.a
      ppu(line) == [Ppu EXCEPT !.ram = Ram, !.scanline = line, !.PPUCTRL = 32 * picture.c,
                               !.spr = (0 :> y) @@ (1 :> 5) @@ (2 :> 64 * flip) @@ (3 :> 20)]
      lines == y..(IF y + 8 + 8 * picture.c < SCR_H THEN y + 8 + 8 * picture.c ELSE SCR_H - 1)
      drawn == UNION {ppu_draw_sprite(ppu(line), 0) : line \in {l \in 0..(SCR_H - 1) : 0 \in Sprites(ppu(l))}}
      plane(row, x, i) == (Ram[80 + row + 8 * i] \div 2^(7 - x)) % 2
      source(row) == IF flip >= 2 THEN 7 - row ELSE row
      column(x) == IF flip % 2 = 1 THEN 7 - x ELSE x
      color(row, x) == plane(source(row), column(x), 0) + 2 * plane(source(row), column(x), 1)
      rows == IF y <= 232 THEN 0..7 ELSE {l % 8 : l \in lines}
  IN  {<<p.x, p.y, p.color>> : p \in drawn}
        = {<<20 + x, y + row + 1, color(row, x)>> :
             <<row, x>> \in {q \in rows \X (0..7) : color(q[1], q[2]) # 0}}

PictureRight == IF picture.kind = "background" THEN BackgroundRight ELSE SpriteRight

-----------------------------------------------------------------------------
VARIABLES
  subject,        \* which of the functions the input is for, or which program runs
  bdd_phase, nodes, pOutputs, bdd_m, bdd_i, bdd_j, bdd_k, Var, Var2, bdd_buf, buf_next, nbuf, pSkip,
  pUnique, pMarks, count,
  snake_step, body, snake_length, index, dead, dir, food, game_board, terminal, ontail,
  game, played,
  program, reached

BDD == INSTANCE Bdd WITH phase <- bdd_phase, buf <- bdd_buf,
                         m <- bdd_m, i <- bdd_i, j <- bdd_j, k <- bdd_k
Uart == INSTANCE Snake WITH step <- snake_step, length <- snake_length
Display == INSTANCE Games WITH g <- played
Demo == INSTANCE Programs WITH s <- reached

bddVars == <<bdd_phase, nodes, pOutputs, bdd_m, bdd_i, bdd_j, bdd_k, Var, Var2, bdd_buf, buf_next, nbuf, pSkip,
             pUnique, pMarks, count>>
snakeVars == <<snake_step, body, snake_length, index, dead, dir, food, game_board, terminal, ontail>>
runVars == <<bddVars, snakeVars, game, played, program, reached>>
Inputs == <<subject, a, b, format, value, rest, token, area, directive, operands, trial, picture>>

NoPair == a = -1 /\ b = -1
NoImm == format = "none" /\ value = 0 /\ rest = 0
NoToken == token = [x |-> 0, bytes |-> 1, n |-> 3]
NoArea == area = [m |-> [x \in 0..14 |-> 0], d |-> 5, s |-> 0, n |-> 0]
NoDirective == directive = [flags |-> {}, width |-> 0, prec |-> -1, len |-> <<>>, conv |-> "c",
                            arg |-> "a", before |-> NUL]
NoOperands == operands = [a |-> 0, b |-> 0]
NoTrial == trial = [kind |-> "alu", a |-> 0, m |-> 0, c |-> 0]
NoPicture == picture = [kind |-> "sprite", a |-> 0, b |-> 0, c |-> 0]

NoBdd == /\ bdd_phase = 0 /\ nodes = 0 /\ pOutputs = 0 /\ bdd_m = 0 /\ bdd_i = 0 /\ bdd_j = 0 /\ bdd_k = 0
         /\ Var = 0 /\ Var2 = 0 /\ bdd_buf = 0 /\ buf_next = 0 /\ nbuf = 0 /\ pSkip = 0 /\ pUnique = 0
         /\ pMarks = 0 /\ count = 0
NoSnake == /\ snake_step = 0 /\ body = 0 /\ snake_length = 0 /\ index = 0 /\ dead = 0 /\ dir = 0
           /\ food = 0 /\ game_board = 0 /\ terminal = 0 /\ ontail = 0

InitSequential ==
  /\ subject \in {"circuits", "immGen", "ascii", "string", "stdio", "arithmetic", "cpu", "ppu",
                 "bdd", "snake", "games", "programs"}
  /\ IF subject = "circuits" THEN InitPair ELSE NoPair
  /\ IF subject = "immGen" THEN InitImm ELSE NoImm
  /\ IF subject = "ascii" THEN InitNumber ELSE NoToken
  /\ IF subject = "string" THEN InitArea ELSE NoArea
  /\ IF subject = "stdio" THEN InitDirective ELSE NoDirective
  /\ IF subject = "arithmetic" THEN InitOperands ELSE NoOperands
  /\ IF subject = "cpu" THEN InitTrial ELSE NoTrial
  /\ IF subject = "ppu" THEN InitPicture ELSE NoPicture
  /\ IF subject = "bdd" THEN BDD!InitBdd ELSE NoBdd
  /\ IF subject = "snake" THEN Uart!InitSnake ELSE NoSnake
  /\ IF subject = "games" THEN Display!InitGames ELSE game = "none" /\ played = 0
  /\ IF subject = "programs" THEN Demo!InitPrograms ELSE program = "none" /\ reached = 0

NextSequential ==
  /\ IF subject = "bdd" THEN BDD!BddNext ELSE UNCHANGED bddVars
  /\ IF subject = "snake" THEN Uart!SnakeNext ELSE UNCHANGED snakeVars
  /\ IF subject = "games" THEN Display!GamesNext ELSE UNCHANGED <<game, played>>
  /\ IF subject = "programs" THEN Demo!ProgramsNext ELSE UNCHANGED <<program, reached>>
  /\ UNCHANGED Inputs

SequentialSpec == InitSequential /\ [][NextSequential]_<<Inputs, runVars>>

(* The string and memory functions of klib and 151_library do what the C   *)
(* standard says, but for strncpy and strcat without a cleared terminator; *)
(* and the numbers of ascii.c are read back as they were written, but for  *)
(* the tenth digit of a decimal one.                                       *)
StringsExact == /\ subject = "string" => StringsRight
                /\ subject = "ascii" => AsciiRight

(* A directive of vprintf prints what the C standard says, but for the     *)
(* cases named above, whatever the last number left in the buffer.   *)
PrintfExact == subject = "stdio" => PrintfRight

(* Multiplication, division, shift and bit count in software are exact on  *)
(* every pair of operands, as the M extension's instructions would be.     *)
ArithmeticExact == subject = "arithmetic" => ArithmeticRight

(* The instructions of the emulated 6502 do what its manual says, at the   *)
(* edges of bytes, pages and stack.                                        *)
InstructionsExact == subject = "cpu" => InstructionsRight

(* Scanline by scanline the emulated picture unit draws the scrolled       *)
(* background and each row of each sprite, where it should.                *)
PictureExact == subject = "ppu" => PictureRight

(* bdd.c: the diagrams are reduced, counted, and those of multiplication.  *)
BddExact == subject = "bdd" => BDD!BddExact

(* snake.c and game.c, on the serial line and on a display: what is shown  *)
(* is what there is, and no more, and each point counts once.              *)
GamesExact == /\ subject = "snake" => Uart!SnakeExact
              /\ Display!GamesExact

(* demo/ and mmult.c: each program computes and shows what it sets out to. *)
ProgramsExact == Demo!ProgramsExact
=============================================================================
