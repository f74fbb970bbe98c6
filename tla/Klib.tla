-------------------------------- MODULE Klib --------------------------------
(***************************************************************************)
(* abstract-machine/klib: the string and memory functions of string.c and  *)
(* those of software/151_library/mem_util.c (named 151), the formatted     *)
(* output of sprintf and printf in stdio.c, and atoi of stdlib.c; and the  *)
(* arithmetic the processor has no instruction for, in int64.c and in the  *)
(* routines of riscv/npc/libgcc.                                           *)
(***************************************************************************)
EXTENDS Integers, Sequences, SequencesExt, FiniteSetsExt

(***************************************************************************)
(* string.c. Memory is a function from addresses to bytes, a pointer is an *)
(* address, and a function that writes returns the memory it leaves.       *)
(***************************************************************************)
(* Addresses of memory from p on at which a loop over bytes may end.       *)
Ends(m, p, Stop(_)) == Min({k \in 0..(Max(DOMAIN m) - p) : Stop(k)})

strlen(m, s) == Ends(m, s, LAMBDA k : m[s + k] = 0)

(* Bytes are copied one after the other, so the order matters where the    *)
(* areas overlap.                                                          *)
Copied(m, d, s, order) == FoldLeft(LAMBDA mm, i : [mm EXCEPT ![d + i] = mm[s + i]], m, order)
Upwards(n) == [i \in 1..n |-> i - 1]
Downwards(n) == [i \in 1..n |-> n - i]

memcpy(m, d, s, n) == Copied(m, d, s, Upwards(n))

(* Mutant: forwards whatever the overlap.                                  *)
memmove_forward(m, d, s, n) == memcpy(m, d, s, n)

memmove(m, d, s, n) == IF s > d /\ d + n > s THEN memcpy(m, d, s, n)
                       ELSE Copied(m, d, s, Downwards(n))

memmove151(m, d, s, n) == CASE s < d -> Copied(m, d, s, Downwards(n))
                            [] d < s -> Copied(m, d, s, Upwards(n))
                            [] OTHER -> m

Filled(m, p, n, v) == [a \in DOMAIN m |-> IF a \in p..(p + n - 1) THEN v ELSE m[a]]
memset(m, s, c, n) == Filled(m, s, n, c % 256)

(* Bytes up to a word boundary, words of four copies of the byte, bytes.   *)
memset151(m, p, c, n) ==
  LET head == IF (4 - (p % 4)) % 4 < n THEN (4 - (p % 4)) % 4 ELSE n
      words == 4 * ((n - head) \div 4)
      word == [i \in 0..3 |-> c % 256]
      w == Filled(m, p, head, word[0])
      filled == [a \in DOMAIN w |-> IF a \in (p + head)..(p + head + words - 1)
                                    THEN word[(a - p - head) % 4] ELSE w[a]]
  IN  Filled(filled, p + head + words, n - head - words, word[0])

strcpy(m, d, s) == [memcpy(m, d, s, strlen(m, s)) EXCEPT ![d + strlen(m, s)] = 0]

(* The first loop's n-- is done once more when it ends. Padding then stops *)
(* one byte early, and when the source is no shorter than n, n has become  *)
(* the largest number: every byte but the last one copied is cleared.      *)
strncpy(m, d, s, n) ==
  LET l == strlen(m, s)
  IN  IF l < n THEN Filled(memcpy(m, d, s, l), d + l, n - 1 - l, 0)
      ELSE [a \in DOMAIN m |-> IF a = d + n - 1 THEN memcpy(m, d, s, n)[a] ELSE 0]

strcat(m, d, s) == memcpy(m, d + strlen(m, d), s, strlen(m, s))

strcmp(m, s1, s2) ==
  LET k == Ends(m, IF s1 > s2 THEN s1 ELSE s2,
                LAMBDA i : m[s1 + i] = 0 \/ m[s2 + i] = 0 \/ m[s1 + i] # m[s2 + i])
  IN  m[s1 + k] - m[s2 + k]

strncmp(m, s1, s2, n) ==
  LET k == Ends(m, IF s1 > s2 THEN s1 ELSE s2,
                LAMBDA i : i = n \/ m[s1 + i] = 0 \/ m[s2 + i] = 0 \/ m[s1 + i] # m[s2 + i])
  IN  IF k = n THEN 0 ELSE m[s1 + k] - m[s2 + k]

memcmp(m, s1, s2, n) ==
  LET differ == {k \in 0..(n - 1) : m[s1 + k] # m[s2 + k]}
  IN  IF differ = {} THEN 0 ELSE m[s1 + Min(differ)] - m[s2 + Min(differ)]

(***************************************************************************)
(* stdio.c. A string is a sequence of characters; the static buffer is one *)
(* too, its unused end holding terminators.                                *)
(***************************************************************************)
NUL == "NUL"
Digit == <<"0", "1", "2", "3", "4", "5", "6", "7", "8", "9">>
LowerHex == Digit \o <<"a", "b", "c", "d", "e", "f">>
UpperHex == Digit \o <<"A", "B", "C", "D", "E", "F">>
Repeat(c, n) == [i \in 1..n |-> c]
From(s, i) == SubSeq(s, i, Len(s))
Peek(s) == IF s = <<>> THEN NUL ELSE Head(s)

(* How many characters of s, from its first on, are in a set.              *)
Run(s, set) == SelectInSeq(Append(s, NUL), LAMBDA c : c \notin set) - 1
Parsed(s) == FoldLeft(LAMBDA t, c : 10 * t + (CHOOSE d \in 0..9 : Digit[d + 1] = c), 0, s)

-----------------------------------------------------------------------------
(* The parsers, each from [f, fmt, args] to the same after its part of the *)
(* directive. Each but the last fails at the end of the string.            *)
FLAGS == {"-", "+", " ", "#", "0"}
flag_parser(p) ==
  LET n == Run(p.fmt, FLAGS)
      given == ToSet(SubSeq(p.fmt, 1, n))
  IN  [p EXCEPT !.fmt = From(@, n + 1),
                !.f.justify = "-" \in given, !.f.sign = "+" \in given,
                !.f.space = " " \in given /\ "+" \notin given,
                !.f.prefix = IF "#" \in given THEN 1 ELSE 0,
                !.f.zero = "0" \in given /\ "-" \notin given]

width_parser(p) ==
  LET n == Run(p.fmt, ToSet(Digit))
      w == Head(p.args)
  IN  IF Peek(p.fmt) = "*"
      THEN [p EXCEPT !.fmt = Tail(@), !.args = Tail(@),
                     !.f.width = IF w < 0 THEN -w ELSE w,
                     !.f.justify = @ \/ w < 0, !.f.zero = @ /\ w >= 0]
      ELSE [p EXCEPT !.fmt = From(@, n + 1), !.f.width = Parsed(SubSeq(p.fmt, 1, n))]

(* A precision taken from the arguments counts only when it is positive.   *)
precision_parser(p) ==
  LET rest == Tail(p.fmt)
      n == Run(rest, ToSet(Digit))
  IN  CASE Peek(p.fmt) # "." -> p
        [] Peek(p.fmt) = "." /\ Peek(rest) = "*" ->
             [p EXCEPT !.fmt = Tail(rest), !.args = Tail(@), !.f.zero = FALSE,
                       !.f.precision = IF Head(p.args) > 0 THEN Head(p.args) ELSE @]
        [] OTHER -> [p EXCEPT !.fmt = From(rest, n + 1), !.f.zero = FALSE,
                              !.f.precision = Parsed(SubSeq(rest, 1, n))]

LENGTHS == {<<"h", "h">>, <<"h">>, <<"l", "l">>, <<"l">>, <<"j">>, <<"z">>, <<"t">>, <<"L">>}
length_parser(p) ==
  LET fits == {l \in LENGTHS : IsPrefix(l, p.fmt)}
      long == CHOOSE l \in fits : \A k \in fits : Len(k) <= Len(l)
  IN  IF fits = {} THEN p
      ELSE [p EXCEPT !.fmt = From(@, Len(long) + 1), !.f.length = long]

Integral == {"d", "i", "o", "x", "X", "u", "p"}
CONVERSIONS == Integral \cup {"%", "c", "s", "f", "F", "e", "E", "a", "A", "g", "G", "n"}
conversion_parser(p) ==
  LET c == Peek(p.fmt)
  IN  IF c \notin CONVERSIONS THEN [p EXCEPT !.ok = FALSE]
      ELSE [p EXCEPT !.fmt = Tail(@), !.f.conversion = c,
                     !.f.precision = IF @ # -1 THEN @
                                     ELSE CASE c \in Integral -> 1
                                            [] c \in {"f", "F", "e", "E", "g", "G"} -> 6
                                            [] c \in {"a", "A"} -> 15
                                            [] OTHER -> -1,
                     !.f.prefix = CASE @ = 1 /\ c = "x" -> 2
                                    [] @ = 1 /\ c = "X" -> 3
                                    [] OTHER -> @]

format_parser(fmt, args) ==
  LET Stop(p) == IF p.fmt = <<>> THEN [p EXCEPT !.ok = FALSE] ELSE p
      start == [ok |-> TRUE, fmt |-> fmt, args |-> args,
                f |-> [justify |-> FALSE, sign |-> FALSE, space |-> FALSE, prefix |-> 0,
                       zero |-> FALSE, width |-> 0, precision |-> -1, length |-> <<>>,
                       conversion |-> NUL]]
      width(p) == IF p.ok THEN Stop(width_parser(p)) ELSE p
      precision(p) == IF p.ok THEN Stop(precision_parser(p)) ELSE p
      length(p) == IF p.ok THEN Stop(length_parser(p)) ELSE p
      conversion(p) == IF p.ok THEN conversion_parser(p) ELSE p
  IN  conversion(length(precision(width(Stop(flag_parser(start))))))

-----------------------------------------------------------------------------
(* Numerals: the digits from the last on, then reversed.                   *)
RECURSIVE Backwards(_, _)
Backwards(n, digits) ==
  LET base == Len(digits)
  IN  IF n = 0 THEN <<>> ELSE <<digits[(n % base) + 1]>> \o Backwards(n \div base, digits)
reverse(s) == [i \in 1..Len(s) |-> s[Len(s) + 1 - i]]
Numeral(n, digits) == IF n = 0 THEN <<"0">> ELSE reverse(Backwards(n, digits))

utos(n) == Numeral(n, Digit)
utoos(n) == Numeral(n, SubSeq(Digit, 1, 8))
utohs(n, upper_case) == Numeral(n, IF upper_case THEN UpperHex ELSE LowerHex)
itos(n) == IF n < 0 THEN <<"-">> \o utos(-n) ELSE utos(n)

(* What writers and conversions return: the text and the count, -1 for a   *)
(* refusal. The text need not be as long as the count.                     *)
Written(text, count) == [text |-> text, count |-> count]
Nothing == Written(<<>>, 0)
Refused == Written(<<>>, -1)

(* str is the string from the pointer to its terminator; write_len may     *)
(* exceed it by the terminator itself. The right-justified branch writes   *)
(* the string to its end.                                                  *)
keep_width_writer(str, write_len, f) ==
  LET cut == SubSeq(Append(str, NUL), 1, write_len)
      fill == Repeat(" ", f.width - write_len)
  IN  CASE write_len > f.width -> Written(cut, write_len)
        [] write_len <= f.width /\ f.justify -> Written(cut \o fill, f.width)
        [] OTHER -> Written(fill \o str, f.width)

(* Mutant: the zeros of the 0 flag do not make room for the sign.          *)
num_writer_wide(str, f) ==
  LET negative == Head(str) = "-"
      num == IF negative THEN Tail(str) ELSE str
      sign == IF negative THEN <<"-">>
              ELSE IF f.sign THEN <<"+">> ELSE IF f.space THEN <<" ">> ELSE <<>>
      zeros == IF f.precision > Len(num) THEN f.precision - Len(num) ELSE 0
      fill == IF f.zero THEN f.width - Len(num) ELSE zeros
      text == sign \o Repeat("0", fill) \o num
  IN  Written(text, Len(text))

num_writer(str, f) ==
  LET negative == Head(str) = "-"
      num == IF negative THEN Tail(str) ELSE str
      sign == IF negative THEN <<"-">>
              ELSE IF f.sign THEN <<"+">> ELSE IF f.space THEN <<" ">> ELSE <<>>
      prefix == CASE f.prefix = 2 -> <<"0", "x">> [] f.prefix = 3 -> <<"0", "X">> [] OTHER -> <<>>
      short == IF f.precision > Len(num) THEN f.precision - Len(num) ELSE 0
      zeros == IF f.prefix = 1 /\ short < 1 /\ num[1] # "0" THEN 1 ELSE short
      left == f.width - (Len(num) + zeros + Len(sign) + Len(prefix))
      room == IF left > 0 THEN left ELSE 0
      fill == IF f.zero THEN zeros + room ELSE zeros
      body == sign \o prefix \o Repeat("0", fill) \o num
      space == Repeat(" ", IF f.zero THEN 0 ELSE room)
      text == IF f.justify THEN body \o space ELSE space \o body
  IN  Written(text, Len(text))

(* The integer an argument is after its length modifier, for types of so   *)
(* many bits; the types of 64 bits are as those of LONG here.              *)
CONSTANTS SHORTSHORT, SHORT, LONG
ASSUME LengthAssumption == /\ SHORTSHORT \in Nat \ {0} /\ SHORT \in Nat \ {0}
                           /\ LONG \in Nat /\ LONG > SHORT

Bits(l) == CASE l = <<"h", "h">> -> SHORTSHORT [] l = <<"h">> -> SHORT [] OTHER -> LONG
AsUnsigned(n, l) == n % 2^Bits(l)
AsSigned(n, l) == LET u == n % 2^Bits(l)
                  IN  IF u < 2^(Bits(l) - 1) THEN u ELSE u - 2^Bits(l)

(* Each returns what is written and the buffer it leaves.                  *)
Left(w, buffer) == [w |-> w, buffer |-> buffer]
Overwrite(buffer, s) == s \o From(buffer, Len(s) + 1)

format_integer(f, arg, buffer) ==
  LET signed == f.conversion \in {"d", "i"}
      n == IF signed THEN AsSigned(arg, f.length) ELSE AsUnsigned(arg, f.length)
      str == CASE signed -> itos(n)
               [] f.conversion = "u" -> utos(n)
               [] f.conversion = "o" -> utoos(n)
               [] OTHER -> utohs(n, f.conversion = "X")
      empty == f.precision = 0 /\ n = 0
      hex == f.conversion \in {"x", "X"}
      g == IF hex /\ n = 0 THEN [f EXCEPT !.prefix = 0] ELSE f
  IN  CASE \/ f.length = <<"L">>
           \/ f.conversion \in {"d", "i", "u"} /\ f.prefix # 0
           \/ ~signed /\ (f.space \/ f.sign) -> Left(Refused, buffer)
        [] f.conversion \in {"d", "i", "u"} /\ f.prefix = 0 /\ empty -> Left(Nothing, buffer)
        [] f.conversion = "o" /\ empty /\ f.prefix = 0 -> Left(Nothing, Overwrite(buffer, str))
        [] hex /\ empty -> Left(Nothing, Overwrite(buffer, str))
        [] OTHER -> Left(num_writer(str, g), Overwrite(buffer, str))

(* The character goes through the buffer, which still holds the rest of    *)
(* the last number.                                                        *)
format_char(f, arg, buffer) ==
  LET chars == Overwrite(buffer, <<arg>>)
      string == SubSeq(chars, 1, Run(chars, ToSet(chars) \ {NUL}))
      len == IF f.precision >= 0 /\ Len(arg) > f.precision THEN f.precision ELSE Len(arg)
  IN  CASE f.zero \/ f.prefix # 0 -> Left(Refused, buffer)
        [] f.conversion = "c" -> Left(keep_width_writer(string, 1, f), chars)
        [] OTHER -> Left(keep_width_writer(arg, len, f), buffer)

format_pointer(arg, buffer) ==
  LET str == utohs(AsUnsigned(arg, <<>>), FALSE)
  IN  Left(Written(<<"0", "x">> \o str, Len(str) + 2), Overwrite(buffer, str))

(* The conversions of floating point numbers and %n panic; the runs do not *)
(* use them. A refused directive ends the output, its terminator missing,  *)
(* and the count is negated.                                               *)
Convert(p, buffer) ==
  CASE p.f.conversion = "%" -> Left(Written(<<"%">>, 1), buffer)
    [] p.f.conversion \in Integral \ {"p"} -> format_integer(p.f, Head(p.args), buffer)
    [] p.f.conversion \in {"c", "s"} -> format_char(p.f, Head(p.args), buffer)
    [] p.f.conversion = "p" -> format_pointer(Head(p.args), buffer)

RECURSIVE VPrint(_, _, _), VConvert(_, _, _)
VConvert(p, c, o) ==
  CASE ~p.ok -> [o EXCEPT !.count = -1]
    [] p.ok /\ c.w.count < 0 -> [o EXCEPT !.count = -o.count, !.buffer = c.buffer]
    [] OTHER -> VPrint(p.fmt, IF p.f.conversion = "%" THEN p.args ELSE Tail(p.args),
                       [text |-> o.text \o c.w.text, count |-> o.count + c.w.count,
                        buffer |-> c.buffer])
VPrint(fmt, args, o) ==
  CASE fmt = <<>> -> [o EXCEPT !.text = Append(@, NUL)]
    [] fmt # <<>> /\ Head(fmt) # "%" ->
         VPrint(Tail(fmt), args, [o EXCEPT !.text = Append(@, Head(fmt)), !.count = @ + 1])
    [] OTHER -> LET p == format_parser(Tail(fmt), args)
                IN  VConvert(p, Convert(p, o.buffer), o)

vprintf(fmt, args, buffer) == VPrint(fmt, args, [text |-> <<>>, count |-> 0, buffer |-> buffer])

(* stdlib.c: blanks are passed over and digits read; a sign ends it.       *)
atoi(s) == LET rest == From(s, Run(s, {" "}) + 1)
           IN  Parsed(SubSeq(rest, 1, Run(rest, ToSet(Digit))))

(***************************************************************************)
(* int64.c and libgcc. A word is a number of W bits, a double word of 2W.  *)
(***************************************************************************)
CONSTANT W            \* n_uword_bits, 32 in the code

ASSUME WordAssumption == W \in {4, 8, 16, 32}

Word(x) == x % 2^W
Dword(x) == x % 2^(2 * W)
high(x) == x \div 2^W
low(x) == x % 2^W
Join(h, l) == h * 2^W + l
TwosComplement(x, n) == IF x >= 2^(n - 1) THEN x - 2^n ELSE x

(* Shifts of a word, defined for less than its width.                      *)
Shl(x, n) == CASE n \in 0..(W - 1) -> Word(x * 2^n)
Shr(x, n) == CASE n \in 0..(W - 1) -> x \div 2^n
PowerOf2(x) == x \in {2^i : i \in 0..(W - 1)}

(* __clzsi2 and __ctzsi2 halve the part that holds the bit, from W / 2     *)
(* bits down to two, and look the last two up; x # 0.                      *)
Halves == SelectSeq([i \in 1..4 |-> W \div 2^i], LAMBDA s : s >= 2)

__clzsi2(a) ==
  LET last == FoldLeft(LAMBDA v, s : LET t == IF v.x \div 2^s = 0 THEN s ELSE 0
                                     IN  [x |-> Shr(v.x, s - t), r |-> v.r + t],
                       [x |-> a, r |-> 0], Halves)
  IN  last.r + (IF last.x >= 2 THEN 0 ELSE 2 - last.x)

__ctzsi2(a) ==
  LET last == FoldLeft(LAMBDA v, s : LET t == IF v.x % 2^s = 0 THEN s ELSE 0
                                     IN  [x |-> Shr(v.x, t), r |-> v.r + t],
                       [x |-> a, r |-> 0], Halves)
  IN  last.r + (IF last.x % 2 = 1 THEN 0 ELSE 2 - ((last.x % 4) \div 2))

__ctzdi2(a) == IF low(a) = 0 THEN __ctzsi2(high(a)) + W ELSE __ctzsi2(low(a))
__clzdi2(a) == IF high(a) = 0 THEN __clzsi2(low(a)) + W ELSE __clzsi2(high(a))

(* Steps of long division left when it starts, in unsigned arithmetic: a   *)
(* divisor longer than the dividend leaves a large number.                 *)
Steps(n, d) == Word(__clzsi2(high(d)) - __clzsi2(high(n)))

(* The dividend n moved right by sr bits into r:q, as the branches on sr   *)
(* put it together word by word.                                           *)
Start(n, sr) ==
  IF sr = W THEN [r |-> high(n), q |-> Join(low(n), 0), sr |-> sr]
  ELSE IF sr < W
  THEN [r |-> Join(Shr(high(n), sr), Shl(high(n), W - sr) + Shr(low(n), sr)),
        q |-> Join(Shl(low(n), W - sr), 0), sr |-> sr]
  ELSE [r |-> Shr(high(n), sr - W),
        q |-> Join(Shl(high(n), 2 * W - sr) + Shr(low(n), sr - W), Shl(low(n), 2 * W - sr)),
        sr |-> sr]

(* One bit of the quotient: r:q:carry shifted, d subtracted where it fits. *)
(* Whether it fits is the sign of d - r - 1 as a signed double word.       *)
LongStep(v, d) ==
  LET r == Dword(2 * v.r + v.q \div 2^(2 * W - 1))
      fits == TwosComplement(Dword(d - r - 1), 2 * W) < 0
  IN  [r |-> IF fits THEN Dword(r - d) ELSE r, q |-> Dword(2 * v.q + v.carry),
       carry |-> IF fits THEN 1 ELSE 0]

(* Mutant: the last carry not brought down into the quotient.              *)
LongDivision_no_carry(s, d) ==
  LET v == FoldLeft(LAMBDA u, i : LongStep(u, d),
                    [r |-> s.r, q |-> s.q, carry |-> 0], [i \in 1..s.sr |-> i])
  IN  [quo |-> Dword(2 * v.q), rem |-> v.r]

LongDivision(s, d) ==
  LET v == FoldLeft(LAMBDA u, i : LongStep(u, d),
                    [r |-> s.r, q |-> s.q, carry |-> 0], [i \in 1..s.sr |-> i])
  IN  [quo |-> Dword(2 * v.q + v.carry), rem |-> v.r]

__udivmoddi4(a, b) ==
  LET nh == high(a)
      nl == low(a)
      dh == high(b)
      dl == low(b)
  IN  CASE nh = 0 /\ dh = 0 -> [quo |-> nl \div dl, rem |-> nl % dl]
        [] nh = 0 /\ dh # 0 -> [quo |-> 0, rem |-> nl]
        [] nh # 0 /\ dl = 0 /\ nl = 0 -> [quo |-> nh \div dh, rem |-> Join(nh % dh, 0)]
        [] nh # 0 /\ dl = 0 /\ nl # 0 /\ PowerOf2(dh) ->
             [quo |-> Shr(nh, __ctzsi2(dh)), rem |-> Join(nh % dh, nl)]
        [] nh # 0 /\ dl = 0 /\ nl # 0 /\ ~PowerOf2(dh) ->
             IF Steps(a, b) > W - 2 THEN [quo |-> 0, rem |-> a]
             ELSE LongDivision(Start(a, Steps(a, b) + 1), b)
        [] nh # 0 /\ dl # 0 /\ dh = 0 /\ PowerOf2(dl) ->
             [quo |-> IF dl = 1 THEN a ELSE LET sr == __ctzsi2(dl)
                      IN  Join(Shr(nh, sr), Shl(nh, W - sr) + Shr(nl, sr)),
              rem |-> nl % dl]
        [] nh # 0 /\ dl # 0 /\ dh = 0 /\ ~PowerOf2(dl) ->
             LongDivision(Start(a, 1 + W + __clzsi2(dl) - __clzsi2(nh)), b)
        [] nh # 0 /\ dl # 0 /\ dh # 0 ->
             IF Steps(a, b) > W - 1 THEN [quo |-> 0, rem |-> a]
             ELSE LongDivision(Start(a, Steps(a, b) + 1), b)

(* The signed functions take the sign off with an exclusive or and put it  *)
(* back the same way; the most negative number stays as it is.             *)
Minus(a) == TwosComplement(a, 2 * W) < 0
WithSign(negative, a) == IF negative THEN Dword(-a) ELSE a

__udivdi3(a, b) == __udivmoddi4(a, b).quo
__umoddi3(a, b) == __udivmoddi4(a, b).rem
__divdi3(a, b) == WithSign(Minus(a) # Minus(b),
  __udivmoddi4(WithSign(Minus(a), a), WithSign(Minus(b), b)).quo)
__divmoddi4(a, b) == [quo |-> __divdi3(a, b), rem |-> Dword(a - __divdi3(a, b) * b)]
__moddi3(a, b) == WithSign(Minus(a),
  __udivmoddi4(WithSign(Minus(a), a), WithSign(Minus(b), b)).rem)

(***************************************************************************)
(* libgcc for the processor without multiplication. __udivsi3 leaves the   *)
(* quotient in a0 and the remainder in a1.                                 *)
(***************************************************************************)
__udivsi3(a, b) ==
  LET a2(k) == Word(b * 2^k)
      k0 == Min({k \in 0..W : TwosComplement(a2(k), W) <= 0 \/ a <= a2(k)})
      bit(v, k) == IF v.a1 < a2(k) THEN v ELSE [a0 |-> v.a0 + 2^k, a1 |-> v.a1 - a2(k)]
  IN  IF b = 0 THEN [a0 |-> 2^W - 1, a1 |-> a]
      ELSE FoldLeft(bit, [a0 |-> 0, a1 |-> a], [i \in 1..(k0 + 1) |-> k0 + 1 - i])

neg(x) == Word(-x)
bltz(x) == TwosComplement(x, W) < 0
__umodsi3(a, b) == __udivsi3(a, b).a1

(* Zero is handled as a negative number, so that its quotient of all ones  *)
(* is not inverted.                                                        *)
__divsi3(a, b) ==
  IF bltz(a) THEN IF ~bltz(b) /\ b # 0 THEN neg(__udivsi3(neg(a), b).a0)
                  ELSE __udivsi3(neg(a), neg(b)).a0
  ELSE IF bltz(b) THEN neg(__udivsi3(a, neg(b)).a0) ELSE __udivsi3(a, b).a0

__modsi3(a, b) ==
  LET b1 == IF bltz(b) THEN neg(b) ELSE b
  IN  IF bltz(a) THEN neg(__udivsi3(neg(a), b1).a1) ELSE __udivsi3(a, b1).a1

__mulsi3(a, b) == FoldLeft(LAMBDA a0, i : IF (b \div 2^i) % 2 = 1 THEN Word(a0 + Word(a * 2^i)) ELSE a0,
                           0, [i \in 1..W |-> i - 1])

(* __multi3, which is __muldi3 here: the low words multiplied bit by bit   *)
(* with the carry of each addition, then the cross products.               *)
__muldi3(u, v) ==
  LET ul(i) == Word(low(u) * 2^i)
      tmp(i) == Word((low(u) * 2^i) \div 2^W)
      bit(w, i) == IF (low(v) \div 2^i) % 2 = 0 THEN w
                   ELSE [low |-> Word(w.low + ul(i)),
                         high |-> Word(tmp(i) + w.high
                                       + (IF Word(w.low + ul(i)) < w.low THEN 1 ELSE 0))]
      w == FoldLeft(bit, [low |-> 0, high |-> 0], [i \in 1..W |-> i - 1])
  IN  Join(Word(w.high + __mulsi3(low(v), high(u)) + __mulsi3(low(u), high(v))), w.low)

__ashldi3(u, b) ==
  IF b = 0 THEN u
  ELSE IF W - b <= 0 THEN Join(Shl(low(u), b - W), 0)
  ELSE Join(Shl(high(u), b) + Shr(low(u), W - b), Shl(low(u), b))
=============================================================================
