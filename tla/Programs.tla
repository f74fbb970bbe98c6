------------------------------ MODULE Programs ------------------------------
(***************************************************************************)
(* Small programs that run on the AbstractMachine or the board: those of   *)
(* am-kernels/kernels/demo, and mmult of small/. Each is a machine with a  *)
(* state of its own; a run of the specification runs one.                  *)
(***************************************************************************)
EXTENDS Integers, FiniteSets, SequencesExt

CONSTANTS
  COLS, ROWS,    \* w, h: cells of life and of the ant's board
  DISKS,         \* H of hanoi.c
  PEGS,          \* most rows of pegs, N of galton.c
  BALLS,         \* balls on a board of one row, fewer on a larger one
  COMMANDS, CELL,    \* bf.c: characters of a program, values of a char
  TAPE,          \* bound on the cells of a tape
  BITS           \* width of mmult.c's words

VARIABLES program, s    \* the program that runs, its state

programVars == <<program, s>>

(***************************************************************************)
(* life.c: the universe is a torus; a cell is counted with its neighbours  *)
(* and then taken off.                                                     *)
(***************************************************************************)
Universe == (0..(COLS - 1)) \X (0..(ROWS - 1))
Beside(p, d) == <<(p[1] + d[1] + COLS) % COLS, (p[2] + d[2] + ROWS) % ROWS>>
Around(univ, p) == Cardinality({d \in (-1..1) \X (-1..1) : univ[Beside(p, d)]})

evolve(univ) ==
  [p \in Universe |-> LET n == IF univ[p] THEN Around(univ, p) - 1 ELSE Around(univ, p)
                      IN  n = 3 \/ (n = 2 /\ univ[p])]

game_of_life == s' = [univ |-> evolve(s.univ), was |-> s.univ]
InitLife == \E univ \in [Universe -> BOOLEAN] : s = [univ |-> univ, was |-> univ]

(* A cell lives where three of a square of nine do, and stays where four.  *)
LifeExact ==
  s.univ # s.was =>
    \A p \in Universe : s.univ[p] = (Around(s.was, p) = 3 \/ (Around(s.was, p) = 4 /\ s.was[p]))

(***************************************************************************)
(* ant.c: the board follows an ant that leaves it: all of pix is moved by  *)
(* one place or one row, and the column or row that came in is cleared.    *)
(***************************************************************************)
Pix == 0..(COLS * ROWS - 1)
Moved(pix, n) == [i \in Pix |-> IF i - n \in Pix THEN pix[i - n] ELSE pix[i]]
Cleared(pix, area) == [i \in Pix |-> pix[i] /\ i \notin area]
Column(x) == {i \in Pix : i % COLS = x}
Row(y) == {i \in Pix : i \div COLS = y}

(* Mutant: the column that came in keeps the ends of the other rows.       *)
Follow_wrapping(pix, x, y) ==
  CASE x < 0 -> Moved(pix, 1)
    [] x >= COLS -> Moved(pix, -1)
    [] OTHER -> IF y >= ROWS THEN Cleared(Moved(pix, -COLS), Row(ROWS - 1))
                ELSE IF y < 0 THEN Cleared(Moved(pix, COLS), Row(0)) ELSE pix

Follow(pix, x, y) ==
  CASE x < 0 -> Cleared(Moved(pix, 1), Column(0))
    [] x >= COLS -> Cleared(Moved(pix, -1), Column(COLS - 1))
    [] OTHER -> IF y >= ROWS THEN Cleared(Moved(pix, -COLS), Row(ROWS - 1))
                ELSE IF y < 0 THEN Cleared(Moved(pix, COLS), Row(0)) ELSE pix
Inside(z, size) == IF z < 0 THEN 0 ELSE IF z >= size THEN size - 1 ELSE z

ant == LET i == s.y * COLS + s.x
           d == IF s.pix[i] THEN <<-s.d[2], s.d[1]>> ELSE <<s.d[2], -s.d[1]>>
           x == s.x + d[1]
           y == s.y + d[2]
       IN  s' = [pix |-> Follow([s.pix EXCEPT ![i] = ~@], x, y), d |-> d,
                 x |-> Inside(x, COLS), y |-> Inside(y, ROWS),
                 was |-> [pix |-> s.pix, x |-> s.x, y |-> s.y]]

InitAnt == s = [pix |-> [i \in Pix |-> FALSE], d |-> <<0, 1>>, x |-> COLS \div 2, y |-> ROWS \div 2,
                was |-> [pix |-> [i \in Pix |-> TRUE], x |-> COLS, y |-> ROWS]]

(* What the board showed it shows where it has moved to, but for the place *)
(* the ant left, and what came in is empty.                                *)
AntExact ==
  s.was.x # COLS =>
    \A i \in Pix :
      LET x == (i % COLS) + s.was.x + s.d[1] - s.x     \* where the place was
          y == (i \div COLS) + s.was.y + s.d[2] - s.y
      IN  s.pix[i] = IF x \in 0..(COLS - 1) /\ y \in 0..(ROWS - 1)
                     THEN s.was.pix[y * COLS + x] # (x = s.was.x /\ y = s.was.y)
                     ELSE FALSE

(***************************************************************************)
(* hanoi.c: a stack of calls, three towers, and a screen to which a disk   *)
(* is drawn and from which it is erased at the place where it lies.        *)
(***************************************************************************)
text(y, i, d) == {DISKS - y + 1} \X
                 {(DISKS + 1) * (2 * i + 1) - d + k : k \in 0..(2 * d - 1)}

add_disk(towers, screen, i, d) ==
  [t |-> [towers EXCEPT ![i] = Append(@, d)], screen |-> screen \cup text(Len(towers[i]) + 1, i, d)]
remove_disk(towers, screen, i) ==
  [t |-> [towers EXCEPT ![i] = SubSeq(@, 1, Len(@) - 1)],
   screen |-> screen \ text(Len(towers[i]), i, towers[i][Len(towers[i])])]

move(n, from, to, via) ==
  IF n = 0 THEN <<>>
  ELSE <<[n |-> n - 1, from |-> from, to |-> via, via |-> to],
         [n |-> -1, from |-> from, to |-> to, via |-> via],
         [n |-> n - 1, from |-> via, to |-> to, via |-> from]>>

hanoi ==
  /\ s.calls # <<>>
  /\ LET call == Head(s.calls)
         lifted == remove_disk(s.t, s.screen, call.from)
         laid == add_disk(lifted.t, lifted.screen, call.to, s.t[call.from][Len(s.t[call.from])])
     IN  IF call.n < 0
         THEN s' = [t |-> laid.t, screen |-> laid.screen, calls |-> Tail(s.calls)]
         ELSE s' = [s EXCEPT !.calls = move(call.n, call.from, call.to, call.via) \o Tail(@)]

InitHanoi ==
  s = LET first == FoldLeft(LAMBDA z, c : add_disk(z.t, z.screen, 0, c),
                            [t |-> [i \in 0..2 |-> <<>>], screen |-> {}],
                            [k \in 1..DISKS |-> DISKS + 1 - k])
      IN  [t |-> first.t, screen |-> first.screen,
           calls |-> <<[n |-> DISKS, from |-> 0, to |-> 2, via |-> 1]>>]

(* No disk ever lies on a smaller one, the screen shows the towers and no  *)
(* trace of what was moved, and in the end all lie on the third.           *)
HanoiExact ==
  /\ \A i \in 0..2 : \A k \in 1..(Len(s.t[i]) - 1) : s.t[i][k] > s.t[i][k + 1]
  /\ s.screen = UNION {text(k, i, s.t[i][k]) : <<i, k>> \in {p \in (0..2) \X (1..DISKS) : p[2] <= Len(s.t[p[1]])}}
  /\ s.calls = <<>> => s.t[2] = [k \in 1..DISKS |-> DISKS + 1 - k]

(***************************************************************************)
(* galton.c: balls fall between pegs, one after the other in each round;   *)
(* what a place shows is "*" for a peg and else the ball on it.            *)
(***************************************************************************)
BoardWidth == 2 * s.n + 1
BoardHeight == 2 * s.n + 2      \* h; the program takes 30 lines or more
Places(n) == (0..(2 * n + 1)) \X (0..(2 * n))
Pegs(n) == UNION {{<<2 * i + 2, j + n>> : j \in {k \in -i..i : (k + i) % 2 = 0}} : i \in 0..(n - 1)}
Free(y, x) == s.b[<<y, x>>] = " "
Side(y, x) == Free(y, x) /\ Free(y + 1, x)

(* Where a ball over c may go: each side with some chance, the right one   *)
(* surely over a peg, nowhere if none is free or chance will have it.      *)
Sides(y, x, c) ==
  LET right == x < BoardWidth - 1 /\ Side(y, x + 1)
      left == x > 0 /\ Side(y, x - 1)
      may == (IF right THEN {1} ELSE {}) \cup (IF left THEN {-1} ELSE {})
  IN  IF may = {} THEN {0} ELSE IF c = "*" THEN may ELSE may \cup {0}

Place(i, y, x, kill) ==
  s' = [s EXCEPT !.b = [[@ EXCEPT ![<<s.y[i], s.x[i]>>] = " "] EXCEPT ![<<y, x>>] = "o"],
                 !.y[i] = IF kill THEN -1 ELSE y, !.x[i] = x, !.i = i + 1]

moveBall == LET i == s.i
                y == s.y[i]
                x == s.x[i]
            IN  /\ ~s.full /\ i <= Len(s.y)
                /\ IF y < 0 THEN s' = [s EXCEPT !.i = i + 1]
                   ELSE IF y = BoardHeight - 1 THEN s' = [s EXCEPT !.y[i] = -1, !.i = i + 1]
                   ELSE IF Free(y + 1, x) THEN Place(i, y + 1, x, FALSE)
                   ELSE \E o \in Sides(y, x, s.b[<<y + 1, x>>]) : Place(i, y, x + o, o = 0)

run == /\ ~s.full /\ s.i > Len(s.y)
       /\ IF s.step = 1 /\ Len(s.y) < BALLS \div s.n
          THEN IF Free(0, BoardWidth \div 2)
               THEN s' = [s EXCEPT !.b[<<0, BoardWidth \div 2>>] = "o", !.y = Append(@, 0),
                                   !.x = Append(@, BoardWidth \div 2), !.i = 1, !.step = 0]
               ELSE s' = [s EXCEPT !.full = TRUE, !.step = 0]
          ELSE s' = [s EXCEPT !.i = 1, !.step = 1]

InitGalton == \E n \in 1..PEGS :
                s = [n |-> n, b |-> [p \in Places(n) |-> IF p \in Pegs(n) THEN "*" ELSE " "],
                     y |-> <<>>, x |-> <<>>, i |-> 1, step |-> 0, full |-> FALSE]

(* The pegs stay, no ball vanishes or lands on another, and one that falls *)
(* is where the board shows it.                                            *)
GaltonExact ==
  /\ {p \in Places(s.n) : s.b[p] = "*"} = Pegs(s.n)
  /\ Cardinality({p \in Places(s.n) : s.b[p] = "o"}) = Len(s.y)
  /\ LET falling == {i \in 1..Len(s.y) : s.y[i] >= 0}
     IN  /\ \A i \in falling : s.b[<<s.y[i], s.x[i]>>] = "o"
         /\ \A i, j \in falling : i # j => <<s.y[i], s.x[i]>> # <<s.y[j], s.x[j]>>

(***************************************************************************)
(* bf.c: a list of commands with the stack of open brackets chained in it, *)
(* then its execution.                                                     *)
(***************************************************************************)
Commands == {"+", "<", ">", "[", "]"}     \* - is + backwards, . and , leave the tape

Loaded(z, ch) ==
  IF ch = "]" /\ z.j = <<>> THEN z
  ELSE LET n == Len(z.list) + 1
       IN  CASE ch = "[" -> [list |-> Append(z.list, [cmd |-> ch, jmp |-> 0]), j |-> <<n>> \o z.j]
             [] ch = "]" -> [list |-> Append([z.list EXCEPT ![Head(z.j)].jmp = n],
                                             [cmd |-> ch, jmp |-> Head(z.j)]),
                             j |-> Tail(z.j)]
             [] OTHER -> [z EXCEPT !.list = Append(@, [cmd |-> ch, jmp |-> 0])]

load(code) == LET z == FoldLeft(Loaded, [list |-> <<>>, j |-> <<>>], code)
              IN  [n \in DOMAIN z.list |-> IF n \in ToSet(z.j) THEN [cmd |-> " ", jmp |-> 0] ELSE z.list[n]]

bf ==
  /\ s.n \in DOMAIN s.list
  /\ LET c == s.list[s.n]
         val == s.tape[s.m]
         jumps == (c.cmd = "[" /\ val = 0) \/ (c.cmd = "]" /\ val # 0)
         next == [s EXCEPT !.last = s.n, !.n = IF jumps THEN c.jmp + 1 ELSE s.n + 1]
     IN  CASE c.cmd = "+" -> s' = [next EXCEPT !.tape[s.m] = (@ + 1) % CELL]
           [] c.cmd = "<" -> s' = IF s.m = 1 THEN [s EXCEPT !.n = 0] ELSE [next EXCEPT !.m = @ - 1]
           [] c.cmd = ">" -> /\ s.m < TAPE
                             /\ s' = [next EXCEPT !.m = @ + 1,
                                        !.tape = IF s.m = Len(@) THEN Append(@, 0) ELSE @]
           [] OTHER -> s' = next

InitBf == \E code \in [1..COMMANDS -> Commands] :
            s = [code |-> code, list |-> load(code), n |-> 1, last |-> 0, m |-> 1, tape |-> <<0>>]

(* Brackets are joined with those they belong to and the others ignored,   *)
(* and a loop is left only when the cell is zero.                          *)
Depth(a, b) == Len(SelectSeq(SubSeq(s.list, a, b), LAMBDA c : c.cmd = "["))
                 - Len(SelectSeq(SubSeq(s.list, a, b), LAMBDA c : c.cmd = "]"))
BfExact ==
  /\ \A a, b \in DOMAIN s.list :
       s.list[a].cmd = "[" => ((s.list[a].jmp = b) <=>
                                 /\ b > a /\ Depth(a, b) = 0 /\ \A k \in a..(b - 1) : Depth(a, k) > 0)
  /\ \A a \in DOMAIN s.list : /\ s.list[a].cmd = "]" => s.list[s.list[a].jmp].jmp = a
                              /\ s.list[a].cmd = "[" => s.list[a].jmp # 0
  /\ s.last # 0 /\ s.n > s.last /\ s.list[s.last].cmd = "]" => s.tape[s.m] = 0

(***************************************************************************)
(* mmult.c: multiplication by shifts and additions of BITS bits, and the   *)
(* sum of the product of the unit matrix with that of the column numbers.  *)
(***************************************************************************)
Wrapped(x) == ((x + 2^(BITS - 1)) % (2^BITS)) - 2^(BITS - 1)
Positive(x) == IF x < 0 THEN -x ELSE x

times(a, b) ==
  LET added == FoldLeft(LAMBDA r, i : IF (Positive(b) \div (2^i)) % 2 = 1
                                      THEN Wrapped(r + Wrapped(Positive(a) * (2^i))) ELSE r,
                        0, [i \in 1..(BITS - 1) |-> i - 1])
  IN  IF (a < 0 /\ b >= 0) \/ (a >= 0 /\ b < 0) THEN Wrapped(-added) ELSE added

A(i, j) == IF i = j THEN 1 ELSE 0
B(i, j) == j
Sum(f(_), n) == FoldLeft(LAMBDA r, i : Wrapped(r + f(i)), 0, [i \in 1..n |-> i - 1])
mmult(size) == Sum(LAMBDA i : Sum(LAMBDA j : Sum(LAMBDA k : times(A(i, k), B(k, j)), size), size), size)

InitMmult == \E a, b \in (1 - 2^(BITS - 1))..(2^(BITS - 1) - 1) : s = [a |-> a, b |-> b]

(* Products are those of the processor's words, and the sum is the one     *)
(* that the program announces, CONST for eight columns.                    *)
MmultExact ==
  /\ times(s.a, s.b) = Wrapped(s.a * s.b)
  /\ s.a = 0 /\ s.b = 0 =>
       \A size \in {2, 4, 8} : mmult(size) = Wrapped(size * ((size * (size - 1)) \div 2))

(***************************************************************************)
(* aclock.c: the hands are rows of tables of sixty. cmatrix.c: a drop runs *)
(* down a column, its tail erased behind it.                               *)
(***************************************************************************)
draw_hour(rtc) == 5 * (IF rtc.hour > 12 THEN rtc.hour - 12 ELSE rtc.hour) + (rtc.minute \div 10)
draw_minute(rtc) == rtc.minute
hands(rtc) == [hour |-> draw_hour(rtc), minute |-> draw_minute(rtc)]

aclock == s' = LET next == (s.rtc.hour * 60 + s.rtc.minute + 1) % 1440
                   rtc == [hour |-> next \div 60, minute |-> next % 60]
               IN  [rtc |-> rtc, drawn |-> hands(rtc)]
InitClock == LET rtc == [hour |-> 0, minute |-> 0] IN s = [rtc |-> rtc, drawn |-> hands(rtc)]

(* The hour hand stands where the hour says, up to one place; its row is   *)
(* out of the table between ten to twelve and one o'clock.                 *)
ClockExact ==
  LET exact == ((s.rtc.hour % 12) * 60 + s.rtc.minute) \div 12
      off == (s.drawn.hour + 60 - exact) % 60
  IN  /\ off \in {0, 1, 59}
      /\ s.drawn.hour \in 0..59 <=> ~(\/ s.rtc.hour = 12
                                      \/ s.rtc.hour \in {11, 23} /\ s.rtc.minute >= 50)
      /\ s.drawn.minute \in 0..59

LINES == 24
sub_d(column, p, y) ==
  IF y \in 0..(LINES - 1) THEN [column EXCEPT ![y] = ((p % 16) * 16) % 256 >= 10] ELSE column

cmatrix ==
  LET y == (IF s.t > 28 THEN 0 ELSE s.t) + 1
      drawn == FoldLeft(LAMBDA c, d : sub_d(c, d[2], y - d[1]), s.column,
                        <<<<6, 0>>, <<5, 2 + s.x>>, <<4, 2 + s.x>>, <<3, 10 + s.x>>, <<2, 10 + s.x>>,
                          <<1, 11 + s.x>>, <<0, 0>>>>)
  IN  s' = [t |-> y, column |-> drawn, x |-> s.x]
InitMatrix == \E t \in -49..0, x \in 0..15 :
                s = [t |-> t, column |-> [y \in 0..(LINES - 1) |-> FALSE], x |-> x]

(* A column shows its drop and nothing of it further up, or of the last.   *)
MatrixExact == \A y \in 0..(LINES - 1) : s.column[y] => y \in (s.t - 5)..(s.t - 1)

(***************************************************************************)
(* donut.c: a torus turned about two axes. An angle is the point <<cosine, *)
(* sine>>, about 1024 from the origin, and rotation is followed by a step  *)
(* of Newton's method that keeps it there. C divides towards zero.         *)
(***************************************************************************)
TURN == 322             \* bound on the frames: one turn about the second axis
K2 == 5120 * 1024

R(mul, shift, p) ==
  LET x == p[1] - ((mul * p[2]) \div 2^shift)
      y == p[2] + ((mul * p[1]) \div 2^shift)
      scale == (3145728 - x * x - y * y) \div 2^11
  IN  <<(x * scale) \div 2^10, (y * scale) \div 2^10>>

Quotient(a, b) == IF a < 0 THEN -((-a) \div b) ELSE a \div b

(* What the point of the torus at angles i and j is drawn as: its depth,   *)
(* its place and its brightness, at angles a and b of the whole.           *)
Drawn(a, b, i, j) ==
  LET x0 == j[1] + 2048
      x1 == (i[1] * x0) \div 2^10
      x2 == (a[1] * j[2]) \div 2^10
      x3 == (i[2] * x0) \div 2^10
      x4 == x2 - ((a[2] * x3) \div 2^10)
      x5 == (a[2] * j[2]) \div 2^10
      x6 == K2 + 1024 * x5 + a[1] * x3
      x7 == (j[1] * i[2]) \div 2^10
      light == -a[1] * x7 - b[1] * (((-a[2] * x7) \div 2^10) + x2) - i[1] * ((j[1] * b[2]) \div 2^10)
  IN  [x |-> 25 + Quotient(30 * (b[1] * x1 - b[2] * x4), x6),
       y |-> 12 + Quotient(15 * (b[1] * x4 + b[2] * x1), x6),
       zz |-> (x6 - K2) \div 2^15,
       N |-> ((light \div 2^10) - x5) \div 2^7]
InBuffer(d) == 22 > d.y /\ d.y > 0 /\ d.x > 0 /\ 80 > d.x
Brightness(d) == IF d.N > 0 THEN d.N ELSE 0

(* The loop over b[k] that shows 49 characters of each line of 80.         *)
Shown(k) == k \in 0..1760 /\ k % 80 \in 1..49

(* The angles of the inner loops are the same in every frame, and found    *)
(* before the first.                                                       *)
inner == /\ Len(s.i) < 324
         /\ s' = [s EXCEPT !.i = Append(@, R(5, 8, Last(@))),
                           !.j = IF Len(@) < 90 THEN Append(@, R(9, 7, Last(@))) ELSE @]
donut == /\ Len(s.i) = 324 /\ s.frame < TURN
         /\ s' = [s EXCEPT !.frame = @ + 1, !.a = R(5, 7, @), !.b = R(5, 8, @)]
InitDonut == s = [frame |-> 0, a |-> <<0, 1024>>, b |-> <<0, 1024>>,
                  i |-> <<<<1024, 0>>>>, j |-> <<<<1024, 0>>>>]

(* Rotation neither shrinks nor grows what it turns; no brightness is past *)
(* the last character there is for one and no depth past a signed char, so *)
(* that nothing far wraps to the front; and of the torus nothing is cut    *)
(* off at its sides: every place drawn on is one of those shown. For one   *)
(* point of the torus in 72.                                               *)
DonutExact ==
  /\ \A p \in {Last(s.i), Last(s.j), s.a, s.b} :
       100 * (p[1] * p[1] + p[2] * p[2]) \in (99 * 2^20)..(101 * 2^20)
  /\ \A i \in {k \in DOMAIN s.i : k % 12 = 1}, j \in {k \in DOMAIN s.j : k % 6 = 1} :
       LET d == Drawn(s.a, s.b, s.i[i], s.j[j])
       IN  /\ Brightness(d) < 12 /\ d.zz \in -128..126
           /\ InBuffer(d) => Shown(80 * d.y + d.x)

(***************************************************************************)
(* bad-apple.c: a film and its sound. The bytes of sound for a frame are   *)
(* played in chunks; the loop that plays them counts should_play down to   *)
(* nothing, and that is what is taken off audio_left.                      *)
(***************************************************************************)
FILM == 4              \* frames of the payload
PERIOD == 3            \* 1000 * 1000 / FPS
SHOULD_PLAY == 5       \* (AUDIO_FREQ / FPS) * sizeof(int16_t)
CHUNK == 2             \* 4096
DELAY == 4             \* bound on the time a frame takes to draw
SOUND == 12            \* bound on audio_len

getbit(p, idx) == (p[(idx \div 8) + 1] \div 2^(7 - (idx % 8))) % 2
Least(x, y) == IF x < y THEN x ELSE y

(* The areas that play n bytes from a place on.                            *)
Chunks(at, n) == [k \in 1..((n + CHUNK - 1) \div CHUNK) |->
                    <<at + (k - 1) * CHUNK, at + Least(n, k * CHUNK)>>]

sleep_until(t, next) == IF t < next THEN next ELSE t

bad_apple ==
  /\ s.f < FILM
  /\ \E spent \in 0..DELAY :
       LET should_play == Least(SHOULD_PLAY, s.audio_left)
           left == should_play - should_play      \* when the loop is done
           next == s.now + PERIOD
       IN  s' = [s EXCEPT !.f = @ + 1, !.areas = @ \o Chunks(s.start, should_play),
                          !.start = @ + should_play, !.audio_left = @ - left,
                          !.now = next, !.time = sleep_until(s.time + spent, next)]

InitApple == \E has_audio \in BOOLEAN, audio_len \in 0..SOUND, pixel \in {<<0, 255>>, <<129, 100>>} :
  s = [f |-> 0, audio_len |-> audio_len, audio_left |-> IF has_audio THEN audio_len ELSE 0,
       start |-> 0, areas |-> <<>>, now |-> 0, time |-> 0, pixel |-> pixel]

(* No frame is shown before its time and delays do not add up: the time of *)
(* each is a multiple of the period. The sound is played without a gap, in *)
(* chunks; but since audio_left never falls, every frame plays as much as  *)
(* the first, past the end of the payload when the film is longer. The     *)
(* pixels of a byte go from its highest bit to its lowest.                 *)
AppleExact ==
  /\ s.now = s.f * PERIOD /\ s.time >= s.now
  /\ \A k \in DOMAIN s.areas :
       /\ s.areas[k][1] = IF k = 1 THEN 0 ELSE s.areas[k - 1][2]
       /\ s.areas[k][2] - s.areas[k][1] \in 1..CHUNK
  /\ s.areas # <<>> => s.areas[Len(s.areas)][2] = s.f * Least(SHOULD_PLAY, s.audio_len)
  /\ s.start > s.audio_len <=> s.audio_left > 0 /\ s.f * Least(SHOULD_PLAY, s.audio_len) > s.audio_len
  /\ \A n \in 1..2 : s.pixel[n] = FoldLeft(LAMBDA v, x : 2 * v + getbit(s.pixel, 8 * (n - 1) + x), 0,
                                           [k \in 1..8 |-> k - 1])

(***************************************************************************)
(* One of the programs at a time.                                          *)
(***************************************************************************)
InitPrograms ==
  \/ program = "life" /\ InitLife
  \/ program = "ant" /\ InitAnt
  \/ program = "hanoi" /\ InitHanoi
  \/ program = "galton" /\ InitGalton
  \/ program = "bf" /\ InitBf
  \/ program = "mmult" /\ InitMmult
  \/ program = "aclock" /\ InitClock
  \/ program = "cmatrix" /\ InitMatrix
  \/ program = "donut" /\ InitDonut
  \/ program = "bad-apple" /\ InitApple

ProgramsNext ==
  /\ \/ program = "life" /\ game_of_life
     \/ program = "ant" /\ ant
     \/ program = "hanoi" /\ hanoi
     \/ program = "galton" /\ moveBall
     \/ program = "galton" /\ run
     \/ program = "bf" /\ bf
     \/ program = "aclock" /\ aclock
     \/ program = "cmatrix" /\ cmatrix
     \/ program = "donut" /\ (inner \/ donut)
     \/ program = "bad-apple" /\ bad_apple
  /\ UNCHANGED program

ProgramsSpec == InitPrograms /\ [][ProgramsNext]_programVars

(* The programs compute and show what they set out to.                     *)
ProgramsExact ==
  /\ program = "life" => LifeExact
  /\ program = "ant" => AntExact
  /\ program = "hanoi" => HanoiExact
  /\ program = "galton" => GaltonExact
  /\ program = "bf" => BfExact
  /\ program = "mmult" => MmultExact
  /\ program = "aclock" => ClockExact
  /\ program = "cmatrix" => MatrixExact
  /\ program = "donut" => DonutExact
  /\ program = "bad-apple" => AppleExact
=============================================================================
