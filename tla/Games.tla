------------------------------- MODULE Games -------------------------------
(***************************************************************************)
(* Games on a display that can only be written: what they want to vanish   *)
(* they have to draw over, and they draw what has changed alone. These are *)
(* am-kernels/kernels/typing-game and snake of am-kernels/kernels; a run   *)
(* of the specification plays one of them.                                 *)
(***************************************************************************)
EXTENDS Integers, FiniteSets, SequencesExt

CONSTANTS
  LETTERS,            \* characters that fall
  NCHAR,              \* places for them
  FPS, CPS,           \* frames and new characters in a second
  CHAR_H,             \* rows of a character, which is one column wide
  SCREEN_W, SCREEN_H, \* of the typing game
  MAX_FRAMES, TYPED,  \* bounds on the frames and the keys of a game
  TILES_X, TILES_Y,   \* the snake's screen, in tiles
  MAX_LENGTH,         \* points of the snake's ring
  LONGEST             \* bound on its length, below MAX_LENGTH

VARIABLES game, g    \* the game that is played, its state

gamesVars == <<game, g>>

(***************************************************************************)
(* typing-game/game.c. chars[i] with ch 0 is free; v > 0 falls, v < 0 has  *)
(* been hit and rises, v = 0 lies at the bottom until t is over.           *)
(***************************************************************************)
NoChar == [ch |-> 0, x |-> 0, y |-> 0, v |-> 0, t |-> 0]
Slots == 1..NCHAR
Bottom == SCREEN_H - CHAR_H
Screen == (0..(SCREEN_W - 1)) \X (0..(SCREEN_H - 1))

(* Every character new_char may make: its speed is that of a fall of one   *)
(* and a half to two seconds.                                              *)
Fresh == [ch : LETTERS, x : 0..(SCREEN_W - 1), y : {0},
          v : {(Bottom + 1) \div d : d \in ((FPS * 3) \div 2)..(FPS * 2)}, t : {0}]

new_char(chars) ==
  LET vacant == {i \in Slots : chars[i].ch = 0}
  IN  IF vacant = {} THEN {chars}
      ELSE {[chars EXCEPT ![CHOOSE i \in vacant : \A j \in vacant : i <= j] = c] : c \in Fresh}

Rising == -((Bottom + 1) \div FPS)

Advanced(c) ==
  LET y == c.y + c.v
  IN  CASE c.ch = 0 -> c
        [] c.ch # 0 /\ c.t > 0 -> [c EXCEPT !.t = @ - 1, !.ch = IF c.t = 1 THEN 0 ELSE @]
        [] c.ch # 0 /\ c.t = 0 /\ y + CHAR_H >= SCREEN_H -> [c EXCEPT !.v = 0, !.y = Bottom, !.t = FPS]
        [] OTHER -> [c EXCEPT !.y = y, !.ch = IF y < 0 THEN 0 ELSE @]

Missed(chars) == {i \in Slots : chars[i].ch # 0 /\ chars[i].t = 0
                                  /\ chars[i].y + chars[i].v + CHAR_H >= SCREEN_H}

game_logic_update ==
  /\ g.step = "loop" /\ g.current < g.frames
  /\ \E chars \in IF g.current % (FPS \div CPS) = 0 THEN new_char(g.chars) ELSE {g.chars} :
       g' = [g EXCEPT !.chars = [i \in Slots |-> Advanced(chars[i])],
                      !.miss = @ + Cardinality(Missed(chars)),
                      !.current = @ + 1,
                      !.made = @ + IF chars # g.chars THEN 1 ELSE 0]

(* Mutant: a character that lies at the bottom can still be hit.           *)
Hittable_lying(c, ch) == c.ch = ch /\ c.v >= 0

Hittable(c, ch) == c.ch = ch /\ c.v > 0
check_hit(ch) ==
  LET hits == {i \in Slots : Hittable(g.chars[i], ch)}
      lowest == CHOOSE i \in hits : \A j \in hits :
                  g.chars[i].y > g.chars[j].y \/ (g.chars[i].y = g.chars[j].y /\ i <= j)
  IN  IF hits = {} THEN g' = [g EXCEPT !.wrong = @ + 1, !.typed = @ + 1]
      ELSE g' = [g EXCEPT !.chars[lowest].v = Rising, !.hit = @ + 1, !.typed = @ + 1]

Blank == <<0, "purple">>
video_init == [p \in Screen |-> Blank]
Glyph(c) == {<<c.x, c.y + row>> : row \in 0..(CHAR_H - 1)}
Texture(c) == <<c.ch, IF c.v > 0 THEN "white" ELSE IF c.v < 0 THEN "green" ELSE "red">>
Fbdraw(screen, area, texture) == [p \in Screen |-> IF p \in area THEN texture ELSE screen[p]]

render ==
  /\ g.step = "keys" /\ g.current > g.rendered
  /\ LET live == SelectSeq(g.chars, LAMBDA c : c.ch # 0)
         wiped == FoldLeft(LAMBDA scr, c : Fbdraw(scr, Glyph(c), Blank), g.screen, g.drawn)
     IN  g' = [g EXCEPT !.screen = FoldLeft(LAMBDA scr, c : Fbdraw(scr, Glyph(c), Texture(c)), wiped, live),
                        !.drawn = live, !.rendered = g.current, !.step = "time"]
Unrendered == /\ g.step = "keys" /\ g.current = g.rendered
              /\ g' = [g EXCEPT !.step = "time"]

(* main: as many frames as the time asks for are made up for at once; the  *)
(* keys that are waiting are all taken before the screen is drawn.         *)
ReadUptime == /\ g.step = "time"
              /\ \E frames \in g.current..(g.current + 2) :
                   frames <= MAX_FRAMES /\ g' = [g EXCEPT !.frames = frames, !.step = "loop"]
ReadKeys == /\ g.step = "loop" /\ g.current = g.frames
            /\ g' = [g EXCEPT !.step = "keys"]
Escape == /\ g.step = "keys"
          /\ g' = [g EXCEPT !.step = "halt"]
Type == /\ g.step = "keys" /\ g.typed < TYPED
        /\ \E ch \in LETTERS : check_hit(ch)

InitTyping ==
  g = [step |-> "time", chars |-> [i \in Slots |-> NoChar], hit |-> 0, miss |-> 0, wrong |-> 0,
       made |-> 0, typed |-> 0, frames |-> 0, current |-> 0, rendered |-> 0,
       screen |-> video_init, drawn |-> <<>>]

(* Every character made counts once, as hit, as missed, or not yet; what   *)
(* is drawn stays within the screen; and when the loop begins again it     *)
(* shows the characters there are (one hit since the last frame in its old *)
(* colour) and no trace of those there were.                               *)
TypingExact ==
  /\ g.made = g.hit + g.miss + Cardinality({i \in Slots : g.chars[i].ch # 0 /\ g.chars[i].v > 0})
  /\ \A i \in Slots : g.chars[i].ch # 0 => g.chars[i].y \in 0..Bottom
  /\ g.step = "time" =>
       \A p \in Screen :
         LET over == {i \in Slots : g.chars[i].ch # 0 /\ p \in Glyph(g.chars[i])}
         IN  g.screen[p][1] = IF over = {} THEN Blank[1]
                              ELSE g.chars[CHOOSE i \in over : \A j \in over : i >= j].ch

(***************************************************************************)
(* snake/snake.c: the board with its border of tiles lies in the middle of *)
(* the screen. The loop waits for no key, but one let go is skipped.       *)
(***************************************************************************)
Tiles == (0..(TILES_X - 1)) \X (0..(TILES_Y - 1))
Width == TILES_X - 2
Height == TILES_Y - 2
Left == (TILES_X \div 2) - (Width \div 2) - 1
Top == (TILES_Y \div 2) - (Height \div 2) - 1
Field == (0..(Width - 1)) \X (0..(Height - 1))

draw_tile(scr, x, y, color) == [scr EXCEPT ![<<x, y>>] = color]
OnBoard(scr, point, color) == draw_tile(scr, point[1] + Left + 1, point[2] + Top + 1, color)

Border == LET right == Left + Width + 1
              bottom == Top + Height + 1
          IN  ({Left, right} \X (Top..bottom)) \cup ((Left..right) \X {Top, bottom})
print_board(scr) == [p \in Tiles |-> IF p \in Border THEN "green" ELSE scr[p]]

Before(index, n) == IF index - n < 0 THEN index - n + MAX_LENGTH ELSE index - n
print_food(scr, food) == OnBoard(scr, food, "blue")
print_head(scr) == OnBoard(scr, g.body[g.index], "red")
clear_tail(scr) == OnBoard(scr, g.body[Before(g.index, g.length)], "black")

UP == <<0, -1>>
DOWN == <<0, 1>>
LEFT == <<-1, 0>>
RIGHT == <<1, 0>>
NONE == <<0, 0>>
ANOTHER == <<1, 1>>    \* any other key
get_dir(key) == IF key \in {UP, DOWN, LEFT, RIGHT} THEN key ELSE NONE

(* A key let go is dropped, and with none left waiting the loop goes on.   *)
read_key(events) == LET down == SelectSeq(events, LAMBDA ev : ev.keydown)
                    IN  IF down = <<>> THEN NONE ELSE Head(down).keycode

(* What may wait in the device's queue when the game looks: since keys     *)
(* come at any time, what a read leaves there needs not be kept.           *)
Events == [keycode : {UP, DOWN, LEFT, RIGHT, ANOTHER}, keydown : BOOLEAN]
Waiting == {<<>>} \cup {<<ev>> : ev \in Events} \cup {<<e1, e2>> : e1, e2 \in Events}

Turned(dir, to) == IF to = NONE \/ to = <<-dir[1], -dir[2]>> THEN dir ELSE to

is_dead(body, index, length) ==
  \/ body[index] \notin Field
  \/ \E i \in 1..(length - 1) : body[Before(index, i)] = body[index]

has_food(body, index) == body[index] = g.food
create_food == Field

Draw == /\ g.step = "draw"
        /\ g' = [g EXCEPT !.screen = clear_tail(print_head(@)), !.step = "move"]

move_snake(dir) ==
  LET index == IF g.index + 1 = MAX_LENGTH THEN 0 ELSE g.index + 1
      body == [g.body EXCEPT ![index] = <<g.body[g.index][1] + dir[1], g.body[g.index][2] + dir[2]>>]
      dead == is_dead(body, index, g.length)
      moved == [g EXCEPT !.dir = dir, !.index = index, !.body = body,
                         !.step = IF dead THEN "over" ELSE "draw"]
  IN  /\ g.step = "move"
      /\ IF has_food(body, index)
         THEN /\ g.length < LONGEST
              /\ \E food \in create_food :
                   g' = [moved EXCEPT !.length = @ + 1, !.food = food, !.screen = print_food(@, food),
                                      !.ontail = @ \/ body[index] = body[Before(index, g.length)]]
         ELSE g' = moved

(* After the end the keys are read until Q is pressed.                     *)
Quit == /\ g.step = "over"
        /\ \E q \in BOOLEAN : g' = [g EXCEPT !.step = IF q THEN "halt" ELSE "over"]

InitSnake ==
  \E food \in create_food :
    g = [step |-> "draw", length |-> 2, index |-> 1, dir |-> RIGHT, food |-> food,
         body |-> [n \in 0..(MAX_LENGTH - 1) |-> IF n < 2 THEN <<Width \div 2, (Height \div 2) + n>> ELSE <<0, 0>>],
         screen |-> print_food(print_board([p \in Tiles |-> "black"]), food), ontail |-> FALSE]

(* What is drawn of the snake is on it, and its head is drawn unless it    *)
(* follows its tail so closely that it is cleared with it; the border is   *)
(* never drawn over, nothing lies outside of it, and the snake is as long  *)
(* as it is said to be unless it ate where its tail was.                   *)
SnakeExact ==
  LET Body == {g.body[Before(g.index, n)] : n \in 0..(g.length - 1)}
      Placed(points) == {<<p[1] + Left + 1, p[2] + Top + 1>> : p \in points}
      red == {p \in Tiles : g.screen[p] = "red"}
  IN  /\ \A p \in Tiles : LET color == g.screen[p]
                          IN  IF p \in Border THEN color = "green" ELSE color \in {"red", "blue", "black"}
      /\ g.step = "move" =>
           /\ red \subseteq Placed(Body)
           /\ Placed({g.body[g.index]} \ {g.body[Before(g.index, g.length)]}) \subseteq red
      /\ g.step \notin {"over", "halt"} /\ ~g.ontail => Cardinality(Body) = g.length

(***************************************************************************)
(* One of the games at a time.                                             *)
(***************************************************************************)
InitGames == \/ game = "typing" /\ InitTyping
             \/ game = "snake" /\ InitSnake

TypingNext == \/ ReadUptime
              \/ game_logic_update
              \/ ReadKeys
              \/ Type
              \/ Escape
              \/ render
              \/ Unrendered
Move == \E key \in {read_key(events) : events \in Waiting} : move_snake(Turned(g.dir, get_dir(key)))
SnakeNext == Draw \/ Move \/ Quit

GamesNext == /\ IF game = "typing" THEN TypingNext ELSE SnakeNext
             /\ UNCHANGED game

GamesSpec == InitGames /\ [][GamesNext]_gamesVars

(* typing-game/game.c, snake/snake.c: the screen and the score.            *)
GamesExact == /\ game = "typing" => TypingExact
              /\ game = "snake" => SnakeExact
=============================================================================
