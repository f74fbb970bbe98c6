------------------------------- MODULE Snake -------------------------------
(***************************************************************************)
(* The snake of am-kernels/kernels/snake-uart/snake.c (and of snake/, the  *)
(* same game on a display): a ring of points, of which the last `length`   *)
(* are the snake, and a board that is not drawn anew but gets its head and *)
(* loses its tail; the terminal on the serial line is sent all of it.      *)
(***************************************************************************)
EXTENDS Integers, Sequences, FiniteSets

CONSTANTS
  WIDTH, HEIGHT,  \* game_size
  MAX_LENGTH,     \* points of the ring
  LONGEST         \* bound on the snake's length, below MAX_LENGTH

VARIABLES
  step,           \* "draw" | "move" | "over": where the loop is
  body, length, index, dead,    \* snake_t
  dir, food,
  game_board,
  terminal,       \* the lines that the terminal shows
  ontail          \* the snake has eaten on the last place of its tail

snakeVars == <<step, body, length, index, dead, dir, food, game_board, terminal, ontail>>

(* main: the game's size is that of the screen without its border.         *)
screen_width == WIDTH + 2
screen_height == HEIGHT + 2
left == (screen_width \div 2) - (WIDTH \div 2) - 1
right == left + WIDTH + 1
top == (screen_height \div 2) - (HEIGHT \div 2) - 1
bottom == top + HEIGHT + 1
Screen == (0..(screen_width - 1)) \X (0..(screen_height - 1))

Points == (0..(WIDTH - 1)) \X (0..(HEIGHT - 1))
UP == <<0, -1>>
DOWN == <<0, 1>>
LEFT == <<-1, 0>>
RIGHT == <<1, 0>>
NONE == <<0, 0>>
Opposite(d) == <<-d[1], -d[2]>>

Ring(n) == IF n < 0 THEN n + MAX_LENGTH ELSE n
Front == body[index]

OnBoard(board, p, ch) == [board EXCEPT ![<<p[1] + left + 1, p[2] + top + 1>>] = ch]
print_food(board, f) == OnBoard(board, f, "*")
print_head(board) == OnBoard(board, Front, "@")
clear_tail(board) == OnBoard(board, body[Ring(index - length)], " ")

Beams == (left..right) \X {top, bottom}
Posts == {left, right} \X (top..bottom)
print_board == [p \in Screen |-> IF p \in Posts THEN "|" ELSE IF p \in Beams THEN "=" ELSE " "]

(* The screen is cleared and sent line by line.                            *)
refresh == [j \in 1..screen_height |-> [i \in 1..screen_width |-> game_board[<<i - 1, j - 1>>]]]

create_food == Points

InitSnake == /\ step = "draw"
             /\ body = [n \in 0..(MAX_LENGTH - 1) |->
                          CASE n = 0 -> <<WIDTH \div 2, HEIGHT \div 2>>
                            [] n = 1 -> <<WIDTH \div 2, (HEIGHT \div 2) + 1>>
                            [] OTHER -> <<0, 0>>]
             /\ length = 2 /\ index = 1 /\ dead = FALSE /\ dir = RIGHT
             /\ food \in create_food
             /\ game_board = print_food(print_board, food)
             /\ terminal = <<>>
             /\ ontail = FALSE

Draw == /\ step = "draw"
        /\ game_board' = clear_tail(print_head(game_board))
        /\ step' = "move"
        /\ UNCHANGED <<body, length, index, dead, dir, food, terminal, ontail>>

(* The byte the receiver holds, or 0 for none.                             *)
Typed == {"a", "w", "d", "s", "q"}
read_key(valid, byte) == IF valid THEN byte ELSE "0"

get_dir(c) == CASE c = "a" -> LEFT [] c = "w" -> UP [] c = "d" -> RIGHT [] c = "s" -> DOWN
                [] OTHER -> NONE
Turned(key) == IF key = NONE \/ key = Opposite(dir) THEN dir ELSE key

is_dead(points, at) ==
  \/ points[at] \notin Points
  \/ \E n \in 1..(length - 1) : points[Ring(at - n)] = points[at]

has_food(points, at) == points[at] = food

move_snake(key) ==
  LET at == (index + 1) % MAX_LENGTH
      head == <<Front[1] + Turned(key)[1], Front[2] + Turned(key)[2]>>
      points == [body EXCEPT ![at] = head]
      eats == has_food(points, at)
  IN  /\ step = "move"
      /\ dir' = Turned(key) /\ index' = at /\ body' = points
      /\ dead' = is_dead(points, at)
      /\ step' = IF dead' THEN "over" ELSE "draw"
      /\ IF eats
         THEN /\ length < LONGEST /\ length' = length + 1
              /\ food' \in create_food
              /\ game_board' = print_food(game_board, food')
              /\ ontail' = (ontail \/ head = points[Ring(at - length)])
         ELSE UNCHANGED <<length, food, game_board, ontail>>
      /\ terminal' = refresh'

(* Game over, two lines below the board, until Q is read.                  *)
GameOver == /\ step = "over" /\ Len(terminal) = screen_height
            /\ terminal' = terminal \o <<"GAME OVER", "Press Q to Exit">>
            /\ UNCHANGED <<step, body, length, index, dead, dir, food, game_board, ontail>>
Exit(c) == /\ step = "over" /\ Len(terminal) > screen_height
           /\ c = "q" /\ step' = "exit"
           /\ UNCHANGED <<body, length, index, dead, dir, food, game_board, terminal, ontail>>

SnakeNext == \/ Draw
             \/ GameOver
             \/ \E valid \in BOOLEAN, byte \in Typed :
                  LET c == read_key(valid, byte) IN move_snake(get_dir(c)) \/ Exit(c)

SnakeSpec == InitSnake /\ [][SnakeNext]_snakeVars

Body(n) == body[Ring(index - n)]
Snake == {Body(n) : n \in 0..(length - 1)}
Placed(points) == {<<p[1] + left + 1, p[2] + top + 1>> : p \in points}
Shown(c) == {p \in Screen : game_board[p] = c}
Sent(c) == {p \in Screen : terminal[p[2] + 1][p[1] + 1] = c}

(* clear_tail, is_dead: after a step is drawn the board shows the head on  *)
(* no place that the snake has left, and on its own unless it follows the  *)
(* tail so closely that it is cleared with it; the border is never drawn   *)
(* over; the terminal, sent before the next head is drawn, shows as food   *)
(* what is there or was eaten in the last step, and of the snake what it   *)
(* was before that; a snake that lives lies on as many places as it is     *)
(* long (unless it ate on the place of its tail), and its length is what   *)
(* the ring can hold.                                                      *)
SnakeExact ==
  /\ step = "move" => LET drawn == Shown("@")
                      IN  /\ drawn \subseteq Placed(Snake)
                          /\ Placed({Front} \ {body[Ring(index - length)]}) \subseteq drawn
  /\ \A p \in Screen : LET c == game_board[p]
                       IN  IF p \in Posts THEN c = "|" ELSE IF p \in Beams THEN c = "="
                           ELSE c \in {"@", "*", " "}
  /\ terminal # <<>> /\ step # "move" =>
       /\ Sent("|") = Posts /\ Sent("=") = Beams \ Posts
       /\ Sent("@") \subseteq Placed({Body(n) : n \in 1..length})
       /\ Sent("*") \subseteq Placed({food, Front})
  /\ ~dead /\ ~ontail => Cardinality(Snake) = length
=============================================================================
