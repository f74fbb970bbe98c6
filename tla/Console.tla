------------------------------ MODULE Console ------------------------------
(***************************************************************************)
(* The programs that talk over the UART: the drivers of 151_library/uart.c *)
(* under the BIOS monitor (bios/bios.c), uart_parse and echo, with a user  *)
(* at a terminal and the host loader scripts/hex_to_serial.py at the other *)
(* end. Time is counted in frames of the line; a program between two polls *)
(* takes less than one (SerialLink says what the line does then).          *)
(***************************************************************************)
EXTENDS Ascii

CONSTANTS
  PROGRAMS,       \* the programs started, a subset of {"bios", "parse", "echo"}
  KEYS,           \* the keys of the terminal; enter is a carriage return
  BUFFER_LEN,     \* characters of the token buffer, terminator included
  SESSIONS,       \* what a user may type before the loader runs
  TYPOS,          \* wrong keys the user hits and erases again, at most
  IMAGE,          \* the words of the loader's hex file
  ADDRESS,        \* where it stores them
  COMMAND_PAUSE,  \* frames in 10 ms
  WORD_PAUSE,     \* frames in 1 ms
  MEMORY          \* byte addresses

None == "none"          \* no character
Garbled == "garbled"    \* what is read after the next frame has begun
CR == "\r"
LF == "\n"
BS == "^H"
DEL == "^?"
SPACE == " "

ASSUME ConsoleAssumption ==
  /\ PROGRAMS \subseteq {"bios", "parse", "echo"}
  /\ SESSIONS \subseteq Seq(KEYS) /\ LF \notin KEYS
  /\ BUFFER_LEN \in Nat /\ BUFFER_LEN >= 2
  /\ TYPOS \in Nat /\ COMMAND_PAUSE \in Nat \ {0} /\ WORD_PAUSE \in Nat \ {0}
  /\ IMAGE \in Seq(Nat) /\ 4 * Len(IMAGE) < 100     \* bound: two digits
  /\ ADDRESS \in Nat /\ \A i \in 0..(4 * Len(IMAGE) - 1) : ADDRESS + i \in MEMORY

VARIABLES
  toType, typos,      \* user: keys left, mistakes left
  typing,             \* the user has not handed over to the loader yet
  toSend, pause,      \* loader: [ch, after] left to send, frames to sleep
  arriving, rx,       \* the frame on the line; URECV_DATA
  tx,                 \* a frame is leaving: UTRAN_CTRL reads 0
  todo,               \* what uwrite_int8 and uwrite_int8s still have to write
  got,                \* what uread_int8 returns once its echo is written
  want,               \* what the program reads it for
  cmd, args,          \* the command and what its tokens have converted to
  buf,                \* the token buffer, or the digits of an image word
  mem,
  cells, col,         \* the terminal: its current line, its cursor
  typed,              \* history: the keys the program has read for this token
  lost,               \* history: a character was overwritten before it was read
  cleared             \* history: the monitor was at its prompt when the loader
                      \* sent the first character of its command

hostVars == <<toType, typos, typing, toSend, pause>>
portVars == <<arriving, rx, tx>>
programVars == <<todo, got, want, cmd, args, buf, mem, typed>>
screenVars == <<cells, col>>
consoleVars == <<hostVars, portVars, programVars, screenVars, lost, cleared>>

(* The words of the monitor, as the characters they are compared with.     *)
Word == [file |-> <<"f", "i", "l", "e">>, jal |-> <<"j", "a", "l">>,
         lw |-> <<"l", "w">>, lhu |-> <<"l", "h", "u">>, lbu |-> <<"l", "b", "u">>,
         sw |-> <<"s", "w">>, sh |-> <<"s", "h">>, sb |-> <<"s", "b">>,
         run |-> <<"r", "u", "n">>]
Prompt == <<"h", "d", "u", ">", SPACE>>
Newline == <<CR, LF>>
Unrecognized(token) == Newline \o [i \in 1..20 |-> "u"] \o token \o Newline
Bytes == [lw |-> 4, lhu |-> 2, lbu |-> 1, sw |-> 4, sh |-> 2, sb |-> 1]
Separator == {SPACE, CR}

(* hex_to_serial.py: a carriage return, the command, the words.            *)
Decimal(n) == IF n < 10 THEN <<Hex[n + 1]>> ELSE <<Hex[(n \div 10) + 1], Hex[(n % 10) + 1]>>

Slowly(s) == [i \in 1..Len(s) |-> [ch |-> s[i], after |-> COMMAND_PAUSE]]
WordPaced(w) ==
  LET s == to_ascii_hex(w, 9, 4)
  IN  [i \in 1..8 |-> [ch |-> s[i], after |-> IF i = 8 THEN 2 * WORD_PAUSE ELSE WORD_PAUSE]]
hex_to_serial ==
  Slowly(<<CR>> \o Word.file \o <<SPACE>> \o to_ascii_hex(ADDRESS, 9, 4) \o <<SPACE>>
         \o Decimal(4 * Len(IMAGE)) \o <<SPACE>>)
    \o [i \in 1..(8 * Len(IMAGE)) |-> WordPaced(IMAGE[(i + 7) \div 8])[((i - 1) % 8) + 1]]

(* The first read of each program, and what it writes before.              *)
Start(p) == CASE p = "bios" -> [want |-> "command", todo |-> Newline \o Prompt]
              [] p = "parse" -> [want |-> "parse", todo |-> Newline \o <<"1", "5", "1", ">", SPACE>>]
              [] p = "echo" -> [want |-> "echo", todo |-> <<>>]

ConsoleInit ==
  /\ \E p \in PROGRAMS : want = Start(p).want /\ todo = Start(p).todo
  /\ toType \in SESSIONS /\ typos = TYPOS /\ typing = TRUE
  /\ toSend = <<>> /\ pause = 0
  /\ arriving = None /\ rx = None /\ tx = FALSE
  /\ got = None /\ cmd = "none" /\ args = <<>> /\ buf = <<>>
  /\ mem = [a \in MEMORY |-> 0]
  /\ cells = <<>> /\ col = 0
  /\ typed = <<>> /\ lost = FALSE /\ cleared = FALSE

-----------------------------------------------------------------------------
(* The terminal shows a character where its cursor is.                     *)
Show(c) ==
  CASE c = CR -> col' = 0 /\ UNCHANGED cells
    [] c = LF -> cells' = <<>> /\ UNCHANGED col
    [] c = BS -> col' = (IF col = 0 THEN 0 ELSE col - 1) /\ UNCHANGED cells
    [] OTHER -> /\ cells' = IF col < Len(cells) THEN ReplaceAt(cells, col + 1, c)
                            ELSE cells \o [i \in 1..(col - Len(cells)) |-> SPACE] \o <<c>>
                /\ col' = col + 1

(* Mutant: the ready bit of the transmitter read upside down.              *)
uwrite_int8_inverted ==
  /\ todo # <<>> /\ tx
  /\ todo' = Tail(todo) /\ Show(Head(todo))
  /\ UNCHANGED <<hostVars, portVars, got, want, cmd, args, buf, mem, typed, lost, cleared>>

uwrite_int8 == /\ todo # <<>> /\ ~tx
               /\ tx' = TRUE /\ todo' = Tail(todo)
               /\ Show(Head(todo))
               /\ UNCHANGED <<hostVars, arriving, rx, got, want, cmd, args, buf, mem,
                              typed, lost, cleared>>

(* Mutant: a delete is echoed as it is.                                    *)
EchoPlain(ch) == IF ch = CR THEN Newline ELSE <<ch>>

Echo(ch) == CASE ch = CR -> Newline
              [] ch = DEL -> <<BS>>
              [] OTHER -> <<ch>>

(* The echo program has no driver: it writes the byte as it is.            *)
uread_int8 == /\ todo = <<>> /\ got = None /\ rx # None
              /\ want \notin {"program", "halt"}
              /\ got' = rx /\ rx' = None
              /\ todo' = IF want = "echo" THEN <<rx>> ELSE Echo(rx)
              /\ UNCHANGED <<hostVars, arriving, tx, want, cmd, args, buf, mem,
                             screenVars, typed, lost, cleared>>

-----------------------------------------------------------------------------
(* What a complete token does. Every command ends at the prompt.           *)
NextToken(w) == want' = w /\ buf' = <<>> /\ typed' = <<>>
Ends(output) == /\ NextToken("command") /\ todo' = output \o Prompt
                /\ args' = <<>> /\ cmd' = "none"

Fetch(a) == IF a \in MEMORY THEN mem[a] ELSE 0
Load(a, bytes) ==
  LET t[i \in 0..bytes] == IF i = 0 THEN 0 ELSE 256 * t[i - 1] + Fetch(a + bytes - i)
  IN  t[bytes]
(* Mutant: the first byte in the highest place.                            *)
Store_swapped(a, bytes, v) ==
  mem' = [x \in MEMORY |-> IF x \in a..(a + bytes - 1) THEN (v \div 256^(a + bytes - 1 - x)) % 256
                           ELSE mem[x]]

Store(a, bytes, v) ==
  mem' = [x \in MEMORY |-> IF x \in a..(a + bytes - 1) THEN (v \div 256^(x - a)) % 256
                           ELSE mem[x]]

Is(token, c) == strcmp151(token, Word[c]) = 0

(* The start of a command: what it reads next, or does at once.            *)
Command(token) ==
  \/ \E c \in DOMAIN Word \ {"run"} :
       /\ Is(token, c)
       /\ cmd' = c /\ UNCHANGED <<todo, args, mem>>
       /\ NextToken(IF c \in {"sw", "sh", "sb"} THEN "value" ELSE "address")
  \/ /\ Is(token, "run")
     /\ NextToken("program") /\ UNCHANGED <<todo, cmd, args, mem>>
  \/ /\ \A c \in DOMAIN Word : ~Is(token, c)
     /\ Ends(Unrecognized(token)) /\ UNCHANGED mem

Value(token) == /\ args' = <<ascii_hex_to(token, Bytes[cmd])>>
                /\ NextToken("address")
                /\ UNCHANGED <<todo, cmd, mem>>

Address(token) ==
  LET a == ascii_hex_to(token, 4)
  IN  \/ /\ cmd = "file"
         /\ args' = <<a>> /\ NextToken("length") /\ UNCHANGED <<todo, cmd, mem>>
      \/ /\ cmd = "jal"
         /\ NextToken("program") /\ UNCHANGED <<todo, cmd, args, mem>>
      \/ /\ cmd \in {"lw", "lhu", "lbu"}
         /\ Ends(to_ascii_hex(a, BUFFER_LEN, 4) \o <<":">>
                 \o to_ascii_hex(Load(a, Bytes[cmd]), BUFFER_LEN, Bytes[cmd]) \o Newline)
         /\ UNCHANGED mem
      \/ /\ cmd \in {"sw", "sh", "sb"}
         /\ Store(a, Bytes[cmd], args[1]) /\ Ends(<<>>)

(* store() is entered with i = 0, and at once left if there is nothing.    *)
Length(token) ==
  LET n == ascii_dec_to(token, 4)
  IN  IF n = 0 THEN Ends(<<>>) /\ UNCHANGED mem
      ELSE /\ args' = <<args[1], n>>
           /\ NextToken("image") /\ UNCHANGED <<todo, cmd, mem>>

(* main of uart_parse tells the test bench and returns.                    *)
Parsed(token) == /\ NextToken("halt")
                 /\ cmd' = IF token = <<"x", "y", "z">> THEN "1" ELSE "2"
                 /\ UNCHANGED <<todo, args, mem>>

Token(token) == CASE want = "command" -> Command(token)
                  [] want = "value" -> Value(token)
                  [] want = "address" -> Address(token)
                  [] want = "length" -> Length(token)
                  [] want = "parse" -> Parsed(token)

-----------------------------------------------------------------------------
Returned == todo = <<>> /\ got # None
Idle == /\ got' = None
        /\ UNCHANGED <<hostVars, portVars, screenVars, lost, cleared>>

(* Mutant: a backspace moves the cursor and not the index.                 *)
EraseScreenOnly == /\ todo' = IF buf = <<>> THEN <<SPACE>> ELSE <<SPACE, BS>>
                   /\ typed' = Append(typed, got)
                   /\ UNCHANGED <<want, cmd, args, mem, buf>>

(* read_token of bios.c: backspace erases, a separator ends the token; a   *)
(* full buffer ends it too, its last character giving way to the           *)
(* terminator.                                                             *)
Erase == /\ buf' = (IF buf = <<>> THEN <<>> ELSE Front(buf))
         /\ todo' = IF buf = <<>> THEN <<SPACE>> ELSE <<SPACE, BS>>
         /\ typed' = Append(typed, got)
         /\ UNCHANGED <<want, cmd, args, mem>>

Accumulate == /\ Len(buf) + 1 < BUFFER_LEN
              /\ buf' = Append(buf, got) /\ typed' = Append(typed, got)
              /\ UNCHANGED <<todo, want, cmd, args, mem>>

read_token ==
  /\ Returned /\ want \in {"command", "value", "address", "length", "parse"} /\ Idle
  /\ \/ want # "parse" /\ got \in {BS, DEL} /\ Erase
     \/ got \in Separator /\ Token(buf)
     \/ /\ got \notin Separator /\ (want = "parse" \/ got \notin {BS, DEL})
        /\ \/ Accumulate
           \/ Len(buf) + 1 = BUFFER_LEN /\ Token(buf)

(* store(): read_n of eight digits, any characters, then the word.         *)
store ==
  /\ Returned /\ want = "image" /\ Idle
  /\ IF Len(buf) < 7 THEN /\ buf' = Append(buf, got) /\ typed' = <<>>
                          /\ UNCHANGED <<todo, want, cmd, args, mem>>
     ELSE LET left == args[2] - 4
          IN  /\ Store(args[1], 4, ascii_hex_to(Append(buf, got), 4))
              /\ IF left > 0 THEN /\ args' = <<args[1] + 4, left>> /\ NextToken("image")
                                  /\ UNCHANGED <<todo, cmd>>
                 ELSE Ends(<<>>)

echo == /\ Returned /\ want = "echo" /\ Idle
        /\ typed' = Append(typed, got)
        /\ UNCHANGED <<todo, want, cmd, args, buf, mem>>

(* A program jumped to may return to the monitor.                          *)
ProgramReturns == /\ want = "program" /\ todo = <<>>
                  /\ Ends(<<>>)
                  /\ UNCHANGED <<hostVars, portVars, screenVars, got, mem, lost, cleared>>

Program == uwrite_int8 \/ uread_int8 \/ read_token \/ store \/ echo

-----------------------------------------------------------------------------
(* The line. A new frame shifts an unread byte out of the receiver.        *)
Begin(ch) == /\ arriving = None
             /\ arriving' = ch
             /\ rx' = (IF rx = None THEN None ELSE Garbled)
             /\ lost' = (lost \/ rx # None)

Reading == /\ todo = <<>> /\ got = None /\ rx = None
           /\ want \notin {"program", "halt"}
Quiet == Reading /\ arriving = None /\ ~tx

Blocked == \/ todo # <<>> /\ tx
           \/ todo = <<>> /\ got = None /\ (rx = None \/ want \in {"program", "halt"})

(* A user types when the program waits; a wrong key is erased at once.     *)
Types == /\ typing /\ Quiet
         /\ \/ /\ toType # <<>> /\ Begin(Head(toType))
               /\ toType' = Tail(toType) /\ UNCHANGED typos
            \/ /\ typos > 0 /\ want \notin {"echo", "image"} /\ Begin("x")
               /\ \E erase \in {BS, DEL} : toType' = <<erase>> \o toType
               /\ typos' = typos - 1
         /\ UNCHANGED <<typing, toSend, pause, tx, programVars, screenVars, cleared>>

StartLoader == /\ typing /\ toType = <<>> /\ Quiet /\ want \notin {"echo", "parse"}
               /\ typing' = FALSE /\ toSend' = hex_to_serial
               /\ UNCHANGED <<toType, typos, pause, portVars, programVars, screenVars,
                              lost, cleared>>

(* The loader sends when its sleep is over, whatever the monitor does.     *)
LoaderSends == /\ toSend # <<>> /\ pause = 0
               /\ Begin(Head(toSend).ch)
               /\ toSend' = Tail(toSend) /\ pause' = Head(toSend).after
               /\ cleared' = IF Len(toSend) = Len(hex_to_serial) - 1
                             THEN Quiet /\ want = "command" /\ buf = <<>> ELSE cleared
               /\ UNCHANGED <<toType, typos, typing, tx, programVars, screenVars>>

(* One frame of time, when the program waits for the line.                 *)
Frame == /\ arriving # None \/ tx \/ pause > 0
         /\ Blocked
         /\ arriving' = None /\ tx' = FALSE
         /\ rx' = (IF arriving = None THEN rx ELSE arriving)
         /\ pause' = IF pause = 0 THEN 0 ELSE pause - 1
         /\ UNCHANGED <<toType, typos, typing, toSend, programVars, screenVars, lost, cleared>>

Host == Types \/ StartLoader \/ LoaderSends
ConsoleNext == Program \/ ProgramReturns \/ Host \/ Frame
Fairness == WF_consoleVars(Program) /\ WF_consoleVars(Frame)
ConsoleSpec == ConsoleInit /\ [][ConsoleNext]_consoleVars /\ Fairness
-----------------------------------------------------------------------------
TokenRead == {"command", "value", "address", "length", "parse"}

(* What a line editor means by erasing: the key before, if there is one.   *)
Edited(keys) ==
  LET upto[i \in 0..Len(keys)] ==
        IF i = 0 THEN <<>>
        ELSE IF keys[i] \notin {BS, DEL} THEN Append(upto[i - 1], keys[i])
        ELSE IF upto[i - 1] = <<>> THEN <<>> ELSE Front(upto[i - 1])
  IN  upto[Len(keys)]

(* The monitor's buffer holds the keys of the token as edited so far;      *)
(* uart_parse does not edit and holds them all.                            *)
TokenAsEdited == /\ want \in TokenRead \ {"parse"} => buf = Edited(typed)
                 /\ want = "parse" => buf = typed

(* What the user sees is what the monitor has: when it waits for a key the *)
(* cursor stands behind the characters of the unfinished token, whatever   *)
(* was erased and echoed on the way, and nothing is left right of them;    *)
(* echo shows what was typed.                                              *)
WhatYouSee ==
  Quiet => /\ want \in TokenRead \ {"parse"} =>
                /\ \E start \in 0..col : buf = SubSeq(cells, start + 1, col)
                /\ \A i \in (col + 1)..Len(cells) : cells[i] = SPACE
           /\ want = "echo" /\ ToSet(typed) \cap {CR, BS, DEL} = {} => cells = typed

(* The loader neither reads the echo nor checks anything: with its sleeps  *)
(* and a monitor at its prompt, no character is lost and the image stored  *)
(* is the image sent.                                                      *)
ImageStored ==
  cleared => /\ ~lost
             /\ toSend = <<>> /\ Quiet =>
                  \A i \in 1..Len(IMAGE) : Load(ADDRESS + 4 * (i - 1), 4) = IMAGE[i]

(* No poll lasts for ever: whatever is being written, the program comes    *)
(* back to read, or has jumped or ended.                                   *)
ComesBackToRead == []<>(Reading \/ want \in {"program", "halt"})

(* hex_to_serial.py:27 about the carriage return it sends first: "write a  *)
(* newline to clear any input tokens before entering the command".         *)
NewlineClearsTokens ==
  Len(toSend) = Len(hex_to_serial) - 2 /\ ~typing => cleared
=============================================================================
