-------------------------------- MODULE Htif --------------------------------
(***************************************************************************)
(* riscv/spike/htif.c: the console of a program on the simulator, over two *)
(* words of memory. The program leaves commands in tohost and the host     *)
(* takes them; the host leaves answers in fromhost, when that is 0, and    *)
(* the program takes them. There is one hart and htif_lock is always free  *)
(* when it is taken.                                                       *)
(***************************************************************************)
EXTENDS Naturals, Integers, Sequences

CONSTANT CHARS       \* bound on the characters written, and on the keys typed

ASSUME CharsAssumption == CHARS \in Nat

VARIABLES
  xlen,              \* 32 or 64
  htif_pc,           \* "idle" | "tohost" | "fromhost" | "off" | "assert": the loop that runs
  cmd,               \* arguments of __set_tohost
  call,              \* whether it was do_tohost_fromhost that called it
  tohost, fromhost, htif_console_buf,
  answers,           \* the host: what it has not put into fromhost yet
  wanted,           \* the host: a key has been asked for
  exited,            \* the host: has been told to stop
  wrote, printed,    \* history: characters written, and those that the host has printed
  typed, returned    \* history: keys typed, and those that getchar has returned

programVars == <<htif_pc, cmd, call, htif_console_buf, wrote, returned>>
hostVars == <<answers, wanted, exited, printed, typed>>
htifVars == <<xlen, programVars, tohost, fromhost, hostVars>>

TOHOST_CMD(dev, command, payload) == [dev |-> dev, cmd |-> command, data |-> payload]
Zero == TOHOST_CMD(0, 0, 0)
Asks == TOHOST_CMD(1, 0, 0)
Writes(ch) == TOHOST_CMD(1, 1, ch)
Written == TOHOST_CMD(1, 1, 0)              \* the host may acknowledge what is written
Key(ch) == TOHOST_CMD(1, 0, ch)
(* The address of a request of the system call SYS_write for a character,  *)
(* which is even, and the word that stops the host, which is not.          *)
SysWrite(ch) == TOHOST_CMD(0, 0, 2 * ch + 2)
Done == TOHOST_CMD(0, 0, 1)
Exit == TOHOST_CMD(0, 0, 1)

(* htif_console_buf is one more than a key, 0 before one was asked for and *)
(* -1 when one has been.                                                   *)
InitHtif == /\ xlen \in {32, 64}
            /\ htif_pc = "idle" /\ cmd = Zero /\ call = FALSE
            /\ tohost = Zero /\ fromhost = Zero /\ htif_console_buf = 0
            /\ answers = <<>> /\ wanted = FALSE /\ exited = FALSE
            /\ wrote = 0 /\ printed = <<>> /\ typed = 0 /\ returned = <<>>

(* What __check_fromhost makes of fromhost: the buffer, and the assertions.*)
Checked == IF fromhost.dev = 1 /\ fromhost.cmd = 0 THEN 1 + fromhost.data ELSE htif_console_buf
Refused == fromhost # Zero /\ (fromhost.dev # 1 \/ fromhost.cmd \notin {0, 1})
check_fromhost == fromhost' = Zero

set_tohost(dev, command, payload, calls) ==
  /\ htif_pc' = "tohost" /\ cmd' = TOHOST_CMD(dev, command, payload) /\ call' = calls

(* The loop of __set_tohost; do_tohost_fromhost goes on to its own.        *)
WaitTohost ==
  /\ htif_pc = "tohost" /\ tohost # Zero
  /\ check_fromhost
  /\ htif_console_buf' = Checked
  /\ htif_pc' = IF Refused THEN "assert" ELSE "tohost"
  /\ UNCHANGED <<xlen, cmd, call, tohost, wrote, returned, hostVars>>
SetTohost ==
  /\ htif_pc = "tohost" /\ tohost = Zero
  /\ tohost' = cmd
  /\ htif_pc' = IF call THEN "fromhost" ELSE "idle"
  /\ UNCHANGED <<xlen, cmd, call, fromhost, htif_console_buf, wrote, returned, hostVars>>

(* Mutant: the buffer is not marked as asked for.                          *)
AskedFor_still(buf) == buf

(* The program has a key or none was asked for: it asks for the next.      *)
AskedFor(buf) == IF buf >= 0 THEN -1 ELSE buf

(* On a machine of 32 bits it returns -1.                                  *)
htif_console_getchar ==
  /\ htif_pc = "idle" /\ xlen = 64
  /\ check_fromhost
  /\ htif_console_buf' = IF Refused THEN htif_console_buf ELSE AskedFor(Checked)
  /\ IF Refused \/ Checked < 0
     THEN htif_pc' = (IF Refused THEN "assert" ELSE "idle") /\ UNCHANGED <<cmd, call>>
     ELSE set_tohost(1, 0, 0, FALSE)
  /\ returned' = IF Checked > 0 /\ ~Refused THEN Append(returned, Checked - 1) ELSE returned
  /\ UNCHANGED <<xlen, tohost, wrote, hostVars>>

(* A character is proxied as a system call on a machine of 32 bits.        *)
htif_console_putchar ==
  /\ htif_pc = "idle" /\ wrote < CHARS
  /\ IF xlen = 32 THEN set_tohost(0, 0, SysWrite(wrote).data, TRUE) ELSE set_tohost(1, 1, wrote, FALSE)
  /\ wrote' = wrote + 1
  /\ UNCHANGED <<xlen, tohost, fromhost, htif_console_buf, returned, hostVars>>

(* A call of SYS_write by the program itself, on either machine.           *)
htif_syscall ==
  /\ htif_pc = "idle" /\ wrote < CHARS
  /\ set_tohost(0, 0, SysWrite(wrote).data, TRUE)
  /\ wrote' = wrote + 1
  /\ UNCHANGED <<xlen, tohost, fromhost, htif_console_buf, returned, hostVars>>

(* The loop of do_tohost_fromhost.                                         *)
do_tohost_fromhost ==
  /\ htif_pc = "fromhost" /\ fromhost # Zero
  /\ check_fromhost
  /\ IF fromhost.dev = cmd.dev /\ fromhost.cmd = cmd.cmd
     THEN htif_pc' = "idle" /\ UNCHANGED htif_console_buf
     ELSE /\ htif_pc' = IF Refused THEN "assert" ELSE "fromhost"
          /\ htif_console_buf' = Checked
  /\ UNCHANGED <<xlen, cmd, call, tohost, wrote, returned, hostVars>>

(* The loop of htif_poweroff: it waits for nothing.                        *)
htif_poweroff ==
  /\ htif_pc \in {"idle", "off"}
  /\ htif_pc' = "off"
  /\ fromhost' = Zero /\ tohost' = Exit
  /\ UNCHANGED <<xlen, cmd, call, htif_console_buf, wrote, returned, hostVars>>

(* The host takes a command: a system call is done and answered, a key is  *)
(* waited for, a character is printed and may be acknowledged.               *)
HostTakes ==
  /\ tohost # Zero /\ ~exited
  /\ tohost' = Zero
  /\ \/ /\ tohost = Exit
        /\ exited' = TRUE
        /\ UNCHANGED <<answers, wanted, printed>>
     \/ /\ tohost.dev = 0 /\ tohost # Exit
        /\ printed' = Append(printed, (tohost.data - 2) \div 2)
        /\ answers' = Append(answers, Done)
        /\ UNCHANGED <<wanted, exited>>
     \/ /\ tohost = Asks
        /\ wanted' = TRUE
        /\ UNCHANGED <<answers, exited, printed>>
     \/ /\ tohost.dev = 1 /\ tohost.cmd = 1
        /\ printed' = Append(printed, tohost.data)
        /\ answers' \in {answers, Append(answers, Written)}
        /\ UNCHANGED <<wanted, exited>>
  /\ UNCHANGED <<xlen, programVars, fromhost, typed>>
HostTypes ==
  /\ wanted /\ typed < CHARS /\ ~exited
  /\ wanted' = FALSE
  /\ typed' = typed + 1
  /\ answers' = Append(answers, Key(typed))
  /\ UNCHANGED <<xlen, programVars, tohost, fromhost, exited, printed>>
HostAnswers ==
  /\ answers # <<>> /\ fromhost = Zero /\ ~exited
  /\ fromhost' = Head(answers)
  /\ answers' = Tail(answers)
  /\ UNCHANGED <<xlen, programVars, tohost, wanted, exited, printed, typed>>

HtifNext == \/ WaitTohost
            \/ SetTohost
            \/ htif_console_getchar
            \/ htif_console_putchar
            \/ htif_syscall
            \/ do_tohost_fromhost
            \/ htif_poweroff
            \/ HostTakes
            \/ HostTypes
            \/ HostAnswers

HtifSpec == InitHtif /\ [][HtifNext]_htifVars

-----------------------------------------------------------------------------
HtifWords == [dev : {0, 1}, cmd : {0, 1}, data : Nat]
HtifTypeOK ==
  /\ xlen \in {32, 64}
  /\ htif_pc \in {"idle", "tohost", "fromhost", "off", "assert"}
  /\ cmd \in HtifWords /\ tohost \in HtifWords /\ fromhost \in HtifWords /\ answers \in Seq(HtifWords)
  /\ call \in BOOLEAN /\ wanted \in BOOLEAN /\ exited \in BOOLEAN
  /\ htif_console_buf \in {-1} \cup Nat
  /\ wrote \in Nat /\ printed \in Seq(Nat) /\ typed \in Nat /\ returned \in Seq(Nat)

(* The answers that hold a key, and the keys on their way to the program.  *)
IsKey(w) == w.dev = 1 /\ w.cmd = 0
OnItsWay == \/ htif_console_buf > 0
           \/ IsKey(fromhost)
           \/ \E i \in DOMAIN answers : IsKey(answers[i])
Counted(s) == \A i \in DOMAIN s : s[i] = i - 1

(* htif.c: no answer is one that the program does not know. Every          *)
(* character is printed once and in order: when putchar returns on a machine *)
(* of 32 bits, and at the latest with the next command on one of 64, where *)
(* poweroff takes the place of the last one alone. Every key is returned   *)
(* once and in order, or is the one on its way.                            *)
HtifExact ==
  /\ htif_pc # "assert"
  /\ Counted(printed) /\ Counted(returned)
  /\ htif_pc \in {"idle", "off"} => Len(printed) >= wrote - (IF xlen = 32 THEN 0 ELSE 1)
  /\ htif_pc # "off" => typed = Len(returned) + (IF OnItsWay THEN 1 ELSE 0)
=============================================================================
