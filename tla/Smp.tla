-------------------------------- MODULE Smp --------------------------------
(***************************************************************************)
(* Several x86 processors started by mpe_init and scheduling the tasks of  *)
(* thread-os: trm.c, mpe.c and cte.c of am/src/x86/qemu, boot/main.c, and  *)
(* thread-os.c. A processor is its program counter, its interrupt flag and *)
(* the stack it is on; a context is what an interrupt saves of them.       *)
(***************************************************************************)
EXTENDS Integers, FiniteSets

CONSTANTS
  NCPU,      \* cpu_count()
  NTASKS     \* LENGTH(tasks)

(* With more processors than tasks one would look for its task for ever.   *)
ASSUME SmpAssumption == /\ NCPU \in Nat \ {0}
                        /\ NTASKS \in Nat
                        /\ NCPU <= NTASKS

VARIABLES
  pc,        \* pc[c]: where processor c is
  flag,      \* flag[c]: its interrupt flag
  stack,     \* stack[c]: the stack it is on
  is_ap,     \* boot_record()->is_ap
  ap_ready,
  next_ap,   \* cpu of mpe_init's loop
  currents,  \* currents[c], or NoTask
  context,   \* tasks[t].context
  saved,     \* saved[c]: the context on top of c's stack
  locked,
  line       \* the tasks with an unfinished line on the console

smpVars == <<pc, flag, stack, is_ap, ap_ready, next_ap, currents, context, saved, locked, line>>

Cpus == 0..(NCPU - 1)
Tasks == 0..(NTASKS - 1)
NoTask == -1

(* Stacks: the boot loader's, one per processor, one per task.             *)
BootStack == <<"boot", 0>>
CpuStack(c) == <<"cpu", c>>
TaskStack(t) == <<"task", t>>

Runs == {"lock", "print", "newline", "unlock", "delay"}

NoContext == [pc |-> "off", flag |-> FALSE, stack |-> BootStack]
kcontext(t) == [pc |-> "lock", flag |-> TRUE, stack |-> TaskStack(t)]

InitSmp == /\ pc = [c \in Cpus |-> IF c = 0 THEN "load_kernel" ELSE "off"]
           /\ flag = [c \in Cpus |-> FALSE]
           /\ stack = [c \in Cpus |-> BootStack]
           /\ is_ap = FALSE /\ ap_ready = FALSE
           /\ next_ap = 1
           /\ currents = [c \in Cpus |-> NoTask]
           /\ context = [t \in Tasks |-> NoContext]
           /\ saved = [c \in Cpus |-> NoContext]
           /\ locked = FALSE
           /\ line = {}

Scheduling == <<currents, context, saved, locked, line>>
Booting == <<is_ap, ap_ready, next_ap>>

Goes(c, from, to) == pc[c] = from /\ pc' = [pc EXCEPT ![c] = to]

(* The boot loader leaves out the loading on processors other than the     *)
(* first, and the program's start takes them to a stack of their own.      *)
load_kernel(c) == /\ Goes(c, "load_kernel", "_start_c")
                  /\ UNCHANGED <<flag, stack, Scheduling, Booting>>

_start_c(c) == /\ Goes(c, "_start_c", IF is_ap THEN "othercpu_entry" ELSE "main")
               /\ stack' = [stack EXCEPT ![c] = CpuStack(c)]
               /\ UNCHANGED <<flag, Scheduling, Booting>>

othercpu_entry(c) == /\ Goes(c, "othercpu_entry", "mp_entry")
                     /\ ap_ready' = TRUE
                     /\ UNCHANGED <<flag, stack, Scheduling, is_ap, next_ap>>

main == /\ Goes(0, "main", "mpe_init")
        /\ context' = [t \in Tasks |-> kcontext(t)]
        /\ UNCHANGED <<flag, stack, currents, saved, locked, line, Booting>>

(* mpe_init: each processor is started and waited for before the next.     *)
BootAp == /\ pc[0] = "mpe_init"
          /\ IF next_ap = NCPU
             THEN pc' = [pc EXCEPT ![0] = "mp_entry"] /\ UNCHANGED <<is_ap, stack>>
             ELSE /\ is_ap' = TRUE
                  /\ pc' = [pc EXCEPT ![0] = "wait", ![next_ap] = "load_kernel"]
                  /\ stack' = [stack EXCEPT ![next_ap] = BootStack]
          /\ UNCHANGED <<flag, Scheduling, ap_ready, next_ap>>

WaitAp == /\ Goes(0, "wait", "mpe_init")
          /\ ap_ready
          /\ ap_ready' = FALSE
          /\ next_ap' = next_ap + 1
          /\ UNCHANGED <<flag, stack, Scheduling, is_ap>>

(* mp_entry: interrupts may arrive between iset and yield.                 *)
iset(c) == /\ Goes(c, "mp_entry", "yield")
           /\ flag' = [flag EXCEPT ![c] = TRUE]
           /\ UNCHANGED <<stack, Scheduling, Booting>>

(* A trap or an interrupt: the context is pushed on the stack at hand.     *)
Trap(c) == /\ saved' = [saved EXCEPT ![c] = [pc |-> pc[c], flag |-> flag[c], stack |-> stack[c]]]
           /\ pc' = [pc EXCEPT ![c] = "on_interrupt"]
           /\ flag' = [flag EXCEPT ![c] = FALSE]
           /\ UNCHANGED <<stack, currents, context, locked, line, Booting>>

yield(c) == pc[c] = "yield" /\ Trap(c)
Timer(c) == flag[c] /\ Trap(c)

(* Mutant: the next task, whichever processor it belongs to.               *)
Mine_any(c, t) == TRUE

Mine(c, t) == t % NCPU = c

on_interrupt(c) ==
  /\ Goes(c, "on_interrupt", "next")
  /\ IF currents[c] = NoTask
     THEN currents' = [currents EXCEPT ![c] = 0] /\ UNCHANGED context
     ELSE context' = [context EXCEPT ![currents[c]] = saved[c]] /\ UNCHANGED currents
  /\ UNCHANGED <<flag, stack, saved, locked, line, Booting>>

(* Mutant: a while loop in place of do-while, which stays with the task.   *)
NextTask_while(c) == /\ pc[c] = "next"
                     /\ currents' = [currents EXCEPT ![c] = IF Mine(c, @) THEN @ ELSE (@ + 1) % NTASKS]
                     /\ pc' = [pc EXCEPT ![c] = IF Mine(c, currents'[c]) THEN "return" ELSE "next"]
                     /\ UNCHANGED <<flag, stack, context, saved, locked, line, Booting>>

NextTask(c) == /\ pc[c] = "next"
               /\ currents' = [currents EXCEPT ![c] = (@ + 1) % NTASKS]
               /\ pc' = [pc EXCEPT ![c] = IF Mine(c, currents'[c]) THEN "return" ELSE "next"]
               /\ UNCHANGED <<flag, stack, context, saved, locked, line, Booting>>

__am_iret(c) == /\ pc[c] = "return"
                /\ LET ctx == context[currents[c]]
                   IN  /\ pc' = [pc EXCEPT ![c] = ctx.pc]
                       /\ flag' = [flag EXCEPT ![c] = ctx.flag]
                       /\ stack' = [stack EXCEPT ![c] = ctx.stack]
                /\ UNCHANGED <<Scheduling, Booting>>

(* What task t does on processor c: func. A line is two characters here.   *)
On(c, t) == stack[c] = TaskStack(t)

(* Mutant: the lock looked at and then taken whatever it was.              *)
lock_blind(c) == /\ pc[c] = "lock"
                 /\ locked' = TRUE
                 /\ pc' = [pc EXCEPT ![c] = "print"]
                 /\ UNCHANGED <<flag, stack, currents, context, saved, line, Booting>>

lock(c) == /\ pc[c] = "lock"
           /\ locked' = TRUE
           /\ pc' = [pc EXCEPT ![c] = IF locked THEN "lock" ELSE "print"]
           /\ UNCHANGED <<flag, stack, currents, context, saved, line, Booting>>

print(c, t) == /\ On(c, t)
               /\ Goes(c, "print", "newline")
               /\ line' = line \cup {t}
               /\ UNCHANGED <<flag, stack, currents, context, saved, locked, Booting>>

newline(c, t) == /\ On(c, t)
                 /\ Goes(c, "newline", "unlock")
                 /\ line' = line \ {t}
                 /\ UNCHANGED <<flag, stack, currents, context, saved, locked, Booting>>

unlock(c) == /\ Goes(c, "unlock", "delay")
             /\ locked' = FALSE
             /\ UNCHANGED <<flag, stack, currents, context, saved, line, Booting>>

delay(c) == /\ Goes(c, "delay", "lock")
            /\ UNCHANGED <<flag, stack, Scheduling, Booting>>

(* func without interrupts, and everything a processor does by itself.     *)
func(c) == \/ lock(c) \/ unlock(c) \/ delay(c)
           \/ \E t \in Tasks : print(c, t) \/ newline(c, t)
Handler(c) == on_interrupt(c) \/ NextTask(c) \/ __am_iret(c)
Entry(c) == load_kernel(c) \/ _start_c(c) \/ othercpu_entry(c) \/ iset(c) \/ yield(c)

Run(c) == func(c) \/ Handler(c) \/ Entry(c)
SmpNext == main \/ BootAp \/ WaitAp \/ \E c \in Cpus : Run(c) \/ Timer(c)

(* Processors run, and each has its own periodic timer.                    *)
SmpFairness == /\ WF_smpVars(main \/ BootAp \/ WaitAp)
               /\ \A c \in Cpus : WF_smpVars(Run(c)) /\ WF_smpVars(Timer(c))
SmpSpec == InitSmp /\ [][SmpNext]_smpVars /\ SmpFairness

(* mpe.c, thread-os.c: no two processors are ever on one stack, not even   *)
(* while one boots or is between saving a context and leaving its stack.   *)
StacksApart ==
  \A c, d \in Cpus : c # d /\ pc[c] # "off" /\ pc[d] # "off" => stack[c] # stack[d]

(* thread-os.c: a line is printed whole, whatever interrupts and whichever *)
(* processors run the tasks.                                               *)
LinesWhole == Cardinality(line) <= 1

(* thread-os.c: every task gets a processor again and again, although a    *)
(* task may wait for the lock as long as others take it first.             *)
EveryTaskRuns == \A t \in Tasks : []<>(\E c \in Cpus : On(c, t) /\ pc[c] \in Runs)
=============================================================================
