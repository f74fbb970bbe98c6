------------------------ MODULE Multitasking_proofs ------------------------
(***************************************************************************)
(* Who runs on which stack, proved of thread-os on the processors of x86   *)
(* (Smp) and of the threads and traps of riscv (Cte).                      *)
(***************************************************************************)
EXTENDS Smp, Cte, FiniteSetTheorems, SequenceTheorems, TLAPS

(***************************************************************************)
(* The processors of thread-os for every number of them and of tasks: no   *)
(* two are on one stack, and no two lines are on the console.              *)
(*                                                                         *)
(* Neither is inductive. That stacks stay apart needs to know whose each   *)
(* is (OwnStacks), that one processor at most is on the boot loader's      *)
(* (OneStarting), and that a context waiting in memory is one of its own   *)
(* task (Contexts). That lines stay whole needs the lock's invariant, said *)
(* of tasks and not of processors: At(t) is where task t is, whether it    *)
(* runs, has just been interrupted or waits with its context in memory.    *)
(***************************************************************************)

Loading == {"load_kernel", "_start_c"}
OnOwnStack == {"main", "mpe_init", "wait", "othercpu_entry", "mp_entry", "yield"}
Pcs == {"off", "on_interrupt", "next", "return"} \cup Loading \cup OnOwnStack \cup Runs
Stacks == {BootStack} \cup {CpuStack(c) : c \in Cpus} \cup {TaskStack(t) : t \in Tasks}
Contexts == [pc : Pcs, flag : BOOLEAN, stack : Stacks]

(* Before main has made the tasks.                                         *)
Early == pc[0] \in Loading \cup {"main"}
Running(c) == pc[c] \in Runs

SmpTypeOK ==
  /\ pc \in [Cpus -> Pcs]
  /\ flag \in [Cpus -> BOOLEAN]
  /\ stack \in [Cpus -> Stacks]
  /\ is_ap \in BOOLEAN /\ ap_ready \in BOOLEAN
  /\ next_ap \in 1..NCPU
  /\ currents \in [Cpus -> Tasks \cup {NoTask}]
  /\ context \in [Tasks -> Contexts]
  /\ saved \in [Cpus -> Contexts]
  /\ locked \in BOOLEAN
  /\ line \subseteq Tasks

(* mpe_init: one processor at most is between its start and its sign of    *)
(* life, and it is the one that is waited for.                             *)
Started(c) == pc[c] \in Loading \cup {"othercpu_entry"}
OneStarting ==
  /\ \A c \in Cpus : c # 0 /\ Started(c) => /\ pc[0] = "wait" /\ c = next_ap
                                            /\ is_ap /\ ~ap_ready
  /\ \A c \in Cpus : pc[c] \in {"main", "mpe_init", "wait"} => c = 0
  /\ pc[0] # "othercpu_entry" /\ pc[0] # "off"
  /\ Early => ~is_ap /\ next_ap = 1 /\ \A c \in Cpus : c # 0 => pc[c] = "off"
  /\ pc[0] # "wait" => ~ap_ready
  /\ pc[0] = "mpe_init" => \A c \in Cpus : c >= next_ap => pc[c] = "off"
  /\ pc[0] = "wait" => next_ap \in Cpus /\ \A c \in Cpus : c > next_ap => pc[c] = "off"

(* Whose stack a processor is on: its own, or that of a task of its own.   *)
OfTask(c, t) == t \in Tasks /\ Mine(c, t) /\ stack[c] = TaskStack(t)
OwnStack(c) ==
  /\ pc[c] \in Loading => stack[c] = BootStack
  /\ pc[c] \in OnOwnStack => stack[c] = CpuStack(c) /\ currents[c] = NoTask
  /\ pc[c] \in Loading \cup {"off"} => currents[c] = NoTask
  /\ Running(c) => OfTask(c, currents[c])
  /\ pc[c] = "on_interrupt" =>
       /\ saved[c].stack = stack[c]
       /\ \/ currents[c] = NoTask /\ stack[c] = CpuStack(c)
          \/ OfTask(c, currents[c]) /\ saved[c].pc \in Runs
  /\ pc[c] \in {"next", "return"} =>
       /\ currents[c] \in Tasks
       /\ stack[c] = CpuStack(c) \/ \E t \in Tasks : OfTask(c, t)
  /\ pc[c] = "return" => Mine(c, currents[c])
  /\ flag[c] => Running(c) \/ pc[c] = "yield"
OwnStacks == \A c \in Cpus : OwnStack(c)

(* A task's context is where it was interrupted, on its stack.             *)
OwnContexts == \A t \in Tasks : /\ ~Early => context[t].pc \in Runs /\ context[t].stack = TaskStack(t)
                                /\ Early => context[t].pc = "off"

StackInv == SmpTypeOK /\ OneStarting /\ OwnStacks /\ OwnContexts

-----------------------------------------------------------------------------
(* Where a task is, on the processor that it belongs to.                   *)
AtOn(c, t) == IF currents[c] = t /\ Running(c) THEN pc[c]
              ELSE IF currents[c] = t /\ pc[c] = "on_interrupt" THEN saved[c].pc
              ELSE context[t].pc
At(t) == AtOn(t % NCPU, t)

Holds(t) == At(t) \in {"print", "newline", "unlock"}
LockInv == /\ \A t, u \in Tasks : Holds(t) /\ Holds(u) => t = u
           /\ \A t \in Tasks : Holds(t) => locked
           /\ line = {t \in Tasks : At(t) = "newline"}

SmpInv == StackInv /\ LockInv

-----------------------------------------------------------------------------
LEMMA StacksDiffer ==
  ASSUME NEW c \in Int, NEW t \in Int
  PROVE  /\ BootStack # CpuStack(c) /\ BootStack # TaskStack(t) /\ CpuStack(c) # TaskStack(t)
         /\ \A d \in Int : CpuStack(c) = CpuStack(d) => c = d
         /\ \A u \in Int : TaskStack(t) = TaskStack(u) => t = u
  BY DEF BootStack, CpuStack, TaskStack

LEMMA StacksTyped ==
  /\ BootStack \in Stacks
  /\ \A c \in Cpus : CpuStack(c) \in Stacks
  /\ \A t \in Tasks : TaskStack(t) \in Stacks
  BY DEF Stacks

LEMMA Constants ==
  /\ 0 \in Cpus /\ Cpus \subseteq Int /\ Tasks \subseteq Int
  /\ NoTask \in Int /\ NoTask \notin Tasks
  /\ \A t \in Tasks : (t + 1) % NTASKS \in Tasks
  /\ 0 \in Tasks
  BY SmpAssumption DEF Cpus, Tasks, NoTask

(* A task belongs to one processor.                                        *)
LEMMA Owner == /\ \A t \in Tasks : t % NCPU \in Cpus
               /\ \A t, c, d : Mine(c, t) /\ Mine(d, t) => c = d
<1>1. \A t \in Tasks : t % NCPU \in Cpus
  BY SmpAssumption DEF Cpus, Tasks
<1> QED BY <1>1 DEF Mine

LEMMA ContextsTyped ==
  /\ NoContext \in Contexts
  /\ \A t \in Tasks : kcontext(t) \in Contexts
  /\ \A c \in Cpus : SmpTypeOK => [pc |-> pc[c], flag |-> flag[c], stack |-> stack[c]] \in Contexts
  BY StacksTyped DEF NoContext, kcontext, Contexts, Pcs, Runs, SmpTypeOK

LEMMA TypeStep == ASSUME StackInv, [SmpNext]_smpVars PROVE SmpTypeOK'
<1> USE Constants DEF StackInv, SmpTypeOK, Goes, Scheduling, Booting
<1>1. CASE main
  BY <1>1, ContextsTyped DEF main, Pcs, OnOwnStack
<1>2. CASE BootAp
  <2>1. "mp_entry" \in Pcs /\ "wait" \in Pcs /\ "load_kernel" \in Pcs
    BY DEF Pcs, OnOwnStack, Loading
  <2>2. CASE next_ap = NCPU
    BY <1>2, <2>1, <2>2 DEF BootAp
  <2>3. CASE next_ap # NCPU
    <3>1. next_ap \in Cpus
      BY <2>3, SmpAssumption DEF Cpus
    <3> QED BY <1>2, <2>1, <2>3, <3>1, StacksTyped DEF BootAp
  <2> QED BY <2>2, <2>3
<1>3. CASE WaitAp
  <2>1. next_ap \in Cpus
    BY <1>3 DEF WaitAp, OneStarting
  <2>2. next_ap + 1 \in 1..NCPU
    BY <2>1, SmpAssumption DEF Cpus
  <2> QED BY <1>3, <2>2 DEF WaitAp, Pcs, OnOwnStack
<1>4. ASSUME NEW c \in Cpus, func(c) PROVE SmpTypeOK'
  BY <1>4 DEF func, lock, unlock, delay, print, newline, Pcs, Runs
<1>5. ASSUME NEW c \in Cpus, on_interrupt(c) PROVE SmpTypeOK'
  BY <1>5 DEF on_interrupt, Pcs
<1>6. ASSUME NEW c \in Cpus, NextTask(c) PROVE SmpTypeOK'
  <2>1. currents[c] \in Tasks
    BY <1>6 DEF NextTask, OwnStacks, OwnStack
  <2> QED BY <1>6, <2>1 DEF NextTask, Pcs
<1>7. ASSUME NEW c \in Cpus, __am_iret(c) PROVE SmpTypeOK'
  <2>1. currents[c] \in Tasks
    BY <1>7 DEF __am_iret, OwnStacks, OwnStack
  <2>2. context[currents[c]] \in Contexts
    BY <2>1
  <2> QED BY <1>7, <2>2 DEF __am_iret, Contexts
<1>8. ASSUME NEW c \in Cpus, Entry(c) \/ Timer(c) PROVE SmpTypeOK'
  <2>1. CASE Trap(c)
    BY <2>1, ContextsTyped DEF Trap, Pcs
  <2>2. CASE load_kernel(c)
    BY <2>2 DEF load_kernel, Pcs, Loading
  <2>3. CASE _start_c(c)
    BY <2>3, StacksTyped DEF _start_c, Pcs, OnOwnStack
  <2>4. CASE othercpu_entry(c) \/ iset(c)
    BY <2>4 DEF othercpu_entry, iset, Pcs, OnOwnStack
  <2> QED BY <1>8, <2>1, <2>2, <2>3, <2>4 DEF Entry, Timer, yield
<1>9. CASE UNCHANGED smpVars
  BY <1>9 DEF smpVars
<1> QED BY <1>1, <1>2, <1>3, <1>4, <1>5, <1>6, <1>7, <1>8, <1>9 DEF SmpNext, Run, Handler

-----------------------------------------------------------------------------
(* The steps of a processor that has been started.                         *)
NotYet == Loading \cup {"main", "mpe_init", "wait", "othercpu_entry", "off"}

LEMMA MadeBefore == ASSUME StackInv, NEW c \in Cpus, pc[c] \notin NotYet PROVE ~Early
  BY Constants DEF StackInv, OneStarting, Early, NotYet

LEMMA Elsewhere ==
  ASSUME StackInv, NEW c \in Cpus, NEW x, pc[c] \notin NotYet, x \notin NotYet,
         pc' = [pc EXCEPT ![c] = x], UNCHANGED Booting
  PROVE  OneStarting' /\ ~Early /\ ~Early'
<1> USE Constants DEF StackInv, SmpTypeOK, Booting, NotYet
<1>1. ~Early /\ ~Early'
  BY MadeBefore DEF Early
<1> QED BY <1>1 DEF OneStarting, Started, Loading

(* What a step does to where its processor is, and whose task it runs.     *)
LEMMA FuncIn ==
  ASSUME NEW c \in Cpus, func(c), SmpTypeOK
  PROVE  /\ pc[c] \in Runs /\ pc' = [pc EXCEPT ![c] = pc'[c]] /\ pc'[c] \in Runs
         /\ UNCHANGED <<flag, stack, currents, context, saved, Booting>>
<1> USE DEF SmpTypeOK, Goes, Scheduling, Runs
<1>1. CASE lock(c)
  BY <1>1 DEF lock
<1>2. CASE unlock(c)
  BY <1>2 DEF unlock
<1>3. CASE delay(c)
  BY <1>3 DEF delay
<1>4. ASSUME NEW t \in Tasks, print(c, t) \/ newline(c, t)
      PROVE  /\ pc[c] \in Runs /\ pc' = [pc EXCEPT ![c] = pc'[c]] /\ pc'[c] \in Runs
             /\ UNCHANGED <<flag, stack, currents, context, saved, Booting>>
  BY <1>4 DEF print, newline
<1> QED BY <1>1, <1>2, <1>3, <1>4 DEF func

(* The processor that takes an interrupt runs a task or is in yield.       *)
LEMMA TrapFrom ==
  ASSUME StackInv, NEW c \in Cpus, yield(c) \/ Timer(c)
  PROVE  Trap(c) /\ (pc[c] \in Runs \/ pc[c] = "yield")
  BY DEF yield, Timer, StackInv, OwnStacks, OwnStack, Running

LEMMA StartingStep == ASSUME StackInv, [SmpNext]_smpVars PROVE OneStarting'
<1> USE Constants DEF StackInv, SmpTypeOK, Goes, Scheduling, Booting
<1>1. CASE main
  BY <1>1, SmpAssumption DEF main, OneStarting, Started, Early, Loading, Cpus
<1>2. CASE BootAp
  <2>1. CASE next_ap = NCPU
    BY <1>2, <2>1 DEF BootAp, OneStarting, Started, Early, Loading
  <2>2. CASE next_ap # NCPU
    <3>1. next_ap \in Cpus /\ next_ap # 0
      BY <2>2, SmpAssumption DEF Cpus
    <3>2. \A c \in Cpus : c >= next_ap <=> c = next_ap \/ c > next_ap
      BY <3>1
    <3> QED BY <1>2, <2>2, <3>1, <3>2 DEF BootAp, OneStarting, Started, Early, Loading
  <2> QED BY <2>1, <2>2
<1>3. CASE WaitAp
  <2>1. next_ap \in Cpus /\ \A c \in Cpus : c >= next_ap + 1 <=> c > next_ap
    BY <1>3 DEF WaitAp, OneStarting, Cpus
  <2> QED BY <1>3, <2>1 DEF WaitAp, OneStarting, Started, Early, Loading
<1>4. ASSUME NEW c \in Cpus, func(c) PROVE OneStarting'
  BY <1>4, FuncIn, Elsewhere DEF NotYet, Loading, Runs
<1>5. ASSUME NEW c \in Cpus, on_interrupt(c) \/ NextTask(c) PROVE OneStarting'
  <2>1. PICK x \in {"next", "return"} : pc' = [pc EXCEPT ![c] = x]
    BY <1>5 DEF on_interrupt, NextTask
  <2> QED BY <1>5, <2>1, Elsewhere DEF NotYet, Loading, on_interrupt, NextTask
<1>6. ASSUME NEW c \in Cpus, __am_iret(c) PROVE OneStarting'
  <2>1. pc[c] = "return" /\ currents[c] \in Tasks
    BY <1>6 DEF __am_iret, OwnStacks, OwnStack
  <2>2. context[currents[c]].pc \in Runs
    BY <2>1, MadeBefore DEF OwnContexts, NotYet, Loading
  <2> QED BY <1>6, <2>1, <2>2, Elsewhere DEF __am_iret, NotYet, Loading, Runs
<1>7. ASSUME NEW c \in Cpus, yield(c) \/ Timer(c) PROVE OneStarting'
  BY <1>7, TrapFrom, Elsewhere DEF Trap, NotYet, Loading, Runs
<1>8. ASSUME NEW c \in Cpus, iset(c) PROVE OneStarting'
  BY <1>8, Elsewhere DEF iset, NotYet, Loading
<1>9. ASSUME NEW c \in Cpus, load_kernel(c) \/ _start_c(c) PROVE OneStarting'
  <2>1. CASE c = 0
    BY <1>9, <2>1 DEF load_kernel, _start_c, OneStarting, Started, Early, Loading
  <2>2. CASE c # 0
    BY <1>9, <2>2 DEF load_kernel, _start_c, OneStarting, Started, Early, Loading
  <2> QED BY <2>1, <2>2
<1>10. ASSUME NEW c \in Cpus, othercpu_entry(c) PROVE OneStarting'
  BY <1>10 DEF othercpu_entry, OneStarting, Started, Early, Loading
<1>11. CASE UNCHANGED smpVars
  BY <1>11 DEF smpVars, OneStarting, Started, Early
<1> QED BY <1>1, <1>2, <1>3, <1>4, <1>5, <1>6, <1>7, <1>8, <1>9, <1>10, <1>11
        DEF SmpNext, Run, Handler, Entry

-----------------------------------------------------------------------------
(* A step of c is none of the other processors'.                           *)
OnlyAt(c) == \A d \in Cpus : d # c => /\ pc'[d] = pc[d] /\ flag'[d] = flag[d] /\ stack'[d] = stack[d]
                                      /\ currents'[d] = currents[d] /\ saved'[d] = saved[d]

LEMMA StackOfOne ==
  ASSUME OwnStacks, NEW c \in Cpus, OnlyAt(c), OwnStack(c)'
  PROVE  OwnStacks'
  BY DEF OwnStacks, OwnStack, OfTask, Running, OnlyAt

LEMMA StackStep == ASSUME StackInv, [SmpNext]_smpVars PROVE OwnStacks'
<1> USE Constants DEF StackInv, SmpTypeOK, Goes, Scheduling, Booting, Running, OfTask
<1>1. CASE main
  BY <1>1, StackOfOne DEF main, OwnStacks, OwnStack, OnlyAt, OnOwnStack, Loading, Runs
<1>2. CASE BootAp
  <2>1. CASE next_ap = NCPU
    BY <1>2, <2>1, StackOfOne DEF BootAp, OwnStacks, OwnStack, OnlyAt, OnOwnStack, Loading, Runs
  <2>2. CASE next_ap # NCPU
    <3>1. PICK c \in Cpus : c = next_ap /\ c # 0
      BY <2>2, SmpAssumption DEF Cpus
    <3>2. pc[c] = "off" /\ currents[c] = NoTask /\ ~flag[c]
      BY <1>2, <3>1 DEF BootAp, OneStarting, OwnStacks, OwnStack, Loading, Runs
    <3>3. pc' = [pc EXCEPT ![0] = "wait", ![c] = "load_kernel"] /\ stack' = [stack EXCEPT ![c] = BootStack]
      BY <1>2, <2>2, <3>1 DEF BootAp
    <3>4. OwnStack(c)'
      BY <1>2, <3>1, <3>2, <3>3 DEF BootAp, OwnStack, OnOwnStack, Loading, Runs
    <3>5. OwnStack(0)'
      BY <1>2, <3>1, <3>3 DEF BootAp, OwnStacks, OwnStack, OnOwnStack, Loading, Runs
    <3>6. ASSUME NEW d \in Cpus, d # 0, d # c PROVE OwnStack(d)'
      BY <1>2, <3>1, <3>3, <3>6 DEF BootAp, OwnStacks, OwnStack
    <3> QED BY <3>4, <3>5, <3>6 DEF OwnStacks
  <2> QED BY <2>1, <2>2
<1>3. CASE WaitAp
  BY <1>3, StackOfOne DEF WaitAp, OwnStacks, OwnStack, OnlyAt, OnOwnStack, Loading, Runs
<1>4. ASSUME NEW c \in Cpus, func(c) PROVE OwnStacks'
  <2>1. OnlyAt(c)
    BY <1>4, FuncIn DEF OnlyAt
  <2>2. OwnStack(c)'
    BY <1>4, FuncIn DEF OwnStacks, OwnStack, OnOwnStack, Loading, Runs
  <2> QED BY <2>1, <2>2, StackOfOne
<1>5. ASSUME NEW c \in Cpus, on_interrupt(c) PROVE OwnStacks'
  <2>1. OnlyAt(c)
    BY <1>5 DEF on_interrupt, OnlyAt
  <2>2. OwnStack(c)'
    BY <1>5 DEF on_interrupt, OwnStacks, OwnStack, OnOwnStack, Loading, Runs
  <2> QED BY <2>1, <2>2, StackOfOne
<1>6. ASSUME NEW c \in Cpus, NextTask(c) PROVE OwnStacks'
  <2>1. OnlyAt(c)
    BY <1>6 DEF NextTask, OnlyAt
  <2>2. currents'[c] \in Tasks /\ pc'[c] = IF Mine(c, currents'[c]) THEN "return" ELSE "next"
    BY <1>6 DEF NextTask, OwnStacks, OwnStack
  <2>3. OwnStack(c)'
    BY <1>6, <2>2 DEF NextTask, OwnStacks, OwnStack, OnOwnStack, Loading, Runs
  <2> QED BY <2>1, <2>3, StackOfOne
<1>7. ASSUME NEW c \in Cpus, __am_iret(c) PROVE OwnStacks'
  <2>1. OnlyAt(c)
    BY <1>7 DEF __am_iret, OnlyAt
  <2>2. pc[c] = "return" /\ currents[c] \in Tasks /\ Mine(c, currents[c])
    BY <1>7 DEF __am_iret, OwnStacks, OwnStack
  <2>3. context[currents[c]].pc \in Runs /\ context[currents[c]].stack = TaskStack(currents[c])
    BY <2>2, MadeBefore DEF OwnContexts, NotYet, Loading
  <2>4. OwnStack(c)'
    BY <1>7, <2>2, <2>3 DEF __am_iret, OwnStack, OnOwnStack, Loading, Runs
  <2> QED BY <2>1, <2>4, StackOfOne
<1>8. ASSUME NEW c \in Cpus, yield(c) \/ Timer(c) PROVE OwnStacks'
  <2>0. Trap(c) /\ (pc[c] \in Runs \/ pc[c] = "yield")
    BY <1>8, TrapFrom
  <2>1. OnlyAt(c)
    BY <2>0 DEF Trap, OnlyAt
  <2>2. OwnStack(c)'
    BY <2>0 DEF Trap, OwnStacks, OwnStack, OnOwnStack, Loading, Runs
  <2> QED BY <2>1, <2>2, StackOfOne
<1>9. ASSUME NEW c \in Cpus, load_kernel(c) \/ _start_c(c) \/ othercpu_entry(c) \/ iset(c)
      PROVE  OwnStacks'
  <2>1. OnlyAt(c)
    BY <1>9 DEF load_kernel, _start_c, othercpu_entry, iset, OnlyAt
  <2>2. CASE load_kernel(c)
    BY <2>2, <2>1, StackOfOne DEF load_kernel, OwnStacks, OwnStack, OnOwnStack, Loading, Runs
  <2>3. CASE _start_c(c)
    BY <2>3, <2>1, StackOfOne DEF _start_c, OwnStacks, OwnStack, OnOwnStack, Loading, Runs
  <2>4. CASE othercpu_entry(c) \/ iset(c)
    BY <2>4, <2>1, StackOfOne DEF othercpu_entry, iset, OwnStacks, OwnStack, OnOwnStack, Loading, Runs
  <2> QED BY <1>9, <2>2, <2>3, <2>4
<1>10. CASE UNCHANGED smpVars
  BY <1>10 DEF smpVars, OwnStacks, OwnStack
<1> QED BY <1>1, <1>2, <1>3, <1>4, <1>5, <1>6, <1>7, <1>8, <1>9, <1>10
        DEF SmpNext, Run, Handler, Entry

LEMMA ContextStep == ASSUME StackInv, [SmpNext]_smpVars PROVE OwnContexts'
<1> USE Constants DEF StackInv, SmpTypeOK, Goes, Scheduling, Booting
<1>1. CASE main
  <2>1. ~Early' /\ \A t \in Tasks : context'[t] = kcontext(t)
    BY <1>1 DEF main, Early, Loading
  <2>2. \A t \in Tasks : kcontext(t).pc \in Runs /\ kcontext(t).stack = TaskStack(t)
    BY DEF kcontext, Runs
  <2> QED BY <2>1, <2>2 DEF OwnContexts
<1>2. ASSUME NEW c \in Cpus, on_interrupt(c) PROVE OwnContexts'
  <2>1. ~Early /\ ~Early'
    BY <1>2, Elsewhere DEF on_interrupt, NotYet, Loading
  <2>2. CASE currents[c] = NoTask
    BY <1>2, <2>1, <2>2 DEF on_interrupt, OwnContexts
  <2>3. CASE currents[c] # NoTask
    <3>1. /\ context' = [context EXCEPT ![currents[c]] = saved[c]]
          /\ saved[c].pc \in Runs /\ saved[c].stack = TaskStack(currents[c])
      BY <1>2, <2>3 DEF on_interrupt, OwnStacks, OwnStack, OfTask
    <3> QED BY <2>1, <3>1 DEF OwnContexts
  <2> QED BY <2>2, <2>3
<1>3. ASSUME UNCHANGED context, Early' <=> Early PROVE OwnContexts'
  BY <1>3 DEF OwnContexts
<1>4. CASE BootAp \/ WaitAp
  <2>1. UNCHANGED context /\ ~Early
    BY <1>4 DEF BootAp, WaitAp, Early, Loading
  <2>2. pc'[0] \in {"mp_entry", "wait", "mpe_init"}
    BY <1>4, SmpAssumption DEF BootAp, WaitAp
  <2> QED BY <2>1, <2>2, <1>3 DEF Early, Loading
<1>5. ASSUME NEW c \in Cpus, func(c) PROVE OwnContexts'
  BY <1>5, <1>3, FuncIn, Elsewhere DEF NotYet, Loading, Runs
<1>6. ASSUME NEW c \in Cpus, NextTask(c) PROVE OwnContexts'
  <2>1. PICK x \in {"next", "return"} : pc' = [pc EXCEPT ![c] = x]
    BY <1>6 DEF NextTask
  <2> QED BY <1>6, <2>1, <1>3, Elsewhere DEF NotYet, Loading, NextTask
<1>7. ASSUME NEW c \in Cpus, __am_iret(c) PROVE OwnContexts'
  <2>1. pc[c] = "return" /\ currents[c] \in Tasks
    BY <1>7 DEF __am_iret, OwnStacks, OwnStack
  <2>2. context[currents[c]].pc \in Runs
    BY <2>1, MadeBefore DEF OwnContexts, NotYet, Loading
  <2> QED BY <1>7, <2>1, <2>2, <1>3, Elsewhere DEF __am_iret, NotYet, Loading, Runs
<1>8. ASSUME NEW c \in Cpus, yield(c) \/ Timer(c) PROVE OwnContexts'
  BY <1>8, <1>3, TrapFrom, Elsewhere DEF Trap, NotYet, Loading, Runs
<1>9. ASSUME NEW c \in Cpus, load_kernel(c) \/ _start_c(c) \/ othercpu_entry(c) \/ iset(c)
      PROVE  OwnContexts'
  <2>1. UNCHANGED context
    BY <1>9 DEF load_kernel, _start_c, othercpu_entry, iset
  <2>2. Early' <=> Early
    BY <1>9 DEF load_kernel, _start_c, othercpu_entry, iset, Early, Loading, OneStarting
  <2> QED BY <2>1, <2>2, <1>3
<1>10. CASE UNCHANGED smpVars
  BY <1>10, <1>3 DEF smpVars, Early
<1> QED BY <1>1, <1>2, <1>4, <1>5, <1>6, <1>7, <1>8, <1>9, <1>10 DEF SmpNext, Run, Handler, Entry

-----------------------------------------------------------------------------
(* The task that a processor is at, and the others.                        *)
LEMMA AtOwn ==
  ASSUME NEW t \in Tasks, NEW c, Mine(c, t)
  PROVE  At(t) = AtOn(c, t) /\ At(t)' = AtOn(c, t)'
  BY DEF At, Mine

LEMMA AtOthers ==
  ASSUME NEW c \in Cpus, OnlyAt(c), UNCHANGED context, NEW t \in Tasks, ~Mine(c, t)
  PROVE  At(t)' = At(t)
<1>1. PICK d \in Cpus : Mine(d, t) /\ d # c
  BY Owner DEF Mine
<1>2. AtOn(d, t)' = AtOn(d, t)
  BY <1>1 DEF OnlyAt, AtOn, Running
<1> QED BY <1>1, <1>2, AtOwn

LEMMA AtKept ==
  ASSUME LockInv, \A t \in Tasks : At(t)' = At(t), UNCHANGED <<locked, line>>
  PROVE  LockInv'
  BY DEF LockInv, Holds

(* A step outside of the tasks leaves each task where it is.               *)
LEMMA AtStill ==
  ASSUME StackInv, NEW c \in Cpus, Handler(c) \/ Entry(c) \/ Timer(c), NEW t \in Tasks
  PROVE  At(t)' = At(t)
<1> USE Constants DEF StackInv, SmpTypeOK, Goes, Scheduling, Booting, Running, AtOn
<1>1. CASE on_interrupt(c)
  <2>1. OnlyAt(c)
    BY <1>1 DEF on_interrupt, OnlyAt
  <2>2. CASE currents[c] = NoTask
    <3>1. AtOn(c, t)' = AtOn(c, t)
      BY <1>1, <2>2 DEF on_interrupt, Runs
    <3> QED BY <1>1, <2>1, <2>2, <3>1, AtOwn, AtOthers DEF on_interrupt
  <2>3. CASE currents[c] # NoTask
    <3>1. currents[c] \in Tasks /\ Mine(c, currents[c])
      BY <1>1, <2>3 DEF on_interrupt, OwnStacks, OwnStack, OfTask
    <3>2. context' = [context EXCEPT ![currents[c]] = saved[c]] /\ pc' = [pc EXCEPT ![c] = "next"]
      BY <1>1, <2>3 DEF on_interrupt
    <3>3. CASE t = currents[c]
      <4>1. AtOn(c, t)' = AtOn(c, t)
        BY <1>1, <3>1, <3>2, <3>3 DEF on_interrupt, Runs
      <4> QED BY <4>1, <3>1, <3>3, AtOwn
    <3>4. CASE t # currents[c]
      <4>1. PICK d \in Cpus : Mine(d, t)
        BY Owner DEF Mine
      <4>2. context'[t] = context[t]
        BY <3>2, <3>4
      <4>3. AtOn(d, t)' = AtOn(d, t)
        BY <1>1, <2>1, <3>2, <3>4, <4>2 DEF on_interrupt, OnlyAt, Runs
      <4> QED BY <4>1, <4>3, AtOwn
    <3> QED BY <3>3, <3>4
  <2> QED BY <2>2, <2>3
<1>2. ASSUME OnlyAt(c), UNCHANGED context, AtOn(c, t)' = AtOn(c, t)
      PROVE  At(t)' = At(t)
  BY <1>2, AtOwn, AtOthers
<1>3. CASE NextTask(c)
  BY <1>3, <1>2 DEF NextTask, OnlyAt, Runs
<1>4. CASE __am_iret(c)
  <2>1. pc[c] = "return" /\ currents[c] \in Tasks
    BY <1>4 DEF __am_iret, OwnStacks, OwnStack
  <2>2. context[currents[c]].pc \in Runs
    BY <2>1, MadeBefore DEF OwnContexts, NotYet, Loading
  <2> QED BY <1>4, <2>1, <2>2, <1>2 DEF __am_iret, OnlyAt, Runs
<1>5. CASE yield(c) \/ Timer(c)
  <2>1. Trap(c) /\ (pc[c] \in Runs \/ pc[c] = "yield")
    BY <1>5, TrapFrom
  <2>2. pc[c] = "yield" => currents[c] = NoTask
    BY DEF OwnStacks, OwnStack, OnOwnStack
  <2> QED BY <2>1, <2>2, <1>2 DEF Trap, OnlyAt, Runs
<1>6. CASE load_kernel(c) \/ _start_c(c) \/ othercpu_entry(c) \/ iset(c)
  BY <1>6, <1>2 DEF load_kernel, _start_c, othercpu_entry, iset, OnlyAt, Runs
<1> QED BY <1>1, <1>3, <1>4, <1>5, <1>6 DEF Handler, Entry

(* In a step of its own a task goes where its processor goes.              *)
LEMMA AtFunc ==
  ASSUME StackInv, NEW c \in Cpus, func(c)
  PROVE  \E t \in Tasks : /\ stack[c] = TaskStack(t)
                         /\ At(t) = pc[c] /\ At(t)' = pc'[c]
                         /\ \A u \in Tasks : u # t => At(u)' = At(u)
<1> USE Constants DEF StackInv, SmpTypeOK, Booting
<1>1. PICK t \in Tasks : t = currents[c] /\ Mine(c, t) /\ stack[c] = TaskStack(t)
  BY FuncIn DEF OwnStacks, OwnStack, Running, OfTask
<1>2. OnlyAt(c) /\ UNCHANGED <<currents, context>>
  BY FuncIn DEF OnlyAt
<1>3. AtOn(c, t) = pc[c] /\ AtOn(c, t)' = pc'[c]
  BY <1>1, <1>2, FuncIn DEF AtOn, Running
<1>4. At(t) = pc[c] /\ At(t)' = pc'[c]
  BY <1>1, <1>2, <1>3, AtOwn
<1>5. ASSUME NEW u \in Tasks, u # t PROVE At(u)' = At(u)
  <2>1. CASE Mine(c, u)
    <3>1. AtOn(c, u)' = AtOn(c, u)
      BY <1>1, <1>2, <1>5 DEF AtOn
    <3> QED BY <2>1, <3>1, AtOwn
  <2> QED BY <2>1, <1>2, AtOthers
<1> QED BY <1>1, <1>4, <1>5

LEMMA LockStep == ASSUME SmpInv, [SmpNext]_smpVars PROVE LockInv'
<1> USE Constants DEF SmpInv, StackInv, SmpTypeOK, Goes, Scheduling, Booting
<1>1. CASE main
  <2>1. \A c \in Cpus : pc'[c] \notin Runs \cup {"on_interrupt"} /\ pc[c] \notin Runs \cup {"on_interrupt"}
    BY <1>1 DEF main, OneStarting, Early, Runs
  <2>2. ASSUME NEW t \in Tasks PROVE At(t) = "off" /\ At(t)' = "lock"
    <3>1. PICK c \in Cpus : Mine(c, t)
      BY Owner DEF Mine
    <3>2. context[t].pc = "off" /\ context'[t].pc = "lock"
      BY <1>1 DEF main, OwnContexts, Early, kcontext
    <3>3. AtOn(c, t) = "off" /\ AtOn(c, t)' = "lock"
      BY <2>1, <3>2 DEF AtOn, Running
    <3> QED BY <3>1, <3>3, AtOwn
  <2>3. UNCHANGED line
    BY <1>1 DEF main
  <2> QED BY <2>2, <2>3 DEF LockInv, Holds
<1>2. CASE BootAp \/ WaitAp
  <2>1. UNCHANGED <<currents, saved, context, locked, line>>
    BY <1>2 DEF BootAp, WaitAp
  <2>2. ASSUME NEW c \in Cpus
        PROVE  pc'[c] = pc[c] \/ {pc'[c], pc[c]} \cap (Runs \cup {"on_interrupt"}) = {}
    BY <1>2, <2>2, SmpAssumption DEF BootAp, WaitAp, OneStarting, Runs, Cpus
  <2>3. ASSUME NEW t \in Tasks PROVE At(t)' = At(t)
    <3>1. PICK c \in Cpus : Mine(c, t)
      BY Owner DEF Mine
    <3>2. AtOn(c, t)' = AtOn(c, t)
      BY <2>1, <2>2 DEF AtOn, Running
    <3> QED BY <3>1, <3>2, AtOwn
  <2> QED BY <2>1, <2>3, AtKept
<1>3. ASSUME NEW c \in Cpus, func(c) PROVE LockInv'
  <2>1. PICK t \in Tasks : /\ stack[c] = TaskStack(t)
                          /\ At(t) = pc[c] /\ At(t)' = pc'[c]
                          /\ \A u \in Tasks : u # t => At(u)' = At(u)
    BY <1>3, AtFunc
  <2> USE <2>1 DEF LockInv, Holds
  <2>2. CASE lock(c)
    BY <2>2 DEF lock
  <2>3. CASE unlock(c)
    BY <2>3 DEF unlock
  <2>4. CASE delay(c)
    BY <2>4 DEF delay
  <2>5. ASSUME NEW u \in Tasks, print(c, u) \/ newline(c, u) PROVE LockInv'
    <3>1. u = t
      BY <2>5, StacksDiffer DEF print, newline, On
    <3>2. CASE print(c, t)
      BY <3>2 DEF print
    <3>3. CASE newline(c, t)
      BY <3>3 DEF newline
    <3> QED BY <2>5, <3>1, <3>2, <3>3
  <2> QED BY <1>3, <2>2, <2>3, <2>4, <2>5 DEF func
<1>4. ASSUME NEW c \in Cpus, Handler(c) \/ Entry(c) \/ Timer(c) PROVE LockInv'
  <2>1. UNCHANGED <<locked, line>>
    BY <1>4 DEF Handler, Entry, Timer, on_interrupt, NextTask, __am_iret, load_kernel, _start_c,
                othercpu_entry, iset, yield, Trap
  <2> QED BY <1>4, <2>1, AtStill, AtKept
<1>5. CASE UNCHANGED smpVars
  <2>1. ASSUME NEW t \in Tasks PROVE At(t)' = At(t)
    BY <1>5 DEF smpVars, At, AtOn, Running
  <2> QED BY <1>5, <2>1, AtKept DEF smpVars
<1> QED BY <1>1, <1>2, <1>3, <1>4, <1>5 DEF SmpNext, Run

-----------------------------------------------------------------------------
LEMMA SmpInitInv == InitSmp => SmpInv
<1> SUFFICES ASSUME InitSmp PROVE SmpInv
  OBVIOUS
<1> USE Constants DEF InitSmp
<1>1. SmpTypeOK
  <2>1. 1 \in 1..NCPU
    BY SmpAssumption
  <2>2. "off" \in Pcs /\ "load_kernel" \in Pcs
    BY DEF Pcs, Loading
  <2> QED BY <2>1, <2>2, StacksTyped, ContextsTyped DEF SmpTypeOK
<1>2. OneStarting
  BY DEF OneStarting, Started, Early, Loading
<1>3. OwnStacks
  BY DEF OwnStacks, OwnStack, OnOwnStack, Loading, Running, Runs
<1>4. OwnContexts
  BY DEF OwnContexts, Early, Loading, NoContext
<1>5. ASSUME NEW t \in Tasks PROVE At(t) = "off"
  <2>1. PICK c \in Cpus : Mine(c, t)
    BY Owner DEF Mine
  <2>2. AtOn(c, t) = "off"
    BY DEF AtOn, Running, Runs, NoContext
  <2> QED BY <2>1, <2>2, AtOwn
<1>6. LockInv
  BY <1>5 DEF LockInv, Holds
<1> QED BY <1>1, <1>2, <1>3, <1>4, <1>6 DEF SmpInv, StackInv

LEMMA SmpInvariant == SmpSpec => []SmpInv
<1>1. SmpInv /\ [SmpNext]_smpVars => SmpInv'
  BY TypeStep, StartingStep, StackStep, ContextStep, LockStep DEF SmpInv, StackInv
<1> QED BY <1>1, SmpInitInv, PTL DEF SmpSpec

(* mpe.c, cte.c: for every number of processors and tasks no two           *)
(* processors are ever on one stack.                                       *)
THEOREM StacksStayApart == SmpSpec => []StacksApart
<1>1. ASSUME SmpInv PROVE StacksApart
  <2> SUFFICES ASSUME NEW c \in Cpus, NEW d \in Cpus, c # d, pc[c] # "off", pc[d] # "off"
               PROVE  stack[c] # stack[d]
    BY DEF StacksApart
  <2> USE <1>1, Constants DEF SmpInv, StackInv, SmpTypeOK
  <2>1. ASSUME NEW x \in Cpus, pc[x] # "off"
        PROVE  \/ pc[x] \in Loading /\ stack[x] = BootStack
               \/ stack[x] = CpuStack(x)
               \/ \E t \in Tasks : Mine(x, t) /\ stack[x] = TaskStack(t)
    BY <2>1 DEF OwnStacks, OwnStack, OfTask, Running, Pcs
  <2>2. ~(pc[c] \in Loading /\ pc[d] \in Loading)
    BY DEF OneStarting, Started, Loading
  <2>3. \A t \in Tasks : ~(Mine(c, t) /\ Mine(d, t))
    BY DEF Mine
  <2>4. /\ BootStack # CpuStack(c) /\ BootStack # CpuStack(d) /\ CpuStack(c) # CpuStack(d)
        /\ \A t \in Tasks : /\ BootStack # TaskStack(t) /\ CpuStack(c) # TaskStack(t)
                             /\ CpuStack(d) # TaskStack(t)
        /\ \A t, u \in Tasks : TaskStack(t) = TaskStack(u) => t = u
    BY StacksDiffer
  <2> QED BY <2>1, <2>2, <2>3, <2>4
<1> QED BY <1>1, SmpInvariant, PTL

(* thread-os.c: for every number of processors and tasks at most one line  *)
(* is unfinished on the console.                                           *)
THEOREM LinesStayWhole == SmpSpec => []LinesWhole
<1>1. ASSUME SmpInv PROVE LinesWhole
  <2>1. \A t, u \in line : t = u
    BY <1>1 DEF SmpInv, LockInv, Holds
  <2>2. line = {} \/ \E t \in line : line = {t}
    BY <2>1
  <2>3. Cardinality({}) = 0 /\ \A t : Cardinality({t}) = 1
    BY FS_EmptySet, FS_Singleton
  <2>4. Cardinality(line) = 0 \/ Cardinality(line) = 1
    BY <2>2, <2>3
  <2> QED BY <2>4 DEF LinesWhole
<1> QED BY <1>1, SmpInvariant, PTL

-----------------------------------------------------------------------------
(***************************************************************************)
(* riscv: the threads of cte.c implement Threads.                          *)
(*                                                                         *)
(* The mapping reads threads off the stacks, so that it says something     *)
(* only with what the stacks look like: the context of a program at the    *)
(* end, those of the handler over it, each with the address of the next    *)
(* (StacksInv); what the processor holds of the thread that runs           *)
(* (RunningInv), mscratch above all, which is set in user programs only;   *)
(* and the saved address of the others (WaitingInv).                       *)
(***************************************************************************)
Regs == Values \cup Events
Addresses == AllThreads \X Nat
UserPointers == {<<v>> : v \in Values}
Pointers == {Unset} \cup Addresses \cup UserPointers
Roots == {NULL} \cup {<<t>> : t \in AllThreads}
Wheres == [code : {"program", "handler"}, at : Int]
ThreadContexts == [gpr : Regs, mepc : Wheres, pdir : Roots, np : {KERNEL, USER},
                   sp : Pointers, arg : {NULL} \cup Addresses]

CteTypeOK ==
  /\ gpr \in Regs /\ here \in Wheres /\ sp \in Pointers
  /\ mscratch \in {NULL} \cup Addresses /\ satp \in Roots /\ vme_enable \in BOOLEAN
  /\ arg \in {NULL} \cup Addresses
  /\ stacks \in [AllThreads -> Seq(ThreadContexts)]
  /\ pcb \in [AllThreads -> {NULL} \cup Addresses]
  /\ current \in AllThreads

ProgramSaved(t, ctx) ==
  /\ ctx.mepc.code = "program" /\ (ctx.pdir # NULL => vme_enable)
  /\ t \in USERS => ctx.np = USER /\ ctx.sp \in UserPointers /\ ctx.pdir = Pdir(t) /\ vme_enable
  /\ t \in KTHREADS => ctx.np = KERNEL /\ ctx.sp = Unset
  /\ t = BOOT => ctx.np = KERNEL /\ ctx.sp = <<BOOT, 0>>
HandlerSaved(t, n, ctx) ==
  /\ ctx.mepc.code = "handler" /\ ctx.np = KERNEL /\ (ctx.pdir # NULL => vme_enable)
  /\ ctx.sp = <<t, n>> /\ ctx.arg = <<t, n>>
StackOK(t) == \A i \in 1..Len(stacks[t]) : IF i = 1 THEN ProgramSaved(t, stacks[t][i])
                                           ELSE HandlerSaved(t, i - 1, stacks[t][i])
StacksInv == \A t \in AllThreads : StackOK(t)

InProgram(t) ==
  /\ Len(stacks[t]) = 0
  /\ t \in USERS => mscratch = <<t, 0>> /\ satp = Pdir(t) /\ vme_enable /\ sp \in UserPointers
  /\ t \in KTHREADS => mscratch = NULL /\ sp = Unset
  /\ t = BOOT => mscratch = NULL /\ sp = <<BOOT, 0>>
InHandler(t) ==
  /\ Len(stacks[t]) >= 1 /\ mscratch = NULL
  /\ sp = <<t, Len(stacks[t])>> /\ arg = <<t, Len(stacks[t])>>
RunningInv == IF here.code = "handler" THEN InHandler(current) ELSE InProgram(current)

WaitingOK(t) == \/ Len(stacks[t]) >= 1 /\ pcb[t] = <<t, Len(stacks[t])>>
                \/ Len(stacks[t]) = 0 /\ pcb[t] = NULL
WaitingInv == \A t \in AllThreads : t # current => WaitingOK(t)

CteInv == CteTypeOK /\ StacksInv /\ RunningInv /\ WaitingInv

-----------------------------------------------------------------------------
LEMMA Tuples == /\ \A x : <<x>> # <<>>
                /\ \A x, y : <<x, y>> # <<>> /\ <<x, y>>[1] = x /\ <<x, y>>[2] = y
  OBVIOUS

LEMMA LenOf == ASSUME NEW n \in Nat, NEW f, f = [i \in 1..n |-> f[i]]
               PROVE  Len(f) = n
<1> DEFINE S == {f[i] : i \in 1..n}
<1>1. f \in [1..n -> S]
  OBVIOUS
<1>2. f \in Seq(S)
  BY <1>1
<1> QED
  BY <1>1, <1>2

THEOREM CteInitial == CteInit => CteInv
<1> SUFFICES ASSUME CteInit PROVE CteInv
  OBVIOUS
<1> USE CteAssumption DEF CteInit, NULL, Unset, AllThreads
<1>1. CteTypeOK
  <2>1. gpr \in Regs /\ here \in Wheres
    BY DEF Regs, Wheres
  <2>2. sp \in Pointers
    BY DEF Pointers, Addresses
  <2>3. mscratch \in {NULL} \cup Addresses /\ satp \in Roots /\ arg \in {NULL} \cup Addresses
    BY DEF Roots
  <2>4. stacks \in [AllThreads -> Seq(ThreadContexts)]
    OBVIOUS
  <2>5. pcb \in [AllThreads -> {NULL} \cup Addresses]
    OBVIOUS
  <2> QED
    BY <2>1, <2>2, <2>3, <2>4, <2>5 DEF CteTypeOK
<1>2. \A t \in AllThreads : Len(stacks[t]) = 0
  OBVIOUS
<1>3. StacksInv
  BY <1>2 DEF StacksInv, StackOK
<1>4. RunningInv
  BY <1>2 DEF RunningInv, InProgram
<1>5. WaitingInv
  BY <1>2 DEF WaitingInv, WaitingOK
<1> QED
  BY <1>1, <1>3, <1>4, <1>5 DEF CteInv

-----------------------------------------------------------------------------
LEMMA StackKept ==
  ASSUME NEW t \in AllThreads, CteTypeOK, StackOK(t), stacks'[t] = stacks[t], vme_enable => vme_enable'
  PROVE  StackOK(t)'
  BY DEF StackOK, ProgramSaved, HandlerSaved

(* Where a trap's context goes.                                            *)
TrapStack == IF mscratch # NULL THEN mscratch ELSE sp

LEMMA OnTopOfIts == CteInv /\ CanRun => TrapStack = <<current, Len(stacks[current])>>
  BY Tuples DEF CteInv, CanRun, RunningInv, InHandler, InProgram, TrapStack, NULL, CteTypeOK, AllThreads

LEMMA TopContext ==
  ASSUME CteTypeOK, NEW t \in AllThreads, Len(stacks[t]) >= 1
  PROVE  stacks[t][Len(stacks[t])] \in ThreadContexts
  BY DEF CteTypeOK

(* Leaving for the context on top of a stack.                              *)
LEMMA LeaveType ==
  ASSUME CteTypeOK, NEW t \in AllThreads, Len(stacks[t]) >= 1, leave(t, Len(stacks[t])),
         current' = t, pcb' \in [AllThreads -> {NULL} \cup Addresses]
  PROVE  /\ CteTypeOK'
         /\ stacks' = [stacks EXCEPT ![t] = SubSeq(@, 1, Len(@) - 1)]
         /\ Len(stacks'[t]) = Len(stacks[t]) - 1
         /\ \A i \in 1..(Len(stacks[t]) - 1) : stacks'[t][i] = stacks[t][i]
<1> DEFINE n == Len(stacks[t])
           ctx == stacks[t][n]
<1>1. n \in Nat /\ n >= 1 /\ ctx \in ThreadContexts /\ stacks[t] \in Seq(ThreadContexts)
  BY TopContext DEF CteTypeOK
<1>2. /\ gpr' = ctx.gpr /\ sp' = ctx.sp /\ arg' = ctx.arg /\ here' = [ctx.mepc EXCEPT !.at = @ + 1]
      /\ mscratch' = IF ctx.np = USER THEN <<t, n - 1>> ELSE mscratch
      /\ satp' = IF vme_enable /\ ctx.pdir # NULL THEN ctx.pdir ELSE satp
      /\ stacks' = [stacks EXCEPT ![t] = SubSeq(stacks[t], 1, n - 1)]
      /\ vme_enable' = vme_enable
  BY DEF leave, __am_switch
<1>3. gpr' \in Regs /\ here' \in Wheres /\ sp' \in Pointers /\ arg' \in {NULL} \cup Addresses
  BY <1>1, <1>2 DEF ThreadContexts, Wheres
<1>4. mscratch' \in {NULL} \cup Addresses
  BY <1>1, <1>2 DEF CteTypeOK, Addresses
<1>5. satp' \in Roots /\ vme_enable' \in BOOLEAN
  BY <1>1, <1>2 DEF CteTypeOK, ThreadContexts
<1>6. /\ SubSeq(stacks[t], 1, n - 1) \in Seq(ThreadContexts)
      /\ Len(SubSeq(stacks[t], 1, n - 1)) = n - 1
      /\ \A i \in 1..(n - 1) : SubSeq(stacks[t], 1, n - 1)[i] = stacks[t][i]
  BY <1>1
<1>7. stacks' \in [AllThreads -> Seq(ThreadContexts)] /\ stacks'[t] = SubSeq(stacks[t], 1, n - 1)
  BY <1>2, <1>6 DEF CteTypeOK
<1> QED
  BY <1>2, <1>3, <1>4, <1>5, <1>6, <1>7 DEF CteTypeOK

LEMMA LeaveKeeps ==
  ASSUME CteTypeOK, StacksInv, mscratch = NULL, NEW t \in AllThreads, Len(stacks[t]) >= 1,
         leave(t, Len(stacks[t])), current' = t, pcb' \in [AllThreads -> {NULL} \cup Addresses]
  PROVE  CteTypeOK' /\ StacksInv' /\ RunningInv'
<1> DEFINE n == Len(stacks[t])
           ctx == stacks[t][n]
<1>1. /\ CteTypeOK' /\ stacks' = [stacks EXCEPT ![t] = SubSeq(@, 1, Len(@) - 1)]
      /\ Len(stacks'[t]) = n - 1 /\ \A i \in 1..(n - 1) : stacks'[t][i] = stacks[t][i]
  BY LeaveType
<1>2. n \in Nat /\ n >= 1 /\ ctx \in ThreadContexts
  BY TopContext DEF CteTypeOK
<1>3. /\ sp' = ctx.sp /\ arg' = ctx.arg /\ here'.code = ctx.mepc.code
      /\ mscratch' = IF ctx.np = USER THEN <<t, n - 1>> ELSE NULL
      /\ satp' = IF vme_enable /\ ctx.pdir # NULL THEN ctx.pdir ELSE satp
      /\ vme_enable' = vme_enable
  BY <1>2 DEF leave, __am_switch, ThreadContexts, Wheres
<1>4. StacksInv'
  <2>1. ASSUME NEW u \in AllThreads PROVE StackOK(u)'
    <3>1. CASE u # t
      BY <1>1, <1>3, <3>1, StackKept DEF StacksInv, CteTypeOK
    <3>2. CASE u = t
      BY <1>1, <1>2, <1>3, <3>2 DEF StacksInv, StackOK, ProgramSaved, HandlerSaved
    <3> QED
      BY <3>1, <3>2
  <2> QED
    BY <2>1 DEF StacksInv
<1>5. CASE n = 1
  <2>1. ProgramSaved(t, ctx)
    BY <1>2, <1>5 DEF StacksInv, StackOK
  <2>2. here'.code = "program" /\ Len(stacks'[t]) = 0
    BY <1>1, <1>3, <1>5, <2>1 DEF ProgramSaved
  <2>3. ASSUME t \in USERS PROVE mscratch' = <<t, 0>> /\ satp' = Pdir(t) /\ vme_enable' /\ sp' \in UserPointers
    <3>1. ctx.np = USER /\ ctx.sp \in UserPointers /\ ctx.pdir = Pdir(t) /\ vme_enable
      BY <2>1, <2>3 DEF ProgramSaved
    <3>2. Pdir(t) # NULL
      BY Tuples DEF Pdir, NULL
    <3>3. n - 1 = 0
      BY <1>5
    <3> QED
      BY <1>3, <3>1, <3>2, <3>3
  <2>4. t \in KTHREADS => mscratch' = NULL /\ sp' = Unset
    BY <1>3, <2>1 DEF ProgramSaved, KERNEL, USER
  <2>5. t = BOOT => mscratch' = NULL /\ sp' = <<BOOT, 0>>
    BY <1>3, <2>1 DEF ProgramSaved, KERNEL, USER
  <2>6. InProgram(t)'
    BY <2>2, <2>3, <2>4, <2>5 DEF InProgram
  <2> QED
    BY <1>1, <1>4, <2>2, <2>6 DEF RunningInv
<1>6. CASE n > 1
  <2>1. HandlerSaved(t, n - 1, ctx)
    BY <1>2, <1>6 DEF StacksInv, StackOK
  <2>2. here'.code = "handler" /\ InHandler(t)'
    BY <1>1, <1>2, <1>3, <1>6, <2>1 DEF HandlerSaved, InHandler, KERNEL, USER
  <2> QED
    BY <1>1, <1>4, <2>2 DEF RunningInv
<1>7. \A m \in Nat : m >= 1 => m = 1 \/ m > 1
  OBVIOUS
<1> HIDE DEF n, ctx
<1> QED
  BY <1>2, <1>5, <1>6, <1>7


-----------------------------------------------------------------------------
(* The steps.                                                              *)
LEMMA InstructsStep == CteInv /\ Instructs => CteInv'
<1> SUFFICES ASSUME CteInv, Instructs PROVE CteInv'
  OBVIOUS
<1>1. /\ gpr' \in Regs /\ here' \in Wheres /\ here'.code = here.code
      /\ IF mscratch # NULL THEN sp' \in UserPointers ELSE sp' = sp
      /\ UNCHANGED <<mscratch, satp, stacks, vme_enable, arg, pcb, current>>
  BY CteAssumption DEF Instructs, CteInv, CteTypeOK, Regs, Wheres, UserPointers
<1>2. CteTypeOK'
  BY <1>1 DEF CteInv, CteTypeOK, Pointers
<1>3. StacksInv'
  BY <1>1 DEF CteInv, StacksInv, StackOK, ProgramSaved, HandlerSaved
<1>4. WaitingInv'
  BY <1>1 DEF CteInv, WaitingInv, WaitingOK
<1>5. RunningInv'
  <2>1. CASE mscratch # NULL
    BY <1>1, <2>1, CteAssumption DEF CteInv, RunningInv, InProgram, InHandler
  <2>2. CASE mscratch = NULL
    BY <1>1, <2>2, Tuples DEF CteInv, RunningInv, InProgram, InHandler, NULL
  <2> QED
    BY <2>1, <2>2
<1> QED
  BY <1>2, <1>3, <1>4, <1>5 DEF CteInv

LEMMA VmeInitStep == CteInv /\ vme_init => CteInv'
<1> SUFFICES ASSUME CteInv, vme_init PROVE CteInv'
  OBVIOUS
<1> USE DEF CteInv
<1>1. /\ satp' = Kas /\ vme_enable' = TRUE /\ ~vme_enable
      /\ UNCHANGED <<gpr, sp, here, mscratch, stacks, arg, pcb, current>>
  BY DEF vme_init
<1>2. CteTypeOK'
  BY <1>1 DEF CteTypeOK, Roots, Kas, Pdir, AllThreads
<1>3. StacksInv'
  BY <1>1 DEF StacksInv, StackOK, ProgramSaved, HandlerSaved
<1>4. WaitingInv'
  BY <1>1 DEF WaitingInv, WaitingOK
<1>5. RunningInv'
  BY <1>1 DEF RunningInv, InProgram, InHandler
<1> QED
  BY <1>2, <1>3, <1>4, <1>5

LEMMA MakeStep ==
  ASSUME CteInv, NEW t \in USERS \cup KTHREADS, NEW pdir \in Roots, NEW np \in {KERNEL, USER},
         NEW usp \in Pointers, Make(t, pdir, np, usp),
         t \in USERS => np = USER /\ usp \in UserPointers /\ pdir = Pdir(t) /\ vme_enable,
         t \in KTHREADS => np = KERNEL /\ usp = Unset /\ pdir = NULL
  PROVE  CteInv'
<1> USE DEF CteInv
<1>1. t \in AllThreads /\ t # BOOT /\ t # current
  BY CteAssumption DEF AllThreads, Make
<1>2. PICK entry \in Places, regs \in Values :
        stacks' = [stacks EXCEPT ![t] = <<Context(regs, [code |-> "program", at |-> entry - 1],
                                                  pdir, np, usp, NULL)>>]
  BY DEF Make
<1> DEFINE ctx == Context(regs, [code |-> "program", at |-> entry - 1], pdir, np, usp, NULL)
<1>3. /\ pcb' = [pcb EXCEPT ![t] = <<t, 1>>]
      /\ UNCHANGED <<gpr, sp, here, mscratch, satp, vme_enable, arg, current>>
  BY DEF Make
<1>4. ctx \in ThreadContexts
  BY CteAssumption DEF Context, ThreadContexts, Regs, Wheres
<1>5. ProgramSaved(t, ctx)
  BY <1>1 DEF ProgramSaved, Context
<1> HIDE DEF ctx
<1>6. <<ctx>> \in Seq(ThreadContexts) /\ Len(<<ctx>>) = 1 /\ <<ctx>>[1] = ctx
  BY <1>4
<1>7. /\ stacks' \in [AllThreads -> Seq(ThreadContexts)] /\ stacks'[t] = <<ctx>>
      /\ \A u \in AllThreads : u # t => stacks'[u] = stacks[u]
  BY <1>1, <1>2, <1>6 DEF CteTypeOK, ctx
<1>8. CteTypeOK'
  <2>1. pcb' \in [AllThreads -> {NULL} \cup Addresses]
    BY <1>1, <1>3 DEF CteTypeOK, Addresses
  <2> QED
    BY <1>3, <1>7, <2>1 DEF CteTypeOK
<1>9. StacksInv'
  <2>1. ASSUME NEW u \in AllThreads PROVE StackOK(u)'
    <3>1. CASE u # t
      BY <1>3, <1>7, <3>1, StackKept DEF StacksInv
    <3>2. CASE u = t
      BY <1>3, <1>5, <1>6, <1>7, <3>2 DEF StackOK, ProgramSaved
    <3> QED
      BY <3>1, <3>2
  <2> QED
    BY <2>1 DEF StacksInv
<1>10. WaitingInv'
  <2>1. ASSUME NEW u \in AllThreads, u # current PROVE WaitingOK(u)'
    <3>1. CASE u # t
      BY <1>3, <1>7, <2>1, <3>1 DEF WaitingInv, WaitingOK, CteTypeOK
    <3>2. CASE u = t
      <4>1. pcb'[t] = <<t, 1>>
        BY <1>1, <1>3 DEF CteTypeOK
      <4>2. Len(stacks'[t]) = 1
        BY <1>6, <1>7
      <4> QED
        BY <3>2, <4>1, <4>2 DEF WaitingOK
    <3> QED
      BY <3>1, <3>2
  <2> QED
    BY <1>3, <2>1 DEF WaitingInv
<1>11. RunningInv'
  BY <1>1, <1>3, <1>7 DEF RunningInv, InProgram, InHandler, CteTypeOK
<1> QED
  BY <1>8, <1>9, <1>10, <1>11

LEMMA UcontextStep == ASSUME CteInv, NEW t \in USERS, ucontext(t) PROVE CteInv'
<1>1. PICK v \in Values : Make(t, Pdir(t), USER, <<v>>)
  BY DEF ucontext
<1>2. vme_enable /\ t \notin KTHREADS /\ t \in AllThreads
  BY CteAssumption DEF ucontext, AllThreads
<1>3. Pdir(t) \in Roots /\ <<v>> \in UserPointers /\ <<v>> \in Pointers
  BY <1>2 DEF Roots, Pdir, Pointers, UserPointers
<1> QED
  BY <1>1, <1>2, <1>3, MakeStep

LEMMA KcontextStep == ASSUME CteInv, NEW t \in KTHREADS, nemu_kcontext(t) PROVE CteInv'
<1>1. t \notin USERS /\ NULL \in Roots /\ Unset \in Pointers
  BY CteAssumption DEF Roots, Pointers
<1>2. Make(t, NULL, KERNEL, Unset)
  BY DEF nemu_kcontext
<1> QED
  BY <1>1, <1>2, MakeStep


(* What a trap does to the stack of the thread that runs.                  *)
LEMMA Trapped ==
  ASSUME CteInv, NEW cause \in Causes, trap(cause)
  PROVE  LET t == current
             n == Len(stacks[t])
             ctx == Context(gpr, here, __am_get_cur_as, IF mscratch # NULL THEN USER ELSE KERNEL, sp, arg)
         IN  /\ mscratch' = NULL
             /\ sp' = <<t, n + 1>> /\ arg' = <<t, n + 1>>
             /\ gpr' = EventOf(cause) /\ here' = [code |-> "handler", at |-> 0]
             /\ UNCHANGED <<satp, vme_enable, pcb, current>>
             /\ ctx \in ThreadContexts
             /\ stacks' \in [AllThreads -> Seq(ThreadContexts)]
             /\ Len(stacks'[t]) = n + 1 /\ stacks'[t][n + 1] = ctx
             /\ \A i \in 1..n : stacks'[t][i] = stacks[t][i]
             /\ \A u \in AllThreads : u # t => stacks'[u] = stacks[u]
<1> DEFINE t == current
           n == Len(stacks[t])
           np == IF mscratch # NULL THEN USER ELSE KERNEL
           ctx == Context(gpr, here, __am_get_cur_as, np, sp, arg)
<1> USE DEF CteInv
<1>1. t \in AllThreads /\ n \in Nat /\ stacks[t] \in Seq(ThreadContexts)
  BY DEF CteTypeOK
<1>2. TrapStack[1] = t /\ TrapStack[2] = n
  BY OnTopOfIts, Tuples DEF trap
<1>3. /\ stacks' = [stacks EXCEPT ![t] = Append(SubSeq(stacks[t], 1, n), ctx)]
      /\ mscratch' = NULL
      /\ sp' = <<t, n + 1>> /\ arg' = <<t, n + 1>>
      /\ gpr' = EventOf(cause) /\ here' = [code |-> "handler", at |-> 0]
      /\ UNCHANGED <<satp, vme_enable, pcb, current>>
  BY <1>2 DEF trap, TrapStack, Scratch
<1>4. ctx \in ThreadContexts
  BY DEF Context, ThreadContexts, CteTypeOK, __am_get_cur_as, Roots
<1>5. /\ stacks' \in [AllThreads -> Seq(ThreadContexts)]
      /\ Len(stacks'[t]) = n + 1 /\ stacks'[t][n + 1] = ctx
      /\ \A i \in 1..n : stacks'[t][i] = stacks[t][i]
      /\ \A u \in AllThreads : u # t => stacks'[u] = stacks[u]
  <2>1. SubSeq(stacks[t], 1, n) = stacks[t]
    BY <1>1
  <2>2. stacks'[t] = Append(stacks[t], ctx)
    BY <1>1, <1>3, <2>1 DEF CteTypeOK
  <2> HIDE DEF ctx
  <2>3. Append(stacks[t], ctx) \in Seq(ThreadContexts)
    BY <1>1, <1>4
  <2>4. /\ Len(Append(stacks[t], ctx)) = n + 1 /\ Append(stacks[t], ctx)[n + 1] = ctx
        /\ \A i \in 1..n : Append(stacks[t], ctx)[i] = stacks[t][i]
    BY <1>1, <1>4
  <2> QED
    BY <1>1, <1>3, <2>1, <2>2, <2>3, <2>4 DEF CteTypeOK
<1> QED
  BY <1>3, <1>4, <1>5 DEF ctx, np

LEMMA TrapStep == ASSUME CteInv, NEW cause \in Causes, trap(cause) PROVE CteInv'
<1> DEFINE t == current
           n == Len(stacks[t])
           np == IF mscratch # NULL THEN USER ELSE KERNEL
           ctx == Context(gpr, here, __am_get_cur_as, np, sp, arg)
<1> USE DEF CteInv
<1>1. t \in AllThreads /\ n \in Nat /\ stacks[t] \in Seq(ThreadContexts)
  BY DEF CteTypeOK
<1>3. /\ mscratch' = NULL
      /\ sp' = <<t, n + 1>> /\ arg' = <<t, n + 1>>
      /\ gpr' = EventOf(cause) /\ here' = [code |-> "handler", at |-> 0]
      /\ UNCHANGED <<satp, vme_enable, pcb, current>>
  BY Trapped
<1>5. /\ stacks' \in [AllThreads -> Seq(ThreadContexts)]
      /\ Len(stacks'[t]) = n + 1 /\ stacks'[t][n + 1] = ctx
      /\ \A i \in 1..n : stacks'[t][i] = stacks[t][i]
      /\ \A u \in AllThreads : u # t => stacks'[u] = stacks[u]
  BY Trapped
<1>6. CteTypeOK'
  <2>1. EventOf(cause) \in Regs
    BY DEF Regs, Events
  <2>2. <<t, n + 1>> \in Addresses
    BY <1>1 DEF Addresses
  <2> QED
    BY <1>3, <1>5, <2>1, <2>2 DEF CteTypeOK, Pointers, Wheres
<1>7. IF n = 0 THEN ProgramSaved(t, ctx) ELSE HandlerSaved(t, n, ctx)
  <2>1. CASE here.code = "handler"
    BY <1>1, <2>1 DEF RunningInv, InHandler, HandlerSaved, Context, __am_get_cur_as
  <2>2. CASE here.code # "handler"
    <3>1. InProgram(t) /\ here.code = "program" /\ t \notin KTHREADS
      BY <1>1, <2>2 DEF RunningInv, CteTypeOK, Wheres, trap, CanRun, InProgram
    <3>2. n = 0
      BY <3>1 DEF InProgram
    <3>3. CASE t \in USERS
      <4>1. mscratch # NULL /\ satp = Pdir(t) /\ vme_enable /\ sp \in UserPointers /\ t # BOOT
        BY <3>1, <3>3, Tuples, CteAssumption DEF InProgram, NULL
      <4>2. ctx.np = USER /\ ctx.sp = sp /\ ctx.pdir = Pdir(t) /\ ctx.mepc = here
        BY <4>1 DEF Context, __am_get_cur_as
      <4> QED
        BY <3>1, <3>2, <4>1, <4>2 DEF ProgramSaved
    <3>4. CASE t = BOOT
      BY <3>1, <3>2, <3>4, CteAssumption DEF InProgram, ProgramSaved, Context, __am_get_cur_as
    <3> QED
      BY <1>1, <3>1, <3>3, <3>4 DEF AllThreads
  <2> QED
    BY <2>1, <2>2
<1> HIDE DEF ctx
<1>8. StacksInv'
  <2>1. ASSUME NEW u \in AllThreads PROVE StackOK(u)'
    <3>1. CASE u # t
      BY <1>3, <1>5, <3>1, StackKept DEF StacksInv
    <3>2. CASE u = t
      <4>1. ASSUME NEW i \in 1..(n + 1)
            PROVE  IF i = 1 THEN ProgramSaved(t, stacks'[t][i]) ELSE HandlerSaved(t, i - 1, stacks'[t][i])
        <5>1. CASE i \in 1..n
          <6>1. IF i = 1 THEN ProgramSaved(t, stacks[t][i]) ELSE HandlerSaved(t, i - 1, stacks[t][i])
            BY <1>1, <5>1 DEF StacksInv, StackOK
          <6> QED
            BY <1>5, <5>1, <6>1
        <5>2. CASE i = n + 1
          <6>1. i - 1 = n /\ (i = 1 <=> n = 0) /\ stacks'[t][i] = ctx
            BY <1>1, <1>5, <5>2
          <6> QED
            BY <1>7, <6>1
        <5> QED
          BY <1>1, <5>1, <5>2
      <4>2. ASSUME NEW i \in 1..Len(stacks'[u])
            PROVE  (IF i = 1 THEN ProgramSaved(u, stacks[u][i]) ELSE HandlerSaved(u, i - 1, stacks[u][i]))'
        <5>1. i \in 1..(n + 1)
          BY <1>5, <3>2
        <5> QED
          BY <1>3, <3>2, <4>1, <5>1 DEF ProgramSaved, HandlerSaved
      <4> QED
        BY <4>2 DEF StackOK
    <3> QED
      BY <3>1, <3>2
  <2> QED
    BY <2>1 DEF StacksInv
<1>9. WaitingInv'
  BY <1>3, <1>5 DEF WaitingInv, WaitingOK
<1>10. RunningInv'
  BY <1>1, <1>3, <1>5 DEF RunningInv, InHandler
<1> QED
  BY <1>6, <1>8, <1>9, <1>10

(* What an answer does to the context that the handler was given.          *)
LEMMA Answered ==
  ASSUME CteInv, SetGPRx
  PROVE  LET t == current
             n == Len(stacks[t])
             old == stacks[t][n]
             new == stacks'[t][n]
         IN  /\ n >= 1 /\ arg = <<t, n>>
             /\ UNCHANGED <<gpr, sp, here, mscratch, satp, vme_enable, arg, pcb, current>>
             /\ new \in ThreadContexts /\ new.gpr \in Values
             /\ new.mepc = old.mepc /\ new.pdir = old.pdir /\ new.np = old.np
             /\ new.sp = old.sp /\ new.arg = old.arg
             /\ stacks' \in [AllThreads -> Seq(ThreadContexts)] /\ Len(stacks'[t]) = n
             /\ \A i \in 1..n : i # n => stacks'[t][i] = stacks[t][i]
             /\ \A u \in AllThreads : u # t => stacks'[u] = stacks[u]
<1> USE DEF CteInv
<1> DEFINE t == current
           n == Len(stacks[t])
<1>1. t \in AllThreads /\ n \in Nat /\ stacks[t] \in Seq(ThreadContexts)
  BY DEF CteTypeOK
<1>2. n >= 1 /\ arg = <<t, n>>
  BY DEF SetGPRx, RunningInv, InHandler
<1>3. PICK v \in Values : stacks' = [stacks EXCEPT ![t][n].gpr = v]
  <2>1. arg[1] = t /\ arg[2] = n
    BY <1>2, Tuples
  <2>2. PICK v \in Values : stacks' = [stacks EXCEPT ![arg[1]][arg[2]].gpr = v]
    BY DEF SetGPRx
  <2> QED
    BY <2>1, <2>2
<1>4. UNCHANGED <<gpr, sp, here, mscratch, satp, vme_enable, arg, pcb, current>>
  BY DEF SetGPRx
<1> DEFINE ctx == [stacks[t][n] EXCEPT !.gpr = v]
<1>5. /\ ctx \in ThreadContexts /\ ctx.mepc = stacks[t][n].mepc /\ ctx.pdir = stacks[t][n].pdir
      /\ ctx.gpr = v /\ ctx.np = stacks[t][n].np /\ ctx.sp = stacks[t][n].sp /\ ctx.arg = stacks[t][n].arg
  <2>1. stacks[t][n] \in ThreadContexts
    BY <1>1, <1>2
  <2> QED
    BY <2>1 DEF ThreadContexts, Regs
<1> HIDE DEF ctx
<1>6. stacks' = [stacks EXCEPT ![t] = [stacks[t] EXCEPT ![n] = ctx]]
  BY <1>1, <1>3 DEF ctx, CteTypeOK
<1>7. /\ stacks' \in [AllThreads -> Seq(ThreadContexts)]
      /\ Len(stacks'[t]) = n /\ stacks'[t][n] = ctx
      /\ \A i \in 1..n : i # n => stacks'[t][i] = stacks[t][i]
      /\ \A u \in AllThreads : u # t => stacks'[u] = stacks[u]
  <2>1. [stacks[t] EXCEPT ![n] = ctx] \in Seq(ThreadContexts)
    BY <1>1, <1>2, <1>5
  <2>2. /\ Len([stacks[t] EXCEPT ![n] = ctx]) = n /\ [stacks[t] EXCEPT ![n] = ctx][n] = ctx
        /\ \A i \in 1..n : i # n => [stacks[t] EXCEPT ![n] = ctx][i] = stacks[t][i]
    BY <1>1, <1>2, <1>5
  <2> QED
    BY <1>1, <1>6, <2>1, <2>2 DEF CteTypeOK
<1> QED
  BY <1>2, <1>4, <1>5, <1>7

LEMMA SetGPRxStep == CteInv /\ SetGPRx => CteInv'
<1> SUFFICES ASSUME CteInv, SetGPRx PROVE CteInv'
  OBVIOUS
<1> USE DEF CteInv
<1> DEFINE t == current
           n == Len(stacks[t])
           ctx == stacks'[t][n]
<1>1. t \in AllThreads /\ n \in Nat /\ stacks[t] \in Seq(ThreadContexts)
  BY DEF CteTypeOK
<1>2. n >= 1 /\ arg = <<t, n>>
  BY Answered
<1>4. UNCHANGED <<gpr, sp, here, mscratch, satp, vme_enable, arg, pcb, current>>
  BY Answered
<1>5. /\ ctx \in ThreadContexts /\ ctx.mepc = stacks[t][n].mepc /\ ctx.pdir = stacks[t][n].pdir
      /\ ctx.np = stacks[t][n].np /\ ctx.sp = stacks[t][n].sp /\ ctx.arg = stacks[t][n].arg
  BY Answered
<1>7. /\ stacks' \in [AllThreads -> Seq(ThreadContexts)]
      /\ Len(stacks'[t]) = n /\ stacks'[t][n] = ctx
      /\ \A i \in 1..n : i # n => stacks'[t][i] = stacks[t][i]
      /\ \A u \in AllThreads : u # t => stacks'[u] = stacks[u]
  BY Answered
<1> HIDE DEF ctx
<1>8. CteTypeOK'
  BY <1>4, <1>7 DEF CteTypeOK
<1>9. StacksInv'
  <2>1. ASSUME NEW u \in AllThreads PROVE StackOK(u)'
    <3>1. CASE u # t
      BY <1>4, <1>7, <3>1, StackKept DEF StacksInv
    <3>2. CASE u = t
      <4>1. ASSUME NEW i \in 1..n
            PROVE  IF i = 1 THEN ProgramSaved(t, stacks'[t][i]) ELSE HandlerSaved(t, i - 1, stacks'[t][i])
        <5>1. IF i = 1 THEN ProgramSaved(t, stacks[t][i]) ELSE HandlerSaved(t, i - 1, stacks[t][i])
          BY <1>1, <4>1 DEF StacksInv, StackOK
        <5>2. CASE i # n
          BY <1>7, <5>1, <5>2
        <5>3. CASE i = n
          BY <1>5, <1>7, <5>1, <5>3 DEF ProgramSaved, HandlerSaved
        <5> QED
          BY <5>2, <5>3
      <4> QED
        BY <1>4, <1>7, <3>2, <4>1 DEF StackOK, ProgramSaved, HandlerSaved
    <3> QED
      BY <3>1, <3>2
  <2> QED
    BY <2>1 DEF StacksInv
<1>10. WaitingInv'
  BY <1>4, <1>7 DEF WaitingInv, WaitingOK
<1>11. RunningInv'
  BY <1>2, <1>4, <1>7 DEF RunningInv, InHandler, InProgram
<1> QED
  BY <1>8, <1>9, <1>10, <1>11


LEMMA ReturnStep == CteInv /\ Return => CteInv'
<1> SUFFICES ASSUME CteInv, Return PROVE CteInv'
  OBVIOUS
<1> USE DEF CteInv
<1>1. /\ Len(stacks[current]) >= 1 /\ mscratch = NULL
      /\ arg[1] = current /\ arg[2] = Len(stacks[current]) /\ current \in AllThreads
  BY Tuples DEF Return, RunningInv, InHandler, CteTypeOK
<1>2. leave(current, Len(stacks[current])) /\ pcb' = pcb /\ current' = current
  BY <1>1 DEF Return
<1>3. pcb' \in [AllThreads -> {NULL} \cup Addresses]
  BY <1>2 DEF CteTypeOK
<1>4. CteTypeOK' /\ StacksInv' /\ RunningInv'
  BY <1>1, <1>2, <1>3, LeaveKeeps
<1>5. \A t \in AllThreads : t # current => stacks'[t] = stacks[t]
  BY <1>1, <1>2 DEF leave, CteTypeOK
<1>6. WaitingInv'
  BY <1>2, <1>5 DEF WaitingInv, WaitingOK
<1> QED
  BY <1>4, <1>6

(* What is known of the thread that is to run, before it does.             *)
LEMMA Scheduled ==
  ASSUME CteInv, NEW t \in AllThreads, schedule(t)
  PROVE  /\ Len(stacks[t]) >= 1 /\ mscratch = NULL /\ current' = t
         /\ leave(t, Len(stacks[t]))
         /\ pcb' = [pcb EXCEPT ![current] = <<current, Len(stacks[current])>>]
         /\ Len(stacks[current]) >= 1
<1> USE DEF CteInv
<1>1. /\ here.code = "handler" /\ Len(stacks[current]) >= 1 /\ mscratch = NULL
      /\ arg = <<current, Len(stacks[current])>>
  BY DEF schedule, RunningInv, InHandler
<1>2. pcb' = [pcb EXCEPT ![current] = arg] /\ current' = t /\ leave(pcb'[t][1], pcb'[t][2])
  BY DEF schedule
<1>3. pcb'[t] = <<t, Len(stacks[t])>> /\ Len(stacks[t]) >= 1
  <2>1. CASE t = current
    BY <1>1, <1>2, <2>1 DEF CteTypeOK
  <2>2. CASE t # current
    BY <1>2, <2>2 DEF CteTypeOK, schedule, WaitingInv, WaitingOK
  <2> QED
    BY <2>1, <2>2
<1>4. pcb'[t][1] = t /\ pcb'[t][2] = Len(stacks[t])
  BY <1>3, Tuples
<1> QED
  BY <1>1, <1>2, <1>3, <1>4

LEMMA ScheduleStep == ASSUME CteInv, NEW t \in AllThreads, schedule(t) PROVE CteInv'
<1> USE DEF CteInv
<1>1. /\ Len(stacks[t]) >= 1 /\ mscratch = NULL /\ current' = t
      /\ leave(t, Len(stacks[t]))
      /\ pcb' = [pcb EXCEPT ![current] = <<current, Len(stacks[current])>>]
      /\ Len(stacks[current]) >= 1
  BY Scheduled
<1>2. current \in AllThreads /\ Len(stacks[current]) \in Nat
  BY DEF CteTypeOK
<1>3. pcb' \in [AllThreads -> {NULL} \cup Addresses]
  BY <1>1, <1>2 DEF CteTypeOK, Addresses
<1>4. CteTypeOK' /\ StacksInv' /\ RunningInv'
  BY <1>1, <1>3, LeaveKeeps
<1>5. \A u \in AllThreads : u # t => stacks'[u] = stacks[u]
  BY <1>1 DEF leave, CteTypeOK
<1>6. WaitingInv'
  <2>1. ASSUME NEW u \in AllThreads, u # t PROVE WaitingOK(u)'
    <3>1. CASE u = current
      <4>1. pcb'[u] = <<u, Len(stacks'[u])>> /\ Len(stacks'[u]) >= 1
        BY <1>1, <1>2, <1>5, <2>1, <3>1 DEF CteTypeOK
      <4> QED
        BY <4>1 DEF WaitingOK
    <3>2. CASE u # current
      BY <1>1, <1>5, <2>1, <3>2 DEF WaitingInv, WaitingOK, CteTypeOK
    <3> QED
      BY <3>1, <3>2
  <2> QED
    BY <1>1, <2>1 DEF WaitingInv
<1> QED
  BY <1>4, <1>6

THEOREM CteInductive == CteInv /\ [CteNext]_cteVars => CteInv'
<1> SUFFICES ASSUME CteInv, [CteNext]_cteVars PROVE CteInv'
  OBVIOUS
<1>1. CASE UNCHANGED cteVars
  BY <1>1 DEF cteVars, CteInv, CteTypeOK, StacksInv, StackOK, ProgramSaved, HandlerSaved, RunningInv,
              InProgram, InHandler, WaitingInv, WaitingOK
<1>2. CASE CteNext
  BY <1>2, InstructsStep, VmeInitStep, SetGPRxStep, ReturnStep, UcontextStep, KcontextStep, TrapStep,
     ScheduleStep DEF CteNext
<1> QED
  BY <1>1, <1>2


-----------------------------------------------------------------------------
(* The threads of Threads, and what the steps make of them.                *)
Activations == [t \in AllThreads |-> ActivationsOf(t)]

LEMMA OfRunning ==
  ASSUME CteTypeOK
  PROVE  LET n == Len(stacks[current])
         IN  /\ n \in Nat /\ current \in AllThreads
             /\ ActivationsOf(current) = [i \in 1..(n + 1) |-> IF i <= n THEN Saved(stacks[current][i]) ELSE Live]
             /\ Len(ActivationsOf(current)) = n + 1
<1> DEFINE n == Len(stacks[current])
           f == [i \in 1..(n + 1) |-> IF i <= n THEN Saved(stacks[current][i]) ELSE Live]
<1>1. n \in Nat /\ n + 1 \in Nat /\ current \in AllThreads
  BY DEF CteTypeOK
<1>2. ActivationsOf(current) = f
  BY DEF ActivationsOf
<1> HIDE DEF n
<1>3. f = [i \in 1..(n + 1) |-> f[i]]
  OBVIOUS
<1> HIDE DEF f
<1>4. Len(f) = n + 1
  BY <1>1, <1>3, LenOf
<1> QED
  BY <1>1, <1>2, <1>4 DEF n, f

LEMMA OfWaiting ==
  ASSUME CteTypeOK, NEW t \in AllThreads, t # current
  PROVE  LET n == Len(stacks[t])
         IN  /\ n \in Nat
             /\ ActivationsOf(t) = [i \in 1..n |-> IF i < n THEN Saved(stacks[t][i]) ELSE Waits(stacks[t][i])]
             /\ Len(ActivationsOf(t)) = n
<1> DEFINE n == Len(stacks[t])
           f == [i \in 1..n |-> IF i < n THEN Saved(stacks[t][i]) ELSE Waits(stacks[t][i])]
<1>1. n \in Nat
  BY DEF CteTypeOK
<1>2. ActivationsOf(t) = f
  BY DEF ActivationsOf
<1> HIDE DEF n
<1>3. f = [i \in 1..n |-> f[i]]
  OBVIOUS
<1> HIDE DEF f
<1>4. Len(f) = n
  BY <1>1, <1>3, LenOf
<1> QED
  BY <1>1, <1>2, <1>4 DEF n, f

LEMMA OthersKept ==
  ASSUME NEW t \in AllThreads, t # current, t # current', stacks'[t] = stacks[t]
  PROVE  ActivationsOf(t)' = ActivationsOf(t)
  BY DEF ActivationsOf, Saved, Waits

(* A record of Threads with one of its fields, or several, replaced.       *)
LEMMA AtReplaced ==
  ASSUME NEW code, NEW at, NEW regs, NEW usp, NEW space, NEW new,
         NEW r, r = Abstract!Activation(code, at, regs, usp, space)
  PROVE  [r EXCEPT !.at = new] = Abstract!Activation(code, new, regs, usp, space)
<1> DEFINE T == [code : {code}, at : {at, new}, gpr : {regs, new}, sp : {usp, new}, space : {space}]
<1>1. r \in T /\ r.code = code /\ r.at = at /\ r.gpr = regs /\ r.sp = usp /\ r.space = space
  BY DEF Abstract!Activation
<1> QED
  BY ONLY <1>1 DEF Abstract!Activation

LEMMA GprReplaced ==
  ASSUME NEW code, NEW at, NEW regs, NEW usp, NEW space, NEW new,
         NEW r, r = Abstract!Activation(code, at, regs, usp, space)
  PROVE  [r EXCEPT !.gpr = new] = Abstract!Activation(code, at, new, usp, space)
<1> DEFINE T == [code : {code}, at : {at, new}, gpr : {regs, new}, sp : {usp, new}, space : {space}]
<1>1. r \in T /\ r.code = code /\ r.at = at /\ r.gpr = regs /\ r.sp = usp /\ r.space = space
  BY DEF Abstract!Activation
<1> QED
  BY ONLY <1>1 DEF Abstract!Activation

LEMMA SpReplaced ==
  ASSUME NEW code, NEW at, NEW regs, NEW usp, NEW space, NEW new,
         NEW r, r = Abstract!Activation(code, at, regs, usp, space)
  PROVE  [r EXCEPT !.sp = new] = Abstract!Activation(code, at, regs, new, space)
<1> DEFINE T == [code : {code}, at : {at, new}, gpr : {regs, new}, sp : {usp, new}, space : {space}]
<1>1. r \in T /\ r.code = code /\ r.at = at /\ r.gpr = regs /\ r.sp = usp /\ r.space = space
  BY DEF Abstract!Activation
<1> QED
  BY ONLY <1>1 DEF Abstract!Activation

LEMMA OneChanged ==
  ASSUME NEW n \in Nat, NEW f, NEW g, NEW x, NEW k \in 1..n,
         f = [i \in 1..n |-> f[i]], g = [i \in 1..n |-> g[i]],
         \A i \in 1..n : i # k => g[i] = f[i], g[k] = x
  PROVE  g = [f EXCEPT ![k] = x]
  OBVIOUS

LEMMA ThreadChanged ==
  ASSUME NEW t \in AllThreads, NEW k, NEW x,
         ActivationsOf(t)' = [ActivationsOf(t) EXCEPT ![k] = x],
         \A u \in AllThreads : u # t => ActivationsOf(u)' = ActivationsOf(u)
  PROVE  Activations' = [Activations EXCEPT ![t][k] = x]
<1>1. Activations' = [u \in AllThreads |-> ActivationsOf(u)'] /\ Activations[t] = ActivationsOf(t)
  BY DEF Activations
<1>2. Activations' = [Activations EXCEPT ![t] = [ActivationsOf(t) EXCEPT ![k] = x]]
  BY <1>1 DEF Activations
<1> QED
  BY <1>1, <1>2

LEMMA ThreadReplaced ==
  ASSUME NEW t \in AllThreads, NEW x, ActivationsOf(t)' = x,
         \A u \in AllThreads : u # t => ActivationsOf(u)' = ActivationsOf(u)
  PROVE  Activations' = [Activations EXCEPT ![t] = x]
  BY DEF Activations

(* A user's program, and no other, runs with mscratch set.                 *)
LEMMA InUserProgram ==
  CteInv /\ mscratch # NULL => /\ current \in USERS /\ vme_enable /\ sp \in UserPointers
                               /\ satp = Pdir(current)
  BY DEF CteInv, CteTypeOK, RunningInv, InHandler, InProgram, AllThreads

LEMMA SavedPaged ==
  ASSUME CteInv, NEW t \in AllThreads, NEW i \in 1..Len(stacks[t]), stacks[t][i].pdir # NULL
  PROVE  vme_enable
  BY DEF CteInv, StacksInv, StackOK, ProgramSaved, HandlerSaved

THEOREM InitialThreads == CteInit => Abstract!AbstractInit
<1> SUFFICES ASSUME CteInit PROVE Abstract!AbstractInit
  OBVIOUS
<1>1. CteTypeOK
  BY CteInitial DEF CteInv
<1>2. current = BOOT /\ here.at \in Places /\ gpr \in Values /\ \A t \in AllThreads : Len(stacks[t]) = 0
  BY DEF CteInit
<1>3. Live = Abstract!Activation("program", here.at, gpr, <<>>, <<>>)
  BY DEF Live, CteInit, NULL, Abstract!Activation, __am_get_cur_as
<1>4. ActivationsOf(BOOT) = <<Live>>
  <2>1. ActivationsOf(BOOT) = [i \in 1..1 |-> IF i <= 0 THEN Saved(stacks[BOOT][i]) ELSE Live]
    BY <1>2, OfRunning, <1>1
  <2> QED
    BY <2>1
<1>5. \A t \in AllThreads : t # BOOT => ActivationsOf(t) = <<>>
  <2> SUFFICES ASSUME NEW t \in AllThreads, t # BOOT PROVE ActivationsOf(t) = <<>>
    OBVIOUS
  <2>1. ActivationsOf(t) = [i \in 1..0 |-> IF i < 0 THEN Saved(stacks[t][i]) ELSE Waits(stacks[t][i])]
    BY <1>1, <1>2, OfWaiting
  <2> QED
    BY <2>1
<1>6. BOOT \notin USERS
  BY CteAssumption
<1>7. ActivationsOf(BOOT) = <<Abstract!Program(BOOT, here.at, gpr, gpr)>>
  BY <1>3, <1>4, <1>6 DEF Abstract!Program, Abstract!Kernel, Abstract!NoSpace
<1>8. Activations = [t \in AllThreads |-> IF t = BOOT THEN <<Abstract!Program(BOOT, here.at, gpr, gpr)>> ELSE <<>>]
  BY <1>5, <1>7 DEF Activations
<1> QED
  BY <1>2, <1>8 DEF Abstract!AbstractInit, Activations, Abstract!AllThreads, AllThreads

LEMMA InstructsGoes == CteInv /\ Instructs => Abstract!Goes
<1> SUFFICES ASSUME CteInv, Instructs PROVE Abstract!Goes
  OBVIOUS
<1> DEFINE n == Len(stacks[current])
           top == ActivationsOf(current)[n + 1]
<1>1. CteTypeOK /\ CteTypeOK'
  BY InstructsStep DEF CteInv
<1>2. PICK at \in Places : here' = [here EXCEPT !.at = at]
  BY DEF Instructs
<1>3. PICK v \in Values : IF mscratch # NULL THEN sp' = <<v>> ELSE sp' = sp
  BY DEF Instructs
<1>4. gpr' \in Values /\ UNCHANGED <<mscratch, satp, stacks, vme_enable, arg, pcb, current>>
  BY DEF Instructs
<1>5. /\ n \in Nat /\ current \in AllThreads /\ Len(ActivationsOf(current)) = n + 1
      /\ ActivationsOf(current) = [i \in 1..(n + 1) |-> IF i <= n THEN Saved(stacks[current][i]) ELSE Live]
      /\ ActivationsOf(current)' = [i \in 1..(n + 1) |-> IF i <= n THEN Saved(stacks[current][i]) ELSE Live']
  BY <1>1, <1>4, OfRunning DEF ActivationsOf, Saved
<1>6. top = Live
  BY <1>5
<1> DEFINE new == [top EXCEPT !.at = at, !.gpr = gpr', !.sp = IF @ = <<>> THEN @ ELSE <<v>>]
<1>7. Live' = new
  <2>1. here'.code = here.code /\ here'.at = at
    BY <1>1, <1>2 DEF CteTypeOK, Wheres
  <2>2. mscratch # NULL => sp # <<>>
    BY InUserProgram, Tuples DEF UserPointers
  <2> DEFINE usp == IF mscratch # NULL THEN sp ELSE NULL
             space == __am_get_cur_as
  <2>3. new = Abstract!Activation(here.code, at, gpr', IF usp = <<>> THEN usp ELSE <<v>>, space)
    <3>1. top = Abstract!Activation(here.code, here.at, gpr, usp, space)
      BY <1>6 DEF Live, Abstract!Activation
    <3> HIDE DEF usp, space
    <3>2. PICK r : r = top
      OBVIOUS
    <3>3. PICK regs, z : regs = gpr' /\ z = IF usp = <<>> THEN usp ELSE <<v>>
      OBVIOUS
    <3>4. r = Abstract!Activation(here.code, here.at, gpr, usp, space)
      BY <3>1, <3>2
    <3> DEFINE T == [code : {here.code}, at : {here.at, at}, gpr : {gpr, regs}, sp : {usp, z}, space : {space}]
               r1 == [r EXCEPT !.at = at]
               r2 == [r1 EXCEPT !.gpr = regs]
    <3>5. r \in T /\ r.sp = usp
      BY <3>4 DEF Abstract!Activation
    <3>6. new = [r EXCEPT !.at = at, !.gpr = regs, !.sp = z]
      BY <3>2, <3>3, <3>5
    <3>7. [r EXCEPT !.at = at, !.gpr = regs, !.sp = z] = [r2 EXCEPT !.sp = z]
      BY ONLY <3>5
    <3>8. r1 = Abstract!Activation(here.code, at, gpr, usp, space)
      BY <3>4, AtReplaced
    <3> HIDE DEF T, r1
    <3>9. r2 = Abstract!Activation(here.code, at, regs, usp, space)
      BY <3>8, GprReplaced
    <3> HIDE DEF r2
    <3>10. [r2 EXCEPT !.sp = z] = Abstract!Activation(here.code, at, regs, z, space)
      BY <3>9, SpReplaced
    <3> QED
      BY <3>3, <3>6, <3>7, <3>10
  <2>4. (IF mscratch' # NULL THEN sp' ELSE NULL) = IF usp = <<>> THEN usp ELSE <<v>>
    BY <1>3, <1>4, <2>2 DEF NULL
  <2>5. __am_get_cur_as' = space
    BY <1>4 DEF __am_get_cur_as
  <2> HIDE DEF usp, space
  <2> QED
    BY <2>1, <2>3, <2>4, <2>5 DEF Live, Abstract!Activation
<1> HIDE DEF top, new, n
<1>8. ActivationsOf(current)' = [ActivationsOf(current) EXCEPT ![n + 1] = new]
  <2>1. \A i \in 1..(n + 1) : i # n + 1 => i <= n
    BY <1>5
  <2>2. n + 1 \in Nat /\ n + 1 \in 1..(n + 1) /\ ~(n + 1 <= n)
    BY <1>5
  <2>3. \A i \in 1..(n + 1) : i # n + 1 => ActivationsOf(current)'[i] = ActivationsOf(current)[i]
    BY <1>5, <2>1
  <2>4. ActivationsOf(current)'[n + 1] = new
    BY <1>5, <1>7, <2>2
  <2> QED
    BY <1>5, <2>2, <2>3, <2>4, OneChanged
<1>9. \A t \in AllThreads : t # current => ActivationsOf(t)' = ActivationsOf(t)
  BY <1>4, OthersKept
<1>10. Activations' = [Activations EXCEPT ![current][n + 1] = new]
  <2>1. PICK c \in AllThreads : c = current
    BY <1>5
  <2>2. ActivationsOf(c)' = [ActivationsOf(c) EXCEPT ![n + 1] = new]
    BY <1>4, <1>8, <2>1
  <2>3. Activations' = [Activations EXCEPT ![c][n + 1] = new]
    BY <1>9, <2>1, <2>2, ThreadChanged
  <2> QED
    BY <2>1, <2>3
<1>11. Abstract!Top(current) = top /\ Len(Activations[current]) = n + 1
  BY <1>5 DEF Activations, Abstract!Top, top
<1>12. Abstract!Becomes(current, n + 1, new)
  BY <1>10 DEF Activations, Abstract!Becomes
<1> QED
  BY <1>2, <1>3, <1>4, <1>11, <1>12 DEF Abstract!Goes, Abstract!Kernel, Activations, new

LEMMA RunningKept ==
  ASSUME NEW c \in AllThreads, c = current, current' = current, stacks'[c] = stacks[c], Live' = Live
  PROVE  ActivationsOf(c)' = ActivationsOf(c)
  BY DEF ActivationsOf, Saved, Waits

LEMMA NoneOf ==
  ASSUME CteTypeOK, NEW t \in AllThreads, t # current, Len(stacks[t]) = 0
  PROVE  ActivationsOf(t) = <<>>
<1>1. ActivationsOf(t) = [i \in 1..0 |-> IF i < 0 THEN Saved(stacks[t][i]) ELSE Waits(stacks[t][i])]
  BY OfWaiting
<1> QED
  BY <1>1

LEMMA SavedIs ==
  ASSUME NEW ctx
  PROVE  /\ Saved(ctx) = Abstract!Activation(ctx.mepc.code, ctx.mepc.at, ctx.gpr,
                                             IF ctx.np = USER THEN ctx.sp ELSE NULL, ctx.pdir)
         /\ Saved(ctx).at = ctx.mepc.at
  BY DEF Saved, Abstract!Activation

LEMMA WaitsIs ==
  ASSUME NEW ctx
  PROVE  Waits(ctx) = Abstract!Activation(ctx.mepc.code, ctx.mepc.at + 1, ctx.gpr,
                                          IF ctx.np = USER THEN ctx.sp ELSE NULL, ctx.pdir)
<1> DEFINE usp == IF ctx.np = USER THEN ctx.sp ELSE NULL
           space == ctx.pdir
<1>1. PICK r : r = Saved(ctx)
  OBVIOUS
<1>2. r = Abstract!Activation(ctx.mepc.code, ctx.mepc.at, ctx.gpr, usp, space) /\ r.at = ctx.mepc.at
  BY <1>1, SavedIs
<1> HIDE DEF usp, space
<1>3. PICK new : new = ctx.mepc.at + 1
  OBVIOUS
<1>4. [r EXCEPT !.at = new] = Abstract!Activation(ctx.mepc.code, new, ctx.gpr, usp, space)
  BY <1>2, AtReplaced
<1>5. Waits(ctx) = [r EXCEPT !.at = new]
  BY <1>1, <1>2, <1>3 DEF Waits
<1> QED
  BY <1>3, <1>4, <1>5 DEF usp, space

LEMMA SpaceReplaced ==
  ASSUME NEW code, NEW at, NEW regs, NEW usp, NEW space, NEW new,
         NEW r, r = Abstract!Activation(code, at, regs, usp, space)
  PROVE  [r EXCEPT !.space = new] = Abstract!Activation(code, at, regs, usp, new) /\ r.space = space
<1> DEFINE T == [code : {code}, at : {at}, gpr : {regs}, sp : {usp}, space : {space, new}]
<1>1. r \in T /\ r.code = code /\ r.at = at /\ r.gpr = regs /\ r.sp = usp /\ r.space = space
  BY DEF Abstract!Activation
<1> QED
  BY ONLY <1>1 DEF Abstract!Activation

LEMMA LiveIs ==
  /\ Live = Abstract!Activation(here.code, here.at, gpr, IF mscratch # NULL THEN sp ELSE NULL, __am_get_cur_as)
  /\ Live.space = __am_get_cur_as
  BY DEF Live, Abstract!Activation

LEMMA VmeInitPages == CteInv /\ vme_init => Abstract!Pages
<1> SUFFICES ASSUME CteInv, vme_init PROVE Abstract!Pages
  OBVIOUS
<1>1. UNCHANGED <<gpr, sp, here, mscratch, stacks, current>> /\ ~vme_enable /\ satp' = Kas /\ vme_enable' = TRUE
  BY DEF vme_init
<1>2. PICK c \in AllThreads : c = current
  BY DEF CteInv, CteTypeOK
<1> DEFINE n == Len(stacks[c])
           new == [Live EXCEPT !.space = <<BOOT>>]
<1>3. /\ n \in Nat /\ Len(ActivationsOf(c)) = n + 1
      /\ ActivationsOf(c) = [i \in 1..(n + 1) |-> IF i <= n THEN Saved(stacks[c][i]) ELSE Live]
  BY <1>2, OfRunning DEF CteInv
<1>4. Live' = new /\ Live.space = <<>>
  <2>1. PICK r, x, usp : r = Live /\ x = <<BOOT>> /\ usp = IF mscratch # NULL THEN sp ELSE NULL
    OBVIOUS
  <2>2. r = Abstract!Activation(here.code, here.at, gpr, usp, NULL) /\ r.space = NULL
    BY <1>1, <2>1, LiveIs DEF __am_get_cur_as
  <2>3. [r EXCEPT !.space = x] = Abstract!Activation(here.code, here.at, gpr, usp, x)
    BY <2>2, SpaceReplaced
  <2>4. Live' = Abstract!Activation(here.code, here.at, gpr, usp, x)
    BY <1>1, <2>1 DEF Live, Abstract!Activation, __am_get_cur_as, Kas, Pdir
  <2> QED
    BY <2>1, <2>2, <2>3, <2>4 DEF NULL
<1>5. ActivationsOf(c)' = [i \in 1..(n + 1) |-> IF i <= n THEN Saved(stacks[c][i]) ELSE new]
  BY <1>1, <1>2, <1>4 DEF ActivationsOf, Saved
<1> HIDE DEF n, new
<1>6. ActivationsOf(c)' = [ActivationsOf(c) EXCEPT ![n + 1] = new]
  <2>1. n + 1 \in Nat /\ n + 1 \in 1..(n + 1) /\ ~(n + 1 <= n)
    BY <1>3
  <2>2. \A i \in 1..(n + 1) : i # n + 1 => ActivationsOf(c)'[i] = ActivationsOf(c)[i]
    BY <1>3, <1>5
  <2>3. ActivationsOf(c)'[n + 1] = new
    BY <1>5, <2>1
  <2> QED
    BY <1>3, <1>5, <2>1, <2>2, <2>3, OneChanged
<1>7. \A t \in AllThreads : t # c => ActivationsOf(t)' = ActivationsOf(t)
  BY <1>1, <1>2, OthersKept
<1>8. Activations' = [Activations EXCEPT ![c][n + 1] = new]
  BY <1>6, <1>7, ThreadChanged
<1>9. Abstract!Top(c) = Live /\ Len(Activations[c]) = n + 1
  BY <1>3 DEF Activations, Abstract!Top
<1>10. Abstract!Becomes(c, n + 1, new)
  BY <1>8 DEF Activations, Abstract!Becomes
<1> QED
  BY <1>1, <1>2, <1>4, <1>9, <1>10 DEF Abstract!Pages, Abstract!NoSpace, Activations, new

LEMMA MakeMakes ==
  ASSUME CteInv, NEW t \in USERS \cup KTHREADS, NEW pdir, NEW np, NEW usp, NEW v \in Values,
         Make(t, pdir, np, usp),
         t \in USERS => np = USER /\ usp = <<v>> /\ pdir = Pdir(t),
         t \in KTHREADS => np = KERNEL /\ pdir = NULL
  PROVE  Abstract!Makes(t)
<1>1. CteTypeOK /\ t \in AllThreads /\ t # current /\ pcb[t] = NULL
  BY DEF CteInv, AllThreads, Make
<1>2. PICK entry \in Places, regs \in Values :
        stacks' = [stacks EXCEPT ![t] = <<Context(regs, [code |-> "program", at |-> entry - 1],
                                                  pdir, np, usp, NULL)>>]
  BY DEF Make
<1> DEFINE ctx == Context(regs, [code |-> "program", at |-> entry - 1], pdir, np, usp, NULL)
<1>3. UNCHANGED <<gpr, sp, here, mscratch, satp, vme_enable, current>>
  BY DEF Make
<1>4. Len(stacks[t]) = 0
  BY <1>1, Tuples DEF CteInv, WaitingInv, WaitingOK, NULL
<1>5. ActivationsOf(t) = <<>>
  BY <1>1, <1>4, NoneOf
<1>6. Waits(ctx) = Abstract!Program(t, entry, regs, v)
  <2>1. ctx.mepc.code = "program" /\ ctx.mepc.at + 1 = entry /\ ctx.gpr = regs
    BY <1>1, CteAssumption DEF Context
  <2>2. ctx.np = np /\ ctx.sp = usp /\ ctx.pdir = pdir
    BY DEF Context
  <2> HIDE DEF ctx
  <2>3. Waits(ctx) = Abstract!Activation("program", entry, regs, IF np = USER THEN usp ELSE NULL, pdir)
    BY <2>1, <2>2, WaitsIs
  <2>4. CASE t \in USERS
    BY <2>3, <2>4 DEF Abstract!Program, Pdir
  <2>5. CASE t \in KTHREADS
    <3>1. t \notin USERS /\ np # USER
      BY <2>5, CteAssumption DEF USER, KERNEL
    <3> QED
      BY <2>3, <2>5, <3>1 DEF Abstract!Program, Abstract!Kernel, Abstract!NoSpace, NULL
  <2> QED
    BY <2>4, <2>5
<1> HIDE DEF ctx
<1>7. stacks'[t] = <<ctx>> /\ \A u \in AllThreads : u # t => stacks'[u] = stacks[u]
  BY <1>1, <1>2 DEF CteTypeOK, ctx
<1>8. ActivationsOf(t)' = <<Waits(ctx)>>
  <2>1. Len(stacks'[t]) = 1 /\ stacks'[t][1] = ctx
    BY <1>7
  <2>2. ActivationsOf(t)' = [i \in 1..1 |-> IF i < 1 THEN Saved(stacks'[t][i]) ELSE Waits(stacks'[t][i])]
    BY <1>1, <1>3, <2>1 DEF ActivationsOf, Saved, Waits
  <2>3. ActivationsOf(t)' = [i \in 1..1 |-> Waits(ctx)]
    BY <2>1, <2>2
  <2> QED
    BY <2>3
<1>9. \A u \in AllThreads : u # t => ActivationsOf(u)' = ActivationsOf(u)
  <2>1. Live' = Live
    BY <1>3 DEF Live, __am_get_cur_as
  <2> QED
    BY <1>3, <1>7, <2>1, OthersKept, RunningKept
<1>10. Activations' = [Activations EXCEPT ![t] = <<Abstract!Program(t, entry, regs, v)>>]
  <2>1. PICK x : x = <<Abstract!Program(t, entry, regs, v)>>
    OBVIOUS
  <2>2. Activations' = [Activations EXCEPT ![t] = x]
    BY <1>1, <1>6, <1>8, <1>9, <2>1, ThreadReplaced
  <2> QED
    BY <2>1, <2>2
<1> QED
  BY <1>1, <1>3, <1>5, <1>10 DEF Abstract!Makes, Activations

LEMMA AppendOf ==
  ASSUME NEW n \in Nat, NEW S, NEW f \in [1..n -> S], NEW g \in [1..(n + 1) -> S],
         \A i \in 1..n : g[i] = f[i]
  PROVE  g = Append(f, g[n + 1])
<1>1. f \in Seq(S) /\ Len(f) = n
  OBVIOUS
<1>2. Append(f, g[n + 1]) = [i \in 1..(n + 1) |-> IF i = n + 1 THEN g[n + 1] ELSE f[i]]
  BY <1>1
<1>3. \A i \in 1..(n + 1) : g[i] = IF i = n + 1 THEN g[n + 1] ELSE f[i]
  <2>1. \A i \in 1..(n + 1) : i \in 1..n \/ i = n + 1
    OBVIOUS
  <2> QED
    BY <2>1
<1> QED
  BY <1>2, <1>3

LEMMA TrapTraps == ASSUME CteInv, NEW cause \in Causes, trap(cause) PROVE Abstract!Traps
<1> DEFINE t == current
           n == Len(stacks[t])
           ctx == Context(gpr, here, __am_get_cur_as, IF mscratch # NULL THEN USER ELSE KERNEL, sp, arg)
           handler == Abstract!Activation("handler", 0, EventOf(cause), <<>>, __am_get_cur_as)
<1>1. /\ CteTypeOK /\ n \in Nat /\ t \in AllThreads
      /\ ActivationsOf(t) = [i \in 1..(n + 1) |-> IF i <= n THEN Saved(stacks[t][i]) ELSE Live]
  BY OfRunning DEF CteInv
<1>2. /\ mscratch' = NULL /\ gpr' = EventOf(cause) /\ here' = [code |-> "handler", at |-> 0]
      /\ UNCHANGED <<satp, vme_enable, current>>
      /\ Len(stacks'[t]) = n + 1 /\ stacks'[t][n + 1] = ctx
      /\ \A i \in 1..n : stacks'[t][i] = stacks[t][i]
      /\ \A u \in AllThreads : u # t => stacks'[u] = stacks[u]
  BY Trapped
<1>3. Live' = handler
  BY <1>2 DEF Live, Abstract!Activation, NULL, __am_get_cur_as
<1>4. Saved(ctx) = Live
  <2>1. /\ ctx.mepc = here /\ ctx.gpr = gpr /\ ctx.sp = sp
        /\ ctx.np = USER <=> mscratch # NULL
        /\ ctx.pdir = __am_get_cur_as
    BY DEF Context, USER, KERNEL
  <2> HIDE DEF ctx
  <2> QED
    BY <2>1 DEF Saved, Live
<1>9. Abstract!Top(t).space = __am_get_cur_as
  <2>1. Abstract!Top(t) = Live
    <3>1. Len(ActivationsOf(t)) = n + 1 /\ ActivationsOf(t)[n + 1] = Live
      BY <1>1, OfRunning
    <3> QED
      BY <1>1, <3>1 DEF Abstract!Top, Activations
  <2> QED
    BY <2>1, LiveIs
<1> HIDE DEF ctx, handler
<1>5. ActivationsOf(t)' = [i \in 1..(n + 2) |-> IF i <= n + 1 THEN Saved(stacks'[t][i]) ELSE handler]
  <2>1. ActivationsOf(t)' = [i \in 1..(n + 1 + 1) |-> IF i <= n + 1 THEN Saved(stacks'[t][i]) ELSE Live']
    BY <1>2 DEF ActivationsOf, Saved
  <2>2. n + 1 + 1 = n + 2
    BY <1>1
  <2> QED
    BY <1>3, <2>1, <2>2
<1>6. ActivationsOf(t)' = Append(ActivationsOf(t), handler)
  <2> DEFINE f == ActivationsOf(t)
             g == [i \in 1..(n + 2) |-> IF i <= n + 1 THEN Saved(stacks'[t][i]) ELSE handler]
  <2>1. n + 1 \in Nat /\ f = [i \in 1..(n + 1) |-> f[i]] /\ g = [i \in 1..(n + 1 + 1) |-> g[i]]
    BY <1>1
  <2>2. \A i \in 1..(n + 1) : g[i] = f[i]
    <3>1. ASSUME NEW i \in 1..(n + 1) PROVE g[i] = f[i]
      <4>1. i \in 1..(n + 2) /\ i <= n + 1 /\ g[i] = Saved(stacks'[t][i])
        BY <1>1
      <4>2. CASE i \in 1..n
        BY <1>1, <1>2, <4>1, <4>2
      <4>3. CASE i = n + 1
        <5>1. f[i] = Live
          BY <1>1, <4>3
        <5> QED
          BY <1>2, <1>4, <4>1, <4>3, <5>1
      <4> QED
        BY <1>1, <4>2, <4>3
    <3> QED
      BY <3>1
  <2>3. g[n + 1 + 1] = handler
    BY <1>1
  <2> HIDE DEF f, g
  <2>4. PICK k, x, F, G : k = n + 1 /\ x = handler /\ F = f /\ G = g
    OBVIOUS
  <2> DEFINE S == {G[i] : i \in 1..(k + 1)}
  <2>5. k \in Nat /\ F = [i \in 1..k |-> F[i]] /\ G = [i \in 1..(k + 1) |-> G[i]]
    BY <2>1, <2>4
  <2>6. (\A i \in 1..k : G[i] = F[i]) /\ G[k + 1] = x
    BY <2>2, <2>3, <2>4
  <2>7. F \in [1..k -> S] /\ G \in [1..(k + 1) -> S]
    <3>1. \A i \in 1..(k + 1) : G[i] \in S
      OBVIOUS
    <3> HIDE DEF S
    <3>2. \A i \in 1..k : F[i] \in S
      <4>1. k \in Nat
        BY <2>5
      <4> QED
        BY ONLY <2>6, <3>1, <4>1
    <3>3. G \in [1..(k + 1) -> S]
      BY ONLY <2>5, <3>1
    <3>4. F \in [1..k -> S]
      BY ONLY <2>5, <3>2
    <3> QED
      BY <3>3, <3>4
  <2> HIDE DEF S
  <2>8. G = Append(F, G[k + 1])
    BY ONLY <2>5, <2>6, <2>7, AppendOf
  <2> QED
    BY <1>5, <2>4, <2>6, <2>8 DEF f, g
<1>7. \A u \in AllThreads : u # t => ActivationsOf(u)' = ActivationsOf(u)
  BY <1>2, OthersKept
<1>8. Activations' = [Activations EXCEPT ![t] = Append(@, handler)]
  <2>1. PICK c \in AllThreads : c = t
    BY <1>1
  <2>2. PICK x : x = Append(ActivationsOf(t), handler)
    OBVIOUS
  <2>3. Activations' = [Activations EXCEPT ![c] = x]
    BY <1>2, <1>6, <1>7, <2>1, <2>2, ThreadReplaced
  <2> QED
    BY <1>1, <2>1, <2>2, <2>3 DEF Activations
<1> QED
  BY <1>2, <1>8, <1>9 DEF Abstract!Traps, Abstract!Kernel, Activations, handler, Events

LEMMA SetGPRxAnswers == CteInv /\ SetGPRx => Abstract!Answers
<1> SUFFICES ASSUME CteInv, SetGPRx PROVE Abstract!Answers
  OBVIOUS
<1> DEFINE n == Len(stacks[current])
           old == stacks[current][n]
           new == stacks'[current][n]
<1>1. /\ CteTypeOK /\ n \in Nat /\ current \in AllThreads /\ Len(ActivationsOf(current)) = n + 1
      /\ ActivationsOf(current) = [i \in 1..(n + 1) |-> IF i <= n THEN Saved(stacks[current][i]) ELSE Live]
  BY OfRunning DEF CteInv
<1>2. /\ n >= 1 /\ UNCHANGED <<gpr, sp, here, mscratch, satp, vme_enable, current>>
      /\ new.gpr \in Values /\ new.mepc = old.mepc /\ new.pdir = old.pdir /\ new.np = old.np
      /\ new.sp = old.sp /\ Len(stacks'[current]) = n
      /\ \A i \in 1..n : i # n => stacks'[current][i] = stacks[current][i]
      /\ \A u \in AllThreads : u # current => stacks'[u] = stacks[u]
  BY Answered
<1>3. Saved(new) = [Saved(old) EXCEPT !.gpr = new.gpr]
  <2>1. PICK r, v : r = Saved(old) /\ v = new.gpr
    OBVIOUS
  <2>2. r = Abstract!Activation(old.mepc.code, old.mepc.at, old.gpr, IF old.np = USER THEN old.sp ELSE NULL,
                                old.pdir)
    BY <2>1, SavedIs
  <2>3. Saved(new) = Abstract!Activation(old.mepc.code, old.mepc.at, v, IF old.np = USER THEN old.sp ELSE NULL,
                                         old.pdir)
    BY <1>2, <2>1 DEF Saved, Abstract!Activation
  <2>4. [r EXCEPT !.gpr = v] = Abstract!Activation(old.mepc.code, old.mepc.at, v,
                                 IF old.np = USER THEN old.sp ELSE NULL, old.pdir)
    BY <2>2, GprReplaced
  <2> QED
    BY <2>1, <2>3, <2>4
<1>4. ActivationsOf(current)' = [i \in 1..(n + 1) |-> IF i <= n THEN Saved(stacks'[current][i]) ELSE Live]
  <2>1. Live' = Live
    BY <1>2 DEF Live, __am_get_cur_as
  <2> QED
    BY <1>2, <2>1 DEF ActivationsOf, Saved
<1>5. ActivationsOf(current)[n] = Saved(old) /\ n \in 1..(n + 1)
  BY <1>1, <1>2
<1> DEFINE x == [ActivationsOf(current)[n] EXCEPT !.gpr = new.gpr]
<1>6. ActivationsOf(current)' = [ActivationsOf(current) EXCEPT ![n] = x]
  <2> DEFINE f == ActivationsOf(current)
             g == [i \in 1..(n + 1) |-> IF i <= n THEN Saved(stacks'[current][i]) ELSE Live]
  <2>1. n + 1 \in Nat /\ f = [i \in 1..(n + 1) |-> f[i]] /\ g = [i \in 1..(n + 1) |-> g[i]]
    BY <1>1
  <2>2. \A i \in 1..(n + 1) : i # n => g[i] = f[i]
    BY <1>1, <1>2
  <2>3. g[n] = x
    BY <1>1, <1>2, <1>3, <1>5
  <2> HIDE DEF f, g, x
  <2>4. g = [f EXCEPT ![n] = x]
    BY <1>5, <2>1, <2>2, <2>3, OneChanged
  <2> QED
    BY <1>4, <2>4 DEF f, g
<1> HIDE DEF x
<1>7. \A u \in AllThreads : u # current => ActivationsOf(u)' = ActivationsOf(u)
  BY <1>2, OthersKept
<1>8. Activations' = [Activations EXCEPT ![current][n] = x]
  <2>1. PICK c \in AllThreads : c = current
    BY <1>1
  <2>2. PICK k, y : k = n /\ y = x
    OBVIOUS
  <2>3. ActivationsOf(c)' = [ActivationsOf(c) EXCEPT ![k] = y]
    BY <1>2, <1>6, <2>1, <2>2
  <2>4. \A u \in AllThreads : u # c => ActivationsOf(u)' = ActivationsOf(u)
    BY <1>7, <2>1
  <2>5. Activations' = [Activations EXCEPT ![c][k] = y]
    BY ONLY <2>3, <2>4, ThreadChanged
  <2> QED
    BY <2>1, <2>2, <2>5
<1>9. Len(Activations[current]) = n + 1 /\ n + 1 - 1 = n /\ n + 1 > 1
      /\ Activations[current] = ActivationsOf(current)
  BY <1>1, <1>2 DEF Activations
<1>10. PICK v \in Values : x = [Activations[current][n] EXCEPT !.gpr = v]
  BY <1>2, <1>9 DEF x
<1>11. Abstract!Becomes(current, n, [Activations[current][n] EXCEPT !.gpr = v])
  BY <1>8, <1>10 DEF Abstract!Becomes, Activations
<1>12. Len(Activations[current]) - 1 = n /\ Len(Activations[current]) > 1
  BY <1>9
<1>13. LET i == Len(Activations[current]) - 1
       IN  Abstract!Becomes(current, i, [Activations[current][i] EXCEPT !.gpr = v])
  BY <1>11, <1>12
<1> QED
  BY <1>2, <1>12, <1>13 DEF Abstract!Answers, Activations

(* The context that is left for is what the processor holds then, in the   *)
(* space in use when it has none.                                          *)
LEMMA LiveAfter ==
  ASSUME CteInv, NEW t \in AllThreads, Len(stacks[t]) >= 1, mscratch = NULL, leave(t, Len(stacks[t]))
  PROVE  Live' = [Waits(stacks[t][Len(stacks[t])]) EXCEPT !.space = IF @ = NULL THEN __am_get_cur_as ELSE @]
<1> DEFINE n == Len(stacks[t])
           ctx == stacks[t][n]
<1>1. n \in 1..Len(stacks[t]) /\ ctx \in ThreadContexts
  BY TopContext DEF CteInv, CteTypeOK
<1>2. /\ gpr' = ctx.gpr /\ sp' = ctx.sp /\ here' = [ctx.mepc EXCEPT !.at = @ + 1]
      /\ mscratch' = IF ctx.np = USER THEN <<t, n - 1>> ELSE mscratch
      /\ satp' = IF vme_enable /\ ctx.pdir # NULL THEN ctx.pdir ELSE satp
      /\ vme_enable' = vme_enable
  BY DEF leave, __am_switch
<1>3. here'.code = ctx.mepc.code /\ here'.at = ctx.mepc.at + 1
  BY <1>1, <1>2 DEF ThreadContexts, Wheres
<1>4. ctx.pdir # NULL => vme_enable
  BY <1>1, SavedPaged
<1>5. mscratch' # NULL <=> ctx.np = USER
  BY <1>2, Tuples DEF NULL
<1>6. __am_get_cur_as' = IF ctx.pdir = NULL THEN __am_get_cur_as ELSE ctx.pdir
  BY <1>2, <1>4 DEF __am_get_cur_as
<1> HIDE DEF ctx
<1>7. PICK r, usp, x : /\ r = Waits(ctx) /\ usp = (IF ctx.np = USER THEN ctx.sp ELSE NULL)
                       /\ x = (IF ctx.pdir = NULL THEN __am_get_cur_as ELSE ctx.pdir)
  OBVIOUS
<1>8. r = Abstract!Activation(ctx.mepc.code, ctx.mepc.at + 1, ctx.gpr, usp, ctx.pdir)
  BY <1>7, WaitsIs
<1>9. /\ [r EXCEPT !.space = x] = Abstract!Activation(ctx.mepc.code, ctx.mepc.at + 1, ctx.gpr, usp, x)
      /\ r.space = ctx.pdir
  BY <1>8, SpaceReplaced
<1>10. Live' = Abstract!Activation(ctx.mepc.code, ctx.mepc.at + 1, ctx.gpr, usp, x)
  BY <1>2, <1>3, <1>5, <1>6, <1>7 DEF Live, Abstract!Activation
<1>11. Live' = [r EXCEPT !.space = IF r.space = NULL THEN __am_get_cur_as ELSE r.space]
  BY <1>7, <1>9, <1>10
<1> QED
  BY <1>7, <1>11 DEF ctx

(* The handler returns, to the thread it interrupted or to another.        *)
LEMMA LeaveLeaves ==
  ASSUME CteInv, NEW t \in AllThreads, Len(stacks[t]) >= 1, mscratch = NULL, leave(t, Len(stacks[t])),
         current' = t, Len(stacks[current]) >= 1, pcb' \in [AllThreads -> {NULL} \cup Addresses]
  PROVE  Abstract!Leaves(t)
<1>1. CteTypeOK
  BY DEF CteInv
<1>2. PICK c \in AllThreads : c = current
  BY <1>1 DEF CteTypeOK
<1> DEFINE n == Len(stacks[c])
           m == Len(stacks[t])
           R == [i \in 1..n |-> IF i < n THEN Saved(stacks[c][i]) ELSE Waits(stacks[c][n])]
           Y == [i \in 1..m |-> IF i < m THEN Saved(stacks[t][i]) ELSE Waits(stacks[t][m])]
           x == [Waits(stacks[t][m]) EXCEPT !.space = IF @ = NULL THEN __am_get_cur_as ELSE @]
           left == [Activations EXCEPT ![c] = R]
<1>3. /\ n \in Nat /\ n >= 1 /\ Len(ActivationsOf(c)) = n + 1
      /\ ActivationsOf(c) = [i \in 1..(n + 1) |-> IF i <= n THEN Saved(stacks[c][i]) ELSE Live]
  BY <1>1, <1>2, OfRunning
<1>4. /\ m \in Nat /\ m >= 1
      /\ Len(stacks'[t]) = m - 1
      /\ \A i \in 1..(m - 1) : stacks'[t][i] = stacks[t][i]
      /\ \A u \in AllThreads : u # t => stacks'[u] = stacks[u]
  BY <1>1, LeaveType DEF CteTypeOK
<1>5. Live' = x
  BY LiveAfter
<1>6. ActivationsOf(t)' = [i \in 1..m |-> IF i < m THEN Saved(stacks[t][i]) ELSE x]
  <2>1. ActivationsOf(t)' = [i \in 1..(m - 1 + 1) |-> IF i <= m - 1 THEN Saved(stacks'[t][i]) ELSE Live']
    BY <1>4 DEF ActivationsOf, Saved
  <2>2. m - 1 + 1 = m /\ \A i \in 1..m : (i <= m - 1 <=> i < m) /\ (i < m => i \in 1..(m - 1))
    BY <1>4
  <2> HIDE DEF m, x
  <2>3. ActivationsOf(t)' = [i \in 1..m |-> IF i <= m - 1 THEN Saved(stacks'[t][i]) ELSE Live']
    BY <2>1, <2>2
  <2>4. \A i \in 1..m : (IF i <= m - 1 THEN Saved(stacks'[t][i]) ELSE Live')
                        = IF i < m THEN Saved(stacks[t][i]) ELSE x
    BY <1>4, <1>5, <2>2
  <2> QED
    BY <2>3, <2>4
<1> HIDE DEF x
<1>7. t # c => ActivationsOf(t) = Y /\ ActivationsOf(t) # <<>>
  <2> SUFFICES ASSUME t # c PROVE ActivationsOf(t) = Y /\ ActivationsOf(t) # <<>>
    OBVIOUS
  <2>1. /\ ActivationsOf(t) = [i \in 1..m |-> IF i < m THEN Saved(stacks[t][i]) ELSE Waits(stacks[t][i])]
        /\ Len(ActivationsOf(t)) = m
    BY <1>1, <1>2, OfWaiting
  <2>2. \A i \in 1..m : (IF i < m THEN Saved(stacks[t][i]) ELSE Waits(stacks[t][i]))
                        = IF i < m THEN Saved(stacks[t][i]) ELSE Waits(stacks[t][m])
    <3>1. \A i \in 1..m : i < m \/ i = m
      BY <1>4
    <3> QED
      BY <3>1
  <2>3. ActivationsOf(t) # <<>>
    BY <1>4, <2>1
  <2> QED
    BY <2>1, <2>2, <2>3
<1>8. left[t] = Y /\ \A u \in AllThreads : left[u] = IF u = c THEN R ELSE ActivationsOf(u)
  <2>1. \A u \in AllThreads : left[u] = IF u = c THEN R ELSE ActivationsOf(u)
    BY DEF Activations
  <2>2. t = c => R = Y
    OBVIOUS
  <2> QED
    BY <1>7, <2>1, <2>2
<1>9. \A u \in AllThreads : u # t => ActivationsOf(u)' = left[u]
  <2>1. ASSUME c # t PROVE ActivationsOf(c)' = R
    <3>1. stacks'[c] = stacks[c] /\ c # current'
      BY <1>4, <2>1
    <3>2. ActivationsOf(c)' = [i \in 1..n |-> IF i < n THEN Saved(stacks[c][i]) ELSE Waits(stacks[c][i])]
      BY <3>1 DEF ActivationsOf, Saved, Waits
    <3>3. \A i \in 1..n : (IF i < n THEN Saved(stacks[c][i]) ELSE Waits(stacks[c][i]))
                          = IF i < n THEN Saved(stacks[c][i]) ELSE Waits(stacks[c][n])
      <4>1. \A i \in 1..n : i < n \/ i = n
        BY <1>3
      <4> QED
        BY <4>1
    <3> QED
      BY <3>2, <3>3
  <2>2. \A u \in AllThreads : u # c /\ u # t => ActivationsOf(u)' = ActivationsOf(u)
    BY <1>2, <1>4, OthersKept
  <2> QED
    BY <1>8, <2>1, <2>2
<1>10. Abstract!Returned = R
  <2>1. Abstract!Returned = [i \in 1..(Len(ActivationsOf(c)) - 1) |->
           IF i = Len(ActivationsOf(c)) - 1 THEN [ActivationsOf(c)[i] EXCEPT !.at = @ + 1] ELSE ActivationsOf(c)[i]]
    BY <1>2 DEF Abstract!Returned
  <2>2. Len(ActivationsOf(c)) - 1 = n
    BY <1>3
  <2>3. \A i \in 1..n : ActivationsOf(c)[i] = Saved(stacks[c][i])
    BY <1>3
  <2>4. \A i \in 1..n : (IF i = n THEN [ActivationsOf(c)[i] EXCEPT !.at = @ + 1] ELSE ActivationsOf(c)[i])
                        = IF i < n THEN Saved(stacks[c][i]) ELSE Waits(stacks[c][n])
    <3>1. \A i \in 1..n : i < n <=> i # n
      BY <1>3
    <3> QED
      BY <2>3, <3>1 DEF Waits
  <2> HIDE DEF n
  <2> QED
    BY <2>1, <2>2, <2>4
<1>11. ActivationsOf(t)' = [left[t] EXCEPT ![m] = x] /\ left[t][m] = Waits(stacks[t][m]) /\ Len(left[t]) = m
  <2>1. m \in 1..m /\ ~(m < m)
    BY <1>4
  <2>2. Y = [i \in 1..m |-> Y[i]] /\ Y[m] = Waits(stacks[t][m])
    BY <2>1
  <2>3. \A i \in 1..m : i # m => ActivationsOf(t)'[i] = Y[i]
    BY <1>4, <1>6
  <2>4. ActivationsOf(t)'[m] = x
    BY <1>6, <2>1
  <2>5. ActivationsOf(t)' = [i \in 1..m |-> ActivationsOf(t)'[i]]
    BY <1>6
  <2> HIDE DEF Y, m
  <2>6. ActivationsOf(t)' = [Y EXCEPT ![m] = x]
    BY <1>4, <2>1, <2>2, <2>3, <2>4, <2>5, OneChanged
  <2>7. Len(Y) = m
    BY <1>4, <2>2, LenOf
  <2> QED
    BY <1>8, <2>2, <2>6, <2>7
<1>12. Abstract!Top(c).space = __am_get_cur_as
  <2>1. ActivationsOf(c)[n + 1] = Live
    BY <1>3
  <2>2. Abstract!Top(c) = Live
    BY <1>3, <2>1 DEF Abstract!Top, Activations
  <2> QED
    BY <2>2, LiveIs
<1> HIDE DEF R, Y, m
<1>13. Activations' = [left EXCEPT ![t][m] = x]
  <2>1. Activations' = [u \in AllThreads |-> ActivationsOf(u)'] /\ left = [u \in AllThreads |-> left[u]]
    BY DEF Activations
  <2> HIDE DEF left
  <2>2. PICK f, g : f = left[t] /\ g = ActivationsOf(t)'
    OBVIOUS
  <2>3. g = [f EXCEPT ![m] = x]
    BY <1>11, <2>2
  <2>4. Activations' = [left EXCEPT ![t] = g]
    BY <1>9, <2>1, <2>2
  <2> QED
    BY <2>2, <2>3, <2>4
<1>14. Activations' = [left EXCEPT ![t][Len(left[t])].space =
                         IF @ = NULL THEN Abstract!Top(c).space ELSE @]
  <2> HIDE DEF left
  <2>1. x = [left[t][m] EXCEPT !.space = IF @ = NULL THEN __am_get_cur_as ELSE @]
    BY <1>11 DEF x
  <2> QED
    BY <1>11, <1>12, <1>13, <2>1
<1>15. Len(Activations[c]) > 1 /\ (t = c \/ Activations[t] # <<>>)
  BY <1>3, <1>7 DEF Activations
<1> QED
  BY <1>2, <1>10, <1>14, <1>15 DEF Abstract!Leaves, Abstract!NoSpace, NULL, Activations

THEOREM NextImplements == CteInv /\ [CteNext]_cteVars => [Abstract!AbstractNext]_(Abstract!abstractVars)
<1> SUFFICES ASSUME CteInv, [CteNext]_cteVars
             PROVE  Abstract!AbstractNext \/ UNCHANGED Abstract!abstractVars
  OBVIOUS
<1>1. ASSUME Instructs PROVE Abstract!AbstractNext
  BY <1>1, InstructsGoes DEF Abstract!AbstractNext
<1>2. ASSUME vme_init PROVE Abstract!AbstractNext
  BY <1>2, VmeInitPages DEF Abstract!AbstractNext
<1>3. ASSUME SetGPRx PROVE Abstract!AbstractNext
  BY <1>3, SetGPRxAnswers DEF Abstract!AbstractNext
<1>4. ASSUME Return PROVE Abstract!AbstractNext
  <2>1. /\ Len(stacks[current]) >= 1 /\ mscratch = NULL
        /\ arg[1] = current /\ arg[2] = Len(stacks[current]) /\ current \in AllThreads
    BY <1>4, Tuples DEF Return, CteInv, RunningInv, InHandler, CteTypeOK
  <2>2. leave(current, Len(stacks[current])) /\ pcb' = pcb /\ current' = current
    BY <1>4, <2>1 DEF Return
  <2>3. PICK c \in AllThreads : c = current
    BY <2>1
  <2>4. pcb' \in [AllThreads -> {NULL} \cup Addresses]
    BY <2>2 DEF CteInv, CteTypeOK
  <2>5. Abstract!Leaves(c)
    BY <2>1, <2>2, <2>3, <2>4, LeaveLeaves
  <2> QED
    BY <2>5 DEF Abstract!AbstractNext, Abstract!AllThreads, AllThreads
<1>5. ASSUME NEW t \in USERS, ucontext(t) PROVE Abstract!AbstractNext
  <2>1. PICK v \in Values : Make(t, Pdir(t), USER, <<v>>)
    BY <1>5 DEF ucontext
  <2>2. t \notin KTHREADS
    BY CteAssumption
  <2>3. Abstract!Makes(t)
    BY <2>1, <2>2, MakeMakes
  <2> QED
    BY <2>3 DEF Abstract!AbstractNext, Abstract!AllThreads
<1>6. ASSUME NEW t \in KTHREADS, nemu_kcontext(t) PROVE Abstract!AbstractNext
  <2>1. Make(t, NULL, KERNEL, Unset)
    BY <1>6 DEF nemu_kcontext
  <2>2. PICK v \in Values : TRUE
    BY <2>1 DEF Make
  <2>3. t \notin USERS
    BY CteAssumption
  <2>4. Abstract!Makes(t)
    BY <2>1, <2>2, <2>3, MakeMakes
  <2> QED
    BY <2>4 DEF Abstract!AbstractNext, Abstract!AllThreads
<1>7. ASSUME NEW cause \in Causes, trap(cause) PROVE Abstract!AbstractNext
  BY <1>7, TrapTraps DEF Abstract!AbstractNext
<1>8. ASSUME NEW t \in AllThreads, schedule(t) PROVE Abstract!AbstractNext
  <2>1. /\ Len(stacks[t]) >= 1 /\ mscratch = NULL /\ current' = t
        /\ leave(t, Len(stacks[t]))
        /\ pcb' = [pcb EXCEPT ![current] = <<current, Len(stacks[current])>>]
        /\ Len(stacks[current]) >= 1
    BY <1>8, Scheduled
  <2>2. pcb' \in [AllThreads -> {NULL} \cup Addresses]
    BY <2>1 DEF CteInv, CteTypeOK, Addresses
  <2>3. Abstract!Leaves(t)
    BY <2>1, <2>2, LeaveLeaves
  <2> QED
    BY <2>3 DEF Abstract!AbstractNext, Abstract!AllThreads, AllThreads
<1>9. CASE UNCHANGED cteVars
  <2>1. UNCHANGED <<gpr, sp, here, mscratch, satp, vme_enable, stacks, current>>
    BY <1>9 DEF cteVars
  <2> QED
    BY <2>1 DEF Abstract!abstractVars, ActivationsOf, Saved, Waits, Live, __am_get_cur_as
<1> QED
  BY <1>1, <1>2, <1>3, <1>4, <1>5, <1>6, <1>7, <1>8, <1>9 DEF CteNext

(* trap.S, cte.c: whatever threads there are, however deep their traps and *)
(* whichever way the handler chooses, a thread that runs again does so as  *)
(* it left off, and no other has touched it.                               *)
THEOREM CteKeepsThreads == CteSpec => KeepsThreads
<1>1. CteInit => CteInv /\ Abstract!AbstractInit
  BY CteInitial, InitialThreads
<1>2. CteInv /\ [CteNext]_cteVars => CteInv'
  BY CteInductive
<1>3. CteInv /\ [CteNext]_cteVars => [Abstract!AbstractNext]_(Abstract!abstractVars)
  BY NextImplements
<1> QED
  BY <1>1, <1>2, <1>3, PTL DEF CteSpec, KeepsThreads, Abstract!ThreadsSpec
=============================================================================
