--------------------------------- MODULE Cte ---------------------------------
(***************************************************************************)
(* riscv/nemu: traps and the switches between threads that a handler makes *)
(* of them: cte.c, trap.S and the part of vme.c that is about the space in *)
(* use, with the handler and the threads of yield-os.c and processes in    *)
(* spaces of their own. A stack holds the contexts that lie on it, from    *)
(* its end on; the frames between them are left out, and so is what is     *)
(* above the stack pointer. An address of the stack of thread t with n     *)
(* contexts below it is <<t, n>>.                                          *)
(***************************************************************************)
EXTENDS Integers, Sequences

CONSTANTS
  BOOT,            \* the thread of main
  USERS,           \* the threads of ucontext
  KTHREADS,        \* the threads of kcontext
  Values,          \* what registers hold
  Places,          \* of instructions
  MAX_DEPTH        \* bound on the contexts of a stack

ASSUME CteAssumption ==
  /\ BOOT \notin USERS \cup KTHREADS /\ USERS \cap KTHREADS = {}
  /\ Places \subseteq Int /\ MAX_DEPTH \in Nat

VARIABLES
  gpr, sp, here,    \* the processor: registers, stack pointer, where it is
  mscratch, satp,
  stacks,          \* stacks[t]: the contexts on the stack of thread t
  vme_enable,
  arg,             \* the argument of the handler
  pcb, current     \* the handler's: pcb[t], the thread that runs

cteVars == <<gpr, sp, here, mscratch, satp, stacks, vme_enable, arg, pcb, current>>

NULL == <<>>
AllThreads == {BOOT} \cup USERS \cup KTHREADS
KERNEL == 0
USER == 1

(* The page tables of a thread, and those of the kernel, in which main     *)
(* runs.                                                                   *)
Pdir(t) == <<t>>
Kas == Pdir(BOOT)

(* What is left of a stack pointer that nothing was stored to: it points   *)
(* out of memory, and the machine stops when it is used.                   *)
Unset == <<>>

Context(regs, mepc, pdir, np, usp, local) ==
  [gpr |-> regs, mepc |-> mepc, pdir |-> pdir, np |-> np, sp |-> usp, arg |-> local]

(* __am_irq_handle: what the cause is to the handler.                      *)
Causes == {"-1", "0..19", "0x80000007", "others"}
EventOf(cause) == CASE cause = "-1" -> "yield" [] cause = "0..19" -> "syscall"
                    [] cause = "0x80000007" -> "timer" [] OTHER -> "error"
Events == {EventOf(cause) : cause \in Causes}

(* main, and what cte_init leaves. There are no page tables in use.        *)
CteInit ==
  /\ gpr \in Values /\ here \in [code : {"program"}, at : Places] /\ sp = <<BOOT, 0>>
  /\ mscratch = NULL /\ satp = NULL /\ vme_enable = FALSE /\ arg = NULL
  /\ stacks = [t \in AllThreads |-> <<>>]
  /\ pcb = [t \in AllThreads |-> NULL] /\ current = BOOT

InKernel == here.code = "handler" \/ current = BOOT
CanRun == sp # Unset

(* Any instruction that is neither a trap nor a return. A program in user  *)
(* mode has a stack pointer of its own making.                             *)
Instructs ==
  /\ CanRun
  /\ gpr' \in Values
  /\ \E at \in Places : here' = [here EXCEPT !.at = at]
  /\ IF mscratch # NULL THEN \E v \in Values : sp' = <<v>> ELSE UNCHANGED sp
  /\ UNCHANGED <<mscratch, satp, stacks, vme_enable, arg, pcb, current>>

vme_init ==
  /\ CanRun /\ InKernel /\ ~vme_enable
  /\ satp' = Kas /\ vme_enable' = TRUE
  /\ UNCHANGED <<gpr, sp, here, mscratch, stacks, arg, pcb, current>>

(* ucontext and kcontext fill in part of a context at the end of the       *)
(* stack; the stack pointer in it is what lies there. A space to give to   *)
(* ucontext there is only after vme_init.                                  *)
Make(t, pdir, np, usp) ==
  /\ CanRun /\ InKernel /\ t # current /\ pcb[t] = NULL
  /\ \E entry \in Places, regs \in Values :
       stacks' = [stacks EXCEPT ![t] = <<Context(regs, [code |-> "program", at |-> entry - 1],
                                                 pdir, np, usp, NULL)>>]
  /\ pcb' = [pcb EXCEPT ![t] = <<t, 1>>]
  /\ UNCHANGED <<gpr, sp, here, mscratch, satp, vme_enable, arg, current>>
ucontext(t) == vme_enable /\ \E v \in Values : Make(t, Pdir(t), USER, <<v>>)
nemu_kcontext(t) == Make(t, NULL, KERNEL, Unset)

__am_get_cur_as == IF vme_enable THEN satp ELSE NULL

(* Mutant: mscratch keeps the address of the stack during the trap.        *)
Scratch_kept(old) == old

Scratch(old) == NULL

(* trap.S down to the handler: the context goes to the stack that mscratch *)
(* holds or, from the kernel, to that in use. Interrupts are on in what    *)
(* the contexts of cte.c start; main and the handler run without.          *)
trap(cause) ==
  LET from == IF mscratch # NULL THEN mscratch ELSE sp
      np == IF mscratch # NULL THEN USER ELSE KERNEL
      t == from[1]
      n == from[2]
  IN  /\ CanRun /\ n < MAX_DEPTH /\ here.at \in Places
      /\ cause = "0x80000007" => mscratch # NULL
      /\ stacks' = [stacks EXCEPT ![t] =
                      Append(SubSeq(@, 1, n), Context(gpr, here, __am_get_cur_as, np, sp, arg))]
      /\ mscratch' = Scratch(mscratch)
      /\ sp' = <<t, n + 1>> /\ arg' = <<t, n + 1>>
      /\ gpr' = EventOf(cause) /\ here' = [code |-> "handler", at |-> 0]
      /\ UNCHANGED <<satp, vme_enable, pcb, current>>

(* __am_switch and the rest of trap.S, for the context at <<t, n>>.        *)
__am_switch(pdir) == satp' = IF vme_enable /\ pdir # NULL THEN pdir ELSE satp
leave(t, n) ==
  LET ctx == stacks[t][n]
  IN  /\ __am_switch(ctx.pdir)
      /\ mscratch' = IF ctx.np = USER THEN <<t, n - 1>> ELSE mscratch
      /\ gpr' = ctx.gpr /\ sp' = ctx.sp /\ arg' = ctx.arg
      /\ here' = [ctx.mepc EXCEPT !.at = @ + 1]
      /\ stacks' = [stacks EXCEPT ![t] = SubSeq(@, 1, n - 1)]
      /\ UNCHANGED vme_enable

(* The handler answers a system call, returns to the code that trapped, or *)
(* is that of yield-os, which makes another thread run.                    *)
SetGPRx ==
  /\ CanRun /\ here.code = "handler"
  /\ \E v \in Values : stacks' = [stacks EXCEPT ![arg[1]][arg[2]].gpr = v]
  /\ UNCHANGED <<gpr, sp, here, mscratch, satp, vme_enable, arg, pcb, current>>
Return ==
  /\ CanRun /\ here.code = "handler"
  /\ leave(arg[1], arg[2])
  /\ UNCHANGED <<pcb, current>>
schedule(t) ==
  /\ CanRun /\ here.code = "handler"
  /\ t = current \/ pcb[t] # NULL
  /\ pcb' = [pcb EXCEPT ![current] = arg]
  /\ current' = t
  /\ leave(pcb'[t][1], pcb'[t][2])

CteNext == \/ Instructs \/ vme_init \/ SetGPRx \/ Return
           \/ \E t \in USERS : ucontext(t)
           \/ \E t \in KTHREADS : nemu_kcontext(t)
           \/ \E cause \in Causes : trap(cause)
           \/ \E t \in AllThreads : schedule(t)

CteSpec == CteInit /\ [][CteNext]_cteVars

-----------------------------------------------------------------------------
(* What has been saved of an activation, and the one of the processor.     *)
Saved(ctx) == [code |-> ctx.mepc.code, at |-> ctx.mepc.at, gpr |-> ctx.gpr,
               sp |-> IF ctx.np = USER THEN ctx.sp ELSE NULL, space |-> ctx.pdir]
Live == [code |-> here.code, at |-> here.at, gpr |-> gpr,
         sp |-> IF mscratch # NULL THEN sp ELSE NULL, space |-> __am_get_cur_as]
Waits(ctx) == [Saved(ctx) EXCEPT !.at = @ + 1]
ActivationsOf(t) ==
  LET n == Len(stacks[t])
  IN  IF t = current THEN [i \in 1..(n + 1) |-> IF i <= n THEN Saved(stacks[t][i]) ELSE Live]
      ELSE [i \in 1..n |-> IF i < n THEN Saved(stacks[t][i]) ELSE Waits(stacks[t][i])]

Abstract == INSTANCE Threads WITH threads <- [t \in AllThreads |-> ActivationsOf(t)], runs <- current

(* cte.c, trap.S: threads go on where they left off, with their registers, *)
(* their stack and their space, whatever the others and the handlers did   *)
(* in the meantime, in the kernel and in user programs.                    *)
KeepsThreads == Abstract!ThreadsSpec

(* yield-os gives kcontext the area of a stack with each thread, as am.h   *)
(* has it ("kstack"): a thread of the kernel runs on the stack it was given. *)
OnItsStack == current \in KTHREADS => sp # Unset
=============================================================================
