------------------------------ MODULE Threads ------------------------------
(***************************************************************************)
(* What cte.c promises a program: threads of which one runs at a time.     *)
(* Each is a stack of activations, that of its program and, over it, those *)
(* of the handler of its traps. A thread that does not run stays as it is; *)
(* one that does goes on where it left off, in the address space it was    *)
(* in.                                                                     *)
(***************************************************************************)
EXTENDS Integers, Sequences

CONSTANTS
  BOOT,            \* the thread there is from the start
  USERS,           \* threads with an address space of their own
  KTHREADS,        \* threads without
  Values,          \* what registers hold, stack pointers of user programs among them
  Places,          \* of instructions, in the program and in the handler
  Events           \* what the handler is told

VARIABLES threads, runs

abstractVars == <<threads, runs>>

AllThreads == {BOOT} \cup USERS \cup KTHREADS
Kernel == <<>>     \* the stack of what runs in the kernel
NoSpace == <<>>    \* the space of what has not been given one

Activation(code, at, gpr, sp, space) == [code |-> code, at |-> at, gpr |-> gpr, sp |-> sp, space |-> space]
Program(t, at, gpr, sp) == IF t \in USERS THEN Activation("program", at, gpr, <<sp>>, <<t>>)
                           ELSE Activation("program", at, gpr, Kernel, NoSpace)

Top(t) == threads[t][Len(threads[t])]
Becomes(t, i, activation) == threads' = [threads EXCEPT ![t][i] = activation]

AbstractInit == /\ runs = BOOT
                /\ \E at \in Places, gpr \in Values :
                     threads = [t \in AllThreads |-> IF t = BOOT THEN <<Program(t, at, gpr, gpr)>> ELSE <<>>]

(* The thread that runs goes on, in the program or in the handler.         *)
Goes ==
  /\ \E at \in Places, gpr, sp \in Values :
       LET top == Top(runs)
       IN  Becomes(runs, Len(threads[runs]),
                   [top EXCEPT !.at = at, !.gpr = gpr, !.sp = IF @ = Kernel THEN @ ELSE <<sp>>])
  /\ UNCHANGED runs

(* It makes a new thread, to start at a place of its program.              *)
Makes(t) ==
  /\ threads[t] = <<>>
  /\ \E at \in Places, gpr, sp \in Values : threads' = [threads EXCEPT ![t] = <<Program(t, at, gpr, sp)>>]
  /\ UNCHANGED runs

(* It enters the space of the kernel, when there is none in use.           *)
Pages ==
  /\ Top(runs).space = NoSpace
  /\ Becomes(runs, Len(threads[runs]), [Top(runs) EXCEPT !.space = <<BOOT>>])
  /\ UNCHANGED runs

(* It traps, and the handler runs in the space that is in use.             *)
Traps ==
  /\ \E event \in Events :
       threads' = [threads EXCEPT ![runs] = Append(@, Activation("handler", 0, event, Kernel, Top(runs).space))]
  /\ UNCHANGED runs

(* The handler changes what the code that trapped finds in its registers.  *)
Answers ==
  /\ Len(threads[runs]) > 1
  /\ \E gpr \in Values : LET i == Len(threads[runs]) - 1
                         IN  Becomes(runs, i, [threads[runs][i] EXCEPT !.gpr = gpr])
  /\ UNCHANGED runs

(* The handler returns: the code that trapped is to go on behind the       *)
(* instruction, and the thread chosen, this or another, runs. One without  *)
(* a space goes on in the space that is in use.                            *)
Returned == LET n == Len(threads[runs])
            IN  [i \in 1..(n - 1) |-> IF i = n - 1 THEN [threads[runs][i] EXCEPT !.at = @ + 1] ELSE threads[runs][i]]
Leaves(t) ==
  /\ Len(threads[runs]) > 1
  /\ t = runs \/ threads[t] # <<>>
  /\ LET left == [threads EXCEPT ![runs] = Returned]
     IN  threads' = [left EXCEPT ![t][Len(left[t])].space = IF @ = NoSpace THEN Top(runs).space ELSE @]
  /\ runs' = t

AbstractNext == \/ Goes \/ Pages \/ Traps \/ Answers
                \/ \E t \in AllThreads : Makes(t) \/ Leaves(t)

ThreadsSpec == AbstractInit /\ [][AbstractNext]_abstractVars
=============================================================================
