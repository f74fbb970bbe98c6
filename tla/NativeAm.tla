------------------------------ MODULE NativeAm ------------------------------
(***************************************************************************)
(* AbstractMachine as a Linux program, am/src/native: traps are signals    *)
(* (cte.c), an address space is a list of pages that a context switch maps *)
(* into the process (vme.c, platform.c), and a processor is a process      *)
(* forked by mpe_init (mpe.c). The kernel above it saves the context of a  *)
(* trap and returns any context that no processor runs.                    *)
(***************************************************************************)
EXTENDS Integers, FiniteSets, TLC

CONSTANTS
  CPUS,      \* cpu_count()
  MAPS       \* bound on the calls of map

VARIABLES
  running,   \* running[c]: the thread whose context c has
  mode,      \* mode[c]: where its process is
  masked,    \* masked[c]: the interrupts' signals are blocked
  ev,        \* ev[c]: thiscpu->ev.event
  vm_head,   \* vm_head[c]: thiscpu->vm_head
  ksp,       \* ksp[c]: thiscpu->ksp
  visible,   \* visible[c]: what is mapped in the process's user area
  frame,     \* frame[c]: the context that the last trap has pushed
  saved,     \* saved[t]: the context the kernel keeps of thread t
  head,      \* head[s]: the first page of space s, or NoPage
  pages,     \* pages[p]: PageMap p
  maps,      \* calls of map so far
  cause      \* cause[c]: the event of the trap at hand, for the property

nativeVars == <<running, mode, masked, ev, vm_head, ksp, visible, frame, saved, head, pages, maps, cause>>

Cpus == 0..(CPUS - 1)

(* Two processes share space a; space b has one; there is a kernel thread. *)
Users == {<<"user", 1>>, <<"user", 2>>, <<"user", 3>>}
Kernel == <<"kernel", 0>>
Space(t) == IF t = <<"user", 3>> THEN "b" ELSE "a"
Spaces == {"a", "b"}
Boot(c) == <<"boot", c>>
NoSpace == "none"
NoStack == <<"none", 0>>
NoPage == <<"none", 0>>
Addresses == {1, 2}
Frames == {11, 12}

Uncertain == <<"any", 0>>  \* a field that kcontext does not set
ucontext(t) == [mode |-> "user", masked |-> FALSE, vm_head |-> Space(t), ksp |-> t]
kcontext == [mode |-> "kernel", masked |-> FALSE, vm_head |-> NoSpace, ksp |-> Uncertain]

(* fork leaves each processor a copy of the first one's process.           *)
InitNative == /\ running = [c \in Cpus |-> Boot(c)]
              /\ mode = [c \in Cpus |-> "kernel"]
              /\ masked = [c \in Cpus |-> TRUE]
              /\ ev = [c \in Cpus |-> "null"]
              /\ vm_head = [c \in Cpus |-> NoSpace]
              /\ ksp = [c \in Cpus |-> NoStack]
              /\ visible = [c \in Cpus |-> <<>>]
              /\ frame = [c \in Cpus |-> kcontext]
              /\ saved = [t \in Users |-> ucontext(t)] @@ (Kernel :> kcontext)
              /\ head = [s \in Spaces |-> NoPage]
              /\ pages = <<>>
              /\ maps = 0
              /\ cause = [c \in Cpus |-> "null"]

Memory == <<head, pages, maps>>
At(c, from) == mode[c] = from
Goes(c, to) == mode' = [mode EXCEPT ![c] = to]
Sets(f, c, x) == [f EXCEPT ![c] = x]

iset(c) == /\ At(c, "kernel")
           /\ masked' = Sets(masked, c, ~masked[c])
           /\ UNCHANGED <<running, mode, ev, vm_head, ksp, visible, frame, saved, Memory, cause>>

(* A kernel thread calls the C library and comes back.                     *)
Library(c) == /\ \/ At(c, "kernel") /\ Goes(c, "library")
                 \/ At(c, "library") /\ Goes(c, "kernel")
              /\ UNCHANGED <<running, masked, ev, vm_head, ksp, visible, frame, saved, Memory, cause>>

(* Events that a signal brings: interrupts whenever they are not blocked,  *)
(* traps from the code that makes them.                                    *)
Interrupts == {"timer", "iodev"}
Arrives(c, e) == CASE e \in Interrupts -> ~masked[c]
                   [] e = "yield" -> mode[c] = "kernel"
                   [] e \in {"syscall", "pagefault"} -> mode[c] = "user"

(* Mutant: the interrupts not blocked while a trap is handled.             *)
setup_stack_unmasked(c, e) ==
  IF e \in Interrupts /\ mode[c] = "library"
  THEN UNCHANGED <<mode, masked, frame, cause>>
  ELSE /\ frame' = Sets(frame, c, [mode |-> mode[c], masked |-> masked[c],
                                   vm_head |-> NoSpace, ksp |-> NoStack])
       /\ UNCHANGED masked
       /\ cause' = Sets(cause, c, e)
       /\ Goes(c, "irq_handle")

(* setup_stack: an interrupt of library code is dropped; any other trap    *)
(* pushes the context, blocks the interrupts and goes on in irq_handle.    *)
setup_stack(c, e) ==
  IF e \in Interrupts /\ mode[c] = "library"
  THEN UNCHANGED <<mode, masked, frame, cause>>
  ELSE /\ frame' = Sets(frame, c, [mode |-> mode[c], masked |-> masked[c],
                                   vm_head |-> NoSpace, ksp |-> NoStack])
       /\ masked' = Sets(masked, c, TRUE)
       /\ cause' = Sets(cause, c, e)
       /\ Goes(c, "irq_handle")

sig_handler(c, e) == /\ mode[c] \in {"user", "kernel", "library", "irq_handle", "handler"}
                     /\ Arrives(c, e)
                     /\ ev' = Sets(ev, c, e)
                     /\ setup_stack(c, e)
                     /\ UNCHANGED <<running, vm_head, ksp, visible, saved, Memory>>

(* irq_handle up to the kernel's handler, with the context completed.      *)
irq_handle(c) ==
  /\ At(c, "irq_handle")
  /\ saved' = (running[c] :> [frame[c] EXCEPT !.vm_head = vm_head[c], !.ksp = ksp[c]]) @@ saved
  /\ Goes(c, "handler")
  /\ UNCHANGED <<running, masked, ev, vm_head, ksp, visible, frame, Memory, cause>>

(***************************************************************************)
(* The list of a space. Mapping an address again puts its page in front    *)
(* where it is already in the list, which makes the list a circle.         *)
(***************************************************************************)
RECURSIVE From(_, _)
From(p, seen) == IF p = NoPage \/ p \in seen THEN seen ELSE From(pages[p].next, seen \cup {p})
Listed(s) == From(head[s], {})
Circular(s) == s # NoSpace /\ head[s] # NoPage /\ \A p \in Listed(s) : pages[p].next # NoPage

Mapping(p) == [pa |-> p.pa, prot |-> p.prot]
Without(f, D) == [x \in DOMAIN f \ D |-> f[x]]

map(c, s, va, pa, prot) ==
  /\ maps < MAPS
  /\ c = 0 /\ mode[c] \in {"kernel", "handler"}
  /\ LET pp == <<s, va>>
         now == s = vm_head[c]
     IN  /\ pages' = (pp :> [va |-> va, pa |-> pa, prot |-> prot, is_mapped |-> now, next |-> head[s]])
                     @@ pages
         /\ head' = [head EXCEPT ![s] = pp]
         /\ visible' = IF now THEN Sets(visible, c, (va :> Mapping(pages'[pp])) @@ visible[c])
                       ELSE visible
  /\ maps' = maps + 1
  /\ UNCHANGED <<running, mode, masked, ev, vm_head, ksp, frame, saved, cause>>

(* __am_switch between different spaces: what is marked as mapped of the   *)
(* old one is unmapped, the new one is mapped.                             *)
__am_switch(c, to) ==
  LET now == vm_head[c]
      out == IF now = NoSpace THEN {} ELSE {p \in Listed(now) : pages[p].is_mapped}
      in == IF to = NoSpace THEN {} ELSE Listed(to)
  IN  /\ pages' = [p \in DOMAIN pages |->
                     [pages[p] EXCEPT !.is_mapped = (p \in in) \/ (@ /\ p \notin out)]]
      /\ visible' = Sets(visible, c, [va \in {pages[p].va : p \in in} |-> Mapping(pages[<<to, va>>])]
                                     @@ Without(visible[c], {pages[p].va : p \in out}))
      /\ vm_head' = Sets(vm_head, c, to)

(* The handler returns the context of thread t, which no other processor   *)
(* still handles a trap of; a circle is never left.                        *)
Return(c, t) ==
  /\ At(c, "handler")
  /\ t \in DOMAIN saved /\ \A d \in Cpus \ {c} : running[d] # t
  /\ LET to == saved[t].vm_head
     IN  IF to = vm_head[c]
         THEN Goes(c, "iret") /\ UNCHANGED <<vm_head, visible, pages>>
         ELSE IF Circular(vm_head[c]) \/ Circular(to)
         THEN Goes(c, "looping") /\ UNCHANGED <<vm_head, visible, pages>>
         ELSE __am_switch(c, to) /\ Goes(c, "iret")
  /\ frame' = Sets(frame, c, saved[t])
  /\ saved' = Without(saved, {t})
  /\ running' = Sets(running, c, t)
  /\ UNCHANGED <<masked, ev, ksp, head, maps, cause>>

(* The magic call: a signal like the others, which restores the context.   *)
iret(c) == /\ At(c, "iret")
           /\ ev' = Sets(ev, c, "error")
           /\ ksp' = Sets(ksp, c, frame[c].ksp)
           /\ masked' = Sets(masked, c, frame[c].masked)
           /\ Goes(c, frame[c].mode)
           /\ UNCHANGED <<running, vm_head, visible, frame, saved, Memory, cause>>

Events == Interrupts \cup {"yield", "syscall", "pagefault"}
NativeNext ==
  \E c \in Cpus :
    \/ iset(c) \/ Library(c) \/ irq_handle(c) \/ iret(c)
    \/ \E e \in Events : sig_handler(c, e)
    \/ \E s \in Spaces, va \in Addresses, pa \in Frames : map(c, s, va, pa, "rw")
    \/ \E t \in Users \cup {Kernel} \cup {Boot(d) : d \in Cpus} : Return(c, t)

NativeSpec == InitNative /\ [][NativeNext]_nativeVars

(* cte.c: the event that a handler is called for is the one that trapped,  *)
(* and a trap pushes its context when no other context is on its way.      *)
TrapKept(c) == mode[c] \in {"irq_handle", "handler"} => ev[c] = cause[c]
                                                       /\ frame[c].mode # "irq_handle"

(* vme.c, cte.c: a process runs with its own pages and kernel stack, and   *)
(* sees what the kernel has mapped for it, and nothing of another space    *)
(* (as long as no address of the space was mapped twice).                  *)
InOwnSpace(c) ==
  At(c, "user") /\ ~Circular(vm_head[c]) =>
                   /\ vm_head[c] = Space(running[c])
                   /\ ksp[c] = running[c]
                   /\ visible[c] = [va \in {p[2] : p \in Listed(vm_head[c])} |->
                                      Mapping(pages[<<vm_head[c], va>>])]

TrapsExact == \A c \in Cpus : TrapKept(c) /\ InOwnSpace(c)

(* vme.c:63, "munmap all mappings": of a space that is left none stays.    *)
LeavesNothingMapped == \A c \in Cpus : vm_head[c] = NoSpace => visible[c] = <<>>
=============================================================================
