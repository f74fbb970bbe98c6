------------------------------- MODULE Paging -------------------------------
(***************************************************************************)
(* Address spaces built from page tables: vme.c of am/src/x86/qemu, which  *)
(* unmaps and frees, and of am/src/riscv/nemu, which does neither; and the *)
(* directory that a context switch brings back (cte.c). Addresses are      *)
(* pages, a virtual one the indices that its walk takes.                   *)
(***************************************************************************)
EXTENDS Integers, FiniteSetsExt, SequencesExt, TLC

CONSTANTS
  LEVELS,    \* mmu.ptlevels
  ENTRIES,   \* entries of a table
  PAGES      \* pages that pgalloc has

VARIABLES
  port,      \* "x86" or "riscv", the port in use
  tables,    \* tables[p]: the entries of the page table in page p
  free,      \* pages not allocated
  kpt,       \* the kernel's top table
  spaces,    \* spaces[s]: the top table of a protected space
  frames,    \* frames[s]: what the program has mapped, by address
  cr3,       \* the table in use, satp on riscv
  context,   \* context[t]: the table in the saved context of t, or NoPage
  running,   \* whose context the processor runs
  halted     \* a panic has ended the program

pagingVars == <<port, tables, free, kpt, spaces, frames, cr3, context, running, halted>>

(* Two address spaces, each with a process, and one kernel thread.         *)
Spaces == {"a", "b"}
Kernel == "kernel"
NoPage == 0
Pages == 1..PAGES
MMAP_READ == 1
MMAP_WRITE == 2
Frames == {[pa |-> PAGES + 1, prot |-> MMAP_READ], [pa |-> PAGES + 2, prot |-> MMAP_WRITE]}

Index == 0..(ENTRIES - 1)
None == [P |-> FALSE, W |-> FALSE, U |-> FALSE, base |-> NoPage]
Entry(base, w, u) == [P |-> TRUE, W |-> w, U |-> u, base |-> base]
Zeros == [i \in Index |-> None]

(* Level-1 entries of the kernel: its memory first, its devices last. The  *)
(* program uses few pages of the user area.                                *)
KernelTop == {0, ENTRIES - 1}
KernelArea == {[i \in 1..LEVELS |-> IF i = 1 THEN k ELSE IF i = 2 THEN j ELSE 0] :
                 k \in KernelTop, j \in {0, 1}}
UserArea == {[i \in 1..LEVELS |-> IF i = 1 THEN k ELSE IF i = LEVELS THEN j ELSE 0] :
               k \in {1, 2}, j \in {1}}
            \cup {[i \in 1..LEVELS |-> IF i = LEVELS THEN 2 ELSE 1]}
Identity(va) == <<"kernel", va>>

(***************************************************************************)
(* Walks work on m, a record of the tables and the free pages; m is Panic  *)
(* when no page is left for a table.                                       *)
(***************************************************************************)
Panic == [tables |-> <<>>, free |-> {}, cur |-> NoPage, panic |-> TRUE]

pgallocz(m, link) ==
  IF m.panic \/ m.free = {} THEN Panic
  ELSE LET p == Min(m.free)
           linked == IF link = <<>> THEN m.tables
                     ELSE [m.tables EXCEPT ![m.cur][link[1]] = [link[2] EXCEPT !.base = p]]
       IN  [m EXCEPT !.tables = (p :> Zeros) @@ linked, !.free = @ \ {p}, !.cur = p]

(* The table of va's last level under the one at cur, made where missing.  *)
ptwalk(m, root, va, flags) ==
  LET level(v, i) ==
        IF v.panic THEN Panic
        ELSE LET e == v.tables[v.cur][va[i]]
             IN  IF e.P THEN [v EXCEPT !.cur = e.base]
                 ELSE pgallocz(v, <<va[i], flags>>)
  IN  FoldLeft(level, [m EXCEPT !.cur = root], [i \in 1..(LEVELS - 1) |-> i])

Set(m, va, entry) == IF m.panic THEN m ELSE [m EXCEPT !.tables[m.cur][va[LEVELS]] = entry]
State(t, f) == [tables |-> t, free |-> f, cur |-> NoPage, panic |-> FALSE]

(* What the processor finds for va: rights are those of every level.       *)
Walk(top, va) ==
  LET level(v, i) == LET e == tables[v.base][va[i]]
                     IN  IF ~v.P \/ ~e.P THEN None
                         ELSE Entry(e.base, v.W /\ e.W, v.U /\ e.U)
  IN  FoldLeft(level, Entry(top, TRUE, TRUE), [i \in 1..LEVELS |-> i])

(* The kernel's pages map to themselves: without PTE_U on x86, and without *)
(* any rights on riscv, whose map does not look at prot.                   *)
KernelFlags(v) == Entry(NoPage, v = "x86", FALSE)
KernelTables(v) ==
  LET m0 == pgallocz(State(<<>>, Pages), <<>>)
      step(m, va) == Set(ptwalk(m, m0.cur, va, KernelFlags(v)), va,
                         [KernelFlags(v) EXCEPT !.base = Identity(va)])
  IN  [m |-> FoldLeft(step, m0, SetToSeq(KernelArea)), top |-> m0.cur]

InitPaging == /\ port \in {"x86", "riscv"}
              /\ LET k == KernelTables(port)
                 IN  tables = k.m.tables /\ free = k.m.free /\ kpt = k.top /\ cr3 = k.top
              /\ spaces = <<>>
              /\ frames = <<>>
              /\ context = [t \in {Kernel} |-> NoPage]
              /\ running = Kernel
              /\ halted = FALSE

(* A panic ends the program; nothing is said of the rest.                  *)
Stops == halted' = TRUE /\ UNCHANGED <<tables, free>>
Keeps(m) == tables' = m.tables /\ free' = m.free /\ UNCHANGED halted
Switching == <<cr3, context, running>>

(* protect: a top table with the kernel's entries, copied one by one or,   *)
(* on riscv, with the whole page; ucontext makes the process's context.    *)
protect(s) ==
  /\ ~halted
  /\ s \notin DOMAIN spaces
  /\ LET m == pgallocz(State(tables, free), <<>>)
         copied == IF port = "x86" THEN KernelTop ELSE Index
     IN  IF m.panic THEN Stops /\ UNCHANGED <<spaces, frames, context>>
         ELSE /\ Keeps([m EXCEPT !.tables[m.cur] =
                          [i \in Index |-> IF i \in copied THEN m.tables[kpt][i] ELSE None]])
              /\ spaces' = (s :> m.cur) @@ spaces
              /\ frames' = (s :> <<>>) @@ frames
              /\ context' = (s :> m.cur) @@ context
  /\ UNCHANGED <<port, kpt, cr3, running>>

(* The entries above a page of the user, and its own. Only x86 has rights. *)
UserLink == Entry(NoPage, port = "x86", port = "x86")
UserEntry(pa, prot) == Entry(pa, port = "x86" /\ prot = MMAP_WRITE, port = "x86")
UserWalk(s, va) == ptwalk(State(tables, free), spaces[s], va, UserLink)
Mapped(m, va) == m.tables[m.cur][va[LEVELS]].P

(* x86 refuses to map a mapped page, riscv replaces the mapping.           *)
map(s, va, pa, prot) ==
  /\ ~halted
  /\ s \in DOMAIN spaces
  /\ LET m == UserWalk(s, va)
     IN  IF m.panic \/ (port = "x86" /\ Mapped(m, va)) THEN Stops /\ UNCHANGED frames
         ELSE /\ Keeps(Set(m, va, UserEntry(pa, prot)))
              /\ frames' = [frames EXCEPT ![s] = (va :> UserEntry(pa, prot)) @@ @]
  /\ UNCHANGED <<port, kpt, spaces, Switching>>

(* map with MMAP_NONE, on x86. On riscv it would map the page as well.     *)
unmap(s, va) ==
  /\ ~halted
  /\ port = "x86" /\ s \in DOMAIN spaces
  /\ LET m == UserWalk(s, va)
     IN  IF m.panic \/ ~Mapped(m, va) THEN Stops /\ UNCHANGED frames
         ELSE /\ Keeps(Set(m, va, None))
              /\ frames' = [frames EXCEPT ![s] = [v \in DOMAIN @ \ {va} |-> @[v]]]
  /\ UNCHANGED <<port, kpt, spaces, Switching>>

(* Mutant: the kernel's tables taken down with the user's.                 *)
RECURSIVE teardown_all(_, _)
teardown_all(level, pt) ==
  IF level > LEVELS THEN {}
  ELSE {pt} \cup UNION {teardown_all(level + 1, e.base) : e \in {tables[pt][i] : i \in Index} \ {None}}

RECURSIVE teardown(_, _)
teardown(level, pt) ==
  IF level > LEVELS THEN {}
  ELSE {pt} \cup UNION {teardown(level + 1, e.base) :
                          e \in {f \in {tables[pt][i] : i \in Index} : f.P /\ f.U}}

(* The tables of a space whose process is gone. A kernel thread that has   *)
(* run on them since would come back to freed ones: not asked for here.    *)
unprotect(s) ==
  /\ ~halted
  /\ s \in DOMAIN spaces /\ cr3 # spaces[s]
  /\ \A t \in DOMAIN context \ {s} : context[t] # spaces[s]
  /\ free' = IF port = "x86" THEN free \cup teardown(1, spaces[s]) ELSE free
  /\ tables' = [p \in Pages \ free' |-> tables[p]]
  /\ spaces' = [t \in DOMAIN spaces \ {s} |-> spaces[t]]
  /\ frames' = [t \in DOMAIN frames \ {s} |-> frames[t]]
  /\ context' = [t \in DOMAIN context \ {s} |-> context[t]]
  /\ UNCHANGED <<port, kpt, cr3, running, halted>>

(* __am_irq_handle: the context saved has the table in use; the one that   *)
(* is resumed brings its own, and one that has none keeps what there is.   *)
switch(t) ==
  /\ ~halted
  /\ t \in DOMAIN context
  /\ context' = [context EXCEPT ![running] = cr3]
  /\ cr3' = IF context'[t] = NoPage THEN cr3 ELSE context'[t]
  /\ running' = t
  /\ UNCHANGED <<port, tables, free, kpt, spaces, frames, halted>>

PagingNext ==
  \/ \E s \in Spaces : protect(s) \/ unprotect(s)
  \/ \E s \in Spaces, va \in UserArea :
       \/ \E frame \in Frames : map(s, va, frame.pa, frame.prot)
       \/ unmap(s, va)
  \/ \E t \in Spaces \cup {Kernel} : switch(t)

PagingSpec == InitPaging /\ [][PagingNext]_pagingVars

(* vme.c: in every space the processor finds what the program has mapped   *)
(* there, with its rights, nothing more, and the kernel where it was.      *)
Expected(s, va) == IF va \in DOMAIN frames[s] THEN frames[s][va] ELSE None
WalksAsMapped ==
  \A s \in DOMAIN spaces : /\ \A va \in UserArea : Walk(spaces[s], va) = Expected(s, va)
                           /\ \A va \in KernelArea : Walk(spaces[s], va) = Walk(kpt, va)
                                                    /\ Walk(kpt, va).base = Identity(va)

(* No table belongs to two spaces or is free while in use, and on x86 none *)
(* is lost: what unprotect frees is what protect and map have taken.       *)
RECURSIVE Under(_, _)
Under(level, pt) ==
  IF level > LEVELS THEN {}
  ELSE LET entries == {tables[pt][i] : i \in IF level = 1 THEN Index \ KernelTop ELSE Index}
       IN  {pt} \cup UNION {Under(level + 1, e.base) : e \in {f \in entries : f.P}}
Own(s) == Under(1, spaces[s])
PagesAccounted ==
  LET kernel == {kpt} \cup {tables[kpt][i].base : i \in KernelTop}
      owned == kernel \cup UNION {Own(s) : s \in DOMAIN spaces}
  IN  /\ owned \cap free = {}
      /\ \A s \in DOMAIN spaces : Own(s) \cap kernel = {}
      /\ \A s, t \in DOMAIN spaces : s # t => Own(s) \cap Own(t) = {}
      /\ port = "x86" => owned = Pages \ free

(* cte.c: a process runs on the tables of its own space.                   *)
OnOwnTables == running \in DOMAIN spaces => cr3 = spaces[running]

(* vme.c, cte.c: the address spaces are what the program has asked for.    *)
PagingExact == ~halted => WalksAsMapped /\ PagesAccounted /\ OnOwnTables
=============================================================================
