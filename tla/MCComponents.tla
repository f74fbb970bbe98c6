---------------------------- MODULE MCComponents ----------------------------
(***************************************************************************)
(* Components that share nothing with one another, side by side: which of  *)
(* them takes the steps is chosen at the start, and the others stay as     *)
(* they began.                                                             *)
(***************************************************************************)
EXTENDS Smp, UptimeReader, ResetChain, NesFrame, NesPort, Devices, Htif, Cte

CONSTANTS LEVELS, ENTRIES, PAGES, CPUS, MAPS, SECTSIZE, MEM, MAX_CPU, MAXINTR, VBUF

VARIABLES
  which,
  port, tables, free, kpt, spaces, frames, cr3, contexts, process, halted,
  running, native_mode, masked, ev, vm_head, ksp, visible, native_frame, kept, native_head, pages, maps, cause,
  bits, stage, boot_cpu, loadedmem, phdrs, loaded, cmos, heap, mptable, ptr, ncpu, gdt, idt, todo, reg,
  redirection, interrupted,
  platform, draws, filled, inited, image, found, misused, stopped, canvases, copied, vmem, pixels

Vme == INSTANCE Paging WITH context <- contexts, running <- process
Native == INSTANCE NativeAm WITH saved <- kept, mode <- native_mode, frame <- native_frame,
                               head <- native_head
Boot == INSTANCE X86Boot WITH cpu <- boot_cpu, memory <- loadedmem, entries <- mptable
Regs == INSTANCE Ioe WITH tree <- canvases, fb <- pixels

pagingVars == <<port, tables, free, kpt, spaces, frames, cr3, contexts, process, halted>>
nativeVars == <<running, native_mode, masked, ev, vm_head, ksp, visible, native_frame, kept, native_head, pages,
                maps, cause>>
bootVars == <<bits, stage, boot_cpu, loadedmem, phdrs, loaded, cmos, heap, mptable, ptr, ncpu, gdt, idt, todo, reg,
              redirection, interrupted>>
ioeVars == <<platform, draws, filled, inited, image, found, misused, stopped, canvases, copied, vmem, pixels>>
allVars == <<smpVars, uptimeVars, chainVars, frameVars, portVars, pagingVars, nativeVars,
             deviceVars, htifVars, bootVars, ioeVars, cteVars>>

InitComponents ==
  /\ which \in {"smp", "uptime", "chain", "nes", "port", "vme", "native", "ioe",
             "htif", "boot", "lut", "cte"}
  /\ InitSmp /\ ReaderInit /\ ChainInit /\ InitFrame /\ InitPort /\ Vme!InitPaging
  /\ Native!InitNative /\ InitDevices
  /\ which = "vme" \/ port = "x86"
  /\ which = "port" \/ ppu.mirroring_xor = 1024
  /\ which = "ioe" \/ device = "clock"
  /\ which = "htif" \/ xlen = 32
  /\ which = "boot" \/ (bits = 32 /\ phdrs = Boot!AFile /\ mptable = Boot!ATable /\ cmos = Boot!AMemory)
  /\ which = "lut" \/ platform = "npc"
  /\ InitHtif /\ Boot!InitBoot /\ Regs!InitIoe /\ CteInit

NextComponents ==
  /\ IF which = "smp" THEN SmpNext ELSE UNCHANGED smpVars
  /\ IF which = "uptime" THEN UptimeNext ELSE UNCHANGED uptimeVars
  /\ IF which = "chain" THEN ChainNext ELSE UNCHANGED chainVars
  /\ IF which = "nes" THEN Cycle ELSE UNCHANGED frameVars
  /\ IF which = "port" THEN PortNext ELSE UNCHANGED portVars
  /\ IF which = "vme" THEN Vme!PagingNext ELSE UNCHANGED pagingVars
  /\ IF which = "native" THEN Native!NativeNext ELSE UNCHANGED nativeVars
  /\ IF which = "ioe" THEN DevicesNext ELSE UNCHANGED deviceVars
  /\ IF which = "htif" THEN HtifNext ELSE UNCHANGED htifVars
  /\ IF which = "boot" THEN Boot!BootNext ELSE UNCHANGED bootVars
  /\ IF which = "lut" THEN Regs!IoeNext ELSE UNCHANGED ioeVars
  /\ IF which = "cte" THEN CteNext ELSE UNCHANGED cteVars
  /\ UNCHANGED which

(* The fairness of Smp and of NesFrame.                                    *)
Fairness ==
  /\ WF_smpVars(which = "smp" /\ (main \/ BootAp \/ WaitAp))
  /\ \A c \in Cpus : /\ WF_smpVars(which = "smp" /\ Run(c))
                     /\ WF_smpVars(which = "smp" /\ Timer(c))
  /\ WF_frameVars(which = "nes" /\ Cycle)

ComponentsSpec == InitComponents /\ [][NextComponents]_<<which, allVars>> /\ Fairness

(* thread-os.c: EveryTaskRuns of Smp: every task gets a processor again    *)
(* and again, whatever the lock and the timers do.                         *)
TasksRun == which = "smp" => EveryTaskRuns

(* litenes: the program gets through both of its waits for the flag.       *)
NesStartsUp == which = "nes" => StartsUp

(* vme.c: the processor finds in each space what was mapped, and no more.  *)
PagingExact == which = "vme" => Vme!PagingExact

(* What a program runs on: in native/cte.c the event handled is the one    *)
(* that trapped, in the space of the thread that trapped, and its context  *)
(* is kept; a machine of x86 comes up as its loader, its descriptors and   *)
(* its interrupt router are to have it; on every platform a device that is *)
(* there can be used.                                                      *)
MachinesExact == /\ which = "native" => Native!TrapsExact
                 /\ which = "boot" => Boot!BootExact
                 /\ which = "lut" => Regs!IoeExact
=============================================================================
