--------------------------------- MODULE Ioe ---------------------------------
(***************************************************************************)
(* How a program gets at its devices: ioe_init and the registers of        *)
(* am/include/amdev.h on each platform, each with a handler or with none,  *)
(* and the canvases of x86/qemu/ioe.c, which two of the registers draw.    *)
(***************************************************************************)
EXTENDS Integers, FiniteSets, SequencesExt

CONSTANT VBUF        \* pixels of vbuf

VARIABLES
  platform,          \* a program of one of Platforms
  draws,             \* whether it has a tree of canvases to draw
  filled,            \* empty entries of lut are fail and not NULL
  inited,            \* ioe_init has returned; native: __am_has_ioe
  image,             \* native: there is a file with a disk
  found,             \* history: the devices whose CONFIG said that they are present
  misused,           \* history: used before ioe_init, initialised again or elsewhere
  stopped,           \* the register that stopped the program, or the panic
  tree, copied,      \* the canvases, and how many of them the display has
  vmem, fb           \* the display: its memory, and the pixels it shows

lutVars == <<platform, draws, filled, inited, image, found, misused>>
canvasVars == <<tree, copied, vmem, fb>>
ioeVars == <<lutVars, stopped, canvasVars>>

None == <<>>
Runs == stopped = None

(***************************************************************************)
(* The registers, those that each platform has a handler for, and the      *)
(* devices whose CONFIG says that they are present. That of qemu's display *)
(* says nothing of has_accel, so no program takes it to have MEMCPY and    *)
(* RENDER, which it has.                                                   *)
(***************************************************************************)
Registers == [UART |-> {"TX", "RX"}, TIMER |-> {"RTC", "UPTIME"}, INPUT |-> {"KEYBRD"},
              GPU |-> {"STATUS", "FBDRAW"}, AUDIO |-> {"CTRL", "STATUS", "PLAY"},
              DISK |-> {"STATUS", "BLKIO"}, NET |-> {"STATUS", "TX", "RX"}]
DeviceNames == DOMAIN Registers
Whole(devices) == UNION {{<<d, r>> : r \in Registers[d] \cup {"CONFIG"}} : d \in devices}
Configs(devices) == {<<d, "CONFIG">> : d \in devices}
Accelerated == {<<"GPU", "MEMCPY">>, <<"GPU", "RENDER">>}

npc == [lut |-> Whole({"TIMER", "INPUT"}) \cup Configs({"UART"}), present |-> {"TIMER", "INPUT"}]
nemu == [lut |-> Whole({"TIMER", "INPUT", "GPU", "AUDIO", "DISK"}) \cup Configs({"UART", "NET"}),
         present |-> {"TIMER", "INPUT", "GPU"}]
spike == [lut |-> Whole({"TIMER"}), present |-> {"TIMER"}]
native == [lut |-> Whole(DeviceNames \ {"NET"}) \cup Configs({"NET"}),
           present |-> (DeviceNames \ {"NET", "DISK"}) \cup IF image THEN {"DISK"} ELSE {}]
qemu == [lut |-> Whole({"UART", "TIMER", "INPUT", "GPU", "DISK"}) \cup Configs({"AUDIO", "NET"}) \cup Accelerated,
         present |-> {"UART", "TIMER", "INPUT", "GPU", "DISK"}]
Platforms == [npc |-> npc, nemu |-> nemu, spike |-> spike, native |-> native, qemu |-> qemu]

(* On native it initialises nothing, and is refused once devices are; the  *)
(* other platforms do it again. Two platforms have processors to choose.   *)
ioe_init ==
  /\ Runs
  /\ \E cpu \in IF platform \in {"native", "qemu"} THEN {0, 1} ELSE {0} :
       LET refused == cpu # 0 \/ (platform = "native" /\ filled)
       IN  /\ stopped' = IF refused THEN <<"ioe_init">> ELSE None
           /\ misused' = (misused \/ cpu # 0 \/ (platform = "native" /\ inited))
           /\ inited' = (inited \/ ~refused)
           /\ filled' = (filled \/ (platform # "native" /\ ~refused))
  /\ UNCHANGED <<platform, draws, image, found, canvasVars>>

(* native/mpe.c starts the devices again in the process of processor 0.    *)
mpe_init ==
  /\ Runs /\ platform = "native"
  /\ filled' = (filled \/ inited)
  /\ UNCHANGED <<platform, draws, inited, image, found, misused, stopped, canvasVars>>

(* ioe_read and ioe_write. On native the first one starts the devices;     *)
(* elsewhere an entry without a handler is NULL until ioe_init.            *)
do_io(d, r) ==
  /\ Runs
  /\ filled' = (filled \/ platform = "native")
  /\ misused' = (misused \/ ~inited)
  /\ stopped' = IF <<d, r>> \in Platforms[platform].lut THEN None ELSE <<d, r>>

(* Mutant: a CONFIG is taken to say that its device is there.              *)
Found_any(d, r) == r = "CONFIG"

Found(d, r) == r = "CONFIG" /\ d \in Platforms[platform].present

(* A program asks the CONFIG of any device, and uses those that are there. *)
ioe_read ==
  /\ ~draws
  /\ \E d \in DeviceNames : \E r \in Registers[d] \cup {"CONFIG"} :
       /\ r = "CONFIG" \/ d \in found
       /\ do_io(d, r)
       /\ found' = IF Found(d, r) THEN found \cup {d} ELSE found
  /\ UNCHANGED <<platform, draws, inited, image, canvasVars>>

(***************************************************************************)
(* x86/qemu/ioe.c: a tree of canvases in video memory, drawn from the      *)
(* leaves to the root, each subtree into a buffer of its own that is then  *)
(* scaled into its parent's.                                               *)
(***************************************************************************)
DISPLAY == [w |-> 4, h |-> 2]
NULL == 0
Texel(at, k) == 10 * at + k      \* pixel k of the texture of canvas at

Rects == {r \in [x1 : 0..1, y1 : 0..1, w1 : 1..2, h1 : 1..2] : r.x1 + r.w1 <= 2 /\ r.y1 + r.h1 <= 2}
Canvas(type, w, h, r, sibling, child) ==
  [type |-> type, w |-> w, h |-> h, x1 |-> r.x1, y1 |-> r.y1, w1 |-> r.w1, h1 |-> r.h1,
   sibling |-> sibling, child |-> child]

(* 1 is the root, 2 and 3 its children, and 4 that of 2 if it has one.     *)
Trees ==
  {<<Canvas("subtree", 2, 2, [x1 |-> x - 1, y1 |-> 0, w1 |-> x + 1, h1 |-> x], NULL, 2),
     Canvas(type, w, h, first, 3, 4),
     Canvas("texture", 2, 1, second, NULL, NULL),
     Canvas("texture", 1, 2, [x1 |-> 0, y1 |-> h - 1, w1 |-> w, h1 |-> 1], NULL, NULL)>>
     : w, h, x \in 1..2, first, second \in Rects, type \in {"texture", "subtree"}}

gpu_memcpy ==
  /\ draws /\ inited /\ copied < Len(tree)
  /\ do_io("GPU", "MEMCPY")
  /\ vmem' = [vmem EXCEPT ![copied + 1] = tree[copied + 1]]
  /\ copied' = copied + 1
  /\ UNCHANGED <<platform, draws, inited, image, found, tree, fb>>

(* z holds the pixels of the parent, of width W, and the head of vbuf.     *)
Scaled(cv, local, W, px) ==
  [p \in DOMAIN px |->
     LET i == (p % W) - cv.x1
         j == (p \div W) - cv.y1
     IN  IF i \in 0..(cv.w1 - 1) /\ j \in 0..(cv.h1 - 1)
         THEN local[cv.w * ((j * cv.h) \div cv.h1) + ((i * cv.w) \div cv.w1)] ELSE px[p]]
vbuf_alloc(head, size) == [px |-> [p \in 0..(size - 1) |-> 0], head |-> head + size]

RECURSIVE render(_, _, _), renderAll(_, _, _)
render(at, W, z) ==
  LET cv == vmem[at]
      drawn == renderAll(cv.child, cv.w, vbuf_alloc(z.head, cv.w * cv.h))
      local == [k \in 0..(cv.w * cv.h - 1) |-> Texel(at, k)]
  IN  IF cv.type = "texture" THEN [z EXCEPT !.px = Scaled(cv, local, W, @)]
      ELSE [px |-> Scaled(cv, drawn.px, W, z.px), head |-> drawn.head]
renderAll(at, W, z) == IF at = NULL THEN z ELSE renderAll(vmem[at].sibling, W, render(at, W, z))

(* The pixels that are scaled before vbuf turns out too small are lost.    *)
gpu_render ==
  /\ draws /\ inited /\ copied = Len(tree)
  /\ Runs /\ <<"GPU", "RENDER">> \in qemu.lut
  /\ LET z == render(1, DISPLAY.w, [px |-> fb, head |-> 0])
     IN  IF z.head > VBUF THEN stopped' = <<"no memory">> /\ UNCHANGED fb
         ELSE fb' = z.px /\ UNCHANGED stopped
  /\ copied' = copied + 1
  /\ UNCHANGED <<lutVars, tree, vmem>>

InitIoe ==
  /\ platform \in {"npc", "nemu", "spike", "native", "qemu"}
  /\ filled = FALSE /\ inited = FALSE /\ found = {} /\ misused = FALSE /\ stopped = None
  /\ IF platform = "native" THEN image \in BOOLEAN ELSE image = FALSE
  /\ \/ draws = FALSE /\ tree = <<>>
     \/ draws = TRUE /\ platform = "qemu" /\ tree \in Trees
  /\ copied = 0 /\ vmem = [at \in 1..4 |-> None]
  /\ fb = [p \in 0..(DISPLAY.w * DISPLAY.h - 1) |-> -1]

IoeNext == \/ ioe_init \/ mpe_init
           \/ ioe_read
           \/ gpu_memcpy \/ gpu_render

IoeSpec == InitIoe /\ [][IoeNext]_ioeVars

-----------------------------------------------------------------------------
(* A program that initialises the devices once, on the first processor,    *)
(* and uses those it has found present never gets to a register without a  *)
(* handler, unless it asks npc or spike for a device they know nothing of. *)
Reached == \/ stopped \in {None, <<"no memory">>} \/ misused
           \/ platform \in {"npc", "spike"} /\ stopped[2] = "CONFIG"

(* The colour of a place of a canvas, by what the tree means: that of the  *)
(* last child over it, or of none.                                         *)
RECURSIVE ColourAt(_, _, _), Topmost(_, _, _, _)
ColourAt(at, x, y) == IF tree[at].type = "texture" THEN Texel(at, tree[at].w * y + x)
                      ELSE Topmost(tree[at].child, x, y, 0)
Topmost(at, x, y, below) ==
  IF at = NULL THEN below
  ELSE LET cv == tree[at]
           over == x - cv.x1 \in 0..(cv.w1 - 1) /\ y - cv.y1 \in 0..(cv.h1 - 1)
       IN  Topmost(cv.sibling, x, y,
                   IF over THEN ColourAt(at, ((x - cv.x1) * cv.w) \div cv.w1, ((y - cv.y1) * cv.h) \div cv.h1)
                   ELSE below)
Drawn == draws /\ copied > Len(tree) /\ Runs =>
           \A p \in DOMAIN fb : fb[p] = Topmost(1, p % DISPLAY.w, p \div DISPLAY.w, -1)

(* ioe.c of every platform: a device that is there can be used, and the    *)
(* canvases of qemu show what their tree means.                            *)
IoeExact == Reached /\ Drawn
=============================================================================
