------------------------------ MODULE Devices ------------------------------
(***************************************************************************)
(* The input/output devices of the AbstractMachine platforms that are not  *)
(* the board: the real-time clock, the display and the disk of x86 under   *)
(* qemu (x86/qemu/ioe.c), the display of nemu (platform/nemu/ioe/gpu.c)    *)
(* and the display, the disk and the key queue of a native program         *)
(* (native/ioe/). A run of the specification uses one device.              *)
(***************************************************************************)
EXTENDS Integers, Sequences, FiniteSets

CONSTANTS
  SECONDS, MINUTES,   \* radices of the clock's first registers
  MAX_TIME,           \* bound on the clock
  KEY_QUEUE_LEN,      \* entries of the key queue
  MAX_KEYS,           \* bound on the keys of the user
  W, H,               \* size of the display
  BLKSZ, DISK,        \* size of a block of the disk, blocks of the disk
  BYTE,               \* values of a port of the disk
  MAX_REQUESTS        \* bound on requests to display and disk

(* The numbers of blocks fit the ports' three bytes and four bits.         *)
ASSUME DevicesAssumption ==
  /\ {SECONDS, MINUTES, KEY_QUEUE_LEN, W, H, BLKSZ, BYTE} \subseteq Nat \ {0}
  /\ DISK \in Nat /\ DISK <= 16 * (BYTE * (BYTE * BYTE))

VARIABLES
  device,                        \* the device of this run
  time, since, rtc, reading,     \* clock; begin and result of the read at hand
  keys, key_queue, key_f, key_r, key_queue_lock, typing, got,    \* key queue
  asked, fb, fb_nemu, surface,   \* display: requests, and what the three show
  blocks, file, written, buffers \* disk: what the two hold, what was written

clockVars == <<time, since, rtc, reading>>
keyVars == <<keys, key_queue, key_f, key_r, key_queue_lock, typing, got>>
displayVars == <<asked, fb, fb_nemu, surface>>
diskVars == <<blocks, file, written, buffers>>
deviceVars == <<device, clockVars, keyVars, displayVars, diskVars>>

Pixels == 0..(W * H - 1)
Words == [0..(BLKSZ - 1) -> {0, 1}]

InitDevices ==
  /\ device \in {"clock", "keys", "display", "disk"}
  /\ time = 0 /\ since = 0 /\ rtc = <<>> /\ reading = FALSE
  /\ keys = <<>> /\ key_queue = [i \in 0..(KEY_QUEUE_LEN - 1) |-> 0]
  /\ key_f = 0 /\ key_r = 0 /\ key_queue_lock = "free" /\ typing = "wait" /\ got = <<>>
  /\ asked = <<>> /\ fb = [p \in Pixels |-> 0] /\ fb_nemu = fb /\ surface = fb
  /\ blocks = [b \in 0..(DISK - 1) |-> [i \in 0..(BLKSZ - 1) |-> 0]]
  /\ file = [i \in 0..(DISK * BLKSZ - 1) |-> 0]
  /\ written = [b \in 0..(DISK - 1) |-> [i \in 0..(BLKSZ - 1) |-> 0]]
  /\ buffers = <<<<>>, <<>>>>

(***************************************************************************)
(* The real-time clock. Its registers hold BCD and go on while timer_rtc   *)
(* reads them one by one; the seconds are read once more at the end. A     *)
(* round of reads takes less than a minute.                                *)
(***************************************************************************)
Bcd(x) == (x \div 10) * 16 + (x % 10)
Shown(t) == <<t % SECONDS, (t \div SECONDS) % MINUTES, t \div (SECONDS * MINUTES)>>
Register(n) == Bcd(Shown(time)[n])

read_rtc(n) == (Register(n) % 16) + (Register(n) \div 16) * 10

Tick == /\ device = "clock" /\ time < MAX_TIME
        /\ reading => time - since < SECONDS - 1
        /\ time' = time + 1
        /\ UNCHANGED <<device, since, rtc, reading, keyVars, displayVars, diskVars>>

Begins == /\ device = "clock" /\ ~reading
          /\ reading' = TRUE /\ since' = time /\ rtc' = <<>>
          /\ UNCHANGED <<device, time, keyVars, displayVars, diskVars>>

read_rtc_async == /\ device = "clock" /\ reading /\ Len(rtc) < 3
                  /\ rtc' = Append(rtc, read_rtc(Len(rtc) + 1))
                  /\ UNCHANGED <<device, time, since, reading, keyVars, displayVars, diskVars>>

(* Mutant: the date taken as it was read.                                  *)
timer_rtc_once == /\ device = "clock" /\ reading /\ Len(rtc) = 3
                  /\ reading' = FALSE /\ UNCHANGED <<rtc, since>>
                  /\ UNCHANGED <<device, time, keyVars, displayVars, diskVars>>

timer_rtc == /\ device = "clock" /\ reading /\ Len(rtc) = 3
             /\ IF read_rtc(1) = rtc[1]
                THEN reading' = FALSE /\ UNCHANGED <<rtc, since>>
                ELSE rtc' = <<>> /\ since' = time /\ UNCHANGED reading
             /\ UNCHANGED <<device, time, keyVars, displayVars, diskVars>>

(***************************************************************************)
(* The key queue: SDL's event thread writes it, the program reads it, each *)
(* under the mutex. keys are those typed and not lost: nobody checks for   *)
(* room, and a queue that fills up looks empty, so all its keys are lost.  *)
(***************************************************************************)
NONE == 0
keymap == [scancode \in 0..2 |-> scancode]     \* scancode 0 has no AM key

Keys(action) == device = "keys" /\ action /\ UNCHANGED <<device, clockVars, displayVars, diskVars>>

Typed == /\ typing = "wait" /\ Len(keys) < MAX_KEYS
         /\ \E scancode \in DOMAIN keymap :
              IF keymap[scancode] = NONE THEN UNCHANGED <<keys, typing>>
              ELSE keys' = Append(keys, keymap[scancode]) /\ typing' = "lock"
         /\ UNCHANGED <<key_queue, key_f, key_r, key_queue_lock, got>>

event_thread == \/ /\ typing = "lock" /\ key_queue_lock = "free"
                   /\ key_queue_lock' = "event_thread" /\ typing' = "store"
                   /\ UNCHANGED <<keys, key_queue, key_f, key_r, got>>
                \/ /\ typing = "store"
                   /\ key_queue' = [key_queue EXCEPT ![key_r] = keys[Len(keys)]]
                   /\ typing' = "advance"
                   /\ UNCHANGED <<keys, key_f, key_r, key_queue_lock, got>>
                \/ /\ typing = "advance"
                   /\ key_r' = (key_r + 1) % KEY_QUEUE_LEN
                   /\ key_queue_lock' = "free" /\ typing' = "wait"
                   /\ keys' = IF Len(keys) - Len(got) = KEY_QUEUE_LEN THEN got ELSE keys
                   /\ UNCHANGED <<key_queue, key_f, got>>

__am_input_keybrd == \/ /\ key_queue_lock = "free" /\ key_queue_lock' = "program"
                        /\ UNCHANGED <<keys, key_queue, key_f, key_r, typing, got>>
                     \/ /\ key_queue_lock = "program" /\ key_queue_lock' = "free"
                        /\ IF key_f # key_r
                           THEN /\ got' = Append(got, key_queue[key_f])
                                /\ key_f' = (key_f + 1) % KEY_QUEUE_LEN
                           ELSE UNCHANGED <<got, key_f>>
                        /\ UNCHANGED <<keys, key_queue, key_r, typing>>

(***************************************************************************)
(* The display: rectangle [x, y, w, h] of colour [i |-> c + i], row by row. *)
(***************************************************************************)
Least(a, b) == IF a < b THEN a ELSE b
Colour(draw, i) == draw.c + i
Rectangles == [x : 0..W, y : 0..H, w : 0..W, h : 1..H, c : {1, 10}]
Inside(draw) == draw.x + draw.w <= W /\ draw.y + draw.h <= H

(* len pixels of each of the rows, at the address of the row.              *)
Paint(memory, draw, rows, len) ==
  [p \in DOMAIN memory |->
     IF \E j \in rows : p - (draw.x + (draw.y + j) * W) \in 0..(len - 1)
     THEN LET j == CHOOSE j \in rows : p - (draw.x + (draw.y + j) * W) \in 0..(len - 1)
          IN  Colour(draw, draw.w * j + (p - (draw.x + (draw.y + j) * W)))
     ELSE memory[p]]

gpu_fbdraw(memory, draw) ==
  LET len == IF draw.x + draw.w >= W THEN W - draw.x ELSE draw.w
  IN  Paint(memory, draw, {j \in 0..(draw.h - 1) : draw.y + j < H}, len)

__am_gpu_fbdraw(memory, draw) == Paint(memory, draw, 0..(draw.h - 1), draw.w)

(* native: SDL clips the rectangle to the surface.                         *)
BlitSurface(memory, draw) ==
  IF draw.w = 0 \/ draw.h = 0 THEN memory
  ELSE Paint(memory, draw, 0..(Least(draw.h, H - draw.y) - 1), Least(draw.w, W - draw.x))

Draw == /\ device = "display" /\ Len(asked) < MAX_REQUESTS
        /\ \E draw \in Rectangles :
             /\ asked' = Append(asked, draw)
             /\ fb' = gpu_fbdraw(fb, draw)
             /\ fb_nemu' = IF Inside(draw) THEN __am_gpu_fbdraw(fb_nemu, draw) ELSE fb_nemu
             /\ surface' = BlitSurface(surface, draw)
        /\ UNCHANGED <<device, clockVars, keyVars, diskVars>>

(***************************************************************************)
(* The disk of x86: the block's number goes through four ports, the last   *)
(* of which also selects the drive; then the words of the block follow.    *)
(***************************************************************************)
Drive == 14     \* 0xe0, above the four bits of the number
Ports(blkno) == <<blkno % BYTE, (blkno \div BYTE) % BYTE, (blkno \div (BYTE * BYTE)) % BYTE,
                  (blkno \div (BYTE * BYTE * BYTE)) + Drive * 16>>
Addressed(ports) == ports[1] + BYTE * (ports[2] + BYTE * (ports[3] + BYTE * (ports[4] % 16)))

(* blkcnt blocks from blkno, written from or read into buf.                *)
disk_write(store, blkno, blkcnt, buf) ==
  [b \in DOMAIN store |->
     IF \E n \in 0..(blkcnt - 1) : Addressed(Ports(blkno + n)) = b
     THEN LET n == CHOOSE n \in 0..(blkcnt - 1) : Addressed(Ports(blkno + n)) = b
          IN  [i \in 0..(BLKSZ - 1) |-> buf[n * BLKSZ + i]]
     ELSE store[b]]
disk_read(store, blkno, blkcnt) ==
  [k \in 0..(blkcnt * BLKSZ - 1) |-> store[Addressed(Ports(blkno + (k \div BLKSZ)))][k % BLKSZ]]

(* native: the blocks are where fseek goes in the image.                   *)
__am_disk_write(image, blkno, blkcnt, buf) ==
  [k \in DOMAIN image |->
     IF k - blkno * BLKSZ \in 0..(blkcnt * BLKSZ - 1) THEN buf[k - blkno * BLKSZ] ELSE image[k]]
__am_disk_read(image, blkno, blkcnt) ==
  [k \in 0..(blkcnt * BLKSZ - 1) |-> image[blkno * BLKSZ + k]]

Blkio ==
  /\ device = "disk"
  /\ \E blkno \in 0..(DISK - 1), blkcnt \in 0..2 :
       /\ blkno + blkcnt <= DISK
       /\ \/ /\ buffers' = <<disk_read(blocks, blkno, blkcnt), __am_disk_read(file, blkno, blkcnt)>>
             /\ UNCHANGED <<blocks, file, written>>
          \/ \E buf \in [0..(blkcnt * BLKSZ - 1) -> {0, 1}] :
               /\ blocks' = disk_write(blocks, blkno, blkcnt, buf)
               /\ file' = __am_disk_write(file, blkno, blkcnt, buf)
               /\ written' = [b \in DOMAIN written |->
                                IF b \in blkno..(blkno + blkcnt - 1)
                                THEN [i \in 0..(BLKSZ - 1) |-> buf[(b - blkno) * BLKSZ + i]]
                                ELSE written[b]]
               /\ UNCHANGED buffers
  /\ UNCHANGED <<device, clockVars, keyVars, displayVars>>

DevicesNext == \/ Tick \/ Begins \/ read_rtc_async \/ timer_rtc
               \/ Keys(Typed) \/ Keys(event_thread) \/ Keys(__am_input_keybrd)
               \/ Draw \/ Blkio

DevicesSpec == InitDevices /\ [][DevicesNext]_deviceVars

(* ioe.c: the date that timer_rtc returns was on the clock during the read *)
(* although the registers went on between two reads.                       *)
TimeWasOnClock == ~reading /\ rtc # <<>> => \E t \in since..time : rtc = Shown(t)

(* input.c: the program gets the keys in the order they were typed, save   *)
(* those of a queue that filled up, and finds one whenever one waits.      *)
KeysInOrder == /\ Len(got) <= Len(keys) /\ got = SubSeq(keys, 1, Len(got))
               /\ typing = "wait" => (key_f = key_r <=> Len(got) = Len(keys))

(* What a display shows: at each place the last rectangle drawn over it.   *)
Covers(draw, p) == /\ p % W \in draw.x..(draw.x + draw.w - 1)
                   /\ p \div W \in draw.y..(draw.y + draw.h - 1)
Picture == [p \in Pixels |->
              LET over == {n \in 1..Len(asked) : Covers(asked[n], p)}
                  last == asked[CHOOSE n \in over : \A k \in over : k <= n]
              IN  IF over = {} THEN 0
                  ELSE Colour(last, ((p \div W) - last.y) * last.w + (p % W) - last.x)]

(* fbdraw: the displays agree, clip what leaves the screen (nemu's is only *)
(* given what fits) and show the last rectangle drawn.                     *)
DrawnAsAsked == /\ fb = Picture /\ surface = Picture
                /\ (\A n \in 1..Len(asked) : Inside(asked[n])) => fb_nemu = Picture

(* blkio: both disks hold what was written last to each block, and return  *)
(* it.                                                                     *)
BlocksAsWritten == /\ blocks = written
                   /\ \A k \in DOMAIN file : file[k] = written[k \div BLKSZ][k % BLKSZ]
                   /\ buffers[1] = buffers[2]

(* The devices do what they are asked to do.                               *)
RequestsExact == /\ device = "clock" => TimeWasOnClock
                 /\ device = "keys" => KeysInOrder
                 /\ device = "display" => DrawnAsAsked
                 /\ device = "disk" => BlocksAsWritten
=============================================================================
