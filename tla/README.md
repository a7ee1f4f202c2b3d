# Verification of the kernel and its boot loader

The repository is a small i686 operating system: a boot sector, a second boot
stage that finds the kernel in a FAT file system and loads it, and a kernel that
sets up interrupts, a PS/2 keyboard and mouse, and a graphical desktop with a few
applications. This directory holds TLA+ modules translated from that code, the
TLC runs that check them on small instances, and theorems about them that TLAPS
proves for every value of the constants. Paths below are relative to the
repository; `PROJECT.json` maps every definition to the lines it stands for.

Everything runs on one CPU without preemption. What makes the code hard is not
threads but what comes in from outside: an interrupt between any two accesses of
the main loop, three parties writing to one controller buffer, a BIOS or a disk
that fails at any call, and long runs of small state machines that share a cache.

## 1. Inventory

| Component (source under `src/src/`) | State it keeps | Operations | What makes it correct |
|---|---|---|---|
| Keyboard ring (`kernel/arch/i686/keyboard.c`) | `key_buffer`, its two indices, `shift_pressed` | `keyboard_handler` (IRQ 1), `keyboard_has_key`, `keyboard_get_key` | the keys come out whole, once, in order; a key is lost only when the ring is full |
| Interrupt controllers and dispatch (`i8259.c`, `irq.c`, `isr.c`, `isrs.asm`, `idt.c`) | both chips' mask, request and in-service registers, the driver's copy of the masks, gates and handler tables | remap, mask, unmask, end of interrupt, dispatch | no vector without a handler is ever raised; each end of interrupt ends the interrupt it belongs to; no line is silenced |
| Kernel start-up (`kernel/main.c`, `hal/hal.c`) | none of its own | the order of the initializations | interrupts are enabled only when everything they reach is in place |
| PS/2 controller and installation (`ps2.c`, `mouse_install`, `keyboard_install`) | the command byte, the output buffer, what the devices have queued | polls, commands, data bytes, acknowledgements | both ports are left open and interrupting, whichever waits time out or else under stated premises; packets stay aligned; all input is taken |
| Mouse (`mouse.c`) | `mouse_byte`, `mouse_cycle`, position, button | `mouse_handler` (IRQ 12) | a packet is three bytes of one movement; the position stays on the screen |
| Desktop and applications (`gui/gui.c`) | the sampled mouse, the application in front, each application's data | `gui_update` and what it calls | one press is one click; each application's data stay consistent |
| Graphics (`vga_gfx.c`, `util/font.c`, the drawing in `gui.c`) | the frame buffer, `cursor_buffer`, the cursor's last place | `gui_draw_window` and the other drawing functions, `draw_cursor`, saving and restoring what it covers | the screen shows one application's frame and one cursor |
| Snake (`gui/gui.c` 402-545) | body, direction, food, the time of the last move | `app_snake_init`, `app_snake_update` | the snake is one chain that never crosses itself, one key does not turn it back on itself, it moves in time; the food is off it where a place was found |
| First boot stage (`bootloader/stage1/boot.asm`) | the geometry in its header, the run at hand, ES, the retry counter | the read loop, with and without the BIOS's extensions | stage 2 is complete and in order when it is entered |
| Entry of stage 2 (`stage2/entry.asm`) | the saved registers; the 8042's two buffers and output port | `entry`, `EnableA20` | C gets what the boot sector passed on, with A20 open and nothing else changed |
| Disk of stage 2 (`stage2/disk.c`, `x86.asm`) | the drive's geometry, the loop's counter | `DISK_Initialize`, `DISK_ReadSectors` | the sector asked for, or an error after three tries |
| FAT driver (`stage2/fat.c`) | the root directory, ten file handles with one sector each, five cached sectors of the FAT | `FAT_Initialize`, `FAT_Open`, `FAT_Read`, `FAT_Close` | the bytes handed out are the file's, in order; handles come back |
| Text output (`stage2/stdio.c`, `kernel/stdio.c`, `debug.c`, `hal/vfs.c`, `vga_text.c`) | video memory, `g_ScreenX`, `g_ScreenY`, the cursor's two bytes; in each call of `printf` its format, arguments and locals | `clrscr`, `putc`, `printf`, `logf` | what is printed is what the format means, also when a handler prints in the middle; the screen holds the last lines |
| Loading the kernel (`stage2/main.c`, `mbr.c`, `memdetect.c`, `elf.c`, `string.c`) | partition, memory map, the segment at hand, memory | `run_bootloader`, `ELF_Read`, `Memory_Detect` | the kernel is entered only whole; the memory map is the BIOS's |

How they interact. The handlers of IRQ 1 and 12 share the ring, the mouse's
position and its button with the main loop without a lock. The installs share the
controller's one output buffer with both devices and with the handlers they are
just registering. Every file and directory of the FAT driver shares one cache of
the FAT and one table of handles. `ELF_Read` and the FAT driver share the memory
at 0x20000 with the partition entry that the boot sector left there. The kernel prints
over the screen stage 2 left, and its handlers log into the main program's log. The snake
and the other applications share the GUI's tick counter and the key ring.

The hard behaviours, each at its line, are the `hazards` of `PROJECT.json`.

Not modelled, and why: the mode switches of `x86.asm` and the GDT (straight-line code
over the CPU's own state and tables of constants); the FPU and port access (single
instructions); the shapes of the glyphs in `font.c` (any shape is allowed);
`kernel/memory.c` (empty: the README's memory management is `Memory_Detect`);
`libs/core` (C++ copies of the text screen and of `printf`, of which neither the kernel
nor the boot loader creates an object, so no behaviour of the system reaches them);
`stage2/stdlib.c` and `ctype.c` (uses commented out, or one operation per character);
`libs/string`, where the 16-bit lengths that matter are in `KernelLoad`; the image
builder, whose results are constants of `Boot` and `Fat`; `tools/fat/fat.c` (an older
copy of the driver, without its headers or a build step).

## 2. Modules

Abstract specifications and what implements them:

- `KeyQueue` is a bounded queue of keys that says what the keyboard driver
  promises. `KeyboardRing` is the ring of `keyboard.c`: `keyboard_handler` is one
  step, since the gates clear IF, and the main loop is cut at every access of a
  location the handler writes (`EnterGetKey`, `CopyField`, `Advance`). The ring
  implements the queue (`ImplementsKeyQueue`).
- `Terminal` is an endless sheet of paper of which the last lines are in view.
  `TextScreen` is the screen of `stage2/stdio.c`, which `vga_text.c` copies, as
  operators on its state, with the lines scrolled away as a history; `Printf` is the
  state machine of `vfprintf`, and, apart from it, what a list of texts and directives
  means. `Console` composes them: stage 2 prints, the kernel takes the screen over with
  variables of its own, logs, and is interrupted by handlers that print. A character is
  a step, so a handler may come anywhere in a format. `Console` implements `Terminal`.
- `FileStore` is a store of named byte sequences with cursors that may fail only
  when the medium does. `Fat` is `fat.c`: a step is a call, or one turn of the
  loop it is in. The sector a handle buffers, the part of the FAT that is cached
  and the handles are state; a sector's bytes are its address, for the volume is
  only read. `Fat` implements `FileStore` (`ImplementsFileStore`): a handle's state there is
  the path whose file it is at and its position.

Components and their composition:

- `I8259` is the driver's side of `i8259.c` (the copy of the masks, `Configure`,
  `Unmask`) with the 8259A pair it drives, as external definitions: priorities,
  the cascade, spurious vectors. `Interrupts` composes it with the IDT, the
  dispatchers and a main program that is a constant; every port write is a step
  and interrupts come between steps. `KernelStart` is the kernel's own main
  program, function by function. `StartOrder` states what the theorems ask of a
  main program, as an assumption that the kernel's is checked to meet.
- `Ps2Install` is `mouse_install` and `keyboard_install`, poll by poll and byte by
  byte, with the controller, both devices, both handlers and a user who types and
  moves. Each wait may end in vain. A wait for the input buffer that does (`NotReady`)
  writes nothing, and the early returns of `ps2.c` and the `||` of the installs skip what
  depends on it: each step of `Program` says how far it then goes on (`IfSent`). A wait for
  an answer may end while the answer is still to come (`PollTimeout`). `Unhandled` is
  `i686_IRQ_Handler` without a handler: the byte stays in
  the output buffer.
- `Gui` is `mouse_handler` and `gui_update`: three samples, then the application
  in front. The mouse's bytes and the keys come between any two steps. Keys wait
  in the queue that `KeyQueue` promises. `Snake` is the game, tick by tick.
- `VgaGfx` is drawing: a drawing is a sequence of what it puts, each some pixels and
  their colour, and painting leaves in a pixel the last one put there. Pixels do not
  influence each other, so `Pixels` are those looked at. `Desktop` is `Gui` with the
  screen: each application's drawing, the taking away of the last frame's cursor at the
  start of `gui_update`, the saving of what the next one will cover at its end. The
  snake's body and the tick counter at the moment of a frame are constants (`Moments`),
  since `Snake` has them.
- `DiskAddress` has the address arithmetic of both boot stages at its real widths, and
  the unpacking of what the BIOS says of the drive. `StageOne` is the boot sector, which
  goes by the geometry in its own header; `EnableA20` is `entry.asm` with the keyboard
  controller and a user who may type; `DiskRead` is `disk.c`.
- `KernelLoad` is `run_bootloader` with `Memory_Detect` and `ELF_Read`, in pages of
  4 KiB, so that the 16-bit lengths of `memcpy` and `memset` wrap at 16. It takes
  from `Fat` what an unreadable sector does to `FAT_Open` and `FAT_Read`: NULL, fewer
  bytes, or, unnoticed, a stale sector (`stale`, `fat.c:357`) or an old part of the table
  taken for the new, after which the driver follows other clusters (`lost`, `fat.c:271`).
  The kernel may also be missing on a disk that reads (`stored`).
- `Boot` composes these four: each runs when the one before has jumped to it. What they
  share is shared state: SI and DI from the boot sector to `entry.asm`, the saved pointer
  from there to `MBR_DetectPartition`, the place at 0x20000, and `disk.c`, whose failures
  decide whether `FAT_Initialize` fails.

`MCKeyboardRing`, `MCInterrupts`, `MCPs2Install`, `MCFat`, `MCBoot`, `MCKernelLoad`,
`MCConsole`, `MCGui` and `MCSnake` give the constants values for TLC.
`KeyboardRingProofs`, `InterruptsProofs`, `Ps2Proofs`, `BootProofs`, `FatProofs`,
`DesktopProofs` (of `Gui` too), `SnakeProofs` and `ConsoleProofs` hold the theorems. An operator marked
`mutant` is a plausible bug in the definition below it; with it in place TLC finds the
property that `PROJECT.json` names violated.

## 3. Runs, bounds and what they show

Runs that find no error:

- `keyboard_ring`: a ring of four slots instead of 64, a key with a character and
  one without, shift. Indices wrap, the ring fills, overflows and is emptied while
  keys come in. The ring is a queue of three keys; no event is torn; every key
  that was stored is taken while an application reads keys.
- `interrupts`: the kernel's start-up with the keyboard, the mouse and undriven
  devices on lines 7 and 15, the two whose vectors a spurious answer also uses. A
  device may request at every step of the program, once per step (`quiet`): an
  unbounded storm would only repeat states. No stray vector, the right end of
  interrupt, masks that match, every request answered.
- `ps2_install`: two keys and two movements, three of these together
  (`MaxInputs`), at any time from power on, or only
  once the desktop runs (`InputFrom`), on a machine with a mouse or without one, where
  each wait for its answer runs out. Besides, any one wait (`MaxTimeouts`) for the input
  buffer or for an answer on its way ends in vain. `KeyboardPortReady` holds whatever
  the user does and whichever wait that is, if the last command byte went out
  (`configured`): without that nobody has written what it should be. The others hold
  for a user who waits for the desktop and a controller that takes the accesses of its
  command byte and answers while it is waited for (`Quiet`); commands to the devices
  may be lost. Section 6 says what else can happen. Two keys are enough for one to lie in
  the buffer and one behind it, two movements for a packet to follow a packet, and one
  wait in vain for every place where there is one; the theorems are for any number.
  467,367 states. `ps2_keyboard_heard` needs no wait in vain.
- `fat_reads`: two files and a missing name in a subdirectory that takes two
  clusters, on a FAT12, a FAT16 and a FAT32 volume and on a FAT16 volume whose
  sectors may fail. Sectors have 64 bytes, two sectors make a cluster, two sectors
  of the table are cached and the chains leave them and come back. Reads of 100
  bytes cross sectors and clusters at every offset that 100 and 64 produce.
  `MAX_FILE_HANDLES` is 2 and a caller may want 3. `MaxPosition` ends a search that
  has left its chain. `FAT_Detect` and the layout work on the volumes' own parameters,
  with a least FAT16 of 150 clusters (`FAT12_CLUSTERS`, 0xFF5 in the code); one volume
  keeps its size in the 16-bit field, the others in the 32-bit one. Names are converted
  to eleven characters with what the late terminator lets in: a NUL, a letter or a dot.
- `boots`: stage 2 in five runs of sectors, out of order on the disk, with and without
  the BIOS's extensions, by the drive's geometry of 2 heads and 3 sectors per track or
  by a wrong one; an even or an odd scan code typed while A20 is opened; the sectors
  where the cylinder's ten bits carry, any of whose reads and resets may fail; then
  every kernel of a first segment out of 13 and none or a second out of four: loaded or
  skipped, up to 13 pages, with and without bss, at offsets below and beyond a 64 KiB
  chunk, some longer than the file; on the volume or not; on a disk that reads or one
  that does not and whose failures may go unnoticed; a BIOS that ends its map of
  four blocks in either way. 606,036 states. `MAX_REGIONS` is in the guard of `StoreBlock` because the
  code does not check it.
- `console`: a screen of two lines of eight, a cursor of two bytes of four values, ints of
  4 and long longs of 6 bits, so that lines wrap and scroll within one message, both
  bytes of the cursor are used and the least number is among those printed. Shortened
  messages of both programs with one of two texts printed by up to two interrupts at
  any character of the kernel's log; texts that end at each place of the screen,
  followed by tabs, returns and line feeds; and every directive of `printf` with every
  length. Each call writes what its format means and the screen is the sheet's end.
- `gui`: three sessions. In each, every byte and key may come between any two steps
  of `gui_update`. Over the icons any of six packets comes four times; the calendar
  is driven over a new year in both directions, closed and opened again; the
  notepad, of three places, is filled with keys of every kind, closed and opened
  over the old text. The screen and every rectangle have their real size. Ten pixels
  are looked at: where the cursor's corners lie at its first place, in the screen's
  corner and over icons, and where icons, buttons, texts, the game and the taskbar show,
  each only in some applications. A pixel of the cursor left behind, or one of the
  application before, would show in one of them; the theorem is for every pixel.
- `snake`: every game on a 4 by 3 grid with a snake of up to seven segments and a
  pause of two ticks, opened and closed at any tick. Four places are tried for the
  food, so that with a long snake all may be taken and the food is placed without
  looking. The counter wraps at 12, a multiple of both sides, so that wrapping does not
  shift the places tried; 2^32 shifts them by a few, once in years. `turns` saturates
  at two. 3,258,684 states.

Runs that find a disagreement between the code and what it says of itself:

- `ps2_keyboard_heard`: a key whose interrupt comes between the last poll and the
  registration of IRQ 1 is ended unread and the keyboard stays silent.
- `fat12_straddle`: on a 1.44 MB floppy, cluster 1706's entry lies across the end of
  the cached sectors and is read wrong. This run has the real sizes.
- `fat_root_again`: a directory whose entry is the last of the root's first sector is
  found once and never again.
- `kernel_large_segment`: of a segment of 72 KiB the first 64 KiB are not copied.

`CHECK_DEADLOCK FALSE` stands where the system may stop: the boot ends in the kernel
or an error (`boots`, `kernel_large_segment`), and a search of
the FAT driver ends at `MaxPosition` or in a NULL that is used (`fat_reads`,
`fat12_straddle`, `fat_root_again`); in `console` the texts end.

## 4. Fairness

The main loop never blocks and the CPU never stops, so what it does next happens:
weak fairness of the installs, of `gui_update`, of the FAT driver's loops, of the boot
(`WF_BootVars(Cpu)`: all of it but the user). A frame's drawing is part of the step of
`gui_update` it belongs to, so `Desktop` needs no fairness beyond `Gui`'s; the wait for the
retrace, which the display brings again and again, is not a step. An interrupt that can be taken is taken before the next instruction: weak
fairness of the handlers. A device sends what it holds when the buffer is free; the
mouse, which the keyboard may overtake at each free buffer, gets strong fairness
(`SF_vars(TransferAux)`): the controller does not starve a port. The user, the timing
of devices and the success of disk reads have no fairness: nobody must ever type, and a
disk may fail for ever.

## 5. Theorems

| Module | Theorem | What it says, for all constants that meet the assumptions |
|---|---|---|
| `KeyboardRingProofs` | `TypeCorrect`, `EventNeverTorn`, `RingImplementsQueue` | the ring keeps its types, hands out the one whole event in the oldest slot, and implements `KeyQueue`, for every ring size and key set |
| `InterruptsProofs` | `TypeCorrect`, `EndOfInterruptIsOwn`, `NoStray`, `MasksAgree` | for every set of devices and every main program that meets `OrderAssumption` and ends in a loop |
| `Ps2Proofs` | `KeyboardPortOpens`, `ControllerIsReady`, `MovementsStayAligned` | for any number of keys, movements and waits in vain, with a mouse or without; the first whenever the input begins, if the last command byte went out; the last two for input after the installs and a controller in time with its command byte and its answers |
| `DesktopProofs` | `TypeCorrect`, `OnePressActsOnce`, `CalendarKeepsCount`, `TextKeepsItsEnd` | of `Gui`, for any packets, sessions of any length and every text size |
| | `FramesLeaveNothing` | of `Desktop`, for any set of pixels, packets, sessions and games |
| `ConsoleProofs` | `ScreenStaysInside`, `ScreenImplementsTerminal` | for a screen of any size, whatever is printed and whoever interrupts |
| | `FormatsAreRead`, `EachTextIsWhole` | for any texts and directives, and any number of interrupts |
| `BootProofs` | `GeometryRead`, `RoundTrip` | for every geometry a BIOS can describe and every sector of it |
| | `Stage2IsWhole`, `A20IsOpen`, `EntryReadInTime`, `SectorRead`, `ThreeTries`, `MapIsTheBioss`, `KernelIsWhole` | of the whole boot (`BootSpec`), for every placing of stage 2, every kernel, every disk and memory maps of any length. `Stage2IsWhole` is for the extensions or the drive's own geometry and lets a lowered block count leave sectors out; `KernelIsWhole` promises the file's pages for a disk that reads, and no page left out for any |
| `FatProofs` | `HandlesStayBalanced`, `BuffersStayCurrent`, `ReadsAreWhole`, `FatImplementsFileStore` | for any volumes, sizes of sector, cluster and cache, and numbers of handles and calls |
| `SnakeProofs` | `SnakeMoves`, `OneTurnIsSafe`, `SnakeStaysWhole`, `FoodStaysFree` | for every grid, length, pause, number of attempts and width of the tick counter: moves are `PAUSE + 1` ticks apart, one turn never heads the snake for its neck, only the last two segments may coincide, and the food is off the snake if a tried place was free |

Nine theorems have a hypothesis. Each is a property of the data and not of the run, and TLC
checks that the instances of the runs meet it (the `ASSUME`s of `MCBoot`, `MCFat` and
`MCConsole`; `Carries` is a part of `Reachable` by definition):

- `Addressable` (`Stage2IsWhole`): stage 2 lies where the BIOS can be asked for it without
  its extensions. `lba_to_chs` takes the low half of an address only, and a cylinder has ten bits.
- `Lbas \subseteq Reachable` (`SectorRead`): the same of the sectors stage 2 asks for.
- `AllLoadable` (`KernelIsWhole`): the segments to be loaded are smaller than 64 KiB, lie
  apart and inside memory, and have no more file than memory. The run
  `kernel_large_segment` is what the first of these is for.
- `AllOrderly` (`BuffersStayCurrent`, `ReadsAreWhole`, `FatImplementsFileStore`): of the volumes whose reads do not
  fail, the boot sector gives the layout; the clusters lie below the end marks and within
  the table; no FAT12 entry lies across two sectors; each file with bytes has the clusters
  for them. The run `fat12_straddle` is what the third is for. Nothing is asked of a volume
  that may fail, and nothing at all by `HandlesStayBalanced`.
- `AllFindable` (`FatImplementsFileStore`): the same volumes can be searched. Each part asks
  for what section 6 or a run says goes wrong without it: the first name of a path lies in
  the root's first sector, not in its last place (`fat_root_again`); no letter left behind a
  name makes it another's; every name but the last is a directory's, with an end mark, and
  the last a file's; a FAT32 volume is asked for what is there. Besides, names differ within a
  directory, and files have first clusters of their own, by which the mapping tells them apart.
- `WellSpelled` (`FormatsAreRead`, `EachTextIsWhole`, `ScreenImplementsTerminal`): the texts
  between a format's directives hold no `%`, a directive's length is one that `printf` knows
  and its letter is not `h` or `l`, enough arguments are passed, and what goes to the screen is
  characters of the font. Of a directive that prints a number it also asks that its digits are
  those of the number. This part is about `fprintf_unsigned` alone, a recursion over the
  digits: TLC evaluates it for every letter, every length and every number of the small widths.

How they go.

- *The ring.* The inductive invariant adds to the types what the main loop has copied
  so far: while `keyboard_get_key` is between two copies, the fields it has are those
  of the slot `key_buffer_read` names, and the ring is not empty. It is kept because
  the handler's full test never lets it write that slot. Refinement follows action by
  action: only `Advance` takes from the queue, all other steps of the main loop
  stutter.
- *Interrupts.* Which vector an interrupt has says which lines are in service: the
  invariant ties the stage of the running handler to the chips' in-service registers,
  spurious IRQ 7 and 15 included, and, once interrupts are enabled, the position in
  the main program to gates, handlers and vector offsets. `OrderAssumption` is what
  makes the latter hold; the run `interrupts` checks that the kernel meets it. For the
  masks, it asks that before each step that reads the driver's copy, both chips' masks
  have been written since the copy last changed (`MaskOut`); the invariant is that a chip
  whose mask has been written since has the copy's byte.
- *The PS/2 installation.* `ProgramSteps` unfolds the two installs into their steps, and
  `Where` says at which of them each action can be. Whatever the user does and whichever wait
  ends in vain, the byte computed for the keyboard's port has its bit 0 set and its bit 4
  cleared, and once it has gone out what is written next goes to the keyboard
  (`KeyboardPort`). Under `Quiet`, one byte at most is on its way
  before the desktop, and it is the answer the step at hand waits for (`Traffic`), also where
  a command to a device was skipped; so every
  read of the command byte reads the command byte, which goes from 0x61 by 0x41 to 0x43
  (`Bytes`), and no handler runs. Afterwards what `mouse_handler` has of a packet, the
  mouse's byte in the output buffer and the bytes still in the mouse are together whole
  movements, each byte at its place modulo 3 (`Stream`), however scan codes come between.
- *The desktop.* A press is new when the handler sees the button go down and taken when
  `gui_update` acts. The invariant relates press to the two samples `clicked` and
  `was_clicked` at each place of `gui_update`: a click needs an edge between samples,
  and an edge needs a new press. The calendar's count and the text's end are inductive
  with the types.
- *The frames.* Every application's drawing begins with the desktop's 180 lines and ends
  with the taskbar's 20, which together put every pixel, so the painted screen does not
  depend on what it was painted over. The invariant says what of it the cursor has
  changed: pixels of the saved area only, whose values `cursor_buffer` holds; restoring
  them gives the frame back, at `old_mouse` and not where the mouse is by then.
- *The text screen.* `SettleInside` says that the end of `putc` brings back inside what is one
  place too far to the right or one line too low, but not both; each kind of character,
  and each turn of a tab's loop, starts inside and leaves no more than that.
  *The sheet*: the paper is what scrolled away and then the screen's rows. Storing a
  character, feeding a line and scrolling are each one operation on the paper (`PutIs`, `FeedIs`,
  `ScrollPaper`), so each kind of character is a step of `Terminal`. That the hardware's
  cursor is where the next character goes is quotient and remainder, first by the two bytes
  of its address, for which the screen must not be larger than they can say
  (`ScreenAssumption`), then by the screen's width.
  *The formats*: `Turns` unfolds a call by itself, character by character. `TextRead`,
  `LengthRead` and `LetterRead` say what the characters of a text, of a directive's length
  and its last one do to `vfprintf`'s state; `PartRead` puts them together for one part, and
  `PrintfRead` goes from part to part: what was said is what the parts so far mean, and the
  arguments left are those behind the ones their directives took.
  *The interruptions*: the invariant `Telling` says of each context that its frame is one
  of `Turns` of the call it is in, but for characters already written, and that what it wrote
  is what its earlier calls mean and the part of this one said so far. A step of one
  context keeps the other's, since `vfprintf` keeps nothing outside its frame.
- *The boot.* The four components run one after another over shared state. `BootStep` splits
  a step of the whole: each component's variables either take a step of that component
  or are left alone. So each component's invariant is proved of its own steps and carried to
  `BootSpec` by one lemma.
  *Boot sector*: where the disk is addressed rightly (`Sound`), memory holds the sectors of the
  runs before the one at hand and nothing from there on; after a packet that a BIOS
  shortened, which `shortened` remembers, a place holds its own sector or nothing. `failed`
  and DI count together. How many sectors the runs before have, `Size`, is a recursive
  function; `SetInduction` (below) gives its equation.
  *A20*: until a key is typed, `al` and the output buffer hold what the step at hand is waiting
  for, and `port` is its own. *The entry*: the pointer `entry.asm` saved still leads to
  0x20000 and what lies there is the entry until `FAT_Initialize` runs.
  *The disk*: what the BIOS says of the drive is unpacked by quotient and remainder of 256
  and 64; two lemmas on these, then head and sector by their ranges and the cylinder by the
  bound on addresses. *The map*: when the loop looks at a block, all the blocks before it
  are stored.
  *The kernel*: of the segment at hand either nothing is loaded yet or all of it (`Ahead`,
  `Done`), since one that `memcpy` can move takes one turn; segments done are whole and stay
  so because segments lie apart. That what was loaded is the file's own pages needs that
  `fd` is neither `lost` nor `stale`, which on a disk that reads it never is.
- *The FAT driver.* `FatInv` adds to the types that the layout is the one of the mounted volume,
  that a call's handle and stage fit each other, that positions are within sizes, and which
  handles are in use; it is inductive for every volume, failing or not, and gives
  `HandlesBalanced`. `OwnSectors` is for orderly volumes that read: the cached part of the
  table is what its base says (`CacheTrue`), and each handle walks its own chain (`Walks`): its
  cluster is the one its position is in, its buffer that cluster's sector at hand. The seam
  between two clusters is where a step looks the next one up in the cached sectors: the three
  entry sizes are handled by one lemma each, the FAT12 one with its halves of a byte.
  A chain's length is the number of links until its end. That a position inside a file has a
  cluster comes from the file having enough of them.
  *The store*: `Tracks` says where searches are. The root is searched no further than the
  first name's place, so it never leaves its first sector. Of a subdirectory, no entry before
  the position has the name asked for; at its chain's end, where `FAT_Read` sets its size to
  the position, that is every entry, so what is refused is not stored. What is held is the
  file that was asked for. A piece's place in its file is the position it was read at,
  because the sectors of a chain differ: a chain that met itself would have no end
  (`ClustersDiffer`). Opening, refusing, closing and each piece that is read are then steps of
  `FileStore`, all other steps quiet ones.
- *Induction.* The library's induction theorems take an operator as parameter, which the provers
  here cannot instantiate. `SetInduction` says it of sets instead: a set of numbers that holds
  the first, and with each the next, holds all. With it, and with the library's theorem that a
  function defined by recursion on a well-founded order satisfies its equation, the recursive
  functions of the models, `Size` of `StageOne`, `Links` of `Fat`, and `Turns` and the library's
  `FlattenSeq` in `ConsoleProofs`, can be reasoned about.
- *Snake.* Four invariants. Time: once the snake has moved, `since` is what has elapsed since
  then, through the counter's wrap (`Elapsed`), so a move comes when it is `PAUSE` and not
  before. Turns: where the second segment lies is where the last move came from; a direction
  other than that move's took a turn, and its opposite took two. The body: neighbouring segments
  are adjacent and all but the last differ, which a move keeps because it ends the game when
  the head meets the body; the last is new or on the one before. The food: a free place is off
  the body, and the snake leaves no cell but by its tail and enters the food's only to eat it;
  of more places than segments at least one is free, a pigeonhole argument, so a search in vain
  takes a snake of that length.

Only model-checked: all liveness (fairness and ENABLED are beyond the prover); that the digits
of a number are the number's (above).

## 6. Seen in the code, without a run of its own

- `irq.c:91`: the timer's and the keyboard's lines are opened before any driver has
  registered, against `i8259.c:106`, "mask all interrupts until they are enabled by the
  device driver".
- `mouse.c:83`: with a key pressed during `mouse_install`, the key is taken for the
  acknowledgement, the late 0xFA becomes the first byte of a packet, and every later
  packet is shifted. `MovementsAligned` is therefore claimed for a user who waits.
- `ps2.c:22`, `ps2.c:12`: a wait that gives up does not stop the install. An answer that comes
  after `ps2_get_command_byte` has given up, which goes on with 0, is read for the next one's,
  or reaches a handler as a key or a movement. If 0x60 was sent but the byte behind it was
  not taken (`ps2.c:78`), the next data byte may become the command byte: 0xF4 has both
  ports' clocks off. `ControllerReady` is therefore claimed for a controller in time.
- `fat.c:500`: `FAT_OpenEntry` may return NULL in the middle of a path, for want of a
  handle or because of a read error, and the search goes on through it. `Fat` stops
  there (`wild`).
- `fat.c:357`, `fat.c:271`: two failed reads go unnoticed. The sector after the last byte wanted
  is fetched early, and the next call starts with a stale one; of the table, the cache's
  position moves all the same, and the next clusters are looked up in other sectors' entries.
  The kernel may then be entered with a stale sector or another file's clusters in it,
  which `KernelWhole` allows on a disk that does not read, against `main.c:39`.
- `elf.c:16`: the result of `FAT_Open` is not looked at; when the kernel is not on the volume,
  or cannot be searched for, a NULL is read through. `Ended` counts that as an end.
- `boot.asm:336`: a failed reset shows "Read failed!" after the first failed read, without
  the two more tries.
- `fat.c:349`: FAT32's end marks are not recognised; file sizes end reads in time, but a
  search for a missing name leaves its directory. The FAT32 volume is asked for names
  that exist.
- `fat.c:493`: for want of parentheses the test for a directory is never true, against
  the comment above it: a path that goes on after a file's name searches the file.
- `fat.c:481`: the last name of a path is terminated one place too late, so one character
  of a longer name before it, or of the stack, may follow it: after `boot`, the file `efi`
  is looked for as `EFIT`. A name whose twelfth character is a dot loses its extension,
  and a longer name is found by its first eight characters.
- `fat.c:133`: a FAT32 volume of fewer than 0xFF5 clusters is taken for a FAT12.
- `fat.c:331`: the root directory of a FAT32 volume is read on by counting sectors, not by
  its chain.
- `boot.asm:281`: the packet's block count is not written again for a retry, and a BIOS
  may have lowered it to the blocks it read. Stage 2 then has a gap.
- `boot.asm:80`: the stack lies below 0x7C00 and stage 2 is read up from 0x500: one of more
  than 59 sectors is read over the stack. `Stage2Assumption` excludes it.
- `entry.asm:85`: a key typed while A20 is opened may be taken for the output port, and
  written back; an even scan code resets the machine.
- `boot.asm:92`: the boot sector selects the graphics mode 0x13, so the text that stage 2
  and the kernel store at 0xB8000 is not displayed; stage 2 sends it to port 0xE9 too.
  `Console` shows what the drivers store, as in a text mode.
- `stdio.c:88`, `vga_text.c:87`: a tab's loop reads `g_ScreenX` anew while its spaces move
  it: from columns 0, 1, 2 and 3 of four it writes 2, 2, 1 and 3 spaces.
- `debug.c:26`: a handler that logs in the middle of the main program's line resets the
  line's colour for what follows.
- `boot.asm:237`: without the BIOS's extensions, sectors from 65536 on are read from
  65536 earlier, and by the geometry that `mkfs.fat` wrote into the volume, which need not
  be the drive's; stage 2 asks the BIOS.
- `elf.c:33`: the header is checked and the result dropped.
- `memdetect.c:19`: a BIOS that ends its map with a continuation of 0 loses its last
  block; `RegionsAreTheFirst` says that no more is lost.
- `gui.c:258`: every application tests the close button at 280,32, wherever
  `gui_draw_window` has drawn it (`gui.c:90`): the clock's is drawn at 268,32, the
  calendar's at 278,22, the notepad's and the monitor's at 288,22, the game's at 298,12.
  Only the settings', at 278,32, overlaps the place that is tested.
- `mouse.c:21`: from x = 318 or y = 198 on no cursor is drawn, against `gui.c:721`, "so it's
  always visible".
- `gui.c:550`: the game's area has 14 rows and the snake's grid 15; its last row and the
  score are drawn below.
- `gui.c:414`: the notepad's caret assumes lines of 33 characters, into which the text is
  not broken, and does not follow line feeds.
- `gui.c:659`: `gui_init` leaves `cursor_buffer` zero, so the first frame begins by putting
  nine black pixels in the middle of the screen; its drawing covers them.
- `gui.c:688`: the clock and the uptime count frames, not the timer's ticks.
- `gui.c:485`: the snake moves every 11 ticks (`MovesInTime`), the comment above says 10. The
  first move of a game, for which `snake_last_move` is the last game's, may come at once.
- `gui.c:473`: a turn is judged by the direction set, not by the last move's: two keys between two
  moves turn the snake back on its neck, and the game is over.
- `gui.c:534`: when no tried place is free, the food may lie under the snake.

## 7. Plan

The order was: the ring and its queue; interrupt delivery and start-up; the PS/2
installation; the FAT driver and its store; the disk and the boot sector; loading the
kernel; the desktop and the snake; text output; then the boot as one composition, with
A20 and the drive's geometry; the FAT driver's own initialization and names; the screen.
All of it is modelled. What is left:

1. Model: the assumptions `KernelLoad` makes of `FAT_Read` as a refinement of `Fat`; `Snake`
   inside `Desktop`, so that the games drawn are those played.
2. Prove: `DISK_ReadSectors`, `ELF_Read` and the FAT driver as one stack, once the model has
   that refinement: today each theorem is about its own part and the parts' assumptions about each
   other are matched by hand. Every safety property that a run checks has a theorem.
