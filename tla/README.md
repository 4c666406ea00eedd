# ikaros: TLA+ models and proofs

ikaros is a small 32-bit x86 kernel: it boots from multiboot2, sets up a page
allocator and a heap, runs cooperative threads on one CPU, and echoes what is
typed on the keyboard to a text console. This directory holds TLA+ models of
its core, TLC configurations that check them on small instances, and TLAPS
proofs of the results that matter most.

## 1. Inventory

| Part | State | Operations | Interacts with |
|---|---|---|---|
| Task list (`scheduler.c`) | `tasks`, `tasks_tail`, `task_t.next` | `tasks_insert`, `tasks_remove` | walked by `scheduler_next_running_task` |
| Scheduler (`scheduler.c`, `task.c`, `task_switch.S`) | `running_task`, `task_t.state`, saved registers | create, exit, yield, switch | all threads; interrupts arrive during all of it |
| Wait queues (`wait.c`, `wait.h`, `spinlock.h`) | list head and lock, entries on stacks | prepare, test, yield, finish; wake-up | linked by threads, unlinked by handlers |
| Sleep and timer (`scheduler.c`, `timer.c`) | `jiffies`, `timer_queue` | `scheduler_sleep`, `timer_handler` | IRQ 0 wakes `timer_queue` |
| Keyboard input (`keyboard.c`) | key ring, modifiers, `key_wait_queue` | `kb_getkey`, `kb_getch`, `__kb_emit_keycode` | IRQ 1 wakes `key_wait_queue`; shell thread reads |
| AT keyboard decoder (`at_keyboard.c`) | byte buffer and index | `keyboard_handler`, `kb_add_scancode_seq` | feeds `__kb_emit_keycode` |
| Page allocator (`memory_map.c`, `memory_region.*`, `boot/main.c`) | memory map, region list, bitmap | add region, choose region, reserve the kernel, alloc, dealloc | used by heap and paging |
| Heap (`libc/stdlib/malloc.c`) | break, mapped end, free list in headers | `malloc`, `free`, `heap_grow` | takes pages from the page allocator |
| Console (`console.c`) | cell buffer, cursor, colours, escape buffer | `__console_putch` and wrappers | drawn by a back end |
| Paging, MMIO (`paging.c`, `memory_manager.h`, `mmio.c`) | page tables, MMIO pointer | map page, map MMIO | page allocator |
| Console back ends (`fbconsole.c`, `vga_console.c`, `null_console.c`) | pixels, colour pairs, cached cursor | redraw | called at the end of `console_putch` and `console_write` |
| Boot, initcalls, calibration (`boot.S`, `boot/main.c`, `initx86.c`, `initcall.c`, `kernel.c`) | what is set up, `loops_per_jiffy` | read tags, initcalls by level, `init_x86`, `kernel_main` | timer interrupt during the calibration |
| Interrupt dispatch (`irq.c`, `pic.c`) | gates, handlers, masks, lines in service | wrappers, `irqfunc`, `pic_eoi` | interrupts every thread |
| PCI (`pci.c`) | list of devices with their functions | `pci_scan` and its recursion, `pci_init` | configuration registers |
| IDE (`pci_ide.c`) | list of controllers | identify drives, polling | PCI lists, sleeps, the drives |
| Formatted output (`libc/stdio/snprintf.c`) | locals of `dopr`, the buffer | `printf`, `snprintf`, `sprintf`, `asprintf` | console |
| ACPI, serial, Bochs VGA, string functions | none that other parts depend on | output, table lookup | |

What is hard here: threads are cooperative, but interrupt handlers run between
any two of their instructions, share queues and locks with them, and unlink
entries that live on thread stacks. A wake-up must not be lost between the test
of a condition and the switch; a lock must never be held when a handler wants
it; a sleeper must never run unwoken. During boot the timer already ticks while
half of the kernel is not there, and the drivers poll devices that answer when
they like. The rest is bookkeeping at its limits: rings, bitmaps, headers, page
boundaries, output buffers, nested bridges, counters that wrap around.
`PROJECT.json` lists each hazard at its line with the properties that cover it,
and notes which part of it they leave out.

## 2. Modules

```
TaskRing  <-- Scheduler  <-- Sleep                 (EXTENDS)
                         <-- Keyboard
Kernel                       both, by INSTANCE, on one Scheduler
Console  <-- Display
Pci  <-- Ide  <-- Boot,  Interrupts  <-- Boot
Scheduler  implements  Threads;  Kernel  implements  Scheduler
PageAllocator  implements  PagePool
Console  implements  Terminal
Printf  agrees with  C99Format
Scancodes, Heap, AddressSpace                      stand alone
MC*                                                constants for TLC
*Proofs                                            theorems
```

**TaskRing** has the list as `next`, `tasks`, `tasks_tail`; `live` is the set of
linked tasks, which the code does not keep. `Prev` is where the search loop of
`tasks_remove` stops. Each function is one step: no handler touches the list.

**Scheduler** adds threads, wait queues and the CPU. `pc[t]` says where thread
`t` is. A critical section is three steps (acquire, body, release), because an
interrupt may come before and after it; the loops of
`scheduler_next_running_task` and `wait_wake_up_interruptible` take one step per
turn. The entry a thread puts on a queue is named after the thread (`wnext[t]`),
since a thread is in at most one wait. `intr` is EFLAGS.IF, `eflags[t]` the copy
`task_switch` keeps; `task_inherit` copies it from the creator. The outcome of a
condition is left open here. `wait_remove_from_queue` is modelled with its
defect, a loop that never advances: `Finish` is enabled only if the entry is
first or the queue is empty. Only the boot thread creates threads and exits;
the loops of `kernel_idle` and `kash_main` never end.

**Threads** is what the scheduler promises: sets of sleepers, a wake-up that is
one step, a CPU that only awake threads get.

**Sleep** gives the condition of `timer_queue`: `timer_range_to_ms` with 64-bit
arithmetic on a counter that wraps at `JiffiesMod`. `elapsed` and `wrapped` are
history variables that measure the sleep independently of `jiffies`.

**Keyboard** gives the condition of `key_wait_queue`: the ring index differs
from the one read first. `stamp` and `since` number the events, so that a stale
key can be told from a new one. A key event is a whole scan code sequence; the
controller latches one interrupt for several events, and the handler drains it.
A character is abstracted to the table it comes from and the Caps Lock state.

**Kernel** takes Sleep and Keyboard as instances that share the threads, the ring
of tasks, both queues and the CPU: the boot thread sleeps, the shell reads keys,
the idle thread yields, and both interrupts come where they can. Each step is a
step of one instance that leaves the variables of the other alone.

**Scancodes** decodes one byte per step. `basemap_at2` is the table of the
source; `MCScancodes` has, independently, the codes an AT keyboard sends. A
keyboard uses one of the two sets, over a clean or a noisy line. Nothing in the
kernel selects set 2 yet.

**PageAllocator** runs the boot sequence of the allocator (add the entries of the
memory map, set up a region, reserve the kernel) and then allocates and frees.
An entry of the boot loader has 64-bit address and length, of which `main.c`
keeps the low 32 (`Truncated`): a region above 4 GB is taken for one below. The
bitmap is the set of offsets whose bit is 1. `Linked` allows further regions
behind the first, as the unit test has them. **PagePool** is its promise.

**AddressSpace** has physical pages as tables of entries, `cr3` and a TLB. All
stores go through virtual pages, as in the code: `Target(v)` is where the TLB
says `v` is. The TLB remembers every translation that was valid since it was
last flushed, the worst a real one may do, and unused memory holds entries that
look valid. `given` collects what the kernel relies on: the image, heap pages,
and for `mmio_map` the bytes of the device, computed from its address and size
and not from the loop. The framebuffer is mapped first, as `_multiboot2_main`
does, and may take several page tables (30.7 MB in the mode `boot.S` asks for);
other devices may follow. The allocator hands out the lowest free page.

**Heap** keeps the heap as bytes, since the defects of `malloc` are headers that
overlap. An access outside the mapped pages ends the run (`pc = "fault"`). Sizes
wrap around at `SizeMod`, when they are aligned and when the header is added;
the history variable `wrapped` remembers that one did.

**Console** keeps the cells, the cursor, the colours and the escape buffer;
`scrolled` remembers lines that left the screen. Neither array of the escape
sequence has a bound in the code: a sequence longer than the first runs into the
second, one longer than both, or a parameter longer than its array, into the
length, the buffer pointer and the operations behind them. `overrun` says that
this has happened; nothing is known of the console from there on and the model
stops. `atoi` wraps as an `int` does and takes any byte for a digit. **Terminal** is an endless roll
of paper to which characters are added at the end. **Display** adds the back
ends: a framebuffer as a function from addresses to pixels (tuples of bytes in
the layout the multiboot tag gives), or the cached and the hardware cursor of a
text screen. `console_putch` draws after each character, `console_write` after
the last one. `console_debug` draws what is already there and is left out.

**Printf** is `dopr` as the state machine it is, one step per turn of its loop;
the conversions are operators that give the characters to print, and
`dopr_outch` stores and counts them. A call goes on from the entry point
(`snprintf`, `sprintf`, `printf`, `asprintf`, which formats twice) to the
terminator. **C99Format** defines what the standard prescribes for a directive,
by the shape of the result. Widths, precisions and arguments wrap around at
`LongMod` (`int` and `long` are equally wide on i386), the length of the output
at `SizeMax`. `%f` is computed in exact multiples of `1/FScale`, without the
rounding errors of `double`; its fraction goes through LLONG, a `long` here, and
from ten digits on the product overflows: a negative digit then indexes what
lies in front of the digit string (`BeforeDigits`, any bytes). From `ModfMax` on
`my_modf` gives up and returns zero. A format is the bytes up to the NUL and
behind it: a trailing `%w` skips the NUL and the loop reads on. An argument
carries the conversion it is for: `va_arg` on an argument
of another type, or on none, is undefined, and such a call stops there.

**Pci** has the recursion of `pci_scan_bus` as a stack of frames (`frames`), one
step per function looked at. A 32-bit register is the tuple of its bytes. A
class name is the triple of codes it stands for. **Ide** is the loop of
`pci_ide_detect_devices`, one step per register access that matters; the drives
work on their own and finish at any time, so the sleeps of 1 ms promise
nothing. Both read the machine, one of the records in `Machines`.

**Interrupts** runs the wrappers of `irq.c` as programs for a small interpreter
of the instructions they use, on registers and a stack, because what matters is
exactly which words are where. The controllers have pending lines, masks and
lines in service; an interrupt is delivered by priority, spurious ones included.

**Boot** goes through `Order`, the steps between the multiboot tags and the shell
in the order of the code; for initcalls that is the order of the object files on
the linker's command line. `Needs` and `HandlerNeeds` say what a step or a
handler uses. The calibration is modelled loop by loop: a delay of `n` turns
lasts `n / speed` ticks, and if that is a whole number the last tick may come
just before or just after the end. Steps whose work is another module's
(paging, heap, scheduler) are one step here.

## 3. What TLC checks

| Run | Bounds | Shows |
|---|---|---|
| `scheduler` | boot, idle and 2 threads, 2 queues | the properties of section 4 and the refinement of Threads, also the inductive invariant itself |
| `sleep` | 3 threads, `jiffies` modulo 4, 0, 5 and 6 ms at 200 Hz | no early return unless `jiffies` wrapped, no expired sleeper off the CPU |
| `keyboard` | 3 threads, ring of 2, 3 events of all modifier keys and a letter | keys returned are new; nobody sleeps with a key unseen unless a whole ring of them came; modifiers do not stick |
| `kernel` | boot, idle and shell threads, 6 ms, no wrap-around, ring of 3, 2 events | steps are those of Scheduler; sleeps return; a waiting reader gets a key |
| `page_allocator` | 5 memory maps, one with addresses that are truncated, 2 regions, words of 2 bits, table of 3 entries | no page twice, none of the kernel's, failure only when full; bitmap and table not overrun |
| `kernel_reserved` | the same | expected to fail, see below |
| `scancodes` | both sets, all 85 keys, extended keys; prefixes in any order on a noisy line | one right key code per stroke, after any other stroke; the buffer is not overrun |
| `address_space` | tables of 9 entries, 4 sizes of memory, an image that ends inside or at the end of a page, a framebuffer of more than two tables, a small one, 2 more devices | every store to a table reaches it, mappings stay, heap pages are private, the directory is complete |
| `heap` | 4 calls of 16 or 56 bytes, or of a size that wraps around when it is aligned or when the header is added, 3 pages of 64 bytes | sound until a freed block is reused or a size wraps around |
| `console` | 2 by 2 cells of 2 by 2 pixels at 16 bits with a margin, a text screen in a memory 3 columns wide, none; one scroll, 2 colours at a time, arrays of 4 bytes for sequence and parameter, sequences of 4 bytes on a screen and of up to 9 without | until an escape sequence overwrites the fields behind its arrays: cursor in bounds, Terminal implemented, screen and hardware cursor show the buffer |
| `printf` | 8 sets of flags, 2 widths, 4 precisions, modifiers, 18 conversions on boundary values of 20 bits; sizes 1, 4, 16 and unlimited; alone and behind another directive; widths, fractions and lengths that overflow, `%w` at the end of a format | no byte outside the buffer, always terminated; output and length of C99 |
| `boot` | 8 machines: several drives of all kinds, nested bridges, hosts with several functions, no PCI, no ACPI, no memory map, a wrong word at 0x8000; 16-bit `loops_per_jiffy`; timer and keyboard lines | section 2's Boot, Pci, Ide and Interrupts together |

The bounds are the smallest at which every branch happens: two threads besides
boot and idle make queues of two entries (the first one and another); three
events overrun a ring of two; 6 ms are no multiple of a tick; a 56 byte block
can be split; two rows scroll; 15 pages of memory take the heap across the end
of a page table, 5 and 8 are too few for the tables; the speeds of the machines
lie below the first guess of the calibration, between, at a power of two, and
above what fits 16 bits. The one branch that is
never taken is `mm_map_page` allocating a table, which `KernelTablesFixed` shows
to be dead code after boot. `Heap`, `AddressSpace`, `Console`, `Printf` and `Boot`
are run without deadlock checking: a page fault, a panic, memory that is used
up, an overrun, the end of the call and the end of the boot stop them.

Fairness (`kernel`): the steps of handlers are weakly fair,
a CPU executes the handler it has entered. Threads and the delivery of
interrupts are strongly fair: interrupts disable thread steps again and again and
critical sections disable interrupts, but both leave the other time at 200
interrupts per second. Nothing is assumed of who types, and nothing of the
order in which threads run beyond what the ring does. Threads that sleep 0 ms in a
loop keep the CPU, as in the code, and are left out.

Fairness (`boot`): the boot thread, the timer, the delivery of its interrupt and
the drives go on, each weakly fair. Neither the keyboard nor spurious interrupts
nor NMIs have to come. A drive that never answers would hang the kernel, which
polls without a timeout.

### Disagreements found

One run expects a violation, of a statement of the repository:

* `kernel_reserved`: the page with the last bytes of the kernel image stays in
  the pool ("Mark used bits", `boot/main.c`; `paging.c` has the `+ 1` that is
  missing here). `paging_earlyinit` then takes it for the page directory.

Others are named in the properties that hold, as the cases they except:

* `OneCodePerStroke` excepts set 1 keys with the prefix E0: a lone E0 counts as
  a complete sequence, so cursor up is also keypad 8.
* `NoSleepOnKey` excepts a reader that missed a whole ring of keys: the index is
  back where it was, and the reader waits for another key.
* `SoundUntilReuse` and `FreeListExact` end with the first size that wraps around
  (a request near 4 GB is given a tiny block) and with the first reuse of a freed
  block: a block that fits and is first on the list is not unlinked, and the
  split of a block writes the remainder's header over the block behind it. No
  kernel code calls `free` today.
* `RemovalTerminates` is needed because the loop of `wait_remove_from_queue`
  never advances.
* `CursorInBounds` and `ImplementsTerminal` end where an escape sequence overwrites
  the fields behind its arrays, which `console.c` does not prevent.
* `ScreenShows`: glyphs are drawn one column to the right (`1 << (8 - j)`), the
  hardware cursor of a text screen is not set before the first move. The colours
  are those of the code: its masks keep the low bits of a part, so that at 16
  bits the dark shades come out brighter than the light ones, and the entry
  commented "Yellow" is white.
* `AgreesWithC99`: `C99Format!Differs` lists where `snprintf.c` departs from the
  standard; `%.2f` of 0.05 prints `0.50`, and from ten digits on a fraction can
  print bytes from in front of the digit string. `StaysInBuffer` holds for these
  too, but a NUL among those bytes, as one given to `%c`, ends the string early.
* `EveryFunctionOnce`: a host with several functions has buses 0 to 7 scanned,
  whichever it has, and again behind bridges, and so has a bus that two bridges
  lead to (`ScannedTwice`): its functions are listed twice; the programming interface is taken
  from the revision byte; some class names fall through to the next case. A
  bridge that the firmware has not configured (secondary bus 0) would be recursed
  into without end; `PciAssumption` has every bridge lead to a higher bus.
* `DrivesIdentified`: with default addresses nIEN goes to ports 0x3F8 and 0x378
  instead of the control registers; a packet drive that is slow gives a garbage
  model, as the driver does not poll for the second command.
* `ContextKept`: the wrapper of exceptions with an error code moves the frame and
  then restores `esp` from before the move; a handler that returns, as all do,
  returns to a wrong place. This happens on a machine without ACPI tables, where
  `acpi_init` follows a null pointer.
* `Calibrated`: a CPU slower than 2^12 turns per tick is overestimated, and one
  too fast for the width ends with 0.
* `BootEnds` supposes a word above the size of the multiboot structure at address
  0x8000: `boot.S` compares with that word and not with the number 32768.

Not in a run: `mmio.c` starts its window at 0xE0000000, where the file
`kernel_address_space` has the kernel stacks (which are on the heap), and
`boot/main.c` does not test what `mmio_map` returns. The sum `mmio_map` compares
with the limit of its window has 32 bits: near the end of the window the size of
a device of about 8 MB or more wraps it around, and the test passes. The
framebuffer is mapped first, at the start of the window, where only a size of
512 MB or more does so. `AddressAssumption` excludes these two.

## 4. What is proved

TLAPS proves the following for every value of the constants that satisfies the
assumptions named below. `PROJECT.json` lists every theorem with the property of
a run it states.

| Module | Theorems |
|---|---|
| `SchedulerProofs` | `RingCorrect`, `SchedInvariant`, `QueuesCorrect`, `WaitsCorrect`, `RemovalCorrect`, `LocksCorrect`, `YieldCorrect`, `SwitchesCorrect`, `Refinement` (Scheduler implements Threads) |
| `SleepProofs` | `SleepInvariant`, `NobodyOversleeps`, `SleepsLongEnough` |
| `KeyboardProofs` | `KeyboardInvariant`, `KeysAreFresh`, `NobodySleepsOnKey`, `ModifiersCorrect`; `DecoderCorrect`, `StrokesCorrect` (Scancodes) |
| `KernelProofs` | `KernelSchedules` (Kernel implements Scheduler), `KernelInvariant` |
| `MemoryProofs` | `PageInvariant`, `BitmapCorrect`, `KernelKept`, `PoolRefinement` (PageAllocator implements PagePool); `BreakStaysMapped`, `HeapSoundUntilReuse`, `FreeListHoldsFreed` (Heap) |
| `AddressSpaceProofs` | `AddressInvariant`, `StoresReach`, `MappingsCorrect`, `HeapCorrect`, `TablesCorrect` |
| `ConsoleProofs` | `ConsoleCorrect`, `WritesInBuffer`, `TerminalRefinement` (Console implements Terminal); `DisplayIsConsole`, `ScreenCorrect` (Display); `OutputInBuffer` (Printf) |
| `BootProofs` | `BootOrder`, `CalibrationCorrect` (Boot); `ScanCorrect` (Pci); `DrivesCorrect` (Ide) |

None of the properties is inductive alone; each proof strengthens them to an
invariant that is, checks one lemma per action, and derives the properties.

**Task ring.** That `next` forms *one* ring is stated without paths: a non-empty
set of live tasks that `next` does not leave is all of them. This form is
inductive and needs no induction over data.

**Scheduler.** `SchedInv` has eight parts. `ThreadsInv`: which locations go with
which state (only the running thread is outside `absent`, `switched`, `exited`;
a sleeper is inside a wait; saved flags have IF set; idle never waits).
`BootInv`: while the boot thread lives it is followed by the idle thread, so
`scheduler_exit` finds an awake successor. `LocksInv`: a lock is held exactly by
the thread in its critical section or the handler in its loop, with interrupts
off. `FirstInv`: between `wait_prepare_to_wait` and `wait_finish` the thread's
entry is first on its queue unless it was woken; this is why the loop that never
advances ends. `WalkInv`: the idle thread lies ahead of the cursor of the walk,
again stated with closed sets. `QueuesHoldSleepers`: entries reachable from the
head are those of the sleepers, acyclic, unshared. TLC checks `SchedInv` in the
run `scheduler`.

**Sleep and Keyboard.** Every step of theirs is a step of Scheduler or leaves its
variables alone (`SleepSchedules`, `KeyboardSchedules`), so `SchedInv` holds, and
`SleepInv` and `ReadInv` are proved on top of it. Their core is what a thread
that has decided to sleep knows (`AsleepInv`, `ReaderInv`): its condition is
still false, or the handler that changed it has not finished its wake-up. This
spans the steps between the test of the condition and `task_switch`, where the
interrupt can fall. A thread that has left the loop keeps its reason
(`LeavingInv`, `GotInv`). `ClockInv` relates `jiffies` to the ticks that passed;
`LatestInv` and `SinceInv` say that the index of the ring points to the newest
key. `ModifierInv` speaks about the events still in the controller: if the last
one of a modifier's keys is a press, the key is down.

**Kernel.** The instances share the scheduler's variables, so a step of one of
them is a step of Scheduler; everything proved of Scheduler follows for the
kernel with both clients and both interrupts.

**Page allocator.** `PageInv`: the bitmap has exactly the bits of the pages that
are reserved or owned (`BitsExact`), and regions are sorted and disjoint
(`RegionsSorted`), from which a page given back is found in the region it came
from. That the search finds the lowest clear bit rests on the well-foundedness
of the natural numbers.

**Address space.** `AddressInv` follows the boot. While the tables of boot.S are
in use (`OldInv`) their contents are known entry by entry and the TLB agrees
with them everywhere. After `mm_load_cr3` (`NewInv`) the directory shows itself
in the last slot, the tables are distinct pages (`TablesInv`), the TLB is right
about the window to them (`WindowInv`), and all that was given is mapped
(`Mapped`). The allocator hands out pages in ascending order, so that every page
taken lies below those that are left (`BelowFree`); hence no new heap page or
table is one in use. Heap and device window stay apart because the heap grows no
faster than the pages it takes (`PoolInv`), and memory ends before the window.
`JobInv` carries the turns of `mmio_map`'s loop, `PromisedPages` shows that they
cover every byte of the device.

**Scan codes.** The tests for a complete sequence are equalities, so `Unfinished`
has to say which beginnings are in the buffer. `StrokeInv` adds that on a clean
line the buffer holds what was read of the current stroke and nothing older.
`StrokesCorrect` supposes `ProperStrokes`: a stroke is one sequence of its set
with the key code of the tables. TLC evaluates this for the keyboards of
`MCScancodes`, whose codes are written down independently of the tables.

**Console.** `PaperInv`: the cells from the cursor on are blank. So a new line
starts empty, clearing the rest of a line is a new line on the paper, and making
room (`RoomMade`) moves lines from the screen to the history without changing the
paper. The cursor is in bounds for a screen of any size. Both hold until `overrun`.

**Display.** Every step of it is a step of Console (`DisplayIsConsole`), so
`PaperInv` holds. `Shown` adds that the framebuffer has exactly the pixels of the
text at any time and, between two writes, the colour that cell, font and pair
give to each: pixels at different places have different addresses (the pitch is
at least a line), so a cell drawn later does not disturb an earlier one, and the
recursion over the cells covers all of them. `CursorShown` says that the cached
cursor of the text screen is where the hardware's is once it has moved.

**Heap.** `BreakInv` keeps break and mapped end together through the loop of
`heap_grow`. `Sound(L, fl)` says that the bytes of the heap, read as headers,
form a list `fl` of `L` blocks; that these, the blocks in use and the block being
freed tile memory without overlap, each at a multiple of 16; and that the cursor
of `free` stands on one of the links. So writing a header changes the one link it
is meant to, merging takes out exactly the neighbour, and following at most
`MaxCalls` links from the head (`FreeBlocks`) finds the whole list. A word is
four bytes, so addresses and sizes have to fit 32 bits to be read back. `Sound`
ends with the first size that wraps around; `BreakInv` does not.

**Printf.** `Filled`: until `dopr` is done the buffer holds a byte at every place
below both the output's length and the buffer's size and none outside it, and,
unless a NUL was itself printed (`out.nul`), these are characters. `Ended`: then a
terminator follows. What has to be proved besides is that every conversion
yields a sequence of bytes, whatever width, precision and flags it is given and
wherever the arithmetic overflows, and that this holds for what is read behind
the end of a format as well.

**Boot.** `PlaceInv`: what is set up is a beginning of `Order`, and from their step
on gates, vectors and masks are what the later steps and handlers rely on.
`CalInv` follows the calibration: while doubling (`DoubleInv`) half of the count is
no more than the speed, while refining (`FineInv`) the speed lies between the
count without and with the bit at hand, and `TicksInv` says how many ticks a delay
of that many turns can have seen.

**PCI scan.** `Scanning(F, fs, rs, ds, P)` speaks about the buses `F` that are done,
the stack of frames `fs`, the roots left `rs`, the list `ds` and a bus `P` about to
be entered. The functions the scan has passed are those of the buses in `F` and,
in a frame, those before its device and function number. Every passed function
is in the list or in the frame's, and only passed ones are (`DevicesInv`); every
passed bridge's bus has been entered and every bus entered is in `Reached`
(`BusesInv`). `Reached` is the least set closed under bridges, so it is enough at
the end that `F` holds the host's buses, is closed and lies inside it. Unless
`ScannedTwice`, each bus entered stands for one root or one passed bridge, so none
is entered again (`OnceInv`). That a bridge leads to a higher bus is not used here:
it is what makes the scan end.

**IDE driver.** `IdeInv` says that it starts when the scan is done, so the list is
the one `ScanCorrect` is about. `IdeBusy`: of the places before `at` (`IdePlace`)
every controller has its four reports, all right and no more (`IdeReports`), and
its interrupts are off unless it has the default ports (`IdeSilent`); the drive at
hand stays selected and has only gone on from the command to its data or error
(`IdeTurn`), which is what the status test and the polling rely on.

**Recursive functions.** The provers have no induction over data, but the natural
numbers are well-founded: if a recursively defined function failed somewhere,
there would be a least place where it does (`LeastOf`), and its definition
carries the fact there from a smaller one. Existence and values of the recursive
functions of Display, Heap (`FreeBlocks`) and Printf (`Printed`, `Convert`,
`POW10`) are proved this way.

Assumptions, all evaluated by TLC on the runs: `NULL` is no task, boot and idle
threads are distinct tasks, there is a queue (`Scheduler`); the two queues are
distinct (`KernelAssumption`); the ring of keys has two slots, readers are
neither boot nor idle thread; no thread sleeps longer than `ElapsedMax` can
count; linked regions are sorted and behind the entries of the memory map
(`PageAssumption`); `AddressAssumption` puts the image into one table and into
memory, memory below the device window, and has a framebuffer smaller than the
address space from the start of the window on (512 MB) and further devices
smaller than two tables (8 MB); the scan code buffer holds the longest sequence (8); the screen has a cell and
the arrays of an escape sequence room for its first bytes (`ConsoleAssumption`);
a framebuffer is as wide as its columns of glyphs, a line of it no longer than
the pitch, and the parts of a pixel do not overlap (`DisplayAssumption`); heap
addresses have 32 bits, pages a multiple of 16 bytes and the heap ends below
`SizeMod` (`HeapAssumption`); the
calibration starts from a multiple of 256 that fits the counter, whose width is
even (`BootAssumption`); `jiffies` has more than one bit; the arguments of a call
have the types of `Passed`, its format is made of bytes and its size is no more
than `SizeMax` (`PrintfAssumption`); configuration registers have four bytes and a bridge
leads to a higher bus (`PciAssumption`); an IDE channel with a base address of its
own has its control register behind the next one (`IdeAssumption`).
`DispatchAssumption` has no parameter: it says that the
wrapper of each of the 16 lines hands its own number to `irqfunc`, and TLC
evaluates it in full by running the wrappers.

Only model-checked:

* Liveness (`SleepReturns`, `KeyDelivered`, `BootEnds`): fairness and ENABLED are
  beyond the prover.
* `AgreesWithC99`: what the standard prescribes is computed by `C99Format` for the
  calls of the run, with powers the provers do not know; for every call it would
  be a statement about the digits of every number.
* `ContextKept`: the wrappers are fixed programs without parameters, so running
  them, as TLC does for every line and exception, is the proof.

## 5. What is not modelled

Registers in `task_switch` other than IF (the wrappers' are in Interrupts), the
wording of messages, rounding errors of floating point, the contents of the GDT,
the search for the ACPI table; more than one CPU (the kernel starts only one);
nested interrupts (gates keep IF clear). `udelay`, the Bochs VGA code, the
palette branch of the framebuffer console and `pic_setirqmask` are never called.
Block devices, terminals and file systems are declarations only; the serial
debug output and the panic only write to a port or the screen; the string
functions are loops that a test reaches. What a console does once an escape
sequence has overwritten its fields is not modelled; out-of-memory in `scheduler_create_thread` is not. See
`PROJECT.json` for every component.

## 6. Plan

Done, in this order: TaskRing, Scheduler with Threads, their proofs, Sleep,
Keyboard, PageAllocator with PagePool, Scancodes, Heap, Console with Terminal,
AddressSpace, Printf with C99Format, Pci, Ide, Interrupts and Boot, Display,
Kernel.

Proved, in this order: TaskRing, Scheduler, PageAllocator, Sleep, Keyboard,
Kernel, AddressSpace, Console, Scancodes, Boot, Heap, Display, Printf, Pci, Ide.

Left: what section 4 lists as only model-checked.
