-------------------------------- MODULE Boot --------------------------------
(***************************************************************************)
(* From _start to the shell: the multiboot tags and the order of           *)
(* _multiboot2_main (boot/main.c), the initcalls in link order, init_x86   *)
(* with the calibration of the delay loop (boot/initx86.c), and            *)
(* kernel_main, which scans the PCI buses and runs the IDE driver.         *)
(* Interrupts come in between wherever the code lets them.                 *)
(***************************************************************************)
EXTENDS Interrupts, Ide

CONSTANTS
  LongMod,     \* 2^32: loops_per_jiffy is an unsigned long
  MinLoops     \* 1 << 12: the number of loops the calibration starts from

(* A machine also has the multiboot tags, as records of type and size, the *)
(* word at 0x8000, an ACPI table or not, and the number of turns of the    *)
(* delay loop that its CPU makes in a tick.  The calibration tries eight   *)
(* bits below the highest one, and starts from a number that has them.     *)
ASSUME BootAssumption ==
  /\ LongMod \in Nat /\ LongMod % 2 = 0
  /\ MinLoops \in 1..LongMod \div 2 - 1 /\ MinLoops % 256 = 0
  /\ \A i \in DOMAIN Machines : LET m == Machines[i] IN
       /\ m.speed \in Nat \ {0} /\ m.word8000 \in Nat
       /\ m.rsdp \in {"none", "ACPI_1", "ACPI_2"}
       /\ \A j \in DOMAIN m.tags : m.tags[j].size \in Nat \ {0}

VARIABLES
  stage,             \* what is to be done next
  ready,             \* what has been set up
  tag,               \* the offset of the tag at hand
  found,             \* the tags that were found
  console,           \* "none", "vga", "fb" or "null"
  loops_per_jiffy, loopbit, lps_precision, ticks,   \* the calibration
  left               \* ticks to come before the delay ends

calVars  == <<loops_per_jiffy, loopbit, lps_precision, ticks, left>>
bootVars == <<stage, ready, tag, found, console, calVars>>
vars == <<bootVars, irqVars, pciVars, ideVars>>

Init ==
  /\ PciInit /\ IdeInit /\ IrqInit
  /\ stage = "_start"
  /\ ready = {} /\ tag = 8 /\ found = {} /\ console = "none"
  /\ loops_per_jiffy = 0 /\ loopbit = 0 /\ lps_precision = 8 /\ ticks = 0 /\ left = 0

-----------------------------------------------------------------------------
(* The boot loader lays the tags out at multiples of 8 (external).         *)
Aligned(n) == 8 * ((n + 7) \div 8)
TagAt(i) == FoldLeft(LAMBDA off, t : Aligned(off + t.size), 8, SubSeq(machine.tags, 1, i - 1))
TotalSize == TagAt(Len(machine.tags) + 1)

Goto(next) == stage' = next

(* _start halts unless the word at 0x8000, which it compares instead of    *)
(* the number 32768, is larger than the multiboot structure; the structure *)
(* is then copied.                                                         *)
Start ==
  /\ stage = "_start"
  /\ Goto(IF machine.word8000 > TotalSize THEN "tags" ELSE "halted")
  /\ UNCHANGED <<ready, tag, found, console, calVars, irqVars, pciVars, ideVars>>

(* The loop over the tags of _multiboot2_main; the types that are not      *)
(* looked for are skipped.                                                 *)
ReadTag ==
  /\ stage = "tags" /\ tag < TotalSize
  /\ \E i \in DOMAIN machine.tags :
       /\ TagAt(i) = tag
       /\ found' = found \cup {machine.tags[i].type}
       /\ tag' = Aligned(tag + machine.tags[i].size)
  /\ UNCHANGED <<stage, ready, console, calVars, irqVars, pciVars, ideVars>>

(* Without the memory tags _multiboot2_main returns, to the hlt of boot.S. *)
TagsRead ==
  /\ stage = "tags" /\ tag >= TotalSize
  /\ Goto(IF {"meminfo", "mmap"} \subseteq found THEN "regions" ELSE "halted")
  /\ UNCHANGED <<ready, tag, found, console, calVars, irqVars, pciVars, ideVars>>

-----------------------------------------------------------------------------
(* The steps in their order: the memory map and the regions, the initcalls *)
(* of a level in the order of the object files, the calls of init_x86, of  *)
(* _multiboot2_main and of kernel_main.                                    *)
Order ==
  <<"regions", "paging_earlyinit", "__init_font", "__serial_debug_init", "kb_early_init",
    "malloc_init", "__init_pc_serial_debug", "init_gdt", "pic_init", "irq_init",
    "acpi_early_init", "timer_init", "calibrate", "init_at_keyboard", "mmio_init", "console",
    "acpi_init", "scheduler_initialize", "idle", "pci_init", "devices", "kash",
    "scheduler_exit", "done">>
After(s) == Order[1 + CHOOSE i \in DOMAIN Order : Order[i] = s]

(* What a step needs the others to have done, by the calls it makes.       *)
Needs(s) ==
  CASE s = "paging_earlyinit"       -> {"regions"}
    [] s = "malloc_init"            -> {"paging_earlyinit"}
    [] s = "__init_pc_serial_debug" -> {"__serial_debug_init", "malloc_init"}
    [] s = "irq_init"               -> {"init_gdt"}
    [] s = "acpi_early_init"        -> {"paging_earlyinit"}
    [] s = "calibrate"              -> {"irq_init", "pic_init", "timer_init"}
    [] s = "init_at_keyboard"       -> {"malloc_init"}
    [] s = "console"                -> {"mmio_init", "malloc_init", "__init_font"}
    [] s = "acpi_init"              -> {"console", "acpi_early_init"}
    [] s = "scheduler_initialize"   -> {"malloc_init"}
    [] s = "idle"                   -> {"scheduler_initialize"}
    [] s = "pci_init"               -> {"malloc_init", "console"}
    [] s = "devices"                -> {"pci_init", "scheduler_initialize", "idle", "timer_init", "irq_init"}
    [] s = "kash"                   -> {"scheduler_initialize", "kb_early_init", "init_at_keyboard"}
    [] s = "scheduler_exit"         -> {"scheduler_initialize", "idle"}
    [] OTHER                        -> {}

Plain == {Order[i] : i \in DOMAIN Order} \
           {"pic_init", "irq_init", "calibrate", "console", "acpi_init", "pci_init", "devices", "done"}

Done(s) ==
  /\ stage = s /\ Goto(After(s))
  /\ ready' = ready \cup {s}

SetUp ==
  /\ stage \in Plain /\ Done(stage)
  /\ UNCHANGED <<tag, found, console, calVars, irqVars, pciVars, ideVars>>

SetUpPic ==
  /\ Done("pic_init") /\ pic_init(32, 40)
  /\ UNCHANGED <<tag, found, console, calVars, regs, intr, gates, irqfuncs, jiffies, handled, pciVars, ideVars>>

SetUpIrq ==
  /\ Done("irq_init") /\ irq_init
  /\ UNCHANGED <<tag, found, console, calVars, regs, intr, pic, irr, isr, jiffies, handled, pciVars, ideVars>>
-----------------------------------------------------------------------------
(* The calibration of init_x86.  It runs with the timer interrupt only.    *)
StartCalibration ==
  /\ stage = "calibrate" /\ Goto("double")
  /\ pic' = [pic EXCEPT !.mask = 1..15] /\ intr' = TRUE
  /\ loops_per_jiffy' = MinLoops
  /\ UNCHANGED <<ready, tag, found, console, loopbit, lps_precision, ticks, left>>
  /\ UNCHANGED <<regs, gates, irqfuncs, irr, isr, jiffies, handled, pciVars, ideVars>>

calibrating(next) ==
  /\ Goto(next)
  /\ UNCHANGED <<ready, tag, found, console, irqVars, pciVars, ideVars>>

(* The first loop doubles the number until a delay is longer than a tick.  *)
Double ==
  /\ stage = "double"
  /\ loops_per_jiffy' = (2 * loops_per_jiffy) % LongMod
  /\ ticks' = jiffies
  /\ calibrating(IF loops_per_jiffy' = 0 THEN "halve" ELSE "double_sync")
  /\ UNCHANGED <<loopbit, lps_precision, left>>

(* Both loops wait for the start of a tick ...                             *)
Sync ==
  /\ stage \in {"double_sync", "fine_sync"} /\ jiffies # ticks
  /\ ticks' = jiffies
  /\ calibrating(IF stage = "double_sync" THEN "double_delay" ELSE "fine_delay")
  /\ \/ left' = loops_per_jiffy \div machine.speed
     \/ loops_per_jiffy % machine.speed = 0 /\ left' = loops_per_jiffy \div machine.speed - 1
  /\ UNCHANGED <<loops_per_jiffy, loopbit, lps_precision>>

(* ... and see whether another one comes during the delay.                 *)
DoubleDelay ==
  /\ stage = "double_delay" /\ left = 0 /\ 0 \notin irr
  /\ calibrating(IF jiffies # ticks THEN "halve" ELSE "double")
  /\ UNCHANGED calVars

Halve ==
  /\ stage = "halve"
  /\ loops_per_jiffy' = loops_per_jiffy \div 2
  /\ loopbit' = loops_per_jiffy'
  /\ calibrating("fine")
  /\ UNCHANGED <<lps_precision, ticks, left>>

(* The second loop tries the next eight bits.                              *)
Fine ==
  /\ stage = "fine"
  /\ lps_precision' = lps_precision - 1
  /\ loopbit' = IF lps_precision = 0 THEN loopbit ELSE loopbit \div 2
  /\ IF lps_precision = 0 \/ loopbit' = 0
     THEN calibrating("calibrated") /\ UNCHANGED <<loops_per_jiffy, ticks>>
     ELSE /\ calibrating("fine_sync")
          /\ loops_per_jiffy' = loops_per_jiffy + loopbit'
          /\ ticks' = jiffies
  /\ UNCHANGED left

(* A bug in the second loop: a bit that makes the delay too long stays.    *)
FineKeepsBit ==
  /\ stage = "fine_delay" /\ left = 0 /\ 0 \notin irr
  /\ calibrating("fine")
  /\ UNCHANGED calVars

FineDelay ==
  /\ stage = "fine_delay" /\ left = 0 /\ 0 \notin irr
  /\ loops_per_jiffy' = IF jiffies # ticks THEN loops_per_jiffy - loopbit ELSE loops_per_jiffy
  /\ calibrating("fine")
  /\ UNCHANGED <<loopbit, lps_precision, ticks, left>>

(* A bug in init_x86: interrupts stay on.                                  *)
EndNoCli ==
  /\ stage = "calibrated" /\ Goto(After("calibrate"))
  /\ ready' = ready \cup {"calibrate"}
  /\ pic' = [pic EXCEPT !.mask = 2..15]
  /\ UNCHANGED <<tag, found, console, calVars>>
  /\ UNCHANGED <<regs, intr, gates, irqfuncs, irr, isr, jiffies, handled, pciVars, ideVars>>

(* Interrupts off again, and the keyboard line unmasked for later.         *)
EndCalibration ==
  /\ stage = "calibrated" /\ Goto(After("calibrate"))
  /\ ready' = ready \cup {"calibrate"}
  /\ pic' = [pic EXCEPT !.mask = 2..15] /\ intr' = FALSE
  /\ UNCHANGED <<tag, found, console, calVars>>
  /\ UNCHANGED <<regs, gates, irqfuncs, irr, isr, jiffies, handled, pciVars, ideVars>>

Calibration ==
  \/ StartCalibration \/ Double \/ Sync \/ DoubleDelay
  \/ Halve \/ Fine \/ FineDelay \/ EndCalibration

-----------------------------------------------------------------------------
(* The console that fits the framebuffer tag, and sti.                     *)
SetUpConsole ==
  /\ Done("console")
  /\ console' = IF "text_framebuffer" \in found THEN "vga"
                ELSE IF "framebuffer" \in found THEN "fb" ELSE "null"
  /\ intr' = TRUE
  /\ UNCHANGED <<tag, found, calVars, regs, gates, irqfuncs, pic, irr, isr, jiffies, handled, pciVars, ideVars>>

(* acpi_init reads the table that acpi_early_init has found: the null      *)
(* pointer, which is not mapped, if there is none.                         *)
acpi_init ==
  /\ IF machine.rsdp = "none"
     THEN stage = "acpi_init" /\ Goto("lost") /\ PageFault /\ UNCHANGED ready
     ELSE Done("acpi_init") /\ UNCHANGED irqVars
  /\ UNCHANGED <<tag, found, console, calVars, pciVars, ideVars>>

(* pci_init, and the only driver among the devices initcalls.              *)
Scan ==
  /\ stage = "pci_init"
  /\ IF scan = "done" THEN Done("pci_init") /\ UNCHANGED pciVars
     ELSE PciNext /\ UNCHANGED <<stage, ready>>
  /\ UNCHANGED <<tag, found, console, calVars, irqVars, ideVars>>

Devices ==
  /\ stage = "devices"
  /\ IF detect = "done" THEN Done("devices") /\ UNCHANGED ideVars
     ELSE Driver /\ UNCHANGED <<stage, ready>>
  /\ UNCHANGED <<tag, found, console, calVars, irqVars, pciVars>>

BootStep ==
  \/ Start \/ ReadTag \/ TagsRead \/ SetUp \/ SetUpPic \/ SetUpIrq \/ Calibration
  \/ SetUpConsole \/ acpi_init \/ Scan \/ Devices

(* The timer (external) ticks at its own pace: not between the tick that   *)
(* starts a delay and the delay, and in the delay as often as it is long.  *)
Tick ==
  /\ Raise(0)
  /\ ~(stage \in {"double_sync", "fine_sync"} /\ jiffies # ticks)
  /\ IF stage \in {"double_delay", "fine_delay"} THEN left > 0 /\ left' = left - 1 ELSE UNCHANGED left
  /\ UNCHANGED <<stage, ready, tag, found, console, loops_per_jiffy, loopbit, lps_precision, ticks>>

Timer == Deliver(0) /\ UNCHANGED <<bootVars, pciVars, ideVars>>

Others ==
  /\ \/ \E i \in IRQs \ {0} : Raise(i) \/ Deliver(i)
     \/ Nmi
     \/ stage \notin {"double_sync", "double_delay", "fine_sync", "fine_delay"} /\ Spurious
  /\ UNCHANGED bootVars

Disturb ==
  \/ Tick /\ UNCHANGED <<pciVars, ideVars>>
  \/ Timer
  \/ Others /\ UNCHANGED <<pciVars, ideVars>>

DrivesWork == Drives /\ UNCHANGED <<bootVars, irqVars, pciVars>>

Running == stage \notin {"halted", "lost"}
Next == Running /\ (BootStep \/ Disturb \/ DrivesWork)

(* The CPU executes instructions, the timer ticks, its interrupt is taken  *)
(* when it can be, and drives answer.                                      *)
Fairness ==
  /\ WF_vars(Running /\ BootStep)
  /\ WF_vars(Running /\ Tick /\ UNCHANGED <<pciVars, ideVars>>)
  /\ WF_vars(Running /\ Timer)
  /\ WF_vars(Running /\ DrivesWork)

Spec == Init /\ [][Next]_vars /\ Fairness

-----------------------------------------------------------------------------
(* What the handler of a line relies on.                                   *)
HandlerNeeds(i) ==
  {"init_gdt", "pic_init", "irq_init"} \cup
    CASE i = 0 -> {"timer_init"}
      [] i = 1 -> {"kb_early_init", "malloc_init", "init_at_keyboard"}
      [] i = 4 -> {"__init_pc_serial_debug"}
      [] OTHER -> {}

(* Nothing is used before it is set up: not by the next step of the boot   *)
(* thread, and not by the handler of an interrupt that can come now.  The  *)
(* timer handler wakes the timer queue from the calibration on, before     *)
(* scheduler_initialize: the zeros of .bss make that an empty queue.       *)
ReadyWhenUsed ==
  /\ stage \in {Order[i] : i \in DOMAIN Order} => Needs(stage) \subseteq ready
  /\ \A i \in IRQs :
       Deliverable(i) => HandlerNeeds(i) \subseteq ready /\ Vector(i) \in gates

(* The calibration finds the speed of the CPU, to one part in 256 below    *)
(* it, as long as it is at least the number it starts from and fits.       *)
Calibrated ==
  ("calibrate" \in ready /\ machine.speed \in MinLoops..LongMod \div 2 - 1) =>
    /\ loops_per_jiffy <= machine.speed
    /\ 256 * (machine.speed - loops_per_jiffy) <= loops_per_jiffy

(* A machine that has what the kernel relies on is booted to the end,      *)
(* whatever interrupts come in between: all tags are found, the            *)
(* calibration ends, every bus is scanned and every drive answers.         *)
Complete ==
  /\ machine.word8000 > TotalSize
  /\ {"meminfo", "mmap"} \subseteq {machine.tags[i].type : i \in DOMAIN machine.tags}
  /\ machine.rsdp # "none"

BootEnds == Complete ~> (stage = "done")

=============================================================================
