----------------------------- MODULE BootProofs -----------------------------
(***************************************************************************)
(* Proofs about the boot sequence, for every machine, every set of         *)
(* interrupt lines and every width of the counters: nothing is used before *)
(* it is set up, the delay loop is calibrated to one part in 256, the PCI  *)
(* scan lists every function that can be reached, and the IDE driver       *)
(* reports the drives there are.                                           *)
(***************************************************************************)
EXTENDS Boot, SequenceTheorems, FiniteSetTheorems, TLAPS

-----------------------------------------------------------------------------
(* The order of the boot sequence.  What is set up is always a beginning   *)
(* of Order, interrupts are on during the calibration and from the console *)
(* on, and by then the controllers and the gates are what they stay.       *)
UpTo(k) == {Order[i] : i \in 1..k}

Loading     == {"_start", "tags", "halted"}
Calibrating == {"double", "double_sync", "double_delay", "halve", "fine", "fine_sync",
                "fine_delay", "calibrated"}

(* Before the first step of Order, at a step of it, in the calibration     *)
(* (the 13th), and stuck in acpi_init (the 17th).                          *)
PlaceInv ==
  \/ stage \in Loading /\ ready = {} /\ ~intr
  \/ \E k \in 1..24 : /\ stage = Order[k] /\ ready = UpTo(k - 1)
                      /\ intr <=> k > 16
                      /\ k > 9 => pic.base = <<32, 40>>
                      /\ k > 10 => gates = 0..14 \cup {16, 128} \cup 32..47
                      /\ k > 13 => pic.mask = 2..15
  \/ /\ stage \in Calibrating /\ ready = UpTo(12) /\ intr
     /\ pic.base = <<32, 40>> /\ pic.mask = 1..15
     /\ gates = 0..14 \cup {16, 128} \cup 32..47
  \/ /\ stage = "lost" /\ ready = UpTo(16) /\ intr
     /\ pic.base = <<32, 40>> /\ pic.mask = 2..15
     /\ gates = 0..14 \cup {16, 128} \cup 32..47

PicType == pic \in [base : {<<8, 112>>, <<32, 40>>}, mask : SUBSET (0..15)]

StageInv == PlaceInv /\ PicType

(* The variables that StageInv is about, when a step leaves them alone.    *)
stageVars == <<stage, ready, intr, pic, gates>>

LEMMA OrderDistinct ==
  \A i, j \in 1..24 : Order[i] = Order[j] => i = j
<1> SUFFICES ASSUME NEW i \in 1..24, NEW j \in 1..24, Order[i] = Order[j] PROVE i = j
  OBVIOUS
<1>1. CASE i \in 1..6
  BY <1>1 DEF Order
<1>2. CASE i \in 7..12
  BY <1>2 DEF Order
<1>3. CASE i \in 13..18
  BY <1>3 DEF Order
<1>4. CASE i \in 19..24
  BY <1>4 DEF Order
<1> QED BY <1>1, <1>2, <1>3, <1>4

LEMMA OrderIs == DOMAIN Order = 1..24
BY DEF Order

LEMMA OrderApart ==
  \A i \in 1..24 : Order[i] \notin Loading \cup Calibrating \cup {"lost"}
<1> SUFFICES ASSUME NEW i \in 1..24
             PROVE  Order[i] \notin Loading \cup Calibrating \cup {"lost"}
  OBVIOUS
<1>1. CASE i \in 1..6
  BY <1>1 DEF Order, Loading, Calibrating
<1>2. CASE i \in 7..12
  BY <1>2 DEF Order, Loading, Calibrating
<1>3. CASE i \in 13..18
  BY <1>3 DEF Order, Loading, Calibrating
<1>4. CASE i \in 19..24
  BY <1>4 DEF Order, Loading, Calibrating
<1> QED BY <1>1, <1>2, <1>3, <1>4

LEMMA AfterIs ==
  ASSUME NEW k \in 1..23 PROVE After(Order[k]) = Order[k + 1]
<1> DEFINE c == CHOOSE i \in DOMAIN Order : Order[i] = Order[k]
<1>1. k \in DOMAIN Order
  BY OrderIs
<1>2. c \in DOMAIN Order /\ Order[c] = Order[k]
  BY <1>1
<1> HIDE DEF c
<1>3. c = k
  BY <1>2, OrderDistinct, OrderIs
<1>4. After(Order[k]) = Order[1 + c]
  BY DEF After, c
<1> QED BY <1>3, <1>4

LEMMA UpToNext ==
  ASSUME NEW k \in 1..23 PROVE UpTo(k - 1) \cup {Order[k]} = UpTo(k)
BY DEF UpTo

(* PlaceInv is about five variables only.                                  *)
LEMMA PlaceInvFrame ==
  ASSUME PlaceInv, UNCHANGED stageVars PROVE PlaceInv'
BY DEF PlaceInv, stageVars, UpTo

(* A step of Order: it is done, and the next one is to be done.            *)
LEMMA StepOfOrder ==
  ASSUME NEW k \in 1..23, stage = Order[k], ready = UpTo(k - 1), Done(stage)
  PROVE  stage' = Order[k + 1] /\ ready' = UpTo(k)
BY AfterIs, UpToNext DEF Done, Goto

(* What each step of Order, and each handler, relies on comes before it.   *)
LEMMA NeedsMet ==
  ASSUME NEW k \in 1..24 PROVE Needs(Order[k]) \subseteq UpTo(k - 1)
<1>1. CASE k \in 1..6
  BY <1>1 DEF Order, Needs, UpTo
<1>2. CASE k \in 7..12
  BY <1>2 DEF Order, Needs, UpTo
<1>3. CASE k \in 13..18
  BY <1>3 DEF Order, Needs, UpTo
<1>4. CASE k \in 19..24
  BY <1>4 DEF Order, Needs, UpTo
<1> QED BY <1>1, <1>2, <1>3, <1>4

LEMMA HandlersReady ==
  HandlerNeeds(0) \subseteq UpTo(12) /\ HandlerNeeds(0) \subseteq UpTo(16) /\ HandlerNeeds(1) \subseteq UpTo(16)
BY DEF HandlerNeeds, UpTo, Order

(* What StageInv says at a step of Order, and in the calibration.          *)
LEMMA AtPlace ==
  ASSUME StageInv, NEW k \in 1..24, stage = Order[k]
  PROVE  /\ ready = UpTo(k - 1)
         /\ intr <=> k > 16
         /\ k > 9 => pic.base = <<32, 40>>
         /\ k > 10 => gates = 0..14 \cup {16, 128} \cup 32..47
         /\ k > 13 => pic.mask = 2..15
BY OrderApart, OrderDistinct DEF StageInv, PlaceInv

LEMMA InCalibration ==
  ASSUME StageInv, stage \in Calibrating
  PROVE  /\ ready = UpTo(12) /\ intr
         /\ pic.base = <<32, 40>> /\ pic.mask = 1..15
         /\ gates = 0..14 \cup {16, 128} \cup 32..47
BY OrderApart DEF StageInv, PlaceInv, Loading, Calibrating

LEMMA PlaceInvStep ==
  ASSUME StageInv, [Next]_vars PROVE PlaceInv'
<1>1. CASE UNCHANGED vars
  BY <1>1, PlaceInvFrame DEF StageInv, vars, bootVars, irqVars, stageVars
<1>2. CASE Disturb \/ DrivesWork \/ ReadTag
  <2>1. UNCHANGED stageVars
    BY <1>2 DEF Disturb, DrivesWork, ReadTag, Tick, Timer, Others, Raise, Deliver, Nmi, Spurious,
                bootVars, irqVars, stageVars
  <2> QED BY <2>1, PlaceInvFrame DEF StageInv
<1>3. CASE Start \/ TagsRead
  <2>1. stage \in Loading /\ ready = {} /\ ~intr
    BY <1>3, OrderApart DEF StageInv, PlaceInv, Start, TagsRead, Loading, Calibrating
  <2>2. stage' \in {"tags", "halted", "regions"} /\ ready' = {} /\ ~intr'
    BY <1>3, <2>1 DEF Start, TagsRead, Goto, irqVars
  <2>3. CASE stage' = "regions"
    <3>1. stage' = Order[1] /\ UpTo(1 - 1) = {}
      BY <2>3 DEF Order, UpTo
    <3> QED BY <2>2, <3>1 DEF PlaceInv
  <2> QED BY <2>2, <2>3 DEF PlaceInv, Loading
<1>4. CASE SetUp
  <2>1. PICK k \in 1..24 : stage = Order[k]
    BY <1>4, OrderIs DEF SetUp, Plain
  <2>2. k \notin {9, 10, 13, 16, 24}
    BY <1>4, <2>1 DEF SetUp, Plain, Order
  <2>3. stage' = Order[k + 1] /\ ready' = UpTo(k) /\ UNCHANGED <<intr, pic, gates>>
    BY <1>4, <2>1, <2>2, StepOfOrder, AtPlace DEF SetUp, irqVars
  <2> QED BY <2>1, <2>2, <2>3, AtPlace DEF PlaceInv
<1>5. CASE SetUpPic
  <2>1. stage = Order[9] /\ Done(stage)
    BY <1>5 DEF SetUpPic, Done, Order
  <2>2. /\ stage' = Order[10] /\ ready' = UpTo(9) /\ UNCHANGED intr
        /\ pic'.base = <<32, 40>>
    BY <1>5, <2>1, StepOfOrder, AtPlace DEF SetUpPic, pic_init
  <2>3. ~intr
    BY <2>1, AtPlace
  <2> QED BY <2>2, <2>3 DEF PlaceInv
<1>6. CASE SetUpIrq
  <2>1. stage = Order[10] /\ Done(stage)
    BY <1>6 DEF SetUpIrq, Done, Order
  <2>2. /\ stage' = Order[11] /\ ready' = UpTo(10) /\ UNCHANGED <<intr, pic>>
        /\ gates' = 0..14 \cup {16, 128} \cup 32..47
    BY <1>6, <2>1, StepOfOrder, AtPlace DEF SetUpIrq, irq_init
  <2>3. ~intr /\ pic.base = <<32, 40>>
    BY <2>1, AtPlace
  <2> QED BY <2>2, <2>3 DEF PlaceInv
<1>7. CASE StartCalibration
  <2>1. stage = Order[13]
    BY <1>7 DEF StartCalibration, Order
  <2>2. /\ stage' \in Calibrating /\ UNCHANGED <<ready, gates>> /\ intr'
        /\ pic' = [pic EXCEPT !.mask = 1..15]
    BY <1>7 DEF StartCalibration, Goto, Calibrating
  <2>3. /\ ready = UpTo(12) /\ pic.base = <<32, 40>>
        /\ gates = 0..14 \cup {16, 128} \cup 32..47
    BY <2>1, AtPlace
  <2> QED BY <2>2, <2>3 DEF StageInv, PlaceInv, PicType
<1>8. CASE Double \/ Sync \/ DoubleDelay \/ Halve \/ Fine \/ FineDelay
  <2>1. /\ stage \in Calibrating /\ stage' \in Calibrating
        /\ UNCHANGED <<ready, intr, pic, gates>>
    BY <1>8 DEF Double, Sync, DoubleDelay, Halve, Fine, FineDelay, calibrating, Goto, irqVars,
                Calibrating
  <2> QED BY <2>1, InCalibration DEF PlaceInv
<1>9. CASE EndCalibration
  <2>1. stage \in Calibrating /\ stage' = After(Order[13]) /\ ready' = ready \cup {Order[13]}
    BY <1>9 DEF EndCalibration, Calibrating, Goto, Order
  <2>2. stage' = Order[14] /\ ready' = UpTo(13)
    BY <2>1, AfterIs, UpToNext, InCalibration
  <2>3. ~intr' /\ pic' = [pic EXCEPT !.mask = 2..15] /\ UNCHANGED gates
    BY <1>9 DEF EndCalibration
  <2> QED BY <2>1, <2>2, <2>3, InCalibration DEF StageInv, PlaceInv, PicType
<1>10. CASE SetUpConsole
  <2>1. stage = Order[16] /\ Done(stage)
    BY <1>10 DEF SetUpConsole, Done, Order
  <2>2. stage' = Order[17] /\ ready' = UpTo(16) /\ UNCHANGED <<pic, gates>> /\ intr'
    BY <1>10, <2>1, StepOfOrder, AtPlace DEF SetUpConsole
  <2> QED BY <2>1, <2>2, AtPlace DEF PlaceInv
<1>11. CASE acpi_init
  <2>1. stage = Order[17]
    BY <1>11 DEF acpi_init, Done, Order
  <2>2. UNCHANGED <<intr, pic, gates>>
    BY <1>11 DEF acpi_init, PageFault, irqVars
  <2>3. CASE machine.rsdp = "none"
    BY <1>11, <2>1, <2>2, <2>3, AtPlace DEF acpi_init, Goto, PlaceInv
  <2>4. CASE machine.rsdp # "none"
    <3>1. Done(stage)
      BY <1>11, <2>4 DEF acpi_init, Done
    <3>2. stage' = Order[18] /\ ready' = UpTo(17)
      BY <2>1, <3>1, StepOfOrder, AtPlace
    <3> QED BY <2>1, <2>2, <3>2, AtPlace DEF PlaceInv
  <2> QED BY <2>3, <2>4
<1>12. CASE Scan \/ Devices
  <2>1. PICK k \in {20, 21} : stage = Order[k]
    BY <1>12 DEF Scan, Devices, Order
  <2>2. Done(stage) \/ UNCHANGED <<stage, ready>>
    BY <1>12 DEF Scan, Devices
  <2>3. UNCHANGED <<intr, pic, gates>>
    BY <1>12 DEF Scan, Devices, irqVars
  <2>4. CASE Done(stage)
    <3>1. stage' = Order[k + 1] /\ ready' = UpTo(k)
      BY <2>1, <2>4, StepOfOrder, AtPlace
    <3> QED BY <2>1, <2>3, <3>1, AtPlace DEF PlaceInv
  <2> QED BY <2>2, <2>3, <2>4, PlaceInvFrame DEF StageInv, stageVars
<1> QED
  BY <1>1, <1>2, <1>3, <1>4, <1>5, <1>6, <1>7, <1>8, <1>9, <1>10, <1>11, <1>12
  DEF Next, BootStep, Calibration

LEMMA PicTypeStep ==
  ASSUME PicType, [Next]_vars PROVE PicType'
<1>1. \/ UNCHANGED pic
      \/ pic_init(32, 40)
      \/ pic' = [pic EXCEPT !.mask = 1..15]
      \/ pic' = [pic EXCEPT !.mask = 2..15]
  BY DEF Next, BootStep, Disturb, DrivesWork, Start, ReadTag, TagsRead, SetUp, SetUpPic, SetUpIrq,
         Calibration, StartCalibration, Double, Sync, DoubleDelay, Halve, Fine, FineDelay, calibrating,
         EndCalibration, SetUpConsole, acpi_init, PageFault, Scan, Devices, Tick, Timer, Others, Raise,
         Deliver, Nmi, Spurious, vars, bootVars, irqVars
<1> QED BY <1>1 DEF PicType, pic_init

(* Nothing is used before it is set up: neither by the next step nor by    *)
(* the handler of an interrupt that can come in now.                       *)
THEOREM BootOrder == Spec => []ReadyWhenUsed
<1>1. Init => StageInv
  BY DEF Init, IrqInit, StageInv, PlaceInv, PicType, Loading
<1>2. StageInv /\ [Next]_vars => StageInv'
  BY PlaceInvStep, PicTypeStep DEF StageInv
<1>3. StageInv => ReadyWhenUsed
  <2> SUFFICES ASSUME StageInv PROVE ReadyWhenUsed
    OBVIOUS
  <2>1. ASSUME NEW k \in 1..24, stage = Order[k]
        PROVE  Needs(stage) \subseteq ready
    <3> QED BY <2>1, NeedsMet, AtPlace
  <2>2. ASSUME NEW i \in IRQs, Deliverable(i)
        PROVE  HandlerNeeds(i) \subseteq ready /\ Vector(i) \in gates
    <3>1. \/ ready = UpTo(12) /\ pic.mask = 1..15
          \/ UpTo(16) \subseteq ready /\ pic.mask = 2..15
      BY <2>2 DEF StageInv, PlaceInv, Deliverable, UpTo
    <3>2. pic.base = <<32, 40>> /\ gates = 0..14 \cup {16, 128} \cup 32..47
      BY <2>2 DEF StageInv, PlaceInv, Deliverable
    <3>3. i \notin pic.mask /\ i \in 0..15
      BY <2>2, InterruptsAssumption DEF Deliverable
    <3>4. CASE ready = UpTo(12) /\ i = 0
      BY <3>2, <3>4, HandlersReady DEF Vector
    <3>5. CASE UpTo(16) \subseteq ready /\ i \in {0, 1}
      BY <3>2, <3>5, HandlersReady DEF Vector
    <3> QED BY <3>1, <3>3, <3>4, <3>5
  <2> QED BY <2>1, <2>2, OrderIs DEF ReadyWhenUsed
<1> QED BY <1>1, <1>2, <1>3, PTL DEF Spec

-----------------------------------------------------------------------------
(* The calibration, of a CPU whose speed is in the range it can find.      *)
InRange == machine.speed \in MinLoops..LongMod \div 2 - 1

(* 2^(8 - n) and 2^n, for the bits still to be tried.                      *)
Tried(n)  == <<256, 128, 64, 32, 16, 8, 4, 2, 1>>[n + 1]
ToTry(n)  == <<1, 2, 4, 8, 16, 32, 64, 128, 256>>[n + 1]

(* In the first loop the number is a multiple of 256, below the speed when *)
(* it is about to be doubled, and below twice the speed after that.        *)
DoubleInv ==
  /\ stage = "double" =>
       loops_per_jiffy % 256 = 0 /\ loops_per_jiffy \in MinLoops..machine.speed
  /\ stage \in {"double_sync", "double_delay", "halve"} =>
       /\ loops_per_jiffy % 512 = 0
       /\ loops_per_jiffy \in 2 * MinLoops..2 * machine.speed
  /\ stage = "halve" => loops_per_jiffy >= machine.speed

(* In the second loop the speed is between the number without the bit at   *)
(* hand and that with it (or, before the bit is tried, with all of the     *)
(* last); the bit is as small as the bits tried make it, and can be halved *)
(* as often as there are bits to try.                                      *)
FineInv ==
  /\ stage \in {"fine", "fine_sync", "fine_delay"} =>
       /\ lps_precision \in 0..8
       /\ loopbit \in Nat \ {0} /\ loopbit % ToTry(lps_precision) = 0
       /\ loops_per_jiffy \in Nat /\ loops_per_jiffy <= 2 * machine.speed
  /\ stage = "fine" =>
       /\ loops_per_jiffy <= machine.speed /\ machine.speed <= loops_per_jiffy + loopbit
       /\ loopbit * Tried(lps_precision) <= loops_per_jiffy
  /\ stage \in {"fine_sync", "fine_delay"} =>
       /\ loops_per_jiffy - loopbit <= machine.speed
       /\ machine.speed <= loops_per_jiffy + loopbit
       /\ loopbit * Tried(lps_precision) <= loops_per_jiffy - loopbit

(* The ticks that a delay takes are those that have been counted, the one  *)
(* that waits for delivery, and those still to come; the delay takes the   *)
(* number of ticks that fit into it, or one less if they fit exactly.      *)
Pending == IF 0 \in irr THEN 1 ELSE 0
TicksOf(n) ==
  \/ n = loops_per_jiffy \div machine.speed
  \/ loops_per_jiffy % machine.speed = 0 /\ n = loops_per_jiffy \div machine.speed - 1

Syncing  == {"double_sync", "fine_sync"}
Delaying == {"double_delay", "fine_delay"}

ClockType == jiffies \in 0..JiffiesMod - 1 /\ ticks \in 0..JiffiesMod - 1

TicksInv ==
  /\ stage \in Syncing => (jiffies # ticks => 0 \notin irr)
  /\ stage \in Delaying =>
       \E n \in 0..2, counted \in 0..2 :
         /\ TicksOf(n) /\ left \in 0..2
         /\ counted + Pending + left = n
         /\ jiffies = (ticks + counted) % JiffiesMod

(* What the calibration starts from, and what it ends with.                *)
RestInv ==
  /\ "irq_init" \in ready => irqfuncs = {0, 1, 4}
  /\ stage \notin {"fine", "fine_sync", "fine_delay", "calibrated"} /\ "calibrate" \notin ready =>
       lps_precision = 8
  /\ stage = "calibrated" \/ "calibrate" \in ready =>
       /\ loops_per_jiffy <= machine.speed
       /\ 256 * (machine.speed - loops_per_jiffy) <= loops_per_jiffy

CalInv == ClockType /\ (InRange => DoubleInv /\ FineInv /\ TicksInv /\ RestInv)

(* The machine stays the same.                                             *)
LEMMA SameMachine ==
  ASSUME [Next]_vars PROVE booted' = booted /\ machine' = machine
<1>1. booted' = booted
  BY DEF Next, BootStep, Disturb, DrivesWork, Start, ReadTag, TagsRead, SetUp, SetUpPic, SetUpIrq,
         Calibration, StartCalibration, Double, Sync, DoubleDelay, Halve, Fine, FineDelay, calibrating,
         EndCalibration, SetUpConsole, acpi_init, Scan, Devices, Tick, Timer, Others,
         PciNext, pci_scan, pci_scan_bus, pci_scan_device_function, pci_scan_device, EndBus, pci_init,
         vars, pciVars
<1> QED BY <1>1 DEF machine

(* When the speed can be found, it is a number the provers can work with.  *)
LEMMA SpeedType ==
  ASSUME InRange
  PROVE  /\ MinLoops \in Nat \ {0} /\ MinLoops % 256 = 0
         /\ LongMod \in Nat /\ LongMod % 2 = 0
         /\ machine.speed \in Nat \ {0} /\ MinLoops <= machine.speed
         /\ 2 * machine.speed < LongMod
BY BootAssumption DEF InRange

(* The steps before and after the calibration.                             *)
Plainly ==
  Start \/ TagsRead \/ SetUp \/ SetUpPic \/ SetUpIrq \/ SetUpConsole \/ acpi_init \/ Scan \/ Devices

LEMMA CalInvFrame ==
  ASSUME CalInv, [Next]_vars,
         stage \notin Calibrating, stage' \notin Calibrating,
         ready' = ready \/ ready' = ready \cup {stage}, stage # "calibrate",
         "irq_init" \in ready' => irqfuncs' = {0, 1, 4} \/ ("irq_init" \in ready /\ irqfuncs' = irqfuncs),
         UNCHANGED <<loops_per_jiffy, lps_precision, ticks>>, jiffies' \in {jiffies, (jiffies + 1) % JiffiesMod}
  PROVE  CalInv'
<1>1. InRange' <=> InRange
  BY SameMachine DEF InRange
<1>2. ClockType'
  BY InterruptsAssumption DEF CalInv, ClockType
<1>3. ASSUME InRange PROVE DoubleInv' /\ FineInv' /\ TicksInv'
  BY DEF DoubleInv, FineInv, TicksInv, Calibrating, Syncing, Delaying
<1>4. ASSUME InRange PROVE RestInv'
  BY <1>4, SameMachine DEF CalInv, RestInv, Calibrating
<1> QED BY <1>1, <1>2, <1>3, <1>4 DEF CalInv

LEMMA CalInvPlainly ==
  ASSUME StageInv, CalInv, Plainly, Next PROVE CalInv'
<1>1. UNCHANGED <<loops_per_jiffy, lps_precision, ticks, jiffies>>
  BY DEF Plainly, Start, TagsRead, SetUp, SetUpPic, SetUpIrq, SetUpConsole, acpi_init, PageFault, Scan, Devices,
         calVars, irqVars
<1>2. stage \notin Calibrating /\ stage # "calibrate"
  <2>1. stage \in {"_start", "tags"} \cup (UpTo(24) \ {"calibrate"})
    BY OrderIs DEF Plainly, Start, TagsRead, SetUp, SetUpPic, SetUpIrq, SetUpConsole, acpi_init, Scan, Devices,
           Done, Plain, UpTo, Order
  <2> QED BY <2>1, OrderApart DEF UpTo, Loading, Calibrating
<1>3. ready' = ready \/ ready' = ready \cup {stage}
  BY DEF Plainly, Start, TagsRead, SetUp, SetUpPic, SetUpIrq, SetUpConsole, acpi_init, Scan, Devices, Done
<1>4. stage' \notin Calibrating
  <2>1. CASE Done(stage) /\ ~Start /\ ~TagsRead
    <3>1. PICK k \in 1..23 : stage = Order[k]
      <4>1. stage \in UpTo(24) /\ stage # "done"
        BY <2>1, OrderIs DEF Plainly, SetUp, SetUpPic, SetUpIrq, SetUpConsole, acpi_init, Scan,
               Devices, Done, Plain, UpTo, Order
      <4>2. PICK k \in 1..24 : stage = Order[k]
        BY <4>1 DEF UpTo
      <4>3. k # 24
        BY <4>1, <4>2 DEF Order
      <4> QED BY <4>2, <4>3
    <3>2. stage' = Order[k + 1]
      BY <2>1, <3>1, AfterIs DEF Done, Goto
    <3> QED BY <3>2, OrderApart
  <2>2. CASE ~Done(stage) \/ Start \/ TagsRead
    <3>1. stage' \in {"tags", "halted", "regions", "lost", stage}
      BY <2>2 DEF Plainly, Start, TagsRead, SetUp, SetUpPic, SetUpIrq, SetUpConsole, acpi_init, Scan, Devices,
                  Done, Goto
    <3> QED BY <1>2, <3>1 DEF Calibrating
  <2> QED BY <2>1, <2>2
<1>5. "irq_init" \in ready' => irqfuncs' = {0, 1, 4} \/ ("irq_init" \in ready /\ irqfuncs' = irqfuncs)
  <2>1. CASE SetUpIrq
    BY <2>1 DEF SetUpIrq, irq_init
  <2>2. CASE ~SetUpIrq
    <3>1. UNCHANGED irqfuncs /\ stage # "irq_init"
      BY <2>2 DEF Plainly, Start, TagsRead, SetUp, SetUpPic, SetUpConsole, acpi_init, PageFault, Scan, Devices,
         irqVars, Done, Plain
    <3> QED BY <1>3, <3>1
  <2> QED BY <2>1, <2>2
<1> QED BY <1>1, <1>2, <1>3, <1>4, <1>5, CalInvFrame

(* The ticks of a delay of l turns at s turns a tick.                      *)
LEMMA DelayTicks ==
  ASSUME NEW s \in Nat \ {0}, NEW l \in Nat, l <= 2 * s, NEW n \in Int,
         n = l \div s \/ (l % s = 0 /\ n = l \div s - 1), n >= 0
  PROVE  n \in 0..2 /\ (n = 0 => l <= s) /\ (n > 0 => l >= s)
<1>1. l \div s \in 0..2
  OBVIOUS
<1>2. l < s => l \div s = 0
  OBVIOUS
<1>3. l > s => l \div s >= 1
  OBVIOUS
<1>4. l > s /\ l % s = 0 => l \div s = 2
  OBVIOUS
<1> QED BY <1>1, <1>2, <1>3, <1>4

(* A few ticks do not bring jiffies back to where it was.                  *)
LEMMA FewTicks ==
  ASSUME NEW m \in Nat \ 0..2, NEW t \in 0..m - 1, NEW c \in 0..2
  PROVE  (t + c) % m = t <=> c = 0
<1>1. CASE t + c < m
  BY <1>1
<1>2. CASE t + c >= m
  <2>1. (t + c) % m = t + c - m
    BY <1>2
  <2> QED BY <1>2, <2>1
<1> QED BY <1>1, <1>2

(* At the end of a delay jiffies tells whether it was longer than a tick.  *)
LEMMA DelayEnds ==
  ASSUME InRange, ClockType, TicksInv, stage \in Delaying, left = 0, 0 \notin irr,
         loops_per_jiffy \in Nat, loops_per_jiffy <= 2 * machine.speed
  PROVE  /\ jiffies # ticks => loops_per_jiffy >= machine.speed
         /\ jiffies = ticks => loops_per_jiffy <= machine.speed
<1>1. PICK n \in 0..2, counted \in 0..2 :
        TicksOf(n) /\ counted + Pending + left = n /\ jiffies = (ticks + counted) % JiffiesMod
  BY DEF TicksInv
<1>2. counted = n
  BY <1>1 DEF Pending
<1>3. (ticks + counted) % JiffiesMod = ticks <=> counted = 0
  BY <1>1, InterruptsAssumption, FewTicks DEF ClockType
<1>4. (n = 0 => loops_per_jiffy <= machine.speed) /\ (n > 0 => loops_per_jiffy >= machine.speed)
  <2>1. PICK s, l : s = machine.speed /\ l = loops_per_jiffy
    OBVIOUS
  <2>2. n = l \div s \/ (l % s = 0 /\ n = l \div s - 1)
    BY <1>1, <2>1 DEF TicksOf
  <2>3. s \in Nat \ {0} /\ l \in Nat /\ l <= 2 * s
    BY <2>1, SpeedType
  <2> QED BY <2>1, <2>2, <2>3, DelayTicks
<1> QED BY <1>1, <1>2, <1>3, <1>4

(* The steps of the calibration one by one.  The clock is left alone.      *)
LEMMA CalClock ==
  ASSUME ClockType, Calibration PROVE ClockType'
BY DEF ClockType, Calibration, StartCalibration, Double, Sync, DoubleDelay, Halve, Fine, FineDelay, calibrating,
       EndCalibration, irqVars, calVars

LEMMA NotCalibrated ==
  ASSUME StageInv, stage \in Calibrating \cup {"calibrate"}
  PROVE  "calibrate" \notin ready /\ (stage \in Calibrating => "irq_init" \in ready)
<1>1. Order[13] = "calibrate" /\ Order[10] = "irq_init"
  BY DEF Order
<1>2. ready = UpTo(12)
  BY <1>1, InCalibration, AtPlace
<1>3. "calibrate" \notin UpTo(12) /\ "irq_init" \in UpTo(12)
  BY <1>1, OrderDistinct DEF UpTo
<1> QED BY <1>2, <1>3

LEMMA CalStart ==
  ASSUME StageInv, ClockType, InRange, RestInv, StartCalibration, machine' = machine
  PROVE  DoubleInv' /\ FineInv' /\ TicksInv' /\ RestInv'
<1>1. "calibrate" \notin ready
  BY NotCalibrated DEF StartCalibration
<1>2. /\ stage' = "double" /\ loops_per_jiffy' = MinLoops /\ UNCHANGED <<ready, irqfuncs, lps_precision>>
      /\ stage = "calibrate"
  BY DEF StartCalibration, Goto
<1>3. DoubleInv' /\ FineInv' /\ TicksInv'
  BY <1>2, SpeedType DEF DoubleInv, FineInv, TicksInv, Syncing, Delaying
<1> QED BY <1>1, <1>2, <1>3 DEF RestInv

LEMMA CalDouble ==
  ASSUME StageInv, ClockType, InRange, DoubleInv, RestInv, Double, machine' = machine
  PROVE  DoubleInv' /\ FineInv' /\ TicksInv' /\ RestInv'
<1>1. loops_per_jiffy % 256 = 0 /\ loops_per_jiffy \in MinLoops..machine.speed
  BY DEF DoubleInv, Double
<1>2. loops_per_jiffy' = 2 * loops_per_jiffy
  BY <1>1, SpeedType DEF Double
<1>3. loops_per_jiffy' # 0 /\ loops_per_jiffy' % 512 = 0
  BY <1>1, <1>2, SpeedType
<1>4. /\ stage' = "double_sync" /\ ticks' = jiffies /\ stage = "double"
      /\ UNCHANGED <<ready, irqfuncs, lps_precision, jiffies>>
  BY <1>3 DEF Double, calibrating, Goto, irqVars
<1>5. DoubleInv'
  BY <1>1, <1>2, <1>3, <1>4, SpeedType DEF DoubleInv
<1>6. FineInv' /\ TicksInv'
  BY <1>4 DEF FineInv, TicksInv, Syncing, Delaying
<1>7. "calibrate" \notin ready
  BY <1>4, NotCalibrated DEF Calibrating
<1> QED BY <1>4, <1>5, <1>6, <1>7 DEF RestInv

LEMMA CalSync ==
  ASSUME StageInv, ClockType, InRange, DoubleInv, FineInv, TicksInv, RestInv, Sync, machine' = machine
  PROVE  DoubleInv' /\ FineInv' /\ TicksInv' /\ RestInv'
<1>1. /\ stage \in Syncing /\ jiffies # ticks /\ ticks' = jiffies
      /\ stage = "double_sync" => stage' = "double_delay"
      /\ stage = "fine_sync" => stage' = "fine_delay"
      /\ UNCHANGED <<ready, irqfuncs, lps_precision, jiffies, loops_per_jiffy, loopbit, irr>>
  BY DEF Sync, calibrating, Goto, Syncing, irqVars
<1>2. loops_per_jiffy \in Nat \ {0} /\ loops_per_jiffy <= 2 * machine.speed
  <2>1. CASE stage = "double_sync"
    BY <2>1, SpeedType DEF DoubleInv
  <2>2. CASE stage = "fine_sync"
    <3>1. /\ lps_precision \in 0..8 /\ loopbit \in Nat \ {0}
          /\ loops_per_jiffy \in Nat /\ loops_per_jiffy <= 2 * machine.speed
          /\ loopbit * Tried(lps_precision) <= loops_per_jiffy - loopbit
      BY <2>2 DEF FineInv
    <3>2. loops_per_jiffy # 0
      <4>1. PICK b \in Nat \ {0}, t \in Nat \ {0} : b = loopbit /\ t = Tried(lps_precision)
        BY <3>1 DEF Tried
      <4>2. b * t > 0 /\ b * t \in Int
        OBVIOUS
      <4>3. PICK p \in Int : p = b * t /\ p > 0
        BY <4>2
      <4>4. p <= loops_per_jiffy - loopbit
        BY <3>1, <4>1, <4>3
      <4> QED BY <3>1, <4>3, <4>4
    <3> QED BY <3>1, <3>2
  <2> QED BY <1>1, <2>1, <2>2 DEF Syncing
<1>3. PICK n \in 0..2 : TicksOf(n) /\ left' = n
  <2>1. PICK s, l, n : s = machine.speed /\ l = loops_per_jiffy /\ n = left'
    OBVIOUS
  <2>2. s \in Nat \ {0} /\ l \in Nat \ {0} /\ l <= 2 * s
    BY <1>2, <2>1, SpeedType
  <2>3. n = l \div s \/ (l % s = 0 /\ n = l \div s - 1)
    BY <2>1 DEF Sync
  <2>4. l \div s \in Nat /\ (l % s = 0 => l \div s # 0)
    BY <2>2
  <2>5. n \in 0..2
    BY <2>2, <2>3, <2>4, DelayTicks
  <2> QED BY <2>1, <2>3, <2>5 DEF TicksOf
<1>4. 0 \notin irr
  BY <1>1 DEF TicksInv
<1>5. TicksInv'
  <2>1. stage' \in Delaying /\ stage' \notin Syncing
    BY <1>1 DEF Syncing, Delaying
  <2>2. TicksOf(n)'
    BY <1>1, <1>3 DEF TicksOf
  <2>3. Pending' = 0
    BY <1>1, <1>4 DEF Pending
  <2>4. jiffies' = (ticks' + 0) % JiffiesMod
    <3>1. ticks' = jiffies' /\ ticks' \in 0..JiffiesMod - 1
      BY <1>1 DEF ClockType
    <3>2. PICK t \in 0..JiffiesMod - 1 : t = ticks'
      BY <3>1
    <3>3. (t + 0) % JiffiesMod = t
      BY InterruptsAssumption, FewTicks
    <3> QED BY <3>1, <3>2, <3>3
  <2>5. 0 + Pending' + left' = n /\ left' \in 0..2
    BY <1>3, <2>3
  <2>6. \E k \in 0..2, counted \in 0..2 :
          /\ TicksOf(k)' /\ left' \in 0..2
          /\ counted + Pending' + left' = k
          /\ jiffies' = (ticks' + counted) % JiffiesMod
    <3> WITNESS n \in 0..2, 0 \in 0..2
    <3> QED BY <2>2, <2>4, <2>5
  <2> QED BY <2>1, <2>6 DEF TicksInv
<1>6. DoubleInv' /\ FineInv'
  BY <1>1 DEF DoubleInv, FineInv, Syncing, Tried, ToTry
<1>7. "calibrate" \notin ready
  BY <1>1, NotCalibrated DEF Calibrating, Syncing
<1>8. RestInv'
  BY <1>1, <1>7 DEF RestInv, Syncing
<1> QED BY <1>5, <1>6, <1>8

LEMMA CalDoubleDelay ==
  ASSUME StageInv, ClockType, InRange, DoubleInv, TicksInv, RestInv, DoubleDelay, machine' = machine
  PROVE  DoubleInv' /\ FineInv' /\ TicksInv' /\ RestInv'
<1>1. /\ stage = "double_delay" /\ stage' = IF jiffies # ticks THEN "halve" ELSE "double"
      /\ UNCHANGED <<ready, irqfuncs, lps_precision, loops_per_jiffy>>
  BY DEF DoubleDelay, calibrating, Goto, irqVars, calVars
<1>2. loops_per_jiffy % 512 = 0 /\ loops_per_jiffy \in 2 * MinLoops..2 * machine.speed
  BY <1>1 DEF DoubleInv
<1>3. /\ jiffies # ticks => loops_per_jiffy >= machine.speed
      /\ jiffies = ticks => loops_per_jiffy <= machine.speed
  BY <1>1, <1>2, SpeedType, DelayEnds DEF DoubleDelay, Delaying
<1>4. loops_per_jiffy % 256 = 0 /\ loops_per_jiffy >= MinLoops
  BY <1>2, SpeedType
<1>5. DoubleInv'
  BY <1>1, <1>2, <1>3, <1>4, SpeedType DEF DoubleInv
<1>6. FineInv' /\ TicksInv'
  BY <1>1 DEF FineInv, TicksInv, Syncing, Delaying
<1>7. "calibrate" \notin ready
  BY <1>1, NotCalibrated DEF Calibrating
<1> QED BY <1>1, <1>5, <1>6, <1>7 DEF RestInv

LEMMA CalHalve ==
  ASSUME StageInv, ClockType, InRange, DoubleInv, RestInv, Halve, machine' = machine
  PROVE  DoubleInv' /\ FineInv' /\ TicksInv' /\ RestInv'
<1>1. /\ stage = "halve" /\ stage' = "fine"
      /\ loops_per_jiffy' = loops_per_jiffy \div 2 /\ loopbit' = loops_per_jiffy'
      /\ UNCHANGED <<ready, irqfuncs, lps_precision>>
  BY DEF Halve, calibrating, Goto, irqVars
<1>2. "calibrate" \notin ready
  BY <1>1, NotCalibrated DEF Calibrating
<1>3. lps_precision' = 8
  BY <1>1, <1>2 DEF RestInv
<1>4. /\ loops_per_jiffy % 512 = 0 /\ loops_per_jiffy \in 2 * MinLoops..2 * machine.speed
      /\ loops_per_jiffy >= machine.speed
  BY <1>1 DEF DoubleInv
<1>5. /\ loops_per_jiffy' \in Nat \ {0} /\ loops_per_jiffy' % 256 = 0
      /\ loops_per_jiffy' <= machine.speed /\ machine.speed <= 2 * loops_per_jiffy'
  BY <1>1, <1>4, SpeedType
<1>6. FineInv'
  BY <1>1, <1>3, <1>5, SpeedType DEF FineInv, Tried, ToTry
<1>7. DoubleInv' /\ TicksInv'
  BY <1>1 DEF DoubleInv, TicksInv, Syncing, Delaying
<1> QED BY <1>1, <1>2, <1>6, <1>7 DEF RestInv

(* Halving the bit: what was divisible by 2^n is then divisible by         *)
(* 2^(n - 1), and no smaller in proportion to the bits tried.              *)
LEMMA HalfBit ==
  ASSUME NEW n \in 1..8, NEW b \in Nat \ {0}, b % ToTry(n) = 0, NEW l \in Nat, b * Tried(n) <= l
  PROVE  /\ 2 * (b \div 2) = b /\ b \div 2 \in Nat \ {0}
         /\ (b \div 2) % ToTry(n - 1) = 0
         /\ (b \div 2) * Tried(n - 1) <= l /\ b \div 2 <= l
<1>1. CASE n = 1
  BY <1>1 DEF ToTry, Tried
<1>2. CASE n = 2
  BY <1>2 DEF ToTry, Tried
<1>3. CASE n = 3
  BY <1>3 DEF ToTry, Tried
<1>4. CASE n = 4
  BY <1>4 DEF ToTry, Tried
<1>5. CASE n = 5
  BY <1>5 DEF ToTry, Tried
<1>6. CASE n = 6
  BY <1>6 DEF ToTry, Tried
<1>7. CASE n = 7
  BY <1>7 DEF ToTry, Tried
<1>8. CASE n = 8
  BY <1>8 DEF ToTry, Tried
<1> QED BY <1>1, <1>2, <1>3, <1>4, <1>5, <1>6, <1>7, <1>8

LEMMA CalFine ==
  ASSUME StageInv, ClockType, InRange, FineInv, RestInv, Fine, machine' = machine
  PROVE  DoubleInv' /\ FineInv' /\ TicksInv' /\ RestInv'
<1>1. stage = "fine" /\ lps_precision' = lps_precision - 1 /\ UNCHANGED <<ready, irqfuncs>>
  BY DEF Fine, calibrating, Goto, irqVars
<1>2. "calibrate" \notin ready
  BY <1>1, NotCalibrated DEF Calibrating
<1>3. /\ lps_precision \in 0..8
      /\ loopbit \in Nat \ {0} /\ loopbit % ToTry(lps_precision) = 0
      /\ loops_per_jiffy \in Nat
      /\ loops_per_jiffy <= machine.speed /\ machine.speed <= loops_per_jiffy + loopbit
      /\ loopbit * Tried(lps_precision) <= loops_per_jiffy
  BY <1>1 DEF FineInv
<1>4. CASE lps_precision = 0
  <2>1. stage' = "calibrated" /\ UNCHANGED loops_per_jiffy
    BY <1>4 DEF Fine, calibrating, Goto
  <2>2. loopbit * 256 <= loops_per_jiffy
    BY <1>3, <1>4 DEF Tried
  <2>3. 256 * (machine.speed - loops_per_jiffy) <= loops_per_jiffy
    BY <1>3, <2>2, SpeedType
  <2>4. DoubleInv' /\ FineInv' /\ TicksInv'
    BY <2>1 DEF DoubleInv, FineInv, TicksInv, Syncing, Delaying
  <2> QED BY <1>1, <1>3, <2>1, <2>3, <2>4 DEF RestInv
<1>5. CASE lps_precision # 0
  <2>1. PICK n, b, l : n = lps_precision /\ b = loopbit /\ l = loops_per_jiffy
    OBVIOUS
  <2>2. n \in 1..8 /\ b \in Nat \ {0} /\ b % ToTry(n) = 0 /\ l \in Nat /\ b * Tried(n) <= l
    BY <1>3, <1>5, <2>1
  <2>3. /\ 2 * (b \div 2) = b /\ b \div 2 \in Nat \ {0}
        /\ (b \div 2) % ToTry(n - 1) = 0
        /\ (b \div 2) * Tried(n - 1) <= l /\ b \div 2 <= l
    BY <2>2, HalfBit
  <2>4. PICK h : h = b \div 2
    OBVIOUS
  <2>5. loopbit' = h /\ h # 0
    BY <1>5, <2>1, <2>3, <2>4 DEF Fine
  <2>6. stage' = "fine_sync" /\ loops_per_jiffy' = l + h /\ ticks' = jiffies /\ UNCHANGED jiffies
    BY <1>5, <2>1, <2>5 DEF Fine, calibrating, Goto, irqVars
  <2>7. /\ loops_per_jiffy' \in Nat /\ loops_per_jiffy' <= 2 * machine.speed
        /\ loops_per_jiffy' - h = l
        /\ l <= machine.speed /\ machine.speed <= loops_per_jiffy' + h
    BY <1>3, <2>1, <2>2, <2>3, <2>4, <2>6, SpeedType
  <2>8. h \in Nat \ {0} /\ h % ToTry(n - 1) = 0 /\ h * Tried(n - 1) <= l
    BY <2>3, <2>4
  <2>9. FineInv'
    <3>1. lps_precision' = n - 1 /\ n - 1 \in 0..8
      BY <1>1, <2>1, <2>2
    <3>2. machine.speed' = machine.speed
      OBVIOUS
    <3>3. ToTry(lps_precision)' = ToTry(n - 1) /\ Tried(lps_precision)' = Tried(n - 1)
      BY <3>1 DEF ToTry, Tried
    <3> QED BY <2>5, <2>6, <2>7, <2>8, <3>1, <3>2, <3>3 DEF FineInv
  <2>10. DoubleInv' /\ TicksInv'
    BY <2>6 DEF DoubleInv, TicksInv, Syncing, Delaying
  <2> QED BY <1>1, <1>2, <2>6, <2>9, <2>10 DEF RestInv
<1> QED BY <1>4, <1>5

LEMMA CalFineDelay ==
  ASSUME StageInv, ClockType, InRange, FineInv, TicksInv, RestInv, FineDelay, machine' = machine
  PROVE  DoubleInv' /\ FineInv' /\ TicksInv' /\ RestInv'
<1>1. /\ stage = "fine_delay" /\ stage' = "fine" /\ UNCHANGED <<ready, irqfuncs, lps_precision, loopbit>>
      /\ loops_per_jiffy' = IF jiffies # ticks THEN loops_per_jiffy - loopbit ELSE loops_per_jiffy
  BY DEF FineDelay, calibrating, Goto, irqVars
<1>2. "calibrate" \notin ready
  BY <1>1, NotCalibrated DEF Calibrating
<1>3. /\ lps_precision \in 0..8
      /\ loopbit \in Nat \ {0} /\ loopbit % ToTry(lps_precision) = 0
      /\ loops_per_jiffy \in Nat /\ loops_per_jiffy <= 2 * machine.speed
      /\ loops_per_jiffy - loopbit <= machine.speed
      /\ machine.speed <= loops_per_jiffy + loopbit
      /\ loopbit * Tried(lps_precision) <= loops_per_jiffy - loopbit
  BY <1>1 DEF FineInv
<1>4. /\ jiffies # ticks => loops_per_jiffy >= machine.speed
      /\ jiffies = ticks => loops_per_jiffy <= machine.speed
  BY <1>1, <1>3, DelayEnds DEF FineDelay, Delaying
<1>5. PICK b, t : b = loopbit /\ t = Tried(lps_precision)
  OBVIOUS
<1>6. b \in Nat \ {0} /\ t \in Nat
  BY <1>3, <1>5 DEF Tried
<1>7. PICK q \in Nat : q = b * t
  BY <1>6
<1>8. /\ loops_per_jiffy' \in Nat
      /\ loops_per_jiffy' <= machine.speed /\ machine.speed <= loops_per_jiffy' + b
      /\ q <= loops_per_jiffy'
  BY <1>1, <1>3, <1>4, <1>5, <1>6, <1>7, SpeedType
<1>9. FineInv'
  <2>1. ToTry(lps_precision)' = ToTry(lps_precision) /\ Tried(lps_precision)' = t /\ loopbit' = b
    BY <1>1, <1>5 DEF ToTry, Tried
  <2>2. loops_per_jiffy' <= 2 * machine.speed
    BY <1>8, SpeedType
  <2> QED BY <1>1, <1>3, <1>5, <1>7, <1>8, <2>1, <2>2 DEF FineInv
<1>10. DoubleInv' /\ TicksInv'
  BY <1>1 DEF DoubleInv, TicksInv, Syncing, Delaying
<1> QED BY <1>1, <1>2, <1>9, <1>10 DEF RestInv

LEMMA CalEnd ==
  ASSUME StageInv, InRange, RestInv, EndCalibration, machine' = machine
  PROVE  DoubleInv' /\ FineInv' /\ TicksInv' /\ RestInv'
<1>1. /\ stage = "calibrated" /\ stage' = After(Order[13]) /\ ready' = ready \cup {"calibrate"}
      /\ UNCHANGED <<irqfuncs, lps_precision, loops_per_jiffy>>
  BY DEF EndCalibration, Goto, calVars, Order
<1>2. stage' \notin Calibrating
  BY <1>1, AfterIs, OrderApart
<1>3. DoubleInv' /\ FineInv' /\ TicksInv'
  BY <1>2 DEF DoubleInv, FineInv, TicksInv, Syncing, Delaying, Calibrating
<1> QED BY <1>1, <1>2, <1>3 DEF RestInv

LEMMA CalInvCalibration ==
  ASSUME StageInv, CalInv, Calibration, Next PROVE CalInv'
<1>1. machine' = machine /\ (InRange' <=> InRange)
  BY SameMachine DEF InRange
<1>2. ClockType'
  BY CalClock DEF CalInv
<1>3. ASSUME InRange PROVE DoubleInv' /\ FineInv' /\ TicksInv' /\ RestInv'
  BY <1>1, <1>3, CalStart, CalDouble, CalSync, CalDoubleDelay, CalHalve, CalFine, CalFineDelay, CalEnd
  DEF CalInv, Calibration
<1> QED BY <1>1, <1>2, <1>3 DEF CalInv

(* An interrupt changes the clock at most, and what is pending.            *)
LEMMA CalInvKept ==
  ASSUME CalInv, [Next]_vars,
         UNCHANGED <<stage, ready, loops_per_jiffy, loopbit, lps_precision, ticks, irqfuncs>>,
         jiffies' \in {jiffies, (jiffies + 1) % JiffiesMod},
         InRange /\ TicksInv => TicksInv'
  PROVE  CalInv'
<1>1. machine' = machine /\ (InRange' <=> InRange)
  BY SameMachine DEF InRange
<1>2. ClockType'
  BY InterruptsAssumption DEF CalInv, ClockType
<1>3. ASSUME InRange PROVE DoubleInv' /\ FineInv' /\ RestInv'
  BY <1>1, <1>3 DEF CalInv, DoubleInv, FineInv, RestInv, ToTry, Tried
<1> QED BY <1>1, <1>2, <1>3 DEF CalInv

LEMMA TicksOfSame ==
  ASSUME machine' = machine, UNCHANGED loops_per_jiffy, NEW n
  PROVE  TicksOf(n)' <=> TicksOf(n)
BY DEF TicksOf

(* The timer raises its line: a tick that was to come is pending.          *)
LEMMA CalInvTick ==
  ASSUME CalInv, Tick, [Next]_vars PROVE CalInv'
<1>1. /\ UNCHANGED <<stage, ready, loops_per_jiffy, loopbit, lps_precision, ticks, irqfuncs, jiffies>>
      /\ 0 \notin irr /\ irr' = irr \cup {0}
  BY DEF Tick, Raise
<1>2. ASSUME TicksInv PROVE TicksInv'
  <2>1. CASE stage \in Syncing
    BY <1>1, <2>1 DEF TicksInv, Tick, Syncing, Delaying
  <2>2. CASE stage \in Delaying
    <3>1. PICK n \in 0..2, counted \in 0..2 :
            /\ TicksOf(n) /\ left \in 0..2 /\ counted + Pending + left = n
            /\ jiffies = (ticks + counted) % JiffiesMod
      BY <1>2, <2>2 DEF TicksInv
    <3>2. left > 0 /\ left' = left - 1
      BY <2>2 DEF Tick, Delaying
    <3>3. Pending = 0 /\ Pending' = 1
      BY <1>1 DEF Pending
    <3>4. TicksOf(n)'
      BY <1>1, <3>1, TicksOfSame, SameMachine
    <3>5. counted + Pending' + left' = n /\ left' \in 0..2
      BY <3>1, <3>2, <3>3
    <3>6. jiffies' = (ticks' + counted) % JiffiesMod
      BY <1>1, <3>1
    <3>7. \E k \in 0..2, c \in 0..2 :
            TicksOf(k)' /\ left' \in 0..2 /\ c + Pending' + left' = k /\ jiffies' = (ticks' + c) % JiffiesMod
      BY <3>4, <3>5, <3>6
    <3> QED BY <1>1, <2>2, <3>7 DEF TicksInv, Syncing, Delaying
  <2> QED BY <1>1, <2>1, <2>2 DEF TicksInv
<1> QED BY <1>1, <1>2, CalInvKept

(* Counting modulo m, one at a time.                                       *)
LEMMA OneMore ==
  ASSUME NEW m \in Nat \ {0}, NEW t \in 0..m - 1, NEW c \in 0..2
  PROVE  (((t + c) % m) + 1) % m = (t + (c + 1)) % m
OBVIOUS

(* Its interrupt is taken: the tick is counted.                            *)
LEMMA CalInvTimer ==
  ASSUME StageInv, CalInv, Timer, [Next]_vars PROVE CalInv'
<1>1. /\ UNCHANGED <<stage, ready, loops_per_jiffy, loopbit, lps_precision, ticks, left, irqfuncs>>
      /\ 0 \in irr /\ irr' = irr \ {0}
  BY DEF Timer, Deliver, Deliverable, bootVars, calVars
<1>2. jiffies' \in {jiffies, (jiffies + 1) % JiffiesMod}
  BY DEF Timer, Deliver, irqfunc
<1>3. ASSUME InRange, TicksInv PROVE TicksInv'
  <2>1. CASE stage \in Syncing
    BY <1>1, <2>1 DEF TicksInv, Syncing, Delaying
  <2>2. CASE stage \in Delaying
    <3>1. stage \in Calibrating
      BY <2>2 DEF Delaying, Calibrating
    <3>2. Vector(0) - 32 = 0 /\ irqfuncs = {0, 1, 4}
      BY <1>3, <3>1, InCalibration, NotCalibrated DEF Vector, CalInv, RestInv
    <3>3. irqfunc(Irq[0].args[1], isr \cup {0})
      BY <3>2 DEF Timer, Deliver
    <3>4. jiffies' = (jiffies + 1) % JiffiesMod
      BY <3>2, <3>3, DispatchAssumption DEF irqfunc
    <3>5. PICK n \in 0..2, counted \in 0..2 :
            /\ TicksOf(n) /\ left \in 0..2 /\ counted + Pending + left = n
            /\ jiffies = (ticks + counted) % JiffiesMod
      BY <1>3, <2>2 DEF TicksInv
    <3>6. Pending = 1 /\ Pending' = 0
      BY <1>1 DEF Pending
    <3>7. TicksOf(n)'
      BY <1>1, <3>5, TicksOfSame, SameMachine
    <3>8. counted + 1 \in 0..2 /\ (counted + 1) + Pending' + left' = n /\ left' \in 0..2
      BY <1>1, <3>5, <3>6
    <3>9. jiffies' = (ticks' + (counted + 1)) % JiffiesMod
      <4>1. PICK t \in 0..JiffiesMod - 1 : t = ticks
        BY DEF CalInv, ClockType
      <4>2. (((t + counted) % JiffiesMod) + 1) % JiffiesMod = (t + (counted + 1)) % JiffiesMod
        <5>1. PICK m \in Nat \ {0} : m = JiffiesMod
          BY InterruptsAssumption
        <5>2. (((t + counted) % m) + 1) % m = (t + (counted + 1)) % m
          BY <5>1, OneMore
        <5> QED BY <5>1, <5>2
      <4> QED BY <1>1, <3>4, <3>5, <4>1, <4>2
    <3>10. \E k \in 0..2, c \in 0..2 :
            TicksOf(k)' /\ left' \in 0..2 /\ c + Pending' + left' = k /\ jiffies' = (ticks' + c) % JiffiesMod
      BY <3>7, <3>8, <3>9
    <3> QED BY <1>1, <2>2, <3>10 DEF TicksInv, Syncing, Delaying
  <2> QED BY <1>1, <2>1, <2>2 DEF TicksInv
<1> QED BY <1>1, <1>2, <1>3, CalInvKept

(* The other interrupts are masked during the calibration.                 *)
LEMMA CalInvOthers ==
  ASSUME StageInv, CalInv, Others, [Next]_vars PROVE CalInv'
<1>1. UNCHANGED <<stage, ready, loops_per_jiffy, loopbit, lps_precision, ticks, left, irqfuncs>>
  BY DEF Others, Raise, Deliver, Nmi, Spurious, bootVars, calVars
<1>2. jiffies' \in {jiffies, (jiffies + 1) % JiffiesMod}
  BY DEF Others, Raise, Deliver, Nmi, Spurious, irqfunc
<1>3. ASSUME TicksInv PROVE TicksInv'
  <2>1. CASE stage \in Syncing \cup Delaying
    <3>1. pic.mask = 1..15
      BY <2>1, InCalibration DEF Syncing, Delaying, Calibrating
    <3>2. \A i \in IRQs \ {0} : ~Deliver(i)
      BY <3>1, InterruptsAssumption DEF Deliver, Deliverable
    <3>3. UNCHANGED jiffies /\ (0 \in irr' <=> 0 \in irr)
      BY <2>1, <3>2 DEF Others, Raise, Nmi, Syncing, Delaying
    <3>4. Pending' = Pending
      BY <3>3 DEF Pending
    <3> QED BY <1>1, <1>3, <3>3, <3>4, TicksOfSame, SameMachine DEF TicksInv
  <2> QED BY <1>1, <2>1 DEF TicksInv
<1> QED BY <1>1, <1>2, <1>3, CalInvKept

LEMMA CalInvStep ==
  ASSUME StageInv, CalInv, [Next]_vars PROVE CalInv'
<1>1. CASE ReadTag \/ DrivesWork \/ UNCHANGED vars
  <2>1. UNCHANGED <<stage, ready, loops_per_jiffy, loopbit, lps_precision, ticks, left, irqfuncs, irr, jiffies>>
    BY <1>1 DEF ReadTag, DrivesWork, vars, bootVars, calVars, irqVars
  <2>2. ASSUME TicksInv PROVE TicksInv'
    <3>1. Pending' = Pending
      BY <2>1 DEF Pending
    <3> QED BY <2>1, <2>2, <3>1, TicksOfSame, SameMachine DEF TicksInv
  <2> QED BY <2>1, <2>2, CalInvKept
<1>2. CASE Next
  <2>1. \/ Plainly \/ Calibration \/ ReadTag \/ DrivesWork \/ Tick \/ Timer \/ Others
    BY <1>2 DEF Next, BootStep, Disturb, Plainly
  <2> QED BY <1>1, <1>2, <2>1, CalInvPlainly, CalInvCalibration, CalInvTick, CalInvTimer, CalInvOthers
<1> QED BY <1>1, <1>2

(* The calibration finds the speed of the CPU, to one part in 256 below    *)
(* it, wherever the ticks fall and however long their interrupts wait.     *)
THEOREM CalibrationCorrect == Spec => []Calibrated
<1>1. Init => StageInv /\ CalInv
  <2>1. Init => StageInv
    BY DEF Init, IrqInit, StageInv, PlaceInv, PicType, Loading
  <2>2. Init => CalInv
    BY InterruptsAssumption DEF Init, IrqInit, CalInv, ClockType, DoubleInv, FineInv, TicksInv, RestInv,
                                Syncing, Delaying
  <2> QED BY <2>1, <2>2
<1>2. StageInv /\ CalInv /\ [Next]_vars => (StageInv /\ CalInv)'
  BY PlaceInvStep, PicTypeStep, CalInvStep DEF StageInv
<1>3. StageInv /\ CalInv => Calibrated
  BY DEF CalInv, RestInv, Calibrated, InRange
<1> QED BY <1>1, <1>2, <1>3, PTL DEF Spec

-----------------------------------------------------------------------------
(* The scan of the PCI buses.                                              *)
Sec(f) == pci_get_secondary_bus_number(f)
Wanted == {f \in DOMAIN machine.config : Usable(f) /\ ~IsBridge(f)}

LEMMA BusSizes == NDevices \in Nat \ {0} /\ NFunctions \in Nat \ {0}
BY PciAssumption, Zenon

LEMMA ConfigType ==
  ASSUME booted \in DOMAIN Machines, NEW f \in DOMAIN machine.config
  PROVE  /\ f = <<f[1], f[2], f[3]>> /\ f[1] \in 0..255
         /\ f[2] \in 0..NDevices - 1 /\ f[3] \in 0..NFunctions - 1
         /\ machine.config[f] \in [{0, 8, 12, 16, 20, 24, 28, 32} -> (0..255) \X (0..255) \X (0..255) \X (0..255)]
<1>1. f \in (0..255) \X (0..NDevices - 1) \X (0..NFunctions - 1)
  BY PciAssumption DEF machine
<1>2. machine.config[f] \in [{0, 8, 12, 16, 20, 24, 28, 32} -> (0..255) \X (0..255) \X (0..255) \X (0..255)]
  BY PciAssumption DEF machine
<1>3. f = <<f[1], f[2], f[3]>> /\ f[1] \in 0..255 /\ f[2] \in 0..NDevices - 1 /\ f[3] \in 0..NFunctions - 1
  <2> DEFINE A == 0..255
             B == 0..NDevices - 1
             C == 0..NFunctions - 1
  <2> HIDE DEF A, B, C
  <2>1. f \in A \X B \X C
    BY <1>1 DEF A, B, C
  <2>2. f = <<f[1], f[2], f[3]>> /\ f[1] \in A /\ f[2] \in B /\ f[3] \in C
    BY <2>1
  <2> QED BY <2>2 DEF A, B, C
<1> QED BY <1>2, <1>3

(* A function that answers is in the configuration space.                  *)
LEMMA PresentIs ==
  ASSUME NEW f, Present(f) PROVE f \in DOMAIN machine.config
<1>1. SUFFICES ASSUME f \notin DOMAIN machine.config PROVE FALSE
  OBVIOUS
<1>2. pci_config_readl(f, 0) = <<255, 255, 255, 255>>
  BY <1>1 DEF pci_config_readl, Config, Absent
<1>3. pci_config_readw(f, 0) = <<255, 255>>
  BY <1>2 DEF pci_config_readw
<1> QED BY <1>3 DEF Present, pci_get_device_id, NoDevice

LEMMA FunctionIs ==
  ASSUME booted \in DOMAIN Machines, NEW f \in Wanted \cup Bridges
  PROVE  /\ f = <<f[1], f[2], f[3]>> /\ f[1] \in Nat
         /\ f[2] \in 0..NDevices - 1 /\ f[3] \in 0..NFunctions - 1
         /\ Present(f) /\ Present(<<f[1], f[2], 0>>)
         /\ f[3] > 0 => MultiFunction(<<f[1], f[2], 0>>)
<1>1. f \in DOMAIN machine.config /\ Usable(f)
  BY DEF Wanted, Bridges
<1>2. /\ f = <<f[1], f[2], f[3]>> /\ f[1] \in 0..255
      /\ f[2] \in 0..NDevices - 1 /\ f[3] \in 0..NFunctions - 1
  BY <1>1, ConfigType, Zenon
<1>3. f[1] \in Nat
  BY <1>2
<1>4. /\ Present(f) /\ Present(<<f[1], f[2], 0>>)
      /\ f[3] > 0 => MultiFunction(<<f[1], f[2], 0>>)
  BY <1>1, Zenon DEF Usable
<1> QED BY <1>2, <1>3, <1>4, Zenon

LEMMA FunctionType ==
  ASSUME booted \in DOMAIN Machines, NEW f \in Wanted \cup Bridges
  PROVE  f[1] \in Nat /\ f[2] \in Nat /\ f[3] \in Nat
<1>1. f[1] \in Nat /\ f[2] \in 0..NDevices - 1 /\ f[3] \in 0..NFunctions - 1
  BY FunctionIs, Zenon
<1> QED BY <1>1, BusSizes

LEMMA SecType ==
  ASSUME booted \in DOMAIN Machines, NEW f \in Bridges PROVE Sec(f) \in Nat
<1>1. f \in DOMAIN machine.config
  BY DEF Bridges
<1>2. PICK r : r = machine.config[f]
  OBVIOUS
<1>3. r \in [{0, 8, 12, 16, 20, 24, 28, 32} -> (0..255) \X (0..255) \X (0..255) \X (0..255)]
  BY <1>1, <1>2, ConfigType
<1>4. r[24] \in (0..255) \X (0..255) \X (0..255) \X (0..255)
  BY <1>3
<1>5. Sec(f) = r[24][2]
  BY <1>1, <1>2 DEF Sec, pci_get_secondary_bus_number, pci_config_readl, Config
<1>6. r[24][2] \in 0..255
  BY <1>4
<1> QED BY <1>5, <1>6

(* Reached is the smallest closed set of buses.                            *)
LEMMA ReachedIs ==
  /\ HostBuses \subseteq Reached
  /\ \A f \in Bridges : f[1] \in Reached => Sec(f) \in Reached
  /\ \A F : HostBuses \subseteq F /\ (\A f \in Bridges : f[1] \in F => Sec(f) \in F) => Reached \subseteq F
<1> DEFINE Behind == {Sec(f) : f \in Bridges}
           Closed(B) == \A f \in Bridges : f[1] \in B => Sec(f) \in B
<1>1. Reached = {b \in HostBuses \cup Behind :
                   \A B \in {B \in {HostBuses \cup X : X \in SUBSET Behind} : Closed(B)} : b \in B}
  BY Zenon DEF Reached, Sec
<1>2. ASSUME NEW b
      PROVE  b \in Reached <=> /\ b \in HostBuses \cup Behind
                               /\ \A X \in SUBSET Behind : Closed(HostBuses \cup X) => b \in HostBuses \cup X
  <2> HIDE DEF Closed, Behind
  <2> QED BY <1>1
<1>3. HostBuses \subseteq Reached
  BY <1>2
<1>4. ASSUME NEW f \in Bridges, f[1] \in Reached PROVE Sec(f) \in Reached
  <2>1. ASSUME NEW X \in SUBSET Behind, Closed(HostBuses \cup X) PROVE Sec(f) \in HostBuses \cup X
    <3>1. f[1] \in HostBuses \cup X
      <4> HIDE DEF Closed, Behind
      <4> QED BY <1>2, <1>4, <2>1
    <3> QED BY <3>1, <2>1
  <2>2. Sec(f) \in Behind
    OBVIOUS
  <2> HIDE DEF Closed, Behind
  <2> QED BY <1>2, <2>1, <2>2
<1>5. ASSUME NEW F, HostBuses \subseteq F, Closed(F) PROVE Reached \subseteq F
  <2>1. Closed(HostBuses \cup (F \cap Behind))
    <3>1. SUFFICES ASSUME NEW f \in Bridges, f[1] \in HostBuses \cup (F \cap Behind)
                   PROVE  Sec(f) \in HostBuses \cup (F \cap Behind)
      OBVIOUS
    <3>2. f[1] \in F
      BY <1>5, <3>1
    <3>3. Sec(f) \in F /\ Sec(f) \in Behind
      BY <1>5, <3>2
    <3> QED BY <3>3
  <2>2. \A b \in Reached : b \in HostBuses \cup (F \cap Behind)
    <3> HIDE DEF Closed, Behind
    <3> QED BY <1>2, <2>1
  <2> QED BY <1>5, <2>2
<1> QED BY <1>3, <1>4, <1>5

LEMMA OnceIs ==
  ASSUME ~ScannedTwice, NEW f \in Bridges, f[1] \in Reached
  PROVE  /\ Sec(f) \notin HostBuses
         /\ \A g \in Bridges : g[1] \in Reached /\ Sec(g) = Sec(f) => g = f
BY DEF ScannedTwice, Sec

LEMMA HostType == HostBuses \subseteq Nat
<1>1. HostBuses \in {{0}, {}, 0..NFunctions - 1}
  BY Zenon DEF HostBuses
<1> QED BY <1>1, BusSizes

-----------------------------------------------------------------------------
(* The state of the scan, in terms of the buses that have been scanned (F) *)
(* and are to be scanned next (P), the frames, the buses of the host that  *)
(* are left and the list of devices.                                       *)
EntryOf(f) ==
  LET id == pci_get_device_id(f)  code == pci_get_class_code(f)
  IN  [number |-> f[3], vendor |-> id[1], device |-> id[2],
       class |-> code[4], subclass |-> code[3], progif |-> code[1]]
Entries == {EntryOf(f) : f \in Nat \X Nat \X Nat}
Frames  == [bus : Nat, device : Nat, function : Nat, functions : Seq(Entries)]
Listing == [bus : Nat, number : Nat, functions : Seq(Entries)]

(* A list of functions of one device, each of them once.                   *)
ListInv(bus, number, functions) ==
  /\ functions \in Seq(Entries)
  /\ \A j \in DOMAIN functions :
       /\ <<bus, number, functions[j].number>> \in Wanted
       /\ functions[j] = EntryOf(<<bus, number, functions[j].number>>)
  /\ \A i, j \in DOMAIN functions : functions[i].number = functions[j].number => i = j

(* A frame has the functions of its device that it has passed.             *)
FrameInv(fr) ==
  /\ fr.bus \in Nat /\ fr.device \in 0..NDevices /\ fr.function \in 0..NFunctions
  /\ fr.device = NDevices => fr.function = 0
  /\ fr.function > 0 => Present(<<fr.bus, fr.device, 0>>)
  /\ fr.function \in 1..NFunctions - 1 => MultiFunction(<<fr.bus, fr.device, 0>>)
  /\ ListInv(fr.bus, fr.device, fr.functions)
  /\ \A j \in DOMAIN fr.functions : fr.functions[j].number < fr.function
  /\ \A f \in Wanted : (f[1] = fr.bus /\ f[2] = fr.device /\ f[3] < fr.function) =>
       \E j \in DOMAIN fr.functions : fr.functions[j].number = f[3]

Entered(F, fs) == F \cup {fs[k].bus : k \in DOMAIN fs}
DevicePassed(F, fs, bus, number) ==
  bus \in F \/ \E k \in DOMAIN fs : bus = fs[k].bus /\ number < fs[k].device
Passed(fr, f) ==
  f[1] = fr.bus /\ (f[2] < fr.device \/ (f[2] = fr.device /\ f[3] < fr.function))
Seen(F, fs, f) == f[1] \in F \/ \E k \in DOMAIN fs : Passed(fs[k], f)
HasFunction(ds, f) ==
  \E i \in DOMAIN ds : /\ ds[i].bus = f[1] /\ ds[i].number = f[2]
                       /\ \E j \in DOMAIN ds[i].functions : ds[i].functions[j].number = f[3]

DevicesInv(F, fs, ds) ==
  /\ \A i \in DOMAIN ds :
       ListInv(ds[i].bus, ds[i].number, ds[i].functions) /\ DevicePassed(F, fs, ds[i].bus, ds[i].number)
  /\ \A f \in Wanted : DevicePassed(F, fs, f[1], f[2]) => HasFunction(ds, f)

BusesInv(F, fs, rs, P) ==
  /\ \A f \in Bridges : Seen(F, fs, f) => Sec(f) \in Entered(F, fs) \cup P
  /\ Entered(F, fs) \cup P \subseteq Reached
  /\ HostBuses \subseteq Entered(F, fs) \cup P \cup {rs[i] : i \in DOMAIN rs}
  /\ \A i \in DOMAIN rs : rs[i] \in HostBuses

OnceInv(F, fs, rs, ds, P) ==
  /\ \A b \in Entered(F, fs) \cup P :
       \/ b \in HostBuses /\ \A i \in DOMAIN rs : rs[i] # b
       \/ \E f \in Bridges : Seen(F, fs, f) /\ Sec(f) = b
  /\ \A k \in DOMAIN fs : fs[k].bus \notin F
  /\ \A k, l \in DOMAIN fs : fs[k].bus = fs[l].bus => k = l
  /\ P \cap Entered(F, fs) = {}
  /\ \A i, j \in DOMAIN rs : rs[i] = rs[j] => i = j
  /\ \A i, j \in DOMAIN ds : ds[i].bus = ds[j].bus /\ ds[i].number = ds[j].number => i = j

Scanning(F, fs, rs, ds, P) ==
  /\ rs \in Seq(Nat) /\ fs \in Seq(Frames) /\ ds \in Seq(Listing)
  /\ \A k \in DOMAIN fs : FrameInv(fs[k])
  /\ DevicesInv(F, fs, ds)
  /\ BusesInv(F, fs, rs, P)
  /\ ~ScannedTwice => OnceInv(F, fs, rs, ds, P)

LEMMA EntryNumber == ASSUME NEW e \in Entries PROVE e.number \in Nat
<1>1. PICK f \in Nat \X Nat \X Nat : e = EntryOf(f)
  BY DEF Entries
<1>2. e.number = f[3]
  BY <1>1 DEF EntryOf
<1> QED BY <1>2

LEMMA FrameType ==
  ASSUME NEW fs \in Seq(Frames), NEW k \in DOMAIN fs
  PROVE  /\ fs[k] \in Frames
         /\ fs[k].bus \in Nat /\ fs[k].device \in Nat /\ fs[k].function \in Nat
<1>1. fs[k] \in Frames
  OBVIOUS
<1> QED BY <1>1 DEF Frames

LEMMA ListingType ==
  ASSUME NEW ds \in Seq(Listing), NEW k \in DOMAIN ds
  PROVE  ds[k] \in Listing /\ ds[k].bus \in Nat /\ ds[k].number \in Nat
<1>1. ds[k] \in Listing
  OBVIOUS
<1> QED BY <1>1 DEF Listing

(* The scan starts a bus of the host.                                      *)
LEMMA RootTaken ==
  ASSUME NEW F, NEW fs, NEW rs, NEW ds, Scanning(F, fs, rs, ds, {}), rs # <<>>
  PROVE  Scanning(F, fs, Tail(rs), ds, {Head(rs)})
<1>1. PICK r, ts : r = Head(rs) /\ ts = Tail(rs)
  OBVIOUS
<1>2. rs \in Seq(Nat)
  BY DEF Scanning
<1>3. /\ ts \in Seq(Nat) /\ 1 \in DOMAIN rs /\ r = rs[1]
      /\ \A i \in DOMAIN ts : i + 1 \in DOMAIN rs /\ ts[i] = rs[i + 1] /\ i + 1 # 1
      /\ \A i \in DOMAIN rs : i # 1 => i - 1 \in DOMAIN ts /\ rs[i] = ts[i - 1]
  BY <1>1, <1>2
<1>4. BusesInv(F, fs, ts, {r})
  <2>1. BusesInv(F, fs, rs, {})
    BY DEF Scanning
  <2>2. r \in HostBuses /\ r \in Reached
    BY <1>3, <2>1, ReachedIs DEF BusesInv
  <2>3. \A b \in {rs[i] : i \in DOMAIN rs} : b = r \/ b \in {ts[i] : i \in DOMAIN ts}
    BY <1>3
  <2> QED BY <2>1, <2>2, <2>3, <1>3 DEF BusesInv
<1>5. ASSUME ~ScannedTwice PROVE OnceInv(F, fs, ts, ds, {r})
  <2>1. OnceInv(F, fs, rs, ds, {}) /\ BusesInv(F, fs, rs, {})
    BY <1>5 DEF Scanning
  <2>2. r \in HostBuses
    BY <1>3, <2>1 DEF BusesInv
  <2>3. \A i \in DOMAIN ts : ts[i] # r
    BY <1>3, <2>1 DEF OnceInv
  <2>4. r \notin Entered(F, fs)
    <3>1. SUFFICES ASSUME r \in Entered(F, fs) PROVE FALSE
      OBVIOUS
    <3>2. PICK f \in Bridges : Seen(F, fs, f) /\ Sec(f) = r
      BY <3>1, <2>1, <1>3 DEF OnceInv
    <3>3. f[1] \in Reached
      BY <3>2, <2>1 DEF Seen, Passed, BusesInv, Entered
    <3> QED BY <3>2, <3>3, <2>2, <1>5, OnceIs
  <2>5. \A i, j \in DOMAIN ts : ts[i] = ts[j] => i = j
    <3>1. SUFFICES ASSUME NEW i \in DOMAIN ts, NEW j \in DOMAIN ts, ts[i] = ts[j] PROVE i = j
      OBVIOUS
    <3>2. i + 1 = j + 1
      BY <3>1, <1>3, <2>1 DEF OnceInv
    <3> QED BY <3>2, <1>3
  <2>6. ASSUME NEW b \in Entered(F, fs) \cup {r}
        PROVE  \/ b \in HostBuses /\ \A i \in DOMAIN ts : ts[i] # b
               \/ \E f \in Bridges : Seen(F, fs, f) /\ Sec(f) = b
    BY <2>1, <2>2, <2>3, <1>3 DEF OnceInv
  <2> QED BY <2>1, <2>4, <2>5, <2>6 DEF OnceInv
<1> QED BY <1>1, <1>3, <1>4, <1>5 DEF Scanning

LEMMA FrameStarts ==
  ASSUME booted \in DOMAIN Machines, NEW b \in Nat
  PROVE  Frame(b) \in Frames /\ FrameInv(Frame(b)) /\ Frame(b).bus = b
<1>1. PICK fr : fr = Frame(b)
  OBVIOUS
<1>2. fr.bus = b /\ fr.device = 0 /\ fr.function = 0 /\ fr.functions = <<>>
  BY <1>1 DEF Frame
<1>3. <<>> \in Seq(Entries) /\ DOMAIN <<>> = {}
  OBVIOUS
<1>4. fr \in Frames
  BY <1>1, <1>3 DEF Frame, Frames
<1>5. ListInv(fr.bus, fr.device, fr.functions)
  BY <1>2, <1>3 DEF ListInv
<1>6. \A f \in Wanted : ~(f[1] = fr.bus /\ f[2] = fr.device /\ f[3] < fr.function)
  <2>1. \A f \in Wanted : f[3] \in Nat
    BY FunctionType
  <2> QED BY <1>2, <2>1
<1> QED BY <1>1, <1>2, <1>3, <1>4, <1>5, <1>6, BusSizes DEF FrameInv

(* A bus is entered: pci_scan_bus is called.                               *)
LEMMA BusEntered ==
  ASSUME booted \in DOMAIN Machines, NEW F, NEW fs, NEW rs, NEW ds, NEW b \in Nat,
         Scanning(F, fs, rs, ds, {b})
  PROVE  Scanning(F, Append(fs, Frame(b)), rs, ds, {})
<1>1. PICK fr, gs, n : fr = Frame(b) /\ gs = Append(fs, fr) /\ n = Len(fs) + 1
  OBVIOUS
<1>2. fr \in Frames /\ FrameInv(fr) /\ fr.bus = b /\ fr.device = 0 /\ fr.function = 0
  BY <1>1, FrameStarts DEF Frame
<1>3. rs \in Seq(Nat) /\ fs \in Seq(Frames) /\ ds \in Seq(Listing)
  BY DEF Scanning
<1>4. /\ gs \in Seq(Frames) /\ DOMAIN gs = DOMAIN fs \cup {n} /\ n \notin DOMAIN fs /\ gs[n] = fr
      /\ \A k \in DOMAIN fs : gs[k] = fs[k]
  BY <1>1, <1>2, <1>3
<1>5. Entered(F, gs) = Entered(F, fs) \cup {b}
  BY <1>2, <1>4 DEF Entered
<1>6. \A f \in Bridges : Seen(F, gs, f) <=> Seen(F, fs, f)
  <2>1. \A f \in Bridges : ~Passed(fr, f)
    <3>1. SUFFICES ASSUME NEW f \in Bridges PROVE ~Passed(fr, f)
      OBVIOUS
    <3>2. f[2] \in Nat /\ f[3] \in Nat
      BY FunctionType
    <3> QED BY <3>2, <1>2 DEF Passed
  <2> QED BY <2>1, <1>4 DEF Seen
<1>7. \A bus, number \in Nat : DevicePassed(F, gs, bus, number) <=> DevicePassed(F, fs, bus, number)
  BY <1>2, <1>4 DEF DevicePassed
<1>8. DevicesInv(F, gs, ds)
  <2>1. DevicesInv(F, fs, ds)
    BY DEF Scanning
  <2>2. \A i \in DOMAIN ds : ds[i].bus \in Nat /\ ds[i].number \in Nat
    BY <1>3, ListingType
  <2>3. \A f \in Wanted : f[1] \in Nat /\ f[2] \in Nat
    BY FunctionType
  <2> QED BY <1>7, <2>1, <2>2, <2>3 DEF DevicesInv
<1>9. BusesInv(F, gs, rs, {})
  <2>1. BusesInv(F, fs, rs, {b})
    BY DEF Scanning
  <2> QED BY <2>1, <1>5, <1>6 DEF BusesInv
<1>10. ASSUME ~ScannedTwice PROVE OnceInv(F, gs, rs, ds, {})
  <2>1. OnceInv(F, fs, rs, ds, {b})
    BY <1>10 DEF Scanning
  <2>2. b \notin Entered(F, fs)
    BY <2>1 DEF OnceInv
  <2>3. \A k \in DOMAIN gs : gs[k].bus \notin F
    BY <2>1, <2>2, <1>2, <1>4 DEF OnceInv, Entered
  <2>4. \A k, l \in DOMAIN gs : gs[k].bus = gs[l].bus => k = l
    BY <2>1, <2>2, <1>2, <1>4 DEF OnceInv, Entered
  <2>5. ASSUME NEW c \in Entered(F, gs) \cup {}
        PROVE  \/ c \in HostBuses /\ \A i \in DOMAIN rs : rs[i] # c
               \/ \E f \in Bridges : Seen(F, gs, f) /\ Sec(f) = c
    BY <2>1, <1>5, <1>6 DEF OnceInv
  <2> QED BY <2>1, <2>3, <2>4, <2>5 DEF OnceInv
<1>11. \A k \in DOMAIN gs : FrameInv(gs[k])
  BY <1>2, <1>4 DEF Scanning
<1> QED BY <1>1, <1>3, <1>4, <1>8, <1>9, <1>10, <1>11 DEF Scanning

(* The innermost frame goes on to another function of its device.  P has   *)
(* the bus behind a bridge that it passes.                                 *)
LEMMA FunctionPassed ==
  ASSUME booted \in DOMAIN Machines, NEW F, NEW fs, NEW rs, NEW ds, Scanning(F, fs, rs, ds, {}),
         NEW n, n \in DOMAIN fs, NEW fr \in Frames, NEW P, NEW here,
         fr.bus = fs[n].bus, fr.device = fs[n].device, fs[n].function < fr.function, FrameInv(fr),
         \A f \in Bridges : Passed(fr, f) /\ ~Passed(fs[n], f) => f = here /\ P = {Sec(here)},
         P # {} => here \in Bridges /\ Passed(fr, here) /\ ~Passed(fs[n], here) /\ P = {Sec(here)}
  PROVE  Scanning(F, [fs EXCEPT ![n] = fr], rs, ds, P)
<1>1. PICK gs : gs = [fs EXCEPT ![n] = fr]
  OBVIOUS
<1>2. rs \in Seq(Nat) /\ fs \in Seq(Frames) /\ ds \in Seq(Listing)
  BY DEF Scanning
<1>3. /\ gs \in Seq(Frames) /\ DOMAIN gs = DOMAIN fs /\ gs[n] = fr
      /\ \A k \in DOMAIN fs : k # n => gs[k] = fs[k]
  BY <1>1, <1>2
<1>4. \A k \in DOMAIN fs : gs[k].bus = fs[k].bus /\ gs[k].device = fs[k].device
  BY <1>3
<1>5. Entered(F, gs) = Entered(F, fs)
  BY <1>3, <1>4 DEF Entered
<1>6. \A f \in Bridges : Seen(F, fs, f) => Seen(F, gs, f)
  <2>1. SUFFICES ASSUME NEW f \in Bridges, NEW k \in DOMAIN fs, Passed(fs[k], f) PROVE Passed(gs[k], f)
    BY <1>3 DEF Seen
  <2>2. f[3] \in Nat /\ fs[k].function \in Nat /\ gs[k].function \in Nat
    BY FunctionType, FrameType, <1>2, <1>3
  <2>3. fs[k].function <= gs[k].function
    BY <2>2, <1>3
  <2> QED BY <2>1, <2>2, <2>3, <1>4 DEF Passed
<1>7. \A f \in Bridges : Seen(F, gs, f) => Seen(F, fs, f) \/ (f = here /\ P = {Sec(here)})
  BY <1>3 DEF Seen
<1>8. DevicesInv(F, gs, ds)
  <2>1. DevicesInv(F, fs, ds)
    BY DEF Scanning
  <2>2. \A bus, number : DevicePassed(F, gs, bus, number) <=> DevicePassed(F, fs, bus, number)
    BY <1>3, <1>4 DEF DevicePassed
  <2> QED BY <2>1, <2>2 DEF DevicesInv
<1>9. BusesInv(F, fs, rs, {})
  BY DEF Scanning
<1>10. P # {} => here \in Bridges /\ here[1] \in Reached /\ here[1] = fs[n].bus
  BY <1>9 DEF BusesInv, Entered, Passed
<1>11. BusesInv(F, gs, rs, P)
  <2>1. P \subseteq Reached
    BY <1>10, ReachedIs
  <2> QED BY <2>1, <1>5, <1>7, <1>9 DEF BusesInv
<1>12. ASSUME ~ScannedTwice PROVE OnceInv(F, gs, rs, ds, P)
  <2>1. OnceInv(F, fs, rs, ds, {})
    BY <1>12 DEF Scanning
  <2>2. P # {} => Seen(F, gs, here)
    BY <1>3 DEF Seen
  <2>3. P # {} => ~Seen(F, fs, here)
    BY <2>1, <1>10 DEF Seen, OnceInv, Passed
  <2>4. P \cap Entered(F, gs) = {}
    <3>1. SUFFICES ASSUME P # {}, Sec(here) \in Entered(F, fs) PROVE FALSE
      BY <1>5
    <3>2. Sec(here) \notin HostBuses
      BY <3>1, <1>10, <1>12, OnceIs
    <3>3. PICK f \in Bridges : Seen(F, fs, f) /\ Sec(f) = Sec(here)
      BY <3>1, <3>2, <2>1 DEF OnceInv
    <3>4. f[1] \in Reached
      BY <3>3, <1>9 DEF Seen, Passed, BusesInv, Entered
    <3>5. f = here
      BY <3>1, <3>3, <3>4, <1>10, <1>12, OnceIs
    <3> QED BY <3>1, <3>3, <3>5, <2>3
  <2>5. ASSUME NEW c \in Entered(F, gs) \cup P
        PROVE  \/ c \in HostBuses /\ \A i \in DOMAIN rs : rs[i] # c
               \/ \E f \in Bridges : Seen(F, gs, f) /\ Sec(f) = c
    BY <2>1, <2>2, <1>5, <1>6 DEF OnceInv
  <2>6. \A k \in DOMAIN gs : gs[k].bus \notin F
    BY <2>1, <1>3, <1>4 DEF OnceInv
  <2>7. \A k, l \in DOMAIN gs : gs[k].bus = gs[l].bus => k = l
    BY <2>1, <1>3, <1>4 DEF OnceInv
  <2> QED BY <2>1, <2>4, <2>5, <2>6, <2>7 DEF OnceInv
<1>13. \A k \in DOMAIN gs : FrameInv(gs[k])
  BY <1>3 DEF Scanning
<1> QED BY <1>1, <1>2, <1>3, <1>8, <1>11, <1>12, <1>13 DEF Scanning

LEMMA NextDeviceIs ==
  ASSUME booted \in DOMAIN Machines, NEW fr \in Frames, FrameInv(fr), fr.device < NDevices
  PROVE  /\ NextDevice(fr) \in Frames /\ FrameInv(NextDevice(fr))
         /\ NextDevice(fr).bus = fr.bus /\ NextDevice(fr).device = fr.device + 1
         /\ NextDevice(fr).function = 0
<1>1. PICK gr : gr = NextDevice(fr)
  OBVIOUS
<1>2. fr.bus \in Nat /\ fr.device \in Nat /\ fr.device <= NDevices
  BY BusSizes DEF FrameInv
<1>3. gr = [bus |-> fr.bus, device |-> fr.device + 1, function |-> 0, functions |-> <<>>]
  BY <1>1 DEF NextDevice, Frame
<1>4. gr.bus = fr.bus /\ gr.device = fr.device + 1 /\ gr.function = 0 /\ gr.functions = <<>>
  BY <1>3
<1>5. <<>> \in Seq(Entries) /\ DOMAIN <<>> = {}
  OBVIOUS
<1>6. gr \in Frames
  BY <1>2, <1>3, <1>5 DEF Frames
<1>7. ListInv(gr.bus, gr.device, gr.functions)
  BY <1>4, <1>5 DEF ListInv
<1>8. \A f \in Wanted : ~(f[1] = gr.bus /\ f[2] = gr.device /\ f[3] < gr.function)
  <2>1. \A f \in Wanted : f[3] \in Nat
    BY FunctionType
  <2> QED BY <1>4, <2>1
<1> QED BY <1>1, <1>2, <1>4, <1>5, <1>6, <1>7, <1>8, BusSizes DEF FrameInv

(* The innermost frame goes on to the next device: it had no function to   *)
(* pass, or it has passed all of them and the device joins the list.       *)
LEMMA DeviceLeft ==
  ASSUME booted \in DOMAIN Machines, NEW F, NEW fs, NEW rs, NEW ds, Scanning(F, fs, rs, ds, {}),
         NEW n, n \in DOMAIN fs, fs[n].device < NDevices, NEW es,
         \/ es = ds /\ \A f \in Wanted \cup Bridges : ~(f[1] = fs[n].bus /\ f[2] = fs[n].device)
         \/ /\ fs[n].function = NFunctions
            /\ es = Append(ds, [bus |-> fs[n].bus, number |-> fs[n].device, functions |-> fs[n].functions])
  PROVE  Scanning(F, [fs EXCEPT ![n] = NextDevice(fs[n])], rs, es, {})
<1>1. PICK fr, gr, gs : fr = fs[n] /\ gr = NextDevice(fr) /\ gs = [fs EXCEPT ![n] = gr]
  OBVIOUS
<1>2. rs \in Seq(Nat) /\ fs \in Seq(Frames) /\ ds \in Seq(Listing)
  BY DEF Scanning
<1>3. fr \in Frames /\ FrameInv(fr) /\ fr.bus \in Nat /\ fr.device \in Nat /\ fr.function \in Nat
  BY <1>1, <1>2, FrameType DEF Scanning
<1>4. gr \in Frames /\ FrameInv(gr) /\ gr.bus = fr.bus /\ gr.device = fr.device + 1 /\ gr.function = 0
  BY <1>1, <1>3, NextDeviceIs
<1>5. /\ gs \in Seq(Frames) /\ DOMAIN gs = DOMAIN fs /\ gs[n] = gr
      /\ \A k \in DOMAIN fs : k # n => gs[k] = fs[k]
  BY <1>1, <1>2, <1>4
<1>6. \A k \in DOMAIN fs : gs[k].bus = fs[k].bus /\ fs[k].device <= gs[k].device /\ fs[k].device \in Nat
  BY <1>1, <1>2, <1>3, <1>4, <1>5, FrameType
<1>7. Entered(F, gs) = Entered(F, fs)
  BY <1>5, <1>6 DEF Entered
<1>8. ASSUME NEW f \in Wanted \cup Bridges
      PROVE  f[1] \in Nat /\ f[2] \in Nat /\ f[3] \in Nat /\ f[3] < NFunctions
  <2>1. f[3] \in 0..NFunctions - 1
    BY FunctionIs, Zenon
  <2> QED BY <2>1, FunctionType, BusSizes
<1>9. \A f \in Bridges : Passed(gr, f) <=> Passed(fr, f)
  <2>1. SUFFICES ASSUME NEW f \in Bridges PROVE Passed(gr, f) <=> Passed(fr, f)
    OBVIOUS
  <2>2. (f[1] = fr.bus /\ f[2] = fr.device) => f[3] < fr.function
    BY <1>1, <1>8
  <2> QED BY <1>3, <1>4, <1>8, <2>2 DEF Passed
<1>10. \A f \in Bridges : Seen(F, gs, f) <=> Seen(F, fs, f)
  BY <1>1, <1>5, <1>9 DEF Seen
<1>11. ASSUME NEW bus \in Nat, NEW number \in Nat
       PROVE  DevicePassed(F, gs, bus, number)
                <=> DevicePassed(F, fs, bus, number) \/ (bus = fr.bus /\ number = fr.device)
  <2>1. ASSUME DevicePassed(F, fs, bus, number) PROVE DevicePassed(F, gs, bus, number)
    <3>1. CASE bus \in F
      BY <3>1 DEF DevicePassed
    <3>2. ASSUME NEW k \in DOMAIN fs, bus = fs[k].bus, number < fs[k].device
          PROVE  bus = gs[k].bus /\ number < gs[k].device
      <4>1. gs[k].device \in Nat
        BY <1>5, FrameType
      <4> QED BY <3>2, <1>6, <4>1
    <3> QED BY <2>1, <3>1, <3>2, <1>5 DEF DevicePassed
  <2>2. ASSUME bus = fr.bus /\ number = fr.device PROVE DevicePassed(F, gs, bus, number)
    BY <2>2, <1>3, <1>4, <1>5 DEF DevicePassed
  <2>3. ASSUME DevicePassed(F, gs, bus, number), ~(bus = fr.bus /\ number = fr.device)
        PROVE  DevicePassed(F, fs, bus, number)
    <3>1. CASE bus \in F
      BY <3>1 DEF DevicePassed
    <3>2. ASSUME NEW k \in DOMAIN gs, bus = gs[k].bus, number < gs[k].device
          PROVE  bus = fs[k].bus /\ number < fs[k].device
      <4>1. CASE k = n
        BY <4>1, <3>2, <2>3, <1>1, <1>3, <1>4, <1>5
      <4>2. CASE k # n
        BY <4>2, <3>2, <1>5
      <4> QED BY <4>1, <4>2
    <3> QED BY <2>3, <3>1, <3>2, <1>5 DEF DevicePassed
  <2> QED BY <2>1, <2>2, <2>3
<1>12. BusesInv(F, gs, rs, {})
  <2>1. BusesInv(F, fs, rs, {})
    BY DEF Scanning
  <2> QED BY <2>1, <1>7, <1>10 DEF BusesInv
<1>13. PICK d : d = [bus |-> fr.bus, number |-> fr.device, functions |-> fr.functions]
  OBVIOUS
<1>14. d \in Listing /\ d.bus = fr.bus /\ d.number = fr.device /\ d.functions = fr.functions
  BY <1>3, <1>13 DEF Frames, Listing
<1>15. DevicesInv(F, fs, ds)
  BY DEF Scanning
<1>16. ASSUME NEW i \in DOMAIN ds
       PROVE  /\ ListInv(ds[i].bus, ds[i].number, ds[i].functions)
              /\ DevicePassed(F, fs, ds[i].bus, ds[i].number)
              /\ DevicePassed(F, gs, ds[i].bus, ds[i].number)
  BY <1>2, <1>11, <1>15, ListingType DEF DevicesInv
<1>17. \A k \in DOMAIN gs : FrameInv(gs[k])
  BY <1>4, <1>5 DEF Scanning
<1>18. ASSUME ~ScannedTwice
       PROVE  /\ OnceInv(F, gs, rs, ds, {})
              /\ \A i \in DOMAIN ds : ~(ds[i].bus = fr.bus /\ ds[i].number = fr.device)
  <2>1. OnceInv(F, fs, rs, ds, {})
    BY <1>18 DEF Scanning
  <2>2. \A k \in DOMAIN gs : gs[k].bus \notin F
    BY <2>1, <1>5, <1>6 DEF OnceInv
  <2>3. \A k, l \in DOMAIN gs : gs[k].bus = gs[l].bus => k = l
    BY <2>1, <1>5, <1>6 DEF OnceInv
  <2>4. OnceInv(F, gs, rs, ds, {})
    BY <2>1, <2>2, <2>3, <1>7, <1>10 DEF OnceInv
  <2>5. ASSUME NEW i \in DOMAIN ds, ds[i].bus = fr.bus /\ ds[i].number = fr.device PROVE FALSE
    <3>1. fr.bus \notin F /\ \A k \in DOMAIN fs : fs[k].bus = fr.bus => k = n
      BY <2>1, <1>1 DEF OnceInv
    <3>2. PICK k \in DOMAIN fs : fr.bus = fs[k].bus /\ fr.device < fs[k].device
      BY <2>5, <3>1, <1>16 DEF DevicePassed
    <3> QED BY <3>1, <3>2, <1>1, <1>3
  <2> QED BY <2>4, <2>5
<1>19. CASE es = ds /\ \A f \in Wanted \cup Bridges : ~(f[1] = fs[n].bus /\ f[2] = fs[n].device)
  <2>1. DevicesInv(F, gs, ds)
    BY <1>1, <1>8, <1>11, <1>15, <1>16, <1>19 DEF DevicesInv
  <2> QED BY <1>1, <1>2, <1>5, <1>12, <1>17, <1>18, <1>19, <2>1 DEF Scanning
<1>20. CASE fs[n].function = NFunctions /\ es = Append(ds, d)
  <2>1. PICK m : m = Len(ds) + 1
    OBVIOUS
  <2>2. /\ es \in Seq(Listing) /\ DOMAIN es = DOMAIN ds \cup {m} /\ m \notin DOMAIN ds /\ es[m] = d
        /\ \A i \in DOMAIN ds : es[i] = ds[i]
    BY <2>1, <1>2, <1>14, <1>20
  <2>3. ASSUME NEW i \in DOMAIN es
        PROVE  /\ ListInv(es[i].bus, es[i].number, es[i].functions)
               /\ DevicePassed(F, gs, es[i].bus, es[i].number)
    <3>1. CASE i = m
      BY <3>1, <2>2, <1>3, <1>11, <1>14 DEF FrameInv
    <3>2. CASE i # m
      BY <3>2, <2>2, <1>16
    <3> QED BY <3>1, <3>2
  <2>4. ASSUME NEW f \in Wanted, DevicePassed(F, gs, f[1], f[2]) PROVE HasFunction(es, f)
    <3>1. CASE DevicePassed(F, fs, f[1], f[2])
      <4>1. HasFunction(ds, f)
        BY <3>1, <1>15 DEF DevicesInv
      <4> QED BY <4>1, <2>2 DEF HasFunction
    <3>2. CASE f[1] = fr.bus /\ f[2] = fr.device
      <4>1. f[3] < fr.function
        BY <1>1, <1>8, <1>20
      <4>2. \E j \in DOMAIN fr.functions : fr.functions[j].number = f[3]
        BY <3>2, <4>1, <1>3 DEF FrameInv
      <4> QED BY <3>2, <4>2, <2>2, <1>14 DEF HasFunction
    <3> QED BY <3>1, <3>2, <2>4, <1>8, <1>11
  <2>5. DevicesInv(F, gs, es)
    BY <2>3, <2>4 DEF DevicesInv
  <2>6. ASSUME ~ScannedTwice PROVE OnceInv(F, gs, rs, es, {})
    <3>1. \A i, j \in DOMAIN es : es[i].bus = es[j].bus /\ es[i].number = es[j].number => i = j
      BY <1>18, <2>6, <2>2, <1>14 DEF OnceInv
    <3> QED BY <1>18, <2>6, <3>1 DEF OnceInv
  <2> QED BY <1>1, <1>2, <1>5, <1>12, <1>17, <2>2, <2>5, <2>6 DEF Scanning
<1> QED BY <1>1, <1>13, <1>19, <1>20

(* The loop of a bus ends.                                                 *)
LEMMA BusLeft ==
  ASSUME booted \in DOMAIN Machines, NEW F, NEW fs, NEW rs, NEW ds, Scanning(F, fs, rs, ds, {}),
         fs # <<>>, fs[Len(fs)].device = NDevices
  PROVE  Scanning(F \cup {fs[Len(fs)].bus}, Front(fs), rs, ds, {})
<1>1. PICK n, b, gs, G : n = Len(fs) /\ b = fs[n].bus /\ gs = Front(fs) /\ G = F \cup {b}
  OBVIOUS
<1>2. rs \in Seq(Nat) /\ fs \in Seq(Frames) /\ ds \in Seq(Listing)
  BY DEF Scanning
<1>3. /\ gs \in Seq(Frames) /\ DOMAIN fs = DOMAIN gs \cup {n} /\ n \notin DOMAIN gs
      /\ \A k \in DOMAIN gs : gs[k] = fs[k]
  BY <1>1, <1>2 DEF Front
<1>4. Entered(G, gs) = Entered(F, fs)
  BY <1>1, <1>3 DEF Entered
<1>5. ASSUME NEW f \in Wanted \cup Bridges PROVE f[2] < NDevices
  <2>1. f[2] \in 0..NDevices - 1
    BY FunctionIs, Zenon
  <2> QED BY <2>1, BusSizes
<1>6. \A f \in Bridges : Seen(G, gs, f) <=> Seen(F, fs, f)
  <2>1. \A f \in Bridges : Passed(fs[n], f) <=> f[1] = b
    BY <1>1, <1>5 DEF Passed
  <2> QED BY <2>1, <1>1, <1>3 DEF Seen
<1>7. \A bus, number : DevicePassed(F, fs, bus, number) => DevicePassed(G, gs, bus, number)
  BY <1>1, <1>3 DEF DevicePassed
<1>8. \A f \in Wanted : DevicePassed(G, gs, f[1], f[2]) => DevicePassed(F, fs, f[1], f[2])
  BY <1>1, <1>3, <1>5 DEF DevicePassed
<1>9. DevicesInv(G, gs, ds)
  <2>1. DevicesInv(F, fs, ds)
    BY DEF Scanning
  <2> QED BY <2>1, <1>7, <1>8 DEF DevicesInv
<1>10. BusesInv(G, gs, rs, {})
  <2>1. BusesInv(F, fs, rs, {})
    BY DEF Scanning
  <2> QED BY <2>1, <1>4, <1>6 DEF BusesInv
<1>11. ASSUME ~ScannedTwice PROVE OnceInv(G, gs, rs, ds, {})
  <2>1. OnceInv(F, fs, rs, ds, {})
    BY <1>11 DEF Scanning
  <2>2. \A k \in DOMAIN gs : gs[k].bus \notin G
    BY <2>1, <1>1, <1>3 DEF OnceInv
  <2>3. \A k, l \in DOMAIN gs : gs[k].bus = gs[l].bus => k = l
    BY <2>1, <1>3 DEF OnceInv
  <2> QED BY <2>1, <2>2, <2>3, <1>4, <1>6 DEF OnceInv
<1>12. \A k \in DOMAIN gs : FrameInv(gs[k])
  BY <1>3 DEF Scanning
<1> QED BY <1>1, <1>2, <1>3, <1>9, <1>10, <1>11, <1>12 DEF Scanning

-----------------------------------------------------------------------------
(* The steps of the scan.                                                  *)
LEMMA EntryIs == ASSUME NEW fr PROVE Entry(fr) = EntryOf(Here(fr))
BY DEF Entry, EntryOf, Here

(* A function that is there is usable, and either wanted or a bridge.      *)
LEMMA HereIs ==
  ASSUME booted \in DOMAIN Machines, NEW fr \in Frames, FrameInv(fr),
         fr.function < NFunctions, Present(Here(fr))
  PROVE  Here(fr) \in (IF IsBridge(Here(fr)) THEN Bridges ELSE Wanted)
<1>1. PICK f : f = Here(fr)
  OBVIOUS
<1>2. f = <<fr.bus, fr.device, fr.function>> /\ f[1] = fr.bus /\ f[2] = fr.device /\ f[3] = fr.function
  BY <1>1 DEF Here
<1>3. fr.function \in Nat
  BY DEF Frames
<1>4. Present(<<f[1], f[2], 0>>)
  <2>1. CASE fr.function = 0
    BY <2>1, <1>1, <1>2
  <2>2. CASE fr.function > 0
    BY <2>2, <1>2 DEF FrameInv
  <2> QED BY <2>1, <2>2, <1>3
<1>5. f[3] > 0 => MultiFunction(<<f[1], f[2], 0>>)
  BY <1>2, <1>3, BusSizes DEF FrameInv
<1>6. Usable(f)
  BY <1>1, <1>4, <1>5 DEF Usable
<1>7. f \in DOMAIN machine.config
  BY <1>1, PresentIs
<1> QED BY <1>1, <1>6, <1>7 DEF Wanted, Bridges

LEMMA NextFunctionIs ==
  ASSUME booted \in DOMAIN Machines, NEW fr \in Frames, FrameInv(fr),
         fr.function < NFunctions, Present(Here(fr))
  PROVE  /\ NextFunction(fr) \in 0..NFunctions /\ fr.function < NextFunction(fr)
         /\ NextFunction(fr) \in 1..NFunctions - 1 => MultiFunction(<<fr.bus, fr.device, 0>>)
         /\ Present(<<fr.bus, fr.device, 0>>)
         /\ \A f \in Wanted \cup Bridges :
              f[1] = fr.bus /\ f[2] = fr.device /\ f[3] < NextFunction(fr) /\ ~(f[3] < fr.function)
                => f = Here(fr)
<1>1. PICK m, n : m = NextFunction(fr) /\ n = fr.function
  OBVIOUS
<1>2. n \in Nat /\ Here(fr) = <<fr.bus, fr.device, n>>
  BY <1>1 DEF Frames, Here
<1>3. n = 0 => Here(fr) = <<fr.bus, fr.device, 0>>
  BY <1>2
<1>4. m = IF n > 0 \/ MultiFunction(Here(fr)) THEN n + 1 ELSE NFunctions
  BY <1>1 DEF NextFunction
<1>5. n > 0 => MultiFunction(<<fr.bus, fr.device, 0>>) /\ Present(<<fr.bus, fr.device, 0>>)
  BY <1>1, <1>2, BusSizes DEF FrameInv
<1>6. Present(<<fr.bus, fr.device, 0>>)
  BY <1>2, <1>3, <1>5
<1>7. m \in 0..NFunctions /\ n < m
  BY <1>1, <1>2, <1>4, BusSizes
<1>8. m \in 1..NFunctions - 1 => MultiFunction(<<fr.bus, fr.device, 0>>)
  BY <1>2, <1>3, <1>4, <1>5, BusSizes
<1>9. ASSUME NEW f \in Wanted \cup Bridges,
             f[1] = fr.bus /\ f[2] = fr.device /\ f[3] < m /\ ~(f[3] < n)
      PROVE  f = Here(fr)
  <2>1. f = <<f[1], f[2], f[3]>> /\ (f[3] > 0 => MultiFunction(<<f[1], f[2], 0>>))
    BY FunctionIs, Zenon
  <2>2. f[3] \in Nat
    BY FunctionType
  <2>3. f[3] = n
    <3>1. CASE n > 0 \/ MultiFunction(Here(fr))
      BY <3>1, <1>2, <1>4, <1>9, <2>2
    <3>2. CASE n = 0 /\ ~MultiFunction(Here(fr))
      BY <3>2, <1>3, <1>9, <2>1, <2>2
    <3> QED BY <3>1, <3>2, <1>2
  <2> QED BY <1>2, <1>9, <2>1, <2>3
<1> QED BY <1>1, <1>6, <1>7, <1>8, <1>9

(* The frame after a function, with or without the entry.                  *)
LEMMA FrameAfter ==
  ASSUME booted \in DOMAIN Machines, NEW fr \in Frames, FrameInv(fr), fr.device < NDevices,
         NEW m \in 0..NFunctions, fr.function < m,
         m \in 1..NFunctions - 1 => MultiFunction(<<fr.bus, fr.device, 0>>),
         Present(<<fr.bus, fr.device, 0>>),
         NEW list, ListInv(fr.bus, fr.device, list),
         \A j \in DOMAIN list : list[j].number < m,
         \A f \in Wanted : (f[1] = fr.bus /\ f[2] = fr.device /\ f[3] < m) =>
            \E j \in DOMAIN list : list[j].number = f[3],
         NEW gr, gr = [bus |-> fr.bus, device |-> fr.device, function |-> m, functions |-> list]
  PROVE  /\ gr \in Frames /\ FrameInv(gr)
         /\ gr.bus = fr.bus /\ gr.device = fr.device /\ gr.function = m
<1>1. fr.bus \in Nat /\ fr.device \in Nat /\ fr.function \in Nat /\ m \in Nat
  BY BusSizes DEF Frames
<1>2. gr.bus = fr.bus /\ gr.device = fr.device /\ gr.function = m /\ gr.functions = list
  OBVIOUS
<1>3. list \in Seq(Entries)
  BY DEF ListInv
<1>4. gr \in Frames
  BY <1>1, <1>3 DEF Frames
<1>5. fr.device # NDevices
  BY <1>1, BusSizes
<1> QED BY <1>1, <1>2, <1>4, <1>5, BusSizes DEF FrameInv

LEMMA ListGrows ==
  ASSUME booted \in DOMAIN Machines, NEW fr \in Frames, FrameInv(fr), NEW f \in Wanted,
         f = Here(fr)
  PROVE  /\ ListInv(fr.bus, fr.device, Append(fr.functions, EntryOf(f)))
         /\ \A j \in DOMAIN Append(fr.functions, EntryOf(f)) :
              Append(fr.functions, EntryOf(f))[j].number \in Nat
                /\ Append(fr.functions, EntryOf(f))[j].number <= fr.function
         /\ \A j \in DOMAIN fr.functions :
              /\ j \in DOMAIN Append(fr.functions, EntryOf(f))
              /\ Append(fr.functions, EntryOf(f))[j] = fr.functions[j]
         /\ \E j \in DOMAIN Append(fr.functions, EntryOf(f)) :
              Append(fr.functions, EntryOf(f))[j].number = fr.function
<1>1. PICK s, e, t, n : s = fr.functions /\ e = EntryOf(f) /\ t = Append(s, e) /\ n = Len(s) + 1
  OBVIOUS
<1>2. f = <<fr.bus, fr.device, fr.function>> /\ f[1] \in Nat /\ f[2] \in Nat /\ f[3] \in Nat
  BY FunctionType DEF Here
<1>3. e \in Entries /\ e.number = fr.function /\ fr.function \in Nat
  <2>1. f \in Nat \X Nat \X Nat
    BY <1>2
  <2>2. e.number = f[3] /\ f[3] = fr.function
    BY <1>1, <1>2 DEF EntryOf
  <2> QED BY <1>1, <1>2, <2>1, <2>2 DEF Entries
<1>4. /\ s \in Seq(Entries) /\ ListInv(fr.bus, fr.device, s)
      /\ \A j \in DOMAIN s : s[j].number < fr.function
  BY <1>1 DEF FrameInv, ListInv
<1>5. /\ t \in Seq(Entries) /\ DOMAIN t = DOMAIN s \cup {n} /\ n \notin DOMAIN s /\ t[n] = e
      /\ \A j \in DOMAIN s : t[j] = s[j]
  BY <1>1, <1>3, <1>4
<1>6. \A j \in DOMAIN s : s[j].number \in Nat
  <2>1. \A j \in DOMAIN s : s[j] \in Entries
    BY <1>4
  <2> QED BY <2>1, EntryNumber
<1>7. ListInv(fr.bus, fr.device, t)
  <2>1. ASSUME NEW j \in DOMAIN t
        PROVE  /\ <<fr.bus, fr.device, t[j].number>> \in Wanted
               /\ t[j] = EntryOf(<<fr.bus, fr.device, t[j].number>>)
    <3>1. CASE j = n
      BY <3>1, <1>1, <1>2, <1>3, <1>5
    <3>2. CASE j # n
      BY <3>2, <1>4, <1>5 DEF ListInv
    <3> QED BY <3>1, <3>2
  <2>2. ASSUME NEW i \in DOMAIN t, NEW j \in DOMAIN t, t[i].number = t[j].number PROVE i = j
    <3>1. \A k \in DOMAIN s : t[k].number < e.number /\ t[k].number \in Nat
      BY <1>3, <1>4, <1>5, <1>6
    <3>2. i = n <=> j = n
      BY <2>2, <3>1, <1>3, <1>5
    <3> QED BY <2>2, <3>2, <1>4, <1>5 DEF ListInv
  <2> QED BY <2>1, <2>2, <1>5 DEF ListInv
<1>8. \A j \in DOMAIN t : t[j].number \in Nat /\ t[j].number <= fr.function
  BY <1>3, <1>4, <1>5, <1>6
<1> QED BY <1>1, <1>3, <1>5, <1>7, <1>8

(* A function is there, and the scan goes on behind it.                    *)
LEMMA FunctionStep ==
  ASSUME booted \in DOMAIN Machines, NEW F, NEW fs, NEW rs, NEW ds, Scanning(F, fs, rs, ds, {}),
         NEW n, n \in DOMAIN fs, NEW fr, fr = fs[n], fr.device < NDevices, fr.function < NFunctions,
         Present(Here(fr))
  PROVE  \A next : next = [fr EXCEPT !.function = NextFunction(fr)] =>
         /\ IsBridge(Here(fr)) =>
              Scanning(F, [fs EXCEPT ![n] = next], rs, ds, {Sec(Here(fr))}) /\ Sec(Here(fr)) \in Nat
         /\ ~IsBridge(Here(fr)) =>
              Scanning(F, [fs EXCEPT ![n] = [next EXCEPT !.functions = Append(@, Entry(fr))]], rs, ds, {})
<1>1. PICK m, f : m = NextFunction(fr) /\ f = Here(fr)
  OBVIOUS
<1>2. fr \in Frames /\ FrameInv(fr) /\ fr.bus \in Nat /\ fr.device \in Nat /\ fr.function \in Nat
  BY FrameType DEF Scanning
<1>3. /\ m \in 0..NFunctions /\ fr.function < m
      /\ m \in 1..NFunctions - 1 => MultiFunction(<<fr.bus, fr.device, 0>>)
      /\ Present(<<fr.bus, fr.device, 0>>)
      /\ \A g \in Wanted \cup Bridges :
           g[1] = fr.bus /\ g[2] = fr.device /\ g[3] < m /\ ~(g[3] < fr.function) => g = f
  BY <1>1, <1>2, NextFunctionIs
<1>4. f = <<fr.bus, fr.device, fr.function>> /\ f[1] = fr.bus /\ f[2] = fr.device /\ f[3] = fr.function
  BY <1>1 DEF Here
<1>5. f \in (IF IsBridge(f) THEN Bridges ELSE Wanted)
  BY <1>1, <1>2, HereIs
<1>6. fr = [bus |-> fr.bus, device |-> fr.device, function |-> fr.function, functions |-> fr.functions]
  BY <1>2 DEF Frames
<1>7. m \in Nat
  BY <1>3, BusSizes
<1>8. Bridges \cap Wanted = {}
  BY DEF Bridges, Wanted
<1>9. ASSUME IsBridge(f), NEW next, next = [fr EXCEPT !.function = m]
      PROVE  Scanning(F, [fs EXCEPT ![n] = next], rs, ds, {Sec(f)}) /\ Sec(f) \in Nat
  <2>1. next = [bus |-> fr.bus, device |-> fr.device, function |-> m, functions |-> fr.functions]
    BY <1>6, <1>9
  <2>2. ListInv(fr.bus, fr.device, fr.functions)
    BY <1>2 DEF FrameInv
  <2>3. \A j \in DOMAIN fr.functions : fr.functions[j].number < m
    <3>1. SUFFICES ASSUME NEW j \in DOMAIN fr.functions PROVE fr.functions[j].number < m
      OBVIOUS
    <3>2. fr.functions[j].number < fr.function /\ fr.functions[j] \in Entries
      BY <1>2, <2>2 DEF FrameInv, ListInv
    <3> QED BY <3>2, <1>2, <1>3, <1>7, EntryNumber
  <2>4. ASSUME NEW g \in Wanted, g[1] = fr.bus /\ g[2] = fr.device /\ g[3] < m
        PROVE  \E j \in DOMAIN fr.functions : fr.functions[j].number = g[3]
    <3>1. g # f
      BY <1>5, <1>8, <1>9
    <3>2. g[3] < fr.function
      BY <2>4, <3>1, <1>3
    <3> QED BY <2>4, <3>2, <1>2 DEF FrameInv
  <2>5. /\ next \in Frames /\ FrameInv(next)
        /\ next.bus = fr.bus /\ next.device = fr.device /\ next.function = m
    <3>1. \A g \in Wanted : (g[1] = fr.bus /\ g[2] = fr.device /\ g[3] < m) =>
            \E j \in DOMAIN fr.functions : fr.functions[j].number = g[3]
      BY <2>4
    <3>2. /\ m \in 0..NFunctions /\ fr.function < m
          /\ m \in 1..NFunctions - 1 => MultiFunction(<<fr.bus, fr.device, 0>>)
          /\ Present(<<fr.bus, fr.device, 0>>)
      BY <1>3
    <3>3. PICK list : list = fr.functions
      OBVIOUS
    <3>4. /\ ListInv(fr.bus, fr.device, list) /\ \A j \in DOMAIN list : list[j].number < m
          /\ \A g \in Wanted : (g[1] = fr.bus /\ g[2] = fr.device /\ g[3] < m) =>
               \E j \in DOMAIN list : list[j].number = g[3]
          /\ next = [bus |-> fr.bus, device |-> fr.device, function |-> m, functions |-> list]
      BY <2>1, <2>2, <2>3, <3>1, <3>3
    <3> HIDE <3>3
    <3> QED BY <1>2, <3>2, <3>4, FrameAfter
  <2>6. \A g \in Bridges : Passed(next, g) /\ ~Passed(fr, g) => g = f
    BY <1>3, <2>5 DEF Passed
  <2>7. f \in Bridges /\ Passed(next, f) /\ ~Passed(fr, f)
    BY <1>2, <1>3, <1>4, <1>5, <1>9, <2>5 DEF Passed
  <2>8. PICK P : P = {Sec(f)}
    OBVIOUS
  <2>9. Scanning(F, [fs EXCEPT ![n] = next], rs, ds, P)
    <3>1. \A g \in Bridges : Passed(next, g) /\ ~Passed(fs[n], g) => g = f /\ P = {Sec(f)}
      BY <2>6, <2>8
    <3>2. P # {} => f \in Bridges /\ Passed(next, f) /\ ~Passed(fs[n], f) /\ P = {Sec(f)}
      BY <2>7, <2>8
    <3>3. next.bus = fs[n].bus /\ next.device = fs[n].device /\ fs[n].function < next.function
      BY <2>5, <1>3
    <3>4. next \in Frames /\ FrameInv(next)
      BY <2>5
    <3> HIDE <1>1, <1>3, <1>4, <1>6, <2>1
    <3> QED BY <3>1, <3>2, <3>3, <3>4, FunctionPassed
  <2> QED BY <2>7, <2>8, <2>9, SecType
<1>10. ASSUME ~IsBridge(f), NEW next, next = [fr EXCEPT !.function = m]
       PROVE  Scanning(F, [fs EXCEPT ![n] = [next EXCEPT !.functions = Append(@, Entry(fr))]], rs, ds, {})
  <2>1. PICK gr, t : gr = [next EXCEPT !.functions = Append(@, Entry(fr))] /\ t = Append(fr.functions, EntryOf(f))
    OBVIOUS
  <2>2. Entry(fr) = EntryOf(f)
    BY <1>1, EntryIs
  <2>3. next = [bus |-> fr.bus, device |-> fr.device, function |-> m, functions |-> fr.functions]
    BY <1>6, <1>10
  <2>4. gr = [bus |-> fr.bus, device |-> fr.device, function |-> m, functions |-> t]
    <3>1. PICK e : e = EntryOf(f)
      OBVIOUS
    <3>2. next.functions = fr.functions
      BY <2>3
    <3>3. Append(next.functions, Entry(fr)) = t
      BY <2>1, <2>2, <3>1, <3>2
    <3>4. gr = [next EXCEPT !.functions = t]
      BY <2>1, <3>3
    <3> QED BY <2>3, <3>4
  <2>5. f \in Wanted
    BY <1>5, <1>10
  <2>6. /\ ListInv(fr.bus, fr.device, t)
        /\ \A j \in DOMAIN t : t[j].number \in Nat /\ t[j].number <= fr.function
        /\ \A j \in DOMAIN fr.functions : j \in DOMAIN t /\ t[j] = fr.functions[j]
        /\ \E j \in DOMAIN t : t[j].number = fr.function
    <3>1. f = Here(fr)
      BY <1>1
    <3> HIDE <1>1
    <3>2. t = Append(fr.functions, EntryOf(f))
      BY <2>1
    <3>3. PICK u : u = Append(fr.functions, EntryOf(f))
      OBVIOUS
    <3>4. /\ ListInv(fr.bus, fr.device, u)
          /\ \A j \in DOMAIN u : u[j].number \in Nat /\ u[j].number <= fr.function
          /\ \A j \in DOMAIN fr.functions : j \in DOMAIN u /\ u[j] = fr.functions[j]
          /\ \E j \in DOMAIN u : u[j].number = fr.function
      <4>1. fr \in Frames /\ FrameInv(fr)
        BY <1>2
      <4>2. ListInv(fr.bus, fr.device, Append(fr.functions, EntryOf(f)))
        BY <4>1, <2>5, <3>1, ListGrows, Zenon
      <4>3. \A j \in DOMAIN Append(fr.functions, EntryOf(f)) :
              Append(fr.functions, EntryOf(f))[j].number \in Nat
                /\ Append(fr.functions, EntryOf(f))[j].number <= fr.function
        BY <4>1, <2>5, <3>1, ListGrows, Zenon
      <4>4. \A j \in DOMAIN fr.functions :
              /\ j \in DOMAIN Append(fr.functions, EntryOf(f))
              /\ Append(fr.functions, EntryOf(f))[j] = fr.functions[j]
        BY <4>1, <2>5, <3>1, ListGrows, Zenon
      <4>5. \E j \in DOMAIN Append(fr.functions, EntryOf(f)) :
              Append(fr.functions, EntryOf(f))[j].number = fr.function
        BY <4>1, <2>5, <3>1, ListGrows, Zenon
      <4> QED BY <3>3, <4>2, <4>3, <4>4, <4>5, Zenon
    <3> QED BY <3>2, <3>3, <3>4
  <2>7. \A j \in DOMAIN t : t[j].number < m
    BY <1>2, <1>3, <1>7, <2>6
  <2>8. ASSUME NEW g \in Wanted, g[1] = fr.bus /\ g[2] = fr.device /\ g[3] < m
        PROVE  \E j \in DOMAIN t : t[j].number = g[3]
    <3>1. CASE g[3] < fr.function
      <4>1. PICK j \in DOMAIN fr.functions : fr.functions[j].number = g[3]
        BY <2>8, <3>1, <1>2 DEF FrameInv
      <4> QED BY <4>1, <2>6
    <3>2. CASE ~(g[3] < fr.function)
      <4>1. g = f
        BY <2>8, <3>2, <1>3
      <4> QED BY <4>1, <1>4, <2>6
    <3> QED BY <3>1, <3>2
  <2>9. /\ gr \in Frames /\ FrameInv(gr)
        /\ gr.bus = fr.bus /\ gr.device = fr.device /\ gr.function = m
    BY <1>2, <1>3, <2>4, <2>6, <2>7, <2>8, FrameAfter
  <2>10. \A g \in Bridges : ~(Passed(gr, g) /\ ~Passed(fr, g))
    <3>1. \A g \in Bridges : Passed(gr, g) /\ ~Passed(fr, g) => g = f
      BY <1>3, <2>9 DEF Passed
    <3> QED BY <3>1, <2>5, <1>8
  <2>11. Scanning(F, [fs EXCEPT ![n] = gr], rs, ds, {})
    <3>1. \A g \in Bridges : Passed(gr, g) /\ ~Passed(fs[n], g) => g = f /\ {} = {Sec(f)}
      BY <2>10
    <3>2. gr.bus = fs[n].bus /\ gr.device = fs[n].device /\ fs[n].function < gr.function
      BY <2>9, <1>3
    <3>3. gr \in Frames /\ FrameInv(gr)
      BY <2>9
    <3> HIDE <1>1, <1>3, <1>4, <1>6, <2>1, <2>4
    <3> QED BY <3>1, <3>2, <3>3, FunctionPassed
  <2> QED BY <2>1, <2>11
<1> QED BY <1>1, <1>9, <1>10

(* A function after the first is not there.                                *)
LEMMA AbsentStep ==
  ASSUME booted \in DOMAIN Machines, NEW F, NEW fs, NEW rs, NEW ds, Scanning(F, fs, rs, ds, {}),
         NEW n, n \in DOMAIN fs, NEW fr, fr = fs[n], fr.device < NDevices, fr.function < NFunctions,
         ~Present(Here(fr))
  PROVE  /\ fr.function = 0 => Scanning(F, [fs EXCEPT ![n] = NextDevice(fr)], rs, ds, {})
         /\ fr.function # 0 => Scanning(F, [fs EXCEPT ![n] = [fr EXCEPT !.function = @ + 1]], rs, ds, {})
<1>1. fr \in Frames /\ FrameInv(fr) /\ fr.bus \in Nat /\ fr.device \in Nat /\ fr.function \in Nat
  BY FrameType DEF Scanning
<1>2. Here(fr) = <<fr.bus, fr.device, fr.function>>
  BY DEF Here
<1>3. ASSUME fr.function = 0 PROVE Scanning(F, [fs EXCEPT ![n] = NextDevice(fr)], rs, ds, {})
  <2>1. ASSUME NEW f \in Wanted \cup Bridges, f[1] = fr.bus /\ f[2] = fr.device PROVE FALSE
    <3>1. Present(<<f[1], f[2], 0>>)
      BY FunctionIs, Zenon
    <3> QED BY <3>1, <2>1, <1>2, <1>3
  <2>2. \A f \in Wanted \cup Bridges : ~(f[1] = fs[n].bus /\ f[2] = fs[n].device)
    BY <2>1
  <2>3. fs[n].device < NDevices
    OBVIOUS
  <2> QED BY <2>2, <2>3, DeviceLeft
<1>4. ASSUME fr.function # 0
      PROVE  Scanning(F, [fs EXCEPT ![n] = [fr EXCEPT !.function = @ + 1]], rs, ds, {})
  <2>1. PICK gr, m : gr = [fr EXCEPT !.function = @ + 1] /\ m = fr.function + 1
    OBVIOUS
  <2>2. gr = [bus |-> fr.bus, device |-> fr.device, function |-> m, functions |-> fr.functions]
    BY <1>1, <2>1 DEF Frames
  <2>3. m \in 0..NFunctions /\ m \in Nat /\ fr.function < m
    BY <1>1, <2>1, BusSizes
  <2>4. Present(<<fr.bus, fr.device, 0>>) /\ MultiFunction(<<fr.bus, fr.device, 0>>)
    BY <1>1, <1>4, BusSizes DEF FrameInv
  <2>5. ListInv(fr.bus, fr.device, fr.functions)
    BY <1>1 DEF FrameInv
  <2>6. \A j \in DOMAIN fr.functions : fr.functions[j].number < m
    <3>1. SUFFICES ASSUME NEW j \in DOMAIN fr.functions PROVE fr.functions[j].number < m
      OBVIOUS
    <3>2. fr.functions[j].number < fr.function /\ fr.functions[j] \in Entries
      BY <1>1, <2>5 DEF FrameInv, ListInv
    <3> QED BY <3>2, <1>1, <2>3, EntryNumber
  <2>7. ASSUME NEW g \in Wanted \cup Bridges, g[1] = fr.bus /\ g[2] = fr.device /\ g[3] < m
        PROVE  g[3] < fr.function
    <3>1. g = <<g[1], g[2], g[3]>> /\ Present(g)
      BY FunctionIs, Zenon
    <3>2. g[3] # fr.function
      BY <3>1, <2>7, <1>2
    <3> QED BY <3>2, <2>1, <2>7, <1>1, FunctionType
  <2>8. \A g \in Wanted : (g[1] = fr.bus /\ g[2] = fr.device /\ g[3] < m) =>
          \E j \in DOMAIN fr.functions : fr.functions[j].number = g[3]
    BY <2>7, <1>1 DEF FrameInv
  <2>9. /\ gr \in Frames /\ FrameInv(gr)
        /\ gr.bus = fr.bus /\ gr.device = fr.device /\ gr.function = m
    BY <1>1, <2>2, <2>3, <2>4, <2>5, <2>6, <2>8, FrameAfter
  <2>10. \A g \in Bridges : ~(Passed(gr, g) /\ ~Passed(fr, g))
    BY <2>7, <2>9 DEF Passed
  <2>11. Scanning(F, [fs EXCEPT ![n] = gr], rs, ds, {})
    <3>1. \A g \in Bridges : Passed(gr, g) /\ ~Passed(fs[n], g) => g = 0 /\ {} = {Sec(0)}
      BY <2>10
    <3>2. gr.bus = fs[n].bus /\ gr.device = fs[n].device /\ fs[n].function < gr.function
      BY <2>3, <2>9
    <3>3. gr \in Frames /\ FrameInv(gr)
      BY <2>9
    <3> QED BY <3>1, <3>2, <3>3, FunctionPassed
  <2> QED BY <2>1, <2>11
<1> QED BY <1>3, <1>4

-----------------------------------------------------------------------------
(* The state of the scan is that of the machine, which stays the same.     *)
LEMMA ConfigSame ==
  ASSUME booted' = booted, NEW f
  PROVE  /\ Present(f)' <=> Present(f)
         /\ MultiFunction(f)' <=> MultiFunction(f)
         /\ Sec(f)' = Sec(f) /\ (IsBridge(f)' <=> IsBridge(f))
         /\ EntryOf(f)' = EntryOf(f)
<1>1. machine' = machine
  BY DEF machine
<1>2. ASSUME NEW g, NEW reg PROVE pci_config_readl(g, reg)' = pci_config_readl(g, reg)
  BY <1>1 DEF pci_config_readl, Config
<1>3. ASSUME NEW g, NEW reg PROVE pci_config_readw(g, reg)' = pci_config_readw(g, reg)
  BY <1>2 DEF pci_config_readw
<1>4. pci_get_device_id(f)' = pci_get_device_id(f)
  BY <1>3 DEF pci_get_device_id
<1>5. pci_get_class_code(f)' = pci_get_class_code(f)
  BY <1>2 DEF pci_get_class_code
<1>6. Present(f)' <=> Present(f)
  BY <1>4 DEF Present
<1>7. MultiFunction(f)' <=> MultiFunction(f)
  BY <1>3 DEF MultiFunction, pci_get_header_type
<1>8. Sec(f)' = Sec(f)
  BY <1>2 DEF Sec, pci_get_secondary_bus_number
<1>9. IsBridge(f)' <=> IsBridge(f)
  BY <1>5 DEF IsBridge
<1>10. EntryOf(f)' = EntryOf(f)
  BY <1>4, <1>5 DEF EntryOf
<1> QED BY <1>6, <1>7, <1>8, <1>9, <1>10

LEMMA BusesSame ==
  ASSUME booted' = booted
  PROVE  /\ Wanted' = Wanted /\ Bridges' = Bridges /\ HostBuses' = HostBuses /\ Reached' = Reached
         /\ ScannedTwice' <=> ScannedTwice
         /\ Entries' = Entries
<1>1. machine' = machine
  BY DEF machine
<1>2. ASSUME NEW f PROVE Usable(f)' <=> Usable(f)
  BY ConfigSame DEF Usable
<1>3. Bridges' = Bridges
  BY <1>1, <1>2, ConfigSame DEF Bridges
<1>4. Wanted' = Wanted
  BY <1>1, <1>2, ConfigSame DEF Wanted
<1>5. HostBuses' = HostBuses
  BY ConfigSame DEF HostBuses
<1>6. \A f : Sec(f)' = Sec(f)
  BY ConfigSame
<1>7. Reached' = Reached
  <2> DEFINE Behind == {Sec(f) : f \in Bridges}
             Closed == {B \in {HostBuses \cup X : X \in SUBSET Behind} :
                          \A f \in Bridges : f[1] \in B => Sec(f) \in B}
  <2>1. Behind' = Behind
    BY <1>3, <1>6
  <2>2. {HostBuses \cup X : X \in SUBSET Behind}' = {HostBuses \cup X : X \in SUBSET Behind}
    <3> HIDE DEF Behind
    <3> QED BY <1>5, <2>1
  <2>3. ASSUME NEW B
        PROVE  (\A f \in Bridges : f[1] \in B => Sec(f) \in B)' <=> (\A f \in Bridges : f[1] \in B => Sec(f) \in B)
    BY <1>3, <1>6
  <2>4. \A B : B \in Closed' <=> B \in Closed
    BY <2>2, <2>3
  <2>5. Reached = {b \in HostBuses \cup Behind : \A B \in Closed : b \in B}
    BY Zenon DEF Reached, Sec
  <2>6. Reached' = {b \in HostBuses \cup Behind : \A B \in Closed : b \in B}'
    BY Zenon DEF Reached, Sec
  <2> HIDE DEF Closed, Behind
  <2> QED BY <1>5, <2>1, <2>4, <2>5, <2>6
<1>8. ScannedTwice' <=> ScannedTwice
  BY <1>3, <1>5, <1>6, <1>7 DEF ScannedTwice, Sec
<1>9. Entries' = Entries
  <2>1. \A f : EntryOf(f)' = EntryOf(f)
    BY ConfigSame
  <2> QED BY <2>1 DEF Entries
<1> QED BY <1>3, <1>4, <1>5, <1>7, <1>8, <1>9

LEMMA ScanSame ==
  ASSUME booted' = booted, NEW F, NEW fs, NEW rs, NEW ds, NEW P
  PROVE  Scanning(F, fs, rs, ds, P)' <=> Scanning(F, fs, rs, ds, P)
<1>1. /\ Wanted' = Wanted /\ Bridges' = Bridges /\ HostBuses' = HostBuses /\ Reached' = Reached
      /\ ScannedTwice' <=> ScannedTwice
      /\ Entries' = Entries
  BY BusesSame
<1>2. \A f : Present(f)' <=> Present(f)
  BY ConfigSame
<1>3. \A f : MultiFunction(f)' <=> MultiFunction(f)
  BY ConfigSame
<1>4. \A f : Sec(f)' = Sec(f) /\ EntryOf(f)' = EntryOf(f)
  BY ConfigSame
<1>5. Frames' = Frames /\ Listing' = Listing
  BY <1>1 DEF Frames, Listing
<1>6. ASSUME NEW b, NEW n, NEW l PROVE ListInv(b, n, l)' <=> ListInv(b, n, l)
  BY <1>1, <1>4 DEF ListInv
<1>7. ASSUME NEW fr PROVE FrameInv(fr)' <=> FrameInv(fr)
  BY <1>1, <1>2, <1>3, <1>6 DEF FrameInv
<1>8. DevicesInv(F, fs, ds)' <=> DevicesInv(F, fs, ds)
  BY <1>1, <1>6 DEF DevicesInv, DevicePassed, HasFunction
<1>9. BusesInv(F, fs, rs, P)' <=> BusesInv(F, fs, rs, P)
  BY <1>1, <1>4 DEF BusesInv, Seen, Passed, Entered
<1>10. OnceInv(F, fs, rs, ds, P)' <=> OnceInv(F, fs, rs, ds, P)
  BY <1>1, <1>4 DEF OnceInv, Seen, Passed, Entered
<1> QED BY <1>1, <1>5, <1>7, <1>8, <1>9, <1>10 DEF Scanning

-----------------------------------------------------------------------------
(* What holds during the boot: before, during and after the scan.          *)
Walking == \E F : Scanning(F, frames, roots, pci_devices, {})

PciInv ==
  /\ booted \in DOMAIN Machines
  /\ \/ scan = "off" /\ frames = <<>> /\ roots = <<>> /\ pci_devices = <<>>
     \/ scan = "scan" /\ Walking
     \/ scan = "done" /\ Walking /\ frames = <<>> /\ roots = <<>>
  /\ EveryFunctionOnce

(* pci_scan has the buses of the host before it.                           *)
HostList ==
  IF ~MultiFunction(<<0, 0, 0>>) THEN <<0>>
  ELSE IF ~Present(<<0, 0, 0>>) THEN <<>>
  ELSE [i \in 1..NFunctions |-> i - 1]

LEMMA HostRoots ==
  ASSUME NEW rs, rs = HostList
  PROVE  /\ rs \in Seq(Nat) /\ {rs[i] : i \in DOMAIN rs} = HostBuses
         /\ \A i, j \in DOMAIN rs : rs[i] = rs[j] => i = j
<1>1. CASE ~MultiFunction(<<0, 0, 0>>)
  <2>1. rs = <<0>> /\ HostBuses = {0}
    BY <1>1, Zenon DEF HostBuses, HostList
  <2> QED BY <2>1
<1>2. CASE MultiFunction(<<0, 0, 0>>) /\ ~Present(<<0, 0, 0>>)
  <2>1. rs = <<>> /\ HostBuses = {}
    BY <1>2, Zenon DEF HostBuses, HostList
  <2> QED BY <2>1
<1>3. CASE MultiFunction(<<0, 0, 0>>) /\ Present(<<0, 0, 0>>)
  <2>1. rs = [i \in 1..NFunctions |-> i - 1] /\ HostBuses = 0..NFunctions - 1
    BY <1>3, Zenon DEF HostBuses, HostList
  <2>2. DOMAIN rs = 1..NFunctions /\ \A i \in 1..NFunctions : rs[i] = i - 1
    BY <2>1
  <2>3. rs \in Seq(Nat)
    BY <2>1, BusSizes
  <2>4. ASSUME NEW b \in 0..NFunctions - 1 PROVE b \in {rs[i] : i \in DOMAIN rs}
    <3>1. b + 1 \in 1..NFunctions /\ rs[b + 1] = b
      BY <2>2, BusSizes
    <3>2. b + 1 \in DOMAIN rs
      BY <2>2, <3>1
    <3> QED BY <3>1, <3>2
  <2>5. {rs[i] : i \in DOMAIN rs} \subseteq 0..NFunctions - 1
    BY <2>2, BusSizes
  <2>6. {rs[i] : i \in DOMAIN rs} = HostBuses
    BY <2>1, <2>4, <2>5
  <2>7. \A i, j \in DOMAIN rs : rs[i] = rs[j] => i = j
    BY <2>2, BusSizes
  <2> QED BY <2>3, <2>6, <2>7
<1> QED BY <1>1, <1>2, <1>3

LEMMA ScanStarts ==
  ASSUME NEW rs \in Seq(Nat), {rs[i] : i \in DOMAIN rs} = HostBuses,
         \A i, j \in DOMAIN rs : rs[i] = rs[j] => i = j
  PROVE  Scanning({}, <<>>, rs, <<>>, {})
<1>1. PICK e : e = <<>>
  OBVIOUS
<1>2. e \in Seq(Frames) /\ e \in Seq(Listing) /\ DOMAIN e = {}
  BY <1>1
<1>3. Entered({}, e) = {} /\ \A f : ~Seen({}, e, f)
  BY <1>2 DEF Entered, Seen
<1>4. \A bus, number : ~DevicePassed({}, e, bus, number)
  BY <1>2 DEF DevicePassed
<1>5. DevicesInv({}, e, e)
  BY <1>2, <1>4 DEF DevicesInv
<1>6. BusesInv({}, e, rs, {})
  BY <1>3 DEF BusesInv
<1>7. OnceInv({}, e, rs, e, {})
  BY <1>2, <1>3 DEF OnceInv
<1> QED BY <1>1, <1>2, <1>5, <1>6, <1>7 DEF Scanning

(* The steps of the scan.                                                  *)
LEMMA WalkingNext ==
  ASSUME booted' = booted, NEW F, Scanning(F, frames', roots', pci_devices', {})
  PROVE  Walking'
<1>1. PICK fs, rs, ds : fs = frames' /\ rs = roots' /\ ds = pci_devices'
  OBVIOUS
<1>2. Scanning(F, fs, rs, ds, {})'
  BY <1>1, ScanSame
<1> QED BY <1>1, <1>2 DEF Walking

LEMMA WalkStarts ==
  ASSUME PciInv, pci_scan PROVE Walking'
<1>1. PICK rs : rs = roots'
  OBVIOUS
<1>2. frames' = <<>> /\ pci_devices' = <<>> /\ booted' = booted
  BY DEF PciInv, pci_scan
<1>3. rs = HostList
  BY <1>1, Zenon DEF pci_scan, HostList
<1>4. Scanning({}, <<>>, rs, <<>>, {})
  BY <1>3, HostRoots, ScanStarts
<1> QED BY <1>1, <1>2, <1>4, WalkingNext

LEMMA WalkBus ==
  ASSUME booted \in DOMAIN Machines, Walking, pci_scan_bus PROVE Walking'
<1>1. PICK F : Scanning(F, frames, roots, pci_devices, {})
  BY DEF Walking
<1>2. PICK fs, rs, ds : fs = frames /\ rs = roots /\ ds = pci_devices
  OBVIOUS
<1>3. /\ fs = <<>> /\ rs # <<>> /\ frames' = <<Frame(Head(rs))>> /\ roots' = Tail(rs)
      /\ booted' = booted /\ pci_devices' = ds
  BY <1>2 DEF pci_scan_bus
<1>4. Scanning(F, fs, rs, ds, {})
  BY <1>1, <1>2
<1>5. Scanning(F, fs, Tail(rs), ds, {Head(rs)})
  BY <1>3, <1>4, RootTaken
<1>6. Head(rs) \in Nat
  BY <1>3, <1>4 DEF Scanning
<1>7. PICK b, ts : b = Head(rs) /\ ts = Tail(rs)
  OBVIOUS
<1>8. Scanning(F, Append(fs, Frame(b)), ts, ds, {})
  BY <1>5, <1>6, <1>7, BusEntered
<1>9. Append(fs, Frame(b)) = <<Frame(b)>>
  BY <1>3
<1>10. Scanning(F, frames', roots', pci_devices', {})
  BY <1>3, <1>7, <1>8, <1>9
<1> QED BY <1>3, <1>10, WalkingNext

(* The innermost frame.                                                    *)
LEMMA TopIs ==
  ASSUME NEW fs \in Seq(Frames), fs # <<>>
  PROVE  Len(fs) \in DOMAIN fs /\ Last(fs) = fs[Len(fs)]
BY DEF Last

LEMMA WalkFunction ==
  ASSUME booted \in DOMAIN Machines, Walking, pci_scan_device_function PROVE Walking'
<1>1. PICK F : Scanning(F, frames, roots, pci_devices, {})
  BY DEF Walking
<1>2. PICK fs, rs, ds, n, fr : /\ fs = frames /\ rs = roots /\ ds = pci_devices
                               /\ n = Len(fs) /\ fr = fs[n]
  OBVIOUS
<1>3. Scanning(F, fs, rs, ds, {})
  BY <1>1, <1>2
<1>4. fs # <<>> /\ booted' = booted /\ roots' = rs /\ pci_devices' = ds
  BY <1>2 DEF pci_scan_device_function
<1>5. n \in DOMAIN fs /\ Last(frames) = fr
  BY <1>2, <1>3, <1>4, TopIs DEF Scanning
<1>6. PICK next, here : next = [fr EXCEPT !.function = NextFunction(fr)] /\ here = Here(fr)
  OBVIOUS
<1>7. fr.device < NDevices /\ fr.function < NFunctions /\ Present(here)
  BY <1>5, <1>6 DEF pci_scan_device_function
<1>8. frames' = IF IsBridge(here) THEN Append([fs EXCEPT ![n] = next], Frame(Sec(here)))
                ELSE [fs EXCEPT ![n] = [next EXCEPT !.functions = Append(@, Entry(fr))]]
  <2>1. frames' = IF IsBridge(Here(Last(frames)))
                  THEN Append(Top([Last(frames) EXCEPT !.function = NextFunction(Last(frames))]),
                              Frame(Sec(Here(Last(frames)))))
                  ELSE Top([[Last(frames) EXCEPT !.function = NextFunction(Last(frames))]
                              EXCEPT !.functions = Append(@, Entry(Last(frames)))])
    BY DEF pci_scan_device_function, IsBridge, Sec
  <2>2. \A g : Top(g) = [fs EXCEPT ![n] = g]
    BY <1>2 DEF Top
  <2> QED BY <1>5, <1>6, <2>1, <2>2
<1>9. /\ IsBridge(here) => Scanning(F, [fs EXCEPT ![n] = next], rs, ds, {Sec(here)}) /\ Sec(here) \in Nat
      /\ ~IsBridge(here) =>
           Scanning(F, [fs EXCEPT ![n] = [next EXCEPT !.functions = Append(@, Entry(fr))]], rs, ds, {})
  <2>1. Present(Here(fr))
    BY <1>6, <1>7
  <2>2. \A g : g = [fr EXCEPT !.function = NextFunction(fr)] =>
          /\ IsBridge(Here(fr)) => Scanning(F, [fs EXCEPT ![n] = g], rs, ds, {Sec(Here(fr))}) /\ Sec(Here(fr)) \in Nat
          /\ ~IsBridge(Here(fr)) =>
               Scanning(F, [fs EXCEPT ![n] = [g EXCEPT !.functions = Append(@, Entry(fr))]], rs, ds, {})
    BY <1>2, <1>3, <1>5, <1>7, <2>1, FunctionStep, Zenon
  <2> QED BY <1>6, <2>2
<1>10. CASE IsBridge(here)
  <2>1. PICK gs, b : gs = [fs EXCEPT ![n] = next] /\ b = Sec(here)
    OBVIOUS
  <2>2. Scanning(F, gs, rs, ds, {b}) /\ b \in Nat
    BY <1>9, <1>10, <2>1
  <2>3. Scanning(F, Append(gs, Frame(b)), rs, ds, {})
    BY <2>2, BusEntered
  <2>4. frames' = Append(gs, Frame(b))
    BY <1>8, <1>10, <2>1
  <2> QED BY <1>4, <2>3, <2>4, WalkingNext
<1>11. CASE ~IsBridge(here)
  BY <1>4, <1>8, <1>9, <1>11, WalkingNext
<1> QED BY <1>10, <1>11

LEMMA WalkDevice ==
  ASSUME booted \in DOMAIN Machines, Walking, pci_scan_device PROVE Walking'
<1>1. PICK F : Scanning(F, frames, roots, pci_devices, {})
  BY DEF Walking
<1>2. PICK fs, rs, ds, n, fr : /\ fs = frames /\ rs = roots /\ ds = pci_devices
                               /\ n = Len(fs) /\ fr = fs[n]
  OBVIOUS
<1>3. Scanning(F, fs, rs, ds, {})
  BY <1>1, <1>2
<1>4. fs # <<>> /\ booted' = booted /\ roots' = rs
  BY <1>2 DEF pci_scan_device
<1>5. n \in DOMAIN fs /\ Last(frames) = fr
  BY <1>2, <1>3, <1>4, TopIs DEF Scanning
<1>6. /\ fr.device < NDevices
      /\ \/ /\ fr.function < NFunctions /\ ~Present(Here(fr))
            /\ frames' = [fs EXCEPT ![n] = IF fr.function = 0 THEN NextDevice(fr)
                                           ELSE [fr EXCEPT !.function = @ + 1]]
            /\ pci_devices' = ds
         \/ /\ fr.function = NFunctions
            /\ frames' = [fs EXCEPT ![n] = NextDevice(fr)]
            /\ pci_devices' = Append(ds, [bus |-> fr.bus, number |-> fr.device, functions |-> fr.functions])
  BY <1>2, <1>5, Zenon DEF pci_scan_device, Top
<1>7. CASE fr.function < NFunctions /\ ~Present(Here(fr)) /\ pci_devices' = ds
           /\ frames' = [fs EXCEPT ![n] = IF fr.function = 0 THEN NextDevice(fr)
                                          ELSE [fr EXCEPT !.function = @ + 1]]
  <2>1. /\ fr.function = 0 => Scanning(F, [fs EXCEPT ![n] = NextDevice(fr)], rs, ds, {})
        /\ fr.function # 0 => Scanning(F, [fs EXCEPT ![n] = [fr EXCEPT !.function = @ + 1]], rs, ds, {})
    BY <1>2, <1>3, <1>5, <1>6, <1>7, AbsentStep
  <2>2. Scanning(F, frames', rs, ds, {})
    <3>1. CASE fr.function = 0
      BY <1>7, <2>1, <3>1
    <3>2. CASE fr.function # 0
      BY <1>7, <2>1, <3>2
    <3> QED BY <3>1, <3>2
  <2> QED BY <1>4, <1>7, <2>2, WalkingNext
<1>8. CASE fr.function = NFunctions /\ frames' = [fs EXCEPT ![n] = NextDevice(fr)]
           /\ pci_devices' = Append(ds, [bus |-> fr.bus, number |-> fr.device, functions |-> fr.functions])
  <2>1. PICK es : es = Append(ds, [bus |-> fs[n].bus, number |-> fs[n].device, functions |-> fs[n].functions])
    OBVIOUS
  <2>2. Scanning(F, [fs EXCEPT ![n] = NextDevice(fs[n])], rs, es, {})
    BY <1>2, <1>3, <1>5, <1>6, <1>8, <2>1, DeviceLeft
  <2>3. frames' = [fs EXCEPT ![n] = NextDevice(fs[n])] /\ pci_devices' = es
    BY <1>2, <1>8, <2>1
  <2> QED BY <1>4, <2>2, <2>3, WalkingNext
<1> QED BY <1>6, <1>7, <1>8

LEMMA WalkEnd ==
  ASSUME booted \in DOMAIN Machines, Walking, EndBus PROVE Walking'
<1>1. PICK F : Scanning(F, frames, roots, pci_devices, {})
  BY DEF Walking
<1>2. PICK fs, rs, ds : fs = frames /\ rs = roots /\ ds = pci_devices
  OBVIOUS
<1>3. Scanning(F, fs, rs, ds, {})
  BY <1>1, <1>2
<1>4. fs # <<>> /\ booted' = booted /\ roots' = rs /\ pci_devices' = ds /\ frames' = Front(fs)
  BY <1>2 DEF EndBus
<1>5. Last(frames) = fs[Len(fs)]
  BY <1>2, <1>3, <1>4, TopIs DEF Scanning
<1>6. fs[Len(fs)].device = NDevices
  BY <1>5 DEF EndBus
<1>7. PICK G, gs : G = F \cup {fs[Len(fs)].bus} /\ gs = Front(fs)
  OBVIOUS
<1>8. Scanning(G, gs, rs, ds, {})
  BY <1>3, <1>4, <1>6, <1>7, BusLeft
<1>9. Scanning(G, frames', roots', pci_devices', {})
  BY <1>4, <1>7, <1>8
<1> QED BY <1>4, <1>9, WalkingNext

-----------------------------------------------------------------------------
(* What pci_init prints about a function.                                  *)
LEMMA SerialBuses == 12 \in DOMAIN Subclasses /\ 8 \in Subclasses[12]
<1>1. PICK a, b, c : a = DeviceSubclasses /\ b = PeripheralSubclasses /\ c = OtherSubclasses
  OBVIOUS
<1>2. a \in Seq(SUBSET Int) /\ Len(a) = 6
  BY <1>1 DEF DeviceSubclasses
<1>3. b \in Seq(SUBSET Int) /\ Len(b) = 4
  BY <1>1 DEF PeripheralSubclasses
<1>4. c \in Seq(SUBSET Int) /\ Len(c) = 7 /\ 8 \in c[2]
  BY <1>1 DEF OtherSubclasses
<1>5. PICK d : d = a \o b
  OBVIOUS
<1>6. d \in Seq(SUBSET Int) /\ Len(d) = 10
  <2>1. a \o b \in Seq(SUBSET Int) /\ Len(a \o b) = Len(a) + Len(b)
    BY <1>2, <1>3, ConcatProperties, Zenon
  <2> QED BY <1>2, <1>3, <1>5, <2>1
<1>7. PICK e : e = d \o c
  OBVIOUS
<1>8. 12 \in DOMAIN e /\ e[12] = c[2]
  <2>1. /\ e \in Seq(SUBSET Int) /\ Len(e) = Len(d) + Len(c)
        /\ \A i \in 1..Len(d) + Len(c) : e[i] = IF i <= Len(d) THEN d[i] ELSE c[i - Len(d)]
    BY <1>4, <1>6, <1>7, ConcatProperties, Zenon
  <2> QED BY <1>4, <1>6, <2>1
<1>9. Subclasses = e
  BY <1>1, <1>5, <1>7 DEF Subclasses
<1> QED BY <1>4, <1>8, <1>9

LEMMA NameIs ==
  ASSUME NEW class, NEW subclass, NEW progif, NEW name,
         name = pci_get_class_name(class, subclass, progif)
  PROVE  \/ name[1] \in {class, All} /\ name[2] \in {subclass, All}
         \/ class = 11 /\ subclass \notin Subclasses[11] /\ name[1] = 12
         \/ class = 12 /\ subclass = 7 /\ name = <<12, 8, All>>
         \/ class = 8 /\ name[1] = 8
<1> DEFINE Of(c, s) == IF c = 8 THEN PeripheralName(progif)
                       ELSE IF c \notin DOMAIN Subclasses THEN <<IF c = 0 THEN 0 ELSE All, All, All>>
                       ELSE IF s \notin Subclasses[c] THEN <<c, All, All>>
                       ELSE IF progif \in Interfaces(c, s) THEN <<c, s, progif>>
                       ELSE <<c, s, All>>
           cc == IF class = 11 /\ subclass \notin Subclasses[11] THEN 12 ELSE class
           ss == IF cc = 12 /\ subclass = 7 /\ progif \notin Interfaces(12, 7) THEN 8 ELSE subclass
<1>1. name = Of(cc, ss)
  BY Zenon DEF pci_get_class_name
<1>2. PeripheralName(progif)[1] = 8
  BY DEF PeripheralName
<1>3. ASSUME NEW c, NEW s, c # 8
      PROVE  /\ Of(c, s)[1] \in {c, All} /\ Of(c, s)[2] \in {s, All}
             /\ c \in DOMAIN Subclasses => Of(c, s)[1] = c
  BY <1>3
<1>4. Interfaces(12, 8) = {}
  BY DEF Interfaces
<1>5. Of(12, 8) = <<12, 8, All>>
  BY <1>4, SerialBuses
<1>6. Of(8, ss) = PeripheralName(progif)
  OBVIOUS
<1> HIDE DEF Of
<1>7. CASE class = 11 /\ subclass \notin Subclasses[11]
  <2>1. cc = 12
    BY <1>7
  <2>2. Of(12, ss)[1] = 12
    BY <1>3, SerialBuses
  <2> QED BY <1>1, <1>7, <2>1, <2>2
<1>8. CASE class = 12 /\ subclass = 7 /\ progif \notin Interfaces(12, 7)
  <2>1. cc = 12 /\ ss = 8
    BY <1>8
  <2> QED BY <1>1, <1>5, <1>8, <2>1
<1>9. CASE ~(class = 11 /\ subclass \notin Subclasses[11]) /\ ~(class = 12 /\ subclass = 7 /\ progif \notin Interfaces(12, 7))
  <2>1. cc = class /\ ss = subclass
    BY <1>9
  <2>2. CASE class = 8
    BY <1>1, <1>2, <1>6, <2>1, <2>2
  <2>3. CASE class # 8
    BY <1>1, <1>3, <2>1, <2>3
  <2> QED BY <2>2, <2>3
<1> QED BY <1>7, <1>8, <1>9

LEMMA LineDescribes ==
  ASSUME NEW f PROVE Describes(Line(EntryOf(f)), f)
<1>1. PICK id, code, e, name : /\ id = pci_get_device_id(f) /\ code = pci_get_class_code(f)
                               /\ e = EntryOf(f)
                               /\ name = pci_get_class_name(code[4], code[3], code[1])
  OBVIOUS
<1>2. e = [number |-> f[3], vendor |-> id[1], device |-> id[2],
           class |-> code[4], subclass |-> code[3], progif |-> code[1]]
  BY <1>1 DEF EntryOf
<1>3. Line(e) = <<id[1], id[2], name>>
  BY <1>1, <1>2 DEF Line
<1>4. id = <<id[1], id[2]>>
  <2>1. id = NoDevice \/ id = <<pci_config_readw(f, 0), pci_config_readw(f, 2)>>
    BY <1>1 DEF pci_get_device_id
  <2> QED BY <2>1 DEF NoDevice
<1>5. PICK line : line = <<id[1], id[2], name>>
  OBVIOUS
<1>6. <<line[1], line[2]>> = id /\ line[3] = name
  BY <1>4, <1>5
<1>7. \/ name[1] \in {code[4], All} /\ name[2] \in {code[3], All}
      \/ code[4] = 11 /\ code[3] \notin Subclasses[11] /\ name[1] = 12
      \/ code[4] = 12 /\ code[3] = 7 /\ name = <<12, 8, All>>
      \/ code[4] = 8 /\ name[1] = 8
  BY <1>1, NameIs
<1>8. Describes(line, f)
  BY <1>1, <1>6, <1>7, Zenon DEF Describes
<1> QED BY <1>1, <1>3, <1>5, <1>8

-----------------------------------------------------------------------------
(* The end of the scan: the buses that have been scanned are those that    *)
(* can be reached.                                                         *)
LEMMA AllScanned ==
  ASSUME NEW F, NEW fs, NEW rs, NEW ds, Scanning(F, fs, rs, ds, {}), fs = <<>>, rs = <<>>
  PROVE  F = Reached
<1>1. DOMAIN fs = {} /\ DOMAIN rs = {}
  OBVIOUS
<1>2. BusesInv(F, fs, rs, {})
  BY DEF Scanning
<1>3. Entered(F, fs) = F
  BY <1>1 DEF Entered
<1>4. F \subseteq Reached /\ HostBuses \subseteq F
  BY <1>1, <1>2, <1>3 DEF BusesInv
<1>5. \A f \in Bridges : f[1] \in F => Sec(f) \in F
  BY <1>2, <1>3 DEF BusesInv, Seen
<1> QED BY <1>4, <1>5, ReachedIs

LEMMA PlaceIs ==
  ASSUME NEW p
  PROVE  p \in Places <=>
           \E i \in DOMAIN pci_devices : \E j \in DOMAIN pci_devices[i].functions : p = <<i, j>>
BY DEF Places

LEMMA FunctionAtIs ==
  ASSUME NEW i, NEW j
  PROVE  FunctionAt(<<i, j>>) = <<pci_devices[i].bus, pci_devices[i].number, pci_devices[i].functions[j].number>>
BY DEF FunctionAt

LEMMA FunctionsAre == Functions = {f \in Wanted : f[1] \in Reached}
BY DEF Functions, Wanted

(* The lists have the functions of those buses, each of them once.         *)
LEMMA ListsRight ==
  ASSUME booted \in DOMAIN Machines, Walking, frames = <<>>, roots = <<>>
  PROVE  /\ {FunctionAt(p) : p \in Places} = Functions
         /\ ~ScannedTwice => \A p, q \in Places : FunctionAt(p) = FunctionAt(q) => p = q
         /\ \A i \in DOMAIN pci_devices : \A j \in DOMAIN pci_devices[i].functions :
              pci_devices[i].functions[j] = EntryOf(FunctionAt(<<i, j>>))
<1>1. PICK F : Scanning(F, frames, roots, pci_devices, {})
  BY DEF Walking
<1>2. PICK fs, rs, ds : fs = frames /\ rs = roots /\ ds = pci_devices
  OBVIOUS
<1>3. Scanning(F, fs, rs, ds, {}) /\ fs = <<>> /\ rs = <<>> /\ DOMAIN fs = {}
  BY <1>1, <1>2
<1>4. F = Reached
  BY <1>3, AllScanned
<1>5. DevicesInv(F, fs, ds)
  BY <1>3 DEF Scanning
<1>6. \A bus, number : DevicePassed(F, fs, bus, number) <=> bus \in Reached
  BY <1>3, <1>4 DEF DevicePassed
<1>7. ASSUME NEW i \in DOMAIN ds
      PROVE  ListInv(ds[i].bus, ds[i].number, ds[i].functions) /\ ds[i].bus \in Reached
  BY <1>5, <1>6 DEF DevicesInv
<1>8. ASSUME NEW i \in DOMAIN ds, NEW j \in DOMAIN ds[i].functions
      PROVE  /\ FunctionAt(<<i, j>>) = <<ds[i].bus, ds[i].number, ds[i].functions[j].number>>
             /\ FunctionAt(<<i, j>>) \in Functions
             /\ ds[i].functions[j] = EntryOf(FunctionAt(<<i, j>>))
  <2>1. PICK f : f = <<ds[i].bus, ds[i].number, ds[i].functions[j].number>>
    OBVIOUS
  <2>2. FunctionAt(<<i, j>>) = f
    BY <1>2, <2>1, FunctionAtIs
  <2>3. f \in Wanted /\ ds[i].functions[j] = EntryOf(f)
    BY <1>7, <2>1 DEF ListInv
  <2>4. f[1] \in Reached
    BY <1>7, <2>1
  <2> QED BY <2>1, <2>2, <2>3, <2>4, FunctionsAre
<1>9. \A p \in Places : FunctionAt(p) \in Functions
  BY <1>2, <1>8, PlaceIs
<1>10. ASSUME NEW f \in Functions PROVE f \in {FunctionAt(p) : p \in Places}
  <2>1. f \in Wanted /\ f[1] \in Reached
    BY FunctionsAre
  <2>2. HasFunction(ds, f)
    BY <1>5, <1>6, <2>1 DEF DevicesInv
  <2>3. PICK i \in DOMAIN ds : /\ ds[i].bus = f[1] /\ ds[i].number = f[2]
                               /\ \E j \in DOMAIN ds[i].functions : ds[i].functions[j].number = f[3]
    BY <2>2 DEF HasFunction
  <2>4. PICK j \in DOMAIN ds[i].functions : ds[i].functions[j].number = f[3]
    BY <2>3
  <2>5. f = <<f[1], f[2], f[3]>>
    BY <2>1, FunctionIs, Zenon
  <2>6. FunctionAt(<<i, j>>) = f
    BY <1>8, <2>3, <2>4, <2>5
  <2>7. <<i, j>> \in Places
    BY <1>2, PlaceIs
  <2> QED BY <2>6, <2>7
<1>11. ASSUME ~ScannedTwice, NEW p \in Places, NEW q \in Places, FunctionAt(p) = FunctionAt(q)
       PROVE  p = q
  <2>1. OnceInv(F, fs, rs, ds, {})
    BY <1>3, <1>11 DEF Scanning
  <2>2. PICK i \in DOMAIN ds : \E j \in DOMAIN ds[i].functions : p = <<i, j>>
    BY <1>2, PlaceIs
  <2>3. PICK k \in DOMAIN ds : \E l \in DOMAIN ds[k].functions : q = <<k, l>>
    BY <1>2, PlaceIs
  <2>4. PICK j \in DOMAIN ds[i].functions, l \in DOMAIN ds[k].functions : p = <<i, j>> /\ q = <<k, l>>
    BY <2>2, <2>3
  <2>5. <<ds[i].bus, ds[i].number, ds[i].functions[j].number>> = <<ds[k].bus, ds[k].number, ds[k].functions[l].number>>
    BY <1>8, <1>11, <2>4
  <2>6. ds[i].bus = ds[k].bus /\ ds[i].number = ds[k].number /\ ds[i].functions[j].number = ds[k].functions[l].number
    BY <2>5
  <2>7. i = k
    BY <2>1, <2>6 DEF OnceInv
  <2>8. j = l
    BY <1>7, <2>6, <2>7 DEF ListInv
  <2> QED BY <2>4, <2>7, <2>8
<1> QED BY <1>2, <1>8, <1>9, <1>10, <1>11

LEMMA ListsSame ==
  ASSUME booted' = booted, pci_devices' = pci_devices
  PROVE  /\ Places' = Places /\ Functions' = Functions
         /\ \A p : FunctionAt(p)' = FunctionAt(p)
         /\ \A line, f : Describes(line, f)' <=> Describes(line, f)
<1>1. Functions' = Functions
  <2>1. Functions' = {f \in Wanted : f[1] \in Reached}'
    BY DEF Functions, Wanted
  <2> QED BY <2>1, BusesSame, FunctionsAre
<1>2. ASSUME NEW line, NEW f PROVE Describes(line, f)' <=> Describes(line, f)
  <2>1. machine' = machine
    BY DEF machine
  <2>2. ASSUME NEW reg PROVE pci_config_readl(f, reg)' = pci_config_readl(f, reg)
    BY <2>1 DEF pci_config_readl, Config
  <2>3. ASSUME NEW reg PROVE pci_config_readw(f, reg)' = pci_config_readw(f, reg)
    BY <2>2 DEF pci_config_readw
  <2>4. pci_get_device_id(f)' = pci_get_device_id(f)
    BY <2>3 DEF pci_get_device_id
  <2>5. pci_get_class_code(f)' = pci_get_class_code(f)
    BY <2>2 DEF pci_get_class_code
  <2> QED BY <2>4, <2>5, Zenon DEF Describes
<1> QED BY <1>1, <1>2 DEF Places, FunctionAt

(* pci_init prints a line about each function.                             *)
LEMMA ScanEnds ==
  ASSUME booted \in DOMAIN Machines, Walking, pci_init PROVE EveryFunctionOnce' /\ Walking'
<1>1. /\ frames = <<>> /\ roots = <<>> /\ booted' = booted /\ frames' = frames /\ roots' = roots
      /\ pci_devices' = pci_devices
  BY DEF pci_init
<1>2. /\ {FunctionAt(p) : p \in Places} = Functions
      /\ ~ScannedTwice => \A p, q \in Places : FunctionAt(p) = FunctionAt(q) => p = q
      /\ \A i \in DOMAIN pci_devices : \A j \in DOMAIN pci_devices[i].functions :
           pci_devices[i].functions[j] = EntryOf(FunctionAt(<<i, j>>))
  BY <1>1, ListsRight
<1>3. ASSUME NEW p \in Places PROVE Describes(listed'[p[1]][p[2]], FunctionAt(p))
  <2>1. PICK i \in DOMAIN pci_devices : \E j \in DOMAIN pci_devices[i].functions : p = <<i, j>>
    BY PlaceIs
  <2>2. PICK j \in DOMAIN pci_devices[i].functions : p = <<i, j>>
    BY <2>1
  <2>3. listed'[i][j] = Line(pci_devices[i].functions[j])
    BY DEF pci_init
  <2>4. listed'[p[1]][p[2]] = Line(EntryOf(FunctionAt(p)))
    BY <1>2, <2>2, <2>3
  <2> QED BY <2>4, LineDescribes
<1>4. /\ Places' = Places /\ Functions' = Functions
      /\ \A p : FunctionAt(p)' = FunctionAt(p)
      /\ \A line, f : Describes(line, f)' <=> Describes(line, f)
      /\ ScannedTwice' <=> ScannedTwice
  BY <1>1, ListsSame, BusesSame
<1>5. {FunctionAt(p) : p \in Places}' = {FunctionAt(p) : p \in Places}
  BY <1>4
<1>6. ASSUME NEW p \in Places PROVE Describes(listed[p[1]][p[2]], FunctionAt(p))'
  <2>1. PICK line, f : line = listed'[p[1]][p[2]] /\ f = FunctionAt(p)
    OBVIOUS
  <2>2. Describes(line, f)'
    BY <1>3, <1>4, <2>1
  <2> QED BY <1>4, <2>1, <2>2
<1>7. EveryFunctionOnce'
  BY <1>2, <1>4, <1>5, <1>6 DEF EveryFunctionOnce
<1>8. PICK F : Scanning(F, frames, roots, pci_devices, {})
  BY DEF Walking
<1> QED BY <1>1, <1>7, <1>8, WalkingNext

LEMMA PciInvScan ==
  ASSUME PciInv, PciNext, scan # "done" PROVE PciInv'
<1>1. booted \in DOMAIN Machines /\ booted' = booted
  BY DEF PciInv, PciNext, pci_scan, pci_scan_bus, pci_scan_device_function, pci_scan_device, EndBus, pci_init
<1>2. CASE pci_scan
  <2>1. Walking' /\ scan' = "scan"
    BY <1>2, WalkStarts DEF pci_scan
  <2> QED BY <1>1, <2>1 DEF PciInv, EveryFunctionOnce
<1>3. CASE pci_scan_bus \/ pci_scan_device_function \/ pci_scan_device \/ EndBus
  <2>1. scan' = scan /\ (frames # <<>> \/ roots # <<>>)
    BY <1>3 DEF pci_scan_bus, pci_scan_device_function, pci_scan_device, EndBus
  <2>2. scan = "scan" /\ Walking
    BY <2>1 DEF PciInv
  <2>3. Walking'
    BY <1>1, <1>3, <2>2, WalkBus, WalkFunction, WalkDevice, WalkEnd
  <2> QED BY <1>1, <2>1, <2>2, <2>3 DEF PciInv, EveryFunctionOnce
<1>4. CASE pci_init
  <2>1. scan = "scan" /\ Walking
    BY <1>4 DEF PciInv, pci_init
  <2>2. EveryFunctionOnce' /\ Walking'
    BY <1>1, <1>4, <2>1, ScanEnds
  <2>3. scan' = "done" /\ frames' = <<>> /\ roots' = <<>>
    BY <1>4 DEF pci_init
  <2> QED BY <1>1, <2>2, <2>3 DEF PciInv
<1> QED BY <1>2, <1>3, <1>4 DEF PciNext

LEMMA PciInvFrame ==
  ASSUME PciInv, UNCHANGED pciVars PROVE PciInv'
<1>1. /\ booted' = booted /\ scan' = scan /\ roots' = roots /\ frames' = frames
      /\ pci_devices' = pci_devices /\ listed' = listed
  BY DEF pciVars
<1>2. Walking => Walking'
  <2>1. SUFFICES ASSUME Walking PROVE Walking'
    OBVIOUS
  <2>2. PICK F : Scanning(F, frames, roots, pci_devices, {})
    BY <2>1 DEF Walking
  <2> QED BY <1>1, <2>2, WalkingNext
<1>3. /\ Places' = Places /\ Functions' = Functions
      /\ \A p : FunctionAt(p)' = FunctionAt(p)
      /\ \A line, f : Describes(line, f)' <=> Describes(line, f)
      /\ ScannedTwice' <=> ScannedTwice
  BY <1>1, ListsSame, BusesSame
<1>4. {FunctionAt(p) : p \in Places}' = {FunctionAt(p) : p \in Places}
  BY <1>3
<1>5. (\A p \in Places : Describes(listed[p[1]][p[2]], FunctionAt(p)))
        => (\A p \in Places : Describes(listed[p[1]][p[2]], FunctionAt(p)))'
  <2>1. SUFFICES ASSUME NEW p \in Places, Describes(listed[p[1]][p[2]], FunctionAt(p))
                 PROVE  Describes(listed[p[1]][p[2]], FunctionAt(p))'
    BY <1>3
  <2>2. PICK line, f : line = listed[p[1]][p[2]] /\ f = FunctionAt(p)
    OBVIOUS
  <2>3. Describes(line, f)'
    BY <1>3, <2>1, <2>2
  <2> QED BY <1>1, <1>3, <2>2, <2>3
<1>6. EveryFunctionOnce => EveryFunctionOnce'
  BY <1>1, <1>3, <1>4, <1>5 DEF EveryFunctionOnce
<1> QED BY <1>1, <1>2, <1>6 DEF PciInv

LEMMA PciInvStep ==
  ASSUME PciInv, [Next]_vars PROVE PciInv'
<1>1. CASE UNCHANGED pciVars
  BY <1>1, PciInvFrame
<1>2. CASE Scan
  <2>1. CASE scan = "done"
    BY <1>2, <2>1, <1>1, PciInvFrame DEF Scan
  <2>2. CASE scan # "done"
    BY <1>2, <2>2, PciInvScan DEF Scan
  <2> QED BY <2>1, <2>2
<1>3. CASE BootStep /\ ~Scan
  <2>1. UNCHANGED pciVars
    BY <1>3 DEF BootStep, Start, ReadTag, TagsRead, SetUp, SetUpPic, SetUpIrq, Calibration, StartCalibration,
         Double, Sync, DoubleDelay, Halve, Fine, FineDelay, EndCalibration, calibrating, SetUpConsole,
         acpi_init, Devices
  <2> QED BY <2>1, PciInvFrame
<1>4. CASE Disturb \/ DrivesWork \/ UNCHANGED vars
  <2>1. UNCHANGED pciVars
    BY <1>4 DEF Disturb, Timer, DrivesWork, vars
  <2> QED BY <2>1, PciInvFrame
<1> QED BY <1>2, <1>3, <1>4 DEF Next

(* EveryFunctionOnce: when the scan of the PCI buses has ended, the lists  *)
(* hold every function that can be reached from the host, each of them     *)
(* once unless a bus is scanned twice, and pci_init has printed a line     *)
(* about each.                                                             *)
THEOREM ScanCorrect == Spec => []EveryFunctionOnce
<1>1. Init => PciInv
  BY DEF Init, PciInit, PciInv, EveryFunctionOnce
<1>2. PciInv /\ [Next]_vars => PciInv'
  BY PciInvStep
<1>3. PciInv => EveryFunctionOnce
  BY DEF PciInv
<1> QED BY <1>1, <1>2, <1>3, PTL DEF Spec

-----------------------------------------------------------------------------
(* The IDE driver.                                                         *)
RegsOf(p) == Channels(FunctionAt(p))
Kind(b, d) == IF b \in Blocks THEN machine.drives[b][d] ELSE "floating"
Ides == {p \in Places : IsIde(FunctionAt(p))}
ChannelRegs == {RegsOf(p)[c] : p \in Ides, c \in 1..2}

LEMMA IdeSame ==
  ASSUME booted' = booted, pci_devices' = pci_devices
  PROVE  /\ Blocks' = Blocks /\ Ides' = Ides /\ ChannelRegs' = ChannelRegs
         /\ \A p : RegsOf(p)' = RegsOf(p)
         /\ \A b, d : Kind(b, d)' = Kind(b, d)
<1>1. machine' = machine
  BY DEF machine
<1>2. \A f, reg : pci_config_readl(f, reg)' = pci_config_readl(f, reg)
  BY <1>1 DEF pci_config_readl, Config
<1>3. Places' = Places /\ \A p : FunctionAt(p)' = FunctionAt(p)
  BY ListsSame
<1>4. \A f : IsIde(f)' <=> IsIde(f)
  BY <1>2 DEF IsIde, pci_get_class_code
<1>5. \A f : Channels(f)' = Channels(f)
  BY <1>2 DEF Channels, Bar
<1>6. \A p : RegsOf(p)' = RegsOf(p)
  BY <1>3, <1>5 DEF RegsOf
<1>7. Ides' = Ides
  BY <1>3, <1>4 DEF Ides
<1>8. ChannelRegs' = ChannelRegs
  BY <1>6, <1>7 DEF ChannelRegs
<1>9. Blocks' = Blocks /\ \A b, d : Kind(b, d)' = Kind(b, d)
  BY <1>1 DEF Blocks, Kind
<1> QED BY <1>6, <1>7, <1>8, <1>9

(* The registers of a channel, in terms of the base address registers.     *)
LEMMA BarType ==
  ASSUME booted \in DOMAIN Machines, NEW f \in DOMAIN machine.config, NEW n \in 0..3
  PROVE  /\ Bar(f, n) = machine.config[f][16 + 4 * n]
         /\ Address(Bar(f, n)) \in Int
<1>1. PICK r : r = machine.config[f]
  OBVIOUS
<1>2. r \in [{0, 8, 12, 16, 20, 24, 28, 32} -> (0..255) \X (0..255) \X (0..255) \X (0..255)]
  BY <1>1, ConfigType, Zenon
<1>3. 4 * ((16 + 4 * n) \div 4) = 16 + 4 * n
  OBVIOUS
<1>4. Bar(f, n) = r[16 + 4 * n]
  BY <1>1, <1>3 DEF Bar, pci_config_readl, Config
<1>5. 16 + 4 * n \in {0, 8, 12, 16, 20, 24, 28, 32}
  OBVIOUS
<1>6. PICK m : m = 16 + 4 * n
  OBVIOUS
<1>7. PICK B : B = 0..255
  OBVIOUS
<1>8. r \in [{0, 8, 12, 16, 20, 24, 28, 32} -> B \X B \X B \X B] /\ m \in {0, 8, 12, 16, 20, 24, 28, 32}
  BY <1>2, <1>5, <1>6, <1>7
<1>9. r[m] \in B \X B \X B \X B
  BY <1>8, Zenon
<1>10. PICK bar : bar = r[m]
  OBVIOUS
<1>11. bar[1] \in B /\ bar[2] \in B
  BY <1>9, <1>10
<1>12. bar[1] \in Int /\ bar[2] \in Int
  BY <1>7, <1>11
<1>13. Address(bar) \in Int
  BY <1>12 DEF Address
<1> QED BY <1>1, <1>4, <1>6, <1>10, <1>13

LEMMA CompatType ==
  /\ CompatBase[1] \in Nat /\ CompatBase[2] \in Nat
  /\ CompatControl[1] \in Nat /\ CompatControl[2] \in Nat
<1>1. CompatBase \in [1..2 -> Nat] /\ CompatControl \in [1..2 -> Nat]
  BY IdeAssumption, Zenon
<1> QED BY <1>1

LEMMA ChannelIs ==
  ASSUME booted \in DOMAIN Machines, NEW f \in DOMAIN machine.config, NEW c \in 1..2
  PROVE  /\ Channels(f)[c].base \in Int /\ Channels(f)[c].ctrl \in Int
         /\ Channels(f)[c].base = OrDefault(Bar(f, 2 * c - 2), CompatBase[c])
         /\ Channels(f)[c].ctrl = OrDefault(Bar(f, 2 * c - 1), CompatControl[c])
<1>1. /\ Channels(f)[c].base = OrDefault(Bar(f, 2 * c - 2), CompatBase[c])
      /\ Channels(f)[c].ctrl = OrDefault(Bar(f, 2 * c - 1), CompatControl[c])
  BY DEF Channels
<1>2. PICK m, n : m = 2 * c - 2 /\ n = 2 * c - 1
  OBVIOUS
<1>3. m \in 0..3 /\ n \in 0..3
  BY <1>2
<1>4. Address(Bar(f, m)) \in Int /\ Address(Bar(f, n)) \in Int
  BY <1>3, BarType
<1>5. CompatBase[c] \in Int /\ CompatControl[c] \in Int
  BY CompatType
<1>6. OrDefault(Bar(f, m), CompatBase[c]) \in Int /\ OrDefault(Bar(f, n), CompatControl[c]) \in Int
  BY <1>4, <1>5 DEF OrDefault
<1> QED BY <1>1, <1>2, <1>6

LEMMA BlockType == ASSUME booted \in DOMAIN Machines, NEW b \in Blocks PROVE b \in Nat
<1>1. DOMAIN machine.drives \subseteq Nat
  BY IdeAssumption, Zenon DEF machine
<1> QED BY <1>1 DEF Blocks

(* The control register of a channel with base addresses of its own.       *)
LEMMA ControlIs ==
  ASSUME booted \in DOMAIN Machines, NEW f \in DOMAIN machine.config, IsIde(f), NEW c \in 1..2,
         Channels(f)[c].base \in Blocks \ {CompatBase[1], CompatBase[2]}
  PROVE  machine.control[Channels(f)[c].base] = Port(Channels(f)[c], ATA_REG_CONTROL)
<1>1. PICK base, ctrl, reg, low, high : /\ base = Channels(f)[c].base /\ ctrl = Channels(f)[c].ctrl
                                        /\ reg = 16 + 4 * (2 * c - 2)
                                        /\ low = machine.config[f][reg] /\ high = machine.config[f][reg + 4]
  OBVIOUS
<1>2. reg \in {16, 24} /\ reg + 4 = 16 + 4 * (2 * c - 1)
  BY <1>1
<1>3. Bar(f, 2 * c - 2) = low /\ Bar(f, 2 * c - 1) = high
  <2>1. PICK m, n : m = 2 * c - 2 /\ n = 2 * c - 1
    OBVIOUS
  <2>2. m \in 0..3 /\ n \in 0..3
    BY <2>1
  <2>3. Bar(f, m) = machine.config[f][16 + 4 * m] /\ Bar(f, n) = machine.config[f][16 + 4 * n]
    BY <2>2, BarType
  <2> QED BY <1>1, <1>2, <2>1, <2>3
<1>4. base = OrDefault(low, CompatBase[c]) /\ ctrl = OrDefault(high, CompatControl[c])
  BY <1>1, <1>3, ChannelIs
<1>5. base = Address(low)
  BY <1>1, <1>4 DEF OrDefault
<1>6. machine.config[f][8][4] = 1 /\ machine.config[f][8][3] = 1
  BY DEF IsIde, pci_get_class_code, pci_config_readl, Config
<1>7. Address(low) \in DOMAIN machine.drives
  BY <1>1, <1>5 DEF Blocks
<1>8. ~IsDefault(high) /\ machine.control[Address(low)] = Address(high) + 2
  <2>1. \A g \in DOMAIN machine.config, r \in {16, 24} :
          machine.config[g][8][4] = 1 /\ machine.config[g][8][3] = 1 /\ Address(machine.config[g][r]) \in DOMAIN machine.drives =>
            /\ ~IsDefault(machine.config[g][r + 4])
            /\ machine.control[Address(machine.config[g][r])] = Address(machine.config[g][r + 4]) + 2
    BY IdeAssumption, Zenon DEF machine
  <2> QED BY <1>1, <1>2, <1>6, <1>7, <2>1
<1>9. ctrl = Address(high)
  BY <1>4, <1>8 DEF OrDefault
<1>10. Port(Channels(f)[c], ATA_REG_CONTROL) = ctrl + ATA_REG_CONTROL - 10 /\ ctrl \in Int
  BY <1>1, ChannelIs DEF Port, ATA_REG_CONTROL, ATA_REG_SECCOUNT1
<1> QED BY <1>1, <1>5, <1>8, <1>9, <1>10 DEF ATA_REG_CONTROL

(* The ports of a channel are decoded by the block at its base, if any.    *)
LEMMA DecodedIs ==
  ASSUME booted \in DOMAIN Machines, NEW b, b = Last(ide_controllers)[channel].base, b \in Int,
         NEW reg \in 0..7
  PROVE  Decoded(reg) = IF b \in Blocks THEN {b} ELSE {}
<1>1. Port(Last(ide_controllers)[channel], reg) = b + reg
  BY DEF Port, ATA_REG_SECCOUNT1
<1>2. \A a \in Blocks : a \in Int
  BY BlockType
<1>3. \A a \in Blocks : a + reg = b + reg <=> a = b
  BY <1>2
<1> QED BY <1>1, <1>3 DEF Decoded

LEMMA AnswerIs ==
  ASSUME booted \in DOMAIN Machines, NEW b, b = Last(ide_controllers)[channel].base, b \in Int,
         b \in Blocks => selected[b] = drive, NEW reg \in 0..7
  PROVE  /\ Answering(reg) = Kind(b, drive)
         /\ b \in Blocks => State(reg) = status[b][drive]
<1>1. Decoded(reg) = IF b \in Blocks THEN {b} ELSE {}
  BY DecodedIs
<1>2. CASE b \in Blocks
  <2>1. (CHOOSE a \in Decoded(reg) : TRUE) = b /\ Decoded(reg) # {}
    BY <1>1, <1>2
  <2>2. Answering(reg) = DriveAt(b)
    BY <2>1, Zenon DEF Answering
  <2>3. State(reg) = status[b][selected[b]]
    BY <2>1, Zenon DEF State
  <2> QED BY <1>2, <2>2, <2>3 DEF DriveAt, Kind
<1>3. CASE b \notin Blocks
  BY <1>1, <1>3 DEF Answering, Kind
<1> QED BY <1>2, <1>3

LEMMA StatusIs ==
  ASSUME booted \in DOMAIN Machines, NEW b, b = Last(ide_controllers)[channel].base, b \in Int,
         b \in Blocks => selected[b] = drive
  PROVE  /\ Kind(b, drive) = "none" => StatusBits = {}
         /\ Kind(b, drive) = "floating" => "ERR" \in StatusBits
         /\ Kind(b, drive) \notin {"none", "floating"} =>
              /\ b \in Blocks /\ StatusBits # {}
              /\ "ERR" \in StatusBits <=> status[b][drive] = "error"
              /\ "DRQ" \in StatusBits <=> status[b][drive] = "data"
<1>1. Answering(ATA_REG_STATUS) = Kind(b, drive) /\ (b \in Blocks => State(ATA_REG_STATUS) = status[b][drive])
  <2>1. ATA_REG_STATUS \in 0..7
    BY DEF ATA_REG_STATUS
  <2> QED BY <2>1, AnswerIs
<1>2. PICK k, s : k = Kind(b, drive) /\ s = State(ATA_REG_STATUS)
  OBVIOUS
<1>3. StatusBits = CASE k = "none"     -> {}
                     [] k = "floating" -> {"BSY", "DRDY", "DF", "DSC", "DRQ", "CORR", "IDX", "ERR"}
                     [] OTHER -> CASE s = "data"  -> {"DRDY", "DSC", "DRQ"}
                                   [] s = "error" -> {"DRDY", "DSC", "ERR"}
                                   [] s = "idle"  -> {"DRDY", "DSC"}
                                   [] OTHER       -> {"BSY"}
  BY <1>1, <1>2 DEF StatusBits
<1>4. k \notin {"none", "floating"} => b \in Blocks
  BY <1>2 DEF Kind
<1>5. k \notin {"none", "floating"} =>
        StatusBits = CASE s = "data"  -> {"DRDY", "DSC", "DRQ"}
                       [] s = "error" -> {"DRDY", "DSC", "ERR"}
                       [] s = "idle"  -> {"DRDY", "DSC"}
                       [] OTHER       -> {"BSY"}
  BY <1>3
<1>6. /\ k = "none" => StatusBits = {}
      /\ k = "floating" => "ERR" \in StatusBits
  BY <1>3
<1>7. k \notin {"none", "floating"} =>
        /\ StatusBits # {}
        /\ "ERR" \in StatusBits <=> s = "error"
        /\ "DRQ" \in StatusBits <=> s = "data"
  BY <1>5
<1> QED BY <1>1, <1>2, <1>4, <1>6, <1>7

LEMMA SignatureIs ==
  ASSUME booted \in DOMAIN Machines, NEW b, b = Last(ide_controllers)[channel].base, b \in Int,
         b \in Blocks => selected[b] = drive
  PROVE  <<Signature(ATA_REG_LBA1), Signature(ATA_REG_LBA2)>> \in {<<20, 235>>, <<105, 150>>}
           <=> Kind(b, drive) \in {"atapi", "satapi"}
<1>1. Answering(ATA_REG_LBA1) = Kind(b, drive) /\ Answering(ATA_REG_LBA2) = Kind(b, drive)
  <2>1. ATA_REG_LBA1 \in 0..7 /\ ATA_REG_LBA2 \in 0..7
    BY DEF ATA_REG_LBA1, ATA_REG_LBA2
  <2> QED BY <2>1, AnswerIs
<1>2. PICK k, s, t : k = Kind(b, drive) /\ s = Signature(ATA_REG_LBA1) /\ t = Signature(ATA_REG_LBA2)
  OBVIOUS
<1>3. s = CASE k = "atapi" -> 20 [] k = "satapi" -> 105 [] k = "floating" -> 255 [] OTHER -> 0
  BY <1>1, <1>2 DEF Signature
<1>4. t = CASE k = "atapi" -> 235 [] k = "satapi" -> 150 [] k = "floating" -> 255 [] OTHER -> 0
  BY <1>1, <1>2 DEF Signature, ATA_REG_LBA1, ATA_REG_LBA2
<1>5. (s = 20 /\ t = 235) \/ (s = 105 /\ t = 150) <=> k \in {"atapi", "satapi"}
  BY <1>3, <1>4
<1>6. <<s, t>> \in {<<20, 235>>, <<105, 150>>} <=> (s = 20 /\ t = 235) \/ (s = 105 /\ t = 150)
  OBVIOUS
<1> QED BY <1>2, <1>5, <1>6

-----------------------------------------------------------------------------
(* What holds while the driver is at work.  The places that it has gone    *)
(* past, the last of them that of the controller at hand during a turn of  *)
(* the loops:                                                              *)
Turn == {"select", "identify", "test", "poll", "error", "read"}
Past == {p \in Ides : p[1] < at[1] \/ (p[1] = at[1] /\ p[2] < at[2])}
Cur == <<at[1], at[2] - 1>>
Base == Last(ide_controllers)[channel].base
Reported(port, d) == \E i \in DOMAIN reports : reports[i].regs = port /\ reports[i].drive = d

States == {"idle", "identify", "packet", "data", "error"}
Reports == [regs : ChannelRegs, drive : 1..2, what : {"None"} \cup ({"ATA", "ATAPI"} \X {"model", "garbage"})]
Controllers == {RegsOf(p) : p \in Ides}

DriverType ==
  /\ detect \in Turn \cup {"next", "controller", "done"}
  /\ at \in (Nat \ {0}) \X (Nat \ {0})
  /\ ide_controllers \in Seq(Controllers)
  /\ channel \in 1..2 /\ drive \in 1..2 /\ type \in {"ATA", "ATAPI"}
  /\ reports \in Seq(Reports)
  /\ selected \in [Blocks -> 1..2] /\ status \in [Blocks -> [1..2 -> States]]

IdePlace ==
  /\ IsFiniteSet(Past)
  /\ detect = "controller" => at \in Ides
  /\ detect = "done" => at[1] > Len(pci_devices)
  /\ detect \in Turn => Cur \in Past /\ ide_controllers # <<>> /\ Last(ide_controllers) = RegsOf(Cur)

(* The reports are right, and there is one for each drive so far.          *)
IdeReports ==
  /\ \A i \in DOMAIN reports : reports[i].what \in Expected(Kind(reports[i].regs.base, reports[i].drive))
  /\ \A p \in Past : (detect \notin Turn \/ p # Cur) => \A c, d \in 1..2 : Reported(RegsOf(p)[c], d)
  /\ detect \in Turn =>
       \A c, d \in 1..2 : 2 * c + d < 2 * channel + drive => Reported(RegsOf(Cur)[c], d)
  /\ detect \in Turn => Len(reports) = 4 * Cardinality(Past) + 2 * channel + drive - 7
  /\ detect \notin Turn => Len(reports) = 4 * Cardinality(Past)

IdeSilent ==
  \A p \in Past, c \in 1..2 :
    RegsOf(p)[c].base \in Blocks \ {CompatBase[1], CompatBase[2]} => RegsOf(p)[c].base \in nIEN

(* What the driver knows of the drive at hand.                             *)
IdeTurn ==
  /\ detect \in Turn \ {"select"} /\ Base \in Blocks => selected[Base] = drive
  /\ detect \in Turn \ {"select", "read"} => type = "ATA"
  /\ detect \in {"test", "poll"} /\ Kind(Base, drive) \notin {"none", "floating"} =>
       status[Base][drive] \in {"identify", IF Kind(Base, drive) = "ata" THEN "data" ELSE "error"}
  /\ detect = "error" => Kind(Base, drive) # "ata"
  /\ detect = "read" =>
       IF type = "ATA" THEN Kind(Base, drive) = "ata" /\ status[Base][drive] = "data"
       ELSE Kind(Base, drive) \in {"atapi", "satapi"}

IdeBusy == DriverType /\ IdePlace /\ IdeReports /\ IdeSilent /\ IdeTurn

(* What the driver relies on while it works.                               *)
Listed ==
  /\ booted \in DOMAIN Machines
  /\ Ides \subseteq (Nat \ {0}) \X (Nat \ {0})
  /\ \A p \in Ides : FunctionAt(p) \in DOMAIN machine.config
sameLists == <<booted, pci_devices>>

LEMMA TypesSame ==
  ASSUME UNCHANGED sameLists
  PROVE  Blocks' = Blocks /\ Controllers' = Controllers /\ Reports' = Reports
<1>1. booted' = booted /\ pci_devices' = pci_devices
  BY DEF sameLists
<1>2. /\ Blocks' = Blocks /\ Ides' = Ides /\ ChannelRegs' = ChannelRegs
      /\ \A p : RegsOf(p)' = RegsOf(p)
  BY <1>1, IdeSame
<1> QED BY <1>2 DEF Controllers, Reports

LEMMA BaseIs ==
  ASSUME Listed, DriverType, IdePlace, detect \in Turn
  PROVE  /\ Base \in Int /\ Base = RegsOf(Cur)[channel].base /\ Cur \in Ides
         /\ Last(ide_controllers)[channel] = RegsOf(Cur)[channel]
         /\ RegsOf(Cur)[channel] \in ChannelRegs
<1>1. Cur \in Ides /\ Last(ide_controllers) = RegsOf(Cur)
  BY DEF IdePlace, Past
<1>2. PICK f : f = FunctionAt(Cur)
  OBVIOUS
<1>3. f \in DOMAIN machine.config /\ channel \in 1..2 /\ booted \in DOMAIN Machines
  BY <1>1, <1>2 DEF Listed, DriverType
<1>4. Channels(f)[channel].base \in Int
  BY <1>3, ChannelIs
<1>5. RegsOf(Cur)[channel] \in ChannelRegs
  BY <1>1, <1>3 DEF ChannelRegs
<1> QED BY <1>1, <1>2, <1>4, <1>5 DEF RegsOf, Base

(* A step within the turn, of the driver or of a drive.                    *)
LEMMA TurnGoesOn ==
  ASSUME IdePlace, IdeReports, IdeSilent, UNCHANGED sameLists,
         UNCHANGED <<at, ide_controllers, channel, drive, reports, nIEN>>,
         detect' = detect \/ (detect \in Turn /\ detect' \in Turn)
  PROVE  /\ IdePlace' /\ IdeReports' /\ IdeSilent'
         /\ \A b, d : Kind(b, d)' = Kind(b, d)
         /\ Base' = Base
<1>1. booted' = booted /\ pci_devices' = pci_devices
  BY DEF sameLists
<1>2. /\ Blocks' = Blocks /\ Ides' = Ides /\ ChannelRegs' = ChannelRegs
      /\ \A p : RegsOf(p)' = RegsOf(p)
      /\ \A b, d : Kind(b, d)' = Kind(b, d)
  BY <1>1, IdeSame
<1>3. Past' = Past /\ Cur' = Cur /\ Base' = Base
  BY <1>2 DEF Past, Cur, Base
<1>4. \A port, d : Reported(port, d)' <=> Reported(port, d)
  BY DEF Reported
<1>5. /\ detect' = "controller" => detect = "controller"
      /\ detect' = "done" => detect = "done"
      /\ detect' \in Turn <=> detect \in Turn
  BY DEF Turn
<1>6. IdePlace'
  BY <1>1, <1>2, <1>3, <1>5 DEF IdePlace
<1>7. IdeReports'
  BY <1>2, <1>3, <1>4, <1>5 DEF IdeReports
<1>8. IdeSilent'
  BY <1>2, <1>3 DEF IdeSilent
<1> QED BY <1>2, <1>3, <1>6, <1>7, <1>8

-----------------------------------------------------------------------------
(* The steps of a turn.                                                    *)
LEMMA SelectStep ==
  ASSUME Listed, IdeBusy, UNCHANGED sameLists, SelectDrive PROVE IdeBusy'
<1>1. /\ detect = "select" /\ detect' = "identify" /\ detect \in Turn /\ detect' \in Turn /\ type' = "ATA"
      /\ UNCHANGED <<at, ide_controllers, channel, drive, reports, nIEN>> /\ status' = status
  BY DEF SelectDrive, Turn
<1>2. /\ IdePlace' /\ IdeReports' /\ IdeSilent' /\ Base' = Base
  BY <1>1, TurnGoesOn DEF IdeBusy
<1>3. Blocks' = Blocks /\ Controllers' = Controllers /\ Reports' = Reports
  BY TypesSame
<1>4. Base \in Int /\ booted \in DOMAIN Machines
  BY <1>1, BaseIs DEF IdeBusy, Listed
<1>5. Base \in Blocks => Base \in Decoded(ATA_REG_HDDEVSEL)
  <2>1. ATA_REG_HDDEVSEL \in 0..7
    BY DEF ATA_REG_HDDEVSEL
  <2> QED BY <1>4, <2>1, DecodedIs DEF Base
<1>6. Base \in Blocks => selected'[Base] = drive
  BY <1>5 DEF SelectDrive
<1>7. selected' \in [Blocks -> 1..2]
  BY DEF SelectDrive, IdeBusy, DriverType
<1>8. DriverType'
  BY <1>1, <1>3, <1>7 DEF IdeBusy, DriverType
<1>9. IdeTurn'
  BY <1>1, <1>2, <1>3, <1>6 DEF IdeTurn
<1> QED BY <1>2, <1>8, <1>9 DEF IdeBusy

(* What a command makes of the drive at hand.                              *)
LEMMA CommandedIs ==
  ASSUME Listed, IdeBusy, detect \in Turn \ {"select"}, NEW busy \in States
  PROVE  /\ Commanded(busy) \in [Blocks -> [1..2 -> States]]
         /\ Kind(Base, drive) \notin {"none", "floating"} => Commanded(busy)[Base][drive] = busy
<1>1. Base \in Int /\ booted \in DOMAIN Machines
  BY BaseIs DEF IdeBusy, Listed
<1>2. Base \in Blocks => selected[Base] = drive
  BY DEF IdeBusy, IdeTurn
<1>3. status \in [Blocks -> [1..2 -> States]] /\ selected \in [Blocks -> 1..2] /\ drive \in 1..2
  BY DEF IdeBusy, DriverType
<1>4. Base \in Blocks => Base \in Decoded(ATA_REG_COMMAND)
  <2>1. ATA_REG_COMMAND \in 0..7
    BY DEF ATA_REG_COMMAND
  <2> QED BY <1>1, <2>1, DecodedIs DEF Base
<1>5. Commanded(busy) \in [Blocks -> [1..2 -> States]]
  <2>1. ASSUME NEW b \in Blocks
        PROVE  (IF b \in Decoded(ATA_REG_COMMAND) /\ DriveAt(b) \notin {"none", "floating"}
                THEN [status[b] EXCEPT ![selected[b]] = busy] ELSE status[b]) \in [1..2 -> States]
    <3>1. PICK s, n : s = status[b] /\ n = selected[b]
      OBVIOUS
    <3>2. s \in [1..2 -> States] /\ n \in 1..2
      BY <1>3, <3>1
    <3>3. [s EXCEPT ![n] = busy] \in [1..2 -> States]
      BY <3>2
    <3> QED BY <3>1, <3>2, <3>3
  <2> QED BY <2>1 DEF Commanded
<1>6. ASSUME Kind(Base, drive) \notin {"none", "floating"}
      PROVE  Commanded(busy)[Base][drive] = busy
  <2>1. Base \in Blocks
    BY <1>6 DEF Kind
  <2>2. DriveAt(Base) \notin {"none", "floating"}
    BY <1>2, <1>6, <2>1 DEF Kind, DriveAt
  <2>3. Commanded(busy)[Base] = [status[Base] EXCEPT ![drive] = busy]
    BY <1>2, <1>4, <2>1, <2>2 DEF Commanded
  <2>4. status[Base] \in [1..2 -> States]
    BY <1>3, <2>1
  <2> QED BY <1>3, <2>3, <2>4
<1> QED BY <1>5, <1>6

LEMMA IdentifyStep ==
  ASSUME Listed, IdeBusy, UNCHANGED sameLists, Identify PROVE IdeBusy'
<1>1. /\ detect = "identify" /\ detect' = "test" /\ detect \in Turn /\ detect' \in Turn /\ type' = type
      /\ UNCHANGED <<at, ide_controllers, channel, drive, reports, nIEN>> /\ selected' = selected
  BY DEF Identify, Turn
<1>2. /\ IdePlace' /\ IdeReports' /\ IdeSilent' /\ Base' = Base
      /\ \A b, d : Kind(b, d)' = Kind(b, d)
  BY <1>1, TurnGoesOn DEF IdeBusy
<1>3. Blocks' = Blocks /\ Controllers' = Controllers /\ Reports' = Reports
  BY TypesSame
<1>4. /\ status' \in [Blocks -> [1..2 -> States]]
      /\ Kind(Base, drive) \notin {"none", "floating"} => status'[Base][drive] = "identify"
  <2>1. "identify" \in States
    BY DEF States
  <2> QED BY <1>1, <2>1, CommandedIs DEF Identify
<1>5. DriverType'
  BY <1>1, <1>3, <1>4 DEF IdeBusy, DriverType
<1>6. Kind(Base, drive)' = Kind(Base, drive)
  BY <1>1, <1>2
<1>7. IdeTurn'
  BY <1>1, <1>2, <1>3, <1>4, <1>6 DEF IdeTurn, IdeBusy, Turn
<1> QED BY <1>2, <1>5, <1>7 DEF IdeBusy

LEMMA PollingStep ==
  ASSUME Listed, IdeBusy, UNCHANGED sameLists,
         (TestStatus /\ StatusBits # {}) \/ Poll
  PROVE  IdeBusy'
<1>1. /\ (detect = "test" /\ detect' = "poll")
           \/ (detect = "poll" /\ ("ERR" \in StatusBits \/ "DRQ" \in StatusBits)
                /\ detect' = IF "ERR" \in StatusBits THEN "error" ELSE "read")
      /\ UNCHANGED <<at, ide_controllers, channel, drive, type, reports, selected, status, nIEN>>
  BY DEF TestStatus, Poll, driveVars
<1>2. detect \in Turn \ {"select"} /\ detect' \in Turn \ {"select"}
  BY <1>1 DEF Turn
<1>3. /\ IdePlace' /\ IdeReports' /\ IdeSilent' /\ Base' = Base
      /\ \A b, d : Kind(b, d)' = Kind(b, d)
  BY <1>1, <1>2, TurnGoesOn DEF IdeBusy
<1>4. Blocks' = Blocks /\ Controllers' = Controllers /\ Reports' = Reports
  BY TypesSame
<1>5. DriverType'
  BY <1>1, <1>2, <1>4 DEF IdeBusy, DriverType
<1>6. Kind(Base, drive)' = Kind(Base, drive)
  BY <1>1, <1>3
<1>7. PICK b, k : b = Base /\ k = Kind(Base, drive)
  OBVIOUS
<1>8. b \in Int /\ booted \in DOMAIN Machines /\ (b \in Blocks => selected[b] = drive)
  BY <1>2, <1>7, BaseIs DEF IdeBusy, IdeTurn, Listed
<1>9. /\ k = "none" => StatusBits = {}
      /\ k = "floating" => "ERR" \in StatusBits
      /\ k \notin {"none", "floating"} =>
           /\ b \in Blocks /\ StatusBits # {}
           /\ "ERR" \in StatusBits <=> status[b][drive] = "error"
           /\ "DRQ" \in StatusBits <=> status[b][drive] = "data"
  BY <1>7, <1>8, StatusIs DEF Base
<1>10. /\ type = "ATA"
       /\ k \notin {"none", "floating"} => status[b][drive] \in {"identify", IF k = "ata" THEN "data" ELSE "error"}
  BY <1>1, <1>7 DEF IdeBusy, IdeTurn, Turn
<1>11. /\ detect' = "error" => k # "ata"
       /\ detect' = "read" => k = "ata" /\ status[b][drive] = "data"
  BY <1>1, <1>9, <1>10
<1>12. IdeTurn'
  BY <1>1, <1>2, <1>3, <1>4, <1>6, <1>7, <1>8, <1>10, <1>11 DEF IdeTurn
<1> QED BY <1>3, <1>5, <1>12 DEF IdeBusy

LEMMA PacketStep ==
  ASSUME Listed, IdeBusy, UNCHANGED sameLists, TestSignature,
         <<Signature(ATA_REG_LBA1), Signature(ATA_REG_LBA2)>> \in {<<20, 235>>, <<105, 150>>}
  PROVE  IdeBusy'
<1>1. /\ detect = "error" /\ detect' = "read" /\ detect \in Turn /\ detect' \in Turn /\ type' = "ATAPI"
      /\ UNCHANGED <<at, ide_controllers, channel, drive, reports, nIEN>> /\ selected' = selected
      /\ status' = Commanded("packet")
  BY DEF TestSignature, Turn
<1>2. /\ IdePlace' /\ IdeReports' /\ IdeSilent' /\ Base' = Base
      /\ \A b, d : Kind(b, d)' = Kind(b, d)
  BY <1>1, TurnGoesOn DEF IdeBusy
<1>3. Blocks' = Blocks /\ Controllers' = Controllers /\ Reports' = Reports
  BY TypesSame
<1>4. status' \in [Blocks -> [1..2 -> States]]
  <2>1. "packet" \in States
    BY DEF States
  <2> QED BY <1>1, <2>1, CommandedIs
<1>5. DriverType'
  BY <1>1, <1>3, <1>4 DEF IdeBusy, DriverType
<1>6. PICK b : b = Base
  OBVIOUS
<1>7. b \in Int /\ booted \in DOMAIN Machines /\ (b \in Blocks => selected[b] = drive)
  BY <1>1, <1>6, BaseIs DEF IdeBusy, IdeTurn, Listed
<1>8. Kind(b, drive) \in {"atapi", "satapi"}
  BY <1>6, <1>7, SignatureIs DEF Base
<1>9. Kind(Base, drive)' \in {"atapi", "satapi"}
  BY <1>1, <1>2, <1>6, <1>8
<1>10. IdeTurn'
  BY <1>1, <1>2, <1>3, <1>6, <1>7, <1>9 DEF IdeTurn
<1> QED BY <1>2, <1>5, <1>10 DEF IdeBusy

LEMMA DriveStep ==
  ASSUME Listed, IdeBusy, UNCHANGED sameLists, Drives PROVE IdeBusy'
<1>1. PICK b \in Blocks, d \in 1..2 : DriveDone(b, d)
  BY DEF Drives
<1>2. PICK s : s = IF machine.drives[b][d] = "ata" \/ status[b][d] = "packet" THEN "data" ELSE "error"
  OBVIOUS
<1>3. /\ status[b][d] \in {"identify", "packet"} /\ status' = [status EXCEPT ![b][d] = s]
      /\ UNCHANGED <<detect, at, ide_controllers, channel, drive, type, reports, selected, nIEN>>
  BY <1>1, <1>2 DEF DriveDone, driverVars
<1>4. s \in States
  BY <1>2 DEF States
<1>5. /\ IdePlace' /\ IdeReports' /\ IdeSilent' /\ Base' = Base
      /\ \A a, e : Kind(a, e)' = Kind(a, e)
  BY <1>3, TurnGoesOn DEF IdeBusy
<1>6. Blocks' = Blocks /\ Controllers' = Controllers /\ Reports' = Reports
  BY TypesSame
<1>7. status \in [Blocks -> [1..2 -> States]]
  BY DEF IdeBusy, DriverType
<1>8. status' \in [Blocks -> [1..2 -> States]]
  BY <1>3, <1>4, <1>7
<1>9. \A a \in Blocks, e \in 1..2 : status'[a][e] = IF a = b /\ e = d THEN s ELSE status[a][e]
  BY <1>3, <1>7
<1>10. DriverType'
  BY <1>3, <1>6, <1>8 DEF IdeBusy, DriverType
<1>11. Kind(Base, drive)' = Kind(Base, drive)
  BY <1>3, <1>5
<1>12. PICK a, k : a = Base /\ k = Kind(Base, drive)
  OBVIOUS
<1>13. drive \in 1..2 /\ (k # "floating" => a \in Blocks)
  BY <1>12 DEF IdeBusy, DriverType, Kind
<1>14. a = b /\ drive = d => k = machine.drives[b][d]
  BY <1>12 DEF Kind
<1>15. (detect \in {"test", "poll"} /\ k \notin {"none", "floating"}) =>
         status'[a][drive] \in {"identify", IF k = "ata" THEN "data" ELSE "error"}
  <2>1. SUFFICES ASSUME detect \in {"test", "poll"}, k \notin {"none", "floating"}
                 PROVE  status'[a][drive] \in {"identify", IF k = "ata" THEN "data" ELSE "error"}
    OBVIOUS
  <2>2. status[a][drive] \in {"identify", IF k = "ata" THEN "data" ELSE "error"}
    BY <2>1, <1>12 DEF IdeBusy, IdeTurn
  <2>3. CASE a = b /\ drive = d
    BY <2>2, <2>3, <1>2, <1>3, <1>9, <1>14
  <2>4. CASE ~(a = b /\ drive = d)
    BY <2>1, <2>2, <2>4, <1>9, <1>13
  <2> QED BY <2>3, <2>4
<1>16. (detect = "read" /\ type = "ATA") => k = "ata" /\ status'[a][drive] = "data"
  BY <1>3, <1>9, <1>12, <1>13 DEF IdeBusy, IdeTurn
<1>17. IdeTurn'
  BY <1>3, <1>5, <1>6, <1>11, <1>12, <1>15, <1>16 DEF IdeTurn, IdeBusy
<1> QED BY <1>5, <1>10, <1>17 DEF IdeBusy

(* The end of a turn: the drive is reported.                               *)
LEMMA ReportStep ==
  ASSUME Listed, IdeBusy, UNCHANGED sameLists, detect \in Turn,
         NEW what, Report(what), what \in Expected(Kind(Base, drive)),
         what \in {"None"} \cup ({"ATA", "ATAPI"} \X {"model", "garbage"}),
         status' \in [Blocks -> [1..2 -> States]]
  PROVE  IdeBusy'
<1>1. PICK port, r, n : /\ port = RegsOf(Cur)[channel]
                        /\ r = [regs |-> port, drive |-> drive, what |-> what]
                        /\ n = Len(reports) + 1
  OBVIOUS
<1>2. Last(ide_controllers)[channel] = port /\ port \in ChannelRegs /\ Base = port.base /\ Cur \in Ides
  BY <1>1, BaseIs DEF IdeBusy
<1>3. /\ reports' = Append(reports, r)
      /\ detect' = IF channel = 2 /\ drive = 2 THEN "next" ELSE "select"
      /\ drive' = IF drive = 2 THEN 1 ELSE 2
      /\ channel' = IF drive = 2 THEN 2 ELSE channel
      /\ UNCHANGED <<at, ide_controllers, type, selected, nIEN>>
  BY <1>1, <1>2 DEF Report
<1>4. channel \in 1..2 /\ drive \in 1..2 /\ reports \in Seq(Reports)
  BY DEF IdeBusy, DriverType
<1>5. r \in Reports
  BY <1>1, <1>2, <1>4 DEF Reports
<1>6. /\ reports' \in Seq(Reports) /\ DOMAIN reports' = DOMAIN reports \cup {n} /\ n \notin DOMAIN reports
      /\ reports'[n] = r /\ \A i \in DOMAIN reports : reports'[i] = reports[i]
      /\ Len(reports') = Len(reports) + 1 /\ Len(reports) \in Nat
  BY <1>1, <1>3, <1>4, <1>5
<1>7. booted' = booted /\ pci_devices' = pci_devices
  BY DEF sameLists
<1>8. /\ Blocks' = Blocks /\ Ides' = Ides
      /\ \A p : RegsOf(p)' = RegsOf(p)
      /\ \A b, d : Kind(b, d)' = Kind(b, d)
  BY <1>7, IdeSame
<1>9. Blocks' = Blocks /\ Controllers' = Controllers /\ Reports' = Reports
  BY TypesSame
<1>10. Past' = Past /\ Cur' = Cur
  BY <1>3, <1>8 DEF Past, Cur
<1>11. \A s, d : Reported(s, d)' <=> Reported(s, d) \/ (s = port /\ d = drive)
  <2>1. r.regs = port /\ r.drive = drive
    BY <1>1
  <2> QED BY <1>6, <2>1 DEF Reported
<1>12. detect' \in {"next", "select"} /\ (detect' \in Turn <=> ~(channel = 2 /\ drive = 2))
  BY <1>3 DEF Turn
<1>13. DriverType'
  <2>1. channel' \in 1..2 /\ drive' \in 1..2
    BY <1>3, <1>4
  <2>2. detect' \in Turn \cup {"next", "controller", "done"}
    BY <1>12 DEF Turn
  <2> QED BY <1>3, <1>6, <1>9, <2>1, <2>2 DEF IdeBusy, DriverType
<1>14. IdePlace'
  BY <1>3, <1>8, <1>10, <1>12 DEF IdePlace, IdeBusy
<1>15. \A c, d \in 1..2 : 2 * c + d < 2 * channel + drive => Reported(RegsOf(Cur)[c], d)
  BY DEF IdeBusy, IdeReports
<1>16. \A c, d \in 1..2 : 2 * c + d <= 2 * channel + drive => Reported(RegsOf(Cur)[c], d)'
  <2>1. SUFFICES ASSUME NEW c \in 1..2, NEW d \in 1..2, 2 * c + d <= 2 * channel + drive
                 PROVE  Reported(RegsOf(Cur)[c], d) \/ (c = channel /\ d = drive)
    BY <1>1, <1>8, <1>10, <1>11
  <2> QED BY <1>4, <1>15, <2>1
<1>17. Cardinality(Past) \in Nat
  BY FS_CardinalityType DEF IdeBusy, IdePlace
<1>18. Len(reports) = 4 * Cardinality(Past) + 2 * channel + drive - 7
  BY DEF IdeBusy, IdeReports
<1>19. \A i \in DOMAIN reports' : reports'[i].what \in Expected(Kind(reports'[i].regs.base, reports'[i].drive))
  <2>1. r.what \in Expected(Kind(r.regs.base, r.drive))
    BY <1>1, <1>2
  <2>2. \A i \in DOMAIN reports : reports[i].what \in Expected(Kind(reports[i].regs.base, reports[i].drive))
    BY DEF IdeBusy, IdeReports
  <2> QED BY <1>6, <2>1, <2>2
<1>20. \A p \in Past : p # Cur => \A c, d \in 1..2 : Reported(RegsOf(p)[c], d)'
  <2>1. \A p \in Past : p # Cur => \A c, d \in 1..2 : Reported(RegsOf(p)[c], d)
    BY DEF IdeBusy, IdeReports
  <2> QED BY <1>8, <1>11, <2>1
<1>21. IdeReports'
  <2>1. (\A i \in DOMAIN reports : reports[i].what \in Expected(Kind(reports[i].regs.base, reports[i].drive)))'
    BY <1>8, <1>19
  <2>2. CASE channel = 2 /\ drive = 2
    <3>1. \A c, d \in 1..2 : Reported(RegsOf(Cur)[c], d)'
      BY <1>16, <2>2
    <3>2. \A p \in Past : \A c, d \in 1..2 : Reported(RegsOf(p)[c], d)'
      BY <1>10, <1>20, <3>1
    <3>3. Len(reports') = 4 * Cardinality(Past)
      BY <1>6, <1>17, <1>18, <2>2
    <3> QED BY <1>8, <1>10, <1>12, <2>1, <2>2, <3>2, <3>3 DEF IdeReports
  <2>3. CASE ~(channel = 2 /\ drive = 2)
    <3>1. 2 * channel' + drive' = 2 * channel + drive + 1
      BY <1>3, <1>4, <2>3
    <3>2. PICK c, d, e, g, k, l : /\ c = channel /\ d = drive /\ e = channel' /\ g = drive'
                                  /\ k = Cardinality(Past) /\ l = Len(reports)
      OBVIOUS
    <3>3. Len(reports') = 4 * Cardinality(Past) + 2 * channel' + drive' - 7
      <4>1. c \in 1..2 /\ d \in 1..2 /\ e \in 1..2 /\ g \in 1..2 /\ k \in Nat /\ l \in Nat
        BY <1>3, <1>4, <1>6, <1>17, <3>2
      <4>2. 2 * e + g = 2 * c + d + 1 /\ l = 4 * k + 2 * c + d - 7
        BY <1>18, <3>1, <3>2
      <4>3. l + 1 = 4 * k + 2 * e + g - 7
        BY <4>1, <4>2
      <4> QED BY <1>6, <3>2, <4>3
    <3>4. \A x, y \in 1..2 : 2 * x + y < 2 * channel' + drive' => Reported(RegsOf(Cur)[x], y)'
      BY <1>4, <1>16, <3>1
    <3> QED BY <1>8, <1>10, <1>12, <1>20, <2>1, <2>3, <3>3, <3>4 DEF IdeReports
  <2> QED BY <2>2, <2>3
<1>22. IdeSilent'
  BY <1>3, <1>8, <1>10 DEF IdeSilent, IdeBusy
<1>23. IdeTurn'
  BY <1>12 DEF IdeTurn, Turn
<1> QED BY <1>13, <1>14, <1>21, <1>22, <1>23 DEF IdeBusy

LEMMA NoneStep ==
  ASSUME Listed, IdeBusy, UNCHANGED sameLists,
         \/ TestStatus /\ StatusBits = {}
         \/ /\ TestSignature
            /\ <<Signature(ATA_REG_LBA1), Signature(ATA_REG_LBA2)>> \notin {<<20, 235>>, <<105, 150>>}
  PROVE  IdeBusy'
<1>1. Report("None") /\ status' = status /\ detect \in {"test", "error"}
  BY DEF TestStatus, TestSignature
<1>2. detect \in Turn \ {"select"}
  BY <1>1 DEF Turn
<1>3. PICK b, k : b = Base /\ k = Kind(Base, drive)
  OBVIOUS
<1>4. b \in Int /\ booted \in DOMAIN Machines /\ (b \in Blocks => selected[b] = drive)
  BY <1>2, <1>3, BaseIs DEF IdeBusy, IdeTurn, Listed
<1>5. k \notin {"ata", "atapi", "satapi"}
  <2>1. CASE StatusBits = {}
    <3>1. /\ k = "floating" => "ERR" \in StatusBits
          /\ k \notin {"none", "floating"} => StatusBits # {}
      BY <1>3, <1>4, StatusIs DEF Base
    <3> QED BY <2>1, <3>1
  <2>2. CASE TestSignature /\ <<Signature(ATA_REG_LBA1), Signature(ATA_REG_LBA2)>> \notin {<<20, 235>>, <<105, 150>>}
    <3>1. k \notin {"atapi", "satapi"}
      BY <1>3, <1>4, <2>2, SignatureIs DEF Base
    <3>2. detect = "error"
      BY <2>2 DEF TestSignature
    <3>3. k # "ata"
      BY <1>3, <3>2 DEF IdeBusy, IdeTurn
    <3> QED BY <3>1, <3>3
  <2> QED BY <2>1, <2>2
<1>6. "None" \in Expected(k)
  BY <1>5 DEF Expected
<1>7. status' \in [Blocks -> [1..2 -> States]]
  BY <1>1 DEF IdeBusy, DriverType
<1>8. detect \in Turn /\ "None" \in Expected(Kind(Base, drive))
  BY <1>2, <1>3, <1>6
<1> QED BY <1>1, <1>7, <1>8, ReportStep

LEMMA ReadStep ==
  ASSUME Listed, IdeBusy, UNCHANGED sameLists, ReadBuffer PROVE IdeBusy'
<1>1. PICK B : B = {b \in Decoded(ATA_REG_DATA) : status[b][selected[b]] = "data"}
  OBVIOUS
<1>2. PICK word : word = IF B # {} THEN "model" ELSE "garbage"
  OBVIOUS
<1>3. /\ detect = "read" /\ Report(<<type, word>>)
      /\ status' = [b \in Blocks |-> IF b \in B THEN [status[b] EXCEPT ![selected[b]] = "idle"] ELSE status[b]]
  BY <1>1, <1>2, Zenon DEF ReadBuffer
<1>4. detect \in Turn /\ detect \in Turn \ {"select"}
  BY <1>3 DEF Turn
<1>5. PICK a, k : a = Base /\ k = Kind(Base, drive)
  OBVIOUS
<1>6. a \in Int /\ booted \in DOMAIN Machines /\ (a \in Blocks => selected[a] = drive)
  BY <1>4, <1>5, BaseIs DEF IdeBusy, IdeTurn, Listed
<1>7. Decoded(ATA_REG_DATA) = IF a \in Blocks THEN {a} ELSE {}
  <2>1. ATA_REG_DATA \in 0..7
    BY DEF ATA_REG_DATA
  <2> QED BY <1>5, <1>6, <2>1, DecodedIs DEF Base
<1>8. IF type = "ATA" THEN k = "ata" /\ status[a][drive] = "data" ELSE k \in {"atapi", "satapi"}
  BY <1>3, <1>5 DEF IdeBusy, IdeTurn
<1>9. /\ type \in {"ATA", "ATAPI"} /\ word \in {"model", "garbage"}
  BY <1>2 DEF IdeBusy, DriverType
<1>10. <<type, word>> \in Expected(k)
  <2>1. CASE type = "ATA"
    <3>1. a \in Blocks
      BY <1>5, <1>8, <2>1 DEF Kind
    <3>2. a \in B
      BY <1>1, <1>6, <1>7, <1>8, <2>1, <3>1
    <3>3. word = "model" /\ Expected(k) = {<<"ATA", "model">>}
      BY <1>2, <1>8, <2>1, <3>2 DEF Expected
    <3> QED BY <2>1, <3>3
  <2>2. CASE type = "ATAPI"
    <3>1. Expected(k) = {<<"ATAPI", "model">>, <<"ATAPI", "garbage">>}
      BY <1>8, <2>2 DEF Expected
    <3> QED BY <1>9, <2>2, <3>1
  <2> QED BY <1>9, <2>1, <2>2
<1>11. status' \in [Blocks -> [1..2 -> States]]
  <2>1. status \in [Blocks -> [1..2 -> States]] /\ selected \in [Blocks -> 1..2]
    BY DEF IdeBusy, DriverType
  <2>2. ASSUME NEW b \in Blocks
        PROVE  (IF b \in B THEN [status[b] EXCEPT ![selected[b]] = "idle"] ELSE status[b]) \in [1..2 -> States]
    <3>1. PICK s, n : s = status[b] /\ n = selected[b]
      OBVIOUS
    <3>2. s \in [1..2 -> States] /\ n \in 1..2 /\ "idle" \in States
      BY <2>1, <3>1 DEF States
    <3>3. [s EXCEPT ![n] = "idle"] \in [1..2 -> States]
      BY <3>2
    <3> QED BY <3>1, <3>2, <3>3
  <2> QED BY <1>3, <2>2
<1>12. PICK what : what = <<type, word>>
  OBVIOUS
<1>13. /\ Report(what) /\ what \in Expected(Kind(Base, drive))
       /\ what \in {"None"} \cup ({"ATA", "ATAPI"} \X {"model", "garbage"})
  BY <1>3, <1>5, <1>9, <1>10, <1>12
<1> QED BY <1>4, <1>11, <1>13, ReportStep

-----------------------------------------------------------------------------
(* The steps from one place to the next.                                   *)
LEMMA InitializeStep ==
  ASSUME Listed, IdeBusy, UNCHANGED sameLists, pci_ide_initialize,
         \A i \in DOMAIN pci_devices : pci_devices[i].functions \in Seq(Entries),
         pci_devices \in Seq(Listing)
  PROVE  IdeBusy'
<1>1. detect = "next" /\ detect' \in {"next", "controller", "done"} /\ detect \notin Turn /\ detect' \notin Turn
  BY DEF pci_ide_initialize, Turn
<1>2. UNCHANGED <<ide_controllers, channel, drive, type, reports, selected, status, nIEN>>
  BY DEF pci_ide_initialize, driveVars
<1>3. booted' = booted /\ pci_devices' = pci_devices
  BY DEF sameLists
<1>4. /\ Blocks' = Blocks /\ Ides' = Ides
      /\ \A p : RegsOf(p)' = RegsOf(p)
      /\ \A b, d : Kind(b, d)' = Kind(b, d)
  BY <1>3, IdeSame
<1>5. Blocks' = Blocks /\ Controllers' = Controllers /\ Reports' = Reports
  BY TypesSame
<1>6. PICK i, j : i = at[1] /\ j = at[2]
  OBVIOUS
<1>7. at = <<i, j>> /\ i \in Nat \ {0} /\ j \in Nat \ {0}
  BY <1>6 DEF IdeBusy, DriverType
<1>8. at' \in {<<i, j>>, <<i, j + 1>>, <<i + 1, 1>>}
  BY <1>6, <1>7 DEF pci_ide_initialize
<1>9. Past' = Past
  <2>1. ASSUME NEW p \in Ides
        PROVE  (p[1] < at'[1] \/ (p[1] = at'[1] /\ p[2] < at'[2])) <=> (p[1] < i \/ (p[1] = i /\ p[2] < j))
    <3>1. p = <<p[1], p[2]>> /\ p[1] \in Nat \ {0} /\ p[2] \in Nat \ {0}
      BY DEF Listed
    <3>2. CASE at' = at
      BY <1>6, <3>2
    <3>3. CASE at \in Places /\ ~IsIde(FunctionAt(at)) /\ at' = <<at[1], at[2] + 1>>
      <4>1. p # <<i, j>>
        BY <1>7, <3>3 DEF Ides
      <4>2. at'[1] = i /\ at'[2] = j + 1
        BY <1>6, <3>3
      <4> QED BY <1>7, <3>1, <4>1, <4>2
    <3>4. CASE at[1] <= Len(pci_devices) /\ at \notin Places /\ at' = <<at[1] + 1, 1>>
      <4>1. at'[1] = i + 1 /\ at'[2] = 1
        BY <1>6, <3>4
      <4>2. p[1] = i => p[2] < j
        <5>1. SUFFICES ASSUME p[1] = i PROVE p[2] < j
          OBVIOUS
        <5>2. PICK s : s = pci_devices[i].functions
          OBVIOUS
        <5>3. i \in DOMAIN pci_devices
          BY <1>6, <1>7, <3>4
        <5>4. s \in Seq(Entries)
          BY <5>2, <5>3
        <5>5. j \notin DOMAIN s
          BY <1>7, <3>4, <5>2, <5>3, PlaceIs
        <5>6. p \in Places
          BY DEF Ides
        <5>7. p[2] \in DOMAIN s
          BY <3>1, <5>1, <5>2, <5>6, PlaceIs
        <5> QED BY <1>7, <3>1, <5>4, <5>5, <5>7
      <4> QED BY <1>7, <3>1, <4>1, <4>2
    <3> QED BY <3>2, <3>3, <3>4 DEF pci_ide_initialize
  <2> QED BY <1>4, <1>6, <2>1 DEF Past
<1>10. DriverType'
  <2>1. at' \in (Nat \ {0}) \X (Nat \ {0})
    BY <1>7, <1>8
  <2> QED BY <1>1, <1>2, <1>5, <2>1 DEF IdeBusy, DriverType
<1>11. IdePlace'
  <2>1. detect' = "controller" => at' \in Ides
    BY DEF pci_ide_initialize, Ides
  <2>2. detect' = "done" => at'[1] > Len(pci_devices)
    BY DEF pci_ide_initialize
  <2> QED BY <1>1, <1>3, <1>4, <1>9, <2>1, <2>2 DEF IdePlace, IdeBusy
<1>12. \A port, d : Reported(port, d)' <=> Reported(port, d)
  BY <1>2 DEF Reported
<1>13. IdeReports'
  BY <1>1, <1>2, <1>4, <1>9, <1>12 DEF IdeReports, IdeBusy
<1>14. IdeSilent'
  BY <1>2, <1>4, <1>9 DEF IdeSilent, IdeBusy
<1>15. IdeTurn'
  BY <1>1 DEF IdeTurn, Turn
<1> QED BY <1>10, <1>11, <1>13, <1>14, <1>15 DEF IdeBusy

LEMMA ControllerStep ==
  ASSUME Listed, IdeBusy, UNCHANGED sameLists, pci_ide_initialize_controller PROVE IdeBusy'
<1>1. PICK i, j, p, port : i = at[1] /\ j = at[2] /\ p = at /\ port = RegsOf(at)
  OBVIOUS
<1>2. p = <<i, j>> /\ i \in Nat \ {0} /\ j \in Nat \ {0}
  BY <1>1 DEF IdeBusy, DriverType
<1>3. /\ detect = "controller" /\ detect' = "select" /\ channel' = 1 /\ drive' = 1
      /\ ide_controllers' = Append(ide_controllers, port)
      /\ nIEN' = nIEN \cup {b \in Blocks : \E c \in 1..2 : machine.control[b] = Port(port[c], ATA_REG_CONTROL)}
      /\ at' = <<i, j + 1>> /\ UNCHANGED <<type, reports, selected, status>>
  BY <1>1 DEF pci_ide_initialize_controller, RegsOf
<1>4. detect \notin Turn /\ detect' \in Turn
  BY <1>3 DEF Turn
<1>5. booted' = booted /\ pci_devices' = pci_devices
  BY DEF sameLists
<1>6. /\ Blocks' = Blocks /\ Ides' = Ides
      /\ \A q : RegsOf(q)' = RegsOf(q)
      /\ \A b, d : Kind(b, d)' = Kind(b, d)
  BY <1>5, IdeSame
<1>7. Blocks' = Blocks /\ Controllers' = Controllers /\ Reports' = Reports
  BY TypesSame
<1>8. p \in Ides /\ port \in Controllers
  BY <1>1, <1>3 DEF IdeBusy, IdePlace, Controllers
<1>9. Past' = Past \cup {p} /\ p \notin Past /\ Cur' = p
  <2>1. at'[1] = i /\ at'[2] = j + 1
    BY <1>3
  <2>2. ASSUME NEW q \in Ides
        PROVE  (q[1] < i \/ (q[1] = i /\ q[2] < j + 1)) <=> (q[1] < i \/ (q[1] = i /\ q[2] < j)) \/ q = p
    <3>1. q = <<q[1], q[2]>> /\ q[1] \in Nat \ {0} /\ q[2] \in Nat \ {0}
      BY DEF Listed
    <3> QED BY <1>2, <3>1
  <2>3. Past = {q \in Ides : q[1] < i \/ (q[1] = i /\ q[2] < j)}
    BY <1>1 DEF Past
  <2>4. Past' = {q \in Ides : q[1] < i \/ (q[1] = i /\ q[2] < j + 1)}
    BY <1>6, <2>1 DEF Past
  <2>5. p \notin Past
    <3>1. p[1] = i /\ p[2] = j
      BY <1>2
    <3> QED BY <1>2, <2>3, <3>1
  <2>6. Cur' = p
    BY <1>2, <2>1 DEF Cur
  <2> QED BY <1>8, <2>2, <2>3, <2>4, <2>5, <2>6
<1>10. IsFiniteSet(Past') /\ Cardinality(Past') = Cardinality(Past) + 1 /\ Cardinality(Past) \in Nat
  <2>1. IsFiniteSet(Past)
    BY DEF IdeBusy, IdePlace
  <2>2. PICK S : S = Past
    OBVIOUS
  <2>3. IsFiniteSet(S \cup {p}) /\ Cardinality(S \cup {p}) = Cardinality(S) + 1
    BY <1>9, <2>1, <2>2, FS_AddElement
  <2>4. Cardinality(S) \in Nat
    BY <2>1, <2>2, FS_CardinalityType
  <2> QED BY <1>9, <2>2, <2>3, <2>4
<1>11. ide_controllers' \in Seq(Controllers) /\ ide_controllers' # <<>> /\ Last(ide_controllers') = port
  <2>1. PICK s : s = ide_controllers
    OBVIOUS
  <2>2. s \in Seq(Controllers)
    BY <2>1 DEF IdeBusy, DriverType
  <2>3. Append(s, port) \in Seq(Controllers) /\ Append(s, port) # <<>> /\ Append(s, port)[Len(Append(s, port))] = port
    BY <1>8, <2>2
  <2> QED BY <1>3, <2>1, <2>3 DEF Last
<1>12. DriverType'
  <2>1. at' \in (Nat \ {0}) \X (Nat \ {0})
    BY <1>2, <1>3
  <2> QED BY <1>3, <1>4, <1>7, <1>11, <2>1 DEF IdeBusy, DriverType
<1>13. IdePlace'
  BY <1>1, <1>3, <1>4, <1>6, <1>9, <1>10, <1>11 DEF IdePlace
<1>14. IdeReports'
  <2>1. \A r, d : Reported(r, d)' <=> Reported(r, d)
    BY <1>3 DEF Reported
  <2>2. Len(reports) = 4 * Cardinality(Past)
    BY <1>4 DEF IdeBusy, IdeReports
  <2>3. Len(reports') = 4 * Cardinality(Past') + 2 * channel' + drive' - 7
    BY <1>3, <1>10, <2>2
  <2>4. (\A i_1 \in DOMAIN reports : reports[i_1].what \in Expected(Kind(reports[i_1].regs.base, reports[i_1].drive)))'
    BY <1>3, <1>6 DEF IdeBusy, IdeReports
  <2>5. \A q \in Past' : q # p => \A c, d \in 1..2 : Reported(RegsOf(q)[c], d)'
    <3>1. \A q \in Past : \A c, d \in 1..2 : Reported(RegsOf(q)[c], d)
      BY <1>4 DEF IdeBusy, IdeReports
    <3> QED BY <1>6, <1>9, <2>1, <3>1
  <2>6. \A c, d \in 1..2 : ~(2 * c + d < 2 * channel' + drive')
    BY <1>3
  <2> QED BY <1>4, <1>9, <2>3, <2>4, <2>5, <2>6 DEF IdeReports
<1>15. IdeSilent'
  <2>1. ASSUME NEW c \in 1..2, port[c].base \in Blocks \ {CompatBase[1], CompatBase[2]}
        PROVE  port[c].base \in nIEN'
    <3>1. PICK f : f = FunctionAt(p)
      OBVIOUS
    <3>2. f \in DOMAIN machine.config /\ IsIde(f) /\ booted \in DOMAIN Machines /\ port = Channels(f)
      BY <1>1, <1>8, <3>1 DEF Listed, Ides, RegsOf
    <3>3. machine.control[port[c].base] = Port(port[c], ATA_REG_CONTROL)
      BY <2>1, <3>2, ControlIs
    <3> QED BY <1>3, <2>1, <3>3
  <2>2. \A q \in Past, c \in 1..2 :
          RegsOf(q)[c].base \in Blocks \ {CompatBase[1], CompatBase[2]} => RegsOf(q)[c].base \in nIEN'
    BY <1>3 DEF IdeBusy, IdeSilent
  <2>3. RegsOf(p) = port
    BY <1>1
  <2> QED BY <1>6, <1>9, <2>1, <2>2, <2>3 DEF IdeSilent
<1>16. IdeTurn'
  BY <1>3 DEF IdeTurn, Turn
<1> QED BY <1>12, <1>13, <1>14, <1>15, <1>16 DEF IdeBusy

LEMMA StartStep ==
  ASSUME Listed, IdeInit, UNCHANGED sameLists, IdeStart PROVE IdeBusy'
<1>1. /\ detect' = "next" /\ at' = <<1, 1>> /\ ide_controllers' = <<>> /\ reports' = <<>>
      /\ channel' = 1 /\ drive' = 1 /\ type' = "ATA"
      /\ selected' = [b \in Blocks |-> 1] /\ status' = [b \in Blocks |-> <<"idle", "idle">>]
  BY DEF IdeInit, IdeStart, driveVars
<1>2. booted' = booted /\ pci_devices' = pci_devices
  BY DEF sameLists
<1>3. Blocks' = Blocks /\ Ides' = Ides
  BY <1>2, IdeSame
<1>4. Blocks' = Blocks /\ Controllers' = Controllers /\ Reports' = Reports
  BY TypesSame
<1>5. Past' = {}
  <2>1. at'[1] = 1 /\ at'[2] = 1
    BY <1>1
  <2>2. ASSUME NEW q \in Ides PROVE ~(q[1] < 1 \/ (q[1] = 1 /\ q[2] < 1))
    <3>1. q[1] \in Nat \ {0} /\ q[2] \in Nat \ {0}
      BY DEF Listed
    <3> QED BY <3>1
  <2>3. Past' = {q \in Ides : q[1] < 1 \/ (q[1] = 1 /\ q[2] < 1)}
    BY <1>3, <2>1 DEF Past
  <2> QED BY <2>2, <2>3
<1>6. IsFiniteSet({}) /\ Cardinality({}) = 0
  BY FS_EmptySet
<1>7. DriverType'
  <2>1. selected' \in [Blocks -> 1..2]
    BY <1>1
  <2>2. <<"idle", "idle">> \in [1..2 -> States]
    BY DEF States
  <2>3. status' \in [Blocks -> [1..2 -> States]]
    BY <1>1, <2>2
  <2>4. at' \in (Nat \ {0}) \X (Nat \ {0})
    BY <1>1
  <2> QED BY <1>1, <1>4, <2>1, <2>3, <2>4 DEF DriverType
<1>8. detect' \notin Turn
  BY <1>1 DEF Turn
<1>9. IdePlace'
  BY <1>1, <1>5, <1>6, <1>8 DEF IdePlace
<1>10. IdeReports'
  BY <1>1, <1>5, <1>6, <1>8 DEF IdeReports
<1>11. IdeSilent'
  BY <1>5 DEF IdeSilent
<1>12. IdeTurn'
  BY <1>1 DEF IdeTurn, Turn
<1> QED BY <1>7, <1>9, <1>10, <1>11, <1>12 DEF IdeBusy

-----------------------------------------------------------------------------
(* The driver starts when the scan has ended.                              *)
LEMMA AfterDevices ==
  ASSUME NEW s \in {Order[i] : i \in DOMAIN Order}, s # "done", After(s) = "devices"
  PROVE  s = "pci_init"
<1>1. PICK k \in 1..24 : s = Order[k]
  BY OrderIs
<1>2. Order[24] = "done" /\ Order[21] = "devices" /\ Order[20] = "pci_init"
  BY DEF Order
<1>3. k \in 1..23
  BY <1>1, <1>2
<1>4. Order[k + 1] = Order[21]
  BY <1>1, <1>2, <1>3, AfterIs
<1>5. k + 1 = 21
  BY <1>3, <1>4, OrderDistinct
<1>6. k = 20
  BY <1>3, <1>5
<1> QED BY <1>1, <1>2, <1>6

LEMMA DevicesAfterScan ==
  ASSUME [Next]_vars, stage # "devices", stage' = "devices"
  PROVE  Scan /\ scan = "done"
<1>1. \A s : s \in {"pic_init", "irq_init", "calibrate", "console", "acpi_init", "scheduler_exit"} =>
        s \in {Order[i] : i \in DOMAIN Order}
  BY OrderIs DEF Order
<1>2. CASE SetUp
  BY <1>2, AfterDevices DEF SetUp, Plain, Done, Goto
<1>3. CASE SetUpPic \/ SetUpIrq \/ EndCalibration \/ SetUpConsole \/ acpi_init
  <2>1. PICK s \in {"pic_init", "irq_init", "calibrate", "console", "acpi_init"} :
          stage' = After(s) \/ stage' = "lost"
    BY <1>3 DEF SetUpPic, SetUpIrq, EndCalibration, SetUpConsole, acpi_init, Done, Goto
  <2> QED BY <1>1, <2>1, AfterDevices
<1>4. CASE Start \/ ReadTag \/ TagsRead \/ (Calibration /\ ~EndCalibration)
  BY <1>4 DEF Start, ReadTag, TagsRead, Calibration, StartCalibration, Double, Sync, DoubleDelay, Halve, Fine,
              FineDelay, calibrating, Goto
<1>5. CASE Scan
  BY <1>5 DEF Scan
<1>6. CASE Devices \/ Disturb \/ DrivesWork \/ UNCHANGED vars
  BY <1>6 DEF Devices, Disturb, Tick, Timer, Others, DrivesWork, vars, bootVars
<1> QED BY <1>2, <1>3, <1>4, <1>5, <1>6 DEF Next, BootStep

IdeInv ==
  /\ stage = "devices" \/ detect # "off" => scan = "done"
  /\ IdeInit \/ (detect # "off" /\ IdeBusy)

LEMMA ListedIs ==
  ASSUME PciInv, scan = "done"
  PROVE  /\ Listed /\ pci_devices \in Seq(Listing)
         /\ \A i \in DOMAIN pci_devices : pci_devices[i].functions \in Seq(Entries)
<1>1. booted \in DOMAIN Machines /\ Walking /\ EveryFunctionOnce
  BY DEF PciInv
<1>2. pci_devices \in Seq(Listing)
  BY <1>1 DEF Walking, Scanning
<1>3. \A i \in DOMAIN pci_devices : pci_devices[i].functions \in Seq(Entries)
  <2>1. \A i \in DOMAIN pci_devices : pci_devices[i] \in Listing
    BY <1>2
  <2> QED BY <2>1 DEF Listing
<1>4. ASSUME NEW p \in Ides
      PROVE  p \in (Nat \ {0}) \X (Nat \ {0}) /\ FunctionAt(p) \in DOMAIN machine.config
  <2>1. p \in Places
    BY DEF Ides
  <2>2. FunctionAt(p) \in Functions
    BY <1>1, <2>1 DEF EveryFunctionOnce
  <2>3. FunctionAt(p) \in DOMAIN machine.config
    BY <2>2 DEF Functions
  <2>4. PICK i \in DOMAIN pci_devices : \E j \in DOMAIN pci_devices[i].functions : p = <<i, j>>
    BY <2>1, PlaceIs
  <2>5. PICK j \in DOMAIN pci_devices[i].functions : p = <<i, j>>
    BY <2>4
  <2>6. i \in Nat \ {0}
    BY <1>2
  <2>7. j \in Nat \ {0}
    BY <1>3
  <2> QED BY <2>3, <2>5, <2>6, <2>7
<1> QED BY <1>1, <1>2, <1>3, <1>4 DEF Listed

LEMMA IdeBusyFrame ==
  ASSUME IdeBusy, UNCHANGED sameLists, UNCHANGED ideVars PROVE IdeBusy'
<1>1. UNCHANGED <<detect, at, ide_controllers, channel, drive, type, reports, selected, status, nIEN>>
  BY DEF ideVars, driverVars, driveVars
<1>2. /\ IdePlace' /\ IdeReports' /\ IdeSilent' /\ Base' = Base
      /\ \A a, e : Kind(a, e)' = Kind(a, e)
  BY <1>1, TurnGoesOn DEF IdeBusy
<1>3. Blocks' = Blocks /\ Controllers' = Controllers /\ Reports' = Reports
  BY TypesSame
<1>4. DriverType'
  BY <1>1, <1>3 DEF IdeBusy, DriverType
<1>5. Kind(Base, drive)' = Kind(Base, drive)
  BY <1>1, <1>2
<1>6. IdeTurn'
  BY <1>1, <1>2, <1>3, <1>5 DEF IdeTurn, IdeBusy
<1> QED BY <1>2, <1>4, <1>6 DEF IdeBusy

LEMMA IdeInitFrame ==
  ASSUME IdeInit, booted' = booted, UNCHANGED ideVars PROVE IdeInit'
<1>1. Blocks' = Blocks
  BY DEF Blocks, machine
<1> QED BY <1>1 DEF IdeInit, ideVars, driverVars, driveVars

LEMMA DriverStep ==
  ASSUME PciInv, scan = "done", IdeInit \/ (detect # "off" /\ IdeBusy), UNCHANGED pciVars, Driver
  PROVE  detect' # "off" /\ IdeBusy'
<1>1. /\ Listed /\ pci_devices \in Seq(Listing)
      /\ \A i \in DOMAIN pci_devices : pci_devices[i].functions \in Seq(Entries)
  BY ListedIs
<1>2. UNCHANGED sameLists
  BY DEF pciVars, sameLists
<1>3. CASE IdeStart
  <2>1. IdeInit
    BY <1>3 DEF IdeStart
  <2> QED BY <1>1, <1>2, <1>3, <2>1, StartStep DEF IdeStart
<1>4. CASE ~IdeStart
  <2>1. detect # "off"
    BY <1>4 DEF Driver, pci_ide_initialize, pci_ide_initialize_controller, SelectDrive, Identify, TestStatus,
                Poll, TestSignature, ReadBuffer
  <2>2. ~IdeInit
    BY <2>1 DEF IdeInit
  <2>3. IdeBusy
    BY <2>2, Zenon
  <2> SUFFICES IdeBusy'
    BY DEF IdeBusy, DriverType, Turn
  <2>4. CASE pci_ide_initialize
    BY <1>1, <1>2, <2>3, <2>4, InitializeStep
  <2>5. CASE pci_ide_initialize_controller
    BY <1>1, <1>2, <2>3, <2>5, ControllerStep
  <2>6. CASE SelectDrive
    BY <1>1, <1>2, <2>3, <2>6, SelectStep
  <2>7. CASE Identify
    BY <1>1, <1>2, <2>3, <2>7, IdentifyStep
  <2>8. CASE TestStatus
    <3>1. CASE StatusBits = {}
      BY <1>1, <1>2, <2>3, <2>8, <3>1, NoneStep
    <3>2. CASE StatusBits # {}
      BY <1>1, <1>2, <2>3, <2>8, <3>2, PollingStep
    <3> QED BY <3>1, <3>2
  <2>9. CASE Poll
    BY <1>1, <1>2, <2>3, <2>9, PollingStep
  <2>10. CASE TestSignature
    <3>1. CASE <<Signature(ATA_REG_LBA1), Signature(ATA_REG_LBA2)>> \in {<<20, 235>>, <<105, 150>>}
      BY <1>1, <1>2, <2>3, <2>10, <3>1, PacketStep, Zenon
    <3>2. CASE <<Signature(ATA_REG_LBA1), Signature(ATA_REG_LBA2)>> \notin {<<20, 235>>, <<105, 150>>}
      BY <1>1, <1>2, <2>3, <2>10, <3>2, NoneStep, Zenon
    <3> QED BY <3>1, <3>2
  <2>11. CASE ReadBuffer
    BY <1>1, <1>2, <2>3, <2>11, ReadStep
  <2> QED BY <1>4, <2>4, <2>5, <2>6, <2>7, <2>8, <2>9, <2>10, <2>11 DEF Driver
<1> QED BY <1>3, <1>4

LEMMA IdeInvStep ==
  ASSUME PciInv, IdeInv, [Next]_vars PROVE IdeInv'
<1>1. booted' = booted
  BY DEF Next, BootStep, Start, ReadTag, TagsRead, SetUp, SetUpPic, SetUpIrq, Calibration, StartCalibration,
         Double, Sync, DoubleDelay, Halve, Fine, FineDelay, EndCalibration, calibrating, SetUpConsole,
         acpi_init, Devices, Scan, PciNext, pci_scan, pci_scan_bus, pci_scan_device_function, pci_scan_device,
         EndBus, pci_init, Disturb, Timer, DrivesWork, vars, pciVars
<1>2. CASE Scan /\ scan # "done"
  <2>1. detect = "off" /\ IdeInit /\ UNCHANGED ideVars /\ stage' # "devices" /\ detect' = detect
    BY <1>2 DEF Scan, IdeInv, IdeBusy, DriverType, Turn, ideVars, driverVars
  <2> QED BY <1>1, <2>1, IdeInitFrame DEF IdeInv
<1>3. CASE ~(Scan /\ scan # "done")
  <2>1. UNCHANGED pciVars
    BY <1>3 DEF Next, BootStep, Start, ReadTag, TagsRead, SetUp, SetUpPic, SetUpIrq, Calibration, StartCalibration,
         Double, Sync, DoubleDelay, Halve, Fine, FineDelay, EndCalibration, calibrating, SetUpConsole,
         acpi_init, Devices, Scan, Disturb, Timer, DrivesWork, vars
  <2>2. scan' = scan /\ UNCHANGED sameLists
    BY <2>1 DEF pciVars, sameLists
  <2>3. stage' = "devices" => scan = "done"
    BY DevicesAfterScan DEF IdeInv
  <2>4. CASE Devices /\ detect # "done"
    <3>1. Driver /\ scan = "done"
      BY <2>4 DEF Devices, IdeInv
    <3>2. detect' # "off" /\ IdeBusy'
      BY <2>1, <3>1, DriverStep DEF IdeInv
    <3> QED BY <2>2, <3>1, <3>2 DEF IdeInv
  <2>5. CASE DrivesWork
    <3>1. CASE IdeInit
      <4>1. PICK b \in Blocks, d \in 1..2 : DriveDone(b, d)
        BY <2>5 DEF DrivesWork, Drives
      <4>2. status[b][d] = "idle"
        BY <3>1 DEF IdeInit
      <4> QED BY <4>1, <4>2 DEF DriveDone
    <3>2. CASE detect # "off" /\ IdeBusy
      <4>1. Listed /\ scan = "done"
        BY <3>2, ListedIs DEF IdeInv
      <4>2. Drives /\ detect' = detect
        BY <2>5 DEF DrivesWork, Drives, DriveDone, driverVars
      <4>3. IdeBusy'
        BY <2>2, <3>2, <4>1, <4>2, DriveStep
      <4> QED BY <2>2, <3>2, <4>1, <4>2, <4>3 DEF IdeInv
    <3> QED BY <3>1, <3>2 DEF IdeInv
  <2>6. CASE UNCHANGED ideVars
    <3>1. detect' = detect
      BY <2>6 DEF ideVars, driverVars
    <3>2. IdeInit' \/ (detect' # "off" /\ IdeBusy')
      BY <1>1, <2>2, <2>6, <3>1, IdeInitFrame, IdeBusyFrame DEF IdeInv
    <3> QED BY <2>2, <2>3, <3>1, <3>2 DEF IdeInv
  <2>7. (Devices /\ detect # "done") \/ DrivesWork \/ UNCHANGED ideVars
    BY DEF Next, BootStep, Start, ReadTag, TagsRead, SetUp, SetUpPic, SetUpIrq, Calibration, StartCalibration,
         Double, Sync, DoubleDelay, Halve, Fine, FineDelay, EndCalibration, calibrating, SetUpConsole,
         acpi_init, Devices, Scan, Disturb, Timer, vars
  <2> QED BY <2>4, <2>5, <2>6, <2>7
<1> QED BY <1>2, <1>3

(* When the driver has ended, it has gone past every controller.           *)
LEMMA DriverEnds ==
  ASSUME PciInv, IdeInv PROVE DrivesIdentified
<1>1. SUFFICES ASSUME detect = "done"
               PROVE  /\ \A f \in Functions : IsIde(f) =>
                           \A c \in 1..2, d \in 1..2 :
                             /\ \E i \in DOMAIN reports : reports[i].regs = Channels(f)[c] /\ reports[i].drive = d
                             /\ \A i \in DOMAIN reports :
                                  reports[i].regs = Channels(f)[c] /\ reports[i].drive = d =>
                                    reports[i].what \in Expected(Kind(Channels(f)[c].base, d))
                             /\ Channels(f)[c].base \in Blocks \ {CompatBase[1], CompatBase[2]} =>
                                  Channels(f)[c].base \in nIEN
                      /\ Len(reports) = 4 * Cardinality(Ides)
  BY Zenon DEF DrivesIdentified, Kind, Ides
<1>2. IdeBusy /\ scan = "done"
  BY <1>1 DEF IdeInv, IdeInit
<1>3. /\ Listed /\ pci_devices \in Seq(Listing) /\ EveryFunctionOnce
  BY <1>2, ListedIs DEF PciInv
<1>4. detect \notin Turn /\ at[1] > Len(pci_devices) /\ at[1] \in Nat
  BY <1>1, <1>2 DEF Turn, IdeBusy, IdePlace, DriverType
<1>5. Past = Ides
  <2>1. ASSUME NEW p \in Ides PROVE p[1] < at[1]
    <3>1. PICK i \in DOMAIN pci_devices : \E j \in DOMAIN pci_devices[i].functions : p = <<i, j>>
      BY PlaceIs DEF Ides
    <3>2. p[1] = i
      BY <3>1
    <3> QED BY <1>3, <1>4, <3>1, <3>2
  <2> QED BY <2>1 DEF Past
<1>6. Len(reports) = 4 * Cardinality(Ides)
  BY <1>2, <1>4, <1>5 DEF IdeBusy, IdeReports
<1>7. ASSUME NEW f \in Functions, IsIde(f), NEW c \in 1..2, NEW d \in 1..2
      PROVE  /\ \E i \in DOMAIN reports : reports[i].regs = Channels(f)[c] /\ reports[i].drive = d
             /\ \A i \in DOMAIN reports :
                  reports[i].regs = Channels(f)[c] /\ reports[i].drive = d =>
                    reports[i].what \in Expected(Kind(Channels(f)[c].base, d))
             /\ Channels(f)[c].base \in Blocks \ {CompatBase[1], CompatBase[2]} =>
                  Channels(f)[c].base \in nIEN
  <2>1. PICK p \in Places : f = FunctionAt(p)
    BY <1>2, <1>3 DEF EveryFunctionOnce
  <2>2. p \in Past /\ RegsOf(p) = Channels(f)
    BY <1>5, <1>7, <2>1 DEF Ides, RegsOf
  <2>3. Reported(Channels(f)[c], d)
    BY <1>2, <1>4, <2>2 DEF IdeBusy, IdeReports
  <2>4. \A i \in DOMAIN reports :
          reports[i].regs = Channels(f)[c] /\ reports[i].drive = d =>
            reports[i].what \in Expected(Kind(Channels(f)[c].base, d))
    BY <1>2 DEF IdeBusy, IdeReports
  <2>5. Channels(f)[c].base \in Blocks \ {CompatBase[1], CompatBase[2]} => Channels(f)[c].base \in nIEN
    BY <1>2, <2>2 DEF IdeBusy, IdeSilent
  <2> QED BY <2>3, <2>4, <2>5 DEF Reported
<1> QED BY <1>6, <1>7

(* DrivesIdentified: when pci_ide_initialize has ended, every drive of     *)
(* every controller has been reported for what it is, whatever the drives  *)
(* still do, and the channels with base addresses of their own are silent. *)
THEOREM DrivesCorrect == Spec => []DrivesIdentified
<1>1. Init => PciInv /\ IdeInv
  BY DEF Init, PciInit, PciInv, EveryFunctionOnce, IdeInv, IdeInit
<1>2. PciInv /\ IdeInv /\ [Next]_vars => (PciInv /\ IdeInv)'
  BY PciInvStep, IdeInvStep
<1>3. PciInv /\ IdeInv => DrivesIdentified
  BY DriverEnds
<1> QED BY <1>1, <1>2, <1>3, PTL DEF Spec
=============================================================================
