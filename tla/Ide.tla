-------------------------------- MODULE Ide ---------------------------------
(***************************************************************************)
(* The IDE driver of arch/i386/kernel/drivers/ide/pci_ide.c, a devices     *)
(* initcall: it looks for IDE controllers among the PCI functions and      *)
(* identifies the two drives on each of their two channels, polling        *)
(* registers while the drives (external) work.                             *)
(*                                                                         *)
(* The machine gives the drives on each channel, and the port of its       *)
(* control register, by the first of its command ports.  A drive is        *)
(* "none", "floating" (the lines read as ones), "ata", "atapi", "satapi"   *)
(* (a packet drive behind a serial bridge) or "faulty".                    *)
(***************************************************************************)
EXTENDS Pci, FiniteSets

CONSTANTS
  CompatBase,      \* <<0x1F0, 0x170>>: the ports of the two channels of a
  CompatControl    \* <<0x3F6, 0x376>>: controller without base addresses

(* The port of an I/O base address register: its low two bits are no part  *)
(* of it, and a port has 16 bits.                                          *)
Address(bar) == 4 * (bar[1] \div 4) + 256 * bar[2]
IsDefault(bar) == bar[1] < 4 /\ Tail(bar) = <<0, 0, 0>>

(* A channel of a controller with base addresses of its own, the pairs at  *)
(* 16 and 24, has its control register two ports behind the second.        *)
ASSUME IdeAssumption ==
  /\ CompatBase \in [1..2 -> Nat] /\ CompatControl \in [1..2 -> Nat]
  /\ \A m \in DOMAIN Machines : LET M == Machines[m] IN
       /\ DOMAIN M.drives \subseteq Nat
       /\ \A f \in DOMAIN M.config, reg \in {16, 24} :
            M.config[f][8][4] = 1 /\ M.config[f][8][3] = 1 /\ Address(M.config[f][reg]) \in DOMAIN M.drives =>
              /\ ~IsDefault(M.config[f][reg + 4])
              /\ M.control[Address(M.config[f][reg])] = Address(M.config[f][reg + 4]) + 2

VARIABLES
  detect,            \* where the driver is
  at,                \* the place in the lists that pci_ide_initialize looks at
  ide_controllers,   \* the list of controllers: the registers of two channels
  channel, drive,    \* the loop counters of pci_ide_detect_devices, from 1
  type,              \* its local of that name
  reports,           \* what it has printed for each drive
  selected,          \* external: the drive each channel has selected
  status,            \* external: the state of each drive
  nIEN               \* external: the channels whose interrupt is off

driverVars == <<detect, at, ide_controllers, channel, drive, type, reports>>
driveVars  == <<selected, status, nIEN>>
ideVars    == <<driverVars, driveVars>>

ATA_REG_DATA == 0
ATA_REG_LBA1 == 4
ATA_REG_LBA2 == 5
ATA_REG_HDDEVSEL == 6
ATA_REG_COMMAND == 7
ATA_REG_STATUS == 7
ATA_REG_SECCOUNT1 == 8
ATA_REG_CONTROL == 12

Blocks == DOMAIN machine.drives

IdeInit ==
  /\ detect = "off"
  /\ at = <<1, 1>> /\ ide_controllers = <<>> /\ reports = <<>>
  /\ channel = 1 /\ drive = 1 /\ type = "ATA"
  /\ selected = [b \in Blocks |-> 1]
  /\ status = [b \in Blocks |-> <<"idle", "idle">>]
  /\ nIEN = {}

-----------------------------------------------------------------------------
(* The port behind a register number: command block, its high bytes,       *)
(* control block, bus master registers.                                    *)
Port(regs, reg) ==
  IF reg < ATA_REG_SECCOUNT1 THEN regs.base + reg
  ELSE IF reg < ATA_REG_CONTROL THEN regs.base + reg - 6
  ELSE IF reg < 14 THEN regs.ctrl + reg - 10
  ELSE regs.bm_ide + reg - 14

(* The base address registers, or the default where all bits are 0.        *)
Bar(f, n) == pci_config_readl(f, 16 + 4 * n)
OrDefault(bar, default) == IF IsDefault(bar) THEN default ELSE Address(bar)

Channels(f) ==
  [c \in 1..2 |-> [base   |-> OrDefault(Bar(f, 2 * c - 2), CompatBase[c]),
                   ctrl   |-> OrDefault(Bar(f, 2 * c - 1), CompatControl[c]),
                   bm_ide |-> (Address(Bar(f, 4)) + 8 * (c - 1)) % 65536]]

IdeStart ==
  /\ detect = "off" /\ detect' = "next"
  /\ UNCHANGED <<at, ide_controllers, channel, drive, type, reports, driveVars>>

IsIde(f) == LET code == pci_get_class_code(f) IN code[4] = 1 /\ code[3] = 1

(* pci_ide_initialize looks at one function after the other, device by     *)
(* device.                                                                 *)
pci_ide_initialize ==
  /\ detect = "next"
  /\ \/ at[1] > Len(pci_devices) /\ detect' = "done" /\ UNCHANGED at
     \/ at \in Places /\ IsIde(FunctionAt(at)) /\ detect' = "controller" /\ UNCHANGED at
     \/ at \in Places /\ ~IsIde(FunctionAt(at)) /\ at' = <<at[1], at[2] + 1>> /\ UNCHANGED detect
     \/ at[1] <= Len(pci_devices) /\ at \notin Places /\ at' = <<at[1] + 1, 1>> /\ UNCHANGED detect
  /\ UNCHANGED <<ide_controllers, channel, drive, type, reports, driveVars>>

(* pci_ide_initialize_controller, called at the start of                   *)
(* pci_ide_detect_devices, writes nIEN to both control registers; the      *)
(* controller joins the list.                                              *)
pci_ide_initialize_controller ==
  /\ detect = "controller" /\ detect' = "select"
  /\ LET regs == Channels(FunctionAt(at))
     IN  /\ ide_controllers' = Append(ide_controllers, regs)
         /\ nIEN' = nIEN \cup
              {b \in Blocks : \E c \in 1..2 : machine.control[b] = Port(regs[c], ATA_REG_CONTROL)}
  /\ at' = <<at[1], at[2] + 1>>
  /\ channel' = 1 /\ drive' = 1
  /\ UNCHANGED <<type, reports, selected, status>>

-----------------------------------------------------------------------------
(* The channel whose command block decodes the port of a register of the   *)
(* channel at hand (external): none or one.                                *)
Decoded(reg) == {b \in Blocks : Port(Last(ide_controllers)[channel], reg) = b + reg}

DriveAt(b) == machine.drives[b][selected[b]]
Answering(reg) ==
  IF Decoded(reg) = {} THEN "floating" ELSE DriveAt(CHOOSE b \in Decoded(reg) : TRUE)
State(reg) == LET b == CHOOSE b \in Decoded(reg) : TRUE IN status[b][selected[b]]

(* What a command makes of the drives (external).                          *)
Commanded(busy) ==
  [b \in Blocks |-> IF b \in Decoded(ATA_REG_COMMAND) /\ DriveAt(b) \notin {"none", "floating"}
                    THEN [status[b] EXCEPT ![selected[b]] = busy] ELSE status[b]]

(* A drive finishes (external): a packet drive refuses IDENTIFY with an    *)
(* error and answers IDENTIFY PACKET.                                      *)
DriveDone(b, d) ==
  /\ status[b][d] \in {"identify", "packet"}
  /\ status' = [status EXCEPT ![b][d] =
       IF machine.drives[b][d] = "ata" \/ status[b][d] = "packet" THEN "data" ELSE "error"]
  /\ UNCHANGED <<driverVars, selected, nIEN>>

(* The status register and the signature of a drive (external).            *)
StatusBits ==
  LET kind == Answering(ATA_REG_STATUS)
  IN  CASE kind = "none"     -> {}
        [] kind = "floating" -> {"BSY", "DRDY", "DF", "DSC", "DRQ", "CORR", "IDX", "ERR"}
        [] OTHER -> LET s == State(ATA_REG_STATUS)
                    IN  CASE s = "data"  -> {"DRDY", "DSC", "DRQ"}
                          [] s = "error" -> {"DRDY", "DSC", "ERR"}
                          [] s = "idle"  -> {"DRDY", "DSC"}
                          [] OTHER       -> {"BSY"}

Signature(reg) ==
  CASE Answering(reg) = "atapi"    -> IF reg = ATA_REG_LBA1 THEN 20 ELSE 235
    [] Answering(reg) = "satapi"   -> IF reg = ATA_REG_LBA1 THEN 105 ELSE 150
    [] Answering(reg) = "floating" -> 255
    [] OTHER                       -> 0

-----------------------------------------------------------------------------
(* The turn of the loops for one drive: select it ...                      *)
SelectDrive ==
  /\ detect = "select" /\ detect' = "identify"
  /\ type' = "ATA"
  /\ selected' = [b \in Blocks |-> IF b \in Decoded(ATA_REG_HDDEVSEL) THEN drive ELSE selected[b]]
  /\ UNCHANGED <<at, ide_controllers, channel, drive, reports, status, nIEN>>

(* ... tell it to identify itself ...                                      *)
Identify ==
  /\ detect = "identify" /\ detect' = "test"
  /\ status' = Commanded("identify")
  /\ UNCHANGED <<at, ide_controllers, channel, drive, type, reports, selected, nIEN>>

(* The line about the drive ends, and the turn with it.                    *)
Report(what) ==
  /\ reports' = Append(reports, [regs |-> Last(ide_controllers)[channel], drive |-> drive, what |-> what])
  /\ detect' = IF <<channel, drive>> = <<2, 2>> THEN "next" ELSE "select"
  /\ drive' = IF drive = 2 THEN 1 ELSE 2
  /\ channel' = IF drive = 2 THEN 2 ELSE channel
  /\ UNCHANGED <<at, ide_controllers, type, selected, nIEN>>

(* ... a status of 0 means that there is none ...                          *)
TestStatus ==
  /\ detect = "test"
  /\ IF StatusBits = {} THEN Report("None")
     ELSE detect' = "poll" /\ UNCHANGED <<at, ide_controllers, channel, drive, type, reports, selected, nIEN>>
  /\ UNCHANGED status

(* A bug in the polling: the data is read as soon as the drive is not in   *)
(* error.                                                                  *)
PollOnce ==
  /\ detect = "poll"
  /\ detect' = IF "ERR" \in StatusBits THEN "error" ELSE "read"
  /\ UNCHANGED <<at, ide_controllers, channel, drive, type, reports, driveVars>>

(* ... otherwise the status is polled until there is an error or data.     *)
(* The turns of that loop that go round again change nothing.              *)
Poll ==
  /\ detect = "poll"
  /\ "ERR" \in StatusBits \/ ("BSY" \notin StatusBits /\ "DRQ" \in StatusBits)
  /\ detect' = IF "ERR" \in StatusBits THEN "error" ELSE "read"
  /\ UNCHANGED <<at, ide_controllers, channel, drive, type, reports, driveVars>>

(* On an error the signature tells a packet drive, which gets a command of *)
(* its own; the driver sleeps and does not poll again.                     *)
TestSignature ==
  /\ detect = "error"
  /\ IF <<Signature(ATA_REG_LBA1), Signature(ATA_REG_LBA2)>> \in {<<20, 235>>, <<105, 150>>}
     THEN /\ detect' = "read" /\ type' = "ATAPI"
          /\ status' = Commanded("packet")
          /\ UNCHANGED <<at, ide_controllers, channel, drive, reports, selected, nIEN>>
     ELSE Report("None") /\ UNCHANGED status

(* 128 times inl, and the line with the model: garbage if the drive had    *)
(* nothing to say yet.                                                     *)
ReadBuffer ==
  /\ detect = "read"
  /\ LET B == {b \in Decoded(ATA_REG_DATA) : status[b][selected[b]] = "data"}
     IN  /\ Report(<<type, IF B # {} THEN "model" ELSE "garbage">>)
         /\ status' = [b \in Blocks |-> IF b \in B THEN [status[b] EXCEPT ![selected[b]] = "idle"]
                                        ELSE status[b]]

Driver ==
  \/ IdeStart \/ pci_ide_initialize \/ pci_ide_initialize_controller
  \/ SelectDrive \/ Identify \/ TestStatus \/ Poll \/ TestSignature \/ ReadBuffer

Drives == \E b \in Blocks, d \in 1..2 : DriveDone(b, d)

-----------------------------------------------------------------------------
(* What the driver should report of a drive: nothing where there is none,  *)
(* the model of an ATA drive, and of a packet drive its kind (its model    *)
(* only if it was quick enough).                                           *)
Expected(kind) ==
  CASE kind = "ata"                  -> {<<"ATA", "model">>}
    [] kind \in {"atapi", "satapi"}  -> {<<"ATAPI", "model">>, <<"ATAPI", "garbage">>}
    [] OTHER                         -> {"None"}

(* Every drive of every controller has been identified for what it is,     *)
(* whatever the drive before it on the channel still does, and the         *)
(* channels of a controller with base addresses of its own are silent.     *)
(* (With the default addresses nIEN is written to port 0x3F8 or 0x378.)    *)
DrivesIdentified ==
  detect = "done" =>
    /\ \A f \in Functions : IsIde(f) =>
         \A c \in 1..2, d \in 1..2 :
           LET regs == Channels(f)[c]
               kind == IF regs.base \in Blocks THEN machine.drives[regs.base][d] ELSE "floating"
           IN  /\ \E i \in DOMAIN reports : reports[i].regs = regs /\ reports[i].drive = d
               /\ \A i \in DOMAIN reports :
                    reports[i].regs = regs /\ reports[i].drive = d => reports[i].what \in Expected(kind)
               /\ regs.base \in Blocks \ {CompatBase[1], CompatBase[2]} => regs.base \in nIEN
    /\ Len(reports) = 4 * Cardinality({p \in Places : IsIde(FunctionAt(p))})
=============================================================================
