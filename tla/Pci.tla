-------------------------------- MODULE Pci ---------------------------------
(***************************************************************************)
(* The PCI enumeration of kernel/kernel/pci/pci.c: pci_scan walks the      *)
(* buses, devices and functions through the configuration registers and    *)
(* recurses into the buses behind bridges, pci_init lists what was found.  *)
(*                                                                         *)
(* A 32-bit register is the tuple of its four bytes, lowest first.         *)
(***************************************************************************)
EXTENDS Integers, Sequences, SequencesExt

CONSTANTS
  Machines,     \* a sequence of records, with a field config: the registers of
                \* each function
  NDevices,     \* 32 on a bus
  NFunctions    \* 8 in a device

(* Functions are addressed by bus, device and function number.  The        *)
(* firmware has numbered the buses: a bridge leads to a higher bus.        *)
ASSUME PciAssumption ==
  /\ NDevices \in Nat \ {0} /\ NFunctions \in Nat \ {0}
  /\ \A m \in DOMAIN Machines : \A f \in DOMAIN Machines[m].config :
       /\ f \in (0..255) \X (0..NDevices - 1) \X (0..NFunctions - 1)
       /\ Machines[m].config[f] \in [{0, 8, 12, 16, 20, 24, 28, 32} -> (0..255) \X (0..255) \X (0..255) \X (0..255)]
       /\ Machines[m].config[f][8][4] = 6 /\ Machines[m].config[f][8][3] = 4 => Machines[m].config[f][24][2] > f[1]

VARIABLES
  booted,        \* the machine, by its place in Machines
  scan,          \* where pci_init is: "off", "scan", "done"
  roots,         \* the buses that pci_scan has still to scan
  frames,        \* the calls of pci_scan_bus, the innermost last
  pci_devices,   \* the list of devices
  listed         \* the lines printed by pci_init, by device

pciVars == <<booted, scan, roots, frames, pci_devices, listed>>

machine == Machines[booted]

-----------------------------------------------------------------------------
(* The configuration space (external): a function that is not there reads  *)
(* as ones.                                                                *)
Absent == <<255, 255, 255, 255>>
Config(f, reg) == IF f \in DOMAIN machine.config THEN machine.config[f][reg] ELSE Absent

pci_config_readl(f, offset) == Config(f, 4 * (offset \div 4))
pci_config_readw(f, offset) ==
  LET r == pci_config_readl(f, offset)  low == 2 * ((offset \div 2) % 2)
  IN  <<r[low + 1], r[low + 2]>>

pci_get_class_code(f) == pci_config_readl(f, 8)
pci_get_header_type(f) == pci_config_readw(f, 14)[1]
pci_get_secondary_bus_number(f) == pci_config_readl(f, 24)[2]

(* The pair of vendor and device; a vendor of all ones means no device.    *)
NoDevice == << <<255, 255>>, <<255, 255>> >>
pci_get_device_id(f) ==
  LET vendor == pci_config_readw(f, 0)
  IN  IF vendor = <<255, 255>> THEN NoDevice ELSE <<vendor, pci_config_readw(f, 2)>>

Present(f) == pci_get_device_id(f) # NoDevice
MultiFunction(f) == pci_get_header_type(f) >= 128

-----------------------------------------------------------------------------
(* pci_get_class_name.  A name is the triple of the codes it stands for,   *)
(* with All where it does not depend on one.  The tables give the          *)
(* subclasses that have a name of their own in the classes 1 to 17, and    *)
(* the programming interfaces that have one in a subclass.                 *)
All == 256

DeviceSubclasses == <<0..7, 0..6, 0..2, 0..2, 0..1, 0..10>>
PeripheralSubclasses == <<0..5, {}, 0..4, {0}>>
OtherSubclasses ==
  <<{0, 1, 2, 16, 32, 48, 64}, 0..9, {0, 1, 16, 17, 18, 32, 33}, {0}, 1..4, {0, 1}, {0, 1, 16, 32}>>

Subclasses == DeviceSubclasses \o PeripheralSubclasses \o OtherSubclasses

Interfaces(class, subclass) ==
  CASE <<class, subclass>> = <<3, 0>>  -> {1}
    [] <<class, subclass>> = <<7, 0>>  -> 0..6
    [] <<class, subclass>> = <<7, 1>>  -> 1..4
    [] <<class, subclass>> = <<7, 3>>  -> 0..4
    [] <<class, subclass>> = <<9, 4>>  -> {0, 16}
    [] <<class, subclass>> = <<12, 3>> -> {0, 16, 32, 48, 128, 254}
    [] <<class, subclass>> = <<12, 7>> -> 0..2
    [] <<class, subclass>> = <<14, 0>> -> {0}
    [] OTHER                           -> {}

(* The switch of the base peripherals is on progif where subclass is       *)
(* meant, in both levels, so that only the names of a diagonal come out.   *)
PeripheralName(progif) ==
  CASE progif \in 0..2 -> <<8, progif, progif>>
    [] progif \in 3..4 -> <<8, progif, All>>
    [] OTHER           -> <<8, All, All>>

(* A processor of another subclass gets a serial bus name, and the IPMI    *)
(* interfaces without a name get the one of the subclass after theirs: the *)
(* cases fall through.                                                     *)
pci_get_class_name(class, subclass, progif) ==
  LET c == IF class = 11 /\ subclass \notin Subclasses[11] THEN 12 ELSE class
      s == IF c = 12 /\ subclass = 7 /\ progif \notin Interfaces(12, 7) THEN 8 ELSE subclass
  IN  IF c = 8 THEN PeripheralName(progif)
      ELSE IF c \notin DOMAIN Subclasses THEN <<IF c = 0 THEN 0 ELSE All, All, All>>
      ELSE IF s \notin Subclasses[c] THEN <<c, All, All>>
      ELSE IF progif \in Interfaces(c, s) THEN <<c, s, progif>>
      ELSE <<c, s, All>>

-----------------------------------------------------------------------------
PciInit ==
  /\ booted \in DOMAIN Machines
  /\ scan = "off"
  /\ roots = <<>> /\ frames = <<>> /\ pci_devices = <<>> /\ listed = <<>>

Frame(bus) == [bus |-> bus, device |-> 0, function |-> 0, functions |-> <<>>]
Here(frame) == <<frame.bus, frame.device, frame.function>>
Top(frame) == [frames EXCEPT ![Len(frames)] = frame]
NextDevice(frame) == [Frame(frame.bus) EXCEPT !.device = frame.device + 1]

(* pci_scan: a host that is a multi-function device stands for a bus per   *)
(* function; but each turn of that loop asks for function 0, so that all   *)
(* eight buses are scanned, whichever functions there are.                 *)
pci_scan ==
  /\ scan = "off" /\ scan' = "scan"
  /\ roots' = IF ~MultiFunction(<<0, 0, 0>>) THEN <<0>>
              ELSE IF ~Present(<<0, 0, 0>>) THEN <<>>
              ELSE [i \in 1..NFunctions |-> i - 1]
  /\ UNCHANGED <<booted, frames, pci_devices, listed>>

pci_scan_bus ==
  /\ frames = <<>> /\ roots # <<>>
  /\ frames' = <<Frame(Head(roots))>>
  /\ roots' = Tail(roots)
  /\ UNCHANGED <<booted, scan, pci_devices, listed>>

Entry(frame) ==
  LET f == Here(frame)  id == pci_get_device_id(f)  code == pci_get_class_code(f)
  IN  [number |-> frame.function, vendor |-> id[1], device |-> id[2],
       class |-> code[4], subclass |-> code[3], progif |-> code[1]]

(* A bug in pci_scan_device: the functions of every device are scanned.    *)
EveryFunction(frame) == frame.function + 1

(* The functions after the first are scanned in multi-function devices.    *)
NextFunction(frame) ==
  IF frame.function > 0 \/ MultiFunction(Here(frame)) THEN frame.function + 1 ELSE NFunctions

(* pci_scan_device_function: a bridge to another bus is not recorded, the  *)
(* scan goes on behind it.                                                 *)
pci_scan_device_function ==
  /\ frames # <<>>
  /\ LET frame == Last(frames)
         code  == pci_get_class_code(Here(frame))
         next  == [frame EXCEPT !.function = NextFunction(frame)]
     IN  /\ frame.device < NDevices /\ frame.function < NFunctions
         /\ Present(Here(frame))
         /\ frames' = IF code[4] = 6 /\ code[3] = 4
                      THEN Append(Top(next), Frame(pci_get_secondary_bus_number(Here(frame))))
                      ELSE Top([next EXCEPT !.functions = Append(@, Entry(frame))])
  /\ UNCHANGED <<booted, scan, roots, pci_devices, listed>>

(* pci_scan_device: a device without function 0, a function that is not    *)
(* there, and the end of the device, which joins the list.                 *)
pci_scan_device ==
  /\ frames # <<>>
  /\ LET frame == Last(frames)
     IN  /\ frame.device < NDevices
         /\ \/ /\ frame.function < NFunctions /\ ~Present(Here(frame))
               /\ frames' = Top(IF frame.function = 0 THEN NextDevice(frame)
                                ELSE [frame EXCEPT !.function = @ + 1])
               /\ UNCHANGED pci_devices
            \/ /\ frame.function = NFunctions
               /\ frames' = Top(NextDevice(frame))
               /\ pci_devices' = Append(pci_devices,
                    [bus |-> frame.bus, number |-> frame.device, functions |-> frame.functions])
  /\ UNCHANGED <<booted, scan, roots, listed>>

(* The loop of pci_scan_bus ends, the caller goes on.                      *)
EndBus ==
  /\ frames # <<>> /\ Last(frames).device = NDevices
  /\ frames' = Front(frames)
  /\ UNCHANGED <<booted, scan, roots, pci_devices, listed>>

(* pci_init lists the functions it finds through the list of devices.      *)
Line(f) == <<f.vendor, f.device, pci_get_class_name(f.class, f.subclass, f.progif)>>

pci_init ==
  /\ scan = "scan" /\ frames = <<>> /\ roots = <<>>
  /\ scan' = "done"
  /\ listed' = [i \in DOMAIN pci_devices |->
                  [j \in DOMAIN pci_devices[i].functions |-> Line(pci_devices[i].functions[j])]]
  /\ UNCHANGED <<booted, roots, frames, pci_devices>>

PciNext == pci_scan \/ pci_scan_bus \/ pci_scan_device_function \/ pci_scan_device \/ EndBus \/ pci_init

(* pci_enumerate_devices and pci_enumerate_functions go through the list   *)
(* of devices and the functions of each: the places in the lists, and the  *)
(* function at each place.                                                 *)
Places == UNION {{i} \X DOMAIN pci_devices[i].functions : i \in DOMAIN pci_devices}
FunctionAt(p) ==
  <<pci_devices[p[1]].bus, pci_devices[p[1]].number, pci_devices[p[1]].functions[p[2]].number>>

-----------------------------------------------------------------------------
(* The functions the machine has: those of the buses that can be reached   *)
(* from the host through bridges, the smallest set of buses with those of  *)
(* the host and, with the bus of a bridge, the one behind it.              *)
IsBridge(f) == pci_get_class_code(f)[4] = 6 /\ pci_get_class_code(f)[3] = 4
Usable(f) ==
  /\ Present(f) /\ Present(<<f[1], f[2], 0>>)
  /\ f[3] > 0 => MultiFunction(<<f[1], f[2], 0>>)
Bridges == {f \in DOMAIN machine.config : Usable(f) /\ IsBridge(f)}

HostBuses ==
  IF ~MultiFunction(<<0, 0, 0>>) THEN {0}
  ELSE IF Present(<<0, 0, 0>>) THEN 0..NFunctions - 1 ELSE {}
Reached ==
  LET behind == {pci_get_secondary_bus_number(f) : f \in Bridges}
      closed == {B \in {HostBuses \cup X : X \in SUBSET behind} :
                   \A f \in Bridges : f[1] \in B => pci_get_secondary_bus_number(f) \in B}
  IN  {b \in HostBuses \cup behind : \A B \in closed : b \in B}
Functions ==
  LET R == Reached
  IN  {f \in DOMAIN machine.config : f[1] \in R /\ Usable(f) /\ ~IsBridge(f)}

(* A bus is scanned more than once if a multi-function host scans it as    *)
(* one of its own and it lies behind a bridge as well, or if two bridges   *)
(* lead to it.                                                             *)
ScannedTwice ==
  LET R == {f \in Bridges : f[1] \in Reached}
  IN  \E f \in R : LET b == pci_get_secondary_bus_number(f)
                   IN  b \in HostBuses \/ \E g \in R \ {f} : pci_get_secondary_bus_number(g) = b

(* A line tells the function it is about, and its class: a processor of an *)
(* unknown subclass and the serial bus and base peripheral names that are  *)
(* mixed up are the exceptions.                                            *)
Describes(line, f) ==
  LET code == pci_get_class_code(f)  name == line[3]
  IN  /\ <<line[1], line[2]>> = pci_get_device_id(f)
      /\ \/ name[1] \in {code[4], All} /\ name[2] \in {code[3], All}
         \/ code[4] = 11 /\ code[3] \notin Subclasses[11] /\ name[1] = 12
         \/ code[4] = 12 /\ code[3] = 7 /\ name = <<12, 8, All>>
         \/ code[4] = 8 /\ name[1] = 8

(* When pci_scan has ended, the lists hold every function that can be      *)
(* reached from the host, however deep the bridges are nested and          *)
(* whichever function numbers are missing, each of them once unless its    *)
(* bus is scanned twice, and pci_init has printed a line about each.       *)
EveryFunctionOnce ==
  scan = "done" =>
    /\ {FunctionAt(p) : p \in Places} = Functions
    /\ ~ScannedTwice => \A p, q \in Places : FunctionAt(p) = FunctionAt(q) => p = q
    /\ \A p \in Places : Describes(listed[p[1]][p[2]], FunctionAt(p))
=============================================================================
