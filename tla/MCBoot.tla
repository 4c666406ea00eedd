------------------------------- MODULE MCBoot -------------------------------
(***************************************************************************)
(* The machines that are booted, from descriptions of their functions.     *)
(***************************************************************************)
EXTENDS Boot

(* A function: its place, its class, subclass and interface, its header    *)
(* type, and those of its base address registers that are not 0, the       *)
(* second byte of the third of which is the bus behind a bridge.           *)
Fn(place, class, header, bars) == <<place, class, header, bars>>

Host(place)        == Fn(place, <<6, 0, 0>>, 0, {})
MultiHost          == Fn(<<0, 0, 0>>, <<6, 0, 0>>, 128, {})
Bridge(place, bus) == Fn(place, <<6, 4, 0>>, 1, {<<24, <<0, bus, bus, 0>>>>})
CompatIde(place)   == Fn(place, <<1, 1, 128>>, 0, {<<32, <<1, 192, 0, 0>>>>})
NativeIde(place) ==
  Fn(place, <<1, 1, 5>>, 128, {<<16, <<1, 16, 0, 0>>>>, <<20, <<9, 16, 0, 0>>>>, <<24, <<17, 16, 0, 0>>>>,
                               <<28, <<25, 16, 0, 0>>>>, <<32, <<33, 16, 0, 0>>>>})

(* A machine with no more than a host.                                     *)
HostOnly ==
  [functions |-> {Host(<<0, 0, 0>>)}, drives |-> {}, control |-> {},
   tags |-> <<"cmdline", "meminfo", "module", "mmap", "end">>,
   word8000 |-> 32768, rsdp |-> "ACPI_1", speed |-> 5000]

(* A PC with a two-function ISA bridge, whose second function is the IDE   *)
(* controller, and all kinds of drives.                                    *)
Pc ==
  [HostOnly EXCEPT
     !.functions = {Host(<<0, 0, 0>>), Fn(<<0, 1, 0>>, <<6, 1, 0>>, 128, {}), CompatIde(<<0, 1, 1>>),
                    Fn(<<0, 1, 3>>, <<12, 3, 0>>, 0, {}), Fn(<<0, 2, 0>>, <<3, 0, 0>>, 0, {}),
                    Fn(<<0, 2, 1>>, <<3, 0, 0>>, 0, {})},
     !.drives = {<<496, <<"ata", "atapi">>>>, <<368, <<"none", "faulty">>>>},
     !.control = {<<496, 1014>>, <<368, 886>>},
     !.tags = <<"cmdline", "meminfo", "mmap", "framebuffer", "end">>]

(* Nested bridges, a controller in native mode behind them, and functions  *)
(* whose class has no name, or the name of another.                        *)
Bridged ==
  [HostOnly EXCEPT
     !.functions = {Host(<<0, 0, 0>>), Bridge(<<0, 30, 0>>, 1), Bridge(<<1, 4, 0>>, 3),
                    Fn(<<1, 5, 0>>, <<11, 5, 0>>, 0, {}), NativeIde(<<3, 31, 0>>),
                    Fn(<<3, 31, 7>>, <<8, 3, 1>>, 0, {}), Host(<<2, 0, 0>>)},
     !.drives = {<<4096, <<"satapi", "ata">>>>, <<4112, <<"none", "none">>>>},
     !.control = {<<4096, 4106>>, <<4112, 4122>>},
     !.tags = <<"mmap", "meminfo", "text_framebuffer", "end">>, !.speed = 8192]

(* A host with several functions, and one with a bridge besides.           *)
TwoHosts ==
  [HostOnly EXCEPT !.functions = {MultiHost, Host(<<0, 0, 1>>), Fn(<<1, 2, 0>>, <<2, 0, 0>>, 0, {})},
                !.speed = 30000]
HostAndBridge ==
  [HostOnly EXCEPT !.functions = {MultiHost, Bridge(<<0, 3, 0>>, 2), CompatIde(<<2, 0, 0>>)},
                !.speed = 3000, !.rsdp = "ACPI_2"]

NoPci   == [HostOnly EXCEPT !.functions = {}, !.speed = 40000]
NoAcpi  == [HostOnly EXCEPT !.rsdp = "none"]
NoMap   == [HostOnly EXCEPT !.tags = <<"meminfo", "end">>]
BadWord == [HostOnly EXCEPT !.word8000 = 0]

-----------------------------------------------------------------------------
(* The function given by a set of pairs.                                   *)
Table(pairs) == <<>> @@ [x \in {p[1] : p \in pairs} |-> (CHOOSE p \in pairs : p[1] = x)[2]]

Registers(fn) ==
  (0 :> <<134, 128, fn[2][1], fn[2][2]>>) @@ (8 :> <<fn[2][3], 0, fn[2][2], fn[2][1]>>)
    @@ (12 :> <<0, 0, fn[3], 0>>) @@ Table(fn[4]) @@ [r \in {16, 20, 24, 28, 32} |-> <<0, 0, 0, 0>>]

Machine(m) ==
  [config |-> Table({<<fn[1], Registers(fn)>> : fn \in m.functions}),
   drives |-> Table(m.drives), control |-> Table(m.control),
   tags |-> [i \in DOMAIN m.tags |-> [type |-> m.tags[i], size |-> 8 + 3 * i]],
   word8000 |-> m.word8000, rsdp |-> m.rsdp, speed |-> m.speed]

(* The machines of the run.  `Built' is a definition of its own, which TLC *)
(* evaluates once.                                                         *)
Descriptions == <<Pc, Bridged, TwoHosts, HostAndBridge, NoPci, NoAcpi, NoMap, BadWord>>

Built == <<>> @@ [i \in 1..8 |-> CHOOSE m \in {Machine(d) : d \in {Descriptions[i]}} : TRUE]

MCMachines == Built
MCCompatBase == <<496, 368>>
MCCompatControl == <<1014, 886>>
=============================================================================
