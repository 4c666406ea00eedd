----------------------------- MODULE Interrupts -----------------------------
(***************************************************************************)
(* The interrupt dispatch of arch/i386/kernel/irq: the gates and wrappers  *)
(* of irq.c, irqfunc and its kin, and the two interrupt controllers        *)
(* (external) that pic.c programs.  A wrapper is run instruction by        *)
(* instruction on a model of the registers and the stack, in one step, as  *)
(* the gates keep interrupts off.                                          *)
(***************************************************************************)
EXTENDS Integers, Sequences, SequencesExt, FiniteSets, TLC

CONSTANTS
  IRQs,         \* the lines that devices raise
  JiffiesMod    \* 2^32: jiffies is an unsigned long

ASSUME InterruptsAssumption == IRQs \subseteq 0..15 /\ JiffiesMod \in Nat \ 0..2

VARIABLES
  regs,        \* the registers of the code that runs
  intr,        \* the interrupt flag
  gates,       \* the filled entries of the IDT
  irqfuncs,    \* the lines that have a handler
  pic,         \* the vectors of IRQ 0 and IRQ 8, and the masked lines
  irr, isr,    \* the lines that are pending and in service
  jiffies,
  handled      \* what the last handler was given besides its number: the
               \* address of the saved registers, and an error code

irqVars == <<regs, intr, gates, irqfuncs, pic, irr, isr, jiffies, handled>>

(* The registers of interrupted code: any values will do, if they differ.  *)
Live ==
  [eax |-> 1, ecx |-> 2, edx |-> 3, ebx |-> 4, esp |-> 160, ebp |-> 5, esi |-> 6, edi |-> 7,
   eip |-> 8, cs |-> 9, eflags |-> 10, ds |-> 11, es |-> 12]
Junk == 13
KernelData == 16

IrqInit ==
  /\ regs = Live /\ intr = FALSE
  /\ gates = {} /\ irqfuncs = {}
  /\ pic = [base |-> <<8, 112>>, mask |-> {}]
  /\ irr = {} /\ isr = {}
  /\ jiffies = 0
  /\ handled = <<>>

-----------------------------------------------------------------------------
(* The instructions (external).  mem is the stack, by byte address.        *)
Pushed(c, v) ==
  LET sp == c.regs.esp - 4
  IN  [c EXCEPT !.regs.esp = sp, !.mem = (sp :> v) @@ c.mem]
PushedAll(c, names) == FoldLeft(LAMBDA d, r : Pushed(d, c.regs[r]), c, names)
Popped(c, r) == [c EXCEPT !.regs = [@ EXCEPT ![r] = c.mem[c.regs.esp], !.esp = @ + 4]]
PoppedAll(c, names) == FoldLeft(Popped, c, names)

(* rep movsl with the direction flag set: from the highest word down.      *)
Moved(c, n) ==
  LET from == c.regs.esi  to == c.regs.edi
  IN  [c EXCEPT !.mem = [a \in {to - 4 * k : k \in 0..n - 1} |-> c.mem[a + from - to]] @@ c.mem]

Exec(c, i) ==
  LET top == c.regs.esp
  IN  CASE i[1] = "pushal" -> PushedAll(c, <<"eax", "ecx", "edx", "ebx", "esp", "ebp", "esi", "edi">>)
        [] i[1] = "push"   -> Pushed(c, c.regs[i[2]])
        [] i[1] = "pop"    -> Popped(c, i[2])
        [] i[1] = "mov"    -> [c EXCEPT !.regs[i[3]] = c.regs[i[2]]]
        [] i[1] = "set"    -> [c EXCEPT !.regs[i[3]] = i[2]]
        [] i[1] = "add"    -> [c EXCEPT !.regs[i[3]] = @ + i[2]]
        [] i[1] = "addtop" -> [c EXCEPT !.mem[top] = @ + i[2]]
        [] i[1] = "load"   -> [c EXCEPT !.regs[i[3]] = c.mem[c.regs.ebp + i[2]]]
        [] i[1] = "movs"   -> Moved(c, i[2])
        [] i[1] = "popal"  ->
             LET d == PoppedAll(c, <<"edi", "esi", "ebp">>)
             IN  PoppedAll([d EXCEPT !.regs.esp = @ + 4], <<"ebx", "edx", "ecx", "eax">>)
        [] i[1] = "iret"   -> PoppedAll(c, <<"eip", "cs", "eflags">>)

(* The call of the dispatching function, which may change the registers    *)
(* that belong to the callee; its arguments are on the stack.              *)
Called(c, nargs) ==
  [c EXCEPT !.args = [n \in 1..nargs |-> c.mem[c.regs.esp + 4 * (n - 1)]],
            !.regs = [@ EXCEPT !.eax = Junk, !.ecx = Junk, !.edx = Junk]]

Run(c, program) ==
  FoldLeft(LAMBDA d, i : IF i[1] = "call" THEN Called(d, i[2]) ELSE Exec(d, i), c, program)

-----------------------------------------------------------------------------
(* The end of every wrapper; leave is the mov and the pop of ebp.          *)
Return == << <<"pop", "es">>, <<"pop", "ds">>, <<"mov", "ebp", "esp">>, <<"pop", "ebp">>,
             <<"popal">>, <<"iret">> >>

(* A bug in the wrappers: one of the two arguments is left on the stack.   *)
OneArgument(n) ==
  << <<"pushal">>, <<"push", "ebp">>, <<"mov", "esp", "ebp">>, <<"push", "ds">>, <<"push", "es">>,
     <<"set", n, "ebx">>, <<"push", "ebp">>, <<"addtop", 4>>, <<"push", "ebx">>, <<"call", 2>>,
     <<"add", 4, "esp">> >> \o Return

(* DEFIRQWRAPPER and DEFINTWRAPPER.                                        *)
Wrapper(n) ==
  << <<"pushal">>, <<"push", "ebp">>, <<"mov", "esp", "ebp">>, <<"push", "ds">>, <<"push", "es">>,
     <<"set", KernelData, "ds">>, <<"set", KernelData, "es">>,
     <<"set", n, "ebx">>, <<"push", "ebp">>, <<"addtop", 4>>, <<"push", "ebx">>, <<"call", 2>>,
     <<"add", 8, "esp">> >> \o Return

(* DEFINTWRAPPER_ERR moves the frame up over the error code, to which its  *)
(* Return is blind: leave restores esp from the ebp of before the move.    *)
WrapperErr(n) ==
  << <<"pushal">>, <<"push", "ebp">>, <<"mov", "esp", "ebp">>, <<"push", "ds">>, <<"push", "es">>,
     <<"set", KernelData, "ds">>, <<"set", KernelData, "es">>,
     <<"load", 36, "edx">>, <<"mov", "ebp", "esi">>, <<"add", 32, "esi">>, <<"mov", "esi", "edi">>,
     <<"add", 4, "edi">>, <<"movs", 11>>, <<"add", 4, "esp">>,
     <<"set", n, "ebx">>, <<"push", "edx">>, <<"push", "ebp">>, <<"addtop", 8>>, <<"push", "ebx">>,
     <<"call", 3>>, <<"add", 12, "esp">> >> \o Return

(* The interrupts of code with the registers Live, as the CPU takes them    *)
(* (external), with an error code or without, and the wrapper.             *)
Pushes(err) ==
  LET c == PushedAll([regs |-> Live, mem |-> <<>>, args |-> <<>>], <<"eflags", "cs", "eip">>)
  IN  IF err = <<>> THEN c ELSE Pushed(c, err[1])
Irq   == [n \in 0..15 |-> Run(Pushes(<<>>), Wrapper(n))]
Int2  == Run(Pushes(<<>>), Wrapper(2))
Int14 == Run(Pushes(<<0>>), WrapperErr(14))

(* The wrapper of line n calls irqfunc with n as its first argument.  No   *)
(* constant occurs in Irq: evaluating it once checks this for good.        *)
ASSUME DispatchAssumption == \A n \in 0..15 : Irq[n].args[1] = n

Served(c) == regs' = c.regs /\ handled' = Tail(c.args)

-----------------------------------------------------------------------------
(* pic_init moves the lines to the vectors it is given; the controllers    *)
(* forget what they were doing and mask nothing.                           *)
pic_init(pic1, pic2) ==
  /\ pic' = [base |-> <<pic1, pic2>>, mask |-> {}]
  /\ irr' = {} /\ isr' = {}

Vector(i) == IF i < 8 THEN pic.base[1] + i ELSE pic.base[2] + i - 8

(* irq_init: every line and exception 0 to 14 and 16 has a gate; timer,    *)
(* keyboard and serial port a handler.                                     *)
irq_init ==
  /\ gates' = 0..14 \cup {16, 128} \cup 32..47
  /\ irqfuncs' = {0, 1, 4}

(* The highest line in service ends (external); pic_eoi tells both         *)
(* controllers about a line of the second.                                 *)
Without1st(S) == S \ {i \in S : \A j \in S : i <= j}
pic_eoi(S, n) ==
  LET first == S \cap 0..7  second == S \cap 8..15
  IN  Without1st(first) \cup (IF n >= 8 THEN Without1st(second) ELSE second)

(* A bug in irqfunc: an interrupt with a handler is not acknowledged.      *)
NoEoi(n, S) ==
  /\ jiffies' = IF n = 0 /\ n \in irqfuncs THEN (jiffies + 1) % JiffiesMod ELSE jiffies
  /\ isr' = IF n \in irqfuncs THEN S ELSE pic_eoi(S, n)

(* irqfunc: call the handler, acknowledge; line 7 is taken for spurious.   *)
(* The handlers but for the tick of timer_handler are other modules'.      *)
irqfunc(n, S) ==
  /\ jiffies' = IF n = 0 /\ n \in irqfuncs THEN (jiffies + 1) % JiffiesMod ELSE jiffies
  /\ isr' = IF n # 7 THEN pic_eoi(S, n) ELSE S

(* A device raises its line (external).                                    *)
Raise(i) ==
  /\ i \notin irr /\ irr' = irr \cup {i}
  /\ UNCHANGED <<regs, intr, gates, irqfuncs, pic, isr, jiffies, handled>>

Deliverable(i) ==
  /\ intr /\ i \in irr \ pic.mask
  /\ \A j \in irr \ pic.mask : i <= j
  /\ \A j \in isr : i < j
Deliver(i) ==
  /\ Deliverable(i) /\ Vector(i) \in gates /\ Vector(i) \in 32..47
  /\ irr' = irr \ {i}
  /\ LET c == Irq[Vector(i) - 32] IN Served(c) /\ irqfunc(c.args[1], isr \cup {i})
  /\ UNCHANGED <<intr, gates, irqfuncs, pic>>

(* A line of the first controller drops before the CPU asks which it was:  *)
(* the controller answers 7, and has nothing in service.                   *)
Spurious ==
  /\ intr /\ Vector(7) \in gates
  /\ \E i \in irr \ pic.mask : irr' = irr \ {i}
  /\ LET c == Irq[Vector(7) - 32] IN Served(c) /\ irqfunc(c.args[1], isr)
  /\ UNCHANGED <<intr, gates, irqfuncs, pic>>

(* An NMI comes whenever the CPU can take it; intfunc calls a handler that *)
(* does nothing.                                                           *)
Nmi ==
  /\ 2 \in gates
  /\ Served(Int2)
  /\ UNCHANGED <<intr, gates, irqfuncs, pic, irr, isr, jiffies>>

(* A page fault of the kernel, for reading a page that is not there.       *)
PageFault ==
  /\ Served(Int14)
  /\ UNCHANGED <<intr, gates, irqfuncs, pic, irr, isr, jiffies>>

-----------------------------------------------------------------------------
(* Interrupted code finds its registers and its stack pointer as they      *)
(* were, whatever interrupts it and whatever the handler does to the       *)
(* registers of the callee, and the handler is given the address of the    *)
(* saved registers.  The handler of an exception with an error code gets   *)
(* its arguments too, but the code it returns to is not what it was.       *)
ContextKept ==
  /\ regs # Live => Len(handled) = 2
  /\ handled \in {<<>>, <<Live.esp - 44>>, <<Live.esp - 44, 0>>}
=============================================================================
