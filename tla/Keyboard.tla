------------------------------ MODULE Keyboard ------------------------------
(***************************************************************************)
(* The keyboard input of kernel/kernel/input/keyboard.c on top of          *)
(* Scheduler: the ring of key codes, the modifier keys, kb_getkey and      *)
(* kb_getch as called by the shell thread, and the keyboard interrupt      *)
(* that feeds them.  A key event here is one complete scan code sequence;  *)
(* how bytes become key codes is the subject of module Scancodes.          *)
(*                                                                         *)
(* key_state_lock is held by threads with interrupts off and by the        *)
(* handler, for straight-line code only, so each use is one step.          *)
(***************************************************************************)
EXTENDS Scheduler, Sequences

CONSTANTS
  KeyQueue,       \* key_wait_queue
  KEY_RING_SIZE,
  Readers,        \* the threads that read keys (kash)
  Keys,           \* the key numbers that are typed
  plain_map,      \* the keys that have a character in the table of that name,
  shift_map,      \* with Shift,
  altgr_map,      \* with Alt or Alt Gr
  MaxEvents,      \* bound: key events typed
  MaxPending      \* bound: key events waiting in the keyboard controller

ASSUME KeyboardAssumption ==
  /\ KeyQueue \in Queues
  /\ KEY_RING_SIZE \in Nat /\ KEY_RING_SIZE > 1
  /\ Readers \subseteq Tasks \ {Main, Idle}
  /\ Keys \subseteq 0..255 /\ plain_map \cup shift_map \cup altgr_map \subseteq Keys
  /\ MaxEvents \in Nat /\ MaxPending \in Nat

VARIABLES
  key_ring_index, key_ring, key_modifiers,   \* the globals of keyboard.c
  controller,     \* key events not yet read from port 0x60
  pending,        \* the interrupt controller has latched IRQ 1
  call,           \* kb_getch of each thread: "none", "test", "wait", "got", "map"
  tmp, cmp,       \* the locals of kb_getkey
  key,            \* the local of kb_getch
  char,           \* what kb_getch returned last
  typed,          \* history: number of events typed
  held,           \* history: keys held down
  stamp,          \* history: the number of the event in each ring slot
  since           \* history: events emitted before the current kb_getkey call

ringKeyVars == <<key_ring_index, key_ring, key_modifiers, stamp>>
readVars    == <<call, tmp, cmp, key, char, since>>
deviceVars  == <<controller, pending, typed, held>>
keyVars     == <<ringKeyVars, readVars, deviceVars>>
vars        == <<schedVars, keyVars>>

Slots     == 0..KEY_RING_SIZE - 1
NoKey     == [key |-> 0, released |-> FALSE]

(* kb_early_init has run; the ring is in .bss.                             *)
Init ==
  /\ SchedInit
  /\ key_ring_index = 0
  /\ key_ring = [i \in Slots |-> NoKey]
  /\ key_modifiers = {}
  /\ controller = <<>>
  /\ pending = FALSE
  /\ call = [t \in Readers |-> "none"]
  /\ tmp = [t \in Readers |-> 0]
  /\ cmp = [t \in Readers |-> 0]
  /\ key = [t \in Readers |-> 0]
  /\ char = [t \in Readers |-> NULL]
  /\ typed = 0
  /\ held = {}
  /\ stamp = [i \in Slots |-> 0]
  /\ since = [t \in Readers |-> 0]

-----------------------------------------------------------------------------
(* kb_getkey reads the index ...                                           *)
GetKeyCall(t) ==
  /\ At(t, "ready") /\ call[t] = "none"
  /\ call' = [call EXCEPT ![t] = "test"]
  /\ tmp' = [tmp EXCEPT ![t] = key_ring_index]
  /\ since' = [since EXCEPT ![t] = stamp[key_ring_index]]
  /\ UNCHANGED <<schedVars, ringKeyVars, deviceVars, cmp, key, char>>

(* ... and waits until it differs: first test, test in the loop, return.   *)
GetKeyTest(t) ==
  /\ call[t] = "test"
  /\ cmp' = [cmp EXCEPT ![t] = key_ring_index]
  /\ IF key_ring_index # tmp[t]
     THEN At(t, "ready") /\ call' = [call EXCEPT ![t] = "got"] /\ UNCHANGED schedVars
     ELSE WaitEvent(t, KeyQueue) /\ call' = [call EXCEPT ![t] = "wait"]
  /\ UNCHANGED <<ringKeyVars, deviceVars, tmp, key, char, since>>

(* A bug in WAIT_EVENT_INTERRUPTIBLE: after wait_prepare_to_wait the       *)
(* thread yields without testing the condition again.                      *)
YieldUntested(t) ==
  /\ Condition(t, cmp[t] # tmp[t])
  /\ cmp' = [cmp EXCEPT ![t] = key_ring_index]
  /\ UNCHANGED <<ringKeyVars, deviceVars, call, tmp, key, char, since>>

GetKeyCondition(t) ==
  /\ Condition(t, key_ring_index # tmp[t])
  /\ cmp' = [cmp EXCEPT ![t] = key_ring_index]
  /\ UNCHANGED <<ringKeyVars, deviceVars, call, tmp, key, char, since>>

GetKeyFinish(t) ==
  /\ FinishUnlock(t)
  /\ call' = [call EXCEPT ![t] = "got"]
  /\ UNCHANGED <<ringKeyVars, deviceVars, tmp, cmp, key, char, since>>

(* kb_getkey returns key_ring[cmp], read without the lock; kb_getch drops  *)
(* releases.                                                               *)
GetKeyReturn(t) ==
  /\ At(t, "ready") /\ call[t] = "got"
  /\ LET code == key_ring[cmp[t]] IN
       /\ call' = [call EXCEPT ![t] = IF code.released THEN "none" ELSE "map"]
       /\ key' = [key EXCEPT ![t] = code.key]
  /\ UNCHANGED <<schedVars, ringKeyVars, deviceVars, tmp, cmp, char, since>>

(* The character of a key: which table it is from, and whether Caps Lock   *)
(* swaps its case; NULL if the table has none.                             *)
_kb_map(code, mods) ==
  LET layer == IF "SHIFT" \in mods THEN "shift"
               ELSE IF mods \cap {"ALT", "ALT_GR"} # {} THEN "altgr" ELSE "plain"
      table == CASE layer = "shift" -> shift_map
                 [] layer = "altgr" -> altgr_map
                 [] layer = "plain" -> plain_map
  IN  IF code \in table THEN << code, layer, "CAPS" \in mods >> ELSE NULL

(* kb_getch translates with the modifiers of this moment, and reads on     *)
(* when the key has no character.                                          *)
GetChReturn(t) ==
  /\ At(t, "ready") /\ call[t] = "map"
  /\ call' = [call EXCEPT ![t] = "none"]
  /\ char' = LET ch == _kb_map(key[t], key_modifiers)
             IN  IF ch # NULL THEN [char EXCEPT ![t] = ch] ELSE char
  /\ UNCHANGED <<schedVars, ringKeyVars, deviceVars, tmp, cmp, key, since>>

(* The rest of the threads: kernel_main creates and exits, idle yields.    *)
OtherStep(t) ==
  /\ \/ \E n \in Tasks : CreateThread(t, n)
     \/ Exit(t)
     \/ t = Idle /\ Yield(t)
     \/ Walk(t) \/ YieldReturn(t) \/ Switch(t)
     \/ PrepareLock(t) \/ Prepare(t) \/ PrepareUnlock(t)
     \/ FinishLock(t) \/ Finish(t)
  /\ UNCHANGED keyVars

KeyThread ==
  \/ \E t \in Tasks : OtherStep(t)
  \/ \E t \in Readers :
       \/ GetKeyCall(t) \/ GetKeyTest(t) \/ GetKeyCondition(t)
       \/ GetKeyFinish(t) \/ GetKeyReturn(t) \/ GetChReturn(t)

-----------------------------------------------------------------------------
(* Somebody presses or releases a key (external): the controller takes the *)
(* event and raises IRQ 1.                                                 *)
Type(e) ==
  /\ typed < MaxEvents /\ Len(controller) < MaxPending
  /\ e.released => e.key \in held
  /\ typed' = typed + 1
  /\ held' = IF e.released THEN held \ {e.key} ELSE held \cup {e.key}
  /\ controller' = Append(controller, e)
  /\ pending' = TRUE
  /\ UNCHANGED <<schedVars, ringKeyVars, readVars>>

KeyIrq ==
  /\ pending /\ pending' = FALSE
  /\ IrqEnter(KeyQueue)
  /\ UNCHANGED <<ringKeyVars, readVars, controller, typed, held>>

SetTo(mods, m, on) == IF on THEN mods \cup {m} ELSE mods \ {m}

(* A bug in __kb_emit_keycode: only presses are recorded.                  *)
ModifiersNoRelease(mods, e) ==
  IF e.key \in {29, 97} THEN mods \cup {"CTRL"}
  ELSE IF e.key \in {42, 54} THEN mods \cup {"SHIFT"}
  ELSE mods

(* The modifier keys in __kb_emit_keycode; Caps Lock toggles on release.   *)
ModifiersAfter(mods, e) ==
  LET m == IF e.key = 58 /\ e.released THEN SetTo(mods, "CAPS", "CAPS" \notin mods) ELSE mods
  IN  CASE e.key \in {29, 97} -> SetTo(m, "CTRL", ~e.released)
        [] e.key \in {42, 54} -> SetTo(m, "SHIFT", ~e.released)
        [] e.key = 56         -> SetTo(m, "ALT", ~e.released)
        [] e.key = 100        -> SetTo(m, "ALT_GR", ~e.released)
        [] OTHER              -> m

(* A bug in __kb_emit_keycode: the key is stored before the index moves.   *)
StoreBeforeAdvance(e) ==
  /\ key_modifiers' = ModifiersAfter(key_modifiers, e)
  /\ key_ring_index' = (key_ring_index + 1) % KEY_RING_SIZE
  /\ key_ring' = [key_ring EXCEPT ![key_ring_index] = e]
  /\ stamp' = [stamp EXCEPT ![key_ring_index] = stamp[key_ring_index] + 1]

__kb_emit_keycode(e) ==
  LET i == (key_ring_index + 1) % KEY_RING_SIZE
  IN  /\ key_modifiers' = ModifiersAfter(key_modifiers, e)
      /\ key_ring_index' = i
      /\ key_ring' = [key_ring EXCEPT ![i] = e]
      /\ stamp' = [stamp EXCEPT ![i] = stamp[key_ring_index] + 1]

(* A bug in __kb_emit_keycode: the readers are not woken.                  *)
HandlerNoWake ==
  /\ irqpc = "handler" /\ controller # <<>>
  /\ __kb_emit_keycode(Head(controller))
  /\ controller' = Tail(controller)
  /\ UNCHANGED <<schedVars, readVars, pending, typed, held>>

(* One turn of the loop of keyboard_handler: read an event, emit it, wake  *)
(* the readers.                                                            *)
HandlerKey ==
  /\ controller # <<>>
  /\ __kb_emit_keycode(Head(controller))
  /\ controller' = Tail(controller)
  /\ IrqCallWake
  /\ UNCHANGED <<readVars, pending, typed, held>>

HandlerReturn == controller = <<>> /\ IrqReturn /\ UNCHANGED keyVars

HandlerWake == (IrqLock \/ IrqWake \/ IrqUnlock) /\ UNCHANGED keyVars

HandlerStep == HandlerKey \/ HandlerWake \/ HandlerReturn

TypeSomething == \E e \in [key : Keys, released : BOOLEAN] : Type(e)

Next == KeyThread \/ TypeSomething \/ KeyIrq \/ HandlerStep

Spec == Init /\ [][Next]_vars

-----------------------------------------------------------------------------
(* kb_getkey returns a key that was emitted after it was called, however   *)
(* many keys arrive between the test of the index, the wake-up and the     *)
(* unlocked read of the ring.                                              *)
FreshKey ==
  \A t \in Readers : call[t] = "got" => stamp[cmp[t]] > since[t]

(* While fewer than KEY_RING_SIZE keys have been emitted since a reader    *)
(* called kb_getkey, it never sleeps off the CPU with one of them unseen:  *)
(* no key slips in between the test of the index and the switch.  A whole  *)
(* ring of keys brings the index back to where it was, and those go        *)
(* unnoticed.                                                              *)
NoSleepOnKey ==
  \A t \in Readers :
    (/\ irqpc = "none" /\ pc[t] = "switched" /\ t \in Sleepers(KeyQueue)
     /\ stamp[key_ring_index] < since[t] + KEY_RING_SIZE)
      => stamp[key_ring_index] = since[t]

(* When the keyboard is quiet, a modifier is on only while one of its keys *)
(* is down: no modifier sticks.                                            *)
NoStuckModifier ==
  (controller = <<>> /\ irqpc = "none") =>
    /\ "SHIFT" \in key_modifiers => held \cap {42, 54} # {}
    /\ "CTRL" \in key_modifiers => held \cap {29, 97} # {}
    /\ "ALT" \in key_modifiers => 56 \in held
    /\ "ALT_GR" \in key_modifiers => 100 \in held

=============================================================================
