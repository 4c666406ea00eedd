------------------------------- MODULE Threads ------------------------------
(***************************************************************************)
(* What the scheduler and its wait queues promise to the rest of the       *)
(* kernel, without lists, locks, cursors or interrupt handlers: threads    *)
(* fall asleep on events, an event wakes every thread asleep on it in one  *)
(* step, and the CPU only ever passes to a thread that is awake.           *)
(***************************************************************************)
CONSTANTS Tasks, Main, Queues

VARIABLES
  threads,   \* the threads that exist
  running,   \* the one on the CPU
  asleep     \* for each event, the threads asleep on it

vars == <<threads, running, asleep>>

Awake(t) == \A q \in Queues : t \notin asleep[q]

Init ==
  /\ threads = {Main}
  /\ running = Main
  /\ asleep = [q \in Queues |-> {}]

Create(n) ==
  /\ n \in Tasks \ threads
  /\ threads' = threads \cup {n}
  /\ UNCHANGED <<running, asleep>>

(* The running thread, awake, ends; an awake one takes over.               *)
Exit(n) ==
  /\ Awake(running)
  /\ n \in threads \ {running} /\ Awake(n)
  /\ threads' = threads \ {running}
  /\ running' = n
  /\ UNCHANGED asleep

Dispatch(n) ==
  /\ n \in threads \ {running} /\ Awake(n)
  /\ running' = n
  /\ UNCHANGED <<threads, asleep>>

(* The running thread puts itself on q, awake until then.                  *)
FallAsleep(q) ==
  /\ Awake(running)
  /\ asleep' = [asleep EXCEPT ![q] = @ \cup {running}]
  /\ UNCHANGED <<threads, running>>

(* ... or changes its mind before it gives up the CPU.                     *)
Cancel(q) ==
  /\ running \in asleep[q]
  /\ asleep' = [asleep EXCEPT ![q] = @ \ {running}]
  /\ UNCHANGED <<threads, running>>

WakeAll(q) ==
  /\ asleep' = [asleep EXCEPT ![q] = {}]
  /\ UNCHANGED <<threads, running>>

Next ==
  \/ \E n \in Tasks : Create(n) \/ Exit(n) \/ Dispatch(n)
  \/ \E q \in Queues : FallAsleep(q) \/ Cancel(q) \/ WakeAll(q)

Spec == Init /\ [][Next]_vars
=============================================================================
