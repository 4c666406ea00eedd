----------------------------- MODULE Scheduler ------------------------------
(***************************************************************************)
(* The cooperative scheduler and the wait queues of ikaros                 *)
(* (kernel/kernel/scheduler/scheduler.c, wait.c, wait.h) on one CPU, with  *)
(* interrupt handlers that wake the queues.                                *)
(*                                                                         *)
(* Threads give up the CPU only in scheduler_yield and scheduler_exit.  An *)
(* interrupt may arrive between any two steps of a thread while EFLAGS.IF  *)
(* is set; handlers run through interrupt gates, so with IF clear.  Every  *)
(* critical section is therefore split at its spinlock operations, and the *)
(* loops of scheduler_next_running_task and wait_wake_up_interruptible are *)
(* one step per iteration.                                                 *)
(*                                                                         *)
(* What a wait queue waits FOR is a parameter of WAIT_EVENT_INTERRUPTIBLE; *)
(* here the outcome of each test of the condition is arbitrary.  Modules   *)
(* Sleep and Keyboard give the conditions of the two queues of the kernel. *)
(***************************************************************************)
EXTENDS TaskRing

CONSTANTS
  Idle,     \* the thread running kernel_idle
  Queues    \* the wait_queue_head_t objects

ASSUME IdleAssumption == Idle \in Tasks /\ Idle # Main
ASSUME QueuesAssumption == NULL \notin Queues /\ Queues # {}

VARIABLES
  running_task,  \* the task whose thread owns the CPU
  state,         \* task_t.state
  eflags,        \* task_t.regs.eflags: the IF bit saved by task_switch
  curr,          \* cursor of the running thread in scheduler_next_running_task
  pc,            \* where each thread is
  waitq,         \* the queue of the WAIT_EVENT a thread is inside of, or NULL
  head,          \* wait_queue_head_t.next
  wnext,         \* wait_queue_t.next of the entry on a thread's stack
  lock,          \* wait_queue_head_t.lock
  intr,          \* EFLAGS.IF of the CPU
  flags,         \* the IF bit saved by spinlock_acquire_irqsave
  irqpc,         \* where the interrupt handler is; "none" outside interrupts
  irqq           \* the queue the handler wakes

threadVars == <<running_task, state, eflags, curr, pc, waitq>>
waitVars   == <<head, wnext, lock>>
cpuVars    == <<intr, flags, irqpc, irqq>>
schedVars  == <<ringVars, threadVars, waitVars, cpuVars>>

RUNNING       == "TASK_RUNNING"
INTERRUPTIBLE == "TASK_INTERRUPTIBLE"

(* "boot": kernel_main before the idle thread exists; "ready": outside the *)
(* scheduler; "switched": saved by task_switch; the rest follows           *)
(* WAIT_EVENT_INTERRUPTIBLE and scheduler_yield.                           *)
ThreadPCs ==
  {"absent", "boot", "ready", "walk", "switched", "exited",
   "prepare_lock", "prepare", "prepare_unlock", "condition",
   "finish_lock", "finish", "finish_unlock"}

SchedTypeOK ==
  /\ RingTypeOK
  /\ running_task \in live
  /\ state \in [Tasks -> {RUNNING, INTERRUPTIBLE}]
  /\ eflags \in [Tasks -> {0, 1}]
  /\ curr \in Tasks \cup {NULL}
  /\ pc \in [Tasks -> ThreadPCs]
  /\ waitq \in [Tasks -> Queues \cup {NULL}]
  /\ head \in [Queues -> Tasks \cup {NULL}]
  /\ wnext \in [Tasks -> Tasks \cup {NULL}]
  /\ lock \in [Queues -> {0, 1}]
  /\ intr \in {0, 1}
  /\ flags \in {0, 1}
  /\ irqpc \in {"none", "handler", "lock", "wake"}
  /\ irqq \in Queues \cup {NULL}

(* After wait_queue_init, sti in the boot code and scheduler_initialize.   *)
SchedInit ==
  /\ RingInit
  /\ running_task = Main
  /\ state = [t \in Tasks |-> RUNNING]
  /\ eflags = [t \in Tasks |-> 0]
  /\ curr = NULL
  /\ pc = [t \in Tasks |-> IF t = Main THEN "boot" ELSE "absent"]
  /\ waitq = [t \in Tasks |-> NULL]
  /\ head = [q \in Queues |-> NULL]
  /\ wnext = [t \in Tasks |-> NULL]
  /\ lock = [q \in Queues |-> 0]
  /\ intr = 1
  /\ flags = 0
  /\ irqpc = "none"
  /\ irqq = NULL

-----------------------------------------------------------------------------
(* Thread t owns the CPU, no handler is active, and t is at label l.       *)
At(t, l) == irqpc = "none" /\ running_task = t /\ pc[t] = l

Goto(t, l) == pc' = [pc EXCEPT ![t] = l]

(* Where a call of scheduler_yield by t returns to.                        *)
Resume(t) == IF waitq[t] = NULL THEN "ready" ELSE "prepare_lock"

(* A bug in kernel_main: no idle thread is created.                        *)
CreateNoIdle(t, n) ==
  /\ At(t, "boot") \/ (At(t, "ready") /\ t = Main)
  /\ pc[n] = "absent" /\ n # Idle
  /\ tasks_insert(n)
  /\ state' = [state EXCEPT ![n] = RUNNING]
  /\ eflags' = [eflags EXCEPT ![n] = intr]
  /\ pc' = [pc EXCEPT ![n] = "switched", ![t] = "ready"]
  /\ UNCHANGED <<running_task, curr, waitq, waitVars, cpuVars>>

(* scheduler_create_thread, called by kernel_main: the idle thread first,  *)
(* then any other.  task_inherit copies the creator's EFLAGS.              *)
CreateThread(t, n) ==
  /\ \/ At(t, "boot") /\ n = Idle
     \/ At(t, "ready") /\ t = Main /\ n # Idle
  /\ pc[n] = "absent"
  /\ tasks_insert(n)
  /\ state' = [state EXCEPT ![n] = RUNNING]
  /\ eflags' = [eflags EXCEPT ![n] = intr]
  /\ pc' = [pc EXCEPT ![n] = "switched", ![t] = "ready"]
  /\ UNCHANGED <<running_task, curr, waitq, waitVars, cpuVars>>

(* scheduler_exit: only kernel_main gets there, the loops of the other     *)
(* threads never end.  It switches to the successor unconditionally; a     *)
(* thread that is alone would panic instead.                               *)
Exit(t) ==
  /\ t = Main /\ At(t, "ready")
  /\ next[t] \notin {NULL, t}
  /\ tasks_remove(t)
  /\ running_task' = next[t]
  /\ eflags' = [eflags EXCEPT ![t] = intr]
  /\ intr' = eflags[next[t]]
  /\ pc' = [pc EXCEPT ![t] = "exited", ![next[t]] = Resume(next[t])]
  /\ UNCHANGED <<state, curr, waitq, waitVars, flags, irqpc, irqq>>

-----------------------------------------------------------------------------
(* scheduler_yield, called by the thread itself.                           *)
Yield(t) ==
  /\ At(t, "ready") /\ t # Main
  /\ curr' = next[t]
  /\ Goto(t, "walk")
  /\ UNCHANGED <<ringVars, running_task, state, eflags, waitq, waitVars, cpuVars>>

(* A bug in scheduler_next_running_task: the loop steps over a task.       *)
WalkSkips(t) ==
  /\ At(t, "walk")
  /\ curr \notin {NULL, t} /\ state[curr] # RUNNING
  /\ curr' = next[next[curr]]
  /\ UNCHANGED <<ringVars, running_task, state, eflags, pc, waitq, waitVars, cpuVars>>

(* One turn of the loop of scheduler_next_running_task.                    *)
Walk(t) ==
  /\ At(t, "walk")
  /\ curr \notin {NULL, t} /\ state[curr] # RUNNING
  /\ curr' = next[curr]
  /\ UNCHANGED <<ringVars, running_task, state, eflags, pc, waitq, waitVars, cpuVars>>

(* The loop came back to the caller: scheduler_yield returns at once.      *)
YieldReturn(t) ==
  /\ At(t, "walk")
  /\ curr = t
  /\ curr' = NULL
  /\ Goto(t, Resume(t))
  /\ UNCHANGED <<ringVars, running_task, state, eflags, waitq, waitVars, cpuVars>>

(* A bug in scheduler_yield: task_switch runs the successor, asleep or not. *)
SwitchToAny(t) ==
  /\ At(t, "walk")
  /\ curr \notin {NULL, t}
  /\ running_task' = curr
  /\ eflags' = [eflags EXCEPT ![t] = intr]
  /\ intr' = eflags[curr]
  /\ pc' = [pc EXCEPT ![t] = "switched", ![curr] = Resume(curr)]
  /\ curr' = NULL
  /\ UNCHANGED <<ringVars, state, waitq, waitVars, flags, irqpc, irqq>>

(* The loop found a task to run: task_switch to it.                        *)
Switch(t) ==
  /\ At(t, "walk")
  /\ curr \notin {NULL, t} /\ state[curr] = RUNNING
  /\ running_task' = curr
  /\ eflags' = [eflags EXCEPT ![t] = intr]
  /\ intr' = eflags[curr]
  /\ pc' = [pc EXCEPT ![t] = "switched", ![curr] = Resume(curr)]
  /\ curr' = NULL
  /\ UNCHANGED <<ringVars, state, waitq, waitVars, flags, irqpc, irqq>>

-----------------------------------------------------------------------------
(* A bug in spinlock_acquire_irqsave: interrupts stay enabled.             *)
AcquireNoCli(t, q, from, to) ==
  /\ At(t, from)
  /\ flags' = intr
  /\ lock[q] = 0 /\ lock' = [lock EXCEPT ![q] = 1]
  /\ Goto(t, to)
  /\ UNCHANGED <<ringVars, running_task, state, eflags, curr, waitq, head, wnext,
                 intr, irqpc, irqq>>

(* spinlock_acquire_irqsave and spinlock_release_irqload by thread t on    *)
(* the lock of queue q, between labels from and to.  A held lock spins.    *)
AcquireIrqsave(t, q, from, to) ==
  /\ At(t, from)
  /\ flags' = intr
  /\ intr' = 0
  /\ lock[q] = 0 /\ lock' = [lock EXCEPT ![q] = 1]
  /\ Goto(t, to)
  /\ UNCHANGED <<ringVars, running_task, state, eflags, curr, waitq, head, wnext, irqpc, irqq>>

ReleaseIrqload(t, q, from) ==
  /\ At(t, from)
  /\ lock' = [lock EXCEPT ![q] = 0]
  /\ intr' = flags
  /\ UNCHANGED <<ringVars, running_task, state, eflags, curr, head, wnext, flags, irqpc, irqq>>

(* WAIT_EVENT_INTERRUPTIBLE on q: the first test of the condition failed,  *)
(* wait_init prepares an entry on the stack.                               *)
WaitEvent(t, q) ==
  /\ At(t, "ready") /\ t # Idle
  /\ waitq' = [waitq EXCEPT ![t] = q]
  /\ wnext' = [wnext EXCEPT ![t] = NULL]
  /\ Goto(t, "prepare_lock")
  /\ UNCHANGED <<ringVars, running_task, state, eflags, curr, head, lock, cpuVars>>

(* wait_prepare_to_wait.                                                   *)
PrepareLock(t) == AcquireIrqsave(t, waitq[t], "prepare_lock", "prepare")

(* A bug in wait_prepare_to_wait: the entry is linked, the task stays      *)
(* runnable.                                                               *)
PrepareNoState(t) ==
  /\ At(t, "prepare")
  /\ wnext' = [wnext EXCEPT ![t] = head[waitq[t]]]
  /\ head' = [head EXCEPT ![waitq[t]] = t]
  /\ Goto(t, "prepare_unlock")
  /\ UNCHANGED <<ringVars, running_task, state, eflags, curr, waitq, lock, cpuVars>>

(* A bug in wait_add_to_queue: entries are added behind the first one.     *)
PrepareSecond(t) ==
  /\ At(t, "prepare")
  /\ state' = [state EXCEPT ![t] = INTERRUPTIBLE]
  /\ LET q == waitq[t] IN
       IF head[q] = NULL
       THEN /\ head' = [head EXCEPT ![q] = t]
            /\ wnext' = [wnext EXCEPT ![t] = NULL]
       ELSE /\ wnext' = [wnext EXCEPT ![t] = wnext[head[q]], ![head[q]] = t]
            /\ UNCHANGED head
  /\ Goto(t, "prepare_unlock")
  /\ UNCHANGED <<ringVars, running_task, eflags, curr, waitq, lock, cpuVars>>

Prepare(t) ==
  /\ At(t, "prepare")
  /\ state' = [state EXCEPT ![t] = INTERRUPTIBLE]
  /\ wnext' = [wnext EXCEPT ![t] = head[waitq[t]]]
  /\ head' = [head EXCEPT ![waitq[t]] = t]
  /\ Goto(t, "prepare_unlock")
  /\ UNCHANGED <<ringVars, running_task, eflags, curr, waitq, lock, cpuVars>>

PrepareUnlock(t) ==
  /\ ReleaseIrqload(t, waitq[t], "prepare_unlock")
  /\ Goto(t, "condition")
  /\ UNCHANGED waitq

(* The test inside the loop of __WAIT_EVENT_INTERRUPTIBLE came out as c:   *)
(* leave the loop, or call scheduler_yield (task_signal_pending is 0).     *)
Condition(t, c) ==
  /\ At(t, "condition")
  /\ IF c THEN Goto(t, "finish_lock") /\ UNCHANGED curr
          ELSE Goto(t, "walk") /\ curr' = next[t]
  /\ UNCHANGED <<ringVars, running_task, state, eflags, waitq, waitVars, cpuVars>>

(* wait_finish.                                                            *)
FinishLock(t) == AcquireIrqsave(t, waitq[t], "finish_lock", "finish")

(* A bug in wait_finish: the entry stays linked after the frame is gone.   *)
FinishNoRemove(t) ==
  /\ At(t, "finish")
  /\ state' = [state EXCEPT ![t] = RUNNING]
  /\ Goto(t, "finish_unlock")
  /\ UNCHANGED <<ringVars, running_task, eflags, curr, waitq, waitVars, cpuVars>>

(* The loop of wait_remove_from_queue never advances: it ends only when    *)
(* the queue is empty or t's entry is the first; otherwise t hangs here    *)
(* with interrupts off.                                                    *)
Finish(t) ==
  /\ At(t, "finish")
  /\ head[waitq[t]] \in {NULL, t}
  /\ state' = [state EXCEPT ![t] = RUNNING]
  /\ head' = IF head[waitq[t]] = t
             THEN [head EXCEPT ![waitq[t]] = wnext[t]] ELSE head
  /\ Goto(t, "finish_unlock")
  /\ UNCHANGED <<ringVars, running_task, eflags, curr, waitq, wnext, lock, cpuVars>>

FinishUnlock(t) ==
  /\ ReleaseIrqload(t, waitq[t], "finish_unlock")
  /\ waitq' = [waitq EXCEPT ![t] = NULL]
  /\ Goto(t, "ready")

-----------------------------------------------------------------------------
(* An interrupt whose handler wakes queue q.  The gate clears IF.          *)
IrqEnter(q) ==
  /\ irqpc = "none" /\ intr = 1
  /\ irqpc' = "handler" /\ irqq' = q
  /\ intr' = 0
  /\ UNCHANGED <<ringVars, threadVars, waitVars, flags>>

(* wait_wake_up_interruptible(q) is called; spinlock_acquire_irqsave saves *)
(* IF = 0, which its counterpart restores, so IF does not change.          *)
IrqCallWake ==
  /\ irqpc = "handler" /\ irqpc' = "lock"
  /\ UNCHANGED <<ringVars, threadVars, waitVars, intr, flags, irqq>>

IrqLock ==
  /\ irqpc = "lock" /\ irqpc' = "wake"
  /\ lock[irqq] = 0 /\ lock' = [lock EXCEPT ![irqq] = 1]
  /\ UNCHANGED <<ringVars, threadVars, head, wnext, intr, flags, irqq>>

(* One turn of the loop: wake the first waiter and unlink its entry.       *)
IrqWake ==
  /\ irqpc = "wake" /\ head[irqq] # NULL
  /\ state' = [state EXCEPT ![head[irqq]] = RUNNING]
  /\ head' = [head EXCEPT ![irqq] = wnext[head[irqq]]]
  /\ UNCHANGED <<ringVars, running_task, eflags, curr, pc, waitq, wnext, lock, cpuVars>>

(* A bug in wait_wake_up_interruptible: only the first waiter is woken.    *)
UnlockAfterOne ==
  /\ irqpc = "wake"
  /\ irqpc' = "handler"
  /\ lock' = [lock EXCEPT ![irqq] = 0]
  /\ UNCHANGED <<ringVars, threadVars, head, wnext, intr, flags, irqq>>

IrqUnlock ==
  /\ irqpc = "wake" /\ head[irqq] = NULL
  /\ irqpc' = "handler"
  /\ lock' = [lock EXCEPT ![irqq] = 0]
  /\ UNCHANGED <<ringVars, threadVars, head, wnext, intr, flags, irqq>>

(* pic_eoi and iret, which restores IF = 1.                                *)
IrqReturn ==
  /\ irqpc = "handler" /\ irqpc' = "none"
  /\ irqq' = NULL
  /\ intr' = 1
  /\ UNCHANGED <<ringVars, threadVars, waitVars, flags>>

-----------------------------------------------------------------------------
(* Steps that do not depend on what is waited for.                         *)
Internal(t) ==
  \/ Walk(t) \/ YieldReturn(t) \/ Switch(t)
  \/ PrepareLock(t) \/ Prepare(t) \/ PrepareUnlock(t)
  \/ FinishLock(t) \/ Finish(t) \/ FinishUnlock(t)

ThreadStep ==
  \E t \in Tasks :
    \/ \E n \in Tasks : CreateThread(t, n)
    \/ Exit(t) \/ Yield(t) \/ Internal(t)
    \/ \E q \in Queues : WaitEvent(t, q)
    \/ \E c \in BOOLEAN : Condition(t, c)

IrqStep ==
  \/ IrqCallWake \/ IrqLock \/ IrqWake \/ IrqUnlock \/ IrqReturn

SchedNext == ThreadStep \/ (\E q \in Queues : IrqEnter(q)) \/ IrqStep

SchedSpec == SchedInit /\ [][SchedNext]_schedVars

-----------------------------------------------------------------------------
(* The threads asleep on q, or about to be: wait_prepare_to_wait has run   *)
(* and neither a wake-up nor wait_finish has.                              *)
Sleepers(q) == {t \in Tasks : state[t] = INTERRUPTIBLE /\ waitq[t] = q}

(* Every chain of entries starts at the head of the queue: a set of        *)
(* sleepers is entered from the head or from a sleeper outside the set.    *)
Reachable(q) ==
  \A S \in SUBSET Sleepers(q) :
    S # {} => \/ head[q] \in S
              \/ \E u \in Sleepers(q) \ S : wnext[u] \in S

(* ... and ends: a set of sleepers is left through some entry.             *)
Acyclic(q) ==
  \A S \in SUBSET Sleepers(q) : S # {} => \E t \in S : wnext[t] \notin S

(* No two pointers lead to the same entry.                                 *)
Unshared(q) ==
  \A t \in Sleepers(q) :
    wnext[t] # NULL => /\ wnext[t] # head[q]
                       /\ \A u \in Sleepers(q) : wnext[u] = wnext[t] => u = t

QueueOK(q) ==
  /\ head[q] \in Sleepers(q) \cup {NULL}
  /\ \A t \in Sleepers(q) : wnext[t] \in Sleepers(q) \cup {NULL}
  /\ Reachable(q) /\ Acyclic(q) /\ Unshared(q)

(* The entries linked on a queue are those of its sleepers, in a chain     *)
(* that ends.  So wait_wake_up_interruptible reaches every sleeper and     *)
(* terminates, and no queue keeps a pointer into the stack frame of a wait *)
(* that is over, although entries are linked by threads and unlinked by    *)
(* interrupt handlers.                                                     *)
QueuesHoldSleepers == \A q \in Queues : QueueOK(q)

(* A thread in wait_prepare_to_wait is awake, hence its entry is not       *)
(* linked yet: scheduler_yield brings a waiter back only after a wake-up,  *)
(* never because the CPU found nothing else.  Linking an entry twice would *)
(* close the list on itself.                                               *)
NeverLinkedTwice ==
  \A t \in Tasks : pc[t] \in {"prepare_lock", "prepare", "ready"} => state[t] = RUNNING

(* wait_remove_from_queue, whose loop never moves past the first entry,    *)
(* always finds its entry first or the queue empty, so wait_finish returns. *)
RemovalTerminates ==
  \A t \in Tasks :
    pc[t] = "finish" => head[waitq[t]] \in {NULL, t}

(* Nobody spins: with interrupts off on one CPU a spinlock that is found   *)
(* held is never released, in a handler or in a thread.                    *)
LocksNeverSpin ==
  /\ irqpc = "lock" => lock[irqq] = 0
  /\ (irqpc = "none" /\ pc[running_task] \in {"prepare_lock", "finish_lock"})
       => lock[waitq[running_task]] = 0

(* The walk of scheduler_yield stays on the ring, and only the idle thread *)
(* can find nobody else to run: "there must always be a active task"       *)
(* (kernel.c).                                                             *)
YieldFindsTask ==
  pc[running_task] = "walk" =>
    /\ curr \in live
    /\ curr = running_task => running_task = Idle

(* Outside the critical sections of the wait queues a thread runs with     *)
(* interrupts enabled, also right after it was created or switched to:     *)
(* otherwise no timer tick or key could ever reach it.                     *)
InterruptsEnabled ==
  (/\ irqpc = "none"
   /\ pc[running_task] \notin {"prepare", "prepare_unlock", "finish", "finish_unlock"})
     => intr = 1

(* An action property: the CPU passes to a live thread that is awake.      *)
SwitchToAwake ==
  [][running_task' # running_task =>
       running_task' \in live' /\ state[running_task'] = RUNNING]_schedVars

(* The scheduler implements Threads.  A wake-up takes effect when the      *)
(* handler gets the lock of the queue: from there to the release every     *)
(* sleeper is as good as awake, since no thread runs in between and the    *)
(* loop leaves nobody behind.                                              *)
Asleep(q) == IF irqpc = "wake" /\ irqq = q THEN {} ELSE Sleepers(q)

T == INSTANCE Threads WITH
  threads <- live, running <- running_task,
  asleep <- [q \in Queues |-> Asleep(q)]

ImplementsThreads == T!Spec
-----------------------------------------------------------------------------
(* The parts of the inductive invariant of module SchedulerProofs that are *)
(* not properties in their own right.                                      *)

Critical == {"prepare", "prepare_unlock", "finish", "finish_unlock"}
Parked   == {"absent", "switched", "exited"}

(* Which thread may be where, and what it then has.                        *)
ThreadsInv ==
  /\ \A t \in Tasks :
       /\ t = running_task <=> pc[t] \notin Parked
       /\ t \in live <=> pc[t] \notin {"absent", "exited"}
       /\ pc[t] \in {"absent", "exited", "boot", "ready"} => waitq[t] = NULL
       /\ waitq[t] = NULL => pc[t] \in {"absent", "exited", "boot", "ready", "walk", "switched"}
       /\ state[t] = INTERRUPTIBLE =>
            /\ waitq[t] # NULL
            /\ pc[t] \in {"prepare_unlock", "condition", "walk", "switched",
                          "finish_lock", "finish"}
       /\ pc[t] = "switched" => eflags[t] = 1
  /\ waitq[Idle] = NULL

(* The boot thread is first and the idle thread second until the boot      *)
(* thread exits.                                                           *)
BootInv ==
  /\ \A t \in Tasks : pc[t] = "boot" => t = Main
  /\ pc[Main] = "boot" => live = {Main}
  /\ pc[Main] # "boot" => Idle \in live
  /\ (Main \in live /\ Idle \in live) =>
       tasks = Main /\ next[Main] = Idle /\ tasks_tail # Main

(* Who holds which lock, and with which interrupt flag.                    *)
LocksInv ==
  /\ \A q \in Queues :
       lock[q] = 1 <=>
         \/ pc[running_task] \in Critical /\ waitq[running_task] = q
         \/ irqpc = "wake" /\ irqq = q
  /\ pc[running_task] \in Critical => irqpc = "none" /\ flags = 1 /\ intr = 0
  /\ irqpc # "none" => intr = 0 /\ irqq \in Queues
  /\ (irqpc = "none" /\ pc[running_task] \notin Critical) => intr = 1

(* Between wait_prepare_to_wait and wait_finish the thread's entry is the  *)
(* first of the queue, or a wake-up has emptied the queue.                 *)
FirstInv ==
  pc[running_task] \in {"prepare_unlock", "condition", "finish_lock", "finish"} =>
    IF state[running_task] = INTERRUPTIBLE
    THEN head[waitq[running_task]] = running_task
    ELSE \/ head[waitq[running_task]] = NULL
         \/ irqpc = "wake" /\ irqq = waitq[running_task]

(* The idle thread lies ahead of the cursor, before the walk is back at    *)
(* the thread that yields: sets that contain the cursor and are closed     *)
(* under next, except at that thread, contain the idle thread.             *)
WalkInv ==
  pc[running_task] = "walk" =>
    /\ curr \in live
    /\ running_task # Idle =>
         \A S \in SUBSET live :
           (curr \in S /\ \A s \in S \ {running_task} : next[s] \in S) => Idle \in S

SchedInv ==
  /\ SchedTypeOK /\ OneRing /\ ThreadsInv /\ BootInv
  /\ LocksInv /\ FirstInv /\ WalkInv /\ QueuesHoldSleepers
=============================================================================
