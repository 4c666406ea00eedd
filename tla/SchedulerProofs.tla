--------------------------- MODULE SchedulerProofs --------------------------
(***************************************************************************)
(* Proofs about the ring of tasks, the scheduler and its wait queues, for  *)
(* any set of tasks and of queues and for any outcome of the conditions    *)
(* waited for.                                                             *)
(***************************************************************************)
EXTENDS Scheduler, TLAPS

-----------------------------------------------------------------------------
(* The ring of tasks, module TaskRing.                                     *)

(* The boot thread alone is a ring.                                        *)
LEMMA InitIsRing == RingInit => RingTypeOK /\ OneRing
  <1> SUFFICES ASSUME RingInit PROVE RingTypeOK /\ OneRing
    OBVIOUS
  <1>1. RingTypeOK
    BY MainAssumption DEF RingInit, RingTypeOK
  <1>2. RingClosed /\ RingInjective /\ TailToHead
    BY MainAssumption DEF RingInit, RingClosed, RingInjective, TailToHead
  <1>3. RingConnected
    BY DEF RingInit, RingConnected
  <1> QED
    BY <1>1, <1>2, <1>3 DEF OneRing

(* tasks_insert keeps the list one ring: a set that the new links never    *)
(* leave contains the new task, and the rest of it was closed before.      *)
LEMMA InsertKeepsRing ==
  ASSUME RingTypeOK, OneRing, NEW n \in Tasks \ live, tasks_insert(n)
  PROVE  RingTypeOK' /\ OneRing'
  <1> USE DEF RingTypeOK, OneRing
  <1>1. /\ live' = live \cup {n} /\ tasks' = tasks /\ tasks_tail' = n
        /\ next' \in [Tasks -> Tasks \cup {NULL}]
        /\ next'[n] = tasks /\ next'[tasks_tail] = n
        /\ \A t \in Tasks \ {n, tasks_tail} : next'[t] = next[t]
    BY DEF tasks_insert
  <1>2. RingTypeOK'
    BY <1>1
  <1>3. RingClosed' /\ RingInjective' /\ TailToHead'
    BY <1>1 DEF RingClosed, RingInjective, TailToHead
  <1>4. ASSUME NEW S \in SUBSET live', S # {}, \A t \in S : next'[t] \in S
        PROVE  S = live'
    <2>1. CASE n \in S
      <3> DEFINE R == S \ {n}
      <3>1. R \in SUBSET live /\ tasks \in R
        BY <1>1, <1>4, <2>1
      <3>2. \A t \in R : next[t] \in R
        BY <1>1, <1>4, <3>1 DEF RingClosed, TailToHead
      <3>3. R = live
        BY <3>1, <3>2 DEF RingConnected
      <3> QED
        BY <3>3, <2>1, <1>1
    <2>2. CASE n \notin S
      <3>1. S \in SUBSET live /\ tasks_tail \notin S
        BY <1>1, <1>4, <2>2
      <3>2. \A t \in S : next[t] \in S
        BY <1>1, <1>4, <3>1, <2>2
      <3>3. S = live
        BY <3>1, <3>2, <1>4 DEF RingConnected
      <3> QED
        BY <3>1, <3>3
    <2> QED
      BY <2>1, <2>2
  <1>5. RingConnected'
    BY <1>4 DEF RingConnected
  <1> QED
    BY <1>2, <1>3, <1>5

(* The search of tasks_remove finds a predecessor, and no other task has   *)
(* the same successor: without it the rest of the ring would be closed.    *)
LEMMA PrevFound ==
  ASSUME RingTypeOK, OneRing, NEW t \in live, next[t] # t
  PROVE  Prev(t) \in live /\ next[Prev(t)] = t /\ Prev(t) # t
  <1> USE DEF RingTypeOK, OneRing
  <1>1. \E p \in live : next[p] = t
    <2> SUFFICES ASSUME \A p \in live : next[p] # t PROVE FALSE
      OBVIOUS
    <2>1. live \ {t} # {} /\ \A p \in live \ {t} : next[p] \in live \ {t}
      BY DEF RingClosed
    <2>2. live \ {t} = live
      BY <2>1 DEF RingConnected
    <2> QED
      BY <2>2
  <1> QED
    BY <1>1 DEF Prev

(* Taking t out by linking p, which precedes it, to its successor leaves   *)
(* one ring of the others: a set that the new links never leave was closed *)
(* before, once t is added to it if p is there.                            *)
LEMMA UnlinkKeepsRing ==
  ASSUME RingTypeOK, OneRing, NEW t \in live, NEW p \in live,
         next[p] = t, p # t,
         live' = live \ {t}, next' = [next EXCEPT ![p] = next[t]]
  PROVE  RingClosed' /\ RingInjective' /\ RingConnected'
  <1> USE DEF RingTypeOK, OneRing
  <1>1. /\ next'[p] = next[t]
        /\ \A u \in Tasks \ {p} : next'[u] = next[u]
    OBVIOUS
  <1>2. RingClosed' /\ RingInjective'
    BY <1>1 DEF RingClosed, RingInjective
  <1>3. ASSUME NEW S \in SUBSET live', S # {}, \A u \in S : next'[u] \in S
        PROVE  S = live'
    <2>1. CASE p \in S
      <3>1. S \cup {t} \in SUBSET live /\ \A u \in S \cup {t} : next[u] \in S \cup {t}
        BY <1>1, <1>3, <2>1
      <3>2. S \cup {t} = live
        BY <3>1 DEF RingConnected
      <3> QED
        BY <3>2, <1>3
    <2>2. CASE p \notin S
      <3>1. S \in SUBSET live /\ \A u \in S : next[u] \in S
        BY <1>1, <1>3, <2>2
      <3>2. S = live
        BY <3>1, <1>3 DEF RingConnected
      <3> QED
        BY <3>2, <2>2
    <2> QED
      BY <2>1, <2>2
  <1>4. RingConnected'
    BY <1>3 DEF RingConnected
  <1> QED
    BY <1>2, <1>4

(* tasks_remove keeps the list one ring, in each of its cases: t first,    *)
(* last or in between.                                                     *)
LEMMA RemoveKeepsRing ==
  ASSUME RingTypeOK, OneRing, NEW t \in live, next[t] # t, tasks_remove(t)
  PROVE  RingTypeOK' /\ OneRing'
  <1> USE DEF RingTypeOK
  <1>1. Prev(t) \in live /\ next[Prev(t)] = t /\ Prev(t) # t
    BY PrevFound
  <1>2. next[t] \in live
    BY DEF OneRing, RingClosed
  <1>3. CASE t = tasks
    <2>1. tasks_tail \in live /\ next[tasks_tail] = t /\ tasks_tail # t
      BY <1>3 DEF OneRing, TailToHead
    <2>2. /\ live' = live \ {t} /\ next' = [next EXCEPT ![tasks_tail] = next[t]]
          /\ tasks' = next[t] /\ tasks_tail' = tasks_tail
      BY <1>3 DEF tasks_remove
    <2>3. RingClosed' /\ RingInjective' /\ RingConnected'
      BY <2>1, <2>2, UnlinkKeepsRing
    <2> QED
      BY <2>1, <2>2, <2>3, <1>2 DEF OneRing, TailToHead
  <1>4. CASE t # tasks
    <2>1. /\ live' = live \ {t} /\ next' = [next EXCEPT ![Prev(t)] = next[t]]
          /\ tasks' = tasks
          /\ tasks_tail' = IF t = tasks_tail THEN Prev(t) ELSE tasks_tail
      BY <1>4 DEF tasks_remove
    <2>2. RingClosed' /\ RingInjective' /\ RingConnected'
      BY <1>1, <2>1, UnlinkKeepsRing
    <2>3. TailToHead'
      BY <1>1, <1>4, <2>1 DEF OneRing, TailToHead, RingInjective
    <2> QED
      BY <1>1, <1>2, <1>4, <2>1, <2>2, <2>3 DEF OneRing
  <1> QED
    BY <1>3, <1>4

(* The list of scheduler.c stays one ring of the live tasks under any      *)
(* sequence of tasks_insert and tasks_remove.                              *)
THEOREM RingCorrect == RingSpec => [](RingTypeOK /\ OneRing)
  <1>1. RingTypeOK /\ OneRing /\ [RingNext]_ringVars => (RingTypeOK /\ OneRing)'
    <2> SUFFICES ASSUME RingTypeOK, OneRing, [RingNext]_ringVars
                 PROVE  RingTypeOK' /\ OneRing'
      OBVIOUS
    <2>1. ASSUME NEW t \in Tasks, Insert(t) PROVE RingTypeOK' /\ OneRing'
      BY <2>1, InsertKeepsRing DEF Insert
    <2>2. ASSUME NEW t \in Tasks, Remove(t) PROVE RingTypeOK' /\ OneRing'
      BY <2>2, RemoveKeepsRing DEF Remove
    <2>3. CASE UNCHANGED ringVars
      BY <2>3 DEF ringVars, RingTypeOK, OneRing, RingClosed, RingInjective,
                  TailToHead, RingConnected
    <2> QED
      BY <2>1, <2>2, <2>3 DEF RingNext
  <1> QED
    BY InitIsRing, <1>1, PTL DEF RingSpec

-----------------------------------------------------------------------------
(* Lemmas about one queue.                                                 *)

(* A queue whose sleepers, head and links are the same is still in order.  *)
LEMMA QueueFrame ==
  ASSUME NEW q \in Queues, QueueOK(q),
         Sleepers(q)' = Sleepers(q), head'[q] = head[q],
         \A t \in Sleepers(q) : wnext'[t] = wnext[t]
  PROVE  QueueOK(q)'
  <1>1. Reachable(q)'
    BY DEF QueueOK, Reachable
  <1>2. Acyclic(q)'
    BY DEF QueueOK, Acyclic
  <1>3. Unshared(q)'
    BY DEF QueueOK, Unshared
  <1> QED
    BY <1>1, <1>2, <1>3 DEF QueueOK

(* wait_add_to_queue by a thread that is not on the queue.                 *)
LEMMA QueueLink ==
  ASSUME NEW q \in Queues, QueueOK(q), NEW t \in Tasks, t \notin Sleepers(q),
         Sleepers(q)' = Sleepers(q) \cup {t},
         head'[q] = t, wnext'[t] = head[q],
         \A u \in Sleepers(q) : wnext'[u] = wnext[u]
  PROVE  QueueOK(q)'
  <1>1. Reachable(q)'
    BY DEF QueueOK, Reachable
  <1>2. ASSUME NEW S \in SUBSET Sleepers(q)', S # {}
        PROVE  \E u \in S : wnext'[u] \notin S
    <2>1. CASE S = {t}
      BY <2>1, NullAssumption DEF QueueOK
    <2>2. CASE S # {t}
      <3>1. S \ {t} \in SUBSET Sleepers(q) /\ S \ {t} # {}
        BY <1>2, <2>2
      <3>2. PICK u \in S \ {t} : wnext[u] \notin S \ {t}
        BY <3>1 DEF QueueOK, Acyclic
      <3>3. wnext'[u] = wnext[u] /\ wnext[u] # t
        BY <3>1, <3>2, NullAssumption DEF QueueOK
      <3> QED
        BY <3>2, <3>3
    <2> QED
      BY <2>1, <2>2
  <1>3. Acyclic(q)'
    BY <1>2 DEF Acyclic
  <1>4. Unshared(q)'
    BY NullAssumption DEF QueueOK, Unshared, Sleepers
  <1> QED
    BY <1>1, <1>3, <1>4 DEF QueueOK

(* The first entry is unlinked, by a wake-up or by wait_finish.            *)
LEMMA QueueUnlink ==
  ASSUME NEW q \in Queues, QueueOK(q), head[q] # NULL,
         Sleepers(q)' = Sleepers(q) \ {head[q]},
         head'[q] = wnext[head[q]],
         \A u \in Sleepers(q) : wnext'[u] = wnext[u]
  PROVE  QueueOK(q)'
  <1> DEFINE h == head[q]
  <1>1. h \in Sleepers(q)
    BY DEF QueueOK
  <1>2. \A u \in Sleepers(q) : wnext[u] # h
    BY <1>1 DEF QueueOK, Unshared
  <1>3. /\ head'[q] \in Sleepers(q)' \cup {NULL}
        /\ \A t \in Sleepers(q)' : wnext'[t] \in Sleepers(q)' \cup {NULL}
    BY <1>1, <1>2 DEF QueueOK
  <1>4. ASSUME NEW S \in SUBSET Sleepers(q)', S # {}
        PROVE  head'[q] \in S \/ \E u \in Sleepers(q)' \ S : wnext'[u] \in S
    <2>1. S \in SUBSET Sleepers(q) /\ h \notin S
      BY <1>4
    <2>2. PICK u \in Sleepers(q) \ S : wnext[u] \in S
      BY <1>4, <2>1 DEF QueueOK, Reachable
    <2> QED
      BY <2>2
  <1>5. Reachable(q)'
    BY <1>4 DEF Reachable
  <1>6. Acyclic(q)'
    BY DEF QueueOK, Acyclic
  <1>7. Unshared(q)'
    BY <1>1 DEF QueueOK, Unshared
  <1> QED
    BY <1>3, <1>5, <1>6, <1>7 DEF QueueOK
-----------------------------------------------------------------------------
(* The inductive step: one lemma per action.                               *)

(* The ring is in order as long as nobody links or unlinks a task.         *)
LEMMA RingFrame ==
  ASSUME RingTypeOK, OneRing, UNCHANGED ringVars
  PROVE  RingTypeOK' /\ OneRing'
  BY DEF ringVars, RingTypeOK, OneRing, RingClosed, RingInjective, TailToHead,
         RingConnected

(* So are the queues, as long as state, waitq, head and wnext stay.        *)
LEMMA QueuesFrame ==
  ASSUME QueuesHoldSleepers, UNCHANGED <<state, waitq, head, wnext>>
  PROVE  QueuesHoldSleepers'
  BY QueueFrame DEF QueuesHoldSleepers, Sleepers

(* ... and the walk, as long as the ring, the cursor and its owner stay.   *)
LEMMA WalkFrame ==
  ASSUME WalkInv, UNCHANGED <<live, next, curr, running_task>>,
         pc'[running_task] = "walk" => pc[running_task] = "walk"
  PROVE  WalkInv'
  BY DEF WalkInv

(* The idle thread exists and is awake once the boot thread has left its   *)
(* first steps.                                                            *)
LEMMA IdleAwake ==
  ASSUME SchedInv, pc[running_task] # "boot"
  PROVE  Idle \in live /\ state[Idle] = RUNNING
  <1>1. Idle \in live
    BY DEF SchedInv, ThreadsInv, BootInv, SchedTypeOK, RingTypeOK, Parked
  <1>2. state[Idle] # INTERRUPTIBLE
    BY IdleAssumption DEF SchedInv, ThreadsInv
  <1> QED
    BY <1>1, <1>2, IdleAssumption DEF SchedInv, SchedTypeOK

(* A queue without a first entry has no sleepers.                          *)
LEMMA EmptyQueue ==
  ASSUME SchedInv, NEW q \in Queues, head[q] = NULL
  PROVE  Sleepers(q) = {}
  <1> SUFFICES ASSUME Sleepers(q) # {} PROVE FALSE
    OBVIOUS
  <1>1. QueueOK(q) /\ Sleepers(q) \in SUBSET Sleepers(q)
    BY DEF SchedInv, QueuesHoldSleepers
  <1>2. head[q] \in Sleepers(q)
    BY <1>1 DEF QueueOK, Reachable
  <1> QED
    BY <1>2, NullAssumption DEF Sleepers

(* From the successor of t one meets the idle thread before t again.       *)
LEMMA WalkStarts ==
  ASSUME RingTypeOK, OneRing, Idle \in live, NEW t \in live, t # Idle
  PROVE  \A S \in SUBSET live :
           (next[t] \in S /\ \A s \in S \ {t} : next[s] \in S) => Idle \in S
  <1> SUFFICES ASSUME NEW S \in SUBSET live, next[t] \in S,
                      \A s \in S \ {t} : next[s] \in S
               PROVE  Idle \in S
    OBVIOUS
  <1>1. S \cup {t} \in SUBSET live /\ S \cup {t} # {} /\ \A s \in S \cup {t} : next[s] \in S \cup {t}
    OBVIOUS
  <1>2. S \cup {t} = live
    BY <1>1 DEF OneRing, RingConnected
  <1> QED
    BY <1>2

(* Passing a task that is not the idle thread keeps the idle thread ahead. *)
LEMMA WalkAdvances ==
  ASSUME NEW t \in live, NEW c \in live, c # Idle,
         \A S \in SUBSET live :
           (c \in S /\ \A s \in S \ {t} : next[s] \in S) => Idle \in S,
         NEW R \in SUBSET live, next[c] \in R, \A s \in R \ {t} : next[s] \in R
  PROVE  Idle \in R
  <1>1. R \cup {c} \in SUBSET live /\ \A s \in (R \cup {c}) \ {t} : next[s] \in R \cup {c}
    OBVIOUS
  <1>2. Idle \in R \cup {c}
    BY <1>1
  <1> QED
    BY <1>2

(* A walk that is back at its start was the idle thread's.                 *)
LEMMA OnlyIdleReturns ==
  ASSUME SchedInv, pc[running_task] = "walk", curr = running_task
  PROVE  running_task = Idle
  <1> SUFFICES ASSUME running_task # Idle PROVE FALSE
    OBVIOUS
  <1>1. {running_task} \in SUBSET live
    BY DEF SchedInv, SchedTypeOK
  <1>2. Idle \in {running_task}
    BY <1>1 DEF SchedInv, WalkInv
  <1> QED
    BY <1>2

(* A live thread other than the running one was saved by task_switch with  *)
(* interrupts enabled.                                                     *)
LEMMA OthersSwitched ==
  ASSUME SchedInv, NEW t \in live, t # running_task
  PROVE  pc[t] = "switched" /\ eflags[t] = 1
  BY DEF SchedInv, SchedTypeOK, RingTypeOK, ThreadsInv, Parked

(* scheduler_yield starts its walk at the successor of the caller.         *)
LEMMA StepYield ==
  ASSUME SchedInv, NEW t \in Tasks, Yield(t)
  PROVE  SchedInv'
  <1> USE DEF SchedInv
  <1>1. RingTypeOK' /\ OneRing'
    BY RingFrame DEF SchedTypeOK, Yield, At, Goto, ringVars, waitVars, cpuVars
  <1>2. SchedTypeOK'
    BY <1>1 DEF SchedTypeOK, ThreadPCs, ThreadsInv, RingTypeOK, Yield, At, Goto,
       ringVars, waitVars, cpuVars
  <1>3. ThreadsInv'
    BY DEF SchedTypeOK, ThreadsInv, Parked, LocksInv, Critical, Yield, At, Goto,
       ringVars, waitVars, cpuVars
  <1>4. BootInv'
    BY DEF SchedTypeOK, ThreadsInv, BootInv, Yield, At, Goto, ringVars, waitVars,
       cpuVars
  <1>5. LocksInv'
    BY DEF SchedTypeOK, ThreadsInv, LocksInv, Critical, Parked, Yield, At, Goto,
       ringVars, waitVars, cpuVars
  <1>6. FirstInv'
    BY DEF SchedTypeOK, ThreadsInv, FirstInv, Parked, Yield, At, Goto, ringVars,
       waitVars, cpuVars
  <1>7. WalkInv'
    <2>1. t \in live /\ Idle \in live /\ pc[running_task] # "boot"
      BY IdleAwake DEF SchedTypeOK, Yield, At
    <2>2. curr' \in live' /\ running_task' = t /\ live' = live /\ next' = next /\ curr' = next[t]
      BY <2>1 DEF OneRing, RingClosed, Yield, At, ringVars
    <2>3. CASE t = Idle
      BY <2>2, <2>3 DEF WalkInv
    <2>4. CASE t # Idle
      <3>1. \A S \in SUBSET live :
              (next[t] \in S /\ \A s \in S \ {t} : next[s] \in S) => Idle \in S
        BY <2>1, <2>4, WalkStarts DEF SchedTypeOK
      <3> QED
        BY <2>2, <3>1 DEF WalkInv
    <2> QED
      BY <2>3, <2>4
  <1>8. QueuesHoldSleepers'
    BY QueuesFrame DEF Yield, At, Goto, ringVars, waitVars, cpuVars
  <1> QED
    BY <1>1, <1>2, <1>3, <1>4, <1>5, <1>6, <1>7, <1>8

(* The walk of scheduler_next_running_task passes a sleeping task.         *)
LEMMA StepWalk ==
  ASSUME SchedInv, NEW t \in Tasks, Walk(t)
  PROVE  SchedInv'
  <1> USE DEF SchedInv
  <1>1. RingTypeOK' /\ OneRing'
    BY RingFrame DEF SchedTypeOK, Walk, At, ringVars, waitVars, cpuVars
  <1>2. SchedTypeOK'
    BY <1>1 DEF SchedTypeOK, ThreadPCs, ThreadsInv, RingTypeOK, Walk, At, ringVars,
       waitVars, cpuVars
  <1>3. ThreadsInv'
    BY DEF SchedTypeOK, ThreadsInv, Parked, LocksInv, Critical, Walk, At, ringVars,
       waitVars, cpuVars
  <1>4. BootInv'
    BY DEF SchedTypeOK, ThreadsInv, BootInv, Walk, At, ringVars, waitVars, cpuVars
  <1>5. LocksInv'
    BY DEF SchedTypeOK, ThreadsInv, LocksInv, Critical, Parked, Walk, At, ringVars,
       waitVars, cpuVars
  <1>6. FirstInv'
    BY DEF SchedTypeOK, ThreadsInv, FirstInv, Parked, Walk, At, ringVars, waitVars,
       cpuVars
  <1>7. WalkInv'
    <2>1. t \in live /\ Idle \in live /\ state[Idle] = RUNNING
      BY IdleAwake DEF SchedTypeOK, Walk, At
    <2>2. /\ curr \in live /\ curr # Idle /\ curr' \in live
          /\ running_task' = t /\ running_task = t /\ live' = live /\ next' = next /\ curr' = next[curr]
      BY <2>1 DEF WalkInv, OneRing, RingClosed, Walk, At, ringVars
    <2>3. ASSUME t # Idle, NEW R \in SUBSET live, next[curr] \in R,
       \A s \in R \ {t} : next[s] \in R
          PROVE  Idle \in R
      <3>1. \A S \in SUBSET live :
              (curr \in S /\ \A s \in S \ {t} : next[s] \in S) => Idle \in S
        BY <2>2, <2>3 DEF WalkInv, Walk, At
      <3> QED
        BY <2>1, <2>2, <2>3, <3>1, WalkAdvances
    <2> QED
      BY <2>2, <2>3 DEF WalkInv
  <1>8. QueuesHoldSleepers'
    BY QueuesFrame DEF Walk, At, ringVars, waitVars, cpuVars
  <1> QED
    BY <1>1, <1>2, <1>3, <1>4, <1>5, <1>6, <1>7, <1>8

(* scheduler_yield returns to the idle thread, the only one that can find  *)
(* nobody.                                                                 *)
LEMMA StepYieldReturn ==
  ASSUME SchedInv, NEW t \in Tasks, YieldReturn(t)
  PROVE  SchedInv'
  <1> USE DEF SchedInv
  <1>1. RingTypeOK' /\ OneRing'
    BY RingFrame DEF SchedTypeOK, YieldReturn, Resume, At, Goto, ringVars, waitVars,
       cpuVars
  <1>2. SchedTypeOK'
    BY <1>1 DEF SchedTypeOK, ThreadPCs, ThreadsInv, RingTypeOK, YieldReturn, Resume,
       At, Goto, ringVars, waitVars, cpuVars
  <1>3. ThreadsInv'
    <2>1. t = Idle /\ waitq[t] = NULL
      BY OnlyIdleReturns DEF ThreadsInv, YieldReturn, At
    <2>2. pc' = [pc EXCEPT ![t] = "ready"]
      BY <2>1 DEF YieldReturn, Goto, Resume
    <2> QED
      BY <2>1, <2>2 DEF SchedTypeOK, ThreadsInv, Parked, YieldReturn, At, ringVars
  <1>4. BootInv'
    BY DEF SchedTypeOK, ThreadsInv, BootInv, YieldReturn, Resume, At, Goto, ringVars,
       waitVars, cpuVars
  <1>5. LocksInv'
    BY DEF SchedTypeOK, ThreadsInv, LocksInv, Critical, Parked, YieldReturn, Resume,
       At, Goto, ringVars, waitVars, cpuVars
  <1>6. FirstInv'
    BY DEF SchedTypeOK, ThreadsInv, FirstInv, Parked, YieldReturn, Resume, At, Goto,
       ringVars, waitVars, cpuVars
  <1>7. WalkInv'
    BY <1>2 DEF SchedTypeOK, WalkInv, Resume, YieldReturn, At, Goto
  <1>8. QueuesHoldSleepers'
    BY QueuesFrame DEF YieldReturn, Resume, At, Goto, ringVars, waitVars, cpuVars
  <1> QED
    BY <1>1, <1>2, <1>3, <1>4, <1>5, <1>6, <1>7, <1>8

(* task_switch gives the CPU to a thread that waits with interrupts        *)
(* enabled.                                                                *)
LEMMA StepSwitch ==
  ASSUME SchedInv, NEW t \in Tasks, Switch(t)
  PROVE  SchedInv'
  <1> USE DEF SchedInv
  <1>pre. /\ t = running_task /\ t \in live /\ pc[t] = "walk" /\ curr \in live /\ curr # t
        /\ pc[curr] = "switched" /\ eflags[curr] = 1 /\ intr = 1
    <2>1. t = running_task /\ t \in live /\ pc[t] = "walk" /\ curr # t
      BY DEF SchedTypeOK, Switch, At
    <2>2. curr \in live
      BY <2>1 DEF WalkInv
    <2>3. pc[curr] = "switched" /\ eflags[curr] = 1
      BY <2>1, <2>2, OthersSwitched
    <2> QED
      BY <2>1, <2>2, <2>3 DEF LocksInv, Critical, Switch, At
  <1>post. /\ running_task' = curr /\ intr' = 1 /\ eflags' = [eflags EXCEPT ![t] = 1]
        /\ pc' = [pc EXCEPT ![t] = "switched", ![curr] = Resume(curr)]
        /\ Resume(curr) \in {"ready", "prepare_lock"}
        /\ state[curr] = RUNNING /\ curr' = NULL
        /\ UNCHANGED <<live, next, tasks, tasks_tail, state, waitq, head, wnext, lock>>
        /\ UNCHANGED <<flags, irqpc, irqq>>
    BY <1>pre DEF Switch, Resume, ringVars, waitVars
  <1>1. RingTypeOK' /\ OneRing'
    BY RingFrame DEF SchedTypeOK, Switch, Resume, At, ringVars, waitVars
  <1>2. SchedTypeOK'
    BY <1>pre, <1>post, <1>1 DEF SchedTypeOK, RingTypeOK, ThreadPCs
  <1>3. ThreadsInv'
    <2>1. Resume(curr) = IF waitq[curr] = NULL THEN "ready" ELSE "prepare_lock"
      BY DEF Resume
    <2> QED
      BY <1>pre, <1>post, <2>1, IdleAssumption DEF SchedTypeOK, RingTypeOK,
         ThreadsInv, Parked
  <1>4. BootInv'
    <2>1. \A u \in Tasks : pc'[u] = "boot" <=> pc[u] = "boot"
      BY <1>pre, <1>post DEF SchedTypeOK, RingTypeOK
    <2> QED
      BY <1>post, <2>1, MainAssumption DEF BootInv
  <1>5. LocksInv'
    <2>1. pc'[running_task'] \notin Critical /\ pc[running_task] \notin Critical
      BY <1>pre, <1>post DEF SchedTypeOK, RingTypeOK, Critical
    <2>2. irqpc = "none"
      BY DEF Switch, At
    <2> QED
      BY <1>pre, <1>post, <2>1, <2>2 DEF LocksInv
  <1>6. FirstInv'
    BY <1>pre, <1>post DEF SchedTypeOK, RingTypeOK, FirstInv
  <1>7. WalkInv'
    BY <1>pre, <1>post DEF SchedTypeOK, RingTypeOK, WalkInv
  <1>8. QueuesHoldSleepers'
    BY QueuesFrame DEF Switch, Resume, At, ringVars, waitVars
  <1> QED
    BY <1>1, <1>2, <1>3, <1>4, <1>5, <1>6, <1>7, <1>8

(* A thread enters WAIT_EVENT_INTERRUPTIBLE: its entry is on no queue.     *)
LEMMA StepWaitEvent ==
  ASSUME SchedInv, NEW t \in Tasks, NEW q \in Queues, WaitEvent(t, q)
  PROVE  SchedInv'
  <1> USE DEF SchedInv
  <1>1. RingTypeOK' /\ OneRing'
    BY RingFrame DEF SchedTypeOK, WaitEvent, At, Goto, ringVars, cpuVars
  <1>2. SchedTypeOK'
    BY <1>1 DEF SchedTypeOK, ThreadPCs, ThreadsInv, RingTypeOK, WaitEvent, At, Goto,
       ringVars, cpuVars
  <1>3. ThreadsInv'
    <2>1. /\ pc[t] = "ready" /\ running_task = t /\ t # Idle /\ q # NULL
          /\ waitq' = [waitq EXCEPT ![t] = q] /\ pc' = [pc EXCEPT ![t] = "prepare_lock"]
          /\ UNCHANGED <<live, running_task, state, eflags>>
      BY QueuesAssumption DEF WaitEvent, At, Goto, ringVars
    <2> QED
      BY <2>1 DEF SchedTypeOK, ThreadsInv, Parked
  <1>4. BootInv'
    BY DEF SchedTypeOK, ThreadsInv, BootInv, WaitEvent, At, Goto, ringVars, cpuVars
  <1>5. LocksInv'
    BY DEF SchedTypeOK, ThreadsInv, LocksInv, Critical, Parked, WaitEvent, At, Goto,
       ringVars, cpuVars
  <1>6. FirstInv'
    BY DEF SchedTypeOK, ThreadsInv, FirstInv, Parked, WaitEvent, At, Goto, ringVars,
       cpuVars
  <1>7. WalkInv'
    BY WalkFrame DEF SchedTypeOK, WaitEvent, At, Goto, ringVars, cpuVars
  <1>8. QueuesHoldSleepers'
    BY QueueFrame, QueueLink, QueueUnlink DEF SchedTypeOK, ThreadsInv,
       QueuesHoldSleepers, Sleepers, WaitEvent, At, Goto, ringVars, cpuVars
  <1> QED
    BY <1>1, <1>2, <1>3, <1>4, <1>5, <1>6, <1>7, <1>8

(* wait_prepare_to_wait takes the lock of the queue.                       *)
LEMMA StepPrepareLock ==
  ASSUME SchedInv, NEW t \in Tasks, PrepareLock(t)
  PROVE  SchedInv'
  <1> USE DEF SchedInv
  <1>1. RingTypeOK' /\ OneRing'
    BY RingFrame DEF SchedTypeOK, PrepareLock, AcquireIrqsave, At, Goto, ringVars
  <1>2. SchedTypeOK'
    BY <1>1 DEF SchedTypeOK, ThreadPCs, ThreadsInv, RingTypeOK, PrepareLock,
       AcquireIrqsave, At, Goto, ringVars
  <1>3. ThreadsInv'
    BY DEF SchedTypeOK, ThreadsInv, Parked, LocksInv, Critical, PrepareLock,
       AcquireIrqsave, At, Goto, ringVars
  <1>4. BootInv'
    BY DEF SchedTypeOK, ThreadsInv, BootInv, PrepareLock, AcquireIrqsave, At, Goto,
       ringVars
  <1>5. LocksInv'
    BY DEF SchedTypeOK, ThreadsInv, LocksInv, Critical, Parked, PrepareLock,
       AcquireIrqsave, At, Goto, ringVars
  <1>6. FirstInv'
    BY DEF SchedTypeOK, ThreadsInv, FirstInv, Parked, PrepareLock, AcquireIrqsave,
       At, Goto, ringVars
  <1>7. WalkInv'
    BY WalkFrame DEF SchedTypeOK, PrepareLock, AcquireIrqsave, At, Goto, ringVars
  <1>8. QueuesHoldSleepers'
    BY QueuesFrame DEF PrepareLock, AcquireIrqsave, At, Goto, ringVars
  <1> QED
    BY <1>1, <1>2, <1>3, <1>4, <1>5, <1>6, <1>7, <1>8

(* wait_prepare_to_wait links the entry in front: the queue stays a chain  *)
(* of its sleepers.                                                        *)
LEMMA StepPrepare ==
  ASSUME SchedInv, NEW t \in Tasks, Prepare(t)
  PROVE  SchedInv'
  <1> USE DEF SchedInv
  <1>1. RingTypeOK' /\ OneRing'
    BY RingFrame DEF SchedTypeOK, Prepare, At, Goto, ringVars, cpuVars
  <1>2. SchedTypeOK'
    BY <1>1 DEF SchedTypeOK, ThreadPCs, ThreadsInv, RingTypeOK, Prepare, At, Goto,
       ringVars, cpuVars
  <1>3. ThreadsInv'
    BY DEF SchedTypeOK, ThreadsInv, Parked, LocksInv, Critical, Prepare, At, Goto,
       ringVars, cpuVars
  <1>4. BootInv'
    BY DEF SchedTypeOK, ThreadsInv, BootInv, Prepare, At, Goto, ringVars, cpuVars
  <1>5. LocksInv'
    BY DEF SchedTypeOK, ThreadsInv, LocksInv, Critical, Parked, Prepare, At, Goto,
       ringVars, cpuVars
  <1>6. FirstInv'
    BY DEF SchedTypeOK, ThreadsInv, FirstInv, Parked, Prepare, At, Goto, ringVars,
       cpuVars
  <1>7. WalkInv'
    BY WalkFrame DEF SchedTypeOK, Prepare, At, Goto, ringVars, cpuVars
  <1>8. QueuesHoldSleepers'
    BY QueueFrame, QueueLink, QueueUnlink DEF SchedTypeOK, ThreadsInv,
       QueuesHoldSleepers, Sleepers, Prepare, At, Goto, ringVars, cpuVars
  <1> QED
    BY <1>1, <1>2, <1>3, <1>4, <1>5, <1>6, <1>7, <1>8

(* wait_prepare_to_wait releases the lock and restores the interrupt flag. *)
LEMMA StepPrepareUnlock ==
  ASSUME SchedInv, NEW t \in Tasks, PrepareUnlock(t)
  PROVE  SchedInv'
  <1> USE DEF SchedInv
  <1>1. RingTypeOK' /\ OneRing'
    BY RingFrame DEF SchedTypeOK, PrepareUnlock, ReleaseIrqload, At, Goto, ringVars
  <1>2. SchedTypeOK'
    BY <1>1 DEF SchedTypeOK, ThreadPCs, ThreadsInv, RingTypeOK, PrepareUnlock,
       ReleaseIrqload, At, Goto, ringVars
  <1>3. ThreadsInv'
    BY DEF SchedTypeOK, ThreadsInv, Parked, LocksInv, Critical, PrepareUnlock,
       ReleaseIrqload, At, Goto, ringVars
  <1>4. BootInv'
    BY DEF SchedTypeOK, ThreadsInv, BootInv, PrepareUnlock, ReleaseIrqload, At, Goto,
       ringVars
  <1>5. LocksInv'
    BY DEF SchedTypeOK, ThreadsInv, LocksInv, Critical, Parked, PrepareUnlock,
       ReleaseIrqload, At, Goto, ringVars
  <1>6. FirstInv'
    BY DEF SchedTypeOK, ThreadsInv, FirstInv, Parked, PrepareUnlock, ReleaseIrqload,
       At, Goto, ringVars
  <1>7. WalkInv'
    BY WalkFrame DEF SchedTypeOK, PrepareUnlock, ReleaseIrqload, At, Goto, ringVars
  <1>8. QueuesHoldSleepers'
    BY QueuesFrame DEF PrepareUnlock, ReleaseIrqload, At, Goto, ringVars
  <1> QED
    BY <1>1, <1>2, <1>3, <1>4, <1>5, <1>6, <1>7, <1>8

(* The test inside the wait loop: leave the loop, or yield.                *)
LEMMA StepCondition ==
  ASSUME SchedInv, NEW t \in Tasks, NEW c \in BOOLEAN, Condition(t, c)
  PROVE  SchedInv'
  <1> USE DEF SchedInv
  <1>1. RingTypeOK' /\ OneRing'
    BY RingFrame DEF SchedTypeOK, Condition, At, Goto, ringVars, waitVars, cpuVars
  <1>2. SchedTypeOK'
    BY <1>1 DEF SchedTypeOK, ThreadPCs, ThreadsInv, RingTypeOK, Condition, At, Goto,
       ringVars, waitVars, cpuVars
  <1>3. ThreadsInv'
    BY DEF SchedTypeOK, ThreadsInv, Parked, LocksInv, Critical, Condition, At, Goto,
       ringVars, waitVars, cpuVars
  <1>4. BootInv'
    <2>1. \A u \in Tasks : pc'[u] = "boot" <=> pc[u] = "boot"
      BY DEF SchedTypeOK, Condition, At, Goto
    <2> QED
      BY <2>1, MainAssumption DEF BootInv, Condition, ringVars
  <1>5. LocksInv'
    BY DEF SchedTypeOK, ThreadsInv, LocksInv, Critical, Parked, Condition, At, Goto,
       ringVars, waitVars, cpuVars
  <1>6. FirstInv'
    BY DEF SchedTypeOK, ThreadsInv, FirstInv, Parked, Condition, At, Goto, ringVars,
       waitVars, cpuVars
  <1>7. WalkInv'
    <2>1. CASE c
      BY <2>1, WalkFrame DEF SchedTypeOK, Condition, At, Goto, ringVars
    <2>2. CASE ~c
    <3>1. t \in live /\ Idle \in live
      BY IdleAwake DEF SchedTypeOK, Condition, At
    <3>2. curr' \in live' /\ running_task' = t /\ live' = live /\ next' = next /\ curr' = next[t]
      BY <2>2, <3>1 DEF OneRing, RingClosed, Condition, At, ringVars
    <3>3. CASE t = Idle
      BY <3>2, <3>3 DEF WalkInv
    <3>4. CASE t # Idle
      <4>1. \A S \in SUBSET live :
              (next[t] \in S /\ \A s \in S \ {t} : next[s] \in S) => Idle \in S
        BY <3>1, <3>4, WalkStarts DEF SchedTypeOK
      <4> QED
        BY <3>2, <4>1 DEF WalkInv
    <3> QED
      BY <3>3, <3>4
    <2> QED
      BY <2>1, <2>2
  <1>8. QueuesHoldSleepers'
    BY QueuesFrame DEF Condition, At, Goto, ringVars, waitVars, cpuVars
  <1> QED
    BY <1>1, <1>2, <1>3, <1>4, <1>5, <1>6, <1>7, <1>8

(* wait_finish takes the lock of the queue.                                *)
LEMMA StepFinishLock ==
  ASSUME SchedInv, NEW t \in Tasks, FinishLock(t)
  PROVE  SchedInv'
  <1> USE DEF SchedInv
  <1>1. RingTypeOK' /\ OneRing'
    BY RingFrame DEF SchedTypeOK, FinishLock, AcquireIrqsave, At, Goto, ringVars
  <1>2. SchedTypeOK'
    BY <1>1 DEF SchedTypeOK, ThreadPCs, ThreadsInv, RingTypeOK, FinishLock,
       AcquireIrqsave, At, Goto, ringVars
  <1>3. ThreadsInv'
    BY DEF SchedTypeOK, ThreadsInv, Parked, LocksInv, Critical, FinishLock,
       AcquireIrqsave, At, Goto, ringVars
  <1>4. BootInv'
    BY DEF SchedTypeOK, ThreadsInv, BootInv, FinishLock, AcquireIrqsave, At, Goto,
       ringVars
  <1>5. LocksInv'
    BY DEF SchedTypeOK, ThreadsInv, LocksInv, Critical, Parked, FinishLock,
       AcquireIrqsave, At, Goto, ringVars
  <1>6. FirstInv'
    BY DEF SchedTypeOK, ThreadsInv, FirstInv, Parked, FinishLock, AcquireIrqsave, At,
       Goto, ringVars
  <1>7. WalkInv'
    BY WalkFrame DEF SchedTypeOK, FinishLock, AcquireIrqsave, At, Goto, ringVars
  <1>8. QueuesHoldSleepers'
    BY QueuesFrame DEF FinishLock, AcquireIrqsave, At, Goto, ringVars
  <1> QED
    BY <1>1, <1>2, <1>3, <1>4, <1>5, <1>6, <1>7, <1>8

(* wait_finish unlinks the entry, which is the first, or finds the queue   *)
(* empty.                                                                  *)
LEMMA StepFinish ==
  ASSUME SchedInv, NEW t \in Tasks, Finish(t)
  PROVE  SchedInv'
  <1> USE DEF SchedInv
  <1>1. RingTypeOK' /\ OneRing'
    BY RingFrame DEF SchedTypeOK, Finish, At, Goto, ringVars, cpuVars
  <1>2. SchedTypeOK'
    BY <1>1 DEF SchedTypeOK, ThreadPCs, ThreadsInv, RingTypeOK, Finish, At, Goto,
       ringVars, cpuVars
  <1>3. ThreadsInv'
    <2>1. /\ pc[t] = "finish" /\ running_task = t
          /\ state' = [state EXCEPT ![t] = RUNNING] /\ pc' = [pc EXCEPT ![t] = "finish_unlock"]
          /\ UNCHANGED <<live, running_task, waitq, eflags>>
      BY DEF Finish, At, Goto, ringVars
    <2> QED
      BY <2>1 DEF SchedTypeOK, ThreadsInv, Parked, RUNNING, INTERRUPTIBLE
  <1>4. BootInv'
    BY DEF SchedTypeOK, ThreadsInv, BootInv, Finish, At, Goto, ringVars, cpuVars
  <1>5. LocksInv'
    BY DEF SchedTypeOK, ThreadsInv, LocksInv, Critical, Parked, Finish, At, Goto,
       ringVars, cpuVars
  <1>6. FirstInv'
    BY DEF SchedTypeOK, ThreadsInv, FirstInv, Parked, Finish, At, Goto, ringVars,
       cpuVars
  <1>7. WalkInv'
    BY WalkFrame DEF SchedTypeOK, Finish, At, Goto, ringVars, cpuVars
  <1>8. QueuesHoldSleepers'
    <2>1. /\ waitq[t] \in Queues /\ waitq' = waitq /\ wnext' = wnext
          /\ state' = [state EXCEPT ![t] = RUNNING]
      BY DEF SchedTypeOK, ThreadsInv, Finish, At
    <2>2. CASE state[t] = INTERRUPTIBLE
      <3>1. head[waitq[t]] = t /\ t # NULL
        BY <2>2, NullAssumption DEF FirstInv, Finish, At
      <3>2. head' = [head EXCEPT ![waitq[t]] = wnext[t]]
        BY <3>1 DEF Finish
      <3>3. ASSUME NEW q \in Queues, q = waitq[t] PROVE QueueOK(q)'
        <4>1. Sleepers(q)' = Sleepers(q) \ {head[q]}
          BY <2>1, <3>1, <3>3 DEF SchedTypeOK, Sleepers, RUNNING, INTERRUPTIBLE
        <4> QED
          BY <2>1, <3>1, <3>2, <3>3, <4>1, QueueUnlink DEF SchedTypeOK,
             QueuesHoldSleepers
      <3>4. ASSUME NEW q \in Queues, q # waitq[t] PROVE QueueOK(q)'
        <4>1. Sleepers(q)' = Sleepers(q)
          BY <2>1, <3>4 DEF SchedTypeOK, Sleepers, RUNNING, INTERRUPTIBLE
        <4> QED
          BY <2>1, <3>2, <3>4, <4>1, QueueFrame DEF SchedTypeOK, QueuesHoldSleepers
      <3> QED
        BY <3>3, <3>4 DEF QueuesHoldSleepers
    <2>3. CASE state[t] # INTERRUPTIBLE
      <3>1. head[waitq[t]] = NULL /\ t # NULL
        BY <2>3, NullAssumption DEF FirstInv, Finish, At
      <3>2. head' = head /\ state' = state
        BY <2>1, <2>3, <3>1 DEF SchedTypeOK, Finish
      <3> QED
        BY <2>1, <3>2, QueuesFrame
    <2> QED
      BY <2>2, <2>3
  <1> QED
    BY <1>1, <1>2, <1>3, <1>4, <1>5, <1>6, <1>7, <1>8

(* wait_finish releases the lock; the wait is over.                        *)
LEMMA StepFinishUnlock ==
  ASSUME SchedInv, NEW t \in Tasks, FinishUnlock(t)
  PROVE  SchedInv'
  <1> USE DEF SchedInv
  <1>1. RingTypeOK' /\ OneRing'
    BY RingFrame DEF SchedTypeOK, FinishUnlock, ReleaseIrqload, At, Goto, ringVars
  <1>2. SchedTypeOK'
    BY <1>1 DEF SchedTypeOK, ThreadPCs, ThreadsInv, RingTypeOK, FinishUnlock,
       ReleaseIrqload, At, Goto, ringVars
  <1>3. ThreadsInv'
    BY DEF SchedTypeOK, ThreadsInv, Parked, LocksInv, Critical, FinishUnlock,
       ReleaseIrqload, At, Goto, ringVars
  <1>4. BootInv'
    BY DEF SchedTypeOK, ThreadsInv, BootInv, FinishUnlock, ReleaseIrqload, At, Goto,
       ringVars
  <1>5. LocksInv'
    BY DEF SchedTypeOK, ThreadsInv, LocksInv, Critical, Parked, FinishUnlock,
       ReleaseIrqload, At, Goto, ringVars
  <1>6. FirstInv'
    BY DEF SchedTypeOK, ThreadsInv, FirstInv, Parked, FinishUnlock, ReleaseIrqload,
       At, Goto, ringVars
  <1>7. WalkInv'
    BY WalkFrame DEF SchedTypeOK, FinishUnlock, ReleaseIrqload, At, Goto, ringVars
  <1>8. QueuesHoldSleepers'
    BY QueueFrame, QueueLink, QueueUnlink DEF SchedTypeOK, ThreadsInv,
       QueuesHoldSleepers, Sleepers, FinishUnlock, ReleaseIrqload, At, Goto, ringVars
  <1> QED
    BY <1>1, <1>2, <1>3, <1>4, <1>5, <1>6, <1>7, <1>8

(* An interrupt arrives outside every critical section.                    *)
LEMMA StepIrqEnter ==
  ASSUME SchedInv, NEW q \in Queues, IrqEnter(q)
  PROVE  SchedInv'
  <1> USE DEF SchedInv
  <1>1. RingTypeOK' /\ OneRing'
    BY RingFrame DEF SchedTypeOK, IrqEnter, ringVars, threadVars, waitVars
  <1>2. SchedTypeOK'
    BY <1>1 DEF SchedTypeOK, ThreadPCs, ThreadsInv, RingTypeOK, IrqEnter, ringVars,
       threadVars, waitVars
  <1>3. ThreadsInv'
    BY DEF SchedTypeOK, ThreadsInv, Parked, LocksInv, Critical, IrqEnter, ringVars,
       threadVars, waitVars
  <1>4. BootInv'
    BY DEF SchedTypeOK, ThreadsInv, BootInv, IrqEnter, ringVars, threadVars, waitVars
  <1>5. LocksInv'
    BY DEF SchedTypeOK, ThreadsInv, LocksInv, Critical, Parked, IrqEnter, ringVars,
       threadVars, waitVars
  <1>6. FirstInv'
    BY DEF SchedTypeOK, ThreadsInv, FirstInv, Parked, IrqEnter, ringVars, threadVars,
       waitVars
  <1>7. WalkInv'
    BY WalkFrame DEF SchedTypeOK, IrqEnter, ringVars, threadVars, waitVars
  <1>8. QueuesHoldSleepers'
    BY QueuesFrame DEF IrqEnter, ringVars, threadVars, waitVars
  <1> QED
    BY <1>1, <1>2, <1>3, <1>4, <1>5, <1>6, <1>7, <1>8

(* The handler calls wait_wake_up_interruptible.                           *)
LEMMA StepIrqCallWake ==
  ASSUME SchedInv, IrqCallWake
  PROVE  SchedInv'
  <1> USE DEF SchedInv
  <1>1. RingTypeOK' /\ OneRing'
    BY RingFrame DEF SchedTypeOK, IrqCallWake, ringVars, threadVars, waitVars
  <1>2. SchedTypeOK'
    BY <1>1 DEF SchedTypeOK, ThreadPCs, ThreadsInv, RingTypeOK, IrqCallWake,
       ringVars, threadVars, waitVars
  <1>3. ThreadsInv'
    BY DEF SchedTypeOK, ThreadsInv, Parked, LocksInv, Critical, IrqCallWake,
       ringVars, threadVars, waitVars
  <1>4. BootInv'
    BY DEF SchedTypeOK, ThreadsInv, BootInv, IrqCallWake, ringVars, threadVars, waitVars
  <1>5. LocksInv'
    BY DEF SchedTypeOK, ThreadsInv, LocksInv, Critical, Parked, IrqCallWake,
       ringVars, threadVars, waitVars
  <1>6. FirstInv'
    BY DEF SchedTypeOK, ThreadsInv, FirstInv, Parked, IrqCallWake, ringVars,
       threadVars, waitVars
  <1>7. WalkInv'
    BY WalkFrame DEF SchedTypeOK, IrqCallWake, ringVars, threadVars, waitVars
  <1>8. QueuesHoldSleepers'
    BY QueuesFrame DEF IrqCallWake, ringVars, threadVars, waitVars
  <1> QED
    BY <1>1, <1>2, <1>3, <1>4, <1>5, <1>6, <1>7, <1>8

(* The handler takes the lock, which no thread can be holding.             *)
LEMMA StepIrqLock ==
  ASSUME SchedInv, IrqLock
  PROVE  SchedInv'
  <1> USE DEF SchedInv
  <1>1. RingTypeOK' /\ OneRing'
    BY RingFrame DEF SchedTypeOK, IrqLock, ringVars, threadVars
  <1>2. SchedTypeOK'
    BY <1>1 DEF SchedTypeOK, ThreadPCs, ThreadsInv, RingTypeOK, IrqLock, ringVars,
       threadVars
  <1>3. ThreadsInv'
    BY DEF SchedTypeOK, ThreadsInv, Parked, LocksInv, Critical, IrqLock, ringVars,
       threadVars
  <1>4. BootInv'
    BY DEF SchedTypeOK, ThreadsInv, BootInv, IrqLock, ringVars, threadVars
  <1>5. LocksInv'
    BY DEF SchedTypeOK, ThreadsInv, LocksInv, Critical, Parked, IrqLock, ringVars,
       threadVars
  <1>6. FirstInv'
    BY DEF SchedTypeOK, ThreadsInv, FirstInv, Parked, IrqLock, ringVars, threadVars
  <1>7. WalkInv'
    BY WalkFrame DEF SchedTypeOK, IrqLock, ringVars, threadVars
  <1>8. QueuesHoldSleepers'
    BY QueuesFrame DEF IrqLock, ringVars, threadVars
  <1> QED
    BY <1>1, <1>2, <1>3, <1>4, <1>5, <1>6, <1>7, <1>8

(* The handler wakes the first sleeper and unlinks its entry.              *)
LEMMA StepIrqWake ==
  ASSUME SchedInv, IrqWake
  PROVE  SchedInv'
  <1> USE DEF SchedInv
  <1>pre. /\ irqq \in Queues /\ head[irqq] \in Sleepers(irqq) /\ head[irqq] \in Tasks
        /\ head[irqq] # NULL
    BY DEF LocksInv, QueuesHoldSleepers, QueueOK, Sleepers, IrqWake
  <1>1. RingTypeOK' /\ OneRing'
    BY RingFrame DEF SchedTypeOK, IrqWake, ringVars, cpuVars
  <1>2. SchedTypeOK'
    BY <1>pre, <1>1 DEF SchedTypeOK, IrqWake, ringVars, cpuVars
  <1>3. ThreadsInv'
    BY DEF SchedTypeOK, ThreadsInv, Parked, LocksInv, Critical, IrqWake, ringVars,
       cpuVars
  <1>4. BootInv'
    BY DEF SchedTypeOK, ThreadsInv, BootInv, IrqWake, ringVars, cpuVars
  <1>5. LocksInv'
    BY DEF SchedTypeOK, ThreadsInv, LocksInv, Critical, Parked, IrqWake, ringVars,
       cpuVars
  <1>6. FirstInv'
    <2>1. waitq[head[irqq]] = irqq /\ irqpc = "wake" /\ irqpc' = "wake" /\ irqq' = irqq
      BY <1>pre DEF Sleepers, IrqWake, cpuVars
    <2> QED
      BY <1>pre, <2>1 DEF SchedTypeOK, RingTypeOK, FirstInv, IrqWake, RUNNING,
         INTERRUPTIBLE
  <1>7. WalkInv'
    BY WalkFrame DEF SchedTypeOK, IrqWake, ringVars, cpuVars
  <1>8. QueuesHoldSleepers'
    <2>1. waitq' = waitq /\ wnext' = wnext /\ state' = [state EXCEPT ![head[irqq]] = RUNNING]
          /\ head' = [head EXCEPT ![irqq] = wnext[head[irqq]]]
      BY DEF IrqWake
    <2>2. ASSUME NEW q \in Queues PROVE QueueOK(q)'
      <3>1. CASE q = irqq
        <4>1. Sleepers(q)' = Sleepers(q) \ {head[q]}
          BY <1>pre, <2>1, <3>1 DEF SchedTypeOK, Sleepers, RUNNING, INTERRUPTIBLE
        <4> QED
          BY <1>pre, <2>1, <3>1, <4>1, QueueUnlink DEF SchedTypeOK, QueuesHoldSleepers
      <3>2. CASE q # irqq
        <4>1. Sleepers(q)' = Sleepers(q)
          BY <1>pre, <2>1, <3>2 DEF SchedTypeOK, Sleepers, RUNNING, INTERRUPTIBLE
        <4> QED
          BY <2>1, <3>2, <4>1, QueueFrame DEF SchedTypeOK, QueuesHoldSleepers
      <3> QED
        BY <3>1, <3>2
    <2> QED
      BY <2>2 DEF QueuesHoldSleepers
  <1> QED
    BY <1>1, <1>2, <1>3, <1>4, <1>5, <1>6, <1>7, <1>8

(* The handler has emptied the queue and releases the lock.                *)
LEMMA StepIrqUnlock ==
  ASSUME SchedInv, IrqUnlock
  PROVE  SchedInv'
  <1> USE DEF SchedInv
  <1>1. RingTypeOK' /\ OneRing'
    BY RingFrame DEF SchedTypeOK, IrqUnlock, ringVars, threadVars
  <1>2. SchedTypeOK'
    BY <1>1 DEF SchedTypeOK, ThreadPCs, ThreadsInv, RingTypeOK, IrqUnlock, ringVars,
       threadVars
  <1>3. ThreadsInv'
    BY DEF SchedTypeOK, ThreadsInv, Parked, LocksInv, Critical, IrqUnlock, ringVars,
       threadVars
  <1>4. BootInv'
    BY DEF SchedTypeOK, ThreadsInv, BootInv, IrqUnlock, ringVars, threadVars
  <1>5. LocksInv'
    BY DEF SchedTypeOK, ThreadsInv, LocksInv, Critical, Parked, IrqUnlock, ringVars,
       threadVars
  <1>6. FirstInv'
    BY DEF SchedTypeOK, ThreadsInv, FirstInv, Parked, IrqUnlock, ringVars, threadVars
  <1>7. WalkInv'
    BY WalkFrame DEF SchedTypeOK, IrqUnlock, ringVars, threadVars
  <1>8. QueuesHoldSleepers'
    BY QueuesFrame DEF IrqUnlock, ringVars, threadVars
  <1> QED
    BY <1>1, <1>2, <1>3, <1>4, <1>5, <1>6, <1>7, <1>8

(* The handler returns to the interrupted thread.                          *)
LEMMA StepIrqReturn ==
  ASSUME SchedInv, IrqReturn
  PROVE  SchedInv'
  <1> USE DEF SchedInv
  <1>1. RingTypeOK' /\ OneRing'
    BY RingFrame DEF SchedTypeOK, IrqReturn, ringVars, threadVars, waitVars
  <1>2. SchedTypeOK'
    BY <1>1 DEF SchedTypeOK, ThreadPCs, ThreadsInv, RingTypeOK, IrqReturn, ringVars,
       threadVars, waitVars
  <1>3. ThreadsInv'
    BY DEF SchedTypeOK, ThreadsInv, Parked, LocksInv, Critical, IrqReturn, ringVars,
       threadVars, waitVars
  <1>4. BootInv'
    BY DEF SchedTypeOK, ThreadsInv, BootInv, IrqReturn, ringVars, threadVars, waitVars
  <1>5. LocksInv'
    BY DEF SchedTypeOK, ThreadsInv, LocksInv, Critical, Parked, IrqReturn, ringVars,
       threadVars, waitVars
  <1>6. FirstInv'
    BY DEF SchedTypeOK, ThreadsInv, FirstInv, Parked, IrqReturn, ringVars,
       threadVars, waitVars
  <1>7. WalkInv'
    BY WalkFrame DEF SchedTypeOK, IrqReturn, ringVars, threadVars, waitVars
  <1>8. QueuesHoldSleepers'
    BY QueuesFrame DEF IrqReturn, ringVars, threadVars, waitVars
  <1> QED
    BY <1>1, <1>2, <1>3, <1>4, <1>5, <1>6, <1>7, <1>8

(* scheduler_create_thread: the idle thread becomes second, any other one  *)
(* last.                                                                   *)
LEMMA StepCreateThread ==
  ASSUME SchedInv, NEW t \in Tasks, NEW n \in Tasks, CreateThread(t, n)
  PROVE  SchedInv'
  <1> USE DEF SchedInv
  <1>pre. /\ t = Main /\ running_task = Main /\ n \notin live /\ n # Main
        /\ pc[t] \in {"boot", "ready"} /\ pc[n] = "absent" /\ intr = 1
        /\ live' = live \cup {n} /\ tasks' = tasks /\ tasks_tail' = n
        /\ next' = [next EXCEPT ![n] = tasks, ![tasks_tail] = n]
        /\ state' = state /\ eflags' = [eflags EXCEPT ![n] = 1]
        /\ pc' = [pc EXCEPT ![n] = "switched", ![t] = "ready"]
        /\ UNCHANGED <<running_task, curr, waitq, head, wnext, lock, intr, flags, irqpc, irqq>>
    <2>1. t = Main /\ running_task = Main /\ pc[t] \in {"boot", "ready"} /\ irqpc = "none"
      BY DEF BootInv, CreateThread, At
    <2>2. pc[n] = "absent" /\ n \notin live /\ n # Main /\ state[n] = RUNNING
      BY <2>1 DEF SchedTypeOK, ThreadsInv, CreateThread
    <2>3. intr = 1
      BY <2>1 DEF LocksInv, Critical
    <2>4. state' = state
      BY <2>2 DEF SchedTypeOK, CreateThread
    <2> QED
      BY <2>1, <2>2, <2>3, <2>4 DEF CreateThread, tasks_insert, waitVars, cpuVars
  <1>1. RingTypeOK' /\ OneRing'
    BY InsertKeepsRing DEF SchedTypeOK, ThreadsInv, CreateThread, At, waitVars, cpuVars
  <1>2. SchedTypeOK'
    BY <1>pre, <1>1 DEF SchedTypeOK, ThreadPCs
  <1>3. ThreadsInv'
    BY <1>pre DEF SchedTypeOK, ThreadsInv, Parked
  <1>4. BootInv'
    <2>1. CASE pc[Main] = "boot"
      <3>1. live = {Main} /\ tasks = Main /\ tasks_tail = Main /\ n = Idle
        BY <1>pre, <2>1 DEF BootInv, SchedTypeOK, RingTypeOK, CreateThread, At
      <3> QED
        BY <1>pre, <3>1, IdleAssumption, MainAssumption DEF BootInv, SchedTypeOK,
           RingTypeOK
    <2>2. CASE pc[Main] # "boot"
      <3>1. Main \in live /\ Idle \in live
        BY <1>pre, <2>2 DEF BootInv, SchedTypeOK
      <3>2. tasks = Main /\ next[Main] = Idle /\ tasks_tail # Main
        BY <3>1 DEF BootInv
      <3>3. next'[Main] = Idle
        BY <1>pre, <3>2, MainAssumption DEF SchedTypeOK, RingTypeOK
      <3>4. \A u \in Tasks : pc'[u] # "boot"
        BY <1>pre, <2>2 DEF BootInv, SchedTypeOK
      <3> QED
        BY <1>pre, <3>1, <3>2, <3>3, <3>4, MainAssumption DEF BootInv
    <2> QED
      BY <2>1, <2>2
  <1>5. LocksInv'
    BY DEF SchedTypeOK, ThreadsInv, LocksInv, Critical, Parked, CreateThread, At,
       waitVars, cpuVars
  <1>6. FirstInv'
    BY DEF SchedTypeOK, ThreadsInv, FirstInv, Parked, CreateThread, At, waitVars,
       cpuVars
  <1>7. WalkInv'
    BY DEF SchedTypeOK, WalkInv, OneRing, RingClosed, CreateThread, At, waitVars,
       cpuVars
  <1>8. QueuesHoldSleepers'
    BY QueueFrame, QueueLink, QueueUnlink DEF SchedTypeOK, ThreadsInv,
       QueuesHoldSleepers, Sleepers, CreateThread, At, waitVars, cpuVars
  <1> QED
    BY <1>1, <1>2, <1>3, <1>4, <1>5, <1>6, <1>7, <1>8

(* scheduler_exit of the boot thread: its successor, the idle thread, is   *)
(* awake.                                                                  *)
LEMMA StepExit ==
  ASSUME SchedInv, NEW t \in Tasks, Exit(t)
  PROVE  SchedInv'
  <1> USE DEF SchedInv
  <1>pre. /\ t = Main /\ running_task = Main /\ pc[Main] = "ready" /\ Main \in live
        /\ Idle \in live /\ Idle # Main /\ tasks = Main /\ next[Main] = Idle
        /\ pc[Idle] = "switched" /\ eflags[Idle] = 1 /\ state[Idle] = RUNNING
        /\ waitq[Idle] = NULL /\ irqpc = "none"
    <2>1. t = Main /\ running_task = Main /\ pc[Main] = "ready" /\ irqpc = "none"
      BY DEF Exit, At
    <2>2. Main \in live /\ Idle \in live /\ state[Idle] = RUNNING /\ Idle # Main
      BY <2>1, IdleAwake, IdleAssumption DEF SchedTypeOK
    <2> QED
      BY <2>1, <2>2, OthersSwitched DEF BootInv, ThreadsInv
  <1>post. /\ running_task' = Idle /\ intr' = 1 /\ live' = live \ {Main}
        /\ pc' = [pc EXCEPT ![Main] = "exited", ![Idle] = "ready"]
        /\ eflags' = [eflags EXCEPT ![Main] = intr]
        /\ UNCHANGED <<state, curr, waitq, head, wnext, lock, flags, irqpc, irqq>>
    BY <1>pre DEF Exit, Resume, tasks_remove, waitVars
  <1>1. RingTypeOK' /\ OneRing'
    BY <1>pre, RemoveKeepsRing DEF SchedTypeOK, Exit
  <1>2. SchedTypeOK'
    BY <1>pre, <1>post, <1>1 DEF SchedTypeOK, ThreadPCs
  <1>3. ThreadsInv'
    BY <1>pre, <1>post, MainAssumption, IdleAssumption DEF SchedTypeOK, ThreadsInv,
       Parked
  <1>4. BootInv'
    BY <1>pre, <1>post, MainAssumption, IdleAssumption DEF SchedTypeOK, BootInv
  <1>5. LocksInv'
    <2>1. pc'[running_task'] \notin Critical /\ pc[running_task] \notin Critical
      BY <1>pre, <1>post, IdleAssumption DEF SchedTypeOK, Critical
    <2> QED
      BY <1>pre, <1>post, <2>1 DEF LocksInv
  <1>6. FirstInv'
    BY <1>pre, <1>post, IdleAssumption DEF SchedTypeOK, FirstInv
  <1>7. WalkInv'
    BY <1>pre, <1>post, IdleAssumption DEF SchedTypeOK, WalkInv
  <1>8. QueuesHoldSleepers'
    BY <1>post, QueuesFrame
  <1> QED
    BY <1>1, <1>2, <1>3, <1>4, <1>5, <1>6, <1>7, <1>8

-----------------------------------------------------------------------------
(* Every step of the scheduler keeps the inductive invariant.              *)
LEMMA StepKeepsInv == SchedInv /\ [SchedNext]_schedVars => SchedInv'
  <1> SUFFICES ASSUME SchedInv, [SchedNext]_schedVars PROVE SchedInv'
    OBVIOUS
  <1>1. ASSUME NEW t \in Tasks, Internal(t) PROVE SchedInv'
    BY <1>1, StepWalk, StepYieldReturn, StepSwitch, StepPrepareLock, StepPrepare,
       StepPrepareUnlock, StepFinishLock, StepFinish, StepFinishUnlock DEF Internal
  <1>2. CASE ThreadStep
    BY <1>1, <1>2, StepCreateThread, StepExit, StepYield, StepWaitEvent, StepCondition
       DEF ThreadStep
  <1>3. CASE \E q \in Queues : IrqEnter(q)
    BY <1>3, StepIrqEnter
  <1>4. CASE IrqStep
    BY <1>4, StepIrqCallWake, StepIrqLock, StepIrqWake, StepIrqUnlock, StepIrqReturn
       DEF IrqStep
  <1>5. CASE UNCHANGED schedVars
    <2>1. RingTypeOK' /\ OneRing' /\ QueuesHoldSleepers'
      BY <1>5, RingFrame, QueuesFrame
      DEF schedVars, ringVars, threadVars, waitVars, SchedInv, SchedTypeOK
    <2>2. SchedTypeOK' /\ ThreadsInv' /\ BootInv' /\ LocksInv' /\ FirstInv' /\ WalkInv'
      BY <1>5 DEF schedVars, ringVars, threadVars, waitVars, cpuVars, SchedInv, SchedTypeOK,
         RingTypeOK, ThreadsInv, BootInv, LocksInv, FirstInv, WalkInv
    <2> QED
      BY <2>1, <2>2 DEF SchedInv
  <1> QED
    BY <1>2, <1>3, <1>4, <1>5 DEF SchedNext

(* The state scheduler_initialize leaves satisfies it.                     *)
LEMMA InitHasInv == SchedInit => SchedInv
  <1> SUFFICES ASSUME SchedInit PROVE SchedInv
    OBVIOUS
  <1>1. RingTypeOK /\ OneRing
    BY InitIsRing DEF SchedInit
  <1>2. SchedTypeOK
    BY <1>1, MainAssumption DEF SchedInit, SchedTypeOK, RingInit, ThreadPCs
  <1>3. ThreadsInv /\ BootInv
    BY MainAssumption, IdleAssumption
    DEF SchedInit, RingInit, ThreadsInv, BootInv, Parked, RUNNING, INTERRUPTIBLE
  <1>4. LocksInv /\ FirstInv /\ WalkInv
    BY MainAssumption DEF SchedInit, LocksInv, FirstInv, WalkInv, Critical
  <1>5. \A q \in Queues : Sleepers(q) = {}
    BY DEF SchedInit, Sleepers, RUNNING, INTERRUPTIBLE
  <1>6. QueuesHoldSleepers
    BY <1>5 DEF SchedInit, QueuesHoldSleepers, QueueOK, Reachable, Acyclic, Unshared
  <1> QED
    BY <1>1, <1>2, <1>3, <1>4, <1>6 DEF SchedInv

(* The inductive invariant holds in every state: one ring with the idle    *)
(* thread on it, a lock held by whoever is in its critical section and by  *)
(* nobody else, and queues that hold exactly their sleepers.               *)
THEOREM SchedInvariant == SchedSpec => []SchedInv
  BY InitHasInv, StepKeepsInv, PTL DEF SchedSpec

(* The list of each wait queue holds exactly the threads asleep on it, in  *)
(* a chain that ends: no lost wake-up, no endless wake-up, no entry left   *)
(* behind in a dead stack frame.                                           *)
THEOREM QueuesCorrect == SchedSpec => []QueuesHoldSleepers
  <1>1. SchedInv => QueuesHoldSleepers
    BY DEF SchedInv
  <1> QED
    BY <1>1, SchedInvariant, PTL

(* No entry is linked twice: a thread in wait_prepare_to_wait is awake.    *)
THEOREM WaitsCorrect == SchedSpec => []NeverLinkedTwice
  <1>1. SchedInv => NeverLinkedTwice
    BY DEF SchedInv, SchedTypeOK, ThreadsInv, NeverLinkedTwice
  <1> QED
    BY <1>1, SchedInvariant, PTL

(* wait_remove_from_queue always ends: the entry it looks for is first, or *)
(* the queue is empty.                                                     *)
THEOREM RemovalCorrect == SchedSpec => []RemovalTerminates
  <1>1. SchedInv => RemovalTerminates
    <2> SUFFICES ASSUME SchedInv, NEW t \in Tasks, pc[t] = "finish"
                 PROVE  head[waitq[t]] \in {NULL, t}
      BY DEF RemovalTerminates
    <2>1. t = running_task /\ irqpc = "none"
      BY DEF SchedInv, ThreadsInv, Parked, LocksInv, Critical
    <2> QED
      BY <2>1 DEF SchedInv, FirstInv
  <1> QED
    BY <1>1, SchedInvariant, PTL

(* No spinlock is ever found held: neither a thread nor an interrupt       *)
(* handler can hang on one.                                                *)
THEOREM LocksCorrect == SchedSpec => []LocksNeverSpin
  <1>1. SchedInv => LocksNeverSpin
    <2> SUFFICES ASSUME SchedInv PROVE LocksNeverSpin
      OBVIOUS
    <2>1. irqpc = "lock" => lock[irqq] = 0
      <3> SUFFICES ASSUME irqpc = "lock" PROVE lock[irqq] # 1 /\ irqq \in Queues
        BY DEF SchedInv, SchedTypeOK
      <3> QED
        BY DEF SchedInv, LocksInv
    <2>2. ASSUME irqpc = "none", pc[running_task] \in {"prepare_lock", "finish_lock"}
          PROVE  lock[waitq[running_task]] = 0
      <3>1. waitq[running_task] \in Queues
        BY <2>2 DEF SchedInv, SchedTypeOK, RingTypeOK, ThreadsInv
      <3>2. lock[waitq[running_task]] # 1
        BY <2>2, <3>1 DEF SchedInv, LocksInv, Critical
      <3> QED
        BY <3>1, <3>2 DEF SchedInv, SchedTypeOK
    <2> QED
      BY <2>1, <2>2 DEF LocksNeverSpin
  <1> QED
    BY <1>1, SchedInvariant, PTL

(* scheduler_yield walks on the ring, always finds a task to run, and only *)
(* the idle thread may find that it is alone; and a thread outside a       *)
(* critical section can be interrupted.                                    *)
THEOREM YieldCorrect == SchedSpec => [](YieldFindsTask /\ InterruptsEnabled)
  <1>1. SchedInv => YieldFindsTask
    BY OnlyIdleReturns DEF SchedInv, WalkInv, YieldFindsTask
  <1>2. SchedInv => InterruptsEnabled
    BY DEF SchedInv, LocksInv, Critical, InterruptsEnabled
  <1> QED
    BY <1>1, <1>2, SchedInvariant, PTL

-----------------------------------------------------------------------------
(* The scheduler implements Threads.                                       *)

(* A thread that is awake for the scheduler is awake for Threads.          *)
LEMMA RunningIsAwake ==
  ASSUME NEW t \in Tasks, state[t] = RUNNING
  PROVE  T!Awake(t)
  BY DEF T!Awake, Asleep, Sleepers, RUNNING, INTERRUPTIBLE

(* A step that changes none of these is a stutter of Threads.              *)
LEMMA ThreadsStutter ==
  ASSUME UNCHANGED <<live, running_task>>,
         \A q \in Queues : Asleep(q)' = Asleep(q)
  PROVE  UNCHANGED T!vars
  BY DEF T!vars

(* Outside a wake-up the sleepers are those whose state says so.           *)
LEMMA AsleepFrame ==
  ASSUME UNCHANGED <<state, waitq>>, UNCHANGED <<irqpc, irqq>> \/ (irqpc # "wake" /\ irqpc' # "wake")
  PROVE  \A q \in Queues : Asleep(q)' = Asleep(q)
  BY DEF Asleep, Sleepers

(* Steps of the walk, of the locks and of the handler outside its loop     *)
(* change nothing that Threads sees.                                       *)
LEMMA SilentSteps ==
  ASSUME SchedInv, NEW t \in Tasks, NEW q \in Queues,
         \/ Yield(t) \/ Walk(t) \/ YieldReturn(t) \/ PrepareLock(t) \/ PrepareUnlock(t)
         \/ FinishLock(t) \/ (\E c \in BOOLEAN : Condition(t, c))
         \/ IrqEnter(q) \/ IrqCallWake \/ IrqReturn
  PROVE  UNCHANGED T!vars
  <1>1. UNCHANGED <<live, running_task, state, waitq>>
    BY DEF Yield, Walk, YieldReturn, PrepareLock, PrepareUnlock, FinishLock, Condition,
           AcquireIrqsave, ReleaseIrqload, IrqEnter, IrqCallWake, IrqReturn,
           ringVars, threadVars
  <1>2. UNCHANGED <<irqpc, irqq>> \/ (irqpc # "wake" /\ irqpc' # "wake")
    BY DEF Yield, Walk, YieldReturn, PrepareLock, PrepareUnlock, FinishLock, Condition,
           AcquireIrqsave, ReleaseIrqload, IrqEnter, IrqCallWake, IrqReturn, cpuVars
  <1> QED
    BY <1>1, <1>2, AsleepFrame, ThreadsStutter

(* WaitEvent and FinishUnlock move threads that are awake in and out of a  *)
(* wait.                                                                   *)
LEMMA EnterAndLeave ==
  ASSUME SchedInv, NEW t \in Tasks,
         (\E q \in Queues : WaitEvent(t, q)) \/ FinishUnlock(t)
  PROVE  UNCHANGED T!vars
  <1>1. /\ UNCHANGED <<live, running_task, state, irqpc, irqq>>
        /\ pc[t] \in {"ready", "finish_unlock"}
        /\ \A u \in Tasks \ {t} : waitq'[u] = waitq[u]
    BY DEF WaitEvent, FinishUnlock, ReleaseIrqload, At, ringVars, cpuVars, SchedInv, SchedTypeOK
  <1>2. state[t] # INTERRUPTIBLE
    BY <1>1 DEF SchedInv, ThreadsInv
  <1>3. \A q \in Queues : Asleep(q)' = Asleep(q)
    BY <1>1, <1>2 DEF Asleep, Sleepers
  <1> QED
    BY <1>1, <1>3, ThreadsStutter

(* wait_prepare_to_wait puts the running thread to sleep.                  *)
LEMMA PrepareFallsAsleep ==
  ASSUME SchedInv, NEW t \in Tasks, Prepare(t)
  PROVE  \E q \in Queues : T!FallAsleep(q)
  <1>1. /\ t = running_task /\ irqpc = "none" /\ pc[t] = "prepare" /\ waitq[t] \in Queues
        /\ UNCHANGED <<live, running_task, waitq, irqpc, irqq>>
        /\ state' = [state EXCEPT ![t] = INTERRUPTIBLE]
    BY DEF Prepare, At, SchedInv, SchedTypeOK, ThreadsInv, ringVars, cpuVars
  <1>2. state[t] = RUNNING
    BY <1>1 DEF SchedInv, SchedTypeOK, ThreadsInv
  <1>3. \A q \in Queues : Asleep(q)' = IF q = waitq[t] THEN Asleep(q) \cup {t} ELSE Asleep(q)
    BY <1>1 DEF Asleep, Sleepers, SchedInv, SchedTypeOK, RUNNING, INTERRUPTIBLE
  <1>4. T!FallAsleep(waitq[t])
    BY <1>1, <1>2, <1>3, RunningIsAwake DEF T!FallAsleep
  <1> QED
    BY <1>1, <1>4

(* wait_finish takes it back, unless a wake-up was faster.                 *)
LEMMA FinishCancels ==
  ASSUME SchedInv, NEW t \in Tasks, Finish(t)
  PROVE  (\E q \in Queues : T!Cancel(q)) \/ UNCHANGED T!vars
  <1>1. /\ t = running_task /\ irqpc = "none" /\ pc[t] = "finish" /\ waitq[t] \in Queues
        /\ UNCHANGED <<live, running_task, waitq, irqpc, irqq>>
        /\ state' = [state EXCEPT ![t] = RUNNING]
    BY DEF Finish, At, SchedInv, SchedTypeOK, ThreadsInv, ringVars, cpuVars
  <1>2. CASE state[t] = RUNNING
    <2>1. state' = state
      BY <1>1, <1>2 DEF SchedInv, SchedTypeOK
    <2> QED
      BY <1>1, <2>1, AsleepFrame, ThreadsStutter
  <1>3. CASE state[t] = INTERRUPTIBLE
    <2>1. \A q \in Queues : Asleep(q)' = IF q = waitq[t] THEN Asleep(q) \ {t} ELSE Asleep(q)
      BY <1>1 DEF Asleep, Sleepers, SchedInv, SchedTypeOK, RUNNING, INTERRUPTIBLE
    <2>2. t \in Asleep(waitq[t])
      BY <1>1, <1>3 DEF Asleep, Sleepers
    <2>3. T!Cancel(waitq[t])
      BY <1>1, <2>1, <2>2 DEF T!Cancel
    <2> QED
      BY <1>1, <2>3
  <1> QED
    BY <1>2, <1>3 DEF SchedInv, SchedTypeOK

(* A wake-up happens when the handler takes the lock; its loop is silent,  *)
(* and when it ends with an empty list nobody is left asleep.              *)
LEMMA HandlerWakesAll ==
  ASSUME SchedInv, IrqLock \/ IrqWake \/ IrqUnlock
  PROVE  (\E q \in Queues : T!WakeAll(q)) \/ UNCHANGED T!vars
  <1>1. irqq \in Queues /\ irqq' = irqq /\ UNCHANGED <<live, running_task, waitq>>
    BY DEF SchedInv, LocksInv, IrqLock, IrqWake, IrqUnlock, ringVars, threadVars, cpuVars
  <1>2. CASE IrqLock
    <2>1. state' = state /\ irqpc = "lock" /\ irqpc' = "wake"
      BY <1>2 DEF IrqLock, threadVars
    <2>2. \A q \in Queues : Asleep(q)' = IF q = irqq THEN {} ELSE Asleep(q)
      BY <1>1, <2>1 DEF Asleep, Sleepers
    <2>3. T!WakeAll(irqq)
      BY <1>1, <2>2 DEF T!WakeAll
    <2> QED
      BY <1>1, <2>3
  <1>3. CASE IrqWake
    <2>1. head[irqq] \in Sleepers(irqq) /\ irqpc = "wake" /\ irqpc' = "wake"
          /\ state' = [state EXCEPT ![head[irqq]] = RUNNING]
      BY <1>1, <1>3 DEF IrqWake, SchedInv, QueuesHoldSleepers, QueueOK, cpuVars
    <2>2. \A q \in Queues : Asleep(q)' = Asleep(q)
      BY <1>1, <2>1 DEF Asleep, Sleepers, SchedInv, SchedTypeOK
    <2> QED
      BY <1>1, <2>2, ThreadsStutter
  <1>4. CASE IrqUnlock
    <2>1. head[irqq] = NULL /\ irqpc = "wake" /\ irqpc' = "handler" /\ state' = state
      BY <1>4 DEF IrqUnlock, threadVars
    <2>2. Sleepers(irqq) = {}
      BY <1>1, <2>1, EmptyQueue
    <2>3. \A q \in Queues : Asleep(q)' = Asleep(q)
      BY <1>1, <2>1, <2>2 DEF Asleep, Sleepers
    <2> QED
      BY <1>1, <2>3, ThreadsStutter
  <1> QED
    BY <1>2, <1>3, <1>4

(* task_switch, from scheduler_yield and from scheduler_exit, and thread   *)
(* creation are steps of Threads.                                          *)
LEMMA SwitchDispatches ==
  ASSUME SchedInv, NEW t \in Tasks,
         Switch(t) \/ Exit(t) \/ (\E n \in Tasks : CreateThread(t, n))
  PROVE  \E n \in Tasks : T!Dispatch(n) \/ T!Exit(n) \/ T!Create(n)
  <1>1. CASE Switch(t)
    <2>1. /\ t = running_task /\ running_task' = curr /\ curr \in live \ {t}
          /\ state[curr] = RUNNING /\ UNCHANGED <<live, state, waitq, irqpc, irqq>>
      BY <1>1 DEF Switch, At, SchedInv, WalkInv, ringVars
    <2>2. curr \in Tasks /\ T!Awake(curr)
      BY <2>1, RunningIsAwake DEF SchedInv, SchedTypeOK, RingTypeOK
    <2>3. T!Dispatch(curr)
      BY <2>1, <2>2, AsleepFrame DEF T!Dispatch
    <2> QED
      BY <2>2, <2>3
  <1>2. CASE Exit(t)
    <2>1. /\ t = running_task /\ t = Main /\ pc[t] = "ready"
          /\ UNCHANGED <<state, waitq, irqpc, irqq>>
      BY <1>2 DEF Exit, At
    <2>2. Idle \in live \ {t} /\ state[Idle] = RUNNING /\ next[t] = Idle /\ t \in live
      BY <2>1, IdleAwake, IdleAssumption DEF SchedInv, SchedTypeOK, BootInv
    <2>3. running_task' = Idle /\ live' = live \ {t}
      BY <1>2, <2>2 DEF Exit, tasks_remove
    <2>4. state[t] = RUNNING
      BY <2>1 DEF SchedInv, SchedTypeOK, ThreadsInv
    <2>5. T!Exit(Idle)
      BY <2>1, <2>2, <2>3, <2>4, RunningIsAwake, AsleepFrame, IdleAssumption DEF T!Exit
    <2> QED
      BY <2>5, IdleAssumption
  <1>3. ASSUME NEW n \in Tasks, CreateThread(t, n) PROVE T!Create(n)
    <2>1. n \notin live /\ state[n] = RUNNING
      BY <1>3 DEF CreateThread, SchedInv, SchedTypeOK, ThreadsInv
    <2>2. live' = live \cup {n} /\ UNCHANGED <<running_task, state, waitq, irqpc, irqq>>
      BY <1>3, <2>1 DEF CreateThread, tasks_insert, cpuVars, SchedInv, SchedTypeOK
    <2> QED
      BY <2>1, <2>2, AsleepFrame DEF T!Create
  <1> QED
    BY <1>1, <1>2, <1>3

(* Refinement: whatever lists, locks and interrupts do underneath, the     *)
(* rest of the kernel sees threads that sleep until an event wakes all of  *)
(* them, and a CPU that only awake threads get.                            *)
THEOREM Refinement == SchedSpec => ImplementsThreads
  <1>1. SchedInit => T!Init
    BY DEF SchedInit, RingInit, T!Init, Asleep, Sleepers, RUNNING, INTERRUPTIBLE
  <1>2. SchedInv /\ [SchedNext]_schedVars => [T!Next]_T!vars
    <2> SUFFICES ASSUME SchedInv, [SchedNext]_schedVars PROVE T!Next \/ UNCHANGED T!vars
      OBVIOUS
    <2>1. CASE ThreadStep
      BY <2>1, SilentSteps, EnterAndLeave, PrepareFallsAsleep, FinishCancels,
         SwitchDispatches, QueuesAssumption DEF ThreadStep, Internal, T!Next
    <2>2. CASE \E q \in Queues : IrqEnter(q)
      BY <2>2, SilentSteps, MainAssumption
    <2>3. CASE IrqStep
      BY <2>3, SilentSteps, HandlerWakesAll, MainAssumption, QueuesAssumption
      DEF IrqStep, T!Next
    <2>4. CASE UNCHANGED schedVars
      BY <2>4, AsleepFrame, ThreadsStutter
      DEF schedVars, ringVars, threadVars, cpuVars
    <2> QED
      BY <2>1, <2>2, <2>3, <2>4 DEF SchedNext
  <1> QED
    BY <1>1, <1>2, SchedInvariant, PTL DEF SchedSpec, ImplementsThreads, T!Spec

(* The CPU passes only to a live thread that is awake.                     *)
THEOREM SwitchesCorrect == SchedSpec => SwitchToAwake
  <1>1. SchedInv /\ SchedInv' /\ [SchedNext]_schedVars =>
          [running_task' # running_task =>
             running_task' \in live' /\ state[running_task'] = RUNNING]_schedVars
    <2> SUFFICES ASSUME SchedInv, SchedInv', [SchedNext]_schedVars, running_task' # running_task
                 PROVE  running_task' \in live' /\ state[running_task'] = RUNNING
      OBVIOUS
    <2>1. running_task' \in live'
      BY DEF SchedInv, SchedTypeOK
    <2>2. \E t \in Tasks : Switch(t) \/ Exit(t)
      BY DEF SchedNext, ThreadStep, Internal, IrqStep, schedVars, threadVars, CreateThread,
         Yield, Walk, YieldReturn, WaitEvent, PrepareLock, Prepare, PrepareUnlock, Condition,
         FinishLock, Finish, FinishUnlock, AcquireIrqsave, ReleaseIrqload, IrqEnter,
         IrqCallWake, IrqLock, IrqWake, IrqUnlock, IrqReturn
    <2>3. ASSUME NEW t \in Tasks, Exit(t) PROVE state[running_task'] = RUNNING
      BY <2>3, IdleAwake DEF Exit, At, SchedInv, SchedTypeOK, BootInv
    <2> QED
      BY <2>1, <2>2, <2>3 DEF Switch
  <1> QED
    BY <1>1, SchedInvariant, PTL DEF SchedSpec, SwitchToAwake
=============================================================================
