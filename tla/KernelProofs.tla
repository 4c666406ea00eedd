---------------------------- MODULE KernelProofs ----------------------------
(***************************************************************************)
(* The running kernel follows the rules of Scheduler: with sleeping and    *)
(* reading threads, the timer and the keyboard together, for any number of *)
(* threads, so everything proved in module SchedulerProofs holds of it.    *)
(***************************************************************************)
EXTENDS Kernel, SchedulerProofs

(* The instances speak of the scheduler's own state and steps.             *)
LEMMA SleepUsesScheduler ==
  ASSUME NEW t, NEW q, NEW c
  PROVE  /\ (UNCHANGED S!schedVars <=> UNCHANGED schedVars) /\ (S!SchedInit <=> SchedInit)
         /\ S!WaitEvent(t, q) <=> WaitEvent(t, q)
         /\ S!Condition(t, c) <=> Condition(t, c)
         /\ S!FinishUnlock(t) <=> FinishUnlock(t)
         /\ S!IrqEnter(q) <=> IrqEnter(q)
         /\ S!IrqCallWake <=> IrqCallWake
         /\ S!IrqLock <=> IrqLock
         /\ S!IrqWake <=> IrqWake
         /\ S!IrqUnlock <=> IrqUnlock
         /\ S!IrqReturn <=> IrqReturn
  <1> USE DEF S!At, S!Goto, S!ringVars, S!threadVars, S!waitVars, S!cpuVars, S!RUNNING,
              At, Goto, ringVars, threadVars, waitVars, cpuVars, RUNNING
  <1>1. UNCHANGED S!schedVars <=> UNCHANGED schedVars
    BY DEF S!schedVars, schedVars
  <1>2. S!SchedInit <=> SchedInit
    BY DEF S!SchedInit, SchedInit, S!RingInit, RingInit
  <1>3. S!WaitEvent(t, q) <=> WaitEvent(t, q)
    BY DEF S!WaitEvent, WaitEvent
  <1>4. S!Condition(t, c) <=> Condition(t, c)
    BY DEF S!Condition, Condition
  <1>5. S!FinishUnlock(t) <=> FinishUnlock(t)
    BY DEF S!FinishUnlock, FinishUnlock, S!ReleaseIrqload, ReleaseIrqload
  <1>6. (S!IrqEnter(q) <=> IrqEnter(q)) /\ (S!IrqCallWake <=> IrqCallWake)
    BY DEF S!IrqEnter, IrqEnter, S!IrqCallWake, IrqCallWake
  <1>7. (S!IrqLock <=> IrqLock) /\ (S!IrqWake <=> IrqWake)
    BY DEF S!IrqLock, IrqLock, S!IrqWake, IrqWake
  <1>8. (S!IrqUnlock <=> IrqUnlock) /\ (S!IrqReturn <=> IrqReturn)
    BY DEF S!IrqUnlock, IrqUnlock, S!IrqReturn, IrqReturn
  <1> QED
    BY <1>1, <1>2, <1>3, <1>4, <1>5, <1>6, <1>7, <1>8

LEMMA KeyboardUsesScheduler ==
  ASSUME NEW t, NEW n, NEW q, NEW c
  PROVE  /\ UNCHANGED K!schedVars <=> UNCHANGED schedVars
         /\ K!CreateThread(t, n) <=> CreateThread(t, n)
         /\ K!Exit(t) <=> Exit(t)
         /\ K!Yield(t) <=> Yield(t)
         /\ K!Walk(t) <=> Walk(t)
         /\ K!YieldReturn(t) <=> YieldReturn(t)
         /\ K!Switch(t) <=> Switch(t)
         /\ K!PrepareLock(t) <=> PrepareLock(t)
         /\ K!Prepare(t) <=> Prepare(t)
         /\ K!PrepareUnlock(t) <=> PrepareUnlock(t)
         /\ K!FinishLock(t) <=> FinishLock(t)
         /\ K!Finish(t) <=> Finish(t)
         /\ K!FinishUnlock(t) <=> FinishUnlock(t)
         /\ K!WaitEvent(t, q) <=> WaitEvent(t, q)
         /\ K!Condition(t, c) <=> Condition(t, c)
         /\ K!IrqEnter(q) <=> IrqEnter(q)
         /\ K!IrqCallWake <=> IrqCallWake
         /\ K!IrqLock <=> IrqLock
         /\ K!IrqWake <=> IrqWake
         /\ K!IrqUnlock <=> IrqUnlock
         /\ K!IrqReturn <=> IrqReturn
  <1> USE DEF K!At, K!Goto, K!Resume, K!ringVars, K!threadVars, K!waitVars, K!cpuVars,
              K!RUNNING, K!INTERRUPTIBLE,
              At, Goto, Resume, ringVars, threadVars, waitVars, cpuVars, RUNNING, INTERRUPTIBLE
  <1>1. UNCHANGED K!schedVars <=> UNCHANGED schedVars
    BY DEF K!schedVars, schedVars
  <1>2. K!CreateThread(t, n) <=> CreateThread(t, n)
    BY DEF K!CreateThread, CreateThread, K!tasks_insert, tasks_insert
  <1>3. K!Exit(t) <=> Exit(t)
    BY DEF K!Exit, Exit, K!tasks_remove, tasks_remove, K!Prev, Prev
  <1>4. (K!Yield(t) <=> Yield(t)) /\ (K!Walk(t) <=> Walk(t))
    BY DEF K!Yield, Yield, K!Walk, Walk
  <1>5. (K!YieldReturn(t) <=> YieldReturn(t)) /\ (K!Switch(t) <=> Switch(t))
    BY DEF K!YieldReturn, YieldReturn, K!Switch, Switch
  <1>6. (K!PrepareLock(t) <=> PrepareLock(t)) /\ (K!FinishLock(t) <=> FinishLock(t))
    BY DEF K!PrepareLock, PrepareLock, K!FinishLock, FinishLock, K!AcquireIrqsave, AcquireIrqsave
  <1>7. (K!PrepareUnlock(t) <=> PrepareUnlock(t)) /\ (K!FinishUnlock(t) <=> FinishUnlock(t))
    BY DEF K!PrepareUnlock, PrepareUnlock, K!FinishUnlock, FinishUnlock, K!ReleaseIrqload,
       ReleaseIrqload
  <1>8. (K!Prepare(t) <=> Prepare(t)) /\ (K!Finish(t) <=> Finish(t))
    BY DEF K!Prepare, Prepare, K!Finish, Finish
  <1>9. (K!WaitEvent(t, q) <=> WaitEvent(t, q)) /\ (K!Condition(t, c) <=> Condition(t, c))
    BY DEF K!WaitEvent, WaitEvent, K!Condition, Condition
  <1>10. (K!IrqEnter(q) <=> IrqEnter(q)) /\ (K!IrqCallWake <=> IrqCallWake)
    BY DEF K!IrqEnter, IrqEnter, K!IrqCallWake, IrqCallWake
  <1>11. (K!IrqLock <=> IrqLock) /\ (K!IrqWake <=> IrqWake)
    BY DEF K!IrqLock, IrqLock, K!IrqWake, IrqWake
  <1>12. (K!IrqUnlock <=> IrqUnlock) /\ (K!IrqReturn <=> IrqReturn)
    BY DEF K!IrqUnlock, IrqUnlock, K!IrqReturn, IrqReturn
  <1> QED
    BY <1>1, <1>2, <1>3, <1>4, <1>5, <1>6, <1>7, <1>8, <1>9, <1>10, <1>11, <1>12

-----------------------------------------------------------------------------
(* The steps of scheduler_sleep.                                           *)
LEMMA SleepSteps ==
  ASSUME NEW t \in Tasks, SleepStep(t)
  PROVE  [SchedNext]_schedVars
  <1>1. ASSUME NEW m \in Durations, S!SleepCall(t, m) PROVE UNCHANGED schedVars
    BY <1>1, SleepUsesScheduler DEF S!SleepCall
  <1>2. CASE S!SleepTest(t)
    <2>1. WaitEvent(t, TimerQueue) \/ UNCHANGED schedVars
      BY <1>2, SleepUsesScheduler DEF S!SleepTest
    <2> QED
      BY <2>1, KernelAssumption DEF SchedNext, ThreadStep
  <1>3. CASE S!SleepCondition(t)
    <2>1. Condition(t, S!Expired(t))
      BY <1>3, SleepUsesScheduler DEF S!SleepCondition
    <2>2. \E c \in BOOLEAN : Condition(t, c)
      BY <2>1 DEF Condition
    <2> QED
      BY <2>2 DEF SchedNext, ThreadStep
  <1>4. CASE S!SleepReturn(t)
    <2>1. FinishUnlock(t)
      BY <1>4, SleepUsesScheduler DEF S!SleepReturn
    <2> QED
      BY <2>1 DEF SchedNext, ThreadStep, Internal
  <1> QED
    BY <1>1, <1>2, <1>3, <1>4 DEF SleepStep

(* The steps of kb_getkey and kb_getch.                                    *)
LEMMA ReadSteps ==
  ASSUME NEW t \in Tasks, ReadStep(t)
  PROVE  [SchedNext]_schedVars
  <1>1. CASE K!GetKeyCall(t) \/ K!GetKeyReturn(t) \/ K!GetChReturn(t)
    BY <1>1, KeyboardUsesScheduler DEF K!GetKeyCall, K!GetKeyReturn, K!GetChReturn
  <1>2. CASE K!GetKeyTest(t)
    <2>1. WaitEvent(t, KeyQueue) \/ UNCHANGED schedVars
      BY <1>2, KeyboardUsesScheduler DEF K!GetKeyTest
    <2> QED
      BY <2>1, KernelAssumption DEF SchedNext, ThreadStep
  <1>3. CASE K!GetKeyCondition(t)
    <2>1. Condition(t, key_ring_index # tmp[t])
      BY <1>3, KeyboardUsesScheduler DEF K!GetKeyCondition
    <2>2. \E c \in BOOLEAN : Condition(t, c)
      BY <2>1
    <2> QED
      BY <2>2 DEF SchedNext, ThreadStep
  <1>4. CASE K!GetKeyFinish(t)
    <2>1. FinishUnlock(t)
      BY <1>4, KeyboardUsesScheduler DEF K!GetKeyFinish
    <2> QED
      BY <2>1 DEF SchedNext, ThreadStep, Internal
  <1> QED
    BY <1>1, <1>2, <1>3, <1>4 DEF ReadStep

(* The loop of kernel_idle, the creation and the end of threads, and the   *)
(* scheduler's own steps.                                                  *)
LEMMA OtherSteps ==
  ASSUME NEW t \in Tasks, OtherStep(t)
  PROVE  SchedNext
  <1>1. \/ \E n \in Tasks : CreateThread(t, n)
        \/ Exit(t) \/ Yield(t) \/ Internal(t)
    BY KeyboardUsesScheduler DEF OtherStep, K!OtherStep, Internal
  <1> QED
    BY <1>1 DEF SchedNext, ThreadStep

(* The interrupts and their handlers.                                      *)
LEMMA InterruptSteps ==
  ASSUME TimerIrq \/ KeyIrq \/ Handler \/ Typing
  PROVE  [SchedNext]_schedVars
  <1>1. CASE TimerIrq
    <2>1. IrqEnter(TimerQueue)
      BY <1>1, SleepUsesScheduler DEF TimerIrq, S!TimerIrq
    <2> QED
      BY <2>1, KernelAssumption DEF SchedNext
  <1>2. CASE KeyIrq
    <2>1. IrqEnter(KeyQueue)
      BY <1>2, KeyboardUsesScheduler DEF KeyIrq, K!KeyIrq
    <2> QED
      BY <2>1, KernelAssumption DEF SchedNext
  <1>3. CASE S!TimerStep
    BY <1>3, SleepUsesScheduler DEF S!TimerStep, S!timer_handler, S!TimerWake, S!TimerReturn,
       SchedNext, IrqStep
  <1>4. CASE K!HandlerStep
    BY <1>4, KeyboardUsesScheduler DEF K!HandlerStep, K!HandlerKey, K!HandlerWake, K!HandlerReturn,
       SchedNext, IrqStep
  <1>5. CASE Typing
    BY <1>5, KeyboardUsesScheduler DEF Typing, K!TypeSomething, K!Type
  <1> QED
    BY <1>1, <1>2, <1>3, <1>4, <1>5 DEF Handler

-----------------------------------------------------------------------------
(* The kernel implements Scheduler: two clients and two interrupts take no *)
(* step that the scheduler alone could not take.                           *)
THEOREM KernelSchedules == Spec => ImplementsScheduler
  <1>1. Init => SchedInit
    BY SleepUsesScheduler DEF Init, S!Init
  <1>2. [Next]_vars => [SchedNext]_schedVars
    <2> SUFFICES ASSUME [Next]_vars PROVE [SchedNext]_schedVars
      OBVIOUS
    <2>1. CASE Thread
      <3>1. PICK t \in Tasks \cup Readers : OtherStep(t) \/ SleepStep(t) \/ ReadStep(t)
        BY <2>1 DEF Thread
      <3> QED
        BY <3>1, SleepSteps, ReadSteps, OtherSteps, KernelAssumption
    <2>2. CASE UNCHANGED vars
      BY <2>2 DEF vars
    <2> QED
      BY <2>1, <2>2, InterruptSteps DEF Next
  <1> QED
    BY <1>1, <1>2, PTL DEF Spec, SchedSpec, ImplementsScheduler

(* So what is proved of the scheduler holds of the kernel: its invariant,  *)
(* in which are the ring, the queues and the locks, and the promise of     *)
(* Threads.                                                                *)
THEOREM KernelInvariant == Spec => []SchedInv /\ ImplementsThreads
  <1>1. Spec => SchedSpec
    BY KernelSchedules DEF ImplementsScheduler
  <1> QED
    BY <1>1, SchedInvariant, Refinement, PTL
=============================================================================
