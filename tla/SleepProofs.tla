----------------------------- MODULE SleepProofs ----------------------------
(***************************************************************************)
(* Proofs about scheduler_sleep and the timer, for any set of threads, any *)
(* tick rate and any width of the tick counters: the invariant of module   *)
(* SchedulerProofs holds of the threads that sleep, no sleep is too short, *)
(* and no thread sleeps through the tick that ends its sleep.              *)
(***************************************************************************)
EXTENDS Sleep, SchedulerProofs

SleepTypeOK ==
  /\ jiffies \in 0..JiffiesMod - 1
  /\ call \in [Tasks -> {"none", "test", "wait"}]
  /\ sleep_start \in [Tasks -> Nat]
  /\ ms \in [Tasks -> Nat]
  /\ elapsed \in [Tasks -> 0..ElapsedMax]
  /\ wrapped \in [Tasks -> BOOLEAN]

(* Where a thread is in scheduler_sleep, and where in the scheduler.       *)
CallInv ==
  \A t \in Tasks :
    /\ waitq[t] \in {NULL, TimerQueue}
    /\ waitq[t] # NULL <=> call[t] = "wait"
    /\ call[t] = "test" => pc[t] = "ready"

(* The timer is the only interrupt.                                        *)
TimerInv == irqpc # "none" => irqq = TimerQueue

(* Unless the counter wrapped around it is ahead of sleep_start by the     *)
(* ticks that passed, of which elapsed counts no more than ElapsedMax; and *)
(* no thread asks for more.                                                *)
ClockInv ==
  \A t \in Tasks :
    /\ ms[t] * HZ <= ElapsedMax * 1000
    /\ (call[t] # "none" /\ ~wrapped[t]) =>
         /\ sleep_start[t] <= jiffies
         /\ elapsed[t] \in {jiffies - sleep_start[t], ElapsedMax}

(* t has slept for as long as it asked, or cannot know.                    *)
SleptEnough(t) == elapsed[t] * 1000 >= ms[t] * HZ \/ wrapped[t]

Leaving == {"finish_lock", "finish", "finish_unlock"}

(* A thread that has left the loop of the wait keeps its reason.           *)
LeavingInv == \A t \in Tasks : pc[t] \in Leaving => SleptEnough(t)

(* A thread that has decided to go to sleep had reason to, or is about to  *)
(* be woken by the handler that changed this.                              *)
AsleepInv ==
  \A t \in Sleepers(TimerQueue) :
    pc[t] \in {"walk", "switched"} => ~Expired(t) \/ irqpc \in {"lock", "wake"}

SleepInv ==
  /\ SleepTypeOK /\ CallInv /\ TimerInv /\ ClockInv /\ LeavingInv /\ AsleepInv

-----------------------------------------------------------------------------
(* Every step of a sleeping thread or of the timer is one of Scheduler.    *)
LEMMA SleepSchedules ==
  ASSUME [Next]_vars
  PROVE  [SchedNext]_schedVars
  <1>1. ASSUME NEW t \in Tasks, SleepTest(t) PROVE [SchedNext]_schedVars
    BY <1>1, SleepAssumption DEF SleepTest, SchedNext, ThreadStep
  <1>2. ASSUME NEW t \in Tasks, SleepCondition(t) PROVE SchedNext
    <2>1. Condition(t, Expired(t))
      BY <1>2 DEF SleepCondition
    <2>2. \E c \in BOOLEAN : Condition(t, c)
      BY <2>1 DEF Condition
    <2> QED
      BY <2>2 DEF SchedNext, ThreadStep
  <1>3. ASSUME NEW t \in Tasks, NEW m \in Durations, SleepCall(t, m) PROVE UNCHANGED schedVars
    BY <1>3 DEF SleepCall
  <1>4. ASSUME NEW t \in Tasks, SleepReturn(t) \/ OtherStep(t) PROVE SchedNext
    BY <1>4 DEF SleepReturn, OtherStep, SchedNext, ThreadStep, Internal
  <1>5. CASE TimerIrq
    BY <1>5, SleepAssumption DEF TimerIrq, SchedNext
  <1>6. CASE TimerStep
    BY <1>6 DEF TimerStep, timer_handler, TimerWake, TimerReturn, SchedNext, IrqStep
  <1>7. CASE UNCHANGED vars
    BY <1>7 DEF vars
  <1> QED
    BY <1>1, <1>2, <1>3, <1>4, <1>5, <1>6, <1>7 DEF Next, SleepThread

(* So what is proved of the scheduler holds of it with sleeping threads.   *)
LEMMA SleepSched == Spec => []SchedInv
  <1>1. Init => SchedInit
    BY DEF Init
  <1>2. [Next]_vars => [SchedNext]_schedVars
    BY SleepSchedules
  <1>3. Spec => SchedSpec
    BY <1>1, <1>2, PTL DEF Spec, SchedSpec
  <1> QED
    BY <1>3, SchedInvariant, PTL

-----------------------------------------------------------------------------
(* A true condition means that the thread has slept for long enough: the   *)
(* difference, times 1000 and cut to 64 bits, is no more than the real one. *)
LEMMA ExpiredMeansEnough ==
  ASSUME SleepInv, NEW t \in Tasks, call[t] # "none", Expired(t)
  PROVE  SleptEnough(t)
  <1> SUFFICES ASSUME ~wrapped[t] PROVE elapsed[t] * 1000 >= ms[t] * HZ
    BY DEF SleptEnough
  <1>1. /\ HZ \in Nat \ {0} /\ JiffiesMod \in Nat \ {0} /\ U64Mod \in Nat \ {0}
        /\ JiffiesMod <= U64Mod /\ ElapsedMax \in Nat
    BY SleepAssumption
  <1>2. /\ jiffies \in Nat /\ jiffies < JiffiesMod /\ sleep_start[t] \in Nat
        /\ ms[t] \in Nat /\ elapsed[t] \in Nat
    BY <1>1 DEF SleepInv, SleepTypeOK
  <1>3. sleep_start[t] <= jiffies /\ elapsed[t] \in {jiffies - sleep_start[t], ElapsedMax}
        /\ ms[t] * HZ <= ElapsedMax * 1000
    BY DEF SleepInv, ClockInv
  <1>4. CASE elapsed[t] = ElapsedMax
    BY <1>3, <1>4
  <1>5. CASE elapsed[t] = jiffies - sleep_start[t]
    <2> DEFINE d == jiffies - sleep_start[t]
    <2>1. d \in Nat /\ d < U64Mod
      BY <1>1, <1>2, <1>3
    <2> HIDE DEF d
    <2>2. d % U64Mod = d
      BY <1>1, <2>1
    <2>3. ((d * 1000) % U64Mod) \div HZ >= ms[t]
      BY <2>2 DEF Expired, timer_range_to_ms, ticks_to_ms, d
    <2> DEFINE m == (d * 1000) % U64Mod
    <2>4. m \in Nat /\ m <= d * 1000
      BY <1>1, <2>1
    <2> HIDE DEF m
    <2>5. m \div HZ >= ms[t]
      BY <2>3 DEF m
    <2> DEFINE k == m \div HZ
    <2>6. k \in Nat /\ k * HZ <= m
      BY <1>1, <2>4
    <2> HIDE DEF k
    <2>7. k >= ms[t]
      BY <2>5 DEF k
    <2>8. ms[t] * HZ <= k * HZ
      BY <1>1, <1>2, <2>6, <2>7
    <2>9. ms[t] * HZ <= d * 1000
      BY <1>1, <1>2, <2>1, <2>4, <2>6, <2>8
    <2> QED
      BY <1>2, <1>1, <1>5, <2>9 DEF d
  <1> QED
    BY <1>3, <1>4, <1>5

(* The states the kernel boots into.                                       *)
LEMMA InitSleep == Init => SleepInv
  <1> SUFFICES ASSUME Init PROVE SleepInv
    OBVIOUS
  <1>1. {HZ, JiffiesMod, U64Mod, ElapsedMax} \subseteq Nat \ {0} /\ TimerQueue # NULL
    BY SleepAssumption, QueuesAssumption
  <1>2. SleepTypeOK
    BY <1>1 DEF Init, SleepTypeOK
  <1>3. CallInv /\ TimerInv
    BY <1>1 DEF Init, SchedInit, CallInv, TimerInv
  <1>4. ClockInv
    BY <1>1 DEF Init, ClockInv
  <1>5. LeavingInv /\ AsleepInv
    BY DEF Init, SchedInit, LeavingInv, Leaving, AsleepInv, Sleepers, RUNNING, INTERRUPTIBLE
  <1> QED
    BY <1>2, <1>3, <1>4, <1>5 DEF SleepInv

(* scheduler_sleep is called: the clock of the call starts.                *)
LEMMA StepSleepCall ==
  ASSUME SchedInv, SleepInv, NEW t \in Tasks, NEW m \in Durations, SleepCall(t, m)
  PROVE  SleepInv'
  <1>1. /\ pc[t] = "ready" /\ call[t] = "none"
        /\ call' = [call EXCEPT ![t] = "test"]
        /\ sleep_start' = [sleep_start EXCEPT ![t] = jiffies]
        /\ ms' = [ms EXCEPT ![t] = m]
        /\ elapsed' = [elapsed EXCEPT ![t] = 0]
        /\ wrapped' = [wrapped EXCEPT ![t] = FALSE]
        /\ UNCHANGED <<pc, waitq, state, irqpc, irqq, jiffies>>
    BY DEF SleepCall, At, schedVars, threadVars, cpuVars
  <1>2. /\ SleepTypeOK /\ JiffiesMod \in Nat \ {0} /\ ElapsedMax \in Nat \ {0}
        /\ m \in Nat /\ HZ \in Nat \ {0} /\ m * HZ <= ElapsedMax * 1000
    BY SleepAssumption DEF SleepInv
  <1>3. SleepTypeOK'
    BY <1>1, <1>2 DEF SleepTypeOK
  <1>4. CallInv' /\ TimerInv'
    BY <1>1, <1>2 DEF SleepInv, CallInv, TimerInv, SleepTypeOK
  <1>5. ClockInv'
    <2> SUFFICES ASSUME NEW u \in Tasks
                 PROVE  /\ ms'[u] * HZ <= ElapsedMax * 1000
                        /\ (call'[u] # "none" /\ ~wrapped'[u]) =>
                             /\ sleep_start'[u] <= jiffies'
                             /\ elapsed'[u] \in {jiffies' - sleep_start'[u], ElapsedMax}
      BY DEF ClockInv
    <2>1. CASE u = t
      BY <1>1, <1>2, <2>1 DEF SleepTypeOK
    <2>2. CASE u # t
      BY <1>1, <1>2, <2>2 DEF SleepInv, ClockInv, SleepTypeOK
    <2> QED
      BY <2>1, <2>2
  <1>6. LeavingInv'
    BY <1>1, <1>2 DEF SleepInv, LeavingInv, Leaving, SleptEnough, SleepTypeOK
  <1>7. AsleepInv'
    BY <1>1, <1>2 DEF SleepInv, AsleepInv, Sleepers, Expired, SleepTypeOK
  <1> QED
    BY <1>3, <1>4, <1>5, <1>6, <1>7 DEF SleepInv

(* A step of the scheduler that leaves scheduler_sleep and the timer alone, *)
(* enters or leaves no wait, and takes nobody out of the loop of a wait    *)
(* and no sleeper into scheduler_yield.                                    *)
LEMMA SleepFrame ==
  ASSUME SleepInv, UNCHANGED sleepVars, UNCHANGED <<waitq, irqq>>,
         UNCHANGED irqpc \/ (irqpc # "none" /\ irqpc' \in {"lock", "wake"}),
         \A u \in Tasks :
           /\ call[u] = "test" => pc'[u] = pc[u]
           /\ pc'[u] \in Leaving => pc[u] \in Leaving
           /\ (state'[u] = INTERRUPTIBLE /\ pc'[u] \in {"walk", "switched"}) =>
                (state[u] = INTERRUPTIBLE /\ pc[u] \in {"walk", "switched"})
  PROVE  SleepInv'
  <1>1. UNCHANGED <<jiffies, call, sleep_start, ms, elapsed, wrapped>>
    BY DEF sleepVars
  <1>2. SleepTypeOK' /\ ClockInv'
    BY <1>1 DEF SleepInv, SleepTypeOK, ClockInv
  <1>3. CallInv' /\ TimerInv'
    BY <1>1 DEF SleepInv, CallInv, TimerInv
  <1>4. LeavingInv'
    BY <1>1 DEF SleepInv, LeavingInv, SleptEnough
  <1>5. AsleepInv'
    BY <1>1 DEF SleepInv, AsleepInv, Sleepers, Expired
  <1> QED
    BY <1>2, <1>3, <1>4, <1>5 DEF SleepInv

(* The condition holds at once, or the thread enters the wait.             *)
LEMMA StepSleepTest ==
  ASSUME SchedInv, SleepInv, NEW t \in Tasks, SleepTest(t)
  PROVE  SleepInv'
  <1>1. /\ call[t] = "test" /\ SleepTypeOK /\ TimerQueue # NULL
        /\ UNCHANGED <<jiffies, tick, sleep_start, ms, elapsed, wrapped>>
        /\ waitq \in [Tasks -> Queues \cup {NULL}] /\ pc \in [Tasks -> ThreadPCs]
        /\ state \in [Tasks -> {RUNNING, INTERRUPTIBLE}]
    BY SleepAssumption, QueuesAssumption DEF SleepTest, SleepInv, SchedInv, SchedTypeOK
  <1>2. CASE Expired(t)
    <2>1. /\ call' = [call EXCEPT ![t] = "none"]
          /\ UNCHANGED <<pc, waitq, state, irqpc, irqq>>
      BY <1>2 DEF SleepTest, schedVars, threadVars, cpuVars
    <2>2. SleepTypeOK' /\ ClockInv'
      BY <1>1, <2>1 DEF SleepInv, SleepTypeOK, ClockInv
    <2>3. CallInv' /\ TimerInv'
      BY <1>1, <2>1 DEF SleepInv, SleepTypeOK, CallInv, TimerInv
    <2>4. LeavingInv' /\ AsleepInv'
      BY <1>1, <2>1 DEF SleepInv, LeavingInv, SleptEnough, AsleepInv, Sleepers, Expired
    <2> QED
      BY <2>2, <2>3, <2>4 DEF SleepInv
  <1>3. CASE ~Expired(t)
    <2>1. /\ call' = [call EXCEPT ![t] = "wait"] /\ pc[t] = "ready"
          /\ waitq' = [waitq EXCEPT ![t] = TimerQueue]
          /\ pc' = [pc EXCEPT ![t] = "prepare_lock"]
          /\ UNCHANGED <<state, irqpc, irqq>>
      BY <1>3 DEF SleepTest, WaitEvent, At, Goto, cpuVars
    <2>2. SleepTypeOK' /\ ClockInv'
      BY <1>1, <2>1 DEF SleepInv, SleepTypeOK, ClockInv
    <2>3. CallInv' /\ TimerInv'
      BY <1>1, <2>1 DEF SleepInv, SleepTypeOK, CallInv, TimerInv
    <2>4. LeavingInv'
      BY <1>1, <2>1 DEF SleepInv, LeavingInv, Leaving, SleptEnough
    <2>5. AsleepInv'
      BY <1>1, <2>1 DEF SleepInv, AsleepInv, Sleepers, Expired
    <2> QED
      BY <2>2, <2>3, <2>4, <2>5 DEF SleepInv
  <1> QED
    BY <1>2, <1>3

(* The test in the loop: the thread leaves with a reason, or yields without *)
(* one.                                                                    *)
LEMMA StepSleepCondition ==
  ASSUME SchedInv, SleepInv, NEW t \in Tasks, SleepCondition(t)
  PROVE  SleepInv'
  <1>1. /\ UNCHANGED <<jiffies, call, sleep_start, ms, elapsed, wrapped>>
        /\ UNCHANGED <<state, waitq, irqpc, irqq>>
        /\ pc' = [pc EXCEPT ![t] = IF Expired(t) THEN "finish_lock" ELSE "walk"]
        /\ pc[t] = "condition" /\ pc \in [Tasks -> ThreadPCs]
    BY DEF SleepCondition, Condition, At, Goto, sleepVars, cpuVars, SchedInv, SchedTypeOK
  <1>2. waitq[t] # NULL /\ call[t] = "wait"
    BY <1>1 DEF SchedInv, ThreadsInv, SleepInv, CallInv
  <1>3. SleepTypeOK' /\ ClockInv'
    BY <1>1 DEF SleepInv, SleepTypeOK, ClockInv
  <1>4. CallInv' /\ TimerInv'
    BY <1>1 DEF SleepInv, CallInv, TimerInv
  <1>5. LeavingInv'
    BY <1>1, <1>2, ExpiredMeansEnough DEF SleepInv, LeavingInv, Leaving, SleptEnough
  <1>6. AsleepInv'
    <2>1. \A u \in Tasks : Expired(u)' = Expired(u)
      BY <1>1 DEF Expired
    <2> QED
      BY <1>1, <2>1 DEF SleepInv, AsleepInv, Sleepers
  <1> QED
    BY <1>3, <1>4, <1>5, <1>6 DEF SleepInv

(* wait_finish is done, scheduler_sleep returns.                           *)
LEMMA StepSleepReturn ==
  ASSUME SchedInv, SleepInv, NEW t \in Tasks, SleepReturn(t)
  PROVE  SleepInv'
  <1>1. /\ UNCHANGED <<jiffies, sleep_start, ms, elapsed, wrapped>>
        /\ UNCHANGED <<state, irqpc, irqq>>
        /\ call' = [call EXCEPT ![t] = "none"]
        /\ waitq' = [waitq EXCEPT ![t] = NULL]
        /\ pc' = [pc EXCEPT ![t] = "ready"]
        /\ pc \in [Tasks -> ThreadPCs] /\ waitq \in [Tasks -> Queues \cup {NULL}]
        /\ SleepTypeOK
    BY DEF SleepReturn, FinishUnlock, ReleaseIrqload, At, Goto, SchedInv, SchedTypeOK, SleepInv
  <1>2. SleepTypeOK' /\ ClockInv'
    BY <1>1 DEF SleepInv, SleepTypeOK, ClockInv
  <1>3. CallInv' /\ TimerInv'
    BY <1>1 DEF SleepInv, SleepTypeOK, CallInv, TimerInv
  <1>4. LeavingInv'
    BY <1>1 DEF SleepInv, LeavingInv, Leaving, SleptEnough
  <1>5. AsleepInv'
    BY <1>1, QueuesAssumption, SleepAssumption DEF SleepInv, AsleepInv, Sleepers, Expired
  <1> QED
    BY <1>2, <1>3, <1>4, <1>5 DEF SleepInv

(* Everything else a thread does.                                          *)
LEMMA StepOther ==
  ASSUME SchedInv, SleepInv, NEW t \in Tasks, OtherStep(t)
  PROVE  SleepInv'
  <1>1. /\ UNCHANGED sleepVars /\ call[t] # "test" /\ pc \in [Tasks -> ThreadPCs]
        /\ state \in [Tasks -> {RUNNING, INTERRUPTIBLE}]
        /\ \A u \in Tasks : call[u] = "test" => pc[u] = "ready"
        /\ running_task \in Tasks
        /\ \A u \in Tasks : pc[u] \in {"ready", "walk"} => u = running_task
    BY DEF OtherStep, SchedInv, SchedTypeOK, RingTypeOK, SleepInv, CallInv, ThreadsInv, Parked
  <1>2. CASE \E n \in Tasks : CreateThread(t, n)
    <2>1. PICK n \in Tasks : CreateThread(t, n)
      BY <1>2
    <2>2. /\ UNCHANGED <<waitq, irqpc, irqq>> /\ t = running_task
          /\ state' = [state EXCEPT ![n] = RUNNING] /\ pc[n] = "absent"
          /\ pc' = [pc EXCEPT ![n] = "switched", ![t] = "ready"]
      BY <2>1 DEF CreateThread, At, cpuVars
    <2> QED
      BY <1>1, <2>2, SleepFrame DEF Leaving, RUNNING, INTERRUPTIBLE
  <1>3. CASE Exit(t)
    <2>1. /\ UNCHANGED <<waitq, state, irqpc, irqq>> /\ t = running_task
          /\ pc' = [pc EXCEPT ![t] = "exited", ![next[t]] = Resume(next[t])]
          /\ Resume(next[t]) \in {"ready", "prepare_lock"}
      BY <1>3 DEF Exit, At, Resume
    <2> QED
      BY <1>1, <2>1, SleepFrame DEF Leaving
  <1>4. CASE Yield(t)
    <2>1. /\ UNCHANGED <<waitq, state, irqpc, irqq>> /\ pc[t] = "ready"
          /\ pc' = [pc EXCEPT ![t] = "walk"]
      BY <1>4 DEF Yield, At, Goto, cpuVars
    <2>2. state[t] # INTERRUPTIBLE
      BY <2>1 DEF SchedInv, ThreadsInv
    <2> QED
      BY <1>1, <2>1, <2>2, SleepFrame DEF Leaving
  <1>5. CASE Walk(t) \/ YieldReturn(t)
    <2>1. /\ UNCHANGED <<waitq, state, irqpc, irqq>> /\ pc[t] = "walk"
          /\ pc' = pc \/ pc' = [pc EXCEPT ![t] = Resume(t)]
          /\ Resume(t) \in {"ready", "prepare_lock"}
      BY <1>5 DEF Walk, YieldReturn, At, Goto, Resume, cpuVars
    <2> QED
      BY <1>1, <2>1, SleepFrame DEF Leaving
  <1>6. CASE Switch(t)
    <2>1. /\ UNCHANGED <<waitq, state, irqpc, irqq>> /\ pc[t] = "walk" /\ t = running_task
          /\ pc' = [pc EXCEPT ![t] = "switched", ![curr] = Resume(curr)]
          /\ Resume(curr) \in {"ready", "prepare_lock"}
      BY <1>6 DEF Switch, At, Resume
    <2>2. curr \in Tasks /\ pc[curr] = "switched"
      BY <1>6, OthersSwitched DEF Switch, At, SchedInv, SchedTypeOK, WalkInv, RingTypeOK
    <2> QED
      BY <1>1, <2>1, <2>2, SleepFrame DEF Leaving
  <1>7. CASE PrepareLock(t) \/ Prepare(t) \/ PrepareUnlock(t)
    <2>1. /\ UNCHANGED <<waitq, irqpc, irqq>> /\ t = running_task /\ pc[t] # "ready"
          /\ state' \in {state, [state EXCEPT ![t] = INTERRUPTIBLE]}
          /\ \E l \in {"prepare", "prepare_unlock", "condition"} : pc' = [pc EXCEPT ![t] = l]
      BY <1>7 DEF PrepareLock, Prepare, PrepareUnlock, AcquireIrqsave, ReleaseIrqload,
         At, Goto, cpuVars
    <2> QED
      BY <1>1, <2>1, SleepFrame DEF Leaving
  <1>8. CASE FinishLock(t) \/ Finish(t)
    <2>1. /\ UNCHANGED <<waitq, irqpc, irqq>> /\ t = running_task /\ pc[t] \in Leaving
          /\ state' \in {state, [state EXCEPT ![t] = RUNNING]}
          /\ \E l \in Leaving : pc' = [pc EXCEPT ![t] = l]
      BY <1>8 DEF FinishLock, Finish, AcquireIrqsave, At, Goto, cpuVars, Leaving
    <2> QED
      BY <1>1, <2>1, SleepFrame DEF Leaving
  <1> QED
    BY <1>2, <1>3, <1>4, <1>5, <1>6, <1>7, <1>8 DEF OtherStep

-----------------------------------------------------------------------------
(* The timer interrupt arrives and returns, between two steps of a thread. *)
LEMMA StepTimerEnds ==
  ASSUME SchedInv, SleepInv, TimerIrq \/ TimerReturn
  PROVE  SleepInv'
  <1>1. /\ UNCHANGED <<jiffies, call, sleep_start, ms, elapsed, wrapped>>
        /\ UNCHANGED <<pc, state, waitq>>
        /\ irqpc' = "none" \/ irqq' = TimerQueue
        /\ irqpc \notin {"lock", "wake"}
    BY DEF TimerIrq, TimerReturn, IrqEnter, IrqReturn, threadVars
  <1>2. SleepTypeOK' /\ ClockInv'
    BY <1>1 DEF SleepInv, SleepTypeOK, ClockInv
  <1>3. CallInv' /\ TimerInv'
    BY <1>1 DEF SleepInv, CallInv, TimerInv
  <1>4. LeavingInv'
    BY <1>1 DEF SleepInv, LeavingInv, SleptEnough
  <1>5. AsleepInv'
    BY <1>1 DEF SleepInv, AsleepInv, Sleepers, Expired
  <1> QED
    BY <1>2, <1>3, <1>4, <1>5 DEF SleepInv

(* A tick: every clock advances, and whoever it makes late is about to be  *)
(* woken.                                                                  *)
LEMMA StepTick ==
  ASSUME SchedInv, SleepInv, timer_handler
  PROVE  SleepInv'
  <1>1. /\ UNCHANGED <<call, sleep_start, ms, pc, state, waitq, irqq>>
        /\ irqpc = "handler" /\ irqpc' = "lock"
        /\ jiffies' = (jiffies + 1) % JiffiesMod
    BY DEF timer_handler, IrqCallWake, threadVars
  <1>2. /\ SleepTypeOK /\ JiffiesMod \in Nat \ {0} /\ ElapsedMax \in Nat \ {0}
        /\ jiffies \in Nat /\ jiffies < JiffiesMod
    BY SleepAssumption DEF SleepInv, SleepTypeOK
  <1>3. jiffies' = IF jiffies + 1 = JiffiesMod THEN 0 ELSE jiffies + 1
    BY <1>1, <1>2
  <1>4. ASSUME NEW u \in Tasks
        PROVE  /\ elapsed'[u] = IF call[u] # "none" /\ elapsed[u] < ElapsedMax
                                THEN elapsed[u] + 1 ELSE elapsed[u]
               /\ wrapped'[u] = (wrapped[u] \/ (call[u] # "none" /\ jiffies + 1 = JiffiesMod))
               /\ elapsed[u] \in 0..ElapsedMax /\ wrapped[u] \in BOOLEAN
               /\ sleep_start[u] \in Nat /\ ms[u] \in Nat
    BY <1>2, <1>4 DEF timer_handler, SleepTypeOK
  <1>5. SleepTypeOK'
    <2>1. elapsed' \in [Tasks -> 0..ElapsedMax]
      BY <1>2 DEF timer_handler, SleepTypeOK
    <2>2. wrapped' \in [Tasks -> BOOLEAN]
      BY DEF timer_handler
    <2> QED
      BY <1>1, <1>2, <1>3, <2>1, <2>2 DEF SleepTypeOK
  <1>6. CallInv' /\ TimerInv'
    BY <1>1 DEF SleepInv, CallInv, TimerInv
  <1>7. ClockInv'
    <2> SUFFICES ASSUME NEW u \in Tasks, call[u] # "none", ~wrapped'[u]
                 PROVE  /\ sleep_start[u] <= jiffies'
                        /\ elapsed'[u] \in {jiffies' - sleep_start[u], ElapsedMax}
      BY <1>1 DEF SleepInv, ClockInv
    <2>1. ~wrapped[u] /\ jiffies' = jiffies + 1
      BY <1>3, <1>4
    <2>2. sleep_start[u] <= jiffies /\ elapsed[u] \in {jiffies - sleep_start[u], ElapsedMax}
      BY <2>1 DEF SleepInv, ClockInv
    <2> QED
      BY <1>2, <1>4, <2>1, <2>2
  <1>8. LeavingInv'
    <2> SUFFICES ASSUME NEW u \in Tasks, pc[u] \in Leaving
                 PROVE  SleptEnough(u)'
      BY <1>1 DEF LeavingInv
    <2>1. SleptEnough(u)
      BY DEF SleepInv, LeavingInv
    <2>2. HZ \in Nat
      BY SleepAssumption
    <2>3. elapsed'[u] \in Nat /\ elapsed[u] \in Nat /\ elapsed'[u] >= elapsed[u]
      BY <1>2, <1>4
    <2>4. wrapped[u] => wrapped'[u]
      BY <1>4
    <2> QED
      BY <1>1, <1>4, <2>1, <2>2, <2>3, <2>4 DEF SleptEnough
  <1>9. AsleepInv'
    BY <1>1 DEF AsleepInv
  <1> QED
    BY <1>5, <1>6, <1>7, <1>8, <1>9 DEF SleepInv

(* The handler wakes the queue, and leaves nobody on it.                   *)
LEMMA StepTimerWake ==
  ASSUME SchedInv, SleepInv, TimerWake
  PROVE  SleepInv'
  <1>1. CASE IrqLock
    <2>1. UNCHANGED sleepVars /\ UNCHANGED <<waitq, irqq, pc, state>>
          /\ irqpc # "none" /\ irqpc' = "wake"
      BY <1>1 DEF TimerWake, IrqLock, threadVars
    <2> QED
      BY <2>1, SleepFrame
  <1>2. CASE IrqWake
    <2>1. UNCHANGED sleepVars /\ UNCHANGED <<waitq, irqq, pc, irqpc>>
          /\ state' = [state EXCEPT ![head[irqq]] = RUNNING]
      BY <1>2 DEF TimerWake, IrqWake, cpuVars
    <2>2. state \in [Tasks -> {RUNNING, INTERRUPTIBLE}]
      BY DEF SchedInv, SchedTypeOK
    <2> QED
      BY <2>1, <2>2, SleepFrame DEF RUNNING, INTERRUPTIBLE
  <1>3. CASE IrqUnlock
    <2>1. /\ UNCHANGED sleepVars /\ UNCHANGED <<waitq, irqq, pc, state>>
          /\ irqq = TimerQueue /\ head[irqq] = NULL /\ irqpc' = "handler"
      BY <1>3 DEF TimerWake, IrqUnlock, threadVars, SleepInv, TimerInv
    <2>2. Sleepers(TimerQueue) = {}
      BY <2>1, EmptyQueue, SleepAssumption
    <2>3. Sleepers(TimerQueue)' = {}
      BY <2>1, <2>2 DEF Sleepers
    <2>4. SleepTypeOK' /\ ClockInv' /\ LeavingInv' /\ CallInv' /\ TimerInv'
      BY <2>1 DEF SleepInv, SleepTypeOK, ClockInv, LeavingInv, SleptEnough, CallInv, TimerInv,
         sleepVars
    <2> QED
      BY <2>3, <2>4 DEF SleepInv, AsleepInv
  <1> QED
    BY <1>1, <1>2, <1>3 DEF TimerWake

LEMMA SleepStep ==
  ASSUME SchedInv, SleepInv, [Next]_vars
  PROVE  SleepInv'
  <1>1. CASE UNCHANGED vars
    <2>1. UNCHANGED sleepVars /\ UNCHANGED <<waitq, irqq, irqpc, pc, state>>
      BY <1>1 DEF vars, schedVars, threadVars, cpuVars
    <2> QED
      BY <2>1, SleepFrame
  <1> QED
    BY <1>1, StepSleepCall, StepSleepTest, StepSleepCondition, StepSleepReturn, StepOther,
       StepTimerEnds, StepTick, StepTimerWake DEF Next, SleepThread, TimerStep

-----------------------------------------------------------------------------
(* The clocks of the sleeping threads and the queue of the timer agree, at *)
(* every point where an interrupt may arrive.                              *)
THEOREM SleepInvariant == Spec => [](SchedInv /\ SleepInv)
  <1>1. Init => SleepInv
    BY InitSleep
  <1>2. SchedInv /\ SleepInv /\ [Next]_vars => SleepInv'
    BY SleepStep
  <1> QED
    BY <1>1, <1>2, SleepSched, PTL DEF Spec

(* A thread that sleeps off the CPU has not slept long enough yet: the     *)
(* tick that ends the sleep always finds the thread on the queue.          *)
THEOREM NobodyOversleeps == Spec => []NoOversleeping
  <1>1. SchedInv /\ SleepInv => NoOversleeping
    BY DEF SleepInv, AsleepInv, NoOversleeping
  <1> QED
    BY <1>1, SleepInvariant, PTL

(* scheduler_sleep never returns too early, except when jiffies wrapped    *)
(* around since the call.                                                  *)
THEOREM SleepsLongEnough == Spec => NeverShort
  <1>1. SchedInv /\ SleepInv /\ [Next]_vars =>
          [\A t \in Tasks :
             (call[t] # "none" /\ call'[t] = "none") =>
               elapsed[t] * 1000 >= ms[t] * HZ \/ wrapped[t]]_vars
    <2> SUFFICES ASSUME SchedInv, SleepInv, Next, NEW t \in Tasks,
                        call[t] # "none", call'[t] = "none"
                 PROVE  SleptEnough(t)
      BY DEF SleptEnough, vars, sleepVars
    <2>1. \E u \in Tasks :
            /\ (SleepTest(u) /\ Expired(u)) \/ SleepReturn(u)
            /\ call' = [call EXCEPT ![u] = "none"]
      <3>1. call' # call
        OBVIOUS
      <3>2. PICK u \in Tasks : (\E m \in Durations : SleepCall(u, m)) \/ SleepTest(u) \/ SleepReturn(u)
        BY <3>1 DEF Next, SleepThread, TimerIrq, TimerStep, timer_handler, TimerWake, TimerReturn,
           SleepCondition, OtherStep, sleepVars
      <3>3. \E l \in {"test", "wait", "none"} : call' = [call EXCEPT ![u] = l]
                 /\ (l = "none" => (SleepTest(u) /\ Expired(u)) \/ SleepReturn(u))
        BY <3>2 DEF SleepCall, SleepTest, SleepReturn
      <3>4. call \in [Tasks -> {"none", "test", "wait"}]
        BY DEF SleepInv, SleepTypeOK
      <3> QED
        BY <3>3, <3>4
    <2>2. PICK u \in Tasks :
            /\ (SleepTest(u) /\ Expired(u)) \/ SleepReturn(u)
            /\ call' = [call EXCEPT ![u] = "none"]
      BY <2>1
    <2>3. u = t
      BY <2>2 DEF SleepInv, SleepTypeOK
    <2>4. CASE Expired(t)
      BY <2>4, ExpiredMeansEnough
    <2>5. CASE SleepReturn(t)
      <3>1. pc[t] = "finish_unlock"
        BY <2>5 DEF SleepReturn, FinishUnlock, ReleaseIrqload, At
      <3> QED
        BY <3>1 DEF SleepInv, LeavingInv, Leaving
    <2> QED
      BY <2>2, <2>3, <2>4, <2>5
  <1> QED
    BY <1>1, SleepInvariant, PTL DEF Spec, NeverShort
=============================================================================
