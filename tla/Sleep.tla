------------------------------- MODULE Sleep --------------------------------
(***************************************************************************)
(* scheduler_sleep and the timer interrupt: the timer_queue of             *)
(* scheduler.c, jiffies and the tick arithmetic of irq/timer.c, on top of  *)
(* Scheduler.  Threads other than the idle thread sleep, yield, and (the   *)
(* boot thread) create threads and exit.                                   *)
(***************************************************************************)
EXTENDS Scheduler

CONSTANTS
  TimerQueue,    \* timer_queue
  HZ,            \* timer interrupts per second
  JiffiesMod,    \* 2^32: jiffies is an unsigned long
  U64Mod,        \* 2^64: the tick arithmetic is done in uint64_t
  Wraps,         \* bound: FALSE stops the timer before jiffies wraps around
  Durations,     \* the milliseconds threads ask for
  ElapsedMax     \* bound on the history variable elapsed

ASSUME SleepAssumption ==
  /\ TimerQueue \in Queues
  /\ {HZ, JiffiesMod, U64Mod, ElapsedMax} \subseteq Nat \ {0}
  /\ JiffiesMod <= U64Mod
  /\ Wraps \in BOOLEAN
  /\ Durations \subseteq Nat
  /\ \A ms \in Durations : ms * HZ <= ElapsedMax * 1000

VARIABLES
  jiffies,       \* ticks since timer_init, modulo JiffiesMod
  tick,          \* where the timer handler is: "none", "enter", "woken"
  call,          \* scheduler_sleep of each thread: "none", "test", "wait"
  sleep_start,   \* its local of that name
  ms,            \* its argument
  elapsed,       \* history: true number of ticks since the call, capped
  wrapped        \* history: jiffies wrapped around since the call

sleepVars == <<jiffies, tick, call, sleep_start, ms, elapsed, wrapped>>
vars == <<schedVars, sleepVars>>

Init ==
  /\ SchedInit
  /\ jiffies = 0
  /\ tick = "none"
  /\ call = [t \in Tasks |-> "none"]
  /\ sleep_start = [t \in Tasks |-> 0]
  /\ ms = [t \in Tasks |-> 0]
  /\ elapsed = [t \in Tasks |-> 0]
  /\ wrapped = [t \in Tasks |-> FALSE]

-----------------------------------------------------------------------------
ticks_to_ms(ticks) == ((ticks * 1000) % U64Mod) \div HZ

timer_range_to_ms(from, to) == ticks_to_ms((to - from) % U64Mod)

(* A bug in the condition of scheduler_sleep: one millisecond too few.     *)
OneMsEarly(t) == timer_range_to_ms(sleep_start[t], jiffies) + 1 >= ms[t]

(* The condition of scheduler_sleep.                                       *)
Expired(t) == timer_range_to_ms(sleep_start[t], jiffies) >= ms[t]

(* scheduler_sleep reads jiffies ...                                       *)
SleepCall(t, m) ==
  /\ At(t, "ready") /\ t # Idle
  /\ call[t] = "none"
  /\ call' = [call EXCEPT ![t] = "test"]
  /\ sleep_start' = [sleep_start EXCEPT ![t] = jiffies]
  /\ ms' = [ms EXCEPT ![t] = m]
  /\ elapsed' = [elapsed EXCEPT ![t] = 0]
  /\ wrapped' = [wrapped EXCEPT ![t] = FALSE]
  /\ UNCHANGED <<schedVars, jiffies, tick>>

(* ... and WAIT_EVENT_INTERRUPTIBLE tests the condition before it waits.   *)
SleepTest(t) ==
  /\ call[t] = "test"
  /\ IF Expired(t)
     THEN At(t, "ready") /\ call' = [call EXCEPT ![t] = "none"] /\ UNCHANGED schedVars
     ELSE WaitEvent(t, TimerQueue) /\ call' = [call EXCEPT ![t] = "wait"]
  /\ UNCHANGED <<jiffies, tick, sleep_start, ms, elapsed, wrapped>>

(* A bug in WAIT_EVENT_INTERRUPTIBLE: the test before the wait is the only *)
(* one, the thread yields without looking again.                           *)
SleepNoRetest(t) == Condition(t, state[t] = RUNNING) /\ UNCHANGED sleepVars

SleepCondition(t) == Condition(t, Expired(t)) /\ UNCHANGED sleepVars

(* A bug in wait_finish: the queue stays locked.                           *)
ReturnLocked(t) ==
  /\ At(t, "finish_unlock")
  /\ waitq' = [waitq EXCEPT ![t] = NULL]
  /\ Goto(t, "ready")
  /\ intr' = flags
  /\ call' = [call EXCEPT ![t] = "none"]
  /\ UNCHANGED <<ringVars, running_task, state, eflags, curr, waitVars, flags, irqpc, irqq,
                 jiffies, tick, sleep_start, ms, elapsed, wrapped>>

SleepReturn(t) ==
  /\ FinishUnlock(t)
  /\ call' = [call EXCEPT ![t] = "none"]
  /\ UNCHANGED <<jiffies, tick, sleep_start, ms, elapsed, wrapped>>

(* What a thread does besides sleeping.                                    *)
OtherStep(t) ==
  /\ \/ \E n \in Tasks : CreateThread(t, n)
     \/ Exit(t) \/ Yield(t)
     \/ Walk(t) \/ YieldReturn(t) \/ Switch(t)
     \/ PrepareLock(t) \/ Prepare(t) \/ PrepareUnlock(t)
     \/ FinishLock(t) \/ Finish(t)
  /\ call[t] # "test"
  /\ UNCHANGED sleepVars

SleepThread ==
  \E t \in Tasks :
    \/ \E m \in Durations : SleepCall(t, m)
    \/ SleepTest(t) \/ SleepCondition(t) \/ SleepReturn(t) \/ OtherStep(t)

-----------------------------------------------------------------------------
(* IRQ 0: timer_handler counts the tick, scheduler_timer wakes the queue,  *)
(* irqfunc acknowledges the interrupt and returns.                         *)
TimerIrq ==
  /\ Wraps \/ jiffies + 1 < JiffiesMod
  /\ IrqEnter(TimerQueue)
  /\ tick' = "enter"
  /\ UNCHANGED <<jiffies, call, sleep_start, ms, elapsed, wrapped>>

(* A bug in timer_handler: the queue is woken, the tick is not counted.    *)
TickLost ==
  /\ tick = "enter" /\ IrqCallWake
  /\ tick' = "woken"
  /\ UNCHANGED <<jiffies, call, sleep_start, ms, elapsed, wrapped>>

timer_handler ==
  /\ tick = "enter" /\ IrqCallWake
  /\ tick' = "woken"
  /\ jiffies' = (jiffies + 1) % JiffiesMod
  /\ elapsed' = [t \in Tasks |->
       IF call[t] # "none" /\ elapsed[t] < ElapsedMax THEN elapsed[t] + 1 ELSE elapsed[t]]
  /\ wrapped' = [t \in Tasks |->
       wrapped[t] \/ (call[t] # "none" /\ jiffies + 1 = JiffiesMod)]
  /\ UNCHANGED <<call, sleep_start, ms>>

TimerReturn ==
  /\ tick = "woken" /\ IrqReturn
  /\ tick' = "none"
  /\ UNCHANGED <<jiffies, call, sleep_start, ms, elapsed, wrapped>>

TimerWake == (IrqLock \/ IrqWake \/ IrqUnlock) /\ UNCHANGED sleepVars

TimerStep == timer_handler \/ TimerWake \/ TimerReturn

Next == SleepThread \/ TimerIrq \/ TimerStep

Spec == Init /\ [][Next]_vars

-----------------------------------------------------------------------------
(* An action property: scheduler_sleep(ms) does not return before ms       *)
(* milliseconds worth of ticks, unless jiffies wrapped around in between:  *)
(* the 64-bit difference of 32-bit tick counts is then huge.               *)
NeverShort ==
  [][\A t \in Tasks :
       (call[t] # "none" /\ call'[t] = "none") =>
         elapsed[t] * 1000 >= ms[t] * HZ \/ wrapped[t]]_vars

(* A thread that is off the CPU and asleep has not slept long enough yet:  *)
(* the tick that ends a sleep always finds the sleeper on the queue, even  *)
(* when it arrives between the test of the condition and task_switch.      *)
NoOversleeping ==
  \A t \in Tasks :
    (irqpc = "none" /\ pc[t] = "switched" /\ t \in Sleepers(TimerQueue)) => ~Expired(t)

=============================================================================
