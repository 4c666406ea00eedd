------------------------------- MODULE Kernel -------------------------------
(***************************************************************************)
(* The running kernel: the boot thread, which sleeps, the idle thread and  *)
(* the shell, which reads keys, with the timer and the keyboard            *)
(* interrupting them.  Sleep and Keyboard each take the scheduler and one  *)
(* interrupt for themselves; here they share the threads, both queues and  *)
(* the CPU.                                                                *)
(***************************************************************************)
EXTENDS Scheduler

CONSTANTS
  TimerQueue, HZ, JiffiesMod, U64Mod, Wraps, Durations, ElapsedMax,
  KeyQueue, KEY_RING_SIZE, Readers, Keys, plain_map, shift_map, altgr_map, MaxEvents, MaxPending

ASSUME KernelAssumption ==
  /\ {TimerQueue, KeyQueue} \subseteq Queues /\ TimerQueue # KeyQueue
  /\ Readers \subseteq Tasks

VARIABLES
  jiffies, tick, sleep_start, ms, elapsed, wrapped,
  key_ring_index, key_ring, key_modifiers, controller, pending, tmp, cmp, key, char,
  typed, held, stamp, since,
  sleep_call, key_call    \* call of Sleep and of Keyboard

S == INSTANCE Sleep WITH call <- sleep_call
K == INSTANCE Keyboard WITH call <- key_call

sleepVars == <<jiffies, tick, sleep_call, sleep_start, ms, elapsed, wrapped>>
keyVars ==
  <<key_ring_index, key_ring, key_modifiers, stamp, key_call, tmp, cmp, key, char, since,
    controller, pending, typed, held>>
vars == <<schedVars, sleepVars, keyVars>>

Init == S!Init /\ K!Init

-----------------------------------------------------------------------------
(* The steps of the calls.                                                 *)
SleepStep(t) ==
  /\ \/ \E m \in Durations : S!SleepCall(t, m)
     \/ S!SleepTest(t)
     \/ waitq[t] = TimerQueue /\ (S!SleepCondition(t) \/ S!SleepReturn(t))
  /\ UNCHANGED keyVars

ReadStep(t) ==
  /\ \/ K!GetKeyCall(t) \/ K!GetKeyTest(t)
     \/ waitq[t] = KeyQueue /\ (K!GetKeyCondition(t) \/ K!GetKeyFinish(t))
     \/ K!GetKeyReturn(t) \/ K!GetChReturn(t)
  /\ UNCHANGED sleepVars

(* The scheduler's own, the loop of kernel_idle, and the end of            *)
(* kernel_main, once it does not sleep.                                    *)
OtherStep(t) ==
  /\ K!OtherStep(t)
  /\ sleep_call[t] # "test"
  /\ UNCHANGED sleepVars

Thread ==
  \/ \E t \in Tasks : OtherStep(t)
  \/ \E t \in Tasks \ Readers : SleepStep(t)
  \/ \E t \in Readers : ReadStep(t)

-----------------------------------------------------------------------------
(* IRQ 0 and IRQ 1; the handler of one is not interrupted by the other.    *)
TimerIrq == S!TimerIrq /\ UNCHANGED keyVars
KeyIrq   == K!KeyIrq /\ UNCHANGED sleepVars

Handler ==
  \/ irqq = TimerQueue /\ S!TimerStep /\ UNCHANGED keyVars
  \/ irqq = KeyQueue /\ K!HandlerStep /\ UNCHANGED sleepVars

Typing == K!TypeSomething /\ UNCHANGED sleepVars

Next == Thread \/ TimerIrq \/ KeyIrq \/ Handler \/ Typing

(* The CPU executes instructions and a handler that was entered goes on.   *)
(* The thread needs strong fairness: interrupts disable its steps again    *)
(* and again, but at HZ per second they leave it time.  So do the          *)
(* interrupts, which critical sections keep away, and the tick the         *)
(* keyboard's too.  Nobody has to type.                                    *)
Fairness == SF_vars(Thread) /\ SF_vars(TimerIrq) /\ SF_vars(KeyIrq) /\ WF_vars(Handler)

Spec == Init /\ [][Next]_vars /\ Fairness

-----------------------------------------------------------------------------
(* The threads follow the rules of Scheduler on both queues, with the time *)
(* and the ring as the conditions, and with two interrupts: what is proved *)
(* of every behaviour of SchedSpec holds here.                             *)
ImplementsScheduler == SchedSpec

(* Every sleep that ends before jiffies wraps around returns, whatever is  *)
(* typed and whatever the other threads do in between.  (Threads that ask  *)
(* for 0 ms in a loop would keep the CPU: scheduling is cooperative.)      *)
SleepReturns ==
  \A t \in Tasks :
    (sleep_call[t] = "wait" /\ S!timer_range_to_ms(sleep_start[t], JiffiesMod - 1) >= ms[t])
      ~> (sleep_call[t] = "none")

(* A thread waiting for a key gets one once the ring has moved on, while   *)
(* another thread sleeps and the timer ticks, as long as fewer than        *)
(* KEY_RING_SIZE keys arrive meanwhile.                                    *)
KeyDelivered ==
  \A t \in Readers :
    (key_call[t] = "wait" /\ key_ring_index # tmp[t]) ~> (key_call[t] = "got")
=============================================================================
