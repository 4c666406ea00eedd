--------------------------- MODULE KeyboardProofs ---------------------------
(***************************************************************************)
(* Proofs about the keyboard input, for any number of readers, any size of *)
(* the key ring and any keys: a reader gets a key that was typed after it  *)
(* asked, never sleeps on one, and no modifier sticks.                     *)
(***************************************************************************)
EXTENDS Keyboard, Scancodes, SchedulerProofs, SequenceTheorems

Events == [key : Keys, released : BOOLEAN]

KeyTypeOK ==
  /\ key_ring_index \in Slots
  /\ stamp \in [Slots -> Nat]
  /\ controller \in Seq(Events)
  /\ call \in [Readers -> {"none", "test", "wait", "got", "map"}]
  /\ tmp \in [Readers -> Slots]
  /\ cmp \in [Readers -> Slots]
  /\ since \in [Readers -> Nat]

(* A reader is inside WAIT_EVENT while kb_getkey waits, on its own queue;  *)
(* the keyboard is the only interrupt.                                     *)
WaitingInv ==
  /\ \A t \in Readers :
       /\ waitq[t] \in {NULL, KeyQueue}
       /\ waitq[t] # NULL <=> call[t] = "wait"
  /\ irqpc # "none" => irqq = KeyQueue

(* The slot at the index holds the latest key, and the index is the number *)
(* of keys emitted, modulo the size of the ring.                           *)
LatestInv ==
  /\ \A i \in Slots : stamp[i] <= stamp[key_ring_index]
  /\ key_ring_index = stamp[key_ring_index] % KEY_RING_SIZE

(* While kb_getkey looks for a key the latest one is no older than the     *)
(* call, and the index it remembers is the one of the key before the call. *)
SinceInv ==
  \A t \in Readers :
    call[t] \in {"test", "wait"} =>
      since[t] <= stamp[key_ring_index] /\ tmp[t] = since[t] % KEY_RING_SIZE

Leaving == {"finish_lock", "finish", "finish_unlock"}

(* What kb_getkey is going to return is new, once the wait is over.        *)
GotInv ==
  \A t \in Readers :
    (pc[t] \in Leaving \/ call[t] = "got") => stamp[cmp[t]] > since[t]

(* A reader that has decided to go to sleep has seen the latest key, or is *)
(* about to be woken.                                                      *)
ReaderInv ==
  \A t \in Readers \cap Sleepers(KeyQueue) :
    pc[t] \in {"walk", "switched"} =>
      key_ring_index = tmp[t] \/ irqpc \in {"lock", "wake"}

ReadInv == KeyTypeOK /\ WaitingInv /\ LatestInv /\ SinceInv /\ GotInv /\ ReaderInv

-----------------------------------------------------------------------------
(* The controller holds no event of the keys K from the i-th on.           *)
QuietFrom(i, K) == \A j \in i..Len(controller) : controller[j].key \notin K

(* Modifier m follows the keys K: when none of their events is still to be *)
(* read, m is on only while one of them is down; and if the last of those  *)
(* events is a press, its key is down.                                     *)
Follows(m, K) ==
  /\ (QuietFrom(1, K) /\ m \in key_modifiers) => held \cap K # {}
  /\ \A i \in 1..Len(controller) :
       (controller[i].key \in K /\ ~controller[i].released /\ QuietFrom(i + 1, K))
         => controller[i].key \in held

ModifierInv ==
  /\ Follows("SHIFT", {42, 54}) /\ Follows("CTRL", {29, 97})
  /\ Follows("ALT", {56}) /\ Follows("ALT_GR", {100})

-----------------------------------------------------------------------------
(* Every step of a reader or of the keyboard is one of Scheduler.          *)
LEMMA KeyboardSchedules ==
  ASSUME [Next]_vars
  PROVE  [SchedNext]_schedVars
  <1>1. ASSUME NEW t \in Readers,
               GetKeyCall(t) \/ GetKeyReturn(t) \/ GetChReturn(t)
        PROVE  UNCHANGED schedVars
    BY <1>1 DEF GetKeyCall, GetKeyReturn, GetChReturn
  <1>2. ASSUME NEW t \in Readers, GetKeyTest(t) PROVE [SchedNext]_schedVars
    BY <1>2, KeyboardAssumption DEF GetKeyTest, SchedNext, ThreadStep
  <1>3. ASSUME NEW t \in Readers, GetKeyCondition(t) PROVE SchedNext
    <2>1. Condition(t, key_ring_index # tmp[t]) /\ t \in Tasks
      BY <1>3, KeyboardAssumption DEF GetKeyCondition
    <2>2. \E c \in BOOLEAN : Condition(t, c)
      BY <2>1
    <2> QED
      BY <2>1, <2>2 DEF SchedNext, ThreadStep
  <1>4. ASSUME NEW t \in Readers, GetKeyFinish(t) PROVE SchedNext
    BY <1>4, KeyboardAssumption DEF GetKeyFinish, SchedNext, ThreadStep, Internal
  <1>5. ASSUME NEW t \in Tasks, OtherStep(t) PROVE SchedNext
    BY <1>5 DEF OtherStep, SchedNext, ThreadStep, Internal
  <1>6. CASE TypeSomething
    BY <1>6 DEF TypeSomething, Type
  <1>7. CASE KeyIrq
    BY <1>7, KeyboardAssumption DEF KeyIrq, SchedNext
  <1>8. CASE HandlerStep
    BY <1>8 DEF HandlerStep, HandlerKey, HandlerWake, HandlerReturn, SchedNext, IrqStep
  <1>9. CASE UNCHANGED vars
    BY <1>9 DEF vars
  <1> QED
    BY <1>1, <1>2, <1>3, <1>4, <1>5, <1>6, <1>7, <1>8, <1>9 DEF Next, KeyThread

(* So what is proved of the scheduler holds of it with readers.            *)
LEMMA KeyboardSched == Spec => []SchedInv
  <1>1. Init => SchedInit
    BY DEF Init
  <1>2. [Next]_vars => [SchedNext]_schedVars
    BY KeyboardSchedules
  <1>3. Spec => SchedSpec
    BY <1>1, <1>2, PTL DEF Spec, SchedSpec
  <1> QED
    BY <1>3, SchedInvariant, PTL

(* The index of the next slot.                                             *)
LEMMA NextSlot ==
  ASSUME NEW i \in Slots
  PROVE  (i + 1) % KEY_RING_SIZE \in Slots /\ (i + 1) % KEY_RING_SIZE # i
  <1>1. KEY_RING_SIZE \in Nat /\ KEY_RING_SIZE > 1 /\ i \in Nat /\ i < KEY_RING_SIZE
    BY KeyboardAssumption DEF Slots
  <1>2. (i + 1) % KEY_RING_SIZE = IF i + 1 = KEY_RING_SIZE THEN 0 ELSE i + 1
    BY <1>1
  <1> QED
    BY <1>1, <1>2 DEF Slots

(* The quotient and the remainder of a number.                             *)
LEMMA RemainderOf ==
  ASSUME NEW n \in Nat, NEW k \in Nat \ {0}
  PROVE  \E q \in Nat : \E r \in 0..k - 1 : n % k = r /\ n = k * q + r
  <1>1. n \div k \in Nat /\ n % k \in 0..k - 1 /\ n % k = n - k * (n \div k)
    OBVIOUS
  <1>2. \A q \in Nat : \A r \in 0..k - 1 : r = n - k * q => n = k * q + r
    OBVIOUS
  <1> QED
    BY <1>1, <1>2

LEMMA RemainderIs ==
  ASSUME NEW k \in Nat \ {0}, NEW q \in Nat, NEW r \in 0..k - 1
  PROVE  (k * q + r) % k = r
  OBVIOUS

(* The index moves on with the number of keys emitted.                     *)
LEMMA NextRemainder ==
  ASSUME NEW n \in Nat, NEW k \in Nat \ {0}
  PROVE  (n + 1) % k = ((n % k) + 1) % k
  <1>1. PICK q \in Nat, r \in 0..k - 1 : n % k = r /\ n = k * q + r
    BY RemainderOf
  <1>2. CASE r + 1 < k
    <2>1. r + 1 \in 0..k - 1 /\ (r + 1) % k = r + 1
      BY <1>1, <1>2
    <2>2. (k * q + (r + 1)) % k = r + 1
      BY <1>1, <2>1, RemainderIs
    <2>3. k * q \in Nat
      BY <1>1
    <2>4. n + 1 = k * q + (r + 1)
      BY <1>1, <2>3
    <2> QED
      BY <1>1, <2>1, <2>2, <2>4, Zenon
  <1>3. CASE r + 1 = k
    <2>1. k * (q + 1) = k * q + k /\ q + 1 \in Nat
      BY <1>1
    <2>2. (k * (q + 1) + 0) % k = 0 /\ k % k = 0
      BY <1>1, <2>1, RemainderIs
    <2>3. n + 1 = k * (q + 1) + 0
      BY <1>1, <1>3, <2>1
    <2> QED
      BY <1>1, <1>3, <2>2, <2>3
  <1> QED
    BY <1>1, <1>2, <1>3

(* Two numbers with the same remainder are equal or at least the divisor   *)
(* apart.                                                                  *)
LEMMA SameRemainder ==
  ASSUME NEW k \in Nat \ {0}, NEW a \in Nat, NEW b \in Nat,
         a <= b, b < a + k, a % k = b % k
  PROVE  a = b
  <1>1. PICK q \in Nat, r \in 0..k - 1 : a % k = r /\ a = k * q + r
    BY RemainderOf
  <1>2. PICK p \in Nat, s \in 0..k - 1 : b % k = s /\ b = k * p + s
    BY RemainderOf
  <1>3. r = s /\ k * q \in Nat /\ k * p \in Nat /\ k * p - k * q = k * (p - q)
    BY <1>1, <1>2
  <1>4. k * (p - q) >= 0 /\ k * (p - q) < k
    BY <1>1, <1>2, <1>3
  <1>5. p - q = 0
    BY <1>4
  <1> QED
    BY <1>1, <1>2, <1>3, <1>5

(* kb_early_init has run.                                                  *)
LEMMA InitRead == Init => ReadInv
  <1> SUFFICES ASSUME Init PROVE ReadInv
    OBVIOUS
  <1>1. Readers \subseteq Tasks /\ 0 \in Slots
    BY KeyboardAssumption DEF Slots
  <1>2. KeyTypeOK
    BY <1>1, EmptySeq DEF Init, KeyTypeOK
  <1>3. WaitingInv
    BY <1>1 DEF Init, SchedInit, WaitingInv
  <1>4. LatestInv /\ SinceInv
    <2>1. 0 % KEY_RING_SIZE = 0
      BY KeyboardAssumption
    <2> QED
      BY <1>1, <2>1 DEF Init, LatestInv, SinceInv
  <1>5. GotInv /\ ReaderInv
    BY <1>1 DEF Init, SchedInit, GotInv, ReaderInv, Leaving, Sleepers, RUNNING, INTERRUPTIBLE
  <1> QED
    BY <1>2, <1>3, <1>4, <1>5 DEF ReadInv

(* A step that leaves the ring, the calls and the waits alone, takes       *)
(* nobody out of the loop of a wait and no sleeper into scheduler_yield.   *)
LEMMA ReadFrame ==
  ASSUME ReadInv, UNCHANGED <<key_ring_index, stamp, call, tmp, cmp, since, waitq, irqq>>,
         controller' \in Seq(Events),
         UNCHANGED irqpc \/ (irqpc # "none" /\ irqpc' \in {"lock", "wake"}),
         \A u \in Readers :
           /\ pc'[u] \in Leaving => pc[u] \in Leaving
           /\ (state'[u] = INTERRUPTIBLE /\ pc'[u] \in {"walk", "switched"}) =>
                (state[u] = INTERRUPTIBLE /\ pc[u] \in {"walk", "switched"})
  PROVE  ReadInv'
  <1>1. KeyTypeOK' /\ WaitingInv' /\ LatestInv' /\ SinceInv'
    BY DEF ReadInv, KeyTypeOK, WaitingInv, LatestInv, SinceInv
  <1>2. GotInv'
    BY DEF ReadInv, GotInv
  <1>3. ReaderInv'
    BY DEF ReadInv, ReaderInv, Sleepers
  <1> QED
    BY <1>1, <1>2, <1>3 DEF ReadInv

(* kb_getkey is called.                                                    *)
LEMMA StepGetKeyCall ==
  ASSUME SchedInv, ReadInv, NEW t \in Readers, GetKeyCall(t)
  PROVE  ReadInv'
  <1>1. /\ pc[t] = "ready" /\ call[t] = "none" /\ KeyTypeOK /\ t \in Tasks
        /\ call' = [call EXCEPT ![t] = "test"]
        /\ tmp' = [tmp EXCEPT ![t] = key_ring_index]
        /\ since' = [since EXCEPT ![t] = stamp[key_ring_index]]
        /\ UNCHANGED <<key_ring_index, stamp, cmp, controller>>
        /\ UNCHANGED <<pc, state, waitq, irqpc, irqq>>
    BY KeyboardAssumption DEF GetKeyCall, At, ReadInv, ringKeyVars, deviceVars, schedVars, threadVars, cpuVars
  <1>2. stamp[key_ring_index] \in Nat /\ KeyTypeOK'
    BY <1>1 DEF KeyTypeOK
  <1>3. WaitingInv' /\ LatestInv'
    BY <1>1 DEF ReadInv, KeyTypeOK, WaitingInv, LatestInv
  <1>4. SinceInv'
    BY <1>1, <1>2 DEF ReadInv, KeyTypeOK, LatestInv, SinceInv
  <1>5. GotInv'
    BY <1>1 DEF ReadInv, KeyTypeOK, GotInv, Leaving
  <1>6. ReaderInv'
    BY <1>1 DEF ReadInv, KeyTypeOK, ReaderInv, Sleepers
  <1> QED
    BY <1>2, <1>3, <1>4, <1>5, <1>6 DEF ReadInv

(* The index is not the one from before the call: the latest key is new.   *)
LEMMA MovedIsNew ==
  ASSUME ReadInv, NEW t \in Readers, call[t] \in {"test", "wait"}, key_ring_index # tmp[t]
  PROVE  stamp[key_ring_index] > since[t]
  <1>1. stamp[key_ring_index] \in Nat /\ since[t] \in Nat
    BY DEF ReadInv, KeyTypeOK
  <1> QED
    BY <1>1 DEF ReadInv, LatestInv, SinceInv

(* The first test: there is a key already, or the thread enters the wait.  *)
LEMMA StepGetKeyTest ==
  ASSUME SchedInv, ReadInv, NEW t \in Readers, GetKeyTest(t)
  PROVE  ReadInv'
  <1>1. /\ call[t] = "test" /\ KeyTypeOK /\ t \in Tasks /\ Readers \subseteq Tasks /\ KeyQueue # NULL
        /\ cmp' = [cmp EXCEPT ![t] = key_ring_index]
        /\ UNCHANGED <<key_ring_index, stamp, tmp, since, controller>>
        /\ waitq \in [Tasks -> Queues \cup {NULL}] /\ pc \in [Tasks -> ThreadPCs]
    BY KeyboardAssumption, QueuesAssumption
    DEF GetKeyTest, ReadInv, ringKeyVars, deviceVars, SchedInv, SchedTypeOK
  <1>2. CASE key_ring_index # tmp[t]
    <2>1. /\ call' = [call EXCEPT ![t] = "got"] /\ pc[t] = "ready"
          /\ UNCHANGED <<pc, waitq, state, irqpc, irqq>>
      BY <1>2 DEF GetKeyTest, At, schedVars, threadVars, cpuVars
    <2>2. KeyTypeOK' /\ WaitingInv' /\ LatestInv' /\ SinceInv'
      BY <1>1, <2>1 DEF ReadInv, KeyTypeOK, WaitingInv, LatestInv, SinceInv
    <2>3. GotInv'
      BY <1>1, <1>2, <2>1, MovedIsNew DEF ReadInv, KeyTypeOK, GotInv
    <2>4. ReaderInv'
      BY <1>1, <2>1 DEF ReadInv, ReaderInv, Sleepers
    <2> QED
      BY <2>2, <2>3, <2>4 DEF ReadInv
  <1>3. CASE key_ring_index = tmp[t]
    <2>1. /\ call' = [call EXCEPT ![t] = "wait"] /\ pc[t] = "ready"
          /\ waitq' = [waitq EXCEPT ![t] = KeyQueue]
          /\ pc' = [pc EXCEPT ![t] = "prepare_lock"]
          /\ UNCHANGED <<state, irqpc, irqq>>
      BY <1>3 DEF GetKeyTest, WaitEvent, At, Goto, cpuVars
    <2>2. KeyTypeOK' /\ WaitingInv' /\ LatestInv' /\ SinceInv'
      BY <1>1, <2>1 DEF ReadInv, KeyTypeOK, WaitingInv, LatestInv, SinceInv
    <2>3. GotInv'
      BY <1>1, <2>1 DEF ReadInv, KeyTypeOK, GotInv, Leaving
    <2>4. ReaderInv'
      BY <1>1, <2>1 DEF ReadInv, ReaderInv, Sleepers
    <2> QED
      BY <2>2, <2>3, <2>4 DEF ReadInv
  <1> QED
    BY <1>2, <1>3

(* The test in the loop: the reader leaves with a new key, or yields       *)
(* having seen them all.                                                   *)
LEMMA StepGetKeyCondition ==
  ASSUME SchedInv, ReadInv, NEW t \in Readers, GetKeyCondition(t)
  PROVE  ReadInv'
  <1>1. /\ KeyTypeOK /\ t \in Tasks /\ Readers \subseteq Tasks
        /\ cmp' = [cmp EXCEPT ![t] = key_ring_index]
        /\ UNCHANGED <<key_ring_index, stamp, call, tmp, since, controller>>
        /\ UNCHANGED <<state, waitq, irqpc, irqq>>
        /\ pc' = [pc EXCEPT ![t] = IF key_ring_index # tmp[t] THEN "finish_lock" ELSE "walk"]
        /\ pc[t] = "condition" /\ pc \in [Tasks -> ThreadPCs]
    BY KeyboardAssumption DEF GetKeyCondition, Condition, At, Goto, ringKeyVars, deviceVars,
       cpuVars, ReadInv, SchedInv, SchedTypeOK
  <1>2. call[t] = "wait"
    BY <1>1 DEF SchedInv, ThreadsInv, ReadInv, WaitingInv
  <1>3. KeyTypeOK' /\ WaitingInv' /\ LatestInv' /\ SinceInv'
    BY <1>1 DEF ReadInv, KeyTypeOK, WaitingInv, LatestInv, SinceInv
  <1>4. GotInv'
    BY <1>1, <1>2, MovedIsNew DEF ReadInv, KeyTypeOK, GotInv, Leaving
  <1>5. ReaderInv'
    BY <1>1 DEF ReadInv, ReaderInv, Sleepers
  <1> QED
    BY <1>3, <1>4, <1>5 DEF ReadInv

(* wait_finish is done, and kb_getkey is about to read the ring.           *)
LEMMA StepGetKeyFinish ==
  ASSUME SchedInv, ReadInv, NEW t \in Readers, GetKeyFinish(t)
  PROVE  ReadInv'
  <1>1. /\ KeyTypeOK /\ t \in Tasks /\ Readers \subseteq Tasks
        /\ UNCHANGED <<key_ring_index, stamp, cmp, tmp, since, controller>>
        /\ UNCHANGED <<state, irqpc, irqq>>
        /\ call' = [call EXCEPT ![t] = "got"]
        /\ waitq' = [waitq EXCEPT ![t] = NULL]
        /\ pc' = [pc EXCEPT ![t] = "ready"] /\ pc[t] = "finish_unlock"
        /\ pc \in [Tasks -> ThreadPCs] /\ waitq \in [Tasks -> Queues \cup {NULL}]
    BY KeyboardAssumption DEF GetKeyFinish, FinishUnlock, ReleaseIrqload, At, Goto, ringKeyVars,
       deviceVars, ReadInv, SchedInv, SchedTypeOK
  <1>2. KeyTypeOK' /\ WaitingInv' /\ LatestInv' /\ SinceInv'
    BY <1>1 DEF ReadInv, KeyTypeOK, WaitingInv, LatestInv, SinceInv
  <1>3. GotInv'
    BY <1>1 DEF ReadInv, KeyTypeOK, GotInv, Leaving
  <1>4. ReaderInv'
    BY <1>1, KeyboardAssumption, QueuesAssumption DEF ReadInv, ReaderInv, Sleepers
  <1> QED
    BY <1>2, <1>3, <1>4 DEF ReadInv

(* kb_getkey and kb_getch return, or kb_getch reads on.                    *)
LEMMA StepGetKeyReturn ==
  ASSUME SchedInv, ReadInv, NEW t \in Readers, GetKeyReturn(t) \/ GetChReturn(t)
  PROVE  ReadInv'
  <1>1. /\ KeyTypeOK /\ pc[t] = "ready" /\ call[t] \in {"got", "map"}
        /\ UNCHANGED <<key_ring_index, stamp, cmp, tmp, since, controller>>
        /\ UNCHANGED <<pc, state, waitq, irqpc, irqq>>
        /\ \E l \in {"none", "map"} : call' = [call EXCEPT ![t] = l]
    BY DEF GetKeyReturn, GetChReturn, At, ReadInv, ringKeyVars, deviceVars, schedVars, threadVars, cpuVars
  <1>2. KeyTypeOK' /\ WaitingInv' /\ LatestInv' /\ SinceInv'
    BY <1>1 DEF ReadInv, KeyTypeOK, WaitingInv, LatestInv, SinceInv
  <1>3. GotInv'
    BY <1>1 DEF ReadInv, KeyTypeOK, GotInv, Leaving
  <1>4. ReaderInv'
    BY <1>1 DEF ReadInv, ReaderInv, Sleepers
  <1> QED
    BY <1>2, <1>3, <1>4 DEF ReadInv

(* What every thread does besides reading keys.                            *)
LEMMA StepOther ==
  ASSUME SchedInv, ReadInv, NEW t \in Tasks, OtherStep(t)
  PROVE  ReadInv'
  <1>1. /\ UNCHANGED <<key_ring_index, stamp, call, tmp, cmp, since>>
        /\ controller' \in Seq(Events) /\ Readers \subseteq Tasks
        /\ pc \in [Tasks -> ThreadPCs] /\ state \in [Tasks -> {RUNNING, INTERRUPTIBLE}]
    BY KeyboardAssumption DEF OtherStep, keyVars, ringKeyVars, readVars, deviceVars, ReadInv, KeyTypeOK,
       SchedInv, SchedTypeOK
  <1>2. CASE \E n \in Tasks : CreateThread(t, n)
    <2>1. PICK n \in Tasks : CreateThread(t, n)
      BY <1>2
    <2>2. /\ UNCHANGED <<waitq, irqpc, irqq>>
          /\ state' = [state EXCEPT ![n] = RUNNING]
          /\ pc' = [pc EXCEPT ![n] = "switched", ![t] = "ready"]
      BY <2>1 DEF CreateThread, cpuVars
    <2> QED
      BY <1>1, <2>2, ReadFrame DEF Leaving, RUNNING, INTERRUPTIBLE
  <1>3. CASE Exit(t)
    <2>1. /\ UNCHANGED <<waitq, state, irqpc, irqq>>
          /\ pc' = [pc EXCEPT ![t] = "exited", ![next[t]] = Resume(next[t])]
          /\ Resume(next[t]) \in {"ready", "prepare_lock"}
      BY <1>3 DEF Exit, Resume
    <2> QED
      BY <1>1, <2>1, ReadFrame DEF Leaving
  <1>4. CASE Yield(t)
    <2>1. /\ UNCHANGED <<waitq, state, irqpc, irqq>> /\ pc[t] = "ready"
          /\ pc' = [pc EXCEPT ![t] = "walk"]
      BY <1>4 DEF Yield, At, Goto, cpuVars
    <2>2. state[t] # INTERRUPTIBLE
      BY <2>1 DEF SchedInv, ThreadsInv
    <2> QED
      BY <1>1, <2>1, <2>2, ReadFrame DEF Leaving
  <1>5. CASE Walk(t) \/ YieldReturn(t)
    <2>1. /\ UNCHANGED <<waitq, state, irqpc, irqq>>
          /\ pc' = pc \/ pc' = [pc EXCEPT ![t] = Resume(t)]
          /\ Resume(t) \in {"ready", "prepare_lock"}
      BY <1>5 DEF Walk, YieldReturn, Goto, Resume, cpuVars
    <2> QED
      BY <1>1, <2>1, ReadFrame DEF Leaving
  <1>6. CASE Switch(t)
    <2>1. /\ UNCHANGED <<waitq, state, irqpc, irqq>> /\ pc[t] = "walk"
          /\ pc' = [pc EXCEPT ![t] = "switched", ![curr] = Resume(curr)]
          /\ Resume(curr) \in {"ready", "prepare_lock"}
      BY <1>6 DEF Switch, At, Resume
    <2> QED
      BY <1>1, <2>1, ReadFrame DEF Leaving
  <1>7. CASE PrepareLock(t) \/ Prepare(t) \/ PrepareUnlock(t)
    <2>1. /\ UNCHANGED <<waitq, irqpc, irqq>>
          /\ state' \in {state, [state EXCEPT ![t] = INTERRUPTIBLE]}
          /\ \E l \in {"prepare", "prepare_unlock", "condition"} : pc' = [pc EXCEPT ![t] = l]
      BY <1>7 DEF PrepareLock, Prepare, PrepareUnlock, AcquireIrqsave, ReleaseIrqload, Goto, cpuVars
    <2> QED
      BY <1>1, <2>1, ReadFrame DEF Leaving
  <1>8. CASE FinishLock(t) \/ Finish(t)
    <2>1. /\ UNCHANGED <<waitq, irqpc, irqq>> /\ pc[t] \in Leaving
          /\ state' \in {state, [state EXCEPT ![t] = RUNNING]}
          /\ \E l \in Leaving : pc' = [pc EXCEPT ![t] = l]
      BY <1>8 DEF FinishLock, Finish, AcquireIrqsave, At, Goto, cpuVars, Leaving
    <2> QED
      BY <1>1, <2>1, ReadFrame DEF Leaving
  <1> QED
    BY <1>2, <1>3, <1>4, <1>5, <1>6, <1>7, <1>8 DEF OtherStep

-----------------------------------------------------------------------------
(* The keyboard interrupt arrives and returns, between two steps of a      *)
(* thread.                                                                 *)
LEMMA StepKeyIrqEnds ==
  ASSUME SchedInv, ReadInv, KeyIrq \/ HandlerReturn
  PROVE  ReadInv'
  <1>1. /\ UNCHANGED <<key_ring_index, stamp, call, tmp, cmp, since, controller>>
        /\ UNCHANGED <<pc, state, waitq>>
        /\ irqpc' = "none" \/ irqq' = KeyQueue
        /\ irqpc \notin {"lock", "wake"}
    BY DEF KeyIrq, HandlerReturn, IrqEnter, IrqReturn, threadVars, keyVars, ringKeyVars, readVars, deviceVars
  <1>2. KeyTypeOK' /\ WaitingInv' /\ LatestInv' /\ SinceInv'
    BY <1>1 DEF ReadInv, KeyTypeOK, WaitingInv, LatestInv, SinceInv
  <1>3. GotInv' /\ ReaderInv'
    BY <1>1 DEF ReadInv, GotInv, ReaderInv, Sleepers
  <1> QED
    BY <1>2, <1>3 DEF ReadInv

(* A key arrives in the ring: it is the latest, overwrites an older one,   *)
(* and whoever has not seen it is about to be woken.                       *)
LEMMA StepHandlerKey ==
  ASSUME SchedInv, ReadInv, HandlerKey
  PROVE  ReadInv'
  <1> DEFINE i == (key_ring_index + 1) % KEY_RING_SIZE
  <1>1. /\ KeyTypeOK /\ controller # <<>> /\ controller' = Tail(controller)
        /\ key_ring_index' = i /\ stamp' = [stamp EXCEPT ![i] = stamp[key_ring_index] + 1]
        /\ UNCHANGED <<call, tmp, cmp, since, pc, state, waitq, irqq>>
        /\ irqpc # "none" /\ irqpc' = "lock"
    BY DEF HandlerKey, __kb_emit_keycode, IrqCallWake, threadVars, readVars, ReadInv
  <1>2. i \in Slots
    BY <1>1, NextSlot DEF KeyTypeOK
  <1>3. controller' \in Seq(Events)
    BY <1>1, HeadTailProperties DEF KeyTypeOK
  <1> HIDE DEF i
  <1>4. KeyTypeOK'
    BY <1>1, <1>2, <1>3 DEF KeyTypeOK
  <1>5. stamp'[i] = stamp[key_ring_index] + 1 /\ \A j \in Slots \ {i} : stamp'[j] = stamp[j]
    BY <1>1, <1>2 DEF KeyTypeOK
  <1>6. /\ stamp \in [Slots -> Nat] /\ stamp' \in [Slots -> Nat] /\ key_ring_index \in Slots
        /\ since \in [Readers -> Nat] /\ cmp \in [Readers -> Slots]
    BY <1>1, <1>4 DEF KeyTypeOK
  <1>7. \A j \in Slots : stamp[j] <= stamp'[j]
    BY <1>2, <1>5, <1>6 DEF ReadInv, LatestInv
  <1>8. WaitingInv' /\ ReaderInv'
    BY <1>1 DEF ReadInv, WaitingInv, ReaderInv
  <1>9. LatestInv'
    <2>1. i = (stamp[key_ring_index] + 1) % KEY_RING_SIZE
      BY <1>6, NextRemainder, KeyboardAssumption DEF ReadInv, LatestInv, i
    <2> QED
      BY <1>1, <1>2, <1>5, <1>6, <2>1 DEF ReadInv, LatestInv
  <1>10. SinceInv'
    BY <1>1, <1>2, <1>5, <1>6 DEF ReadInv, SinceInv
  <1>11. GotInv'
    BY <1>1, <1>6, <1>7 DEF ReadInv, GotInv
  <1> QED
    BY <1>4, <1>8, <1>9, <1>10, <1>11 DEF ReadInv

(* The handler wakes the queue, and leaves nobody on it.                   *)
LEMMA StepHandlerWake ==
  ASSUME SchedInv, ReadInv, HandlerWake
  PROVE  ReadInv'
  <1>1. /\ UNCHANGED <<key_ring_index, stamp, call, tmp, cmp, since, controller>>
        /\ controller' \in Seq(Events) /\ Readers \subseteq Tasks
        /\ state \in [Tasks -> {RUNNING, INTERRUPTIBLE}]
    BY KeyboardAssumption DEF HandlerWake, keyVars, ringKeyVars, readVars, deviceVars, ReadInv, KeyTypeOK,
       SchedInv, SchedTypeOK
  <1>2. CASE IrqLock
    <2>1. UNCHANGED <<waitq, irqq, pc, state>> /\ irqpc # "none" /\ irqpc' = "wake"
      BY <1>2 DEF IrqLock, threadVars
    <2> QED
      BY <1>1, <2>1, ReadFrame
  <1>3. CASE IrqWake
    <2>1. /\ UNCHANGED <<waitq, irqq, pc, irqpc>>
          /\ state' = [state EXCEPT ![head[irqq]] = RUNNING]
      BY <1>3 DEF IrqWake, cpuVars
    <2> QED
      BY <1>1, <2>1, ReadFrame DEF RUNNING, INTERRUPTIBLE
  <1>4. CASE IrqUnlock
    <2>1. /\ UNCHANGED <<waitq, irqq, pc, state>> /\ irqpc # "none"
          /\ irqq = KeyQueue /\ head[irqq] = NULL
      BY <1>4 DEF IrqUnlock, threadVars, ReadInv, WaitingInv
    <2>2. Sleepers(KeyQueue) = {}
      BY <2>1, EmptyQueue, KeyboardAssumption
    <2>3. Sleepers(KeyQueue)' = {}
      BY <2>1, <2>2 DEF Sleepers
    <2>4. KeyTypeOK' /\ WaitingInv' /\ LatestInv' /\ SinceInv' /\ GotInv'
      BY <1>1, <2>1 DEF ReadInv, KeyTypeOK, WaitingInv, LatestInv, SinceInv, GotInv
    <2> QED
      BY <2>3, <2>4 DEF ReadInv, ReaderInv
  <1> QED
    BY <1>2, <1>3, <1>4 DEF HandlerWake

(* Somebody types: the event waits in the controller.                      *)
LEMMA StepType ==
  ASSUME ReadInv, NEW e \in Events, Type(e)
  PROVE  ReadInv'
  <1>1. /\ UNCHANGED <<key_ring_index, stamp, call, tmp, cmp, since, waitq, irqq, irqpc, pc, state>>
        /\ controller' = Append(controller, e)
    BY DEF Type, ringKeyVars, readVars, schedVars, threadVars, cpuVars
  <1>2. controller' \in Seq(Events)
    BY <1>1, AppendProperties DEF ReadInv, KeyTypeOK
  <1> QED
    BY <1>1, <1>2, ReadFrame

LEMMA ReadStep ==
  ASSUME SchedInv, ReadInv, [Next]_vars
  PROVE  ReadInv'
  <1>1. CASE UNCHANGED vars
    <2>1. /\ UNCHANGED <<key_ring_index, stamp, call, tmp, cmp, since, waitq, irqq, irqpc, pc, state>>
          /\ controller' \in Seq(Events)
      BY <1>1 DEF vars, schedVars, threadVars, cpuVars, keyVars, ringKeyVars, readVars, deviceVars,
         ReadInv, KeyTypeOK
    <2> QED
      BY <2>1, ReadFrame
  <1>2. CASE KeyThread
    BY <1>2, StepOther, StepGetKeyCall, StepGetKeyTest, StepGetKeyCondition, StepGetKeyFinish,
       StepGetKeyReturn DEF KeyThread
  <1>3. CASE TypeSomething
    BY <1>3, StepType DEF TypeSomething, Events
  <1> QED
    BY <1>1, <1>2, <1>3, StepKeyIrqEnds, StepHandlerKey, StepHandlerWake DEF Next, HandlerStep

-----------------------------------------------------------------------------
(* A typed event changes what is down, and is the last of its keys'.       *)
LEMMA FollowsTyping ==
  ASSUME KeyTypeOK, NEW m, NEW K, Follows(m, K), NEW e \in Events, Type(e)
  PROVE  Follows(m, K)'
  <1>1. /\ controller' = Append(controller, e) /\ UNCHANGED key_modifiers
        /\ held' = IF e.released THEN held \ {e.key} ELSE held \cup {e.key}
        /\ controller \in Seq(Events)
    BY DEF Type, ringKeyVars, KeyTypeOK
  <1> DEFINE n == Len(controller)
  <1>2. /\ n \in Nat /\ Len(controller') = n + 1 /\ controller'[n + 1] = e
        /\ \A i \in 1..n : controller'[i] = controller[i]
    BY <1>1, AppendProperties, LenProperties
  <1> HIDE DEF n
  <1>3. n = Len(controller)
    BY DEF n
  <1>4. CASE e.key \in K
    <2>1. ~QuietFrom(1, K)'
      BY <1>2, <1>4 DEF QuietFrom
    <2>2. ASSUME NEW i \in 1..n PROVE ~QuietFrom(i + 1, K)'
      BY <1>2, <1>4, <2>2 DEF QuietFrom
    <2>3. ~e.released => e.key \in held'
      BY <1>1
    <2>4. ASSUME NEW i \in 1..Len(controller'), controller'[i].key \in K,
                 ~controller'[i].released, QuietFrom(i + 1, K)'
          PROVE  controller'[i].key \in held'
      <3>1. i = n + 1
        BY <1>2, <2>2, <2>4
      <3> QED
        BY <1>2, <2>3, <2>4, <3>1
    <2> QED
      BY <2>1, <2>4 DEF Follows
  <1>5. CASE e.key \notin K
    <2>1. \A k \in K : k \in held' <=> k \in held
      BY <1>1, <1>5
    <2>2. ASSUME NEW i \in 1..n + 1 PROVE QuietFrom(i, K)' => QuietFrom(i, K)
      BY <1>2, <1>3, <2>2 DEF QuietFrom
    <2>3. QuietFrom(1, K)' => QuietFrom(1, K)
      BY <1>2, <2>2
    <2>4. ASSUME NEW i \in 1..Len(controller'), controller'[i].key \in K,
                 ~controller'[i].released, QuietFrom(i + 1, K)'
          PROVE  controller'[i].key \in held'
      <3>1. i \in 1..n /\ i + 1 \in 1..n + 1 /\ controller'[i] = controller[i]
        BY <1>2, <1>5, <2>4
      <3>2. QuietFrom(i + 1, K)
        BY <2>2, <2>4, <3>1
      <3> QED
        BY <1>3, <2>1, <2>4, <3>1, <3>2 DEF Follows
    <2> QED
      BY <1>1, <2>1, <2>3, <2>4 DEF Follows
  <1> QED
    BY <1>4, <1>5

(* Reading an event sets the modifier of its key and no other.             *)
LEMMA FollowsReading ==
  ASSUME KeyTypeOK, NEW m, NEW K, Follows(m, K),
         controller # <<>>, controller' = Tail(controller), UNCHANGED held,
         m \in key_modifiers' <=>
           IF Head(controller).key \in K THEN ~Head(controller).released ELSE m \in key_modifiers
  PROVE  Follows(m, K)'
  <1> DEFINE n == Len(controller)
             e == Head(controller)
  <1>1. /\ n \in Nat /\ n >= 1 /\ Len(controller') = n - 1 /\ controller[1] = e
        /\ \A i \in 1..n - 1 : controller'[i] = controller[i + 1]
    BY HeadTailProperties, LenProperties, EmptySeq DEF KeyTypeOK
  <1> HIDE DEF n, e
  <1>2. n = Len(controller) /\ e = Head(controller)
    BY DEF n, e
  <1>3. ASSUME NEW i \in 1..n PROVE QuietFrom(i, K)' => QuietFrom(i + 1, K)
    <2> SUFFICES ASSUME QuietFrom(i, K)', NEW j \in i + 1..n PROVE controller[j].key \notin K
      BY <1>2 DEF QuietFrom
    <2>1. j - 1 \in i..n - 1 /\ j - 1 \in 1..n - 1 /\ (j - 1) + 1 = j
      BY <1>1, <1>3
    <2>2. controller'[j - 1].key \notin K
      BY <1>1, <2>1 DEF QuietFrom
    <2> QED
      BY <1>1, <2>1, <2>2
  <1>4. (QuietFrom(1, K)' /\ m \in key_modifiers') => held' \cap K # {}
    <2> SUFFICES ASSUME QuietFrom(1, K)', m \in key_modifiers' PROVE held \cap K # {}
      OBVIOUS
    <2>1. QuietFrom(1 + 1, K) /\ 1 \in 1..n
      BY <1>1, <1>3
    <2>2. CASE e.key \in K
      <3>1. controller[1].key \in held
        BY <1>1, <1>2, <2>1, <2>2 DEF Follows
      <3> QED
        BY <1>1, <2>2, <3>1
    <2>3. CASE e.key \notin K
      <3>1. \A j \in 1..n : j = 1 \/ j \in 1 + 1..n
        BY <1>1
      <3>2. QuietFrom(1, K)
        BY <1>1, <1>2, <2>1, <2>3, <3>1 DEF QuietFrom
      <3> QED
        BY <1>2, <2>3, <3>2 DEF Follows
    <2> QED
      BY <2>2, <2>3
  <1>5. ASSUME NEW i \in 1..Len(controller'), controller'[i].key \in K,
               ~controller'[i].released, QuietFrom(i + 1, K)'
        PROVE  controller'[i].key \in held'
    <2>1. i \in 1..n - 1 /\ i + 1 \in 1..n /\ controller'[i] = controller[i + 1]
      BY <1>1, <1>5
    <2>2. QuietFrom((i + 1) + 1, K)
      BY <1>3, <1>5, <2>1
    <2> QED
      BY <1>2, <1>5, <2>1, <2>2 DEF Follows
  <1> QED
    BY <1>4, <1>5 DEF Follows

(* What __kb_emit_keycode makes of the modifiers that follow keys; Caps    *)
(* Lock is none of them.                                                   *)
LEMMA ModifierOfKey ==
  ASSUME NEW mods, NEW e \in Events
  PROVE  LET after == ModifiersAfter(mods, e) IN
           /\ "SHIFT" \in after <=> IF e.key \in {42, 54} THEN ~e.released ELSE "SHIFT" \in mods
           /\ "CTRL" \in after <=> IF e.key \in {29, 97} THEN ~e.released ELSE "CTRL" \in mods
           /\ "ALT" \in after <=> IF e.key \in {56} THEN ~e.released ELSE "ALT" \in mods
           /\ "ALT_GR" \in after <=> IF e.key \in {100} THEN ~e.released ELSE "ALT_GR" \in mods
  <1>1. e.key \in Nat
    <2>1. e.key \in Keys
      BY DEF Events
    <2>2. \A k \in Keys : k \in Nat
      BY KeyboardAssumption
    <2> QED
      BY <2>1, <2>2, Zenon
  <1> DEFINE m == IF e.key = 58 /\ e.released THEN SetTo(mods, "CAPS", "CAPS" \notin mods) ELSE mods
  <1>2. \A x \in {"SHIFT", "CTRL", "ALT", "ALT_GR"} : x \in m <=> x \in mods
    BY DEF SetTo
  <1>3. ModifiersAfter(mods, e) =
          CASE e.key \in {29, 97} -> SetTo(m, "CTRL", ~e.released)
            [] e.key \in {42, 54} -> SetTo(m, "SHIFT", ~e.released)
            [] e.key = 56         -> SetTo(m, "ALT", ~e.released)
            [] e.key = 100        -> SetTo(m, "ALT_GR", ~e.released)
            [] OTHER              -> m
    BY DEF ModifiersAfter
  <1> HIDE DEF m
  <1>4. CASE e.key \in {29, 97}
    <2>1. ModifiersAfter(mods, e) = SetTo(m, "CTRL", ~e.released)
      BY <1>3, <1>4
    <2> QED
      BY <1>1, <1>2, <1>4, <2>1 DEF SetTo
  <1>5. CASE e.key \in {42, 54}
    <2>1. ModifiersAfter(mods, e) = SetTo(m, "SHIFT", ~e.released)
      BY <1>3, <1>5
    <2> QED
      BY <1>1, <1>2, <1>5, <2>1 DEF SetTo
  <1>6. CASE e.key = 56
    <2>1. ModifiersAfter(mods, e) = SetTo(m, "ALT", ~e.released)
      BY <1>3, <1>6
    <2> QED
      BY <1>1, <1>2, <1>6, <2>1 DEF SetTo
  <1>7. CASE e.key = 100
    <2>1. ModifiersAfter(mods, e) = SetTo(m, "ALT_GR", ~e.released)
      BY <1>3, <1>7
    <2> QED
      BY <1>1, <1>2, <1>7, <2>1 DEF SetTo
  <1>8. CASE e.key \notin {29, 97, 42, 54, 56, 100}
    <2>1. ModifiersAfter(mods, e) = m
      BY <1>3, <1>8
    <2> QED
      BY <1>2, <1>8, <2>1
  <1> QED
    BY <1>4, <1>5, <1>6, <1>7, <1>8

LEMMA ModifierStep ==
  ASSUME ReadInv, ModifierInv, [Next]_vars
  PROVE  ModifierInv'
  <1>1. CASE TypeSomething
    <2>1. PICK e \in Events : Type(e)
      BY <1>1 DEF TypeSomething, Events
    <2> QED
      BY <2>1, FollowsTyping DEF ReadInv, ModifierInv
  <1>2. CASE HandlerKey
    <2>1. /\ KeyTypeOK /\ controller # <<>> /\ controller' = Tail(controller) /\ UNCHANGED held
          /\ key_modifiers' = ModifiersAfter(key_modifiers, Head(controller))
      BY <1>2 DEF HandlerKey, __kb_emit_keycode, ReadInv
    <2>2. Head(controller) \in Events
      BY <2>1, HeadTailProperties DEF KeyTypeOK
    <2>3. Follows("SHIFT", {42, 54})' /\ Follows("CTRL", {29, 97})'
      BY <2>1, <2>2, ModifierOfKey, FollowsReading DEF ModifierInv
    <2>4. Follows("ALT", {56})' /\ Follows("ALT_GR", {100})'
      BY <2>1, <2>2, ModifierOfKey, FollowsReading DEF ModifierInv
    <2> QED
      BY <2>3, <2>4 DEF ModifierInv
  <1>3. CASE ~TypeSomething /\ ~HandlerKey
    <2>1. UNCHANGED <<key_modifiers, controller, held>>
      BY <1>3 DEF Next, KeyThread, OtherStep, GetKeyCall, GetKeyTest, GetKeyCondition, GetKeyFinish,
         GetKeyReturn, GetChReturn, KeyIrq, HandlerStep, HandlerWake, HandlerReturn, vars, keyVars,
         ringKeyVars, deviceVars
    <2> QED
      BY <2>1 DEF ModifierInv, Follows, QuietFrom
  <1> QED
    BY <1>1, <1>2, <1>3

LEMMA InitModifiers == Init => ModifierInv
  BY DEF Init, ModifierInv, Follows, QuietFrom

-----------------------------------------------------------------------------
(* The ring, the calls and the wait queue agree wherever an interrupt may  *)
(* arrive, and the modifiers with the events still to be read.             *)
THEOREM KeyboardInvariant == Spec => [](SchedInv /\ ReadInv /\ ModifierInv)
  <1>1. SchedInv /\ ReadInv /\ [Next]_vars => ReadInv'
    BY ReadStep
  <1>2. ReadInv /\ ModifierInv /\ [Next]_vars => ModifierInv'
    BY ModifierStep
  <1> QED
    BY <1>1, <1>2, InitRead, InitModifiers, KeyboardSched, PTL DEF Spec

(* kb_getkey returns a key that was emitted after the call.                *)
THEOREM KeysAreFresh == Spec => []FreshKey
  <1>1. ReadInv => FreshKey
    BY DEF ReadInv, GotInv, FreshKey
  <1> QED
    BY <1>1, KeyboardInvariant, PTL

(* A reader sleeps off the CPU only with no new key, or with whole rings   *)
(* of them.                                                                *)
THEOREM NobodySleepsOnKey == Spec => []NoSleepOnKey
  <1>1. ReadInv => NoSleepOnKey
    <2> SUFFICES ASSUME ReadInv, NEW t \in Readers, irqpc = "none", pc[t] = "switched",
                        t \in Sleepers(KeyQueue),
                        stamp[key_ring_index] < since[t] + KEY_RING_SIZE
                 PROVE  stamp[key_ring_index] = since[t]
      BY DEF NoSleepOnKey
    <2>1. key_ring_index = tmp[t] /\ call[t] = "wait"
      BY QueuesAssumption, KeyboardAssumption DEF ReadInv, ReaderInv, WaitingInv, Sleepers
    <2>2. stamp[key_ring_index] % KEY_RING_SIZE = since[t] % KEY_RING_SIZE
      BY <2>1 DEF ReadInv, LatestInv, SinceInv
    <2>3. since[t] <= stamp[key_ring_index]
      BY <2>1 DEF ReadInv, SinceInv
    <2>4. stamp[key_ring_index] \in Nat /\ since[t] \in Nat
      BY DEF ReadInv, KeyTypeOK
    <2> QED
      BY <2>2, <2>3, <2>4, SameRemainder, KeyboardAssumption
  <1> QED
    BY <1>1, KeyboardInvariant, PTL

(* When every event is read, a modifier is on only while one of its keys   *)
(* is down.                                                                *)
THEOREM ModifiersCorrect == Spec => []NoStuckModifier
  <1>1. ModifierInv => NoStuckModifier
    BY DEF ModifierInv, Follows, QuietFrom, NoStuckModifier
  <1> QED
    BY <1>1, KeyboardInvariant, PTL

-----------------------------------------------------------------------------
(* The decoder in front of the ring, module Scancodes.  For every stream   *)
(* of bytes, every buffer of at least 8 bytes and both scan code sets: the *)
(* decoder never overruns its buffer; and on a clean line it finds every   *)
(* key in what a proper keyboard sends.                                    *)
(*                                                                         *)
(* BufferInBounds is not inductive: the tests for a complete sequence are  *)
(* equalities, so the index stays small only because no sequence ever      *)
(* passes the length it is tested for.  Unfinished says so.                *)

(* The part of the type invariant the argument needs.                      *)
BufferType ==
  /\ scancode_buffer \in [0..MAX_SCANCODE_SEQUENCE - 1 -> Byte]
  /\ scancode_index \in Byte
  /\ scancode_set \in {0, 1}

(* kb_add_scancode_seq leaves the beginning of a sequence in the buffer,   *)
(* or nothing, for the next byte b whatever it is.                         *)
LEMMA AddKeepsUnfinished ==
  ASSUME BufferType, Unfinished, UNCHANGED scancode_set,
         NEW b \in Byte, kb_add_scancode_seq(b)
  PROVE  BufferType' /\ Unfinished'
<1> DEFINE i == scancode_index
           s == scancode_buffer
           u == [s EXCEPT ![i] = b]
<1>1. /\ MAX_SCANCODE_SEQUENCE \in Nat /\ MAX_SCANCODE_SEQUENCE >= 8
      /\ scancode_set \in {0, 1} /\ scancode_set' = scancode_set
  BY ScancodeAssumption DEF BufferType
<1>2. i \in 0..7 /\ s \in [0..MAX_SCANCODE_SEQUENCE - 1 -> Byte]
  BY <1>1 DEF BufferType, Unfinished, Byte
<1>3. scancode_buffer' = u /\ scancode_buffer' \in [0..MAX_SCANCODE_SEQUENCE - 1 -> Byte]
  BY <1>1, <1>2 DEF kb_add_scancode_seq
<1>4. /\ u[i] = b
      /\ i # 0 => u[0] = s[0]
      /\ i > 1 => u[1] = s[1]
  BY <1>1, <1>2
<1>5. (i + 1) % 256 = i + 1
  BY <1>2
<1>6. \/ Complete(u, i + 1) /\ scancode_index' = 0
      \/ ~Complete(u, i + 1) /\ scancode_index' = i + 1
  BY <1>3, <1>5 DEF kb_add_scancode_seq
<1>7. CASE scancode_index' = 0
  BY <1>1, <1>3, <1>7 DEF BufferType, Unfinished, Byte
<1>8. CASE ~Complete(u, i + 1) /\ scancode_index' = i + 1
  <2>1. CASE scancode_set = 0
    <3>1. ~kb_scancode_sequence_complete_at1(u, i + 1)
      BY <1>8, <2>1 DEF Complete
    <3>2. u[0] = 225 /\ i + 1 # 6
      <4>1. CASE i = 0
        BY <1>2, <1>4, <3>1, <4>1 DEF kb_scancode_sequence_complete_at1, Byte
      <4>2. CASE i # 0
        <5>1. s[0] = 225
          BY <1>2, <2>1, <4>2 DEF Unfinished
        <5> QED BY <1>4, <3>1, <4>2, <5>1 DEF kb_scancode_sequence_complete_at1
      <4> QED BY <4>1, <4>2
    <3>3. i < 6
      BY <1>2, <2>1 DEF Unfinished
    <3> QED BY <1>1, <1>2, <1>3, <1>8, <2>1, <3>2, <3>3 DEF BufferType, Unfinished, Byte
  <2>2. CASE scancode_set = 1
    <3>1. ~kb_scancode_sequence_complete_at2(u, i + 1)
      BY <1>8, <2>2 DEF Complete
    <3>2. CASE i = 0
      <4>1. u[0] \in {224, 225, 240}
        BY <1>2, <1>4, <3>1, <3>2 DEF kb_scancode_sequence_complete_at2, Byte
      <4> QED BY <1>1, <1>2, <1>3, <1>8, <2>2, <3>2, <4>1 DEF BufferType, Unfinished, Byte
    <3>3. CASE i # 0 /\ s[0] = 225
      <4>1. u[0] = 225 /\ i + 1 # 8
        BY <1>4, <3>1, <3>3 DEF kb_scancode_sequence_complete_at2
      <4> QED BY <1>1, <1>2, <1>3, <1>8, <2>2, <3>3, <4>1 DEF BufferType, Unfinished, Byte
    <3>4. CASE i # 0 /\ s[0] = 224
      <4>1. u[0] = 224 /\ (i = 1 \/ (i = 2 /\ u[1] = 240))
        BY <1>2, <1>4, <2>2, <3>4 DEF Unfinished
      <4>2. i = 1 /\ u[1] = 240
        BY <1>2, <3>1, <4>1 DEF kb_scancode_sequence_complete_at2
      <4> QED BY <1>1, <1>2, <1>3, <1>8, <2>2, <4>1, <4>2 DEF BufferType, Unfinished, Byte
    <3>5. CASE i # 0 /\ s[0] \notin {224, 225}
      <4>1. u[0] = 240 /\ i = 1
        BY <1>2, <1>4, <2>2, <3>5 DEF Unfinished
      <4> QED BY <3>1, <4>1 DEF kb_scancode_sequence_complete_at2
    <3> QED BY <3>2, <3>3, <3>4, <3>5
  <2> QED BY <1>1, <2>1, <2>2
<1> QED BY <1>6, <1>7, <1>8

(* The decoder never overruns its buffer, and what it has collected is     *)
(* always the proper beginning of a scan code sequence, whatever the       *)
(* keyboard sends.                                                         *)
THEOREM DecoderCorrect == ScanSpec => [](BufferInBounds /\ Unfinished)
<1> DEFINE Inv == /\ BufferType /\ Unfinished
                  /\ keyboard \in Keyboards /\ stroke \in Strokes[keyboard] /\ sent \in Nat
<1>1. ScanInit => Inv
  BY ScancodeAssumption DEF ScanInit, BufferType, Unfinished, Byte
<1>2. Inv /\ [ScanNext]_scanVars => Inv'
  <2> SUFFICES ASSUME Inv, [ScanNext]_scanVars PROVE Inv'
    OBVIOUS
  <2>1. CASE keyboard_handler
    <3>1. stroke.bytes \in Seq(Byte)
      BY ScancodeAssumption
    <3>2. sent + 1 \in 1..Len(stroke.bytes)
      BY <2>1, <3>1 DEF keyboard_handler
    <3>3. stroke.bytes[sent + 1] \in Byte
      BY <3>1, <3>2
    <3>4. BufferType' /\ Unfinished'
      BY <2>1, <3>3, AddKeepsUnfinished DEF keyboard_handler
    <3> QED BY <2>1, <3>4 DEF keyboard_handler
  <2>2. CASE NextStroke
    BY <2>2 DEF NextStroke, BufferType, Unfinished
  <2>3. CASE UNCHANGED scanVars
    BY <2>3 DEF scanVars, BufferType, Unfinished
  <2> QED BY <2>1, <2>2, <2>3 DEF ScanNext
<1>3. Inv => BufferInBounds /\ Unfinished
  BY ScancodeAssumption DEF BufferInBounds, Unfinished, BufferType, Byte
<1> QED BY <1>1, <1>2, <1>3, PTL DEF ScanSpec

-----------------------------------------------------------------------------
(* What the buffer holds after len bytes of a stroke.                      *)
Holds(b, s, len) == \A j \in 0..len - 1 : b[j] = s.bytes[j + 1]

(* A sequence is complete with its last byte, not before, and is then      *)
(* mapped to its key code.                                                 *)
LEMMA CompleteAtEnd1 ==
  ASSUME NEW s, s.bytes \in Seq(Byte), OneSequence(0, s), s.bytes[1] # 224,
         NEW b, NEW len \in 1..Len(s.bytes), Holds(b, s, len)
  PROVE  /\ kb_scancode_sequence_complete_at1(b, len) <=> len = Len(s.bytes)
         /\ kb_map_scancode_at1(b) = s.code
  <1>1. b[0] = s.bytes[1] /\ s.bytes[1] \in Byte
    BY DEF Holds
  <1>2. CASE b[0] = 225
    <2>1. Len(s.bytes) = 6 /\ s.code = 119
      BY <1>1, <1>2 DEF OneSequence
    <2> QED
      BY <1>2, <2>1 DEF kb_scancode_sequence_complete_at1, kb_map_scancode_at1
  <1>3. CASE b[0] # 225
    <2>1. s.bytes[1] # 225 /\ b[0] # 224
      BY <1>1, <1>3
    <2>2. /\ Len(s.bytes) = 1
          /\ s.code = IF s.bytes[1] > 128 THEN s.bytes[1] - 128 + Released ELSE s.bytes[1]
      BY <2>1 DEF OneSequence
    <2>3. len = 1
      BY <2>2
    <2> QED
      BY <1>1, <1>3, <2>1, <2>2, <2>3
         DEF kb_scancode_sequence_complete_at1, kb_map_scancode_at1
  <1> QED
    BY <1>2, <1>3

LEMMA CompleteAtEnd2 ==
  ASSUME NEW s, s.bytes \in Seq(Byte), OneSequence(1, s),
         NEW b, NEW len \in 1..Len(s.bytes), Holds(b, s, len)
  PROVE  /\ kb_scancode_sequence_complete_at2(b, len) <=> len = Len(s.bytes)
         /\ len = Len(s.bytes) => kb_map_scancode_at2(b) = s.code
  <1> DEFINE n == Len(s.bytes)
  <1>1. b[0] = s.bytes[1] /\ (len > 1 => b[1] = s.bytes[2]) /\ (len > 2 => b[2] = s.bytes[3])
    BY DEF Holds
  <1>2. n \in Nat /\ \A i \in 1..n : s.bytes[i] \in Byte /\ exmap_at2[s.bytes[i]] = 0
    BY DEF exmap_at2
  <1>3. CASE b[0] = 225
    <2>1. n = 8 /\ s.code = 0
      BY <1>1, <1>3 DEF OneSequence
    <2> QED
      BY <1>3, <2>1 DEF kb_scancode_sequence_complete_at2, kb_map_scancode_at2
  <1>4. CASE b[0] = 224
    <2>1. \/ n = 2 /\ s.bytes[2] # 240 /\ s.code = 0
          \/ n = 3 /\ s.bytes[2] = 240 /\ s.code = Released
      BY <1>1, <1>4 DEF OneSequence
    <2>2. kb_scancode_sequence_complete_at2(b, len)
            <=> (len # 1 /\ len = IF b[1] = 240 THEN 3 ELSE 2)
      BY <1>4 DEF kb_scancode_sequence_complete_at2
    <2>3. kb_map_scancode_at2(b) =
            IF b[1] = 240 THEN exmap_at2[b[2]] + Released ELSE exmap_at2[b[1]]
      BY <1>4 DEF kb_map_scancode_at2
    <2> QED
      BY <1>1, <1>2, <2>1, <2>2, <2>3 DEF Released
  <1>5. CASE b[0] = 240
    <2>1. n = 2 /\ s.code = basemap_at2[s.bytes[2]] + Released
      BY <1>1, <1>5 DEF OneSequence
    <2> QED
      BY <1>1, <1>5, <2>1 DEF kb_scancode_sequence_complete_at2, kb_map_scancode_at2
  <1>6. CASE b[0] \notin {224, 225, 240}
    <2>1. n = 1 /\ s.code = basemap_at2[s.bytes[1]]
      BY <1>1, <1>6 DEF OneSequence
    <2> QED
      BY <1>1, <1>6, <2>1 DEF kb_scancode_sequence_complete_at2, kb_map_scancode_at2
  <1> QED
    BY <1>3, <1>4, <1>5, <1>6

(* While a stroke is read on a clean line, the buffer holds its beginning, *)
(* and nothing else; between strokes it is empty.  In set 1 a stroke with  *)
(* a prefix leaves nothing behind.                                         *)
StrokeInv ==
  LET n == Len(stroke.bytes)
  IN  /\ BufferType /\ Unfinished
      /\ keyboard \in Keyboards /\ stroke \in Strokes[keyboard]
      /\ scancode_set = keyboard.set /\ sent \in 0..n
      /\ (keyboard.clean /\ SplitByPrefix) => scancode_index = 0
      /\ (keyboard.clean /\ ~SplitByPrefix) =>
           /\ scancode_index = IF sent = n THEN 0 ELSE sent
           /\ sent # n => Holds(scancode_buffer, stroke, sent)
           /\ emitted = IF sent = n THEN <<stroke.code>> ELSE <<>>

LEMMA StrokeStep ==
  ASSUME ProperStrokes, StrokeInv, keyboard_handler
  PROVE  StrokeInv'
  <1> DEFINE n == Len(stroke.bytes)
             i == scancode_index
             b == stroke.bytes[sent + 1]
             u == [scancode_buffer EXCEPT ![i] = b]
  <1>1. /\ BufferType /\ Unfinished /\ keyboard \in Keyboards /\ stroke \in Strokes[keyboard]
        /\ scancode_set = keyboard.set /\ scancode_set \in {0, 1} /\ sent \in 0..n
        /\ stroke.bytes \in Seq(Byte) /\ n \in Nat
    BY ScancodeAssumption DEF StrokeInv, BufferType
  <1>2. /\ sent < n /\ sent' = sent + 1 /\ kb_add_scancode_seq(b)
        /\ UNCHANGED <<scancode_set, keyboard, stroke>>
    BY DEF keyboard_handler
  <1>3. sent + 1 \in 1..n /\ b \in Byte
    BY <1>1, <1>2
  <1>4. BufferType' /\ Unfinished'
    BY <1>1, <1>2, <1>3, AddKeepsUnfinished
  <1>5. /\ scancode_index \in 0..7 /\ MAX_SCANCODE_SEQUENCE \in Nat /\ MAX_SCANCODE_SEQUENCE >= 8
        /\ scancode_buffer \in [0..MAX_SCANCODE_SEQUENCE - 1 -> Byte]
    BY <1>1, ScancodeAssumption DEF BufferType, Unfinished, Byte
  <1>6. (i + 1) % 256 = i + 1
    BY <1>5
  <1>7. /\ scancode_buffer' = u
        /\ IF Complete(u, i + 1) THEN emitted' = Append(emitted, Mapped(u)) /\ scancode_index' = 0
                                 ELSE scancode_index' = i + 1 /\ UNCHANGED emitted
    BY <1>2, <1>6 DEF kb_add_scancode_seq
  <1>8. u[i] = b /\ \A j \in 0..i - 1 : u[j] = scancode_buffer[j]
    BY <1>5
  <1>9. /\ SplitByPrefix' = SplitByPrefix
        /\ keyboard.clean => OneSequence(scancode_set, stroke)
    BY <1>1, <1>2 DEF SplitByPrefix, ProperStrokes
  <1> HIDE DEF u
  <1>10. ASSUME keyboard.clean, SplitByPrefix PROVE scancode_index' = 0
    <2>1. i = 0 /\ scancode_set = 0 /\ stroke.bytes[1] = 224
      BY <1>10 DEF StrokeInv, SplitByPrefix
    <2>2. b # 225
      BY <1>1, <1>3, <1>9, <1>10, <2>1 DEF OneSequence
    <2>3. u[0] = b /\ i + 1 = 1
      BY <1>8, <2>1
    <2>4. Complete(u, 1)
      BY <2>1, <2>2, <2>3 DEF Complete, kb_scancode_sequence_complete_at1
    <2> QED
      BY <1>7, <2>3, <2>4
  <1>11. ASSUME keyboard.clean, ~SplitByPrefix
         PROVE  /\ scancode_index' = IF sent' = n THEN 0 ELSE sent'
                /\ sent' # n => Holds(scancode_buffer', stroke, sent')
                /\ emitted' = IF sent' = n THEN <<stroke.code>> ELSE <<>>
    <2>1. i = sent /\ Holds(scancode_buffer, stroke, sent) /\ emitted = <<>>
      BY <1>1, <1>2, <1>11 DEF StrokeInv
    <2>2. Holds(u, stroke, sent + 1)
      BY <1>1, <1>8, <2>1 DEF Holds
    <2>3. /\ Complete(u, sent + 1) <=> sent + 1 = n
          /\ sent + 1 = n => Mapped(u) = stroke.code
      <3>1. CASE scancode_set = 0
        <4>1. stroke.bytes[1] # 224
          BY <1>11, <3>1 DEF SplitByPrefix
        <4> QED
          BY <1>1, <1>3, <1>9, <1>11, <2>2, <3>1, <4>1, CompleteAtEnd1 DEF Complete, Mapped
      <3>2. CASE scancode_set = 1
        BY <1>1, <1>3, <1>9, <1>11, <2>2, <3>2, CompleteAtEnd2 DEF Complete, Mapped
      <3> QED
        BY <1>1, <3>1, <3>2
    <2>4. CASE sent + 1 = n
      BY <1>2, <1>7, <2>1, <2>3, <2>4
    <2>5. CASE sent + 1 # n
      BY <1>2, <1>7, <2>1, <2>2, <2>3, <2>5
    <2> QED
      BY <2>4, <2>5
  <1> QED
    BY <1>1, <1>2, <1>3, <1>4, <1>9, <1>10, <1>11 DEF StrokeInv

(* On a clean line every stroke emits its key code, once, with its last    *)
(* byte, after any other strokes and in both scan code sets; for every     *)
(* keyboard that sends proper sequences.                                   *)
THEOREM StrokesCorrect ==
  ASSUME ProperStrokes
  PROVE  ScanSpec => []OneCodePerStroke
  <1>1. ScanInit => StrokeInv
    <2> SUFFICES ASSUME ScanInit PROVE StrokeInv
      OBVIOUS
    <2>1. stroke.bytes \in Seq(Byte) /\ stroke.bytes # <<>>
      BY ScancodeAssumption DEF ScanInit
    <2>2. Len(stroke.bytes) \in Nat \ {0}
      BY <2>1
    <2>3. BufferType /\ Unfinished /\ scancode_set \in {0, 1}
      BY ScancodeAssumption DEF ScanInit, BufferType, Unfinished, Byte
    <2> QED
      BY <2>2, <2>3 DEF ScanInit, StrokeInv, Holds
  <1>2. StrokeInv /\ [ScanNext]_scanVars => StrokeInv'
    <2> SUFFICES ASSUME StrokeInv, [ScanNext]_scanVars PROVE StrokeInv'
      OBVIOUS
    <2>1. CASE keyboard_handler
      BY <2>1, StrokeStep
    <2>2. CASE NextStroke
      <3>1. /\ stroke' \in Strokes[keyboard] /\ keyboard \in Keyboards /\ sent' = 0 /\ emitted' = <<>>
            /\ keyboard.clean => scancode_index = 0
            /\ UNCHANGED <<scancode_set, scancode_buffer, scancode_index, keyboard>>
        BY <2>2 DEF NextStroke, StrokeInv
      <3>2. BufferType' /\ Unfinished' /\ (scancode_set = keyboard.set)'
        BY <3>1 DEF StrokeInv, BufferType, Unfinished
      <3>3. stroke'.bytes \in Seq(Byte) /\ stroke'.bytes # <<>>
        BY <3>1, ScancodeAssumption
      <3>4. Len(stroke'.bytes) \in Nat \ {0}
        BY <3>3
      <3>5. Holds(scancode_buffer', stroke', 0)
        BY DEF Holds
      <3> QED
        BY <3>1, <3>2, <3>4, <3>5 DEF StrokeInv
    <2>3. CASE UNCHANGED scanVars
      BY <2>3 DEF scanVars, StrokeInv, BufferType, Unfinished, SplitByPrefix, Holds
    <2> QED
      BY <2>1, <2>2, <2>3 DEF ScanNext
  <1>3. StrokeInv => OneCodePerStroke
    BY DEF StrokeInv, OneCodePerStroke
  <1> QED
    BY <1>1, <1>2, <1>3, PTL DEF ScanSpec
=============================================================================
