------------------------------ MODULE TaskRing ------------------------------
(***************************************************************************)
(* The circular list of tasks of kernel/kernel/scheduler/scheduler.c: the  *)
(* globals `tasks' and `tasks_tail', the `next' field of task_t, and the   *)
(* two functions that change them, tasks_insert and tasks_remove.          *)
(*                                                                         *)
(* Both run in thread context.  Threads are not preempted and no interrupt *)
(* handler touches the list, so each function is one step.                 *)
(***************************************************************************)
EXTENDS Naturals, FiniteSets

CONSTANTS
  Tasks,    \* the task_t objects the kernel may ever allocate
  NULL,     \* the null pointer
  Main      \* the task wrapped around the boot thread by task_wrap

ASSUME NullAssumption == NULL \notin Tasks
ASSUME MainAssumption == Main \in Tasks

VARIABLES
  live,        \* tasks that are linked in (implicit in the code)
  next,        \* task_t.next
  tasks,       \* first task
  tasks_tail   \* last task

ringVars == <<live, next, tasks, tasks_tail>>

RingTypeOK ==
  /\ live \in SUBSET Tasks
  /\ next \in [Tasks -> Tasks \cup {NULL}]
  /\ tasks \in live
  /\ tasks_tail \in live

(* scheduler_initialize: the boot thread alone, its own successor.         *)
RingInit ==
  /\ live = {Main}
  /\ next = [t \in Tasks |-> IF t = Main THEN Main ELSE NULL]
  /\ tasks = Main
  /\ tasks_tail = Main

(* A bug in tasks_insert: the first element is not linked from the tail.   *)
InsertNotClosed(task) ==
  /\ next' = [next EXCEPT ![task] = next[tasks], ![tasks_tail] = task]
  /\ tasks_tail' = task
  /\ live' = live \cup {task}
  /\ UNCHANGED tasks

tasks_insert(task) ==
  /\ next' = [next EXCEPT ![task] = tasks, ![tasks_tail] = task]
  /\ tasks_tail' = task
  /\ live' = live \cup {task}
  /\ UNCHANGED tasks

(* Where the search loop of tasks_remove stops: the element before task.   *)
Prev(task) == CHOOSE p \in live : next[p] = task

tasks_remove(task) ==
  /\ IF task = tasks
     THEN /\ next' = [next EXCEPT ![tasks_tail] = next[task]]
          /\ tasks' = next[task]
          /\ UNCHANGED tasks_tail
     ELSE /\ next' = [next EXCEPT ![Prev(task)] = next[task]]
          /\ tasks_tail' = IF task = tasks_tail THEN Prev(task) ELSE tasks_tail
          /\ UNCHANGED tasks
  /\ live' = live \ {task}

(* Clients of the list: scheduler_create_thread inserts a task it has just *)
(* allocated, scheduler_exit removes a task that is not alone (it panics   *)
(* otherwise).                                                             *)
Insert(task) == task \in Tasks \ live /\ tasks_insert(task)
Remove(task) == task \in live /\ next[task] \notin {NULL, task} /\ tasks_remove(task)

RingNext == \E t \in Tasks : Insert(t) \/ Remove(t)

RingSpec == RingInit /\ [][RingNext]_ringVars

-----------------------------------------------------------------------------
RingClosed == \A t \in live : next[t] \in live

RingInjective == \A t, u \in live : next[t] = next[u] => t = u

TailToHead == next[tasks_tail] = tasks

(* Following `next' from any task reaches every live task: a set of tasks  *)
(* that `next' never leaves is all of them.                                *)
RingConnected ==
  \A S \in SUBSET live :
    (S # {} /\ \A t \in S : next[t] \in S) => S = live

(* The list is one ring of all live tasks, closed from the tail to the     *)
(* head: a walk along next, as scheduler_next_running_task does, visits    *)
(* every live task and no other, whatever was inserted and removed.        *)
OneRing == RingClosed /\ RingInjective /\ TailToHead /\ RingConnected
=============================================================================
