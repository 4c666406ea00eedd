------------------------------ MODULE PagePool ------------------------------
(***************************************************************************)
(* What the physical page allocator promises: a page handed out is a page  *)
(* of the pool, not reserved and not handed out already, and a request     *)
(* fails only when there is none.                                          *)
(***************************************************************************)
EXTENDS Integers

CONSTANT NoPage

VARIABLES
  pool,      \* the pages the allocator manages
  owned,     \* pages handed out and not returned
  page,      \* the outcome of the last request
  requests   \* how many there were, modulo 2: a request is always seen

vars == <<pool, owned, page, requests>>

Init == pool = {} /\ owned = {} /\ page = NoPage /\ requests = 0

(* The boot code sets up the pool.                                         *)
Fill(S) == owned = {} /\ pool' = S /\ UNCHANGED <<owned, page, requests>>

Alloc(p) ==
  /\ p \in pool \ owned
  /\ owned' = owned \cup {p}
  /\ page' = p
  /\ requests' = 1 - requests
  /\ UNCHANGED pool

Exhausted ==
  /\ pool \subseteq owned
  /\ page' = NoPage
  /\ requests' = 1 - requests
  /\ UNCHANGED <<pool, owned>>

Free(p) ==
  /\ p \in owned
  /\ owned' = owned \ {p}
  /\ UNCHANGED <<pool, page, requests>>

Next ==
  \/ \E S \in {pool'} : Fill(S)
  \/ \E p \in pool : Alloc(p)
  \/ \E p \in owned : Free(p)
  \/ Exhausted

Spec == Init /\ [][Next]_vars
=============================================================================
