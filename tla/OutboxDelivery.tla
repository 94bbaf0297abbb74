--------------------------- MODULE OutboxDelivery ---------------------------
(***************************************************************************)
(* What the outbox promises its readers, without the dispatchers: an event *)
(* exists once its transaction has committed, and no event reaches its     *)
(* owner's channel for the first time before the owner's older events that *)
(* were committed before it.  Of two transactions that were open together, *)
(* the one with the later id may commit and be delivered first.  Repeats   *)
(* are allowed.                                                            *)
(***************************************************************************)
EXTENDS Naturals

CONSTANTS
  Ids,      \* ids of outbox rows, in the order they were handed out
  Owner     \* the user each row belongs to

VARIABLES
  committed,   \* rows whose transaction has committed
  ahead,       \* per row: what has to reach the channel before it
  delivered    \* rows that have reached their owner's channel

vars == <<committed, ahead, delivered>>

Init == committed = {} /\ ahead = [i \in Ids |-> {}] /\ delivered = {}

\* Rows of one owner older than i, out of S.
Older(S, i) == {j \in S : j < i /\ Owner[j] = Owner[i]}

Commit(i) ==
  /\ i \notin committed
  /\ committed' = committed \cup {i}
  /\ ahead' = [ahead EXCEPT ![i] = Older(committed, i)]
  /\ UNCHANGED delivered

\* A row that was delivered may be delivered again, which changes nothing here.
Deliver(i) ==
  /\ i \in committed
  /\ ahead[i] \subseteq delivered
  /\ delivered' = delivered \cup {i}
  /\ UNCHANGED <<committed, ahead>>

Next == \E i \in Ids : Commit(i) \/ Deliver(i)

Spec == Init /\ [][Next]_vars
=============================================================================
