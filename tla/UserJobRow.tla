----------------------------- MODULE UserJobRow -----------------------------
(***************************************************************************)
(* One row of the table user_jobs and the statements UserJobRepository     *)
(* issues on it.  Each statement is one UPDATE (or upsert), so each is one *)
(* atomic function from the row to the row; a WHERE clause that does not   *)
(* match leaves the row alone.                                             *)
(*                                                                         *)
(* Columns kept: state, attempts_made, dead_at (set or not),               *)
(* failure_reason, dismissed_at (set or not), created_at (past the orphan  *)
(* cutoff or not).  Payloads, results, messages and timestamps only read   *)
(* by the UI are left out.                                                 *)
(***************************************************************************)
EXTENDS Naturals

InFlight == {"queued", "active", "progress"}
Terminal == {"completed", "failed"}

\* Why the row says nothing more will happen; "none" is the SQL null.
DeathReasons == {"retries_exhausted", "source_unavailable", "unrecoverable",
                 "never_delivered"}
Reasons == DeathReasons \cup {"cancelled", "none"}

\* state "absent": no row has been inserted under this job id yet.
RowType == [state: InFlight \cup Terminal \cup {"absent"}, made: Nat,
            dead: BOOLEAN, reason: Reasons, dismissed: BOOLEAN, old: BOOLEAN]

Absent == [state |-> "absent", made |-> 0, dead |-> FALSE, reason |-> "none",
           dismissed |-> FALSE, old |-> FALSE]

Fresh == [state |-> "queued", made |-> 0, dead |-> FALSE, reason |-> "none",
          dismissed |-> FALSE, old |-> FALSE]

Exists(row) == row.state # "absent"

\* The insert starts a row, or starts a finished row over.
StampsRow(row) == row.state \notin InFlight

InsertEnqueued(row) ==
  IF StampsRow(row) THEN Fresh ELSE row

\* Mutant: the guard the other writes have.
MarkActiveInFlightOnly(row, made) ==
  IF row.state \in InFlight
  THEN [row EXCEPT !.state = "active", !.made = made]
  ELSE row

\* Guarded by the reason only: an attempt revives a row in any other state.
MarkActive(row, made) ==
  IF Exists(row) /\ row.reason # "cancelled"
  THEN [row EXCEPT !.state = "active", !.made = made]
  ELSE row

UpdateProgress(row) ==
  IF row.state \in InFlight THEN [row EXCEPT !.state = "progress"] ELSE row

\* Mutant: a success is written over whatever the row says.
MarkCompletedUnguarded(row) ==
  [row EXCEPT !.state = "completed", !.dead = FALSE, !.reason = "none"]

MarkCompleted(row) ==
  IF row.state \in InFlight
  THEN [row EXCEPT !.state = "completed", !.dead = FALSE, !.reason = "none"]
  ELSE row

MarkFailed(row, made) ==
  IF row.state \in InFlight
  THEN [row EXCEPT !.state = "failed", !.made = made]
  ELSE row

\* Mutant: the last verdict wins.
MarkDeadUnguarded(row, reason, made) ==
  IF Exists(row)
  THEN [row EXCEPT !.state = "failed", !.dead = TRUE, !.reason = reason,
                   !.made = made]
  ELSE row

\* No state guard: the first terminal verdict wins, whatever the state.
MarkDead(row, reason, made) ==
  IF Exists(row) /\ ~row.dead
  THEN [row EXCEPT !.state = "failed", !.dead = TRUE, !.reason = reason,
                   !.made = made]
  ELSE row

MarkCancelled(row) ==
  IF row.state \in InFlight
  THEN [row EXCEPT !.state = "failed", !.dead = TRUE, !.reason = "cancelled"]
  ELSE row

IsCancelled(row) == row.reason = "cancelled"

\* No guard at all, and attempts_made and created_at are kept.
MarkRequeued(row) ==
  IF Exists(row)
  THEN [row EXCEPT !.state = "queued", !.dead = FALSE, !.reason = "none"]
  ELSE row

DismissFailed(row) ==
  IF row.state = "failed" THEN [row EXCEPT !.dismissed = TRUE] ELSE row

IsOrphanedQueued(row) == row.state = "queued" /\ row.old

\* The api's describeRetryAvailability, as far as the row decides it.
RowAllowsRetry(row) ==
  /\ row.state = "failed"
  /\ row.reason \notin {"cancelled", "never_delivered", "unrecoverable"}
=============================================================================
