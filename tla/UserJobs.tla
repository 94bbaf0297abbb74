------------------------------ MODULE UserJobs ------------------------------
(***************************************************************************)
(* The life of one job id: the enqueue in the api, the queue entry, the    *)
(* attempts in the worker, the durable row that mirrors them, the owner's  *)
(* mutations (retry, cancel, remove) and the orphan reconciler.  Every     *)
(* actor is split at its awaits, so any two of them interleave.            *)
(*                                                                         *)
(* Statements about different ids touch different rows and different queue *)
(* entries, so one id is enough.  Ids are reused: a second request for the *)
(* same account computes the same id.                                      *)
(***************************************************************************)
EXTENDS UserJobRow, FiniteSets

CONSTANTS
  Requests,    \* clicks that compute this id, each with its own requestId
  Slots,       \* attempts that can be in some worker process at one time
  Attempts,    \* attempts allowed (JobsOptions.attempts)
  MaxStalled,  \* stalls the queue forgives before it fails the job
  Limit,       \* how often each budgeted event may happen in a behaviour
  Nobody       \* no request, or no slot

Budgeted == {"retry", "cancel", "dismiss", "handBack", "loseLock", "die",
             "apiCrash", "timeout", "fault", "evict"}

ASSUME ConstantsAssumption ==
  /\ Attempts \in Nat \ {0}
  /\ MaxStalled \in Nat
  /\ Limit \in [Budgeted -> Nat]
  /\ Nobody \notin Requests \cup Slots

VARIABLES
  row,         \* the user_jobs row of the id
  job,         \* the queue's entry under the id
  run,         \* per slot: where its attempt is
  enq,         \* per request: where its enqueue is
  retry,       \* the retry mutation in progress, if any
  detach,      \* a queue removal owed by a cancel or remove mutation
  reconciler,  \* how far the orphan reconciler has got with this row
  ran,         \* history: a handler started since the row was stamped
  cancelled,   \* history: the owner has cancelled while no retry was under way,
               \* and nobody has asked for the id again since
  pastGate,    \* history: slots past the gate when the owner last cancelled
  spent        \* events used up out of Limit

vars == <<row, job, run, enq, retry, detach, reconciler, ran, cancelled, pastGate,
          spent>>

-----------------------------------------------------------------------------
\* The queue's entry.  st is BullMQ's state; made its attemptsMade; holder the
\* slot whose lock token is valid; req the requestId in its payload.

JobType ==
  [st: {"none", "wait", "delayed", "active", "completed", "failed"},
   made: Nat, stalls: Nat, holder: Slots \cup {Nobody}, req: Requests \cup {Nobody}]

NoJob == [st |-> "none", made |-> 0, stalls |-> 0, holder |-> Nobody, req |-> Nobody]

Waiting(r) == [st |-> "wait", made |-> 0, stalls |-> 0, holder |-> Nobody, req |-> r]

Finished == {"completed", "failed"}

\* What an attempt threw: an ordinary error, or UnrecoverableError with or
\* without the sourceUnavailable brand.
Thrown == {"retryable", "unrecoverable", "source_unavailable"}

RunType == [pc: {"idle", "gate", "start", "handle", "succeeded", "threw", "listen"},
            made: Nat, why: Thrown]

Idle == [pc |-> "idle", made |-> 0, why |-> "retryable"]

\* call is what the caller sees; step the enqueue's own progress, which a
\* deadline abandons but does not stop.  evicted, landed and saw are history:
\* whether it removed a finished namesake, what the add did, and what the check
\* after it read.
EnqType == [call: {"idle", "wait", "failing", "ok", "error", "crashed"},
            step: {"off", "look", "evict", "add", "check"},
            stamped: BOOLEAN, evicted: BOOLEAN,
            landed: {"none", "inserted", "onLive", "onFinished"},
            saw: {"none", "missing", "live", "mine"}]

NotAsked == [call |-> "idle", step |-> "off", stamped |-> FALSE, evicted |-> FALSE,
             landed |-> "none", saw |-> "none"]

Spend(event) ==
  /\ spent[event] < Limit[event]
  /\ spent' = [spent EXCEPT ![event] = @ + 1]

\* A write to the row by a caller that survives its failure.
Write(written) ==
  \/ row' = written /\ UNCHANGED spent
  \/ Spend("fault") /\ UNCHANGED row

Holds(w) == job.st = "active" /\ job.holder = w

Init ==
  /\ row = Absent
  /\ job = NoJob
  /\ run = [w \in Slots |-> Idle]
  /\ enq = [r \in Requests |-> NotAsked]
  /\ retry = "idle"
  /\ detach = "idle"
  /\ reconciler = "idle"
  /\ ran = FALSE
  /\ cancelled = FALSE
  /\ pastGate = {}
  /\ spent = [e \in Budgeted |-> 0]

-----------------------------------------------------------------------------
\* The enqueue: BullMqEnqueueService.add.

\* The mirror row is written first.
EnqueueRow(r) ==
  /\ enq[r].call = "idle"
  /\ row' = InsertEnqueued(row)
  /\ ran' = (ran /\ ~StampsRow(row))
  /\ cancelled' = (cancelled /\ ~StampsRow(row))
  /\ enq' = [enq EXCEPT ![r].call = "wait", ![r].step = "look",
                        ![r].stamped = StampsRow(row)]
  /\ UNCHANGED <<job, run, retry, detach, reconciler, pastGate, spent>>

\* evictFinishedNamesake reads the entry ...
LookForNamesake(r) ==
  /\ enq[r].step = "look"
  /\ enq' = [enq EXCEPT ![r].step = IF job.st \in Finished THEN "evict" ELSE "add"]
  /\ UNCHANGED <<row, job, run, retry, detach, reconciler, ran, cancelled, pastGate, spent>>

\* An error in the enqueue reaches the caller unless the deadline already did.
Throw(r) ==
  enq' = [enq EXCEPT ![r].step = "off",
                     ![r].call = IF @ = "wait" THEN "failing" ELSE @]

\* ... and removes whatever is there by then.  A job in a worker's hands
\* cannot be removed: remove() throws.
EvictNamesake(r) ==
  /\ enq[r].step = "evict"
  /\ IF job.st = "active"
     THEN Throw(r) /\ UNCHANGED job
     ELSE /\ job' = NoJob
          /\ enq' = [enq EXCEPT ![r].step = "add", ![r].evicted = TRUE]
  /\ UNCHANGED <<row, run, retry, detach, reconciler, ran, cancelled, pastGate, spent>>

\* queue.add inserts, or does nothing at all on an occupied id.
AddToQueue(r) ==
  /\ enq[r].step = "add"
  /\ IF job.st = "none"
     THEN /\ job' = Waiting(r)
          /\ enq' = [enq EXCEPT ![r].step = "check", ![r].landed = "inserted"]
     ELSE /\ enq' = [enq EXCEPT ![r].step = "check",
                       ![r].landed = IF job.st \in Finished THEN "onFinished" ELSE "onLive"]
          /\ UNCHANGED job
  /\ UNCHANGED <<row, run, retry, detach, reconciler, ran, cancelled, pastGate, spent>>

\* A store call of the enqueue fails.
EnqueueFault(r) ==
  /\ enq[r].step # "off"
  /\ Spend("fault")
  /\ Throw(r)
  /\ UNCHANGED <<row, job, run, retry, detach, reconciler, ran, cancelled, pastGate>>

\* Mutant: an insert that did not throw is taken for success.
AssertNothing(r) ==
  /\ enq[r].step = "check"
  /\ enq' = [enq EXCEPT ![r].step = "off", ![r].call = IF @ = "wait" THEN "ok" ELSE @]
  /\ UNCHANGED <<row, job, run, retry, detach, reconciler, ran, cancelled, pastGate, spent>>

\* assertWorkWasQueued: a finished entry with somebody else's requestId means
\* the add collapsed onto it; a missing entry is taken for success.
AssertWorkWasQueued(r) ==
  /\ enq[r].step = "check"
  /\ IF job.st \in Finished /\ job.req # r
     THEN Throw(r)
     ELSE enq' = [enq EXCEPT ![r].step = "off",
                    ![r].call = IF @ = "wait" THEN "ok" ELSE @,
                    ![r].saw = CASE job.st = "none" -> "missing"
                                 [] job.st \in Finished -> "mine"
                                 [] OTHER -> "live"]
  /\ UNCHANGED <<row, job, run, retry, detach, reconciler, ran, cancelled, pastGate, spent>>

\* withDeadline rejects; the enqueue goes on behind the caller's back.
EnqueueTimeout(r) ==
  /\ enq[r].call = "wait"
  /\ Spend("timeout")
  /\ enq' = [enq EXCEPT ![r].call = "failing"]
  /\ UNCHANGED <<row, job, run, retry, detach, reconciler, ran, cancelled, pastGate>>

\* The catch block: the mirror row is failed, the error rethrown.
EnqueueFailed(r) ==
  /\ enq[r].call = "failing"
  /\ Write(MarkFailed(row, 0))
  /\ enq' = [enq EXCEPT ![r].call = "error"]
  /\ UNCHANGED <<job, run, retry, detach, reconciler, ran, cancelled, pastGate>>

ApiCrash(r) ==
  /\ enq[r].call \in {"wait", "failing"} \/ enq[r].step # "off"
  /\ Spend("apiCrash")
  /\ enq' = [enq EXCEPT ![r].step = "off",
                        ![r].call = IF @ \in {"wait", "failing"} THEN "crashed" ELSE @]
  /\ UNCHANGED <<row, job, run, retry, detach, reconciler, ran, cancelled, pastGate>>

-----------------------------------------------------------------------------
\* An attempt: WorkerClient.runJob around UserJobProcessor.process.

Goto(w, pc) == run' = [run EXCEPT ![w].pc = pc]

\* The worker takes the job.  One that stalled past the limit is failed as
\* unrecoverable without being dispatched.
PickUp(w) ==
  /\ run[w].pc = "idle"
  /\ job.st = "wait"
  /\ job' = [job EXCEPT !.st = "active", !.holder = w]
  /\ run' = [run EXCEPT ![w] =
       IF job.stalls > MaxStalled
       THEN [pc |-> "threw", made |-> job.made + 1, why |-> "unrecoverable"]
       ELSE [pc |-> "gate", made |-> job.made + 1, why |-> "retryable"]]
  /\ pastGate' = pastGate \ {w}
  /\ UNCHANGED <<row, enq, retry, detach, reconciler, ran, cancelled, spent>>

\* Mutant: no gate.
CheckNoGate(w) ==
  /\ run[w].pc = "gate"
  /\ Goto(w, "start")
  /\ UNCHANGED <<row, job, enq, retry, detach, reconciler, ran, cancelled, pastGate, spent>>

\* The cancellation gate; a cancelled job throws UnrecoverableError.
CheckGate(w) ==
  /\ run[w].pc = "gate"
  /\ run' = [run EXCEPT ![w] = IF IsCancelled(row)
                               THEN [@ EXCEPT !.pc = "threw", !.why = "unrecoverable"]
                               ELSE [@ EXCEPT !.pc = "start"]]
  /\ UNCHANGED <<row, job, enq, retry, detach, reconciler, ran, cancelled, pastGate, spent>>

\* No processor, an invalid payload or a failed read of the gate: the attempt
\* throws before any lifecycle event.
ThrowEarly(w) ==
  /\ run[w].pc = "gate"
  /\ Spend("fault")
  /\ Goto(w, "threw")
  /\ UNCHANGED <<row, job, enq, retry, detach, reconciler, ran, cancelled, pastGate>>

FireActive(w) ==
  /\ run[w].pc = "start"
  /\ Write(MarkActive(row, run[w].made))
  /\ ran' = TRUE
  /\ Goto(w, "handle")
  /\ UNCHANGED <<job, enq, retry, detach, reconciler, cancelled, pastGate>>

ReportProgress(w) ==
  /\ run[w].pc = "handle"
  /\ Write(UpdateProgress(row))
  /\ UNCHANGED <<job, run, enq, retry, detach, reconciler, ran, cancelled, pastGate>>

FireCompleted(w) ==
  /\ run[w].pc = "handle"
  /\ Write(MarkCompleted(row))
  /\ Goto(w, "succeeded")
  /\ UNCHANGED <<job, enq, retry, detach, reconciler, ran, cancelled, pastGate>>

FireFailed(w) ==
  /\ run[w].pc = "handle"
  /\ Write(MarkFailed(row, run[w].made))
  /\ \E why \in Thrown : run' = [run EXCEPT ![w].pc = "threw", ![w].why = why]
  /\ UNCHANGED <<job, enq, retry, detach, reconciler, ran, cancelled, pastGate>>

\* The queue records the outcome, if the attempt still holds the lock.
CommitCompleted(w) ==
  /\ run[w].pc = "succeeded"
  /\ job' = IF Holds(w) THEN [job EXCEPT !.st = "completed", !.holder = Nobody] ELSE job
  /\ run' = [run EXCEPT ![w] = Idle]
  /\ UNCHANGED <<row, enq, retry, detach, reconciler, ran, cancelled, pastGate, spent>>

\* Mutant: one attempt too many.
GivesUpLate(w) == run[w].why # "retryable" \/ job.made >= Attempts

\* The queue stops on UnrecoverableError or on the last allowed attempt.
GivesUp(w) == run[w].why # "retryable" \/ job.made + 1 >= Attempts

CommitFailed(w) ==
  /\ run[w].pc = "threw"
  /\ IF Holds(w)
     THEN /\ job' = [job EXCEPT !.st = IF GivesUp(w) THEN "failed" ELSE "delayed",
                                !.made = @ + 1, !.holder = Nobody]
          /\ run' = [run EXCEPT ![w] = IF GivesUp(w) THEN [@ EXCEPT !.pc = "listen"]
                                                     ELSE Idle]
     ELSE /\ run' = [run EXCEPT ![w] = Idle]
          /\ UNCHANGED job
  /\ UNCHANGED <<row, enq, retry, detach, reconciler, ran, cancelled, pastGate, spent>>

\* The 'failed' listener: jobDeathReason, then markDead.
DeathReason(w) ==
  IF run[w].why = "retryable" THEN "retries_exhausted" ELSE run[w].why

\* Mutant: only an exhausted budget is recorded.
ListenerMarksExhausted(w) ==
  /\ run[w].pc = "listen"
  /\ Write(IF run[w].why = "retryable"
           THEN MarkDead(row, DeathReason(w), run[w].made) ELSE row)
  /\ run' = [run EXCEPT ![w] = Idle]
  /\ UNCHANGED <<job, enq, retry, detach, reconciler, ran, cancelled, pastGate>>

ListenerMarksDead(w) ==
  /\ run[w].pc = "listen"
  /\ Write(MarkDead(row, DeathReason(w), run[w].made))
  /\ run' = [run EXCEPT ![w] = Idle]
  /\ UNCHANGED <<job, enq, retry, detach, reconciler, ran, cancelled, pastGate>>

PromoteDelayed ==
  /\ job.st = "delayed"
  /\ job' = [job EXCEPT !.st = "wait"]
  /\ UNCHANGED <<row, run, enq, retry, detach, reconciler, ran, cancelled, pastGate, spent>>

\* A graceful shutdown moves the job back to waiting; the handler cannot be
\* stopped and runs on until it ends or the process exits.
HandBack(w) ==
  /\ run[w].pc \in {"gate", "start", "handle", "succeeded", "threw"}
  /\ Holds(w)
  /\ Spend("handBack")
  /\ job' = [job EXCEPT !.st = "wait", !.holder = Nobody]
  /\ UNCHANGED <<row, run, enq, retry, detach, reconciler, ran, cancelled, pastGate>>

\* The process exits or is killed: nothing more of the attempt happens.
Die(w) ==
  /\ run[w].pc # "idle"
  /\ Spend("die")
  /\ run' = [run EXCEPT ![w] = Idle]
  /\ UNCHANGED <<row, job, enq, retry, detach, reconciler, ran, cancelled, pastGate>>

\* The stalled check returns an active job nobody renews the lock of: its
\* slot is gone, or its process was blocked for longer than the lock lasts.
ReclaimStalled ==
  /\ job.st = "active"
  /\ \/ run[job.holder].pc = "idle" /\ UNCHANGED spent
     \/ run[job.holder].pc # "idle" /\ Spend("loseLock")
  /\ job' = [job EXCEPT !.st = "wait", !.holder = Nobody, !.stalls = @ + 1]
  /\ UNCHANGED <<row, run, enq, retry, detach, reconciler, ran, cancelled, pastGate>>

\* removeOnComplete / removeOnFail: the queue keeps only so many finished jobs.
EvictFinished ==
  /\ job.st \in Finished
  /\ Spend("evict")
  /\ job' = NoJob
  /\ UNCHANGED <<row, run, enq, retry, detach, reconciler, ran, cancelled, pastGate>>

-----------------------------------------------------------------------------
\* The owner's mutations: the jobs router.

\* retry reads the row and decides whether it allows a retry ...
RetryReads ==
  /\ retry = "idle"
  /\ Spend("retry")
  /\ RowAllowsRetry(row)
  /\ retry' = "asked"
  /\ UNCHANGED <<row, job, run, enq, detach, reconciler, ran, cancelled, pastGate>>

\* Mutant: resetAttemptsMade left out (SC-167).
RetryJobKeepsAttempts ==
  /\ retry = "asked"
  /\ IF job.st = "failed"
     THEN job' = [job EXCEPT !.st = "wait"] /\ retry' = "requeued"
     ELSE retry' = "idle" /\ UNCHANGED job
  /\ UNCHANGED <<row, run, enq, detach, reconciler, ran, cancelled, pastGate, spent>>

\* ... asks the queue to run the job again, which only a failed job accepts,
\* with its attempts reset (whether its stalls are is the queue's business) ...
RetryJob ==
  /\ retry = "asked"
  /\ IF job.st = "failed"
     THEN /\ \E stalls \in {0, job.stalls} :
               job' = [job EXCEPT !.st = "wait", !.made = 0, !.stalls = stalls]
          /\ retry' = "requeued"
     ELSE retry' = "idle" /\ UNCHANGED job
  /\ UNCHANGED <<row, run, enq, detach, reconciler, ran, cancelled, pastGate, spent>>

\* ... and only then resets the row.
RetryResetsRow ==
  /\ retry = "requeued"
  /\ row' = MarkRequeued(row)
  /\ retry' = "idle"
  /\ UNCHANGED <<job, run, enq, detach, reconciler, ran, cancelled, pastGate, spent>>

RetryCrash ==
  /\ retry # "idle"
  /\ Spend("apiCrash")
  /\ retry' = "idle"
  /\ UNCHANGED <<row, job, run, enq, detach, reconciler, ran, cancelled, pastGate>>

Running(w) == run[w].pc \in {"start", "handle"}

\* cancel locks the row first ...
CancelMarksRow ==
  /\ detach = "idle"
  /\ Spend("cancel")
  /\ row.state \in InFlight
  /\ row' = MarkCancelled(row)
  /\ cancelled' = (retry = "idle")
  /\ pastGate' = {w \in Slots : Running(w)}
  /\ detach' = "owed"
  /\ UNCHANGED <<job, run, enq, retry, reconciler, ran>>

\* remove (dismiss) stamps a failed row first ...
DismissMarksRow ==
  /\ detach = "idle"
  /\ Spend("dismiss")
  /\ row.state = "failed" /\ ~row.dismissed
  /\ row' = DismissFailed(row)
  /\ detach' = "owed"
  /\ UNCHANGED <<job, run, enq, retry, reconciler, ran, cancelled, pastGate>>

\* ... and both then drop the queue entry, best effort: an active job stays.
DetachFromQueue ==
  /\ detach = "owed"
  /\ detach' = "idle"
  /\ job' = IF job.st = "active" THEN job ELSE NoJob
  /\ UNCHANGED <<row, run, enq, retry, reconciler, ran, cancelled, pastGate, spent>>

-----------------------------------------------------------------------------
\* The orphan reconciler: read the old queued rows, ask the queue, mark dead.

ReconcilerFinds ==
  /\ reconciler = "idle"
  /\ IsOrphanedQueued(row)
  /\ reconciler' = "found"
  /\ UNCHANGED <<row, job, run, enq, retry, detach, ran, cancelled, pastGate, spent>>

\* Mutant: the queue is not asked.
ReconcilerAsksNothing ==
  /\ reconciler = "found"
  /\ reconciler' = "missing"
  /\ UNCHANGED <<row, job, run, enq, retry, detach, ran, cancelled, pastGate, spent>>

ReconcilerAsks ==
  /\ reconciler = "found"
  /\ reconciler' = IF job.st = "none" THEN "missing" ELSE "idle"
  /\ UNCHANGED <<row, job, run, enq, retry, detach, ran, cancelled, pastGate, spent>>

ReconcilerMarksDead ==
  /\ reconciler = "missing"
  /\ Write(MarkDead(row, "never_delivered", 0))
  /\ reconciler' = "idle"
  /\ UNCHANGED <<job, run, enq, retry, detach, ran, cancelled, pastGate>>

\* The row outlives the 30s cutoff.  The enqueue that stamped it is over by
\* then, one way or the other: its deadline is 10s.
CutoffPasses ==
  /\ Exists(row) /\ ~row.old
  /\ \A r \in Requests : enq[r].stamped => enq[r].call # "wait"
  /\ row' = [row EXCEPT !.old = TRUE]
  /\ UNCHANGED <<job, run, enq, retry, detach, reconciler, ran, cancelled, pastGate, spent>>

-----------------------------------------------------------------------------
EnqueueStep(r) ==
  \/ EnqueueRow(r) \/ LookForNamesake(r) \/ EvictNamesake(r) \/ AddToQueue(r)
  \/ AssertWorkWasQueued(r) \/ EnqueueFailed(r)
  \/ EnqueueFault(r) \/ EnqueueTimeout(r) \/ ApiCrash(r)

SlotStep(w) ==
  \/ PickUp(w) \/ CheckGate(w) \/ ThrowEarly(w) \/ FireActive(w)
  \/ ReportProgress(w) \/ FireCompleted(w) \/ FireFailed(w)
  \/ CommitCompleted(w) \/ CommitFailed(w) \/ ListenerMarksDead(w)
  \/ HandBack(w) \/ Die(w)

OwnerStep ==
  \/ RetryReads \/ RetryJob \/ RetryResetsRow \/ RetryCrash
  \/ CancelMarksRow \/ DismissMarksRow \/ DetachFromQueue

ReconcilerStep == ReconcilerFinds \/ ReconcilerAsks \/ ReconcilerMarksDead

QueueStep == PromoteDelayed \/ ReclaimStalled \/ EvictFinished

Next ==
  \/ \E r \in Requests : EnqueueStep(r)
  \/ \E w \in Slots : SlotStep(w)
  \/ OwnerStep \/ ReconcilerStep \/ QueueStep \/ CutoffPasses

Spec == Init /\ [][Next]_vars
-----------------------------------------------------------------------------
\* Fairness: the api, the worker's event loop and the queue keep working; the
\* stalled check and the reconciler run on timers.  Nothing is assumed of the
\* owner, of crashes or of faults.
FairSpec ==
  /\ Spec
  /\ \A r \in Requests :
       /\ WF_vars(LookForNamesake(r)) /\ WF_vars(EvictNamesake(r))
       /\ WF_vars(AddToQueue(r)) /\ WF_vars(AssertWorkWasQueued(r))
       /\ WF_vars(EnqueueFailed(r))
  /\ \A w \in Slots :
       /\ SF_vars(PickUp(w)) /\ WF_vars(CheckGate(w)) /\ WF_vars(FireActive(w))
       /\ WF_vars(FireCompleted(w) \/ FireFailed(w))
       /\ WF_vars(CommitCompleted(w)) /\ WF_vars(CommitFailed(w))
       /\ WF_vars(ListenerMarksDead(w))
  /\ WF_vars(PromoteDelayed) /\ WF_vars(ReclaimStalled)
  /\ WF_vars(RetryJob) /\ WF_vars(RetryResetsRow) /\ WF_vars(DetachFromQueue)
  /\ WF_vars(ReconcilerFinds) /\ WF_vars(ReconcilerAsks)
  /\ WF_vars(ReconcilerMarksDead) /\ WF_vars(CutoffPasses)

-----------------------------------------------------------------------------
\* Every variable has its type, and exactly an active job is locked.
TypeOK ==
  /\ row \in RowType
  /\ job \in JobType
  /\ job.holder \in Slots <=> job.st = "active"
  /\ run \in [Slots -> RunType]
  /\ enq \in [Requests -> EnqType]
  /\ retry \in {"idle", "asked", "requeued"}
  /\ detach \in {"idle", "owed"}
  /\ reconciler \in {"idle", "found", "missing"}
  /\ ran \in BOOLEAN
  /\ cancelled \in BOOLEAN
  /\ pastGate \in SUBSET Slots
  /\ spent \in [Budgeted -> Nat]

\* A cancelled row is failed and dead, which every guard of the row relies on.
CancelledStaysFailed == row.reason = "cancelled" => row.state = "failed" /\ row.dead

\* The owner's cancel stands: no active, progress, completed, failed or dead
\* write of an attempt, of the enqueue or of the reconciler takes it off the row
\* (SC-1607).  Only a new request for the id starts the row over, and the reset
\* of a retry that had asked the queue before the cancel (jobs.ts:316).
CancelStands ==
  [][row.reason = "cancelled" =>
       \/ row'.reason = "cancelled" /\ row'.state = "failed" /\ row'.dead
       \/ \E r \in Requests : enq[r].call = "idle" /\ enq'[r].call = "wait"
       \/ retry = "requeued" /\ retry' = "idle"]_vars

\* Once the owner has cancelled, the only handlers that run are those that had
\* passed the cancellation gate before, until somebody asks for the id again: no
\* hand-back, stall, backoff or later retry starts another one (the gate in
\* UserJobProcessor.process).  A cancel that came while a retry was under way is
\* not meant: that retry's reset erases it, and the job runs.
NoRunAfterCancel == cancelled => \A w \in Slots : Running(w) => w \in pastGate

\* Until then the row says so, and no retry is under way.
CancelOnRow == cancelled => row.reason = "cancelled" /\ retry = "idle"

\* A job that finished is not dead: a completed row carries no verdict.
CompletedIsNotDead == row.state = "completed" => ~row.dead /\ row.reason = "none"

\* The row never shows more attempts than the job was allowed, over any number
\* of retries by the owner, stalls and hand-backs (SC-167).
AttemptsWithinBudget == row.made <= Attempts

\* A row is dead for a reason, and only then.
DeadForAReason == row.dead <=> row.reason # "none"

\* A job that will run again has an attempt left, and no attempt under way
\* counts past the budget.
AttemptsLeft ==
  /\ job.st \in {"wait", "delayed", "active"} => job.made < Attempts
  /\ \A w \in Slots : run[w].made <= Attempts

\* The inductive invariant behind the safety properties above.
IInv ==
  /\ TypeOK
  /\ CancelledStaysFailed
  /\ NoRunAfterCancel
  /\ CancelOnRow
  /\ CompletedIsNotDead
  /\ AttemptsWithinBudget
  /\ DeadForAReason
  /\ AttemptsLeft

\* The first terminal verdict on a dead row stands: a later one never relabels
\* it, unless the owner cancels a run that was under way again.
VerdictStands ==
  [][row.dead /\ row'.dead => row'.reason \in {row.reason, "cancelled"}]_vars

\* Somebody may have removed the finished job r's add has landed on: another
\* enqueue, the owner, or the queue's retention.
TakenAway(r) ==
  \/ \E q \in Requests \ {r} : enq[q].evicted
  \/ \E e \in {"cancel", "dismiss", "evict"} : spent[e] > 0

\* An enqueue that returned an id owes its caller live work under that id: when
\* its add landed on a finished job, that job was live again when asked, or had
\* been taken away by somebody else (SC-846; a missing job is taken for success).
ReceiptMeansWork ==
  \A r \in Requests :
    enq[r].call = "ok" /\ enq[r].landed = "onFinished" =>
      \/ enq[r].saw = "live"
      \/ enq[r].saw = "missing" /\ TakenAway(r)

\* No second enqueue of this id so far, and none of these events.
OneRequest ==
  \A r, q \in Requests : enq[r].call # "idle" /\ enq[q].call # "idle" => r = q
NoneYet(events) == \A e \in events : spent[e] = 0

\* "Never delivered" is only said of a job no handler of which has started: the
\* reconciler's three steps race with the enqueue and the worker, and lose only
\* to an entry that is removed or added behind its back.
NeverDeliveredMeansNeverRan ==
  /\ OneRequest /\ NoneYet({"retry", "dismiss", "evict", "timeout"})
  /\ row.reason = "never_delivered" /\ row.state = "failed"
  => ~ran

\* When the queue holds the job as completed, the row says completed too, or
\* that its owner cancelled it, unless a write was lost or somebody else had the
\* job or the row at the same time.
CompletionReachesRow ==
  /\ OneRequest /\ NoneYet({"retry", "handBack", "loseLock", "timeout", "fault"})
  /\ job.st = "completed"
  => row.state = "completed" \/ row.reason = "cancelled"

\* The row leaves "queued": it is run, given up on, cancelled or found orphaned.
QueuedRowSettles == row.state = "queued" ~> row.state # "queued"

\* A job under way comes to a verdict.
RowReachesVerdict == row.state \in InFlight ~> row.state \in Terminal
=============================================================================
