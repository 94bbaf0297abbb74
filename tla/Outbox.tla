------------------------------- MODULE Outbox -------------------------------
(***************************************************************************)
(* The transactional outbox: writers append a row in their transaction and *)
(* kick after the commit; each worker process runs one OutboxDispatcher    *)
(* loop, and an advisory lock keeps all but one of them out of a drain.    *)
(*                                                                         *)
(* A row is its id: payloads and envelopes are left out.  Rows without an  *)
(* owner are left out too, because OutboxWriter.append refuses them.       *)
(***************************************************************************)
EXTENDS Naturals, FiniteSets

CONSTANTS
  MaxId,        \* rows appended in a behaviour
  Users,        \* owners of rows
  Owner,        \* the owner of each row
  Dispatchers,  \* worker processes; two overlap during a deploy
  BatchSize,    \* rows read per pass
  MaxBackoffs,  \* failed passes a drain sleeps through before it gives up
  Limit,        \* how often each budgeted event may happen in a behaviour
  Nobody        \* not a dispatcher

Ids == 1..MaxId

Budgeted == {"loseKick", "publishFault", "dbFault", "lockFault", "loseLock",
             "stop", "crash"}

ASSUME ConstantsAssumption ==
  /\ MaxId \in Nat
  /\ Owner \in [Ids -> Users]
  /\ BatchSize \in Nat \ {0}
  /\ MaxBackoffs \in Nat
  /\ Limit \in [Budgeted -> Nat]
  /\ Nobody \notin Dispatchers

VARIABLES
  next,       \* the next value of the id sequence
  txn,        \* per id: the transaction that appended the row
  unkicked,   \* committed rows whose writer has still to kick
  published,  \* rows with published_at set, and those pruned since: gone either way
  lock,       \* holder of the advisory lock, as the database sees it
  disp,       \* per process: where its loop is
  flight,     \* publishes given up on that may still arrive
  delivered,  \* rows that have reached their owner's channel
  heard,      \* history: rows whose kick reached every process that was up
  ahead,      \* history: the owner's older rows that were committed when a row was
  spent       \* events used up out of Limit

vars == <<next, txn, unkicked, published, lock, disp, flight, delivered, heard, ahead, spent>>

-----------------------------------------------------------------------------
\* A loop: "off", the process is down; "dead", the process is up but the loop
\* has ended with an error; otherwise where run() is.  todo and done are the
\* batch; sleeps counts the drain's backoffs; failed is the pass's outcome.
DispType ==
  [pc: {"off", "dead", "wait", "lock", "read", "publish", "mark", "prune", "release"},
   kicked: BOOLEAN, swept: BOOLEAN, stop: BOOLEAN, failed: BOOLEAN,
   todo: SUBSET Ids, done: SUBSET Ids, sleeps: Nat]

Off == [pc |-> "off", kicked |-> FALSE, swept |-> FALSE, stop |-> FALSE,
        failed |-> FALSE, todo |-> {}, done |-> {}, sleeps |-> 0]

\* Subscribed to the kicks and waiting for one, or for the sweep.
Up(d) == disp[d].pc \notin {"off", "dead"}

Committed == {i \in Ids : txn[i] = "committed"}

\* The row is inserted in the caller's transaction: a rollback takes both.
Visible(i) == txn[i] = "committed"

Unpublished == {i \in Ids : Visible(i)} \ published

\* The first BatchSize rows of S, by id.
Oldest(S) == {i \in S : Cardinality({j \in S : j < i}) < BatchSize}

Spend(event) ==
  /\ spent[event] < Limit[event]
  /\ spent' = [spent EXCEPT ![event] = @ + 1]

Init ==
  /\ next = 1
  /\ txn = [i \in Ids |-> "none"]
  /\ unkicked = {} /\ published = {}
  /\ lock = Nobody
  /\ disp = [d \in Dispatchers |-> Off]
  /\ flight = {} /\ delivered = {} /\ heard = {}
  /\ ahead = [i \in Ids |-> {}]
  /\ spent = [e \in Budgeted |-> 0]

-----------------------------------------------------------------------------
\* The writers.

\* OutboxWriter.append takes the next id; the row is visible to nobody yet.
Append ==
  /\ next \in Ids
  /\ txn' = [txn EXCEPT ![next] = "open"]
  /\ next' = next + 1
  /\ UNCHANGED <<unkicked, published, lock, disp, flight, delivered, heard, ahead, spent>>

\* The ids come from a sequence and the transactions commit in any order: the
\* id orders two rows of a user only when the older one was committed first.
Commit(i) ==
  /\ txn[i] = "open"
  /\ txn' = [txn EXCEPT ![i] = "committed"]
  /\ ahead' = [ahead EXCEPT ![i] = {j \in Committed : j < i /\ Owner[j] = Owner[i]}]
  /\ unkicked' = unkicked \cup {i}
  /\ UNCHANGED <<next, published, lock, disp, flight, delivered, heard, spent>>

Rollback(i) ==
  /\ txn[i] = "open"
  /\ txn' = [txn EXCEPT ![i] = "rolledback"]
  /\ UNCHANGED <<next, unkicked, published, lock, disp, flight, delivered, heard, ahead, spent>>

\* kickOutbox: a pub/sub message that reaches the loops subscribed now, or is
\* lost to some of them.
Kick(i) ==
  /\ i \in unkicked
  /\ unkicked' = unkicked \ {i}
  /\ \E reached \in SUBSET {d \in Dispatchers : Up(d)} :
       /\ disp' = [d \in Dispatchers |->
                     IF d \in reached THEN [disp[d] EXCEPT !.kicked = TRUE] ELSE disp[d]]
       /\ IF \A d \in Dispatchers : Up(d) => d \in reached
          THEN heard' = heard \cup (IF reached = {} THEN {} ELSE {i}) /\ UNCHANGED spent
          ELSE Spend("loseKick") /\ UNCHANGED heard
  /\ UNCHANGED <<next, txn, published, lock, flight, delivered, ahead>>

-----------------------------------------------------------------------------
\* The loop: OutboxDispatcher.run.

\* The worker boots, or boots again.
Start(d) ==
  /\ disp[d].pc = "off"
  /\ disp' = [disp EXCEPT ![d] = [Off EXCEPT !.pc = "wait"]]
  /\ UNCHANGED <<next, txn, unkicked, published, lock, flight, delivered, heard, ahead, spent>>

\* untilKickOrSweep resolves; swept is read before kicked is reset.
WakeOnKick(d) ==
  /\ disp[d].pc = "wait" /\ ~disp[d].stop /\ disp[d].kicked
  /\ disp' = [disp EXCEPT ![d].pc = "lock", ![d].swept = FALSE, ![d].kicked = FALSE]
  /\ UNCHANGED <<next, txn, unkicked, published, lock, flight, delivered, heard, ahead, spent>>

\* Mutant: the wait ends on a kick only.
SweepIgnored(d) ==
  /\ disp[d].pc = "wait" /\ ~disp[d].stop /\ ~disp[d].kicked
  /\ UNCHANGED vars

WakeOnSweep(d) ==
  /\ disp[d].pc = "wait" /\ ~disp[d].stop /\ ~disp[d].kicked
  /\ disp' = [disp EXCEPT ![d].pc = "lock", ![d].swept = TRUE]
  /\ UNCHANGED <<next, txn, unkicked, published, lock, flight, delivered, heard, ahead, spent>>

\* Mutant: no lock.
TakeNoLock(d) ==
  /\ disp[d].pc = "lock"
  /\ lock' = d
  /\ disp' = [disp EXCEPT ![d].pc = "read", ![d].sleeps = 0]
  /\ UNCHANGED <<next, txn, unkicked, published, flight, delivered, heard, ahead, spent>>

\* pg_try_advisory_lock: a loop that finds the lock taken skips the drain.
TryLock(d) ==
  /\ disp[d].pc = "lock"
  /\ IF lock = Nobody
     THEN /\ lock' = d
          /\ disp' = [disp EXCEPT ![d].pc = "read", ![d].sleeps = 0]
     ELSE /\ disp' = [disp EXCEPT ![d].pc = "wait", ![d].swept = FALSE]
          /\ UNCHANGED lock
  /\ UNCHANGED <<next, txn, unkicked, published, flight, delivered, heard, ahead, spent>>

\* The database fails the lock's connection, or the question whether it is
\* still held: the error leaves run(), and the loop ends.
LockFault(d) ==
  /\ disp[d].pc \in {"lock", "release"}
  /\ Spend("lockFault")
  /\ disp' = [disp EXCEPT ![d] = [Off EXCEPT !.pc = "dead"]]
  /\ lock' = IF lock = d THEN Nobody ELSE lock
  /\ UNCHANGED <<next, txn, unkicked, published, flight, delivered, heard, ahead>>

\* The drain is over; the sweep prunes.
Drained(d) == IF disp[d].swept THEN "prune" ELSE "release"

\* findUnpublished; an empty outbox ends the drain, and so does a stop.
ReadBatch(d) ==
  /\ disp[d].pc = "read"
  /\ LET batch == Oldest(Unpublished)
     IN  disp' = [disp EXCEPT
           ![d].pc = IF disp[d].stop \/ batch = {} THEN Drained(d) ELSE "publish",
           ![d].todo = IF disp[d].stop THEN {} ELSE batch]
  /\ UNCHANGED <<next, txn, unkicked, published, lock, flight, delivered, heard, ahead, spent>>

\* The next row of the batch is the oldest one left.
NextInBatch(d, i) ==
  /\ disp[d].pc = "publish"
  /\ i \in disp[d].todo
  /\ \A j \in disp[d].todo : i <= j

Publish(d) ==
  /\ \E i \in Ids :
       /\ NextInBatch(d, i)
       /\ delivered' = delivered \cup {i}
       /\ disp' = [disp EXCEPT ![d].todo = @ \ {i}, ![d].done = @ \cup {i},
                     ![d].pc = IF disp[d].todo = {i} THEN "mark" ELSE "publish"]
  /\ UNCHANGED <<next, txn, unkicked, published, lock, flight, heard, ahead, spent>>

\* Mutant: the pass goes on past a failed publish.
PublishFailsAndGoesOn(d) ==
  /\ Spend("publishFault")
  /\ \E i \in Ids :
       /\ NextInBatch(d, i)
       /\ disp' = [disp EXCEPT ![d].todo = @ \ {i}, ![d].failed = TRUE,
                     ![d].pc = IF disp[d].todo = {i} THEN "mark" ELSE "publish"]
  /\ UNCHANGED <<next, txn, unkicked, published, lock, flight, delivered, heard, ahead>>

\* Mutant: a row is done when its publish was tried.
PublishFailsIsDone(d) ==
  /\ Spend("publishFault")
  /\ \E i \in Ids :
       /\ NextInBatch(d, i)
       /\ disp' = [disp EXCEPT ![d].pc = "mark", ![d].failed = TRUE,
                               ![d].done = @ \cup {i}]
  /\ UNCHANGED <<next, txn, unkicked, published, lock, flight, delivered, heard, ahead>>

\* The publish rejects, or its deadline passes while it is still under way.
PublishFails(d) ==
  /\ Spend("publishFault")
  /\ \E i \in Ids :
       /\ NextInBatch(d, i)
       /\ flight' \in {flight, flight \cup {i}}
       /\ disp' = [disp EXCEPT ![d].pc = "mark", ![d].failed = TRUE]
  /\ UNCHANGED <<next, txn, unkicked, published, lock, delivered, heard, ahead>>

LateArrival(i) ==
  /\ i \in flight
  /\ flight' = flight \ {i}
  /\ delivered' = delivered \cup {i}
  /\ UNCHANGED <<next, txn, unkicked, published, lock, disp, heard, ahead, spent>>

\* A failed pass sleeps and is tried again, or the drain gives up at the cap.
AfterPass(d, failed) ==
  disp' = [disp EXCEPT
    ![d].pc = IF failed /\ disp[d].sleeps >= MaxBackoffs THEN Drained(d) ELSE "read",
    ![d].sleeps = IF failed /\ @ < MaxBackoffs THEN @ + 1 ELSE @,
    ![d].todo = {}, ![d].done = {}, ![d].failed = FALSE]

\* markPublished, of the rows whose publish resolved.
MarkPublished(d) ==
  /\ disp[d].pc = "mark"
  /\ published' = published \cup disp[d].done
  /\ AfterPass(d, disp[d].failed)
  /\ UNCHANGED <<next, txn, unkicked, lock, flight, delivered, heard, ahead, spent>>

\* A read or a mark that throws is a failed pass; what was published stays
\* unmarked and will be published again.
PassFault(d) ==
  /\ disp[d].pc \in {"read", "mark"} /\ (disp[d].pc = "read" => ~disp[d].stop)
  /\ Spend("dbFault")
  /\ AfterPass(d, TRUE)
  /\ UNCHANGED <<next, txn, unkicked, published, lock, flight, delivered, heard, ahead>>

\* prunePublished deletes old rows with published_at set, which stay gone; its
\* failure is swallowed.
Prune(d) ==
  /\ disp[d].pc = "prune"
  /\ disp' = [disp EXCEPT ![d].pc = "release"]
  /\ UNCHANGED <<next, txn, unkicked, published, lock, flight, delivered, heard, ahead, spent>>

\* Mutant: the kick is reset after the drain.
ReleaseForgetsKick(d) ==
  /\ disp[d].pc = "release"
  /\ lock = d /\ lock' = Nobody
  /\ disp' = [disp EXCEPT ![d].pc = "wait", ![d].swept = FALSE, ![d].sleeps = 0,
                         ![d].kicked = FALSE]
  /\ UNCHANGED <<next, txn, unkicked, published, flight, delivered, heard, ahead, spent>>

\* withAdvisoryLock asserts it still holds the lock and ends its session; a
\* lock that was lost on the way is thrown out of run().
Release(d) ==
  /\ disp[d].pc = "release"
  /\ IF lock = d
     THEN /\ lock' = Nobody
          /\ disp' = [disp EXCEPT ![d].pc = "wait", ![d].swept = FALSE, ![d].sleeps = 0]
     ELSE disp' = [disp EXCEPT ![d] = [Off EXCEPT !.pc = "dead"]] /\ UNCHANGED lock
  /\ UNCHANGED <<next, txn, unkicked, published, flight, delivered, heard, ahead, spent>>

\* The lock's connection dies: the database frees the lock, the drain goes on.
LoseLock(d) ==
  /\ lock = d
  /\ Spend("loseLock")
  /\ lock' = Nobody
  /\ UNCHANGED <<next, txn, unkicked, published, disp, flight, delivered, heard, ahead>>

\* A graceful stop sets the abort signal, which the loop and the drain read.
Stop(d) ==
  /\ Up(d) /\ ~disp[d].stop
  /\ Spend("stop")
  /\ disp' = [disp EXCEPT ![d].stop = TRUE]
  /\ UNCHANGED <<next, txn, unkicked, published, lock, flight, delivered, heard, ahead>>

Stopped(d) ==
  /\ disp[d].pc = "wait" /\ disp[d].stop
  /\ disp' = [disp EXCEPT ![d] = Off]
  /\ UNCHANGED <<next, txn, unkicked, published, lock, flight, delivered, heard, ahead, spent>>

\* The process is killed; its connections go with it.
Crash(d) ==
  /\ disp[d].pc # "off"
  /\ Spend("crash")
  /\ disp' = [disp EXCEPT ![d] = Off]
  /\ lock' = IF lock = d THEN Nobody ELSE lock
  /\ UNCHANGED <<next, txn, unkicked, published, flight, delivered, heard, ahead>>

-----------------------------------------------------------------------------
WriterStep == Append \/ \E i \in Ids : Commit(i) \/ Rollback(i) \/ Kick(i)

DrainStep(d) ==
  \/ ReadBatch(d) \/ Publish(d) \/ PublishFails(d) \/ MarkPublished(d)
  \/ PassFault(d) \/ Prune(d) \/ Release(d)

LoopStep(d) ==
  \/ Start(d) \/ WakeOnKick(d) \/ WakeOnSweep(d) \/ TryLock(d) \/ LockFault(d)
  \/ LoseLock(d) \/ Stop(d) \/ Stopped(d) \/ Crash(d)

Next ==
  \/ WriterStep
  \/ \E i \in Ids : LateArrival(i)
  \/ \E d \in Dispatchers : DrainStep(d) \/ LoopStep(d)

Spec == Init /\ [][Next]_vars

\* Fairness: the platform restarts workers, timers fire and the loop keeps
\* running; faults, crashes and stops are bounded by Limit.
FairSpec ==
  /\ Spec
  /\ \A d \in Dispatchers :
       /\ WF_vars(Start(d)) /\ WF_vars(WakeOnKick(d)) /\ WF_vars(WakeOnSweep(d))
       /\ WF_vars(TryLock(d)) /\ WF_vars(ReadBatch(d)) /\ WF_vars(Publish(d))
       /\ WF_vars(MarkPublished(d)) /\ WF_vars(Prune(d)) /\ WF_vars(Release(d))
       /\ WF_vars(Stopped(d))

-----------------------------------------------------------------------------
\* The abstract outbox this one implements.
Promise == INSTANCE OutboxDelivery WITH committed <- Committed

KeepsPromise == Promise!Spec

\* Every variable has its type, and only a loop inside a drain holds the lock.
TypeOK ==
  /\ next \in 1..(MaxId + 1)
  /\ txn \in [Ids -> {"none", "open", "committed", "rolledback"}]
  /\ \A i \in Ids : i >= next <=> txn[i] = "none"
  /\ unkicked \in SUBSET Ids
  /\ published \in SUBSET Ids
  /\ lock \in Dispatchers \cup {Nobody}
  /\ disp \in [Dispatchers -> DispType]
  /\ lock # Nobody => disp[lock].pc \in {"read", "publish", "mark", "prune", "release"}
  /\ flight \in SUBSET Ids
  /\ delivered \in SUBSET Ids
  /\ heard \in SUBSET Ids
  /\ ahead \in [Ids -> SUBSET Ids]
  /\ spent \in [Budgeted -> Nat]

\* A row leaves the outbox only after it reached its owner's channel: nothing
\* is marked published on a publish that failed.
PublishedWasDelivered == published \subseteq delivered

\* Nothing has failed so far.
NoFaultYet == \A e \in Budgeted : spent[e] = 0

\* While nothing fails, two overlapping workers publish every row once.
PublishedOnce ==
  [][\A d \in Dispatchers, i \in Ids :
       NoFaultYet /\ Publish(d) /\ NextInBatch(d, i) => i \notin delivered]_vars

\* A client that sees a user's event for the first time has seen all of the
\* user's older events that were committed before it.
DeliveriesFollowCommits ==
  [][\A i \in delivered' \ delivered, j \in delivered : i \notin ahead[j]]_vars

\* While nothing fails: once every loop has gone back to waiting, the rows whose
\* kick they heard are out.  A loop that skipped the drain left it to the
\* holder, which drains until the outbox reads empty.
HeardKicksAreServed ==
  NoFaultYet /\ (\A d \in Dispatchers : disp[d].pc \in {"off", "wait"} /\ ~disp[d].kicked)
    => heard \cap Unpublished = {}

\* An error of the lock's session leaves run(), startOutboxDispatchLoop logs it,
\* and the process stays up without a loop.
EveryLoopHasEnded == \A d \in Dispatchers : disp[d].pc = "dead"

\* Every committed event is published in the end, unless there comes a time from
\* which no process has a loop any more.
EveryCommitIsPublished ==
  \/ \A i \in Ids : i \in Committed ~> i \in published
  \/ <>[]EveryLoopHasEnded
=============================================================================
