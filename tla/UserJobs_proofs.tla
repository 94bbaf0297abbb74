--------------------------- MODULE UserJobs_proofs ---------------------------
(***************************************************************************)
(* The safety of one job id, for every number of requests, slots, attempts *)
(* and events.  The row's part of the inductive invariant is proved of the *)
(* repository's statements one by one, without the actors; the actors'     *)
(* part is then one step per action.  The sections after it add what a     *)
(* receipt of the enqueue means and how the row, the entry and the one     *)
(* request that made them stay together.                                   *)
(***************************************************************************)
EXTENDS UserJobs, TLAPS

\* What IInv says of the row alone.
RowInv(r) ==
  /\ r \in RowType
  /\ r.reason = "cancelled" => r.state = "failed" /\ r.dead
  /\ r.state = "completed" => ~r.dead /\ r.reason = "none"
  /\ r.dead <=> r.reason # "none"
  /\ r.made <= Attempts

\* Only the owner's cancel makes a row cancelled.
Keeps(r, s) == RowInv(s) /\ (s.reason = "cancelled" => r.reason = "cancelled")

\* Every statement of the repository keeps the row consistent.
LEMMA PlainStatements ==
  ASSUME NEW r, RowInv(r)
  PROVE  /\ Keeps(r, InsertEnqueued(r))
         /\ Keeps(r, UpdateProgress(r))
         /\ Keeps(r, MarkCompleted(r))
         /\ Keeps(r, MarkRequeued(r))
         /\ Keeps(r, DismissFailed(r))
         /\ Keeps(r, [r EXCEPT !.old = TRUE])
         /\ RowInv(MarkCancelled(r))
<1> USE ConstantsAssumption
<1> USE DEF Keeps, RowInv, RowType, InFlight, Terminal, Reasons, DeathReasons
<1>1. Keeps(r, InsertEnqueued(r))
  BY DEF InsertEnqueued, Fresh
<1>2. Keeps(r, UpdateProgress(r))
  BY DEF UpdateProgress
<1>3. Keeps(r, MarkCompleted(r))
  BY DEF MarkCompleted
<1>4. Keeps(r, MarkRequeued(r))
  BY DEF MarkRequeued, Exists
<1>5. Keeps(r, DismissFailed(r))
  BY DEF DismissFailed
<1>6. Keeps(r, [r EXCEPT !.old = TRUE])
  OBVIOUS
<1>7. RowInv(MarkCancelled(r))
  BY DEF MarkCancelled
<1>8. QED
  BY <1>1, <1>2, <1>3, <1>4, <1>5, <1>6, <1>7

\* So do those that write the attempt's number, within the budget.
LEMMA CountedStatements ==
  ASSUME NEW r, RowInv(r), NEW made \in Nat, made <= Attempts
  PROVE  /\ Keeps(r, MarkActive(r, made))
         /\ Keeps(r, MarkFailed(r, made))
         /\ \A reason \in DeathReasons : Keeps(r, MarkDead(r, reason, made))
<1> USE DEF Keeps, RowInv, RowType, InFlight, Terminal, Reasons, DeathReasons
<1>1. Keeps(r, MarkActive(r, made))
  BY DEF MarkActive, Exists
<1>2. Keeps(r, MarkFailed(r, made))
  BY DEF MarkFailed
<1>3. ASSUME NEW reason \in DeathReasons
      PROVE  Keeps(r, MarkDead(r, reason, made))
  BY DEF MarkDead, Exists
<1>4. QED
  BY <1>1, <1>2, <1>3

-----------------------------------------------------------------------------
\* The actors' part of the invariant.
ActorTypes ==
  /\ run \in [Slots -> RunType]
  /\ enq \in [Requests -> EnqType]
  /\ retry \in {"idle", "asked", "requeued"}
  /\ detach \in {"idle", "owed"}
  /\ reconciler \in {"idle", "found", "missing"}
  /\ ran \in BOOLEAN
  /\ cancelled \in BOOLEAN
  /\ pastGate \in SUBSET Slots
  /\ spent \in [Budgeted -> Nat]

JobInv ==
  /\ job \in JobType
  /\ job.holder \in Slots <=> job.st = "active"
  /\ job.st \in {"wait", "delayed", "active"} => job.made < Attempts

RunsInBudget == \A w \in Slots : run[w].made <= Attempts

Parts == RowInv(row) /\ ActorTypes /\ JobInv /\ RunsInBudget

\* What the owner's cancel has brought about.
CancelInv == NoRunAfterCancel /\ CancelOnRow

LEMMA InvParts == IInv <=> Parts /\ CancelInv
BY DEF IInv, TypeOK, CancelledStaysFailed, CompletedIsNotDead, AttemptsWithinBudget,
       DeadForAReason, AttemptsLeft, RowInv, ActorTypes, JobInv, RunsInBudget, Parts,
       CancelInv

LEMMA InitInv == Init => IInv
<1> SUFFICES ASSUME Init PROVE IInv
  OBVIOUS
<1> USE ConstantsAssumption DEF Init
<1>1. RowInv(row)
  BY DEF RowInv, RowType, Absent, InFlight, Terminal, Reasons, DeathReasons
<1>2. ActorTypes
  BY DEF ActorTypes, RunType, Idle, Thrown, EnqType, NotAsked
<1>3. JobInv
  BY DEF JobInv, JobType, NoJob
<1>4. RunsInBudget
  BY DEF RunsInBudget, Idle
<1>5. CancelInv
  BY DEF CancelInv, NoRunAfterCancel, CancelOnRow
<1>6. QED
  BY <1>1, <1>2, <1>3, <1>4, <1>5, InvParts DEF Parts

-----------------------------------------------------------------------------
LEMMA SpendKeepsType ==
  ASSUME NEW e \in Budgeted, spent \in [Budgeted -> Nat], Spend(e)
  PROVE  spent' \in [Budgeted -> Nat]
BY DEF Spend

\* A write that may be lost leaves the old row or the new one.
LEMMA WriteKeepsRow ==
  ASSUME NEW written, RowInv(row), Keeps(row, written), spent \in [Budgeted -> Nat],
         Write(written)
  PROVE  Keeps(row, row') /\ spent' \in [Budgeted -> Nat]
<1>1. CASE row' = written /\ UNCHANGED spent
  BY <1>1
<1>2. CASE Spend("fault") /\ UNCHANGED row
  BY <1>2, SpendKeepsType DEF Budgeted, Keeps
<1>3. QED
  BY <1>1, <1>2 DEF Write

LEMMA ThrowKeepsType ==
  ASSUME NEW r \in Requests, enq \in [Requests -> EnqType], Throw(r)
  PROVE  enq' \in [Requests -> EnqType]
<1> DEFINE new == [enq[r] EXCEPT !.step = "off",
                                 !.call = IF @ = "wait" THEN "failing" ELSE @]
<1>1. new \in EnqType
  BY DEF EnqType
<1>2. enq' = [enq EXCEPT ![r] = new]
  BY DEF Throw
<1>3. QED
  BY <1>1, <1>2

\* An entry that is left unlocked and is not active is consistent.
LEMMA UnlockedJob ==
  ASSUME NEW st \in {"wait", "delayed", "completed", "failed"},
         NEW made \in Nat, NEW stalls \in Nat, JobInv,
         st \in {"wait", "delayed"} => made < Attempts,
         job' = [st |-> st, made |-> made, stalls |-> stalls, holder |-> Nobody,
                 req |-> job.req]
  PROVE  JobInv'
BY ConstantsAssumption DEF JobInv, JobType

LEMMA EnqueueKeepsInv ==
  ASSUME Parts, NEW r \in Requests, EnqueueStep(r)
  PROVE  Parts'
<1> USE DEF Parts
<1> SUFFICES /\ UNCHANGED run
             /\ ActorTypes' /\ JobInv' /\ Keeps(row, row')
  BY DEF RunsInBudget, Keeps
<1>1. UNCHANGED row => Keeps(row, row')
  BY DEF Keeps
<1> USE <1>1
<1>2. CASE EnqueueRow(r)
  <2>1. Keeps(row, row')
    BY <1>2, PlainStatements DEF EnqueueRow
  <2>2. enq' \in [Requests -> EnqType]
    <3> DEFINE new == [enq[r] EXCEPT !.call = "wait", !.step = "look",
                                     !.stamped = StampsRow(row)]
    <3>1. new \in EnqType
      BY DEF ActorTypes, EnqType, StampsRow
    <3>2. enq' = [enq EXCEPT ![r] = new]
      BY <1>2 DEF EnqueueRow
    <3>3. QED
      BY <3>1, <3>2 DEF ActorTypes
  <2>3. QED
    BY <1>2, <2>1, <2>2 DEF EnqueueRow, ActorTypes, JobInv, StampsRow
<1>3. CASE LookForNamesake(r)
  BY <1>3 DEF LookForNamesake, ActorTypes, EnqType, JobInv
<1>4. CASE EvictNamesake(r)
  BY <1>4 DEF EvictNamesake, Throw, ActorTypes, EnqType, JobInv, NoJob, JobType
<1>5. CASE AddToQueue(r)
  BY <1>5, ConstantsAssumption DEF AddToQueue, ActorTypes, EnqType, JobInv, Waiting, JobType
<1>6. CASE AssertWorkWasQueued(r)
  BY <1>6 DEF AssertWorkWasQueued, Throw, ActorTypes, EnqType, JobInv
<1>7. CASE EnqueueFailed(r)
  <2>1. Keeps(row, MarkFailed(row, 0))
    BY CountedStatements, ConstantsAssumption
  <2>2. Keeps(row, row') /\ spent' \in [Budgeted -> Nat]
    BY <1>7, <2>1, WriteKeepsRow DEF EnqueueFailed, ActorTypes
  <2>3. enq' \in [Requests -> EnqType]
    BY <1>7 DEF EnqueueFailed, ActorTypes, EnqType
  <2>4. QED
    BY <1>7, <2>2, <2>3 DEF EnqueueFailed, ActorTypes, JobInv
<1>8. CASE EnqueueFault(r)
  <2>1. spent' \in [Budgeted -> Nat]
    BY <1>8, SpendKeepsType DEF EnqueueFault, ActorTypes, Budgeted
  <2>2. QED
    BY <1>8, <2>1, ThrowKeepsType DEF EnqueueFault, ActorTypes, JobInv
<1>9. CASE EnqueueTimeout(r)
  <2>1. spent' \in [Budgeted -> Nat]
    BY <1>9, SpendKeepsType DEF EnqueueTimeout, ActorTypes, Budgeted
  <2>2. enq' \in [Requests -> EnqType]
    BY <1>9 DEF EnqueueTimeout, ActorTypes, EnqType
  <2>3. QED
    BY <1>9, <2>1, <2>2 DEF EnqueueTimeout, ActorTypes, JobInv
<1>10. CASE ApiCrash(r)
  <2>1. spent' \in [Budgeted -> Nat]
    BY <1>10, SpendKeepsType DEF ApiCrash, ActorTypes, Budgeted
  <2>2. enq' \in [Requests -> EnqType]
    <3> DEFINE new == [enq[r] EXCEPT !.step = "off",
                         !.call = IF @ \in {"wait", "failing"} THEN "crashed" ELSE @]
    <3>1. new \in EnqType
      BY DEF ActorTypes, EnqType
    <3>2. enq' = [enq EXCEPT ![r] = new]
      BY <1>10 DEF ApiCrash
    <3>3. QED
      BY <3>1, <3>2 DEF ActorTypes
  <2>3. QED
    BY <1>10, <2>1, <2>2 DEF ApiCrash, ActorTypes, JobInv
<1>11. QED
  BY <1>2, <1>3, <1>4, <1>5, <1>6, <1>7, <1>8, <1>9, <1>10 DEF EnqueueStep

\* The attempts.  Goto and the other updates of run keep its type and budget.
LEMMA RunUpdate ==
  ASSUME NEW w \in Slots, NEW new \in RunType, new.made <= Attempts,
         run \in [Slots -> RunType], RunsInBudget,
         run' = [run EXCEPT ![w] = new]
  PROVE  /\ run' \in [Slots -> RunType]
         /\ RunsInBudget'
         /\ \A v \in Slots : v # w => run'[v] = run[v]
         /\ run'[w] = new
BY DEF RunsInBudget

LEMMA SlotKeepsInv ==
  ASSUME Parts, NEW w \in Slots, SlotStep(w)
  PROVE  Parts'
<1> USE DEF Parts
<1>a. run[w] \in RunType /\ run[w].made <= Attempts
  BY DEF ActorTypes, RunsInBudget
<1>b. UNCHANGED row => Keeps(row, row')
  BY DEF Keeps
\* The attempt moves on and the row is kept.
<1>c. ASSUME NEW new \in RunType, new.made <= Attempts,
             run' = [run EXCEPT ![w] = new],
             Keeps(row, row'), ActorTypes', JobInv'
      PROVE  Parts'
  BY <1>c, RunUpdate DEF ActorTypes, Keeps
<1>1. CASE PickUp(w)
  <2> DEFINE new == IF job.stalls > MaxStalled
                    THEN [pc |-> "threw", made |-> job.made + 1, why |-> "unrecoverable"]
                    ELSE [pc |-> "gate", made |-> job.made + 1, why |-> "retryable"]
  <2>1. job.made + 1 \in Nat /\ job.made + 1 <= Attempts
    BY <1>1, ConstantsAssumption DEF PickUp, JobInv, JobType
  <2>2. new \in RunType /\ new.made <= Attempts
    BY <2>1 DEF RunType, Thrown
  <2>3. run' = [run EXCEPT ![w] = new]
    BY <1>1 DEF PickUp
  <2>4. run' \in [Slots -> RunType] /\ RunsInBudget'
    BY <2>2, <2>3, RunUpdate DEF ActorTypes
  <2>5. JobInv'
    BY <1>1, ConstantsAssumption DEF PickUp, JobInv, JobType
  <2>6. QED
    BY <1>1, <1>b, <2>4, <2>5 DEF PickUp, ActorTypes, Keeps
<1>2. CASE CheckGate(w)
  <2> DEFINE new == IF IsCancelled(row)
                    THEN [run[w] EXCEPT !.pc = "threw", !.why = "unrecoverable"]
                    ELSE [run[w] EXCEPT !.pc = "start"]
  <2>1. new \in RunType /\ new.made <= Attempts
    BY <1>a DEF RunType, Thrown
  <2>2. run' = [run EXCEPT ![w] = new]
    BY <1>2 DEF CheckGate
  <2>3. run' \in [Slots -> RunType] /\ RunsInBudget'
    BY <2>1, <2>2, RunUpdate DEF ActorTypes
  <2>4. QED
    BY <1>2, <1>b, <2>3 DEF CheckGate, ActorTypes, Keeps, JobInv
<1>3. CASE ThrowEarly(w)
  <2>1. spent' \in [Budgeted -> Nat]
    BY <1>3, SpendKeepsType DEF ThrowEarly, ActorTypes, Budgeted
  <2> DEFINE new == [run[w] EXCEPT !.pc = "threw"]
  <2>2. new \in RunType /\ new.made <= Attempts /\ new.pc = "threw"
    BY <1>a DEF RunType
  <2>3. run' = [run EXCEPT ![w] = new]
    BY <1>3 DEF ThrowEarly, Goto
  <2>4. run' \in [Slots -> RunType]
    BY <2>2, <2>3, RunUpdate DEF ActorTypes
  <2>5. ActorTypes' /\ JobInv'
    BY <1>3, <2>1, <2>4 DEF ThrowEarly, ActorTypes, JobInv
  <2>6. QED
    BY <1>3, <1>b, <1>c, <2>2, <2>3, <2>5 DEF ThrowEarly
<1>4. CASE FireActive(w)
  <2>1. Keeps(row, row') /\ spent' \in [Budgeted -> Nat]
    BY <1>4, <1>a, CountedStatements, WriteKeepsRow DEF FireActive, ActorTypes, RunType
  <2> DEFINE new == [run[w] EXCEPT !.pc = "handle"]
  <2>2. new \in RunType /\ new.made <= Attempts
    BY <1>a DEF RunType
  <2>3. run' = [run EXCEPT ![w] = new]
    BY <1>4 DEF FireActive, Goto
  <2>4. run' \in [Slots -> RunType]
    BY <2>2, <2>3, RunUpdate DEF ActorTypes
  <2>5. ActorTypes' /\ JobInv'
    BY <1>4, <2>1, <2>4 DEF FireActive, ActorTypes, JobInv
  <2>6. QED
    BY <1>4, <1>c, <2>1, <2>2, <2>3, <2>5 DEF FireActive
<1>5. CASE ReportProgress(w)
  <2>1. Keeps(row, row') /\ spent' \in [Budgeted -> Nat]
    BY <1>5, PlainStatements, WriteKeepsRow DEF ReportProgress, ActorTypes
  <2>2. QED
    BY <1>5, <2>1 DEF ReportProgress, ActorTypes, JobInv, RunsInBudget, Keeps
<1>6. CASE FireCompleted(w)
  <2>1. Keeps(row, row') /\ spent' \in [Budgeted -> Nat]
    BY <1>6, PlainStatements, WriteKeepsRow DEF FireCompleted, ActorTypes
  <2> DEFINE new == [run[w] EXCEPT !.pc = "succeeded"]
  <2>2. new \in RunType /\ new.made <= Attempts /\ new.pc = "succeeded"
    BY <1>a DEF RunType
  <2>3. run' = [run EXCEPT ![w] = new]
    BY <1>6 DEF FireCompleted, Goto
  <2>4. run' \in [Slots -> RunType]
    BY <2>2, <2>3, RunUpdate DEF ActorTypes
  <2>5. ActorTypes' /\ JobInv'
    BY <1>6, <2>1, <2>4 DEF FireCompleted, ActorTypes, JobInv
  <2>6. QED
    BY <1>6, <1>c, <2>1, <2>2, <2>3, <2>5 DEF FireCompleted
<1>7. CASE FireFailed(w)
  <2>1. Keeps(row, row') /\ spent' \in [Budgeted -> Nat]
    BY <1>7, <1>a, CountedStatements, WriteKeepsRow DEF FireFailed, ActorTypes, RunType
  <2>2. PICK why \in Thrown : run' = [run EXCEPT ![w].pc = "threw", ![w].why = why]
    BY <1>7 DEF FireFailed
  <2> DEFINE new == [run[w] EXCEPT !.pc = "threw", !.why = why]
  <2>3. new \in RunType /\ new.made <= Attempts /\ new.pc = "threw"
    BY <1>a DEF RunType
  <2>4. run' = [run EXCEPT ![w] = new]
    BY <2>2
  <2>5. run' \in [Slots -> RunType]
    BY <2>3, <2>4, RunUpdate DEF ActorTypes
  <2>6. ActorTypes' /\ JobInv'
    BY <1>7, <2>1, <2>5 DEF FireFailed, ActorTypes, JobInv
  <2>7. QED
    BY <1>7, <1>c, <2>1, <2>3, <2>4, <2>6 DEF FireFailed
\* An attempt that ends leaves an idle slot.
<1>d. Idle \in RunType /\ Idle.made <= Attempts /\ Idle.pc = "idle"
  BY ConstantsAssumption DEF Idle, RunType, Thrown
<1>8. CASE CommitCompleted(w)
  <2>1. run' \in [Slots -> RunType]
    BY <1>8, <1>d, RunUpdate DEF CommitCompleted, ActorTypes
  <2>2. JobInv'
    BY <1>8, ConstantsAssumption DEF CommitCompleted, JobInv, JobType
  <2>3. ActorTypes'
    BY <1>8, <2>1 DEF CommitCompleted, ActorTypes
  <2>4. QED
    BY <1>8, <1>b, <1>c, <1>d, <2>2, <2>3 DEF CommitCompleted
<1>9. CASE CommitFailed(w)
  <2> DEFINE new == IF Holds(w) /\ GivesUp(w) THEN [run[w] EXCEPT !.pc = "listen"] ELSE Idle
  <2>1. new \in RunType /\ new.made <= Attempts /\ new.pc \notin {"start", "handle"}
    BY <1>a, <1>d DEF RunType
  <2>2. run' = [run EXCEPT ![w] = new]
    <3>1. CASE Holds(w)
      BY <1>9, <3>1 DEF CommitFailed
    <3>2. CASE ~Holds(w)
      BY <1>9, <3>2 DEF CommitFailed
    <3>3. QED
      BY <3>1, <3>2
  <2>3. run' \in [Slots -> RunType]
    BY <2>1, <2>2, RunUpdate DEF ActorTypes
  <2>4. JobInv'
    <3>1. CASE Holds(w)
      <4> DEFINE st == IF GivesUp(w) THEN "failed" ELSE "delayed"
      <4>1. job' = [job EXCEPT !.st = st, !.made = @ + 1, !.holder = Nobody]
        BY <1>9, <3>1 DEF CommitFailed
      <4>2. st \in {"failed", "delayed"} /\ (st = "delayed" => job.made + 1 < Attempts)
        BY ConstantsAssumption DEF GivesUp, JobInv, JobType
      <4> HIDE DEF st
      <4>3. job' = [st |-> st, made |-> job.made + 1, stalls |-> job.stalls,
                    holder |-> Nobody, req |-> job.req]
        BY <4>1 DEF JobInv, JobType
      <4>4. job.made + 1 \in Nat /\ job.stalls \in Nat
        BY DEF JobInv, JobType
      <4>5. QED
        BY <4>2, <4>3, <4>4, UnlockedJob
    <3>2. CASE ~Holds(w)
      BY <1>9, <3>2 DEF CommitFailed, JobInv
    <3>3. QED
      BY <3>1, <3>2
  <2>5. ActorTypes'
    BY <1>9, <2>3 DEF CommitFailed, ActorTypes
  <2>6. QED
    BY <1>9, <1>b, <1>c, <2>1, <2>2, <2>4, <2>5 DEF CommitFailed
<1>10. CASE ListenerMarksDead(w)
  <2>1. DeathReason(w) \in DeathReasons
    BY <1>a DEF DeathReason, DeathReasons, RunType, Thrown
  <2>2. Keeps(row, MarkDead(row, DeathReason(w), run[w].made))
    BY <1>a, <2>1, CountedStatements DEF RunType
  <2>3. Keeps(row, row') /\ spent' \in [Budgeted -> Nat]
    BY <1>10, <2>2, WriteKeepsRow DEF ListenerMarksDead, ActorTypes
  <2>4. run' \in [Slots -> RunType]
    BY <1>10, <1>d, RunUpdate DEF ListenerMarksDead, ActorTypes
  <2>5. ActorTypes' /\ JobInv'
    BY <1>10, <2>3, <2>4 DEF ListenerMarksDead, ActorTypes, JobInv
  <2>6. QED
    BY <1>10, <1>c, <1>d, <2>3, <2>5 DEF ListenerMarksDead
<1>11. CASE HandBack(w)
  <2>1. spent' \in [Budgeted -> Nat]
    BY <1>11, SpendKeepsType DEF HandBack, ActorTypes, Budgeted
  <2>2. JobInv'
    BY <1>11, ConstantsAssumption DEF HandBack, Holds, JobInv, JobType
  <2>3. RunsInBudget'
    BY <1>11 DEF HandBack, RunsInBudget
  <2>4. QED
    BY <1>11, <1>b, <2>1, <2>2, <2>3 DEF HandBack, ActorTypes, Keeps
<1>12. CASE Die(w)
  <2>1. spent' \in [Budgeted -> Nat]
    BY <1>12, SpendKeepsType DEF Die, ActorTypes, Budgeted
  <2>2. run' \in [Slots -> RunType]
    BY <1>12, <1>d, RunUpdate DEF Die, ActorTypes
  <2>3. ActorTypes' /\ JobInv'
    BY <1>12, <2>1, <2>2 DEF Die, ActorTypes, JobInv
  <2>4. QED
    BY <1>12, <1>b, <1>c, <1>d, <2>3 DEF Die
<1>13. QED
  BY <1>1, <1>2, <1>3, <1>4, <1>5, <1>6, <1>7, <1>8, <1>9, <1>10, <1>11, <1>12
  DEF SlotStep
\* The owner's mutations.
LEMMA OwnerKeepsInv ==
  ASSUME Parts, OwnerStep
  PROVE  Parts'
<1> USE DEF Parts
<1>a. UNCHANGED row => Keeps(row, row')
  BY DEF Keeps
<1>b. ASSUME UNCHANGED run, Keeps(row, row'), ActorTypes', JobInv'
      PROVE  Parts'
  BY <1>b DEF RunsInBudget, Keeps
<1>1. CASE RetryReads
  BY <1>1, <1>a, <1>b, SpendKeepsType DEF RetryReads, ActorTypes, JobInv, Budgeted
<1>2. CASE RetryJob
  <2>1. CASE job.st = "failed"
    <3>1. PICK stalls \in {0, job.stalls} :
            job' = [job EXCEPT !.st = "wait", !.made = 0, !.stalls = stalls]
      BY <1>2, <2>1 DEF RetryJob
    <3>2. stalls \in Nat /\ job.holder = Nobody
      BY <2>1 DEF JobInv, JobType
    <3>3. job' = [st |-> "wait", made |-> 0, stalls |-> stalls, holder |-> Nobody,
                  req |-> job.req]
      BY <3>1, <3>2 DEF JobInv, JobType
    <3>4. JobInv'
      BY <3>2, <3>3, UnlockedJob, ConstantsAssumption
    <3>5. QED
      BY <1>2, <1>a, <1>b, <2>1, <3>4 DEF RetryJob, ActorTypes
  <2>2. CASE job.st # "failed"
    BY <1>2, <1>a, <1>b, <2>2 DEF RetryJob, ActorTypes, JobInv
  <2>3. QED
    BY <2>1, <2>2
<1>3. CASE RetryResetsRow
  BY <1>3, <1>b, PlainStatements DEF RetryResetsRow, ActorTypes, JobInv
<1>4. CASE RetryCrash
  BY <1>4, <1>a, <1>b, SpendKeepsType DEF RetryCrash, ActorTypes, JobInv, Budgeted
<1>5. CASE CancelMarksRow
  <2>1. RowInv(row')
    BY <1>5, PlainStatements DEF CancelMarksRow
  <2>2. ActorTypes' /\ JobInv'
    BY <1>5, SpendKeepsType DEF CancelMarksRow, ActorTypes, JobInv, Budgeted
  <2>3. RunsInBudget'
    BY <1>5 DEF CancelMarksRow, RunsInBudget
  <2>4. QED
    BY <2>1, <2>2, <2>3
<1>6. CASE DismissMarksRow
  <2>1. ActorTypes' /\ JobInv'
    BY <1>6, SpendKeepsType DEF DismissMarksRow, ActorTypes, JobInv, Budgeted
  <2>2. QED
    BY <1>6, <1>b, <2>1, PlainStatements DEF DismissMarksRow
<1>7. CASE DetachFromQueue
  <2>1. JobInv'
    BY <1>7, ConstantsAssumption DEF DetachFromQueue, JobInv, JobType, NoJob
  <2>2. QED
    BY <1>7, <1>a, <1>b, <2>1 DEF DetachFromQueue, ActorTypes
<1>8. QED
  BY <1>1, <1>2, <1>3, <1>4, <1>5, <1>6, <1>7 DEF OwnerStep

LEMMA ReconcilerKeepsInv ==
  ASSUME Parts, ReconcilerStep
  PROVE  Parts'
<1> USE DEF Parts
<1>a. UNCHANGED row => Keeps(row, row')
  BY DEF Keeps
<1>b. ASSUME UNCHANGED <<run, job>>, Keeps(row, row'), ActorTypes'
      PROVE  Parts'
  BY <1>b DEF RunsInBudget, Keeps, JobInv
<1>1. CASE ReconcilerFinds
  BY <1>1, <1>a, <1>b DEF ReconcilerFinds, ActorTypes
<1>2. CASE ReconcilerAsks
  BY <1>2, <1>a, <1>b DEF ReconcilerAsks, ActorTypes
<1>3. CASE ReconcilerMarksDead
  <2>1. Keeps(row, MarkDead(row, "never_delivered", 0))
    BY CountedStatements, ConstantsAssumption DEF DeathReasons
  <2>2. Keeps(row, row') /\ spent' \in [Budgeted -> Nat]
    BY <1>3, <2>1, WriteKeepsRow DEF ReconcilerMarksDead, ActorTypes
  <2>3. QED
    BY <1>3, <1>b, <2>2 DEF ReconcilerMarksDead, ActorTypes
<1>4. QED
  BY <1>1, <1>2, <1>3 DEF ReconcilerStep

LEMMA QueueKeepsInv ==
  ASSUME Parts, QueueStep
  PROVE  Parts'
<1> USE DEF Parts
<1>a. UNCHANGED row => Keeps(row, row')
  BY DEF Keeps
<1>b. ASSUME UNCHANGED <<row, run>>, ActorTypes', JobInv'
      PROVE  Parts'
  BY <1>a, <1>b DEF RunsInBudget, Keeps
<1>1. CASE PromoteDelayed
  <2>1. JobInv'
    BY <1>1, ConstantsAssumption DEF PromoteDelayed, JobInv, JobType
  <2>2. QED
    BY <1>1, <1>b, <2>1 DEF PromoteDelayed, ActorTypes
<1>2. CASE ReclaimStalled
  <2>1. JobInv'
    <3>1. job.made \in Nat /\ job.stalls + 1 \in Nat /\ job.made < Attempts
      BY <1>2 DEF ReclaimStalled, JobInv, JobType
    <3>2. job' = [st |-> "wait", made |-> job.made, stalls |-> job.stalls + 1,
                  holder |-> Nobody, req |-> job.req]
      BY <1>2 DEF ReclaimStalled, JobInv, JobType
    <3>3. QED
      BY <3>1, <3>2, UnlockedJob
  <2>2. spent' \in [Budgeted -> Nat]
    BY <1>2, SpendKeepsType DEF ReclaimStalled, ActorTypes, Budgeted
  <2>3. QED
    BY <1>2, <1>b, <2>1, <2>2 DEF ReclaimStalled, ActorTypes
<1>3. CASE EvictFinished
  <2>1. JobInv'
    BY <1>3, ConstantsAssumption DEF EvictFinished, JobInv, JobType, NoJob
  <2>2. QED
    BY <1>3, <1>b, <2>1, SpendKeepsType DEF EvictFinished, ActorTypes, Budgeted
<1>4. QED
  BY <1>1, <1>2, <1>3 DEF QueueStep

-----------------------------------------------------------------------------
LEMMA NextKeepsParts ==
  ASSUME Parts, [Next]_vars
  PROVE  Parts'
<1>1. CASE \E r \in Requests : EnqueueStep(r)
  BY <1>1, EnqueueKeepsInv
<1>2. CASE \E w \in Slots : SlotStep(w)
  BY <1>2, SlotKeepsInv
<1>3. CASE OwnerStep
  BY <1>3, OwnerKeepsInv
<1>4. CASE ReconcilerStep
  BY <1>4, ReconcilerKeepsInv
<1>5. CASE QueueStep
  BY <1>5, QueueKeepsInv
<1>6. CASE CutoffPasses
  <2>1. Keeps(row, row')
    BY <1>6, PlainStatements DEF CutoffPasses, Parts
  <2>2. QED
    BY <1>6, <2>1
    DEF CutoffPasses, Parts, ActorTypes, JobInv, RunsInBudget, Keeps
<1>7. CASE UNCHANGED vars
  BY <1>7 DEF vars, Parts, ActorTypes, JobInv, RunsInBudget
<1>8. QED
  BY <1>1, <1>2, <1>3, <1>4, <1>5, <1>6, <1>7 DEF Next

-----------------------------------------------------------------------------
\* What a step may write to the row: one statement of its actor's.
LEMMA StepsWriteStatements ==
  ASSUME [Next]_vars
  PROVE  \/ row' = row
         \/ \E r \in Requests : EnqueueRow(r)
         \/ row' = MarkFailed(row, 0)
         \/ row' = UpdateProgress(row)
         \/ row' = MarkCompleted(row)
         \/ \E w \in Slots : \/ row' = MarkActive(row, run[w].made)
                            \/ row' = MarkFailed(row, run[w].made)
                            \/ row' = MarkDead(row, DeathReason(w), run[w].made)
         \/ RetryResetsRow
         \/ CancelMarksRow
         \/ row' = DismissFailed(row)
         \/ row' = MarkDead(row, "never_delivered", 0)
         \/ row' = [row EXCEPT !.old = TRUE]
<1>1. CASE \E r \in Requests : EnqueueStep(r)
  BY <1>1 DEF EnqueueStep, LookForNamesake, EvictNamesake, AddToQueue,
              AssertWorkWasQueued, EnqueueFailed, EnqueueFault, EnqueueTimeout,
              ApiCrash, Write
<1>2. CASE \E w \in Slots : SlotStep(w)
  BY <1>2 DEF SlotStep, PickUp, CheckGate, ThrowEarly, FireActive, ReportProgress,
              FireCompleted, FireFailed, CommitCompleted, CommitFailed,
              ListenerMarksDead, HandBack, Die, Write
<1>3. CASE OwnerStep
  BY <1>3 DEF OwnerStep, RetryReads, RetryJob, RetryCrash, DismissMarksRow, DetachFromQueue
<1>4. CASE ReconcilerStep \/ QueueStep \/ CutoffPasses
  BY <1>4 DEF ReconcilerStep, ReconcilerFinds, ReconcilerAsks, ReconcilerMarksDead,
              QueueStep, PromoteDelayed, ReclaimStalled, EvictFinished, CutoffPasses, Write
<1>5. CASE UNCHANGED vars
  BY <1>5 DEF vars
<1>6. QED
  BY <1>1, <1>2, <1>3, <1>4, <1>5 DEF Next

\* Said of a step: what undoes a cancel is a new request, or the reset of a retry
\* under way.
CancelKept ==
  row.reason = "cancelled" =>
    \/ row'.reason = "cancelled" /\ row'.state = "failed" /\ row'.dead
    \/ \E r \in Requests : enq[r].call = "idle" /\ enq'[r].call = "wait"
    \/ retry = "requeued" /\ retry' = "idle"

\* The guards do it: on a cancelled row, failed and dead, no statement of an
\* attempt, of the enqueue's compensation or of the reconciler matches.
LEMMA StepsKeepCancel ==
  ASSUME Parts, [Next]_vars
  PROVE  CancelKept
<1> SUFFICES ASSUME row.reason = "cancelled"
             PROVE  \/ row'.reason = "cancelled" /\ row'.state = "failed" /\ row'.dead
                    \/ \E r \in Requests : enq[r].call = "idle" /\ enq'[r].call = "wait"
                    \/ retry = "requeued" /\ retry' = "idle"
  BY DEF CancelKept
<1>1. row \in RowType /\ row.state = "failed" /\ row.dead
  BY DEF Parts, RowInv
<1>2. /\ UpdateProgress(row) = row
      /\ MarkCompleted(row) = row
      /\ \A made : MarkActive(row, made) = row /\ MarkFailed(row, made) = row
      /\ \A made, why : MarkDead(row, why, made) = row
  BY <1>1 DEF UpdateProgress, MarkCompleted, MarkActive, MarkFailed, MarkDead, InFlight
<1>3. CASE \E r \in Requests : EnqueueRow(r)
  <2>1. PICK r \in Requests : EnqueueRow(r)
    BY <1>3
  <2>2. enq \in [Requests -> EnqType]
    BY DEF Parts, ActorTypes
  <2>3. enq[r].call = "idle" /\ enq'[r].call = "wait"
    BY <2>1, <2>2 DEF EnqueueRow, EnqType
  <2>4. QED
    BY <2>3
<1>4. CASE RetryResetsRow
  BY <1>4 DEF RetryResetsRow
<1>5. ~CancelMarksRow
  BY <1>1 DEF CancelMarksRow, InFlight
<1>6. CASE row' = DismissFailed(row) \/ row' = [row EXCEPT !.old = TRUE]
  BY <1>1, <1>6 DEF DismissFailed, RowType
<1>7. QED
  BY <1>1, <1>2, <1>3, <1>4, <1>5, <1>6, StepsWriteStatements

\* Where an attempt starts its handler, the gate has read the row.
LEMMA NewRunsPassGate ==
  ASSUME Parts, [Next]_vars, NEW w \in Slots, Running(w)', ~Running(w)
  PROVE  CheckGate(w) /\ ~IsCancelled(row)
<1>a. run \in [Slots -> RunType]
  BY DEF Parts, ActorTypes
<1>1. CASE UNCHANGED run
  BY <1>1 DEF Running
<1>2. ASSUME NEW v \in Slots, SlotStep(v)
      PROVE  CheckGate(w) /\ ~IsCancelled(row)
  <2>1. CASE v # w
    BY <1>a, <1>2, <2>1 DEF Running, Goto, SlotStep, PickUp, CheckGate, ThrowEarly, FireActive,
       ReportProgress, FireCompleted, FireFailed, CommitCompleted, CommitFailed,
       ListenerMarksDead, HandBack, Die
  <2>2. CASE v = w /\ CheckGate(w)
    BY <1>a, <2>2 DEF Running, CheckGate, RunType
  <2>3. CASE v = w /\ PickUp(w)
    <3>1. \E made, why : \E pc \in {"threw", "gate"} :
            run'[w] = [pc |-> pc, made |-> made, why |-> why]
      BY <1>a, <2>3 DEF PickUp
    <3>2. QED
      BY <3>1 DEF Running
  <2>4. CASE v = w /\ ~CheckGate(w) /\ ~PickUp(w)
    BY <1>a, <1>2, <2>4 DEF Running, Goto, Idle, RunType, SlotStep, ThrowEarly, FireActive,
       ReportProgress, FireCompleted, FireFailed, CommitCompleted, CommitFailed,
       ListenerMarksDead, HandBack, Die
  <2>5. QED
    BY <2>1, <2>2, <2>3, <2>4
<1>3. CASE ~\E v \in Slots : SlotStep(v)
  <2>1. UNCHANGED run
    BY <1>3 DEF Next, vars, EnqueueStep, EnqueueRow, LookForNamesake, EvictNamesake, AddToQueue,
       AssertWorkWasQueued, EnqueueFailed, EnqueueFault, EnqueueTimeout, ApiCrash, OwnerStep,
       RetryReads, RetryJob, RetryResetsRow, RetryCrash, CancelMarksRow, DismissMarksRow,
       DetachFromQueue, ReconcilerStep, ReconcilerFinds, ReconcilerAsks, ReconcilerMarksDead,
       QueueStep, PromoteDelayed, ReclaimStalled, EvictFinished, CutoffPasses
  <2>2. QED
    BY <1>1, <2>1
<1>4. QED
  BY <1>2, <1>3

\* How the cancel is remembered: by the cancel itself, until a row is started over.
LEMMA CancelRemembered ==
  ASSUME Parts, [Next]_vars, ~CancelMarksRow
  PROVE  /\ cancelled' => cancelled
         /\ \A w \in Slots : w \in pastGate => w \in pastGate' \/ PickUp(w)
         /\ retry' # "idle" => retry # "idle" \/ RowAllowsRetry(row)
<1>1. CASE \E r \in Requests : EnqueueStep(r)
  <2>1. PICK r \in Requests : EnqueueStep(r)
    BY <1>1
  <2>2. UNCHANGED <<retry, pastGate>>
    BY <2>1 DEF EnqueueStep, EnqueueRow, LookForNamesake, EvictNamesake, AddToQueue,
       AssertWorkWasQueued, EnqueueFailed, EnqueueFault, EnqueueTimeout, ApiCrash
  <2>3. cancelled' => cancelled
    BY <2>1 DEF EnqueueStep, EnqueueRow, LookForNamesake, EvictNamesake, AddToQueue,
       AssertWorkWasQueued, EnqueueFailed, EnqueueFault, EnqueueTimeout, ApiCrash
  <2>4. QED
    BY <2>2, <2>3
<1>2. CASE \E w \in Slots : SlotStep(w)
  <2>1. PICK w \in Slots : SlotStep(w)
    BY <1>2
  <2>2. /\ UNCHANGED <<retry, cancelled>>
        /\ UNCHANGED pastGate \/ (PickUp(w) /\ pastGate' = pastGate \ {w})
    BY <2>1 DEF SlotStep, PickUp, CheckGate, ThrowEarly, FireActive, ReportProgress,
       FireCompleted, FireFailed, CommitCompleted, CommitFailed, ListenerMarksDead, HandBack, Die
  <2>3. QED
    BY <2>2
<1>3. CASE OwnerStep \/ ReconcilerStep \/ QueueStep \/ CutoffPasses \/ UNCHANGED vars
  <2>1. /\ UNCHANGED <<cancelled, pastGate>>
        /\ UNCHANGED retry \/ retry' = "idle" \/ retry # "idle" \/ RowAllowsRetry(row)
    BY <1>3 DEF OwnerStep, RetryReads, RetryJob, RetryResetsRow, RetryCrash, DismissMarksRow,
       DetachFromQueue, ReconcilerStep, ReconcilerFinds, ReconcilerAsks, ReconcilerMarksDead,
       QueueStep, PromoteDelayed, ReclaimStalled, EvictFinished, CutoffPasses, vars
  <2>2. QED
    BY <2>1
<1>4. QED
  BY <1>1, <1>2, <1>3 DEF Next

\* A request asks by writing the row.
LEMMA NewCallsWriteRow ==
  ASSUME Parts, [Next]_vars, NEW r \in Requests, enq[r].call = "idle", enq'[r].call = "wait"
  PROVE  EnqueueRow(r)
<1>a. enq \in [Requests -> EnqType]
  BY DEF Parts, ActorTypes
<1>1. ASSUME NEW q \in Requests, EnqueueStep(q), ~EnqueueRow(q)
      PROVE  FALSE
  BY <1>a, <1>1 DEF EnqType, EnqueueStep, LookForNamesake, EvictNamesake, AddToQueue,
     AssertWorkWasQueued, EnqueueFailed, EnqueueFault, EnqueueTimeout, ApiCrash, Throw
<1>2. ASSUME NEW q \in Requests, EnqueueRow(q)
      PROVE  q = r
  BY <1>a, <1>2 DEF EnqType, EnqueueRow
<1>3. CASE \E q \in Requests : EnqueueStep(q)
  BY <1>1, <1>2, <1>3
<1>4. CASE ~\E q \in Requests : EnqueueStep(q)
  BY <1>a, <1>4 DEF Next, vars, SlotStep, PickUp, CheckGate, ThrowEarly, FireActive, ReportProgress,
     FireCompleted, FireFailed, CommitCompleted, CommitFailed, ListenerMarksDead, HandBack, Die,
     OwnerStep, RetryReads, RetryJob, RetryResetsRow, RetryCrash, CancelMarksRow, DismissMarksRow,
     DetachFromQueue, ReconcilerStep, ReconcilerFinds, ReconcilerAsks, ReconcilerMarksDead,
     QueueStep, PromoteDelayed, ReclaimStalled, EvictFinished, CutoffPasses
<1>5. QED
  BY <1>3, <1>4

LEMMA NextKeepsCancelInv ==
  ASSUME Parts, CancelInv, [Next]_vars
  PROVE  CancelInv'
<1>a. retry \in {"idle", "asked", "requeued"} /\ RowInv(row)
  BY DEF Parts, ActorTypes
<1>1. CASE CancelMarksRow
  <2>1. row'.reason = "cancelled"
    BY <1>a, <1>1 DEF CancelMarksRow, MarkCancelled, RowInv, RowType
  <2>2. UNCHANGED <<run, retry>> /\ cancelled' = (retry = "idle")
          /\ pastGate' = {w \in Slots : Running(w)}
    BY <1>1 DEF CancelMarksRow
  <2>3. QED
    BY <2>1, <2>2 DEF CancelInv, NoRunAfterCancel, CancelOnRow, Running
<1>2. CASE ~CancelMarksRow
  <2> SUFFICES ASSUME cancelled'
               PROVE  /\ row'.reason = "cancelled" /\ retry' = "idle"
                      /\ \A w \in Slots : Running(w)' => w \in pastGate'
    BY DEF CancelInv, NoRunAfterCancel, CancelOnRow
  <2>1. cancelled /\ row.reason = "cancelled" /\ retry = "idle"
    BY <1>2, CancelRemembered DEF CancelInv, CancelOnRow
  <2>2. row'.reason = "cancelled"
    <3>1. CASE \E r \in Requests : EnqueueRow(r)
      BY <2>1, <3>1 DEF EnqueueRow, InsertEnqueued
    <3>2. CASE ~\E r \in Requests : EnqueueRow(r)
      <4>1. row' = row \/ ~(\E r \in Requests : enq[r].call = "idle" /\ enq'[r].call = "wait")
        BY <1>2, <3>2, NewCallsWriteRow
      <4>2. QED
        BY <2>1, <4>1, StepsKeepCancel DEF CancelKept
    <3>3. QED
      BY <3>1, <3>2
  <2>3. retry' = "idle"
    <3>1. ~RowAllowsRetry(row)
      BY <2>1 DEF RowAllowsRetry
    <3>2. QED
      BY <1>2, <2>1, <3>1, CancelRemembered
  <2>4. ASSUME NEW w \in Slots, Running(w)'
        PROVE  w \in pastGate'
    <3>1. Running(w)
      BY <2>1, <2>4, NewRunsPassGate DEF IsCancelled
    <3>2. w \in pastGate /\ ~PickUp(w)
      BY <2>1, <3>1 DEF CancelInv, NoRunAfterCancel, Running, PickUp
    <3>3. QED
      BY <1>2, <3>2, CancelRemembered
  <2>5. QED
    BY <2>2, <2>3, <2>4
<1>3. QED
  BY <1>1, <1>2

\* The inductive invariant of one job id holds of every behaviour.
THEOREM Invariance == Spec => []IInv
<1>1. Init => Parts /\ CancelInv
  BY InitInv, InvParts
<1>2. Parts /\ CancelInv /\ [Next]_vars => (Parts /\ CancelInv)'
  BY NextKeepsParts, NextKeepsCancelInv
<1>3. QED
  BY <1>1, <1>2, InvParts, PTL DEF Spec

\* Every variable keeps its type and the queue entry is locked exactly while
\* it is active, whatever the interleaving (BullMqEnqueueService, WorkerClient,
\* jobs router, reconciler).
THEOREM TypeCorrect == Spec => []TypeOK
BY Invariance, PTL DEF IInv

\* From the owner's cancel until the next request for the id no handler starts
\* behind it: not after a hand-back, a stall, a backoff or a later retry.  A cancel
\* that came while a retry was under way is not meant (the gate in
\* UserJobProcessor.process; SC-1607).
THEOREM CancelHolds == Spec => []NoRunAfterCancel
BY Invariance, PTL DEF IInv

\* No write of an attempt, of the enqueue or of the reconciler takes a cancel off
\* the row: only a new request, or the reset of a retry that had asked the queue
\* before the cancel (markActive, markCompleted, markFailed, markDead).
THEOREM CancelStandsHolds == Spec => CancelStands
<1>1. IInv /\ [Next]_vars => [CancelKept]_vars
  BY StepsKeepCancel, InvParts
<1>2. QED
  BY <1>1, Invariance, PTL DEF Spec, CancelStands, CancelKept

\* The row never shows more attempts than the job was allowed, for every number
\* of retries, stalls and hand-backs (SC-167).
THEOREM BudgetHolds == Spec => []AttemptsWithinBudget
BY Invariance, PTL DEF IInv

-----------------------------------------------------------------------------
\* What each statement may do to a standing verdict.
LEMMA StatementsKeepVerdict ==
  ASSUME NEW r, RowInv(r), r.dead
  PROVE  /\ InsertEnqueued(r) = r \/ ~InsertEnqueued(r).dead
         /\ UpdateProgress(r).reason = r.reason
         /\ MarkCompleted(r) = r \/ ~MarkCompleted(r).dead
         /\ MarkRequeued(r) = r \/ ~MarkRequeued(r).dead
         /\ DismissFailed(r).reason = r.reason
         /\ MarkCancelled(r).reason \in {r.reason, "cancelled"}
         /\ \A made : /\ MarkActive(r, made).reason = r.reason
                      /\ MarkFailed(r, made).reason = r.reason
                      /\ \A why : MarkDead(r, why, made) = r
<1> USE DEF RowInv, RowType, InFlight, Terminal, Exists
<1>1. InsertEnqueued(r) = r \/ ~InsertEnqueued(r).dead
  BY DEF InsertEnqueued, Fresh
<1>2. UpdateProgress(r).reason = r.reason
  BY DEF UpdateProgress
<1>3. MarkCompleted(r) = r \/ ~MarkCompleted(r).dead
  BY DEF MarkCompleted
<1>4. MarkRequeued(r) = r \/ ~MarkRequeued(r).dead
  BY DEF MarkRequeued
<1>5. DismissFailed(r).reason = r.reason
  BY DEF DismissFailed
<1>6. MarkCancelled(r).reason \in {r.reason, "cancelled"}
  BY DEF MarkCancelled
<1>7. \A made : /\ MarkActive(r, made).reason = r.reason
                /\ MarkFailed(r, made).reason = r.reason
                /\ \A why : MarkDead(r, why, made) = r
  BY DEF MarkActive, MarkFailed, MarkDead
<1>8. QED
  BY <1>1, <1>2, <1>3, <1>4, <1>5, <1>6, <1>7

\* Said of a step.
VerdictKept == row.dead /\ row'.dead => row'.reason \in {row.reason, "cancelled"}

\* No step relabels a standing verdict: the property as an action.
LEMMA StepsKeepVerdict ==
  ASSUME RowInv(row), [Next]_vars
  PROVE  VerdictKept
<1> SUFFICES ASSUME row.dead, row'.dead
             PROVE  row'.reason \in {row.reason, "cancelled"}
  BY DEF VerdictKept
<1> USE StatementsKeepVerdict
<1>1. CASE \E r \in Requests : EnqueueRow(r)
  BY <1>1 DEF EnqueueRow
<1>2. CASE RetryResetsRow \/ CancelMarksRow
  BY <1>2 DEF RetryResetsRow, CancelMarksRow
<1>3. CASE row' = [row EXCEPT !.old = TRUE]
  BY <1>3 DEF RowInv, RowType
<1>4. QED
  BY <1>1, <1>2, <1>3, StepsWriteStatements

\* The first terminal verdict stands: no late listener, reconciler or enqueue
\* relabels a dead row; only the owner's cancel may (markDead, SC-1607).
THEOREM FirstVerdictStands == Spec => VerdictStands
<1>1. IInv /\ [Next]_vars => [VerdictKept]_vars
  BY StepsKeepVerdict, InvParts DEF Parts
<1>2. QED
  BY <1>1, Invariance, PTL DEF Spec, VerdictStands, VerdictKept

-----------------------------------------------------------------------------
(***************************************************************************)
(* Receipts.  A request adds once, so a finished entry with its requestId  *)
(* is its own work; and an entry its add has landed on only goes away when *)
(* somebody else takes it.                                                 *)
(***************************************************************************)
Receipt(r) ==
  /\ enq[r].call = "idle" => enq[r].step = "off"
  /\ enq[r].call = "idle" \/ enq[r].step \in {"look", "evict", "add"} => enq[r].landed = "none"
  /\ enq[r].call = "ok" => enq[r].step = "off"
  /\ job.req = r => enq[r].landed = "inserted"
  /\ enq[r].step = "check" /\ enq[r].landed = "onFinished" =>
       job.st # "none" \/ TakenAway(r)
  /\ enq[r].call = "ok" /\ enq[r].landed = "onFinished" =>
       \/ enq[r].saw = "live"
       \/ enq[r].saw = "missing" /\ TakenAway(r)

\* A removal is owed to the owner.
OwedToOwner == detach = "owed" => spent["cancel"] > 0 \/ spent["dismiss"] > 0

ReceiptInv == (\A r \in Requests : Receipt(r)) /\ OwedToOwner

LEMMA InitReceiptInv == Init => ReceiptInv
BY ConstantsAssumption DEF Init, ReceiptInv, Receipt, OwedToOwner, NotAsked, NoJob

\* What happens is never undone: neither an event nor an eviction.
LEMMA SpentGrows ==
  ASSUME IInv, [Next]_vars
  PROVE  \A e \in Budgeted : spent[e] > 0 => spent'[e] > 0
<1>1. spent \in [Budgeted -> Nat]
  BY DEF IInv, TypeOK
<1>a. ASSUME UNCHANGED spent \/ \E e \in Budgeted : Spend(e)
      PROVE  \A e \in Budgeted : spent[e] > 0 => spent'[e] > 0
  BY <1>1, <1>a DEF Spend
<1>2. ASSUME NEW r \in Requests, EnqueueStep(r)
      PROVE  UNCHANGED spent \/ \E e \in Budgeted : Spend(e)
  BY <1>2 DEF EnqueueStep, EnqueueRow, LookForNamesake, EvictNamesake, AddToQueue,
     AssertWorkWasQueued, EnqueueFailed, EnqueueFault, EnqueueTimeout, ApiCrash, Write, Budgeted
<1>3. ASSUME NEW w \in Slots, SlotStep(w)
      PROVE  UNCHANGED spent \/ \E e \in Budgeted : Spend(e)
  BY <1>3 DEF SlotStep, PickUp, CheckGate, ThrowEarly, FireActive, ReportProgress, FireCompleted,
     FireFailed, CommitCompleted, CommitFailed, ListenerMarksDead, HandBack, Die, Write, Budgeted
<1>4. CASE OwnerStep \/ ReconcilerStep \/ QueueStep \/ CutoffPasses
  BY <1>a, <1>4 DEF OwnerStep, RetryReads, RetryJob, RetryResetsRow, RetryCrash, CancelMarksRow,
     DismissMarksRow, DetachFromQueue, ReconcilerStep, ReconcilerFinds, ReconcilerAsks,
     ReconcilerMarksDead, QueueStep, PromoteDelayed, ReclaimStalled, EvictFinished, CutoffPasses,
     Write, Budgeted
<1>5. CASE UNCHANGED vars
  BY <1>a, <1>5 DEF vars
<1>6. QED
  BY <1>a, <1>2, <1>3, <1>4, <1>5 DEF Next

\* Steps outside the enqueue: the entry keeps its request, and goes away only
\* when the owner or the queue's retention takes it.
LEMMA OthersKeepReceipts ==
  ASSUME IInv, ReceiptInv, [Next]_vars, UNCHANGED enq,
         job'.req \in {job.req, Nobody},
         job'.st = "none" => job.st = "none" \/
           \E e \in {"cancel", "dismiss", "evict"} : spent'[e] > 0
  PROVE  \A r \in Requests : Receipt(r)'
<1> SUFFICES ASSUME NEW r \in Requests PROVE Receipt(r)'
  OBVIOUS
<1>1. TakenAway(r) => TakenAway(r)'
  BY SpentGrows DEF TakenAway, Budgeted, IInv, TypeOK
<1>2. Receipt(r)
  BY DEF ReceiptInv
<1>3. job'.st = "none" => job.st = "none" \/ TakenAway(r)'
  BY DEF TakenAway
<1>4. job'.req = r => job.req = r
  BY ConstantsAssumption
<1>5. QED
  BY <1>1, <1>2, <1>3, <1>4 DEF Receipt

LEMMA EnqueueKeepsReceipts ==
  ASSUME IInv, ReceiptInv, NEW q \in Requests, EnqueueStep(q)
  PROVE  \A r \in Requests : Receipt(r)'
<1> SUFFICES ASSUME NEW r \in Requests PROVE Receipt(r)'
  OBVIOUS
<1>a. enq \in [Requests -> EnqType] /\ job \in JobType
  BY DEF IInv, TypeOK
<1>b. Receipt(r) /\ Receipt(q)
  BY DEF ReceiptInv
<1>c. [Next]_vars
  BY DEF Next
<1>d. \A e \in Budgeted : spent[e] > 0 => spent'[e] > 0
  BY <1>c, SpentGrows
<1>e. \A p \in Requests : p # q => enq'[p] = enq[p]
  BY <1>a DEF EnqueueStep, EnqueueRow, LookForNamesake, EvictNamesake, AddToQueue,
     AssertWorkWasQueued, EnqueueFailed, EnqueueFault, EnqueueTimeout, ApiCrash, Throw
<1>f. enq[q].evicted => enq'[q].evicted
  BY <1>a DEF EnqType, EnqueueStep, EnqueueRow, LookForNamesake, EvictNamesake, AddToQueue,
     AssertWorkWasQueued, EnqueueFailed, EnqueueFault, EnqueueTimeout, ApiCrash, Throw
<1>g. TakenAway(r) => TakenAway(r)'
  BY <1>d, <1>e, <1>f DEF TakenAway, Budgeted, IInv, TypeOK
<1>1. CASE r # q
  <2>1. enq'[r] = enq[r]
    BY <1>1, <1>e
  <2>2. job'.req = r => job.req = r
    BY <1>1, <1>a, ConstantsAssumption DEF EnqueueStep, EnqueueRow, LookForNamesake,
       EvictNamesake, AddToQueue, AssertWorkWasQueued, EnqueueFailed, EnqueueFault,
       EnqueueTimeout, ApiCrash, NoJob, Waiting
  <2>3. job'.st = "none" => job.st = "none" \/ TakenAway(r)'
    <3>1. CASE EvictNamesake(q)
      BY <1>1, <1>a, <3>1 DEF EvictNamesake, TakenAway, EnqType
    <3>2. CASE ~EvictNamesake(q)
      BY <1>a, <3>2 DEF EnqueueStep, EnqueueRow, LookForNamesake, AddToQueue,
         AssertWorkWasQueued, EnqueueFailed, EnqueueFault, EnqueueTimeout, ApiCrash, Waiting
    <3>3. QED
      BY <3>1, <3>2
  <2>4. QED
    BY <1>b, <1>g, <2>1, <2>2, <2>3 DEF Receipt
<1>2. CASE r = q
  <2>1. CASE EnqueueRow(q)
    BY <1>2, <1>a, <1>b, <1>g, <2>1 DEF EnqueueRow, Receipt, EnqType
  <2>2. CASE LookForNamesake(q)
    BY <1>2, <1>a, <1>b, <1>g, <2>2 DEF LookForNamesake, Receipt, EnqType
  <2>3. CASE EvictNamesake(q)
    BY <1>2, <1>a, <1>b, <1>g, <2>3, ConstantsAssumption DEF EvictNamesake, Throw, NoJob,
       Receipt, EnqType
  <2>4. CASE AddToQueue(q)
    BY <1>2, <1>a, <1>b, <1>g, <2>4 DEF AddToQueue, Waiting, Receipt, EnqType, Finished
  <2>5. CASE AssertWorkWasQueued(q)
    BY <1>2, <1>a, <1>b, <1>g, <2>5 DEF AssertWorkWasQueued, Throw, Receipt, EnqType, Finished
  <2>6. CASE EnqueueFailed(q) \/ EnqueueFault(q) \/ EnqueueTimeout(q) \/ ApiCrash(q)
    BY <1>2, <1>a, <1>b, <1>g, <2>6 DEF EnqueueFailed, EnqueueFault, EnqueueTimeout, ApiCrash,
       Throw, Receipt, EnqType
  <2>7. QED
    BY <2>1, <2>2, <2>3, <2>4, <2>5, <2>6 DEF EnqueueStep
<1>3. QED
  BY <1>1, <1>2

LEMMA NextKeepsReceiptInv ==
  ASSUME IInv, ReceiptInv, [Next]_vars
  PROVE  ReceiptInv'
<1>a. job \in JobType /\ spent \in [Budgeted -> Nat]
  BY DEF IInv, TypeOK
<1>b. \A e \in Budgeted : spent[e] > 0 => spent'[e] > 0
  BY SpentGrows
<1>1. OwedToOwner'
  <2>1. CASE detach' = "owed" /\ detach # "owed"
    <3>1. CancelMarksRow \/ DismissMarksRow
      BY <2>1 DEF Next, vars, EnqueueStep, EnqueueRow, LookForNamesake, EvictNamesake,
         AddToQueue, AssertWorkWasQueued, EnqueueFailed, EnqueueFault, EnqueueTimeout, ApiCrash,
         SlotStep, PickUp, CheckGate, ThrowEarly, FireActive, ReportProgress, FireCompleted,
         FireFailed, CommitCompleted, CommitFailed, ListenerMarksDead, HandBack, Die, OwnerStep,
         RetryReads, RetryJob, RetryResetsRow, RetryCrash, DetachFromQueue, ReconcilerStep,
         ReconcilerFinds, ReconcilerAsks, ReconcilerMarksDead, QueueStep, PromoteDelayed,
         ReclaimStalled, EvictFinished, CutoffPasses
    <3>2. QED
      BY <1>a, <3>1 DEF CancelMarksRow, DismissMarksRow, Spend, Budgeted, OwedToOwner
  <2>2. CASE ~(detach' = "owed" /\ detach # "owed")
    BY <1>a, <1>b, <2>2 DEF ReceiptInv, OwedToOwner, Budgeted
  <2>3. QED
    BY <2>1, <2>2
<1>2. ASSUME NEW r \in Requests, EnqueueStep(r)
      PROVE  \A p \in Requests : Receipt(p)'
  BY <1>2, EnqueueKeepsReceipts
<1>3. ASSUME NEW w \in Slots, SlotStep(w)
      PROVE  \A r \in Requests : Receipt(r)'
  <2>1. UNCHANGED enq
    BY <1>3 DEF SlotStep, PickUp, CheckGate, ThrowEarly, FireActive, ReportProgress,
       FireCompleted, FireFailed, CommitCompleted, CommitFailed, ListenerMarksDead, HandBack, Die
  <2>2. job'.req = job.req /\ (job'.st = "none" => job.st = "none")
    BY <1>3, <1>a DEF JobType, SlotStep, PickUp, CheckGate, ThrowEarly, FireActive,
       ReportProgress, FireCompleted, FireFailed, CommitCompleted, CommitFailed,
       ListenerMarksDead, HandBack, Die
  <2>3. QED
    BY <2>1, <2>2, OthersKeepReceipts
<1>4. CASE OwnerStep
  <2>1. UNCHANGED enq
    BY <1>4 DEF OwnerStep, RetryReads, RetryJob, RetryResetsRow, RetryCrash, CancelMarksRow,
       DismissMarksRow, DetachFromQueue
  <2>2. CASE DetachFromQueue
    <3>1. \E e \in {"cancel", "dismiss", "evict"} : spent'[e] > 0
      BY <1>a, <2>2 DEF DetachFromQueue, ReceiptInv, OwedToOwner, Budgeted
    <3>2. job'.req \in {job.req, Nobody}
      BY <2>2 DEF DetachFromQueue, NoJob
    <3>3. QED
      BY <1>1, <2>1, <3>1, <3>2, OthersKeepReceipts DEF ReceiptInv
  <2>3. CASE ~DetachFromQueue
    <3>1. job'.req = job.req /\ (job'.st = "none" => job.st = "none")
      BY <1>4, <1>a, <2>3 DEF JobType, OwnerStep, RetryReads, RetryJob, RetryResetsRow,
         RetryCrash, CancelMarksRow, DismissMarksRow
    <3>2. QED
      BY <1>1, <2>1, <3>1, OthersKeepReceipts DEF ReceiptInv
  <2>4. QED
    BY <2>2, <2>3
<1>5. CASE QueueStep
  <2>1. /\ UNCHANGED enq /\ job'.req \in {job.req, Nobody}
        /\ job'.st = "none" => \E e \in {"cancel", "dismiss", "evict"} : spent'[e] > 0
    <3>1. CASE PromoteDelayed
      BY <1>a, <3>1 DEF PromoteDelayed, JobType
    <3>2. CASE ReclaimStalled
      <4>1. job' = [job EXCEPT !.st = "wait", !.holder = Nobody, !.stalls = @ + 1]
        BY <3>2 DEF ReclaimStalled
      <4>2. job'.req = job.req /\ job'.st = "wait"
        BY <1>a, <4>1 DEF JobType
      <4>3. QED
        BY <3>2, <4>2 DEF ReclaimStalled
    <3>3. CASE EvictFinished
      BY <1>a, <3>3 DEF EvictFinished, NoJob, Spend, Budgeted
    <3>4. QED
      BY <1>5, <3>1, <3>2, <3>3 DEF QueueStep
  <2>2. QED
    BY <1>1, <2>1, OthersKeepReceipts DEF ReceiptInv
<1>6. CASE ReconcilerStep \/ CutoffPasses \/ UNCHANGED vars
  <2>1. UNCHANGED <<enq, job>>
    BY <1>6 DEF ReconcilerStep, ReconcilerFinds, ReconcilerAsks, ReconcilerMarksDead,
       CutoffPasses, vars
  <2>2. QED
    BY <1>1, <2>1, OthersKeepReceipts DEF ReceiptInv
<1>7. QED
  BY <1>1, <1>2, <1>3, <1>4, <1>5, <1>6 DEF Next, ReceiptInv

\* A receipt is given for live work: what the add has landed on, when that was
\* finished, is live again by the time of the check, or was taken away by
\* another enqueue, the owner or retention (assertWorkWasQueued, SC-846).
THEOREM ReceiptsMeanWork == Spec => []ReceiptMeansWork
<1>1. IInv /\ ReceiptInv => ReceiptMeansWork
  BY DEF ReceiptInv, Receipt, ReceiptMeansWork
<1>2. IInv /\ ReceiptInv /\ [Next]_vars => ReceiptInv'
  BY NextKeepsReceiptInv
<1>3. QED
  BY <1>1, <1>2, InitReceiptInv, Invariance, PTL DEF Spec

-----------------------------------------------------------------------------
(***************************************************************************)
(* One request.  When nobody asks for the id again, retries it or gives up *)
(* waiting for the enqueue, the entry under the id is that request's, and  *)
(* nothing happens to the row or the entry before it is asked for.         *)
(***************************************************************************)
Single == OneRequest /\ NoneYet({"retry", "timeout"})

Settled == \A r \in Requests : enq[r].step = "off"

Inserted == \E r \in Requests : enq[r].landed = "inserted"

Sole ==
  /\ retry = "idle"
  /\ Exists(row) <=> \E r \in Requests : enq[r].call # "idle"
  /\ \A r \in Requests : enq[r].call # "idle" => enq[r].stamped
  /\ \A r \in Requests : enq[r].step # "off" => enq[r].call = "wait"
  /\ \A r \in Requests : enq[r].step # "evict"
  /\ row.old => Settled
  /\ reconciler # "idle" => Exists(row) /\ Settled
  /\ job.st # "none" => job.req \in Requests
  /\ \A w \in Slots : run[w].pc # "idle" => Inserted
  /\ ran => Inserted

\* An event that has not happened by the end of a step is not spent in it.
LEMMA NotSpent ==
  ASSUME NEW e \in Budgeted, spent \in [Budgeted -> Nat], spent'[e] = 0
  PROVE  ~Spend(e)
BY DEF Spend

LEMMA NoneYetBefore ==
  ASSUME IInv, [Next]_vars, NEW events \in SUBSET Budgeted, \A e \in events : spent'[e] = 0
  PROVE  NoneYet(events)
BY SpentGrows DEF NoneYet, IInv, TypeOK

LEMMA OneRequestBefore ==
  ASSUME IInv, [Next]_vars, OneRequest'
  PROVE  OneRequest
<1>1. \A r \in Requests : enq[r].call # "idle" => enq'[r].call # "idle"
  <2>a. enq \in [Requests -> EnqType]
    BY DEF IInv, TypeOK
  <2>1. ASSUME NEW q \in Requests, EnqueueStep(q)
        PROVE  \A r \in Requests : enq[r].call # "idle" => enq'[r].call # "idle"
    BY <2>a, <2>1 DEF EnqType, EnqueueStep, EnqueueRow, LookForNamesake, EvictNamesake, AddToQueue,
       AssertWorkWasQueued, EnqueueFailed, EnqueueFault, EnqueueTimeout, ApiCrash, Throw
  <2>2. ASSUME ~\E q \in Requests : EnqueueStep(q)
        PROVE  UNCHANGED enq
    BY <2>2 DEF Next, vars, SlotStep, PickUp, CheckGate, ThrowEarly, FireActive, ReportProgress,
       FireCompleted, FireFailed, CommitCompleted, CommitFailed, ListenerMarksDead, HandBack,
       Die, OwnerStep, RetryReads, RetryJob, RetryResetsRow, RetryCrash, CancelMarksRow,
       DismissMarksRow, DetachFromQueue, ReconcilerStep, ReconcilerFinds, ReconcilerAsks,
       ReconcilerMarksDead, QueueStep, PromoteDelayed, ReclaimStalled, EvictFinished, CutoffPasses
  <2>3. QED
    BY <2>1, <2>2
<1>2. QED
  BY <1>1 DEF OneRequest

\* No statement but the insert makes a row exist, or makes it young again; and
\* only the insert and the reset of a retry undo the owner's cancel.
LEMMA StatementsAreTame ==
  ASSUME NEW r, RowInv(r), NEW s,
         \/ s \in {r, UpdateProgress(r), MarkCompleted(r), MarkCancelled(r), DismissFailed(r),
                   [r EXCEPT !.old = TRUE]}
         \/ \E made : s \in {MarkActive(r, made), MarkFailed(r, made)}
         \/ \E made, why : s = MarkDead(r, why, made)
  PROVE  /\ Exists(s) <=> Exists(r)
         /\ r.reason = "cancelled" => s.reason = "cancelled"
         /\ s.old => r.old \/ s = [r EXCEPT !.old = TRUE]
<1> USE DEF RowInv, RowType, InFlight, Terminal, Exists
<1>1. CASE s \in {r, UpdateProgress(r), MarkCompleted(r)}
  BY <1>1 DEF UpdateProgress, MarkCompleted
<1>2. CASE s \in {MarkCancelled(r), DismissFailed(r), [r EXCEPT !.old = TRUE]}
  BY <1>2 DEF MarkCancelled, DismissFailed
<1>3. CASE \E made : s \in {MarkActive(r, made), MarkFailed(r, made)}
  BY <1>3 DEF MarkActive, MarkFailed
<1>4. CASE \E made, why : s = MarkDead(r, why, made)
  BY <1>4 DEF MarkDead
<1>5. QED
  BY <1>1, <1>2, <1>3, <1>4

\* A step leaves such a row where it is, or is the request, which finds none.
Tame ==
  /\ Exists(row') <=> Exists(row)
  /\ row.reason = "cancelled" => row'.reason = "cancelled"
  /\ row'.old => row.old \/ CutoffPasses

LEMMA SoleRow ==
  ASSUME IInv, Sole, Single', [Next]_vars
  PROVE  /\ \A r \in Requests : EnqueueRow(r) => ~Exists(row) /\ row' = Fresh
         /\ (\A r \in Requests : ~EnqueueRow(r)) => Tame
<1> USE DEF Tame
<1>a. RowInv(row) /\ ActorTypes
  BY InvParts DEF Parts
<1>b. ~Spend("retry")
  BY <1>a, NotSpent DEF ActorTypes, Single, NoneYet, Budgeted
<1>1. ASSUME NEW r \in Requests, EnqueueRow(r)
      PROVE  ~Exists(row) /\ row' = Fresh
  <2>1. enq'[r].call # "idle" /\ enq[r].call = "idle"
    BY <1>1, <1>a DEF EnqueueRow, ActorTypes, EnqType
  <2>2. \A q \in Requests \ {r} : enq'[q] = enq[q]
    BY <1>1, <1>a DEF EnqueueRow, ActorTypes
  <2>3. \A q \in Requests : enq[q].call = "idle"
    BY <2>1, <2>2 DEF Single, OneRequest
  <2>4. QED
    BY <1>1, <2>3 DEF Sole, EnqueueRow, InsertEnqueued, StampsRow, InFlight, Exists
<1>2. ASSUME NEW r \in Requests, EnqueueStep(r), ~EnqueueRow(r)
      PROVE  Tame
  <2>1. row' = row \/ row' = MarkFailed(row, 0)
    BY <1>2 DEF EnqueueStep, LookForNamesake, EvictNamesake, AddToQueue,
       AssertWorkWasQueued, EnqueueFailed, EnqueueFault, EnqueueTimeout, ApiCrash, Write
  <2>2. row' = MarkFailed(row, 0) => row'.old = row.old
    BY DEF MarkFailed
  <2>3. QED
    BY <1>a, <2>1, <2>2, StatementsAreTame
<1>3. ASSUME NEW w \in Slots, SlotStep(w)
      PROVE  Tame
  <2>1. \/ row' \in {row, UpdateProgress(row), MarkCompleted(row)}
        \/ row' \in {MarkActive(row, run[w].made), MarkFailed(row, run[w].made)}
        \/ row' = MarkDead(row, DeathReason(w), run[w].made)
    BY <1>3 DEF SlotStep, PickUp, CheckGate, ThrowEarly, FireActive, ReportProgress,
              FireCompleted, FireFailed, CommitCompleted, CommitFailed,
              ListenerMarksDead, HandBack, Die, Write
  <2>2. row'.old = row.old
    BY <1>a, <2>1 DEF UpdateProgress, MarkCompleted, MarkActive, MarkFailed, MarkDead, RowInv, RowType
  <2>3. QED
    BY <1>a, <2>1, <2>2, StatementsAreTame
<1>4. ASSUME OwnerStep PROVE Tame
  <2>1. row' \in {row, MarkCancelled(row), DismissFailed(row)}
    BY <1>4, <1>b DEF Sole, OwnerStep, RetryReads, RetryJob, RetryResetsRow, RetryCrash,
              CancelMarksRow, DismissMarksRow, DetachFromQueue
  <2>2. row'.old = row.old
    BY <1>a, <2>1 DEF MarkCancelled, DismissFailed, RowInv, RowType
  <2>3. QED
    BY <1>a, <2>1, <2>2, StatementsAreTame
<1>5. ASSUME ReconcilerStep PROVE Tame
  <2>1. row' = row \/ row' = MarkDead(row, "never_delivered", 0)
    BY <1>5 DEF ReconcilerStep, ReconcilerFinds, ReconcilerAsks, ReconcilerMarksDead, Write
  <2>2. row'.old = row.old
    BY <1>a, <2>1 DEF MarkDead, RowInv, RowType
  <2>3. QED
    BY <1>a, <2>1, <2>2, StatementsAreTame
<1>6. ASSUME CutoffPasses PROVE Tame
  BY <1>a, <1>6, StatementsAreTame DEF CutoffPasses
<1>7. ASSUME QueueStep \/ UNCHANGED vars PROVE Tame
  BY <1>7 DEF QueueStep, PromoteDelayed, ReclaimStalled, EvictFinished, vars
<1>8. QED
  BY <1>1, <1>2, <1>3, <1>4, <1>5, <1>6, <1>7 DEF Next

LEMMA InsertedLasts ==
  ASSUME IInv, ReceiptInv, [Next]_vars
  PROVE  Inserted => Inserted'
<1>a. enq \in [Requests -> EnqType]
  BY DEF IInv, TypeOK
<1>1. ASSUME NEW q \in Requests, EnqueueStep(q), NEW r \in Requests, enq[r].landed = "inserted"
      PROVE  enq'[r].landed = "inserted"
  BY <1>a, <1>1 DEF EnqType, ReceiptInv, Receipt, EnqueueStep, EnqueueRow, LookForNamesake,
     EvictNamesake, AddToQueue, AssertWorkWasQueued, EnqueueFailed, EnqueueFault,
     EnqueueTimeout, ApiCrash, Throw
<1>2. ASSUME ~\E q \in Requests : EnqueueStep(q)
      PROVE  UNCHANGED enq
  BY <1>2 DEF Next, vars, SlotStep, PickUp, CheckGate, ThrowEarly, FireActive, ReportProgress,
     FireCompleted, FireFailed, CommitCompleted, CommitFailed, ListenerMarksDead, HandBack,
     Die, OwnerStep, RetryReads, RetryJob, RetryResetsRow, RetryCrash, CancelMarksRow,
     DismissMarksRow, DetachFromQueue, ReconcilerStep, ReconcilerFinds, ReconcilerAsks,
     ReconcilerMarksDead, QueueStep, PromoteDelayed, ReclaimStalled, EvictFinished, CutoffPasses
<1>3. QED
  BY <1>1, <1>2 DEF Inserted

\* Who has been asked is alone, and what is under the id is its.
LEMMA TheOneRequest ==
  ASSUME IInv, ReceiptInv, Sole, OneRequest, NEW r \in Requests, enq[r].call # "idle"
  PROVE  /\ Inserted => enq[r].landed = "inserted"
         /\ job.st # "none" => job.req = r /\ enq[r].landed = "inserted"
         /\ enq[r].step \in {"look", "add"} => ~Inserted /\ job.st = "none"
BY DEF ReceiptInv, Receipt, Sole, OneRequest, Inserted

LEMMA NextKeepsSole ==
  ASSUME IInv, ReceiptInv, Single => Sole, Single', [Next]_vars
  PROVE  Sole'
<1>a. RowInv(row) /\ ActorTypes /\ JobInv
  BY InvParts DEF Parts
<1>b. {"retry", "timeout"} \subseteq Budgeted /\ Single
  BY NoneYetBefore, OneRequestBefore DEF Single, NoneYet, Budgeted
<1>c. Sole
  BY <1>b
<1>d. ~Spend("retry") /\ ~Spend("timeout")
  BY <1>a, <1>b, NotSpent DEF ActorTypes, Single, NoneYet
<1>e. Inserted => Inserted'
  BY InsertedLasts
<1>f. OneRequest
  BY <1>b DEF Single
<1>1. ASSUME NEW r \in Requests, EnqueueRow(r)
      PROVE  Sole'
  <2>1. ~Exists(row) /\ row' = Fresh
    BY <1>c, <1>1, SoleRow
  <2>2. QED
    BY <1>a, <1>c, <1>e, <1>1, <2>1 DEF ActorTypes, EnqType, EnqueueRow, Sole, Exists, Fresh,
       StampsRow, InFlight, Settled
<1>2. CASE CutoffPasses
  <2>1. Settled
    BY <1>c, <1>2 DEF CutoffPasses, Sole, Settled
  <2>2. row.state = row'.state
    BY <1>a, <1>2 DEF CutoffPasses, RowInv, RowType
  <2>3. QED
    BY <1>c, <1>2, <2>1, <2>2 DEF CutoffPasses, Sole, Settled, Inserted, Exists
<1>3. CASE ~CutoffPasses /\ \A r \in Requests : ~EnqueueRow(r)
  <2>1. (Exists(row') <=> Exists(row)) /\ (row'.old => row.old)
    BY <1>c, <1>3, SoleRow DEF Tame
  <2>2. ASSUME NEW r \in Requests, EnqueueStep(r)
        PROVE  Sole'
    <3>1. CASE LookForNamesake(r)
      <4>1. job.st = "none"
        BY <1>c, <1>f, <3>1, TheOneRequest DEF LookForNamesake, ReceiptInv, Receipt
      <4>2. QED
        BY <1>a, <1>c, <1>e, <2>1, <3>1, <4>1 DEF ActorTypes, EnqType, LookForNamesake, Sole,
           Settled, Finished, Exists
    <3>2. CASE EvictNamesake(r)
      BY <1>c, <3>2 DEF Sole, EvictNamesake
    <3>3. CASE AddToQueue(r)
      BY <1>a, <1>c, <1>e, <2>1, <3>3 DEF ActorTypes, EnqType, AddToQueue, Waiting, Sole, Settled,
         Exists
    <3>4. CASE AssertWorkWasQueued(r)
      BY <1>a, <1>c, <1>e, <2>1, <3>4 DEF ActorTypes, EnqType, AssertWorkWasQueued, Throw, Sole,
         Settled, Exists
    <3>5. CASE EnqueueFailed(r)
      BY <1>a, <1>c, <1>e, <2>1, <3>5 DEF ActorTypes, EnqType, EnqueueFailed, Sole, Settled, Exists
    <3>6. CASE EnqueueFault(r) \/ ApiCrash(r)
      BY <1>a, <1>c, <1>e, <2>1, <3>6 DEF ActorTypes, EnqType, EnqueueFault, ApiCrash, Throw, Sole,
         Settled, Exists
    <3>7. CASE EnqueueTimeout(r)
      BY <1>d, <3>7 DEF EnqueueTimeout
    <3>8. QED
      BY <1>3, <2>2, <3>1, <3>2, <3>3, <3>4, <3>5, <3>6, <3>7 DEF EnqueueStep
  <2>3. ASSUME NEW w \in Slots, SlotStep(w)
        PROVE  Sole'
    <3>1. UNCHANGED <<enq, retry, reconciler>>
      BY <2>3 DEF SlotStep, PickUp, CheckGate, ThrowEarly, FireActive, ReportProgress,
         FireCompleted, FireFailed, CommitCompleted, CommitFailed, ListenerMarksDead, HandBack, Die
    <3>2. job'.req = job.req /\ (job.st = "none" => job'.st = "none")
      BY <1>a, <2>3 DEF JobInv, JobType, SlotStep, PickUp, CheckGate, ThrowEarly, FireActive,
         ReportProgress, FireCompleted, FireFailed, CommitCompleted, CommitFailed, Holds,
         ListenerMarksDead, HandBack, Die
    <3>3. job.st # "none" => Inserted
      BY <1>c DEF Sole, ReceiptInv, Receipt, Inserted
    <3>4. \A v \in Slots : run'[v].pc # "idle" => run[v].pc # "idle" \/ job.st # "none"
      BY <1>a, <2>3 DEF ActorTypes, RunType, Goto, Idle, SlotStep, PickUp, CheckGate, ThrowEarly,
         FireActive, ReportProgress, FireCompleted, FireFailed, CommitCompleted, CommitFailed,
         ListenerMarksDead, HandBack, Die
    <3>5. ran' => ran \/ run[w].pc # "idle"
      BY <2>3 DEF SlotStep, PickUp, CheckGate, ThrowEarly, FireActive, ReportProgress,
         FireCompleted, FireFailed, CommitCompleted, CommitFailed, ListenerMarksDead, HandBack, Die
    <3>6. QED
      BY <1>c, <2>1, <3>1, <3>2, <3>3, <3>4, <3>5 DEF Sole, Settled, Inserted
  <2>4. CASE OwnerStep
    <3>1. UNCHANGED <<enq, retry, reconciler, run, ran>>
      BY <1>c, <1>d, <2>4 DEF Sole, OwnerStep, RetryReads, RetryJob, RetryResetsRow, RetryCrash,
         CancelMarksRow, DismissMarksRow, DetachFromQueue
    <3>2. job' = job \/ job' = NoJob
      BY <1>c, <2>4 DEF Sole, OwnerStep, RetryReads, RetryJob, RetryResetsRow, RetryCrash,
         CancelMarksRow, DismissMarksRow, DetachFromQueue
    <3>3. QED
      BY <1>c, <2>1, <3>1, <3>2 DEF Sole, Settled, Inserted, NoJob
  <2>5. CASE ReconcilerStep
    <3>1. UNCHANGED <<enq, retry, job, run, ran>>
      BY <2>5 DEF ReconcilerStep, ReconcilerFinds, ReconcilerAsks, ReconcilerMarksDead
    <3>2. reconciler' # "idle" =>
            reconciler # "idle" \/ (row.old /\ Exists(row))
      BY <2>5 DEF ReconcilerStep, ReconcilerFinds, ReconcilerAsks, ReconcilerMarksDead,
         IsOrphanedQueued, Exists
    <3>3. QED
      BY <1>c, <2>1, <3>1, <3>2 DEF Sole, Settled, Inserted
  <2>6. CASE QueueStep
    <3>1. UNCHANGED <<enq, retry, reconciler, run, ran>>
      BY <2>6 DEF QueueStep, PromoteDelayed, ReclaimStalled, EvictFinished
    <3>2. job' = NoJob \/ (job'.req = job.req /\ job.st # "none")
      <4>1. CASE PromoteDelayed
        BY <1>a, <4>1 DEF PromoteDelayed, JobInv, JobType
      <4>2. CASE ReclaimStalled
        <5>1. job' = [job EXCEPT !.st = "wait", !.holder = Nobody, !.stalls = @ + 1]
          BY <4>2 DEF ReclaimStalled
        <5>2. QED
          BY <1>a, <4>2, <5>1 DEF ReclaimStalled, JobInv, JobType
      <4>3. CASE EvictFinished
        BY <4>3 DEF EvictFinished
      <4>4. QED
        BY <2>6, <4>1, <4>2, <4>3 DEF QueueStep
    <3>3. QED
      BY <1>c, <2>1, <3>1, <3>2 DEF Sole, Settled, Inserted, NoJob
  <2>7. CASE UNCHANGED vars
    BY <1>c, <2>7 DEF vars, Sole, Settled, Inserted, Exists
  <2>8. QED
    BY <1>3, <2>2, <2>3, <2>4, <2>5, <2>6, <2>7 DEF Next
<1>4. QED
  BY <1>1, <1>2, <1>3

-----------------------------------------------------------------------------
(***************************************************************************)
(* Never delivered.  Until the owner or retention removes it, the entry of *)
(* the one request is there from its insert on, so the reconciler misses   *)
(* it only if it was never inserted, and then nothing will insert it: the  *)
(* row is old, so the enqueue is over.                                     *)
(***************************************************************************)
Unremoved == OneRequest /\ NoneYet({"retry", "dismiss", "evict", "timeout"})

Undelivered ==
  /\ detach = "owed" => row.reason = "cancelled"
  /\ Inserted /\ job.st = "none" => row.reason = "cancelled"
  /\ reconciler = "missing" => row.reason = "cancelled" \/ ~Inserted
  /\ row.reason = "never_delivered" => ~Inserted /\ Settled

\* Only the reconciler says so, of a row without a verdict.
LEMMA OnlyTheReconcilerSays ==
  ASSUME IInv, [Next]_vars, row'.reason = "never_delivered", row.reason # "never_delivered"
  PROVE  reconciler = "missing" /\ ~row.dead
<1>a. RowInv(row) /\ ActorTypes
  BY InvParts DEF Parts
<1> USE <1>a DEF RowInv, RowType
<1>1. ASSUME NEW r \in Requests, EnqueueStep(r)
      PROVE  FALSE
  <2>1. row' = row \/ row' = InsertEnqueued(row) \/ row' = MarkFailed(row, 0)
    BY <1>1 DEF EnqueueStep, EnqueueRow, LookForNamesake, EvictNamesake, AddToQueue,
       AssertWorkWasQueued, EnqueueFailed, EnqueueFault, EnqueueTimeout, ApiCrash, Write
  <2>2. InsertEnqueued(row).reason \in {row.reason, "none"}
    BY DEF InsertEnqueued, Fresh
  <2>3. MarkFailed(row, 0).reason = row.reason
    BY DEF MarkFailed
  <2>4. QED
    BY <2>1, <2>2, <2>3
<1>2. ASSUME NEW w \in Slots, SlotStep(w)
      PROVE  FALSE
  <2>1. CASE ListenerMarksDead(w)
    <3>1. DeathReason(w) # "never_delivered"
      BY DEF ActorTypes, RunType, Thrown, DeathReason
    <3>2. QED
      BY <2>1, <3>1 DEF ListenerMarksDead, Write, MarkDead
  <2>2. CASE FireActive(w) \/ ReportProgress(w) \/ FireCompleted(w) \/ FireFailed(w)
    BY <2>2 DEF FireActive, ReportProgress, FireCompleted, FireFailed, Write, MarkActive,
       UpdateProgress, MarkCompleted, MarkFailed
  <2>3. CASE UNCHANGED row
    BY <2>3
  <2>4. QED
    BY <1>2, <2>1, <2>2, <2>3 DEF SlotStep, PickUp, CheckGate, ThrowEarly, CommitCompleted,
       CommitFailed, HandBack, Die
<1>3. CASE OwnerStep
  BY <1>3 DEF OwnerStep, RetryReads, RetryJob, RetryResetsRow, RetryCrash, CancelMarksRow,
     DismissMarksRow, DetachFromQueue, MarkRequeued, MarkCancelled, DismissFailed
<1>4. CASE ReconcilerStep
  BY <1>4 DEF ReconcilerStep, ReconcilerFinds, ReconcilerAsks, ReconcilerMarksDead, Write, MarkDead
<1>5. CASE QueueStep \/ CutoffPasses \/ UNCHANGED vars
  BY <1>5 DEF QueueStep, PromoteDelayed, ReclaimStalled, EvictFinished, CutoffPasses, vars
<1>6. QED
  BY <1>1, <1>2, <1>3, <1>4, <1>5 DEF Next

LEMMA NextKeepsUndelivered ==
  ASSUME IInv, ReceiptInv, Sole, Unremoved => Undelivered, Unremoved', [Next]_vars
  PROVE  Undelivered'
<1>a. RowInv(row) /\ ActorTypes /\ JobInv
  BY InvParts DEF Parts
<1>b. Unremoved /\ Single'
  BY NoneYetBefore, OneRequestBefore DEF Unremoved, Single, NoneYet, Budgeted
<1>c. Undelivered /\ OneRequest
  BY <1>b DEF Unremoved
<1>d. ~Spend("dismiss") /\ ~Spend("evict")
  BY <1>a, NotSpent DEF ActorTypes, Unremoved, NoneYet, Budgeted
<1>1. ASSUME NEW r \in Requests, EnqueueRow(r)
      PROVE  Undelivered'
  <2>1. ~Exists(row) /\ row' = Fresh
    BY <1>b, <1>1, SoleRow
  <2>2. row.reason # "cancelled" /\ reconciler = "idle"
    BY <1>a, <1>c, <2>1 DEF RowInv, Exists, Sole
  <2>3. ~Inserted'
    <3>1. \A q \in Requests : enq[q].landed = "none"
      BY <2>1 DEF Sole, ReceiptInv, Receipt
    <3>2. \A q \in Requests : enq'[q].landed = enq[q].landed
      BY <1>a, <1>1 DEF EnqueueRow, ActorTypes, EnqType
    <3>3. QED
      BY <3>1, <3>2 DEF Inserted
  <2>4. QED
    BY <1>c, <1>1, <2>1, <2>2, <2>3 DEF Undelivered, EnqueueRow, Fresh
<1>2. CASE \A r \in Requests : ~EnqueueRow(r)
  <2>1. row.reason = "cancelled" => row'.reason = "cancelled"
    BY <1>b, <1>2, SoleRow DEF Tame
  <2>2. row'.reason = "never_delivered" =>
          row.reason = "never_delivered" \/ (reconciler = "missing" /\ ~row.dead)
    BY OnlyTheReconcilerSays
  <2>3. row'.reason = "never_delivered" => ~Inserted /\ Settled
    BY <1>a, <1>c, <2>2 DEF Undelivered, Sole, RowInv
  <2>4. ASSUME NEW r \in Requests, EnqueueStep(r)
        PROVE  Undelivered'
    <3>1. CASE AddToQueue(r)
      <4>1. job'.st # "none" /\ ~Settled
        BY <1>a, <3>1 DEF AddToQueue, Waiting, Settled
      <4>2. reconciler' = "idle" /\ detach' = detach /\ row'.reason # "never_delivered"
        BY <2>3, <3>1, <4>1 DEF AddToQueue, Sole, ActorTypes
      <4>3. QED
        BY <1>c, <2>1, <4>1, <4>2 DEF Undelivered
    <3>2. CASE ~AddToQueue(r)
      <4>1. Inserted' => Inserted
        BY <1>a, <1>2, <2>4, <3>2 DEF ActorTypes, EnqType, Inserted, EnqueueStep, LookForNamesake,
           EvictNamesake, AssertWorkWasQueued, EnqueueFailed, EnqueueFault, EnqueueTimeout,
           ApiCrash, Throw
      <4>2. Settled => Settled'
        BY <1>a, <1>2, <2>4, <3>2 DEF ActorTypes, EnqType, Settled, EnqueueStep, LookForNamesake,
           EvictNamesake, AssertWorkWasQueued, EnqueueFailed, EnqueueFault, EnqueueTimeout,
           ApiCrash, Throw
      <4>3. UNCHANGED <<job, detach, reconciler>>
        BY <1>2, <2>4, <3>2 DEF Sole, EnqueueStep, LookForNamesake, EvictNamesake,
           AssertWorkWasQueued, EnqueueFailed, EnqueueFault, EnqueueTimeout, ApiCrash
      <4>4. QED
        BY <1>c, <2>1, <2>3, <4>1, <4>2, <4>3 DEF Undelivered
    <3>3. QED
      BY <3>1, <3>2
  <2>5. ASSUME NEW w \in Slots, SlotStep(w)
        PROVE  Undelivered'
    <3>1. UNCHANGED <<enq, detach, reconciler>>
      BY <2>5 DEF SlotStep, PickUp, CheckGate, ThrowEarly, FireActive, ReportProgress,
         FireCompleted, FireFailed, CommitCompleted, CommitFailed, ListenerMarksDead, HandBack, Die
    <3>2. job'.st = "none" => job.st = "none"
      BY <1>a, <2>5 DEF JobInv, JobType, SlotStep, PickUp, CheckGate, ThrowEarly, FireActive,
         ReportProgress, FireCompleted, FireFailed, CommitCompleted, CommitFailed,
         ListenerMarksDead, HandBack, Die
    <3>3. QED
      BY <1>c, <2>1, <2>3, <3>1, <3>2 DEF Undelivered, Inserted, Settled
  <2>6. CASE OwnerStep
    <3>1. UNCHANGED <<enq, reconciler>>
      BY <2>6 DEF OwnerStep, RetryReads, RetryJob, RetryResetsRow, RetryCrash, CancelMarksRow,
         DismissMarksRow, DetachFromQueue
    <3>2. detach' = "owed" => row'.reason = "cancelled"
      BY <1>a, <1>c, <1>d, <2>1, <2>6 DEF Undelivered, Sole, OwnerStep, RetryReads, RetryJob,
         RetryResetsRow, RetryCrash, CancelMarksRow, DismissMarksRow, DetachFromQueue,
         MarkCancelled, RowInv, RowType
    <3>3. job'.st = "none" => job.st = "none" \/ row.reason = "cancelled"
      BY <1>a, <1>c, <1>d, <2>6 DEF Undelivered, Sole, OwnerStep, RetryReads, RetryJob,
         RetryResetsRow, RetryCrash, CancelMarksRow, DismissMarksRow, DetachFromQueue
    <3>4. QED
      BY <1>c, <2>1, <2>3, <3>1, <3>2, <3>3 DEF Undelivered, Inserted, Settled
  <2>7. CASE ReconcilerStep
    <3>1. UNCHANGED <<enq, detach, job>>
      BY <2>7 DEF ReconcilerStep, ReconcilerFinds, ReconcilerAsks, ReconcilerMarksDead
    <3>2. reconciler' = "missing" => job.st = "none"
      BY <2>7 DEF ReconcilerStep, ReconcilerFinds, ReconcilerAsks, ReconcilerMarksDead
    <3>3. QED
      BY <1>c, <2>1, <2>3, <3>1, <3>2 DEF Undelivered, Inserted, Settled
  <2>8. CASE QueueStep
    <3>1. UNCHANGED <<enq, detach, reconciler>>
      BY <2>8 DEF QueueStep, PromoteDelayed, ReclaimStalled, EvictFinished
    <3>2. job'.st # "none"
      BY <1>a, <1>d, <2>8 DEF JobInv, JobType, QueueStep, PromoteDelayed, ReclaimStalled,
         EvictFinished
    <3>3. QED
      BY <1>c, <2>1, <2>3, <3>1, <3>2 DEF Undelivered, Inserted, Settled
  <2>9. CASE CutoffPasses \/ UNCHANGED vars
    <3>1. UNCHANGED <<enq, detach, reconciler, job>>
      BY <2>9 DEF CutoffPasses, vars
    <3>2. QED
      BY <1>c, <2>1, <2>3, <3>1 DEF Undelivered, Inserted, Settled
  <2>10. QED
    BY <2>4, <2>5, <2>6, <2>7, <2>8, <2>9 DEF Next
<1>3. QED
  BY <1>1, <1>2

-----------------------------------------------------------------------------
(***************************************************************************)
(* Completion.  While no write is lost and no attempt loses the job, the   *)
(* attempts past their pickup hold it, so there is one at a time and the   *)
(* row shows what it has done, or that the owner cancelled it.             *)
(***************************************************************************)
Unfaulted == OneRequest /\ NoneYet({"retry", "handBack", "loseLock", "timeout", "fault"})

HandlersHold ==
  /\ \A r \in Requests : enq[r].call # "failing"
  /\ \A w \in Slots : run[w].pc \notin {"idle", "listen"} => Holds(w)
  /\ \A w \in Slots : run[w].pc = "listen" => job.st \in {"none", "failed"}
  /\ reconciler = "missing" => job.st = "none"

Underway(r) == r.state \in {"active", "progress"} \/ r.reason = "cancelled"
Reached(r) == r.state = "completed" \/ r.reason = "cancelled"

RowFollows ==
  /\ \A w \in Slots : run[w].pc = "handle" => Underway(row)
  /\ \A w \in Slots : run[w].pc = "succeeded" => Reached(row)
  /\ job.st = "completed" => Reached(row)

LEMMA NextKeepsHold ==
  ASSUME IInv, ReceiptInv, Sole, Unfaulted => HandlersHold, Unfaulted', [Next]_vars
  PROVE  HandlersHold'
<1>a. RowInv(row) /\ ActorTypes /\ JobInv
  BY InvParts DEF Parts
<1>b. Unfaulted
  BY NoneYetBefore, OneRequestBefore DEF Unfaulted, NoneYet, Budgeted
<1>c. HandlersHold /\ OneRequest
  BY <1>b DEF Unfaulted
<1>d. ~Spend("handBack") /\ ~Spend("loseLock") /\ ~Spend("timeout") /\ ~Spend("fault")
        /\ ~Spend("retry")
  BY <1>a, NotSpent DEF ActorTypes, Unfaulted, NoneYet, Budgeted
<1>1. ASSUME NEW r \in Requests, EnqueueStep(r)
      PROVE  HandlersHold'
  <2>1. CASE AddToQueue(r)
    <3>1. job.st = "none" /\ ~Inserted /\ ~Settled
      BY <1>c, <2>1, TheOneRequest DEF AddToQueue, ReceiptInv, Receipt, Settled
    <3>2. reconciler = "idle" /\ \A w \in Slots : run[w].pc = "idle"
      BY <1>a, <3>1 DEF Sole, ActorTypes
    <3>3. QED
      BY <1>a, <1>c, <2>1, <3>1, <3>2 DEF AddToQueue, HandlersHold, ActorTypes, EnqType
  <2>2. CASE AssertWorkWasQueued(r)
    <3>1. ~(job.st \in Finished /\ job.req # r)
      BY <1>c, <2>2, TheOneRequest DEF AssertWorkWasQueued, ReceiptInv, Receipt, Finished
    <3>2. QED
      BY <1>a, <1>c, <2>2, <3>1 DEF AssertWorkWasQueued, HandlersHold, ActorTypes, EnqType, Holds
  <2>3. CASE EnqueueRow(r) \/ LookForNamesake(r) \/ ApiCrash(r)
    BY <1>a, <1>c, <2>3 DEF EnqueueRow, LookForNamesake, ApiCrash, HandlersHold, ActorTypes,
       EnqType, Holds
  <2>4. ~EvictNamesake(r) /\ ~EnqueueFailed(r) /\ ~EnqueueFault(r) /\ ~EnqueueTimeout(r)
    BY <1>c, <1>d DEF Sole, HandlersHold, EvictNamesake, EnqueueFailed, EnqueueFault,
       EnqueueTimeout
  <2>5. QED
    BY <1>1, <2>1, <2>2, <2>3, <2>4 DEF EnqueueStep
<1>2. ASSUME NEW w \in Slots, SlotStep(w)
      PROVE  HandlersHold'
  <2>1. UNCHANGED <<enq, reconciler>>
    BY <1>2 DEF SlotStep, PickUp, CheckGate, ThrowEarly, FireActive, ReportProgress,
       FireCompleted, FireFailed, CommitCompleted, CommitFailed, ListenerMarksDead, HandBack, Die
  <2>2. \A v \in Slots \ {w} : run'[v] = run[v]
    BY <1>a, <1>2 DEF ActorTypes, Goto, SlotStep, PickUp, CheckGate, ThrowEarly, FireActive,
       ReportProgress, FireCompleted, FireFailed, CommitCompleted, CommitFailed,
       ListenerMarksDead, HandBack, Die
  <2>3. CASE PickUp(w)
    <3>1. job'.st = "active" /\ job'.holder = w /\ job.st = "wait"
      BY <1>a, <2>3 DEF PickUp, JobInv, JobType
    <3>2. \A v \in Slots : run[v].pc = "idle"
      BY <1>a, <1>c, <3>1 DEF HandlersHold, Holds, ActorTypes, RunType
    <3>3. run'[w].pc # "listen"
      BY <1>a, <2>3 DEF PickUp, ActorTypes
    <3>4. QED
      BY <1>c, <2>1, <2>2, <3>1, <3>2, <3>3 DEF HandlersHold, Holds
  <2>4. CASE CommitCompleted(w) \/ CommitFailed(w)
    <3>1. Holds(w)
      BY <1>a, <1>c, <2>4 DEF HandlersHold, CommitCompleted, CommitFailed
    <3>2. \A v \in Slots \ {w} : run[v].pc = "idle"
      BY <1>a, <1>c, <3>1 DEF HandlersHold, Holds, ActorTypes, RunType
    <3>3. run'[w].pc = "idle" \/ (run'[w].pc = "listen" /\ job'.st = "failed")
      <4>1. CASE CommitCompleted(w)
        BY <1>a, <4>1 DEF CommitCompleted, Idle, ActorTypes
      <4>2. CASE CommitFailed(w) /\ GivesUp(w)
        <5>1. run'[w].pc = "listen"
          BY <1>a, <3>1, <4>2 DEF CommitFailed, ActorTypes, RunType
        <5>2. job' = [job EXCEPT !.st = "failed", !.made = job.made + 1, !.holder = Nobody]
          BY <3>1, <4>2 DEF CommitFailed
        <5>3. QED
          BY <1>a, <5>1, <5>2 DEF JobInv, JobType
      <4>3. CASE CommitFailed(w) /\ ~GivesUp(w)
        BY <1>a, <3>1, <4>3 DEF CommitFailed, Idle, ActorTypes
      <4>4. QED
        BY <2>4, <4>1, <4>2, <4>3
    <3>4. QED
      BY <1>c, <2>1, <2>2, <3>1, <3>2, <3>3 DEF HandlersHold, Holds
  <2>5. CASE Die(w) \/ ListenerMarksDead(w)
    BY <1>a, <1>c, <2>1, <2>2, <2>5 DEF Die, ListenerMarksDead, Idle, HandlersHold, Holds, ActorTypes
  <2>6. CASE CheckGate(w) \/ ThrowEarly(w) \/ FireActive(w) \/ ReportProgress(w)
               \/ FireCompleted(w) \/ FireFailed(w)
    <3>1. UNCHANGED job
      BY <2>6 DEF CheckGate, ThrowEarly, FireActive, ReportProgress, FireCompleted, FireFailed
    <3>2. run[w].pc \notin {"idle", "listen"} /\ run'[w].pc # "listen"
      BY <1>a, <2>6 DEF CheckGate, ThrowEarly, FireActive, ReportProgress, FireCompleted,
         FireFailed, Goto, ActorTypes, RunType
    <3>3. QED
      BY <1>c, <2>1, <2>2, <3>1, <3>2 DEF HandlersHold, Holds
  <2>7. ~HandBack(w)
    BY <1>d DEF HandBack
  <2>8. QED
    BY <1>2, <2>3, <2>4, <2>5, <2>6, <2>7 DEF SlotStep
<1>3. CASE OwnerStep
  <2>1. UNCHANGED <<enq, reconciler, run>>
    BY <1>3 DEF OwnerStep, RetryReads, RetryJob, RetryResetsRow, RetryCrash, CancelMarksRow,
       DismissMarksRow, DetachFromQueue
  <2>2. job' = job \/ (job' = NoJob /\ job.st # "active")
    BY <1>3 DEF Sole, OwnerStep, RetryReads, RetryJob, RetryResetsRow, RetryCrash, CancelMarksRow,
       DismissMarksRow, DetachFromQueue
  <2>3. QED
    BY <1>c, <2>1, <2>2 DEF HandlersHold, Holds, NoJob
<1>4. CASE ReconcilerStep
  BY <1>c, <1>4 DEF ReconcilerStep, ReconcilerFinds, ReconcilerAsks, ReconcilerMarksDead,
     HandlersHold, Holds
<1>5. CASE PromoteDelayed
  BY <1>a, <1>c, <1>5 DEF PromoteDelayed, HandlersHold, Holds, JobInv, JobType
<1>6. CASE ReclaimStalled
  <2>1. \A w \in Slots : ~Holds(w) \/ run[w].pc = "idle"
    BY <1>d, <1>6 DEF ReclaimStalled, Holds
  <2>2. \A w \in Slots : run[w].pc = "idle"
    BY <1>a, <1>c, <1>6, <2>1 DEF HandlersHold, ReclaimStalled, ActorTypes, RunType
  <2>3. UNCHANGED <<enq, reconciler, run>>
    BY <1>6 DEF ReclaimStalled
  <2>4. QED
    BY <1>c, <1>6, <2>2, <2>3 DEF HandlersHold, ReclaimStalled
<1>7. CASE EvictFinished
  BY <1>a, <1>c, <1>7 DEF EvictFinished, HandlersHold, Holds, NoJob, Finished
<1>8. CASE CutoffPasses \/ UNCHANGED vars
  BY <1>c, <1>8 DEF CutoffPasses, vars, HandlersHold, Holds
<1>9. QED
  BY <1>1, <1>2, <1>3, <1>4, <1>5, <1>6, <1>7, <1>8 DEF Next, QueueStep

LEMMA NextKeepsRowFollows ==
  ASSUME IInv, ReceiptInv, Sole, Unfaulted => HandlersHold /\ RowFollows, Unfaulted', [Next]_vars
  PROVE  RowFollows'
<1>a. RowInv(row) /\ ActorTypes /\ JobInv
  BY InvParts DEF Parts
<1>b. Unfaulted /\ Single'
  BY NoneYetBefore, OneRequestBefore DEF Unfaulted, Single, NoneYet, Budgeted
<1>c. HandlersHold /\ RowFollows /\ OneRequest
  BY <1>b DEF Unfaulted
<1>d. ~Spend("handBack") /\ ~Spend("loseLock") /\ ~Spend("timeout") /\ ~Spend("fault")
        /\ ~Spend("retry")
  BY <1>a, NotSpent DEF ActorTypes, Unfaulted, NoneYet, Budgeted
\* The row of a handler at work, or of a completed job, exists.
<1>e. ~Exists(row) => job.st = "none" /\ \A w \in Slots : run[w].pc = "idle"
  BY DEF Sole, ReceiptInv, Receipt, Inserted
<1>f. (\A r \in Requests : ~EnqueueRow(r)) /\ row.reason = "cancelled" => row'.reason = "cancelled"
  BY <1>b, SoleRow DEF Tame
<1>g. \A v, w \in Slots : run[v].pc \in {"start", "handle", "succeeded", "threw", "gate"}
                            /\ run[w].pc \in {"start", "handle", "succeeded", "threw", "gate"} => v = w
  BY <1>c DEF HandlersHold, Holds
<1>1. ASSUME NEW r \in Requests, EnqueueRow(r)
      PROVE  RowFollows'
  <2>1. ~Exists(row)
    BY <1>b, <1>1, SoleRow
  <2>2. QED
    BY <1>e, <1>1, <2>1 DEF EnqueueRow, RowFollows
<1>2. ASSUME NEW r \in Requests, EnqueueStep(r), ~EnqueueRow(r)
      PROVE  RowFollows'
  <2>1. UNCHANGED <<row, run>>
    BY <1>c, <1>2 DEF HandlersHold, EnqueueStep, LookForNamesake, EvictNamesake, AddToQueue,
       AssertWorkWasQueued, EnqueueFailed, EnqueueFault, EnqueueTimeout, ApiCrash
  <2>2. job' = job \/ job'.st \in {"none", "wait"}
    BY <1>2 DEF EnqueueStep, LookForNamesake, EvictNamesake, AddToQueue, NoJob, Waiting,
       AssertWorkWasQueued, EnqueueFailed, EnqueueFault, EnqueueTimeout, ApiCrash
  <2>3. QED
    BY <1>c, <2>1, <2>2 DEF RowFollows
<1>3. ASSUME NEW w \in Slots, SlotStep(w)
      PROVE  RowFollows'
  <2>1. \A v \in Slots \ {w} : run'[v] = run[v]
    BY <1>a, <1>3 DEF ActorTypes, Goto, SlotStep, PickUp, CheckGate, ThrowEarly, FireActive,
       ReportProgress, FireCompleted, FireFailed, CommitCompleted, CommitFailed,
       ListenerMarksDead, HandBack, Die
  <2>2. CASE FireActive(w)
    <3>1. Holds(w) /\ row' = MarkActive(row, run[w].made)
      BY <1>c, <1>d, <2>2 DEF FireActive, HandlersHold, Write
    <3>2. Exists(row) /\ Underway(row')
      BY <1>a, <1>e, <2>2, <3>1 DEF FireActive, MarkActive, Underway, RowInv, RowType
    <3>3. run'[w].pc = "handle" /\ job' = job /\ job.st = "active"
      BY <1>a, <2>2, <3>1 DEF FireActive, Goto, ActorTypes, RunType, Holds
    <3>4. \A v \in Slots \ {w} : run[v].pc \notin {"handle", "succeeded"}
      BY <1>g, <2>2 DEF FireActive
    <3>5. QED
      BY <2>1, <3>2, <3>3, <3>4 DEF RowFollows
  <2>3. CASE ReportProgress(w)
    <3>1. Holds(w) /\ row' = UpdateProgress(row)
      BY <1>c, <1>d, <2>3 DEF ReportProgress, HandlersHold, Write
    <3>2. Underway(row')
      BY <1>a, <1>c, <2>3, <3>1 DEF ReportProgress, RowFollows, Underway, UpdateProgress, InFlight,
         RowInv, RowType
    <3>3. run' = run /\ job' = job /\ job.st = "active"
      BY <2>3, <3>1 DEF ReportProgress, Holds
    <3>4. \A v \in Slots \ {w} : run[v].pc \notin {"handle", "succeeded"}
      BY <1>g, <2>3 DEF ReportProgress
    <3>5. QED
      BY <2>1, <2>3, <3>2, <3>3, <3>4 DEF RowFollows, ReportProgress
  <2>4. CASE FireCompleted(w)
    <3>1. Holds(w) /\ row' = MarkCompleted(row)
      BY <1>c, <1>d, <2>4 DEF FireCompleted, HandlersHold, Write
    <3>2. Reached(row')
      BY <1>a, <1>c, <2>4, <3>1 DEF FireCompleted, RowFollows, Underway, Reached, MarkCompleted,
         InFlight, RowInv, RowType
    <3>3. run'[w].pc = "succeeded" /\ job' = job /\ job.st = "active"
      BY <1>a, <2>4, <3>1 DEF FireCompleted, Goto, ActorTypes, RunType, Holds
    <3>4. \A v \in Slots \ {w} : run[v].pc \notin {"handle", "succeeded"}
      BY <1>g, <2>4 DEF FireCompleted
    <3>5. QED
      BY <2>1, <3>2, <3>3, <3>4 DEF RowFollows
  <2>5. CASE FireFailed(w)
    <3>1. Holds(w)
      BY <1>c, <2>5 DEF FireFailed, HandlersHold
    <3>2. run'[w].pc = "threw" /\ job' = job /\ job.st = "active"
      BY <1>a, <2>5, <3>1 DEF FireFailed, ActorTypes, RunType, Holds
    <3>3. \A v \in Slots \ {w} : run[v].pc \notin {"handle", "succeeded"}
      BY <1>g, <2>5 DEF FireFailed
    <3>4. QED
      BY <2>1, <3>2, <3>3 DEF RowFollows
  <2>6. CASE ListenerMarksDead(w)
    <3>1. job.st \in {"none", "failed"} /\ job' = job
      BY <1>c, <2>6 DEF ListenerMarksDead, HandlersHold
    <3>2. \A v \in Slots : run[v].pc \notin {"handle", "succeeded"}
      BY <1>c, <3>1 DEF HandlersHold, Holds
    <3>3. run'[w].pc = "idle"
      BY <1>a, <2>6 DEF ListenerMarksDead, ActorTypes, Idle
    <3>4. QED
      BY <2>1, <3>1, <3>2, <3>3 DEF RowFollows
  <2>7. CASE CommitCompleted(w)
    <3>1. Holds(w) /\ UNCHANGED row /\ Reached(row)
      BY <1>c, <2>7 DEF CommitCompleted, HandlersHold, RowFollows
    <3>2. run'[w].pc = "idle"
      BY <1>a, <2>7 DEF CommitCompleted, ActorTypes, Idle
    <3>3. \A v \in Slots \ {w} : run[v].pc \notin {"handle", "succeeded"}
      BY <1>g, <2>7 DEF CommitCompleted
    <3>4. QED
      BY <2>1, <3>1, <3>2, <3>3 DEF RowFollows
  <2>8. CASE PickUp(w) \/ CheckGate(w) \/ ThrowEarly(w) \/ CommitFailed(w) \/ HandBack(w) \/ Die(w)
    <3>1. UNCHANGED row
      BY <2>8 DEF PickUp, CheckGate, ThrowEarly, CommitFailed, HandBack, Die
    <3>2. run'[w] = run[w] \/ run'[w].pc \notin {"handle", "succeeded"}
      <4>1. CASE PickUp(w)
        <5>1. \E made, why : \E pc \in {"threw", "gate"} :
                run'[w] = [pc |-> pc, made |-> made, why |-> why]
          BY <1>a, <4>1 DEF PickUp, ActorTypes
        <5>2. QED
          BY <5>1
      <4>2. CASE CheckGate(w) \/ ThrowEarly(w)
        BY <1>a, <4>2 DEF CheckGate, ThrowEarly, Goto, ActorTypes, RunType
      <4>3. CASE CommitFailed(w)
        BY <1>a, <4>3 DEF CommitFailed, Idle, ActorTypes, RunType
      <4>4. CASE HandBack(w) \/ Die(w)
        BY <1>a, <4>4 DEF HandBack, Die, Idle, ActorTypes
      <4>5. QED
        BY <2>8, <4>1, <4>2, <4>3, <4>4
    <3>3. job' = job \/ job'.st # "completed"
      BY <1>a, <2>8 DEF PickUp, CheckGate, ThrowEarly, CommitFailed, HandBack, Die, JobInv, JobType
    <3>4. QED
      BY <1>c, <2>1, <3>1, <3>2, <3>3 DEF RowFollows
  <2>9. QED
    BY <1>3, <2>2, <2>3, <2>4, <2>5, <2>6, <2>7, <2>8 DEF SlotStep
<1>4. ASSUME \A r \in Requests : ~EnqueueRow(r), UNCHANGED run,
             job' = job \/ job'.st # "completed",
             row'.state = row.state \/ row'.reason = "cancelled"
      PROVE  RowFollows'
  BY <1>c, <1>f, <1>4 DEF RowFollows, Underway, Reached
<1>5. CASE OwnerStep /\ \A r \in Requests : ~EnqueueRow(r)
  <2>1. UNCHANGED run /\ (job' = job \/ job'.st # "completed")
    BY <1>5 DEF Sole, OwnerStep, RetryReads, RetryJob, RetryResetsRow, RetryCrash, CancelMarksRow,
       DismissMarksRow, DetachFromQueue, NoJob
  <2>2. row'.state = row.state \/ row'.reason = "cancelled"
    BY <1>a, <1>5 DEF Sole, OwnerStep, RetryReads, RetryJob, RetryResetsRow, RetryCrash,
       CancelMarksRow, DismissMarksRow, DetachFromQueue, DismissFailed, MarkCancelled, RowInv,
       RowType
  <2>3. QED
    BY <1>4, <1>5, <2>1, <2>2
<1>6. CASE ReconcilerStep
  <2>1. CASE ReconcilerMarksDead
    <3>1. job.st = "none" /\ UNCHANGED <<job, run>>
      BY <1>c, <2>1 DEF ReconcilerMarksDead, HandlersHold
    <3>2. \A v \in Slots : run[v].pc \notin {"handle", "succeeded"}
      BY <1>c, <3>1 DEF HandlersHold, Holds
    <3>3. QED
      BY <3>1, <3>2 DEF RowFollows
  <2>2. CASE ReconcilerFinds \/ ReconcilerAsks
    BY <1>c, <2>2 DEF ReconcilerFinds, ReconcilerAsks, RowFollows
  <2>3. QED
    BY <1>6, <2>1, <2>2 DEF ReconcilerStep
<1>7. CASE QueueStep
  <2>1. UNCHANGED <<row, run>>
    BY <1>7 DEF QueueStep, PromoteDelayed, ReclaimStalled, EvictFinished
  <2>2. job'.st # "completed"
    <3>1. CASE PromoteDelayed \/ EvictFinished
      BY <1>a, <3>1 DEF PromoteDelayed, EvictFinished, NoJob, JobInv, JobType
    <3>2. CASE ReclaimStalled
      <4>1. job' = [job EXCEPT !.st = "wait", !.holder = Nobody, !.stalls = @ + 1]
        BY <3>2 DEF ReclaimStalled
      <4>2. QED
        BY <1>a, <4>1 DEF JobInv, JobType
    <3>3. QED
      BY <1>7, <3>1, <3>2 DEF QueueStep
  <2>3. QED
    BY <1>c, <2>1, <2>2 DEF RowFollows
<1>8. CASE CutoffPasses
  BY <1>a, <1>c, <1>8 DEF CutoffPasses, RowFollows, Underway, Reached, RowInv, RowType
<1>9. CASE UNCHANGED vars
  BY <1>c, <1>9 DEF vars, RowFollows
<1>10. QED
  BY <1>1, <1>2, <1>3, <1>5, <1>6, <1>7, <1>8, <1>9 DEF Next

-----------------------------------------------------------------------------
SettlesInv ==
  /\ Single => Sole
  /\ Unremoved => Undelivered
  /\ Unfaulted => HandlersHold /\ RowFollows

LEMMA InitSettlesInv == Init => SettlesInv
BY DEF Init, SettlesInv, Sole, Undelivered, HandlersHold, RowFollows, Absent, NoJob, NotAsked, Idle,
   Exists, Inserted, Settled, Holds

LEMMA NextKeepsSettlesInv ==
  ASSUME IInv, ReceiptInv, SettlesInv, [Next]_vars
  PROVE  SettlesInv'
<1>1. /\ Unremoved' => Single'
      /\ Unfaulted' => Single'
  BY DEF Unremoved, Unfaulted, Single, NoneYet
<1>2. Single' => Single
  BY NoneYetBefore, OneRequestBefore DEF Single, NoneYet, Budgeted
<1>3. Single' => Sole'
  BY NextKeepsSole DEF SettlesInv
<1>4. Unremoved' => Undelivered'
  BY <1>1, <1>2, NextKeepsUndelivered DEF SettlesInv
<1>5. Unfaulted' => HandlersHold' /\ RowFollows'
  BY <1>1, <1>2, NextKeepsHold, NextKeepsRowFollows DEF SettlesInv
<1>6. QED
  BY <1>3, <1>4, <1>5 DEF SettlesInv

LEMMA Settling == Spec => [](IInv /\ ReceiptInv /\ SettlesInv)
<1>1. IInv /\ ReceiptInv /\ [Next]_vars => ReceiptInv'
  BY NextKeepsReceiptInv
<1>2. IInv /\ ReceiptInv /\ SettlesInv /\ [Next]_vars => SettlesInv'
  BY NextKeepsSettlesInv
<1>3. QED
  BY <1>1, <1>2, InitReceiptInv, InitSettlesInv, Invariance, PTL DEF Spec

\* "Never delivered" is only said of a job no handler of which has started, for
\* every interleaving of the reconciler's three steps with the one enqueue, the
\* attempts and the owner's cancel (reconcile-orphaned-user-jobs).
THEOREM NeverDeliveredIsTrue == Spec => []NeverDeliveredMeansNeverRan
<1>1. Unremoved => Single
  BY DEF Unremoved, Single, NoneYet
<1>2. ReceiptInv /\ SettlesInv => NeverDeliveredMeansNeverRan
  BY <1>1 DEF SettlesInv, NeverDeliveredMeansNeverRan, Unremoved, Undelivered, Sole
<1>3. QED
  BY <1>2, Settling, PTL

\* When the queue holds the job as completed the row says so, or that the owner
\* cancelled: no write of the enqueue, of an earlier attempt, of the listener or
\* of the reconciler comes between (UserJobProcessor, markCompleted).
THEOREM CompletionReaches == Spec => []CompletionReachesRow
<1>1. SettlesInv => CompletionReachesRow
  BY DEF SettlesInv, CompletionReachesRow, Unfaulted, RowFollows, Reached
<1>2. QED
  BY <1>1, Settling, PTL

=============================================================================
