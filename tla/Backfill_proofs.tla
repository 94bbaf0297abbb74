---------------------------- MODULE Backfill_proofs ----------------------------
(***************************************************************************)
(* For every number of changes, days, chunks, rebuilds and disturbances:   *)
(* a stored day never loses a change it reflects, and no stale day is      *)
(* forgotten.                                                              *)
(*                                                                         *)
(* The first needs only the rollup lock, what its holders have read, and   *)
(* the rows (RowInv).  The second needs in addition that a rebuild holds   *)
(* the job it was handed out with (HoldsJobs), the shape of a rebuild      *)
(* between its steps (InShape), and follows every debt from its request to *)
(* the row, one lemma per action (OwedInv).                                *)
(***************************************************************************)
EXTENDS Backfill, TLAPS

LedgerTypes ==
  /\ reach \in [Causes -> 0..Days]
  /\ row \in [1..Days -> SUBSET Causes]
  /\ seen \in [Rollers -> SUBSET Causes]
  /\ rollup \in Rollers \cup {Nobody}

\* Rows and readers reflect what has happened; whoever holds the rollup lock has
\* read at least what any row, and any other reader, holds.
HolderReadLast ==
  /\ \A d \in 1..Days : row[d] \subseteq Happened
  /\ \A x \in Rollers : seen[x] \subseteq Happened
  /\ rollup \in Rollers =>
       /\ \A d \in 1..Days : row[d] \subseteq seen[rollup]
       /\ \A x \in Rollers : seen[x] \subseteq seen[rollup]

RowInv == LedgerTypes /\ HolderReadLast

-----------------------------------------------------------------------------
\* What a step may do to the ledger, the lock, the readers and the rows.
Reads(x) ==
  /\ rollup = Nobody /\ rollup' = x
  /\ seen' = [seen EXCEPT ![x] = Happened]
  /\ UNCHANGED <<reach, row>>

Forgets(x) ==
  /\ rollup' = IF rollup = x THEN Nobody ELSE rollup
  /\ seen' = [seen EXCEPT ![x] = {}]
  /\ UNCHANGED <<reach, row>>

Drops == rollup' \in {rollup, Nobody} /\ UNCHANGED <<reach, row, seen>>

Happens == \E c \in Causes : reach[c] = 0 /\ \E r \in 1..Days :
  reach' = [reach EXCEPT ![c] = r] /\ UNCHANGED <<row, rollup, seen>>

\* The holder writes some days, or a late writer one, and may leave.
Writes(x, days) ==
  /\ row' = [d \in 1..Days |-> IF d \in days THEN seen[x] ELSE row[d]]
  /\ \/ UNCHANGED <<rollup, seen>>
     \/ /\ rollup' = IF rollup = x THEN Nobody ELSE rollup
        /\ seen' = [seen EXCEPT ![x] = {}]
  /\ UNCHANGED reach

LEMMA ReadsKeep ==
  ASSUME RowInv, NEW x \in Rollers, Reads(x)
  PROVE  RowInv'
<1>1. Happened' = Happened /\ Happened \subseteq Causes
  BY DEF Reads, Happened
<1>2. QED
  BY <1>1 DEF RowInv, LedgerTypes, HolderReadLast, Reads

LEMMA ForgetsKeep ==
  ASSUME RowInv, NEW x \in Rollers, Forgets(x)
  PROVE  RowInv'
<1>1. Happened' = Happened /\ Nobody \notin Rollers
  BY ConstantsAssumption DEF Forgets, Happened, Rollers
<1>2. QED
  BY <1>1 DEF RowInv, LedgerTypes, HolderReadLast, Forgets

LEMMA DropsKeep ==
  ASSUME RowInv, Drops
  PROVE  RowInv'
<1>1. Happened' = Happened /\ Nobody \notin Rollers
  BY ConstantsAssumption DEF Drops, Happened, Rollers
<1>2. QED
  BY <1>1 DEF RowInv, LedgerTypes, HolderReadLast, Drops

LEMMA HappensKeep ==
  ASSUME RowInv, Happens
  PROVE  RowInv'
<1> USE ConstantsAssumption
<1>1. PICK c \in Causes, r \in 1..Days :
        reach' = [reach EXCEPT ![c] = r] /\ UNCHANGED <<row, rollup, seen>>
  BY DEF Happens
<1>2. reach' \in [Causes -> 0..Days] /\ Happened \subseteq Happened'
  BY <1>1 DEF RowInv, LedgerTypes, Happened
<1>3. QED
  BY <1>1, <1>2 DEF RowInv, LedgerTypes, HolderReadLast

LEMMA WritesKeep ==
  ASSUME RowInv, NEW x \in Rollers, NEW days, Writes(x, days)
  PROVE  RowInv'
<1>1. Happened' = Happened /\ Nobody \notin Rollers
  BY ConstantsAssumption DEF Writes, Happened, Rollers
<1>2. LedgerTypes'
  BY DEF RowInv, LedgerTypes, Writes
<1>3. HolderReadLast'
  BY <1>1 DEF RowInv, LedgerTypes, HolderReadLast, Writes
<1>4. QED
  BY <1>2, <1>3 DEF RowInv

\* What the holder writes, it has read after every row was written.
LEMMA HolderWritesMore ==
  ASSUME RowInv, rollup \in Rollers, NEW days, Writes(rollup, days)
  PROVE  \A d \in 1..Days : row[d] \subseteq row'[d]
BY DEF RowInv, HolderReadLast, Writes

-----------------------------------------------------------------------------
\* Every step does one of these things.
LEMMA FailForgets ==
  ASSUME NEW w, Fail(w), UNCHANGED <<reach, row>>
  PROVE  Forgets(w)
BY DEF Fail, Forgets

LEMMA WriteDayWrites ==
  ASSUME RowInv, NEW w \in Slots, WriteDay(w), UNCHANGED reach
  PROVE  \E days : Writes(w, days)
<1>1. Writes(w, Touched(w))
  BY DEF WriteDay, LeaveChunk, Writes
<1>2. QED
  BY <1>1

Still == Drops \/ Happens \/ \E x \in Rollers : Reads(x) \/ Forgets(x)

LEMMA StepCases ==
  ASSUME RowInv, [Next]_vars
  PROVE  \/ Still
         \/ \E days : rollup \in Rollers /\ Writes(rollup, days)
         \/ \E w \in Slots : RollupWritesLate(w) /\ \E days : Writes(w, days)
<1> USE DEF Rollers
<1>1. ASSUME NEW c \in Changes, Commit(c) PROVE Still
  BY <1>1 DEF Commit, Still, Happens, Causes
<1>2. ASSUME NEW a \in Askers, EnqueueStep(a) PROVE Still
  BY <1>2 DEF EnqueueStep, LookAtSlot, ReadPending, WritePending, AddJob, Still, Drops
<1>3. ASSUME NEW a \in Askers, EnqueueFails(a) PROVE Still
  BY <1>3, FailForgets DEF EnqueueFails, Still, Drops
<1>4. ASSUME NEW w \in Slots, RunPhases(w) PROVE Still
  BY <1>4 DEF RunPhases, Goto, Still, Drops, Happens, Causes
<1>5. ASSUME NEW w \in Slots, RollupReads(w) PROVE Still
  BY <1>5 DEF RollupReads, Still, Reads
<1>6. ASSUME NEW w \in Slots, RollupWrites(w) PROVE \E days : rollup \in Rollers /\ Writes(rollup, days)
  BY <1>6, WriteDayWrites DEF RollupWrites
<1>7. ASSUME NEW w \in Slots, RollupWritesLate(w)
      PROVE  \E x \in Slots : RollupWritesLate(x) /\ \E days : Writes(x, days)
  <2>1. Writes(w, Touched(w))
    BY <1>7 DEF RollupWritesLate, LeaveChunk, Writes
  <2>2. QED
    BY <1>7, <2>1
<1>8. ASSUME NEW w \in Slots, RollupBreaks(w) PROVE Still
  BY <1>8 DEF RollupBreaks, LeaveChunk, Still, Forgets
<1>9. ASSUME NEW w \in Slots, MemoryStop(w) \/ Finish(w) \/ AttemptThrows(w) PROVE Still
  BY <1>9, FailForgets DEF MemoryStop, Finish, AttemptThrows, Still, Drops
<1>10. ASSUME NEW w \in Slots, Die(w) PROVE Still
  BY <1>10 DEF Die, Still, Forgets
<1>11. ASSUME NEW w \in Slots,
              \/ PickUp(w) \/ TakeLock(w) \/ LockHeld(w) \/ SaveStart(w) \/ SaveChunk(w)
              \/ RollupLockHeld(w) \/ Skip(w)
       PROVE  Still
  BY <1>11 DEF PickUp, TakeLock, LockHeld, SaveStart, SaveChunk, RollupLockHeld, Skip, Still, Drops
<1>12. ASSUME NEW id \in Ids, ReclaimStalled(id) PROVE Still
  BY <1>12 DEF ReclaimStalled, Still, Drops
<1>13. CASE LoseSessions \/ CronReads
  BY <1>13 DEF LoseSessions, CronReads, Still, Drops, Reads
<1>14. CASE CronWrites
  <2>1. Writes(Cron, {x \in 1..Days : x <= CronDays \/ Clears(CronDays, past)})
    BY <1>14 DEF CronWrites, Writes
  <2>2. QED
    BY <1>14, <2>1 DEF CronWrites
<1>15. CASE UNCHANGED vars
  BY <1>15 DEF vars, Still, Drops
<1>16. QED
  BY <1>1, <1>2, <1>3, <1>4, <1>5, <1>6, <1>7, <1>8, <1>9, <1>10, <1>11, <1>12, <1>13, <1>14,
     <1>15 DEF Next, RunStep

LEMMA InitRows == Init => RowInv
BY ConstantsAssumption DEF Init, RowInv, LedgerTypes, HolderReadLast, Happened, Rollers

LEMMA StepRows == RowInv /\ [Next]_vars => RowInv'
<1> SUFFICES ASSUME RowInv, [Next]_vars PROVE RowInv'
  OBVIOUS
<1>1. Still => RowInv'
  BY ReadsKeep, ForgetsKeep, DropsKeep, HappensKeep DEF Still
<1>2. \A w \in Slots : w \in Rollers
  BY DEF Rollers
<1>3. QED
  BY <1>1, <1>2, StepCases, WritesKeep

\* A stored day never loses a change it reflects but to a write that was on its
\* way when the rollup lock was lost: what withUserRollupLock, the single read of
\* the ledger after it and the assertion before each day are for.
THEOREM RowsOnlyGrow == Spec => RowsNeverGoBack
<1>1. RowInv /\ [Next]_vars =>
        [\/ \A d \in 1..Days : row[d] \subseteq row'[d]
         \/ \E w \in Slots : RollupWritesLate(w)]_vars
  <2> SUFFICES ASSUME RowInv, [Next]_vars
               PROVE  \/ \A d \in 1..Days : row[d] \subseteq row'[d]
                      \/ \E w \in Slots : RollupWritesLate(w)
    OBVIOUS
  <2>1. Still => row' = row
    BY DEF Still, Drops, Happens, Reads, Forgets
  <2>2. QED
    BY <2>1, StepCases, HolderWritesMore
<1>2. QED
  BY <1>1, InitRows, StepRows, PTL DEF Spec, RowsNeverGoBack

-----------------------------------------------------------------------------
(***************************************************************************)
(* Types.  A rebuild that runs holds the job it was handed out with, and   *)
(* an enqueue goes by an id.                                               *)
(***************************************************************************)
HoldsJobs ==
  \A w \in Slots : run[w].pc # "idle" =>
    run[w].id \in Ids /\ jobs[run[w].id].st = "active" /\ jobs[run[w].id].holder = w

AsksById ==
  \A a \in Askers :
    /\ enq[a].pc # "off" => enq[a].id \in Ids
    /\ enq[a].pc = "look" => enq[a].id \in Bases \X (1..CoalesceSlots)

Typed == TypeOK /\ HoldsJobs /\ AsksById

\* Progress that counts is saved before the first chunk, and a chunk is written
\* within its days; a rebuild asks only to hand over, and for all it has left.
InChunk(w) == run[w].pay.at < ChunkEnd(w) /\ run[w].day \in (run[w].pay.at + 1)..LastStatement(w)

InShape(w) ==
  /\ run[w].pc \in {"phases", "start"} => ~run[w].pay.resume
  /\ run[w].pc \in {"chunk", "write", "mark"} => run[w].pay.resume
  /\ run[w].pc = "write" => InChunk(w)
  /\ enq[w].pc # "off" =>
       /\ run[w].pc \in {"skip", "behind"}
       /\ \A first : DaysLeft(run[w].pay, first) \subseteq DaysLeft(enq[w].pay, first)

RunsInShape == \A w \in Slots : InShape(w)

LEMMA PayloadsTyped ==
  /\ Whole \in 1..Whole /\ Days \in 1..Days
  /\ \A from \in 1..Whole, look \in 1..Days : Ask(from, look) \in Payload
  /\ \A p, q \in Payload : Absorbed(p, q) \in Payload
  /\ \A p \in Payload : WindowDays(p) \in 1..Days
  /\ \A a, b \in 1..Whole : MergeFromDay(a, b) \in 1..Whole
<1> USE ConstantsAssumption DEF Whole, Payload
<1>1. \A from \in 1..Whole, look \in 1..Days : Ask(from, look) \in Payload
  BY DEF Ask
<1>2. \A p, q \in Payload : Absorbed(p, q) \in Payload
  BY DEF Absorbed, MergeFromDay, GreaterOf
<1>3. \A p \in Payload : WindowDays(p) \in 1..Days
  BY DEF WindowDays, LesserOf
<1>4. QED
  BY <1>1, <1>2, <1>3 DEF MergeFromDay, GreaterOf

LEMMA EntriesTyped ==
  /\ NoEntry \in Entry
  /\ \A p \in Payload : Pending(p) \in Entry
  /\ \A p \in Payload, made \in Nat : [Pending(p) EXCEPT !.made = made] \in Entry
  /\ NotAsking \in EnqType
  /\ \A base \in Bases, p \in Payload : Asking(base, p) \in EnqType
                                          /\ Asking(base, p).id \in Bases \X (1..CoalesceSlots)
                                          /\ Asking(base, p).pay = p
  /\ Idle \in RunType
<1>1. Ask(1, 1) \in Payload /\ 1 \in 1..Whole
  BY PayloadsTyped, ConstantsAssumption DEF Whole
<1>2. NotAsking \in EnqType
  BY <1>1 DEF NotAsking, EnqType
<1>3. ASSUME NEW base \in Bases, NEW p \in Payload
      PROVE  Asking(base, p) \in EnqType /\ Asking(base, p).id \in Bases \X (1..CoalesceSlots)
               /\ Asking(base, p).pay = p
  <2>1. <<base, 1>> \in Bases \X (1..CoalesceSlots)
    BY ConstantsAssumption
  <2>2. QED
    BY <1>1, <1>2, <2>1 DEF Asking, NotAsking, EnqType, Ids
<1>4. QED
  BY <1>1, <1>2, <1>3 DEF NoEntry, Entry, Pending, Idle, RunType

LEMMA BasesAreIds == \A id \in Bases \X (1..CoalesceSlots) : id \in Ids
BY DEF Ids

LEMMA InitTyped == Init => Typed
<1> SUFFICES ASSUME Init PROVE Typed
  OBVIOUS
<1> USE ConstantsAssumption
<1>1. TypeOK
  BY EntriesTyped DEF Init, TypeOK, Causes
<1>2. HoldsJobs /\ AsksById
  BY DEF Init, HoldsJobs, AsksById, Idle, NotAsking
<1>3. QED
  BY <1>1, <1>2 DEF Typed

LEMMA MissesTyped ==
  ASSUME TypeOK, NEW days \in SUBSET (1..Days), Misses(days)
  PROVE  missed' \subseteq Causes \X (1..Days)
BY DEF TypeOK, Misses

LEMMA EarliestTyped ==
  ASSUME past \in 0..Days, NEW r \in 1..Days
  PROVE  Earliest(r) \subseteq 0..Days
BY ConstantsAssumption DEF Earliest

LEMMA OutrunTyped ==
  ASSUME NEW r, NEW first
  PROVE  Outrun(r, first) \in SUBSET (1..Days)
BY DEF Outrun

LEMMA CommitTyped ==
  ASSUME Typed, NEW c \in Changes, Commit(c)
  PROVE  Typed'
<1> USE ConstantsAssumption DEF Typed
<1>0. PICK r \in 1..Days : \E q \in Requests(r) : \E first \in Earliest(r) :
        /\ reach' = [reach EXCEPT ![c] = r]
        /\ past' = first
        /\ enq' = [enq EXCEPT ![c] = Asking(q[1], q[2])]
        /\ Misses(Outrun(r, first))
  BY DEF Commit
<1>1. PICK q \in Requests(r), first \in Earliest(r) :
        /\ reach' = [reach EXCEPT ![c] = r]
        /\ past' = first
        /\ enq' = [enq EXCEPT ![c] = Asking(q[1], q[2])]
        /\ Misses(Outrun(r, first))
  BY <1>0
<1>2. q[1] \in Bases /\ q[2] \in Payload
  <2>1. q = <<"mutation", Ask(r, Days)>> \/ \E look \in r..Days : q = <<"import", Ask(Whole, look)>>
    BY DEF Requests
  <2>2. r \in 1..Whole /\ \A look \in r..Days : look \in 1..Days
    BY DEF Whole
  <2>3. Ask(r, Days) \in Payload /\ \A look \in r..Days : Ask(Whole, look) \in Payload
    BY <2>2, PayloadsTyped
  <2>4. QED
    BY <2>1, <2>3 DEF Bases
<1>3. Asking(q[1], q[2]) \in EnqType /\ Asking(q[1], q[2]).id \in Bases \X (1..CoalesceSlots)
  BY <1>2, EntriesTyped
<1>4. past' \in 0..Days
  BY <1>1, EarliestTyped DEF TypeOK
<1>5. missed' \subseteq Causes \X (1..Days)
  BY <1>1, MissesTyped, OutrunTyped
<1>6. TypeOK'
  BY <1>1, <1>3, <1>4, <1>5 DEF TypeOK, Commit, Causes, Askers
<1>7. HoldsJobs' /\ AsksById'
  BY <1>1, <1>3, BasesAreIds DEF TypeOK, Commit, HoldsJobs, AsksById, Askers
<1>8. QED
  BY <1>6, <1>7

\* Looking goes on to an id of the base, or settles on one.
LEMMA LookGoesOn ==
  ASSUME Typed, NEW a \in Askers, LookAtSlot(a)
  PROVE  \E pc \in {"look", "read", "add"}, to \in Ids :
           /\ enq' = [enq EXCEPT ![a].pc = pc, ![a].id = to]
           /\ pc = "look" => to \in Bases \X (1..CoalesceSlots)
<1> USE ConstantsAssumption DEF Typed
<1>1. enq[a].id \in Bases \X (1..CoalesceSlots) /\ enq[a].id \in Ids
  BY BasesAreIds DEF LookAtSlot, AsksById
<1>2. enq[a].id[2] < CoalesceSlots =>
        <<enq[a].id[1], enq[a].id[2] + 1>> \in Bases \X (1..CoalesceSlots)
  BY <1>1
<1>3. \A k \in 1..FreshIds : <<"fresh", k>> \in Ids
  BY DEF Ids
<1>4. QED
  BY <1>1, <1>2, <1>3, BasesAreIds DEF LookAtSlot

LEMMA LookTyped ==
  ASSUME Typed, NEW a \in Askers, LookAtSlot(a)
  PROVE  Typed'
<1> USE ConstantsAssumption DEF Typed
<1>1. PICK pc \in {"look", "read", "add"}, to \in Ids :
        /\ enq' = [enq EXCEPT ![a].pc = pc, ![a].id = to]
        /\ pc = "look" => to \in Bases \X (1..CoalesceSlots)
  BY LookGoesOn
<1>2. UNCHANGED <<reach, past, row, jobs, run, lock, rollup, seen, missed, spent>>
  BY DEF LookAtSlot
<1>3. enq' \in [Askers -> EnqType]
  <2>1. [enq[a] EXCEPT !.pc = pc, !.id = to] \in EnqType
    BY DEF TypeOK, EnqType
  <2>2. enq' = [enq EXCEPT ![a] = [enq[a] EXCEPT !.pc = pc, !.id = to]]
    BY <1>1 DEF TypeOK, EnqType
  <2>3. QED
    BY <2>1, <2>2 DEF TypeOK
<1>4. TypeOK'
  BY <1>2, <1>3 DEF TypeOK
<1>5. HoldsJobs'
  BY <1>2 DEF HoldsJobs
<1>6. AsksById'
  BY <1>1 DEF TypeOK, AsksById, EnqType
<1>7. QED
  BY <1>4, <1>5, <1>6

LEMMA ReadTyped ==
  ASSUME Typed, NEW a \in Askers, ReadPending(a)
  PROVE  Typed'
<1> USE ConstantsAssumption DEF Typed
<1>1. enq[a].id \in Ids
  BY DEF ReadPending, AsksById
<1>2. jobs[enq[a].id].pay \in Payload
  BY <1>1 DEF TypeOK, Entry
<1>3. enq' \in [Askers -> EnqType]
  BY <1>2 DEF TypeOK, ReadPending, EnqType
<1>4. TypeOK'
  BY <1>3 DEF TypeOK, ReadPending
<1>5. HoldsJobs' /\ AsksById'
  BY <1>1 DEF TypeOK, ReadPending, HoldsJobs, AsksById, EnqType
<1>6. QED
  BY <1>4, <1>5

LEMMA WindowsTyped == \A p : Window(p) \subseteq 1..Days
BY DEF Window, DaysLeft

LEMMA WriteTyped ==
  ASSUME Typed, NEW a \in Askers, WritePending(a)
  PROVE  Typed'
<1> USE ConstantsAssumption DEF Typed
<1>1. enq[a].id \in Ids /\ enq[a] \in EnqType
  BY DEF WritePending, AsksById, TypeOK
<1>2. Absorbed(enq[a].got, enq[a].pay) \in Payload
  BY <1>1, PayloadsTyped DEF EnqType
<1>3. missed' \subseteq Causes \X (1..Days)
  BY MissesTyped, WindowsTyped DEF WritePending
<1>4. jobs' \in [Ids -> Entry]
  <2>1. jobs' = [jobs EXCEPT ![enq[a].id] = [jobs[enq[a].id] EXCEPT !.pay = Absorbed(enq[a].got, enq[a].pay)]]
    BY <1>1 DEF WritePending, TypeOK
  <2>2. QED
    BY <1>1, <1>2, <2>1 DEF TypeOK, Entry
<1>5. enq' \in [Askers -> EnqType]
  <2>1. NotAsking.got \in Payload
    BY EntriesTyped DEF EnqType
  <2>2. QED
    BY <2>1 DEF WritePending, TypeOK, EnqType
<1>6. TypeOK'
  BY <1>3, <1>4, <1>5 DEF TypeOK, WritePending
<1>7. HoldsJobs' /\ AsksById'
  BY <1>1 DEF TypeOK, WritePending, HoldsJobs, AsksById, EnqType, Entry
<1>8. QED
  BY <1>6, <1>7

LEMMA AddTyped ==
  ASSUME Typed, NEW a \in Askers, AddJob(a)
  PROVE  Typed'
<1> USE ConstantsAssumption DEF Typed
<1>1. enq[a].id \in Ids /\ enq[a] \in EnqType
  BY DEF AddJob, AsksById, TypeOK
<1>2. missed' \subseteq Causes \X (1..Days)
  BY MissesTyped, WindowsTyped DEF AddJob, TypeOK
<1>3. Pending(enq[a].pay) \in Entry /\ NotAsking \in EnqType
  BY <1>1, EntriesTyped DEF EnqType
<1>4. TypeOK'
  BY <1>1, <1>2, <1>3 DEF TypeOK, AddJob
<1>5. HoldsJobs' /\ AsksById'
  BY <1>1 DEF TypeOK, AddJob, HoldsJobs, AsksById, NotAsking
<1>6. QED
  BY <1>4, <1>5

\* A rebuild moves on: it keeps its job, or leaves it.
LEMMA HoldsKept ==
  ASSUME Typed, NEW w \in Slots, run[w].pc # "idle",
         \A v \in Slots \ {w} : run'[v] = run[v],
         \A id \in Ids : id # run[w].id => jobs'[id].st = jobs[id].st /\ jobs'[id].holder = jobs[id].holder,
         \/ run'[w].pc = "idle"
         \/ /\ run'[w].id = run[w].id
            /\ jobs'[run[w].id].st = "active" /\ jobs'[run[w].id].holder = w
  PROVE  HoldsJobs'
BY DEF Typed, HoldsJobs

\* A step of a rebuild that leaves the queue and the asks alone.
LEMMA MoveTyped ==
  ASSUME Typed, NEW w \in Slots, run[w].pc # "idle", NEW new \in RunType,
         new.id = run[w].id, run' = [run EXCEPT ![w] = new], UNCHANGED <<jobs, enq>>
  PROVE  run' \in [Slots -> RunType] /\ HoldsJobs' /\ AsksById'
<1>1. run' \in [Slots -> RunType] /\ run'[w] = new /\ \A v \in Slots \ {w} : run'[v] = run[v]
  BY DEF Typed, TypeOK
<1>2. HoldsJobs'
  BY <1>1, HoldsKept DEF Typed, HoldsJobs
<1>3. AsksById'
  BY DEF Typed, AsksById
<1>4. QED
  BY <1>1, <1>2, <1>3

LEMMA PickUpTyped ==
  ASSUME Typed, NEW w \in Slots, PickUp(w)
  PROVE  Typed'
<1> USE ConstantsAssumption DEF Typed
<1>1. PICK id \in Ids :
        /\ jobs[id].st = "pending"
        /\ jobs' = [jobs EXCEPT ![id] = [jobs[id] EXCEPT !.st = "active", !.holder = w]]
        /\ run' = [run EXCEPT ![w] = [run[w] EXCEPT !.pc = "lock", !.id = id, !.pay = jobs[id].pay]]
  BY DEF PickUp, TypeOK
<1>2. [jobs[id] EXCEPT !.st = "active", !.holder = w] \in Entry
  BY DEF TypeOK, Entry
<1>3. [run[w] EXCEPT !.pc = "lock", !.id = id, !.pay = jobs[id].pay] \in RunType
  BY DEF TypeOK, Entry, RunType
<1>4. TypeOK'
  BY <1>1, <1>2, <1>3 DEF TypeOK, PickUp
<1>5. HoldsJobs'
  <2>1. run'[w].id = id /\ jobs'[id].st = "active" /\ jobs'[id].holder = w
    BY <1>1 DEF TypeOK, RunType, Entry
  <2>2. \A v \in Slots \ {w} : run'[v] = run[v] /\ (run[v].pc # "idle" => run[v].id # id)
    BY <1>1 DEF TypeOK, HoldsJobs
  <2>3. QED
    BY <1>1, <2>1, <2>2 DEF HoldsJobs, TypeOK
<1>6. AsksById'
  BY DEF PickUp, AsksById
<1>7. QED
  BY <1>4, <1>5, <1>6

LEMMA RunsTyped ==
  ASSUME Typed, NEW w \in Slots
  PROVE  /\ run[w] \in RunType
         /\ WindowDays(run[w].pay) \in 1..Days
         /\ run[w].pay.at \in 0..Days
         /\ ChunkEnd(w) \in 0..Days
         /\ ChunkEnd(w) <= WindowDays(run[w].pay)
         /\ run[w].pc = "chunk" /\ MoreDays(w) => run[w].pay.at < ChunkEnd(w)
         /\ LastStatement(w) \in 0..Whole /\ ChunkEnd(w) <= LastStatement(w)
<1>1. run[w] \in RunType
  BY DEF Typed, TypeOK
<1>2. run[w].pay \in Payload /\ run[w].pay.at \in 0..Days
  BY <1>1 DEF RunType, Payload
<1>3. WindowDays(run[w].pay) \in 1..Days
  BY <1>2, PayloadsTyped
<1>4. QED
  BY <1>1, <1>2, <1>3, ConstantsAssumption DEF ChunkEnd, LesserOf, MoreDays, LastStatement, Whole

LEMMA SpentTyped ==
  ASSUME Typed, NEW event, Spend(event)
  PROVE  spent' \in 0..Budget
BY ConstantsAssumption DEF Typed, TypeOK, Spend

LEMMA TakeLockTyped ==
  ASSUME Typed, NEW w \in Slots, TakeLock(w)
  PROVE  Typed'
<1> USE ConstantsAssumption
<1>1. run[w] \in RunType /\ run[w].pc # "idle"
  BY RunsTyped DEF TakeLock
<1>2. spent' \in 0..Budget
  BY SpentTyped DEF TakeLock, Typed, TypeOK
<1>3. PICK new \in RunType : new.id = run[w].id /\ run' = [run EXCEPT ![w] = new]
  <2>1. CASE Goto(w, "chunk")
    <3>1. [run[w] EXCEPT !.pc = "chunk"] \in RunType
      BY <1>1 DEF RunType
    <3>2. run' = [run EXCEPT ![w] = [run[w] EXCEPT !.pc = "chunk"]]
      BY <2>1 DEF Goto
    <3>3. QED
      BY <1>1, <3>1, <3>2 DEF RunType
  <2>2. CASE run' = [run EXCEPT ![w].pc = "phases", ![w].pay.resume = FALSE, ![w].pay.at = 0]
    <3> DEFINE pay == [run[w].pay EXCEPT !.resume = FALSE, !.at = 0]
               new == [run[w] EXCEPT !.pc = "phases", !.pay = pay]
    <3>0. run[w].pay \in Payload /\ 0 \in 0..Days
      BY <1>1 DEF RunType
    <3>1. pay \in Payload
      BY <3>0 DEF Payload
    <3>2. new \in RunType /\ new.id = run[w].id
      BY <1>1, <3>1 DEF RunType
    <3>3. run' = [run EXCEPT ![w] = new]
      BY <1>1, <2>2 DEF RunType, Typed, TypeOK
    <3>4. QED
      BY <3>2, <3>3
  <2>3. QED
    BY <2>1, <2>2 DEF TakeLock
<1>4. run' \in [Slots -> RunType] /\ HoldsJobs' /\ AsksById'
  BY <1>1, <1>3, MoveTyped DEF TakeLock
<1>5. TypeOK'
  BY <1>2, <1>4 DEF Typed, TypeOK, TakeLock
<1>6. QED
  BY <1>4, <1>5 DEF Typed

\* A rebuild that hands over: it goes on to the step pc, and asks.
LEMMA HandTyped ==
  ASSUME Typed, NEW w \in Slots, run[w].pc # "idle", NEW pc \in {"skip", "behind"}, Goto(w, pc),
         NEW ask \in EnqType, ask.id \in Ids,
         ask.pc = "look" => ask.id \in Bases \X (1..CoalesceSlots),
         enq' = [enq EXCEPT ![w] = ask], UNCHANGED jobs
  PROVE  /\ run' \in [Slots -> RunType] /\ enq' \in [Askers -> EnqType]
         /\ HoldsJobs' /\ AsksById'
<1>1. run[w] \in RunType /\ w \in Askers
  BY RunsTyped DEF Askers
<1>2. [run[w] EXCEPT !.pc = pc] \in RunType /\ [run[w] EXCEPT !.pc = pc].id = run[w].id
  BY <1>1 DEF RunType
<1>3. run' = [run EXCEPT ![w] = [run[w] EXCEPT !.pc = pc]]
  BY DEF Goto
<1>4. run' \in [Slots -> RunType] /\ run'[w].id = run[w].id /\ \A v \in Slots \ {w} : run'[v] = run[v]
  BY <1>2, <1>3 DEF Typed, TypeOK
<1>5. HoldsJobs'
  BY <1>4, HoldsKept DEF Typed, HoldsJobs
<1>6. QED
  BY <1>1, <1>4, <1>5 DEF Typed, TypeOK, AsksById

LEMMA RetryTyped ==
  ASSUME Typed, NEW w \in Slots
  PROVE  LET ask == Asking("retry", Ask(run[w].pay.from, run[w].pay.look))
         IN  ask \in EnqType /\ ask.id \in Bases \X (1..CoalesceSlots) /\ ask.id \in Ids
<1>1. run[w].pay.from \in 1..Whole /\ run[w].pay.look \in 1..Days
  BY RunsTyped DEF RunType, Payload
<1>2. Ask(run[w].pay.from, run[w].pay.look) \in Payload /\ "retry" \in Bases
  BY <1>1, PayloadsTyped DEF Bases
<1>3. QED
  BY <1>2, EntriesTyped, BasesAreIds

LEMMA HeldTyped ==
  ASSUME Typed, NEW w \in Slots, LockHeld(w) \/ RollupLockHeld(w)
  PROVE  Typed'
<1>1. /\ run[w].pc # "idle"
      /\ \E pc \in {"skip", "behind"} : Goto(w, pc)
      /\ enq' = [enq EXCEPT ![w] = Asking("retry", Ask(run[w].pay.from, run[w].pay.look))]
      /\ UNCHANGED <<reach, past, row, jobs, lock, rollup, seen, missed, spent>>
  BY DEF LockHeld, RollupLockHeld, ScheduleLockHeldRetry, MoreDays
<1>2. /\ run' \in [Slots -> RunType] /\ enq' \in [Askers -> EnqType]
      /\ HoldsJobs' /\ AsksById'
  BY <1>1, RetryTyped, HandTyped
<1>3. QED
  BY <1>1, <1>2 DEF Typed, TypeOK

\* The phases narrow the lookback to the history, widen the start, or neither.
LEMMA BoundedTyped ==
  ASSUME NEW look \in 1..Days, NEW first \in 0..Days
  PROVE  /\ Bounded(look, first) \in 1..Days
         /\ Bounded(look, first) <= look
         /\ Bounded(look, first) = look \/ Bounded(look, first) = first + 1
BY ConstantsAssumption DEF Bounded, LesserOf

\* The lookback and the start a rebuild's phases leave it with.
PhasesLeave(w, look, from) ==
  run' = [run EXCEPT ![w] =
    [run[w] EXCEPT !.pc = "start", !.pay = [run[w].pay EXCEPT !.look = look, !.from = from]]]

LEMMA PhasesCases ==
  ASSUME Typed, NEW w \in Slots, RunPhases(w)
  PROVE  \/ /\ PhasesLeave(w, Bounded(run[w].pay.look, past), run[w].pay.from)
            /\ UNCHANGED <<reach, past, missed>>
         \/ /\ PhasesLeave(w, run[w].pay.look, run[w].pay.from)
            /\ UNCHANGED <<reach, past, missed>>
         \/ /\ reach[Phases] = 0
            /\ \E r \in 1..Days, known \in BOOLEAN : \E first \in Earliest(r) :
                 /\ reach' = [reach EXCEPT ![Phases] = r]
                 /\ past' = first
                 /\ PhasesLeave(w, Bounded(run[w].pay.look, first),
                      IF known THEN MergeFromDay(run[w].pay.from, r) ELSE Whole)
                 /\ missed' = missed \cup Beyond(run[w].pay.look, r)
                      \cup {m \in Causes \X Outrun(r, first) : Stale(m[1], m[2])}
<1>1. run[w] \in RunType /\ run[w].pay \in Payload /\ run \in [Slots -> RunType]
  BY RunsTyped DEF RunType, Typed, TypeOK
<1>2. CASE Goto(w, "start") /\ UNCHANGED <<reach, past, missed>>
  <2>1. run[w].pay = [run[w].pay EXCEPT !.look = run[w].pay.look, !.from = run[w].pay.from]
    BY <1>1 DEF Payload
  <2>2. PhasesLeave(w, run[w].pay.look, run[w].pay.from)
    BY <1>1, <1>2, <2>1 DEF PhasesLeave, Goto, RunType
  <2>3. QED
    BY <1>2, <2>2
<1>3. ASSUME NEW look, run' = [run EXCEPT ![w].pc = "start", ![w].pay.look = look]
      PROVE  PhasesLeave(w, look, run[w].pay.from)
  <2>1. [run[w].pay EXCEPT !.look = look]
          = [run[w].pay EXCEPT !.look = look, !.from = run[w].pay.from]
    BY <1>1 DEF Payload
  <2>2. QED
    BY <1>1, <1>3, <2>1 DEF PhasesLeave, RunType
<1>4. ASSUME NEW look, NEW from,
             run' = [run EXCEPT ![w].pc = "start", ![w].pay.look = look, ![w].pay.from = from]
      PROVE  PhasesLeave(w, look, from)
  BY <1>1, <1>4 DEF PhasesLeave, RunType, Payload
<1>5. QED
  BY <1>2, <1>3, <1>4 DEF RunPhases

\* What the phases leave is a payload again.
LEMMA PhasesMove ==
  ASSUME Typed, NEW w \in Slots, run[w].pc = "phases", UNCHANGED <<jobs, enq>>,
         NEW look \in 1..Days, NEW from \in 1..Whole, PhasesLeave(w, look, from)
  PROVE  /\ run' \in [Slots -> RunType] /\ HoldsJobs' /\ AsksById'
         /\ run'[w].pc = "start" /\ run'[w].pay \in Payload
         /\ run'[w].pay.look = look /\ run'[w].pay.from = from
         /\ run'[w].pay.resume = run[w].pay.resume
         /\ \A v \in Slots \ {w} : run'[v] = run[v]
<1> DEFINE pay == [run[w].pay EXCEPT !.look = look, !.from = from]
           new == [run[w] EXCEPT !.pc = "start", !.pay = pay]
<1>1. run[w] \in RunType /\ run[w].pay \in Payload /\ run \in [Slots -> RunType]
  BY RunsTyped DEF RunType, Typed, TypeOK
<1>2. /\ pay \in Payload /\ pay.look = look /\ pay.from = from
      /\ pay.resume = run[w].pay.resume
  BY <1>1 DEF Payload
<1>3. new \in RunType /\ new.id = run[w].id /\ new.pc = "start" /\ new.pay = pay
  BY <1>1, <1>2 DEF RunType
<1>4. run' = [run EXCEPT ![w] = new]
  BY DEF PhasesLeave
<1> HIDE DEF pay, new
<1>5. run'[w] = new /\ \A v \in Slots \ {w} : run'[v] = run[v]
  BY <1>1, <1>4
<1>6. run' \in [Slots -> RunType] /\ HoldsJobs' /\ AsksById'
  BY <1>3, <1>4, MoveTyped
<1>7. QED
  BY <1>2, <1>3, <1>5, <1>6

LEMMA PhasesTyped ==
  ASSUME Typed, NEW w \in Slots, RunPhases(w)
  PROVE  Typed'
<1> USE ConstantsAssumption
<1>1. /\ run[w].pay.look \in 1..Days /\ run[w].pay.from \in 1..Whole /\ past \in 0..Days
      /\ run[w].pc = "phases" /\ UNCHANGED <<row, jobs, enq, lock, rollup, seen>>
  BY RunsTyped DEF RunPhases, RunType, Payload, Typed, TypeOK
<1>2. spent' \in 0..Budget
  BY SpentTyped DEF RunPhases, Typed, TypeOK
<1>3. CASE /\ \E look \in 1..Days : PhasesLeave(w, look, run[w].pay.from)
           /\ UNCHANGED <<reach, past, missed>>
  BY <1>1, <1>2, <1>3, PhasesMove DEF Typed, TypeOK
<1>4. ASSUME NEW r \in 1..Days, NEW known \in BOOLEAN, NEW first \in Earliest(r),
             reach' = [reach EXCEPT ![Phases] = r],
             past' = first,
             PhasesLeave(w, Bounded(run[w].pay.look, first),
                         IF known THEN MergeFromDay(run[w].pay.from, r) ELSE Whole),
             missed' = missed \cup Beyond(run[w].pay.look, r)
                      \cup {m \in Causes \X Outrun(r, first) : Stale(m[1], m[2])}
      PROVE  Typed'
  <2>1. first \in 0..Days /\ r \in 1..Whole
    BY <1>1, EarliestTyped DEF Whole
  <2>2. Bounded(run[w].pay.look, first) \in 1..Days
    BY <1>1, <2>1, BoundedTyped
  <2>3. (IF known THEN MergeFromDay(run[w].pay.from, r) ELSE Whole) \in 1..Whole
    BY <1>1, <2>1, PayloadsTyped
  <2>4. run' \in [Slots -> RunType] /\ HoldsJobs' /\ AsksById'
    BY <1>1, <1>4, <2>2, <2>3, PhasesMove
  <2>5. reach' \in [Causes -> 0..Days]
    BY <1>4 DEF Typed, TypeOK, Causes
  <2>6. missed' \subseteq Causes \X (1..Days)
    BY <1>4, OutrunTyped DEF Beyond, Typed, TypeOK
  <2>7. QED
    BY <1>1, <1>2, <1>4, <2>1, <2>4, <2>5, <2>6 DEF Typed, TypeOK
<1>5. QED
  BY <1>1, <1>3, <1>4, PhasesCases, BoundedTyped

LEMMA SaveTyped ==
  ASSUME Typed, NEW w \in Slots, SaveStart(w) \/ SaveChunk(w)
  PROVE  Typed'
<1> USE ConstantsAssumption
<1>1. run[w] \in RunType /\ run[w].pc # "idle" /\ run[w].id \in Ids
  BY RunsTyped DEF SaveStart, SaveChunk, Typed, HoldsJobs
<1>2. PICK at \in 0..Days : Save(w, at)
  BY RunsTyped DEF SaveStart, SaveChunk
<1> DEFINE pay == [run[w].pay EXCEPT !.resume = TRUE, !.at = at]
           new == [run[w] EXCEPT !.pc = "chunk", !.pay = pay]
           entry == [jobs[run[w].id] EXCEPT !.pay = pay]
<1>3. pay \in Payload
  BY <1>1 DEF RunType, Payload
<1>4. new \in RunType /\ new.id = run[w].id /\ new.pc = "chunk"
  BY <1>1, <1>3 DEF RunType
<1>5. run' = [run EXCEPT ![w] = new]
  BY <1>1, <1>2 DEF RunType, Typed, TypeOK, Save
<1>6. entry \in Entry /\ entry.st = jobs[run[w].id].st /\ entry.holder = jobs[run[w].id].holder
  BY <1>1, <1>3 DEF Typed, TypeOK, Entry
<1>7. jobs' = [jobs EXCEPT ![run[w].id] = entry]
  BY <1>2 DEF Save
<1>8. run' \in [Slots -> RunType] /\ jobs' \in [Ids -> Entry]
  BY <1>4, <1>5, <1>6, <1>7 DEF Typed, TypeOK
<1>9. HoldsJobs'
  <2>1. run'[w] = new /\ \A v \in Slots \ {w} : run'[v] = run[v]
    BY <1>5 DEF Typed, TypeOK
  <2>2. jobs'[run[w].id] = entry /\ \A id \in Ids : id # run[w].id => jobs'[id] = jobs[id]
    BY <1>1, <1>7 DEF Typed, TypeOK
  <2>3. jobs'[run[w].id].st = "active" /\ jobs'[run[w].id].holder = w
    BY <1>1, <1>6, <2>2 DEF Typed, HoldsJobs
  <2>4. QED
    BY <1>1, <1>4, <2>1, <2>2, <2>3, HoldsKept
<1>10. UNCHANGED <<reach, past, row, enq, lock, rollup, seen, missed, spent>>
  BY DEF SaveStart, SaveChunk
<1>11. QED
  BY <1>8, <1>9, <1>10 DEF Typed, TypeOK, AsksById

LEMMA ReadsTyped ==
  ASSUME Typed, NEW w \in Slots, RollupReads(w)
  PROVE  Typed'
<1>1. run[w] \in RunType /\ run[w].pc # "idle"
  BY RunsTyped DEF RollupReads, MoreDays
<1> DEFINE new == [run[w] EXCEPT !.pc = "write", !.day = run[w].pay.at + 1]
<1>0. run[w].pay.at + 1 \in 1..Whole
  <2>1. run[w].pay.at \in 0..Days /\ Days \in Nat
    BY RunsTyped, ConstantsAssumption
  <2>2. QED
    BY <2>1 DEF Whole
<1>2. new \in RunType /\ new.id = run[w].id
  BY <1>0, <1>1 DEF RunType
<1>3. run' = [run EXCEPT ![w] = new]
  BY <1>1 DEF RollupReads, RunType, Typed, TypeOK
<1>4. run' \in [Slots -> RunType] /\ HoldsJobs' /\ AsksById'
  BY <1>1, <1>2, <1>3, MoveTyped DEF RollupReads
<1>5. Happened \subseteq Causes /\ w \in Rollers
  BY DEF Happened, Rollers
<1>6. TypeOK'
  BY <1>4, <1>5 DEF Typed, TypeOK, RollupReads
<1>7. QED
  BY <1>4, <1>6 DEF Typed

LEMMA LeaveTyped ==
  ASSUME Typed, NEW w \in Slots, run[w].pc # "idle", LeaveChunk(w), UNCHANGED <<jobs, enq>>
  PROVE  /\ run' \in [Slots -> RunType] /\ seen' \in [Rollers -> SUBSET Causes]
         /\ rollup' \in Rollers \cup {Nobody}
         /\ HoldsJobs' /\ AsksById'
<1>1. run[w] \in RunType /\ w \in Rollers
  BY RunsTyped DEF Rollers
<1> DEFINE new == [run[w] EXCEPT !.pc = "mark", !.day = 1]
<1>0. 1 \in 1..Whole
  BY ConstantsAssumption DEF Whole
<1>2. new \in RunType /\ new.id = run[w].id
  BY <1>0, <1>1 DEF RunType
<1>3. run' = [run EXCEPT ![w] = new]
  BY <1>1 DEF LeaveChunk, RunType, Typed, TypeOK
<1>4. run' \in [Slots -> RunType] /\ HoldsJobs' /\ AsksById'
  BY <1>2, <1>3, MoveTyped
<1>5. QED
  BY <1>1, <1>4 DEF LeaveChunk, Typed, TypeOK

LEMMA WritesTyped ==
  ASSUME Typed, RunsInShape, NEW w \in Slots, RollupWrites(w)
  PROVE  Typed'
<1>1. run[w] \in RunType /\ run[w].pc = "write" /\ run[w].day <= LastStatement(w)
  BY RunsTyped DEF RollupWrites, RunsInShape, InShape, InChunk
<1>2. row' \in [1..Days -> SUBSET Causes]
  BY DEF RollupWrites, WriteDay, Typed, TypeOK, Rollers
<1>3. missed' \subseteq Causes \X (1..Days)
  BY DEF RollupWrites, Healed, Typed, TypeOK
<1>4. CASE run[w].day = LastStatement(w)
  <2>1. LeaveChunk(w)
    BY <1>4 DEF RollupWrites, WriteDay
  <2>2. QED
    BY <1>1, <1>2, <1>3, <2>1, LeaveTyped DEF RollupWrites, Typed, TypeOK
<1>5. CASE run[w].day # LastStatement(w)
  <2> DEFINE new == [run[w] EXCEPT !.day = run[w].day + 1]
  <2>1. run[w].day + 1 \in 1..Whole
    <3>1. run[w].day \in 1..Whole /\ LastStatement(w) \in 0..Whole
      BY <1>1, RunsTyped DEF RunType
    <3>2. QED
      BY <1>1, <1>5, <3>1, ConstantsAssumption DEF Whole
  <2>2. new \in RunType /\ new.id = run[w].id
    BY <1>1, <2>1 DEF RunType
  <2>3. run' = [run EXCEPT ![w] = new]
    BY <1>1, <1>5 DEF RollupWrites, WriteDay, RunType, Typed, TypeOK
  <2>4. run' \in [Slots -> RunType] /\ HoldsJobs' /\ AsksById'
    BY <1>1, <2>2, <2>3, MoveTyped DEF RollupWrites
  <2>5. QED
    BY <1>2, <1>3, <1>5, <2>4 DEF RollupWrites, WriteDay, Typed, TypeOK
<1>6. QED
  BY <1>4, <1>5

\* The rows of a statement are past days'.
LEMMA TouchedTyped ==
  ASSUME Typed, NEW w \in Slots
  PROVE  Touched(w) \subseteq 1..Days
<1>1. run[w].day \in 1..Whole /\ ChunkEnd(w) \in 0..Days
  BY RunsTyped DEF RunType
<1>2. QED
  BY <1>1, ConstantsAssumption DEF Touched, LeftOfChunk, Whole

LEMMA WritesLateTyped ==
  ASSUME Typed, NEW w \in Slots, RollupWritesLate(w)
  PROVE  Typed'
<1>1. run[w] \in RunType /\ run[w].pc = "write"
  BY RunsTyped DEF RollupWritesLate
<1>2. row' \in [1..Days -> SUBSET Causes]
  BY DEF RollupWritesLate, Typed, TypeOK, Rollers
<1>3. missed' \subseteq Causes \X (1..Days)
  <2>1. Unseen(w) \subseteq Causes \X (1..Days)
    BY TouchedTyped DEF Unseen
  <2>2. Causes \X (LeftOfChunk(w) \ Touched(w)) \subseteq Causes \X (1..Days)
    BY DEF LeftOfChunk
  <2>3. QED
    BY <2>1, <2>2 DEF RollupWritesLate, Healed, Typed, TypeOK
<1>4. QED
  BY <1>1, <1>2, <1>3, LeaveTyped DEF RollupWritesLate, Typed, TypeOK

LEMMA BreaksTyped ==
  ASSUME Typed, NEW w \in Slots, RollupBreaks(w)
  PROVE  Typed'
<1>1. spent' \in 0..Budget
  BY SpentTyped DEF RollupBreaks, Typed, TypeOK
<1>2. missed' \subseteq Causes \X (1..Days)
  BY MissesTyped DEF RollupBreaks, LeftOfChunk, Typed
<1>3. QED
  BY <1>1, <1>2, LeaveTyped DEF RollupBreaks, Typed, TypeOK

LEMMA FailTyped ==
  ASSUME Typed, NEW w \in Slots, run[w].pc # "idle", Fail(w), UNCHANGED <<reach, past, row>>,
         spent' \in 0..Budget
  PROVE  Typed'
<1> USE ConstantsAssumption
<1>1. run[w] \in RunType /\ run[w].id \in Ids /\ w \in Rollers /\ w \in Askers
  BY RunsTyped DEF Typed, HoldsJobs, Rollers, Askers
<1> DEFINE entry == jobs[run[w].id]
<1>2. entry \in Entry /\ entry.pay \in Payload /\ entry.made + 1 \in Nat
  BY <1>1 DEF Typed, TypeOK, Entry
<1>3. jobs' \in [Ids -> Entry]
  BY <1>1, <1>2, EntriesTyped DEF Fail, Typed, TypeOK
<1>4. run' \in [Slots -> RunType] /\ enq' \in [Askers -> EnqType]
  BY EntriesTyped DEF Fail, Typed, TypeOK
<1>5. missed' \subseteq Causes \X (1..Days)
  BY MissesTyped, WindowsTyped DEF Fail, Typed
<1>6. TypeOK'
  BY <1>1, <1>3, <1>4, <1>5 DEF Fail, Typed, TypeOK
<1>7. HoldsJobs'
  <2>1. run'[w].pc = "idle" /\ \A v \in Slots \ {w} : run'[v] = run[v]
    BY DEF Fail, Idle, Typed, TypeOK
  <2>2. \A id \in Ids : id # run[w].id => jobs'[id] = jobs[id]
    BY DEF Fail, Typed, TypeOK
  <2>3. QED
    BY <2>1, <2>2, HoldsKept
<1>8. AsksById'
  BY <1>1 DEF Fail, AsksById, NotAsking, Typed, TypeOK
<1>9. QED
  BY <1>6, <1>7, <1>8 DEF Typed

LEMMA MemoryTyped ==
  ASSUME Typed, NEW w \in Slots, MemoryStop(w)
  PROVE  Typed'
<1> USE ConstantsAssumption
<1>1. spent' \in 0..Budget /\ run[w].pc # "idle"
  BY SpentTyped DEF MemoryStop, MoreDays
<1>2. run[w] \in RunType /\ run[w].id \in Ids
  BY <1>1, RunsTyped DEF Typed, HoldsJobs
<1>3. CASE MayDefer(run[w].id)
  <2> DEFINE id == <<"deferred", ChainLink(run[w].id) + 1>>
             ask == [NotAsking EXCEPT !.pc = "add", !.id = id, !.pay = run[w].pay]
  <2>1. ChainLink(run[w].id) \in Nat
    BY <1>2 DEF ChainLink, Ids
  <2>2. id \in Ids
    BY <1>3, <2>1 DEF MayDefer, Ids
  <2>3. ask \in EnqType /\ ask.id \in Ids /\ ask.pc = "add"
    BY <1>2, <2>2, EntriesTyped DEF RunType, EnqType
  <2>4. /\ run' \in [Slots -> RunType] /\ enq' \in [Askers -> EnqType]
        /\ HoldsJobs' /\ AsksById'
    <3> HIDE DEF id, ask
    <3>1. Goto(w, "behind") /\ UNCHANGED jobs
      BY <1>3 DEF MemoryStop
    <3>2. enq' = [enq EXCEPT ![w] = ask]
      BY <1>3 DEF MemoryStop, id, ask
    <3>3. QED
      BY <1>1, <2>3, <3>1, <3>2, HandTyped
  <2>5. QED
    BY <1>1, <1>3, <2>4 DEF MemoryStop, Typed, TypeOK
<1>4. CASE ~MayDefer(run[w].id)
  BY <1>1, <1>4, FailTyped DEF MemoryStop
<1>5. QED
  BY <1>3, <1>4

LEMMA FinishTyped ==
  ASSUME Typed, NEW w \in Slots, Finish(w) \/ Skip(w)
  PROVE  Typed'
<1>1. run[w].pc # "idle" /\ run[w].id \in Ids /\ w \in Rollers
  BY DEF Finish, Skip, Typed, HoldsJobs, Rollers
<1>2. CASE Finish(w) /\ lock # w
  BY <1>1, <1>2, FailTyped DEF Finish, Typed, TypeOK
<1>3. CASE Skip(w) \/ (Finish(w) /\ lock = w)
  <2>1. /\ jobs' = [jobs EXCEPT ![run[w].id] = NoEntry]
        /\ run' = [run EXCEPT ![w] = Idle]
        /\ lock' \in {lock, Nobody}
        /\ UNCHANGED <<reach, past, row, enq, rollup, seen, missed, spent>>
    BY <1>3 DEF Finish, Skip
  <2>2. TypeOK'
    BY <2>1, EntriesTyped DEF Typed, TypeOK
  <2>3. run'[w].pc = "idle" /\ \A v \in Slots \ {w} : run'[v] = run[v]
    BY <2>1 DEF Idle, Typed, TypeOK
  <2>4. \A id \in Ids : id # run[w].id => jobs'[id] = jobs[id]
    BY <2>1 DEF Typed, TypeOK
  <2>5. HoldsJobs'
    BY <1>1, <2>3, <2>4, HoldsKept
  <2>6. QED
    BY <2>1, <2>2, <2>5 DEF Typed, AsksById
<1>4. QED
  BY <1>2, <1>3

LEMMA EnqueueFailsTyped ==
  ASSUME Typed, NEW a \in Askers, EnqueueFails(a)
  PROVE  Typed'
<1>1. spent' \in 0..Budget
  BY SpentTyped DEF EnqueueFails
<1>2. CASE a \in Slots /\ run[a].pc = "behind"
  BY <1>1, <1>2, FailTyped DEF EnqueueFails
<1>3. CASE ~(a \in Slots /\ run[a].pc = "behind")
  <2>1. missed' \subseteq Causes \X (1..Days)
    BY <1>3, MissesTyped, WindowsTyped DEF EnqueueFails, Typed
  <2>2. TypeOK'
    BY <1>1, <1>3, <2>1, EntriesTyped DEF EnqueueFails, Typed, TypeOK
  <2>3. enq' = [enq EXCEPT ![a] = NotAsking] /\ UNCHANGED <<jobs, run>>
    BY <1>3 DEF EnqueueFails
  <2>4. HoldsJobs' /\ AsksById'
    BY <2>3 DEF Typed, TypeOK, HoldsJobs, AsksById, NotAsking
  <2>5. QED
    BY <2>2, <2>4 DEF Typed
<1>4. QED
  BY <1>2, <1>3

LEMMA ThrowsTyped ==
  ASSUME Typed, NEW w \in Slots, AttemptThrows(w)
  PROVE  Typed'
BY FailTyped, SpentTyped DEF AttemptThrows

LEMMA DieTyped ==
  ASSUME Typed, NEW w \in Slots, Die(w)
  PROVE  Typed'
<1>1. /\ spent' \in 0..Budget /\ run[w].pc # "idle" /\ run[w].id \in Ids
      /\ w \in Rollers /\ w \in Askers
  BY SpentTyped DEF Die, Typed, HoldsJobs, Rollers, Askers
<1>2. missed' \subseteq Causes \X (1..Days)
  BY MissesTyped, WindowsTyped DEF Die, Typed
<1>3. jobs' \in [Ids -> Entry]
  BY <1>1 DEF Die, Typed, TypeOK, Entry
<1>4. TypeOK'
  BY <1>1, <1>2, <1>3, EntriesTyped DEF Die, Typed, TypeOK
<1>5. HoldsJobs'
  <2>1. run'[w].pc = "idle" /\ \A v \in Slots \ {w} : run'[v] = run[v]
    BY DEF Die, Idle, Typed, TypeOK
  <2>2. \A id \in Ids : id # run[w].id => jobs'[id] = jobs[id]
    BY DEF Die, Typed, TypeOK
  <2>3. QED
    BY <1>1, <2>1, <2>2, HoldsKept
<1>6. AsksById'
  BY <1>1 DEF Die, AsksById, NotAsking, Typed, TypeOK
<1>7. QED
  BY <1>4, <1>5, <1>6 DEF Typed

LEMMA ReclaimTyped ==
  ASSUME Typed, NEW id \in Ids, ReclaimStalled(id)
  PROVE  Typed'
<1>1. [jobs[id] EXCEPT !.st = "pending"] \in Entry
  BY DEF Typed, TypeOK, Entry
<1>2. TypeOK'
  BY <1>1 DEF ReclaimStalled, Typed, TypeOK
<1>3. \A w \in Slots : run[w].pc # "idle" => run[w].id # id
  BY ConstantsAssumption DEF ReclaimStalled, Typed, HoldsJobs
<1>4. HoldsJobs' /\ AsksById'
  BY <1>3 DEF ReclaimStalled, Typed, TypeOK, HoldsJobs, AsksById
<1>5. QED
  BY <1>2, <1>4 DEF Typed

LEMMA CronTyped ==
  ASSUME Typed, LoseSessions \/ CronReads \/ CronWrites
  PROVE  Typed'
<1>1. spent' \in 0..Budget
  BY SpentTyped DEF LoseSessions, CronReads, CronWrites, Typed, TypeOK
<1>2. UNCHANGED <<reach, past, jobs, run, enq>>
  BY DEF LoseSessions, CronReads, CronWrites
<1>3. row' \in [1..Days -> SUBSET Causes] /\ seen' \in [Rollers -> SUBSET Causes]
        /\ missed' \subseteq Causes \X (1..Days)
  <2>1. Happened \subseteq Causes /\ Cron \in Rollers
    BY DEF Happened, Rollers
  <2>2. QED
    BY <2>1 DEF LoseSessions, CronReads, CronWrites, Healed, Typed, TypeOK
<1>4. lock' \in Slots \cup {Nobody} /\ rollup' \in Rollers \cup {Nobody}
  BY DEF LoseSessions, CronReads, CronWrites, Typed, TypeOK, Rollers
<1>5. QED
  BY <1>1, <1>2, <1>3, <1>4 DEF Typed, TypeOK, HoldsJobs, AsksById

LEMMA NextTyped ==
  ASSUME Typed, RunsInShape, [Next]_vars
  PROVE  Typed'
<1>1. CASE UNCHANGED vars
  BY <1>1 DEF vars, Typed, TypeOK, HoldsJobs, AsksById
<1>2. CASE \E c \in Changes : Commit(c)
  BY <1>2, CommitTyped
<1>3. CASE \E a \in Askers : EnqueueStep(a) \/ EnqueueFails(a)
  BY <1>3, LookTyped, ReadTyped, WriteTyped, AddTyped, EnqueueFailsTyped DEF EnqueueStep
<1>4. ASSUME NEW w \in Slots, RunStep(w)
      PROVE  Typed'
  BY <1>4, PickUpTyped, TakeLockTyped, HeldTyped, PhasesTyped, SaveTyped, ReadsTyped, WritesTyped,
     WritesLateTyped, BreaksTyped, MemoryTyped, FinishTyped, ThrowsTyped, DieTyped DEF RunStep
<1>5. CASE \E id \in Ids : ReclaimStalled(id)
  BY <1>5, ReclaimTyped
<1>6. CASE LoseSessions \/ CronReads \/ CronWrites
  BY <1>6, CronTyped
<1>7. QED
  BY <1>1, <1>2, <1>3, <1>4, <1>5, <1>6 DEF Next

-----------------------------------------------------------------------------
\* The shape of a rebuild is its own affair.
LEMMA OthersInShape ==
  ASSUME RunsInShape, NEW v \in Slots, run'[v] = run[v], enq'[v] = enq[v]
  PROVE  InShape(v)'
<1>1. InShape(v)
  BY DEF RunsInShape
<1>2. InChunk(v)' = InChunk(v)
  BY DEF InChunk, LastStatement, LastChunk, ChunkEnd
<1>3. QED
  BY <1>1, <1>2 DEF InShape

\* An ask goes on for what it asks, or is over.
LEMMA AskGoesOn ==
  ASSUME Typed, NEW a \in Askers, EnqueueStep(a)
  PROVE  \/ enq' = [enq EXCEPT ![a] = NotAsking] /\ enq'[a].pc = "off"
         \/ enq[a].pc # "off" /\ enq'[a].pay = enq[a].pay
<1>1. enq[a] \in EnqType /\ enq \in [Askers -> EnqType]
  BY DEF Typed, TypeOK
<1>2. CASE LookAtSlot(a)
  <2>1. PICK pc \in {"look", "read", "add"}, to \in Ids :
          enq' = [enq EXCEPT ![a].pc = pc, ![a].id = to]
    BY <1>2, LookGoesOn
  <2>2. enq'[a].pay = enq[a].pay
    BY <1>1, <2>1 DEF EnqType
  <2>3. QED
    BY <1>2, <2>2 DEF LookAtSlot
<1>3. CASE ReadPending(a)
  BY <1>1, <1>3 DEF ReadPending, EnqType
<1>4. CASE WritePending(a)
  BY <1>1, <1>4 DEF WritePending, EnqType
<1>5. CASE AddJob(a)
  BY <1>1, <1>5 DEF AddJob, NotAsking
<1>6. QED
  BY <1>2, <1>3, <1>4, <1>5 DEF EnqueueStep

\* So is an ask that goes on, or is over.
LEMMA AsksInShape ==
  ASSUME Typed, RunsInShape, NEW a \in Askers, EnqueueStep(a), NEW w \in Slots
  PROVE  InShape(w)'
<1>1. UNCHANGED run /\ \A b \in Askers \ {a} : enq'[b] = enq[b]
  BY DEF Typed, TypeOK, EnqueueStep, LookAtSlot, ReadPending, WritePending, AddJob
<1>2. enq'[a].pc = "off" \/ (enq[a].pc # "off" /\ enq'[a].pay = enq[a].pay)
  BY AskGoesOn
<1>3. CASE w # a
  BY <1>1, <1>3, OthersInShape DEF Askers
<1>4. CASE w = a
  <2>1. InChunk(w)' = InChunk(w)
    BY <1>1 DEF InChunk, LastStatement, LastChunk, ChunkEnd
  <2>2. QED
    BY <1>1, <1>2, <1>4, <2>1 DEF RunsInShape, InShape
<1>5. QED
  BY <1>3, <1>4

LEMMA AskWindow ==
  ASSUME NEW p \in Payload
  PROVE  /\ WindowDays(Ask(p.from, p.look)) = WindowDays(p)
         /\ \A first : DaysLeft(p, first) \subseteq DaysLeft(Ask(p.from, p.look), first)
BY ConstantsAssumption DEF DaysLeft, Walked, WindowDays, Ask, Payload, LesserOf

LEMMA RunsStayInShape ==
  ASSUME Typed, RunsInShape, NEW w \in Slots, RunStep(w)
  PROVE  InShape(w)'
<1>1. run[w] \in RunType /\ w \in Askers /\ InShape(w) /\ run[w].pay \in Payload
  BY RunsTyped DEF Askers, RunsInShape, RunType
<1>2. CASE PickUp(w)
  <2>1. run'[w].pc = "lock" /\ enq'[w].pc = "off"
    BY <1>1, <1>2 DEF PickUp, InShape, Typed, TypeOK, RunType
  <2>2. QED
    BY <2>1 DEF InShape
<1>3. CASE TakeLock(w)
  <2>1. /\ enq'[w].pc = "off"
        /\ \/ run'[w].pc = "chunk" /\ run'[w].pay.resume
           \/ run'[w].pc = "phases" /\ ~run'[w].pay.resume
    <3>1. enq'[w].pc = "off"
      BY <1>1, <1>3 DEF TakeLock, InShape
    <3>2. \/ run'[w].pc = "chunk" /\ run'[w].pay.resume
          \/ run'[w].pc = "phases" /\ ~run'[w].pay.resume
      <4>0. run \in [Slots -> RunType]
        BY DEF Typed, TypeOK
      <4>1. CASE run[w].pay.resume /\ Goto(w, "chunk")
        <5>1. run'[w].pc = "chunk" /\ run'[w].pay = run[w].pay
          BY <1>1, <4>0, <4>1 DEF Goto, RunType
        <5>2. QED
          BY <4>1, <5>1
      <4>2. CASE run' = [run EXCEPT ![w].pc = "phases", ![w].pay.resume = FALSE, ![w].pay.at = 0]
        <5>1. run'[w].pc = "phases" /\ run'[w].pay.resume = FALSE
          BY <1>1, <4>0, <4>2 DEF RunType, Payload
        <5>2. QED
          BY <5>1
      <4>3. QED
        BY <1>3, <4>1, <4>2 DEF TakeLock
    <3>3. QED
      BY <3>1, <3>2
  <2>2. QED
    BY <2>1 DEF InShape
<1>4. CASE LockHeld(w) \/ RollupLockHeld(w)
  <2>1. /\ run'[w].pc \in {"skip", "behind"} /\ run'[w].pay = run[w].pay
        /\ enq'[w].pay = Ask(run[w].pay.from, run[w].pay.look)
    <3>1. /\ \E pc \in {"skip", "behind"} : run' = [run EXCEPT ![w].pc = pc]
          /\ enq' = [enq EXCEPT ![w] = Asking("retry", Ask(run[w].pay.from, run[w].pay.look))]
      BY <1>4 DEF LockHeld, RollupLockHeld, ScheduleLockHeldRetry, Goto
    <3>2. enq'[w] = Asking("retry", Ask(run[w].pay.from, run[w].pay.look))
      BY <1>1, <3>1 DEF Typed, TypeOK
    <3>3. Ask(run[w].pay.from, run[w].pay.look) \in Payload /\ "retry" \in Bases
      BY <1>1, PayloadsTyped DEF Payload, Bases
    <3>4. enq'[w].pay = Ask(run[w].pay.from, run[w].pay.look)
      BY <3>2, <3>3, EntriesTyped
    <3>5. run'[w].pc \in {"skip", "behind"} /\ run'[w].pay = run[w].pay
      BY <1>1, <3>1 DEF Typed, TypeOK, RunType
    <3>6. QED
      BY <3>4, <3>5
  <2>2. QED
    BY <1>1, <2>1, AskWindow DEF InShape
<1>5. CASE RunPhases(w)
  <2>1. /\ run[w].pay.look \in 1..Days /\ run[w].pay.from \in 1..Whole /\ past \in 0..Days
        /\ run[w].pc = "phases" /\ UNCHANGED <<jobs, enq>>
    BY <1>1, <1>5 DEF RunPhases, Payload, Typed, TypeOK
  <2>2. \E look \in 1..Days, from \in 1..Whole : PhasesLeave(w, look, from)
    <3>1. Bounded(run[w].pay.look, past) \in 1..Days
      BY <2>1, BoundedTyped
    <3>2. ASSUME NEW r \in 1..Days, NEW known \in BOOLEAN, NEW first \in Earliest(r)
          PROVE  /\ Bounded(run[w].pay.look, first) \in 1..Days
                 /\ (IF known THEN MergeFromDay(run[w].pay.from, r) ELSE Whole) \in 1..Whole
      <4>1. first \in 0..Days /\ r \in 1..Whole
        <5>1. first \in 0..Days
          BY <2>1, EarliestTyped
        <5>2. r \in 1..Whole
          BY ConstantsAssumption DEF Whole
        <5>3. QED
          BY <5>1, <5>2
      <4>2. Bounded(run[w].pay.look, first) \in 1..Days
        BY <2>1, <4>1, BoundedTyped
      <4>3. (IF known THEN MergeFromDay(run[w].pay.from, r) ELSE Whole) \in 1..Whole
        BY <2>1, <4>1, PayloadsTyped
      <4>4. QED
        BY <4>2, <4>3
    <3>3. QED
      BY <1>5, <2>1, <3>1, <3>2, PhasesCases
  <2>3. run'[w].pc = "start" /\ run'[w].pay.resume = run[w].pay.resume
    BY <2>1, <2>2, PhasesMove
  <2>4. QED
    BY <1>1, <2>1, <2>3 DEF InShape
<1>6. CASE SaveStart(w) \/ SaveChunk(w)
  <2>1. run'[w].pc = "chunk" /\ run'[w].pay.resume /\ enq'[w].pc = "off"
    BY <1>1, <1>6 DEF SaveStart, SaveChunk, Save, InShape, Typed, TypeOK, RunType, Payload
  <2>2. QED
    BY <2>1 DEF InShape
<1>7. CASE RollupReads(w)
  <2>1. /\ run'[w].pc = "write" /\ run'[w].pay = run[w].pay /\ run'[w].day = run[w].pay.at + 1
        /\ enq'[w].pc = "off" /\ run[w].pay.resume
    BY <1>1, <1>7 DEF RollupReads, MoreDays, InShape, Typed, TypeOK, RunType
  <2>2. ChunkEnd(w)' = ChunkEnd(w) /\ LastStatement(w)' = LastStatement(w)
    BY <2>1 DEF LastStatement, LastChunk, ChunkEnd
  <2>3. /\ run[w].pay.at < ChunkEnd(w)
        /\ run[w].pay.at + 1 \in (run[w].pay.at + 1)..LastStatement(w)
    <3>1. /\ run[w].pay.at \in 0..Days /\ run[w].pay.at < ChunkEnd(w)
          /\ ChunkEnd(w) \in 0..Days /\ ChunkEnd(w) <= LastStatement(w)
          /\ LastStatement(w) \in 0..Whole
      BY <1>7, RunsTyped DEF RollupReads, MoreDays
    <3>2. QED
      BY <3>1, ConstantsAssumption DEF Whole
  <2>4. InChunk(w)'
    BY <2>1, <2>2, <2>3 DEF InChunk
  <2>5. QED
    BY <2>1, <2>4 DEF InShape
<1>8. CASE RollupWrites(w)
  <2>1. CASE run[w].day = LastStatement(w)
    <3>1. run'[w].pc = "mark" /\ run'[w].pay = run[w].pay /\ UNCHANGED enq
      BY <1>1, <1>8, <2>1 DEF RollupWrites, WriteDay, LeaveChunk, Typed, TypeOK, RunType
    <3>2. QED
      BY <1>1, <1>8, <3>1 DEF RollupWrites, InShape
  <2>2. CASE run[w].day # LastStatement(w)
    <3>1. /\ run'[w].pc = "write" /\ run'[w].pay = run[w].pay /\ run'[w].day = run[w].day + 1
          /\ UNCHANGED enq
      BY <1>1, <1>8, <2>2 DEF RollupWrites, WriteDay, Typed, TypeOK, RunType
    <3>2. ChunkEnd(w)' = ChunkEnd(w) /\ LastStatement(w)' = LastStatement(w)
      BY <3>1 DEF LastStatement, LastChunk, ChunkEnd
    <3>3. /\ run[w].pay.at < ChunkEnd(w)
          /\ run[w].day + 1 \in (run[w].pay.at + 1)..LastStatement(w)
      <4>1. /\ InChunk(w) /\ LastStatement(w) \in 0..Whole /\ run[w].pay.at \in 0..Days
            /\ run[w].day \in 1..Whole
        BY <1>1, <1>8, RunsTyped DEF RollupWrites, InShape, RunType
      <4>2. QED
        BY <2>2, <4>1, ConstantsAssumption DEF InChunk, Whole
    <3>4. InChunk(w)'
      BY <3>1, <3>2, <3>3 DEF InChunk
    <3>5. QED
      BY <1>1, <1>8, <3>1, <3>4 DEF RollupWrites, InShape
  <2>3. QED
    BY <2>1, <2>2
<1>9. CASE RollupWritesLate(w) \/ RollupBreaks(w)
  <2>1. run'[w].pc = "mark" /\ run'[w].pay = run[w].pay /\ UNCHANGED enq /\ run[w].pc = "write"
    BY <1>1, <1>9 DEF RollupWritesLate, RollupBreaks, LeaveChunk, Typed, TypeOK, RunType
  <2>2. QED
    BY <1>1, <2>1 DEF InShape
<1>10. CASE Finish(w) \/ Skip(w) \/ AttemptThrows(w) \/ Die(w) \/ (MemoryStop(w) /\ Fail(w))
  <2>1. run'[w].pc = "idle" /\ enq'[w].pc = "off"
    <3>1. CASE Fail(w) \/ Die(w)
      BY <1>1, <3>1 DEF Fail, Die, Idle, NotAsking, Typed, TypeOK
    <3>2. CASE ~Fail(w) /\ ~Die(w)
      BY <1>1, <1>10, <3>2 DEF Finish, Skip, AttemptThrows, Idle, InShape, Typed, TypeOK
    <3>3. QED
      BY <3>1, <3>2
  <2>2. QED
    BY <2>1 DEF InShape
<1>11. CASE MemoryStop(w) /\ ~Fail(w)
  <2>1. /\ Goto(w, "behind")
        /\ \E id : enq' = [enq EXCEPT ![w] = [NotAsking EXCEPT !.pc = "add", !.id = id, !.pay = run[w].pay]]
    BY <1>11 DEF MemoryStop
  <2>2. run'[w].pc = "behind" /\ run'[w].pay = run[w].pay
    BY <1>1, <2>1 DEF Goto, Typed, TypeOK, RunType
  <2>3. enq'[w].pay = run[w].pay
    BY <1>1, <2>1 DEF NotAsking, Typed, TypeOK
  <2>4. QED
    BY <2>2, <2>3 DEF InShape
<1>12. QED
  BY <1>2, <1>3, <1>4, <1>5, <1>6, <1>7, <1>8, <1>9, <1>10, <1>11 DEF RunStep

\* A step of one rebuild is none of another's.
LEMMA RunStepsApart ==
  ASSUME Typed, NEW w \in Slots, RunStep(w), NEW v \in Slots, v # w
  PROVE  run'[v] = run[v] /\ enq'[v] = enq[v] /\ (v \in Askers /\ w \in Askers)
<1>1. v \in Askers /\ w \in Askers /\ run \in [Slots -> RunType] /\ enq \in [Askers -> EnqType]
  BY DEF Askers, Typed, TypeOK
<1>2. CASE Fail(w)
  BY <1>1, <1>2 DEF Fail
<1>3. CASE ~Fail(w)
  <2>1. CASE PickUp(w) \/ TakeLock(w) \/ LockHeld(w) \/ RunPhases(w) \/ SaveStart(w)
    BY <1>1, <2>1 DEF PickUp, TakeLock, LockHeld, RunPhases, SaveStart, Save, Goto, ScheduleLockHeldRetry
  <2>2. CASE RollupReads(w) \/ RollupWrites(w) \/ RollupWritesLate(w) \/ RollupBreaks(w) \/ SaveChunk(w)
    BY <1>1, <2>2 DEF RollupReads, RollupWrites, WriteDay, RollupWritesLate, RollupBreaks,
       LeaveChunk, SaveChunk, Save
  <2>3. CASE RollupLockHeld(w) \/ MemoryStop(w) \/ Finish(w) \/ Skip(w) \/ AttemptThrows(w) \/ Die(w)
    BY <1>1, <1>3, <2>3 DEF RollupLockHeld, MemoryStop, Finish, Skip, AttemptThrows, Die, Goto,
       ScheduleLockHeldRetry
  <2>4. QED
    BY <2>1, <2>2, <2>3 DEF RunStep
<1>4. QED
  BY <1>1, <1>2, <1>3

LEMMA NextInShape ==
  ASSUME Typed, RunsInShape, [Next]_vars
  PROVE  RunsInShape'
<1> SUFFICES ASSUME NEW w \in Slots PROVE InShape(w)'
  BY DEF RunsInShape
<1>1. CASE UNCHANGED vars
  BY <1>1, OthersInShape DEF vars
<1>2. ASSUME NEW c \in Changes, Commit(c)
      PROVE  InShape(w)'
  <2>1. run'[w] = run[w] /\ enq'[w] = enq[w]
    BY <1>2, ConstantsAssumption DEF Commit, Typed, TypeOK, Askers
  <2>2. QED
    BY <2>1, OthersInShape
<1>3. ASSUME NEW a \in Askers, EnqueueStep(a)
      PROVE  InShape(w)'
  BY <1>3, AsksInShape
<1>4. ASSUME NEW a \in Askers, EnqueueFails(a)
      PROVE  InShape(w)'
  <2>1. CASE w # a
    <3>1. run'[w] = run[w] /\ enq'[w] = enq[w]
      BY <1>4, <2>1 DEF EnqueueFails, Fail, Typed, TypeOK, Askers
    <3>2. QED
      BY <3>1, OthersInShape
  <2>2. CASE w = a
    <3>1. enq'[w].pc = "off" /\ (run'[w] = run[w] \/ run'[w].pc = "idle")
      BY <1>4, <2>2 DEF EnqueueFails, Fail, Typed, TypeOK, NotAsking, Idle
    <3>2. run[w].pc \in {"skip", "behind"}
      BY <1>4, <2>2 DEF EnqueueFails, RunsInShape, InShape
    <3>3. QED
      BY <3>1, <3>2 DEF InShape
  <2>3. QED
    BY <2>1, <2>2
<1>5. ASSUME NEW v \in Slots, RunStep(v)
      PROVE  InShape(w)'
  BY <1>5, RunsStayInShape, RunStepsApart, OthersInShape
<1>6. CASE (\E id \in Ids : ReclaimStalled(id)) \/ LoseSessions \/ CronReads \/ CronWrites
  <2>1. UNCHANGED <<run, enq>>
    BY <1>6 DEF ReclaimStalled, LoseSessions, CronReads, CronWrites
  <2>2. QED
    BY <2>1, OthersInShape
<1>7. QED
  BY <1>1, <1>2, <1>3, <1>4, <1>5, <1>6 DEF Next

-----------------------------------------------------------------------------
(***************************************************************************)
(* No stale day is forgotten.  Whoever owes a day that is stale, a queued  *)
(* job, an ask or a rebuild, hands it on whole or lets go of it; an ask of *)
(* a rebuild owes only what the rebuild itself had left.                   *)
(***************************************************************************)
AskerOwes(a, d) ==
  /\ enq[a].pc # "off"
  /\ d \in Window(enq[a].pay)
  /\ a \in Slots => d \in Window(run[a].pay)

Obliged(c, d) ==
  \/ QueueOwes(d)
  \/ \E a \in Askers : AskerOwes(a, d)
  \/ \E w \in Slots : RunOwes(w, c, d)

Kept(c, d) == Stale(c, d) => <<c, d>> \in missed \/ Obliged(c, d)

OwedInv == \A c \in Causes, d \in 1..Days : Kept(c, d)

\* A change asks once, when it happens.
ChangesAsk == \A c \in Changes : enq[c].pc # "off" => reach[c] > 0

RebuildInv == Typed /\ RunsInShape /\ RowInv /\ ChangesAsk /\ OwedInv

LEMMA MissesKeeps ==
  ASSUME NEW days, Misses(days)
  PROVE  /\ missed \subseteq missed'
         /\ \A c \in Causes, d \in days : Stale(c, d) => <<c, d>> \in missed'
BY DEF Misses

LEMMA StaleStays ==
  ASSUME UNCHANGED <<reach, past, row>>, NEW c, NEW d
  PROVE  Stale(c, d)' = Stale(c, d)
BY DEF Stale

\* A payload goes on covering a day when the records' beginning moves, unless a
\* record is put before the end of a walk that was to clear the day.
Outran(d, first) == \E p \in UnderWay :
  WindowDays(p) < d /\ Clears(WindowDays(p), past) /\ ~Clears(WindowDays(p), first)

LEMMA NoneOutran ==
  ASSUME UNCHANGED past, NEW d
  PROVE  ~Outran(d, past')
BY DEF Outran

LEMMA WindowMoves ==
  ASSUME NEW p \in Payload, p \in UnderWay, NEW first, NEW d \in 1..Days, d \in Window(p)
  PROVE  d \in DaysLeft(p, first) \/ Outran(d, first)
<1>1. WindowDays(p) \in 1..Days
  BY PayloadsTyped
<1>2. CASE d <= WindowDays(p) \/ Clears(WindowDays(p), first)
  BY <1>2 DEF Window, DaysLeft
<1>3. CASE ~(d <= WindowDays(p)) /\ ~Clears(WindowDays(p), first)
  <2>1. WindowDays(p) < d
    BY <1>1, <1>3, ConstantsAssumption
  <2>2. Clears(WindowDays(p), past)
    BY <1>3 DEF Window, DaysLeft
  <2>3. QED
    BY <1>3, <2>1, <2>2 DEF Outran
<1>4. QED
  BY <1>2, <1>3

\* So do the queue's jobs, the asks and the rebuilds.
LEMMA JobMoves ==
  ASSUME Typed, NEW id \in Ids, Waits(id), Waits(id)', jobs'[id].pay = jobs[id].pay,
         NEW d \in 1..Days, d \in Window(jobs[id].pay)
  PROVE  QueueOwes(d)' \/ Outran(d, past')
<1>1. jobs[id].pay \in Payload /\ jobs[id].pay \in UnderWay
  BY DEF Typed, TypeOK, Entry, UnderWay
<1>2. d \in DaysLeft(jobs[id].pay, past') \/ Outran(d, past')
  BY <1>1, WindowMoves
<1>3. QED
  BY <1>2 DEF QueueOwes, Window

LEMMA AskMoves ==
  ASSUME Typed, RunsInShape, NEW a \in Askers, enq'[a] = enq[a], a \in Slots => run'[a] = run[a],
         NEW d \in 1..Days, AskerOwes(a, d)
  PROVE  AskerOwes(a, d)' \/ Outran(d, past')
<1>1. enq[a].pay \in Payload /\ enq[a].pay \in UnderWay
  BY DEF Typed, TypeOK, EnqType, UnderWay, AskerOwes
<1>2. d \in DaysLeft(enq[a].pay, past') \/ Outran(d, past')
  BY <1>1, WindowMoves DEF AskerOwes
<1>3. a \in Slots => d \in DaysLeft(run[a].pay, past') \/ Outran(d, past')
  <2>1. SUFFICES ASSUME a \in Slots PROVE d \in DaysLeft(run[a].pay, past') \/ Outran(d, past')
    OBVIOUS
  <2>2. run[a].pay \in Payload /\ run[a].pay \in UnderWay
    BY <2>1, RunsTyped DEF RunType, UnderWay, AskerOwes, RunsInShape, InShape
  <2>3. QED
    BY <2>1, <2>2, WindowMoves DEF AskerOwes
<1>4. QED
  BY <1>2, <1>3 DEF AskerOwes, Window

LEMMA RunMoves ==
  ASSUME Typed, NEW v \in Slots, run'[v] = run[v], seen'[v] = seen[v],
         NEW c, NEW d \in 1..Days, RunOwes(v, c, d)
  PROVE  RunOwes(v, c, d)' \/ Outran(d, past')
<1>1. run[v].pay \in Payload /\ run[v].pay \in UnderWay
  BY RunsTyped DEF RunType, UnderWay, RunOwes
<1>2. d \in DaysLeft(run[v].pay, past') \/ Outran(d, past')
  BY <1>1, WindowMoves DEF RunOwes
<1>3. ChunkEnd(v)' = ChunkEnd(v) /\ LastChunk(v)' = LastChunk(v)
  BY DEF ChunkEnd, LastChunk
<1>4. d \in LeftOfChunk(v) => d \in LeftOfChunk(v)' \/ Outran(d, past')
  <2>1. SUFFICES ASSUME d \in LeftOfChunk(v), ~Outran(d, past')
                 PROVE  d \in LeftOfChunk(v)'
    OBVIOUS
  <2>2. CASE d <= ChunkEnd(v)
    BY <1>3, <2>1, <2>2 DEF LeftOfChunk
  <2>3. CASE ~(d <= ChunkEnd(v))
    <3>1. LastChunk(v) /\ Clears(ChunkEnd(v), past) /\ ChunkEnd(v) = WindowDays(run[v].pay)
      BY <2>1, <2>3 DEF LeftOfChunk, LastChunk
    <3>2. ChunkEnd(v) < d
      BY <2>3, RunsTyped, ConstantsAssumption
    <3>3. Clears(ChunkEnd(v), past')
      BY <1>1, <2>1, <3>1, <3>2 DEF Outran
    <3>4. QED
      BY <1>3, <2>1, <3>1, <3>3 DEF LeftOfChunk
  <2>4. QED
    BY <2>2, <2>3
<1>5. QED
  BY <1>2, <1>3, <1>4 DEF RunOwes, Window

\* What the others owe, a rebuild's step leaves; its own job waits for nobody.
LEMMA OthersOwe ==
  ASSUME Typed, RunsInShape, NEW w \in Slots, run[w].pc # "idle",
         \A v \in Slots \ {w} : run'[v] = run[v] /\ seen'[v] = seen[v],
         \A a \in Askers \ {w} : enq'[a] = enq[a],
         \A id \in Ids \ {run[w].id} : jobs'[id] = jobs[id],
         NEW c, NEW d \in 1..Days, Obliged(c, d)
  PROVE  Obliged(c, d)' \/ AskerOwes(w, d) \/ RunOwes(w, c, d) \/ Outran(d, past')
<1>1. CASE QueueOwes(d)
  <2>1. PICK id \in Ids : Waits(id) /\ d \in Window(jobs[id].pay)
    BY <1>1 DEF QueueOwes
  <2>2. id # run[w].id
    BY <2>1, ConstantsAssumption DEF Waits, Typed, HoldsJobs
  <2>3. jobs'[id] = jobs[id] /\ Waits(id)'
    BY <2>1, <2>2 DEF Waits
  <2>4. QED
    BY <2>1, <2>3, JobMoves DEF Obliged
<1>2. ASSUME NEW a \in Askers, AskerOwes(a, d), a # w
      PROVE  Obliged(c, d)' \/ Outran(d, past')
  <2>1. enq'[a] = enq[a] /\ (a \in Slots => run'[a] = run[a])
    BY <1>2
  <2>2. QED
    BY <1>2, <2>1, AskMoves DEF Obliged
<1>3. ASSUME NEW v \in Slots, RunOwes(v, c, d), v # w
      PROVE  Obliged(c, d)' \/ Outran(d, past')
  BY <1>3, RunMoves DEF Obliged
<1>4. QED
  BY <1>1, <1>2, <1>3 DEF Obliged

\* What the others owe, an ask's step leaves, the queue apart.
LEMMA OthersOweToo ==
  ASSUME Typed, RunsInShape, NEW a \in Askers, UNCHANGED <<run, seen>>,
         \A b \in Askers \ {a} : enq'[b] = enq[b],
         NEW c, NEW d \in 1..Days, Obliged(c, d)
  PROVE  Obliged(c, d)' \/ AskerOwes(a, d) \/ QueueOwes(d) \/ Outran(d, past')
<1>1. \A b \in Askers \ {a} : AskerOwes(b, d) => AskerOwes(b, d)' \/ Outran(d, past')
  BY AskMoves
<1>2. \A v \in Slots : RunOwes(v, c, d) => RunOwes(v, c, d)' \/ Outran(d, past')
  BY RunMoves
<1>3. QED
  BY <1>1, <1>2 DEF Obliged

\* A step keeps a day if what its rebuild owed goes on being owed or is let go of.
LEMMA StepKeeps ==
  ASSUME RebuildInv, NEW w \in Slots, run[w].pc # "idle",
         \A v \in Slots \ {w} : run'[v] = run[v] /\ seen'[v] = seen[v],
         \A a \in Askers \ {w} : enq'[a] = enq[a],
         \A id \in Ids \ {run[w].id} : jobs'[id] = jobs[id],
         UNCHANGED <<reach, past, row>>, missed \subseteq missed',
         NEW c \in Causes, NEW d \in 1..Days,
         Stale(c, d) /\ (AskerOwes(w, d) \/ RunOwes(w, c, d)) =>
           <<c, d>> \in missed' \/ Obliged(c, d)'
  PROVE  Kept(c, d)'
<1>1. Stale(c, d)' = Stale(c, d)
  BY StaleStays
<1>2. Obliged(c, d) => Obliged(c, d)' \/ AskerOwes(w, d) \/ RunOwes(w, c, d)
  BY OthersOwe, NoneOutran DEF RebuildInv
<1>3. QED
  BY <1>1, <1>2 DEF RebuildInv, OwedInv, Kept

\* Before a rebuild hands over, it asks for nothing.
LEMMA AsksOnlyToHandOver ==
  ASSUME RebuildInv, NEW w \in Slots, run[w].pc \notin {"skip", "behind"}, NEW d
  PROVE  ~AskerOwes(w, d)
BY DEF RebuildInv, RunsInShape, InShape, AskerOwes

\* What a rebuild or its ask owes is left of its payload.
LEMMA OwnWindow ==
  ASSUME RebuildInv, NEW w \in Slots, NEW c, NEW d \in 1..Days,
         AskerOwes(w, d) \/ RunOwes(w, c, d)
  PROVE  d \in Window(run[w].pay)
BY DEF AskerOwes, RunOwes

LEMMA TakeLockKeeps ==
  ASSUME RebuildInv, NEW w \in Slots, TakeLock(w), NEW c \in Causes, NEW d \in 1..Days
  PROVE  Kept(c, d)'
<1>1. run[w] \in RunType /\ run[w].pay \in Payload /\ run \in [Slots -> RunType]
  BY RunsTyped DEF RebuildInv, RunType, Typed, TypeOK
<1>2. CASE Goto(w, "chunk")
  <2>1. run'[w].pc = "chunk" /\ run'[w].pay = run[w].pay /\ \A v \in Slots \ {w} : run'[v] = run[v]
    BY <1>1, <1>2 DEF Goto, RunType
  <2>2. RunOwes(w, c, d) => RunOwes(w, c, d)'
    BY <2>1 DEF RunOwes, TakeLock, Window
  <2>3. QED
    BY <2>1, <2>2, StepKeeps, AsksOnlyToHandOver DEF TakeLock, Obliged
<1>3. CASE run' = [run EXCEPT ![w].pc = "phases", ![w].pay.resume = FALSE, ![w].pay.at = 0]
  <2>1. /\ run'[w].pc = "phases" /\ run'[w].pay.from = run[w].pay.from
        /\ run'[w].pay.look = run[w].pay.look /\ ~run'[w].pay.resume
        /\ \A v \in Slots \ {w} : run'[v] = run[v]
    BY <1>1, <1>3 DEF RunType, Payload
  <2>2. d \in Window(run[w].pay) => d \in Window(run[w].pay)'
    <3>1. WindowDays(run'[w].pay) = WindowDays(run[w].pay) /\ WindowDays(run[w].pay) \in 1..Days
      BY <1>1, <2>1, PayloadsTyped DEF WindowDays
    <3>2. Walked(run'[w].pay) = 0 /\ past' = past
      BY <2>1 DEF Walked, TakeLock
    <3>3. QED
      BY <3>1, <3>2, ConstantsAssumption DEF Window, DaysLeft
  <2>3. RunOwes(w, c, d) => RunOwes(w, c, d)'
    BY <2>1, <2>2 DEF RunOwes, TakeLock
  <2>4. QED
    BY <2>1, <2>3, StepKeeps, AsksOnlyToHandOver DEF TakeLock, Obliged
<1>4. QED
  BY <1>2, <1>3 DEF TakeLock

LEMMA HeldKeeps ==
  ASSUME RebuildInv, NEW w \in Slots, LockHeld(w) \/ RollupLockHeld(w),
         NEW c \in Causes, NEW d \in 1..Days
  PROVE  Kept(c, d)'
<1>1. /\ run[w] \in RunType /\ run[w].pay \in Payload /\ run \in [Slots -> RunType]
      /\ enq \in [Askers -> EnqType] /\ w \in Askers
  BY RunsTyped DEF RebuildInv, RunType, Typed, TypeOK, Askers
<1>2. /\ run[w].pc \in {"lock", "chunk"}
      /\ \E pc \in {"skip", "behind"} : run' = [run EXCEPT ![w].pc = pc]
      /\ enq' = [enq EXCEPT ![w] = Asking("retry", Ask(run[w].pay.from, run[w].pay.look))]
      /\ UNCHANGED <<reach, past, row, jobs, lock, rollup, seen, missed, spent>>
  BY DEF LockHeld, RollupLockHeld, ScheduleLockHeldRetry, Goto, MoreDays
<1>3. run'[w].pay = run[w].pay /\ \A v \in Slots \ {w} : run'[v] = run[v]
  BY <1>1, <1>2 DEF RunType
<1>4. enq'[w].pc = "look" /\ enq'[w].pay = Ask(run[w].pay.from, run[w].pay.look)
  BY <1>1, <1>2 DEF Asking, NotAsking
<1>5. RunOwes(w, c, d) => AskerOwes(w, d)'
  <2>1. d \in DaysLeft(run[w].pay, past) => d \in DaysLeft(Ask(run[w].pay.from, run[w].pay.look), past)
    BY <1>1, AskWindow
  <2>2. QED
    BY <1>2, <1>3, <1>4, <2>1 DEF RunOwes, AskerOwes, Window
<1>6. QED
  BY <1>1, <1>2, <1>3, <1>5, StepKeeps, AsksOnlyToHandOver DEF Obliged

LEMMA SaveKeeps ==
  ASSUME RebuildInv, NEW w \in Slots, SaveStart(w) \/ SaveChunk(w),
         NEW c \in Causes, NEW d \in 1..Days
  PROVE  Kept(c, d)'
<1>1. /\ run[w] \in RunType /\ run[w].pay \in Payload /\ run \in [Slots -> RunType]
      /\ run[w].pc \in {"start", "mark"}
  BY RunsTyped DEF RebuildInv, RunType, Typed, TypeOK, SaveStart, SaveChunk
<1>2. PICK at : /\ Save(w, at)
                /\ (at = 0 /\ run[w].pc = "start") \/ (at = ChunkEnd(w) /\ run[w].pc = "mark")
  BY DEF SaveStart, SaveChunk
<1>3. /\ run'[w].pc = "chunk" /\ run'[w].pay = [run[w].pay EXCEPT !.resume = TRUE, !.at = at]
      /\ \A v \in Slots \ {w} : run'[v] = run[v]
  BY <1>1, <1>2 DEF Save, RunType, Payload
<1>4. RunOwes(w, c, d) =>
        /\ at < d /\ at < WindowDays(run[w].pay)
        /\ d <= WindowDays(run[w].pay) \/ Clears(WindowDays(run[w].pay), past)
  <2>1. /\ WindowDays(run[w].pay) \in 1..Days /\ ChunkEnd(w) \in 0..Days
        /\ ChunkEnd(w) <= WindowDays(run[w].pay)
    BY RunsTyped DEF RebuildInv
  <2>2. CASE run[w].pc = "start"
    BY <1>2, <2>1, <2>2, ConstantsAssumption DEF RunOwes, Window, DaysLeft
  <2>3. CASE run[w].pc = "mark"
    <3>1. RunOwes(w, c, d) => ChunkEnd(w) < d /\ ChunkEnd(w) # WindowDays(run[w].pay)
      BY <2>3 DEF RunOwes, LastChunk
    <3>2. QED
      BY <1>2, <2>1, <2>3, <3>1, ConstantsAssumption DEF RunOwes, Window, DaysLeft
  <2>4. QED
    BY <1>1, <2>2, <2>3
<1>5. RunOwes(w, c, d) => RunOwes(w, c, d)'
  <2>1. run'[w].pay.resume /\ run'[w].pay.at = at /\ WindowDays(run'[w].pay) = WindowDays(run[w].pay)
    BY <1>1, <1>3 DEF Payload, WindowDays
  <2>2. past' = past
    BY DEF SaveStart, SaveChunk
  <2>3. QED
    BY <1>3, <1>4, <2>1, <2>2 DEF RunOwes, Window, DaysLeft, Walked
<1>6. \A id \in Ids \ {run[w].id} : jobs'[id] = jobs[id]
  BY <1>2 DEF Save, RebuildInv, Typed, TypeOK
<1>7. QED
  BY <1>1, <1>3, <1>5, <1>6, StepKeeps, AsksOnlyToHandOver DEF SaveStart, SaveChunk, Obliged

LEMMA ReadsKeeps ==
  ASSUME RebuildInv, NEW w \in Slots, RollupReads(w), NEW c \in Causes, NEW d \in 1..Days
  PROVE  Kept(c, d)'
<1>1. /\ run[w] \in RunType /\ run[w].pay.at \in 0..Days /\ run \in [Slots -> RunType]
      /\ seen \in [Rollers -> SUBSET Causes] /\ w \in Rollers /\ run[w].pc = "chunk"
  BY RunsTyped DEF RebuildInv, RunType, Typed, TypeOK, Rollers, RollupReads, MoreDays
<1>2. /\ run'[w].pc = "write" /\ run'[w].pay = run[w].pay /\ run'[w].day = run[w].pay.at + 1
      /\ seen'[w] = Happened
      /\ \A v \in Slots \ {w} : run'[v] = run[v] /\ seen'[v] = seen[v]
  BY <1>1 DEF RollupReads, RunType, Rollers
<1>3. Stale(c, d) => c \in Happened
  BY DEF Stale, Happened, RebuildInv, Typed, TypeOK
<1>4. /\ ChunkEnd(w)' = ChunkEnd(w) /\ LastChunk(w)' = LastChunk(w) /\ past' = past
      /\ ChunkEnd(w) \in 0..Days
  BY <1>2, RunsTyped DEF ChunkEnd, LastChunk, RollupReads, RebuildInv
<1>5. RunOwes(w, c, d) =>
        /\ run[w].pay.at < d
        /\ d <= WindowDays(run[w].pay) \/ Clears(WindowDays(run[w].pay), past)
        /\ d \in Window(run[w].pay)
  BY <1>1 DEF RunOwes, Window, DaysLeft, Walked, RebuildInv, RunsInShape, InShape
<1>6. RunOwes(w, c, d) => d \in LeftOfChunk(w)' \/ (ChunkEnd(w) < d /\ ~LastChunk(w))
  <2>1. SUFFICES ASSUME RunOwes(w, c, d) PROVE d \in LeftOfChunk(w)' \/ (ChunkEnd(w) < d /\ ~LastChunk(w))
    OBVIOUS
  <2>2. run'[w].day <= d
    BY <1>1, <1>2, <1>5, <2>1
  <2>3. CASE d <= ChunkEnd(w)
    BY <1>4, <2>2, <2>3 DEF LeftOfChunk
  <2>4. CASE ChunkEnd(w) < d /\ LastChunk(w)
    <3>1. Clears(ChunkEnd(w), past)
      <4>1. ChunkEnd(w) = WindowDays(run[w].pay) /\ ~(d <= ChunkEnd(w))
        BY <1>4, <2>4, ConstantsAssumption DEF LastChunk
      <4>2. QED
        BY <1>5, <2>1, <4>1
    <3>2. QED
      BY <1>4, <2>2, <2>4, <3>1 DEF LeftOfChunk
  <2>5. QED
    BY <1>4, <2>3, <2>4, ConstantsAssumption
<1>7. Stale(c, d) /\ RunOwes(w, c, d) => RunOwes(w, c, d)'
  BY <1>2, <1>3, <1>4, <1>5, <1>6 DEF RunOwes, Window
<1>8. QED
  BY <1>1, <1>2, <1>7, StepKeeps, AsksOnlyToHandOver DEF RollupReads, Obliged

\* A lookback narrowed to the history leaves nothing out: the walk ends past the
\* earliest record and clears what lies beyond.
LEMMA NarrowingKeeps ==
  ASSUME NEW p \in Payload, NEW q \in Payload, ~p.resume, ~q.resume, past \in 0..Days,
         q.look = p.look \/ q.look = Bounded(p.look, past), q.from = p.from
  PROVE  DaysLeft(p, past) \subseteq DaysLeft(q, past)
BY ConstantsAssumption
   DEF DaysLeft, Walked, WindowDays, Clears, Bounded, LesserOf, Payload, Whole

\* Phases that change r days leave a rebuild that covers them as far as its
\* lookback went, and what it covered before, but for what a record put before
\* the end of its walk keeps it from clearing.
LEMMA ShiftKeeps ==
  ASSUME NEW p \in Payload, NEW q \in Payload, ~p.resume, ~q.resume, past \in 0..Days,
         NEW r \in 1..Days, NEW first \in Earliest(r),
         q.look = Bounded(p.look, first), p.from <= q.from, r <= q.from, NEW d \in 1..Days
  PROVE  /\ d <= r /\ d <= p.look => d \in DaysLeft(q, first)
         /\ d \in DaysLeft(p, past) =>
              \/ d \in DaysLeft(q, first)
              \/ d <= r /\ p.look < d
              \/ r < d /\ Clears(WindowDays(p), past) /\ ~Clears(WindowDays(p), first)
<1>1. first \in 0..Days /\ (r < past => first = past) /\ (~(r < past) => first <= r)
  BY ConstantsAssumption DEF Earliest
<1>2. /\ p.look \in 1..Days /\ q.look \in 1..Days /\ p.from \in Nat /\ q.from \in Nat
      /\ p.from >= 1 /\ q.from >= 1
  BY ConstantsAssumption DEF Payload, Whole
<1>3. q.look = (IF p.look <= first + 1 THEN p.look ELSE first + 1)
  BY DEF Bounded, LesserOf
<1>4. /\ WindowDays(p) = (IF p.look <= p.from THEN p.look ELSE p.from)
      /\ WindowDays(q) = (IF q.look <= q.from THEN q.look ELSE q.from)
      /\ Walked(p) = 0 /\ Walked(q) = 0
  BY DEF WindowDays, LesserOf, Walked
<1>5. d <= r /\ d <= p.look => d \in DaysLeft(q, first)
  BY <1>1, <1>2, <1>3, <1>4, ConstantsAssumption DEF DaysLeft, Clears
<1>6. d \in DaysLeft(p, past) =>
        \/ d \in DaysLeft(q, first)
        \/ d <= r /\ p.look < d
        \/ r < d /\ Clears(WindowDays(p), past) /\ ~Clears(WindowDays(p), first)
  BY <1>1, <1>2, <1>3, <1>4, ConstantsAssumption DEF DaysLeft, Clears
<1>7. QED
  BY <1>5, <1>6

LEMMA PhasesKeeps ==
  ASSUME RebuildInv, NEW w \in Slots, RunPhases(w), NEW c \in Causes, NEW d \in 1..Days
  PROVE  Kept(c, d)'
<1>1. /\ run[w].pc = "phases" /\ ~run[w].pay.resume /\ run[w].pay \in Payload
      /\ run[w].pay.look \in 1..Days /\ run[w].pay.from \in 1..Whole /\ past \in 0..Days
      /\ UNCHANGED <<row, jobs, enq, lock, rollup, seen>> /\ Typed
  BY RunsTyped DEF RebuildInv, RunsInShape, InShape, RunType, Payload, Typed, TypeOK, RunPhases
<1>2. ASSUME UNCHANGED <<reach, past, missed>>, NEW look \in 1..Days,
             look = run[w].pay.look \/ look = Bounded(run[w].pay.look, past),
             PhasesLeave(w, look, run[w].pay.from)
      PROVE  Kept(c, d)'
  <2>1. /\ run'[w].pc = "start" /\ run'[w].pay \in Payload /\ run'[w].pay.look = look
        /\ run'[w].pay.from = run[w].pay.from /\ ~run'[w].pay.resume
        /\ \A v \in Slots \ {w} : run'[v] = run[v]
    BY <1>1, <1>2, PhasesMove
  <2>2. DaysLeft(run[w].pay, past) \subseteq DaysLeft(run'[w].pay, past)
    BY <1>1, <1>2, <2>1, NarrowingKeeps
  <2>3. RunOwes(w, c, d) => RunOwes(w, c, d)'
    BY <1>2, <2>1, <2>2 DEF RunOwes, Window
  <2>4. QED
    BY <1>1, <1>2, <2>1, <2>3, StepKeeps, AsksOnlyToHandOver DEF Obliged
<1>3. ASSUME NEW r \in 1..Days, NEW known \in BOOLEAN, NEW first \in Earliest(r),
             reach[Phases] = 0,
             reach' = [reach EXCEPT ![Phases] = r],
             past' = first,
             PhasesLeave(w, Bounded(run[w].pay.look, first),
                         IF known THEN MergeFromDay(run[w].pay.from, r) ELSE Whole),
             missed' = missed \cup Beyond(run[w].pay.look, r)
                      \cup {m \in Causes \X Outrun(r, first) : Stale(m[1], m[2])}
      PROVE  Kept(c, d)'
  <2> DEFINE from == IF known THEN MergeFromDay(run[w].pay.from, r) ELSE Whole
  <2>1. first \in 0..Days /\ Bounded(run[w].pay.look, first) \in 1..Days
    BY <1>1, EarliestTyped, BoundedTyped
  <2>2. from \in 1..Whole /\ run[w].pay.from <= from /\ r <= from
    BY <1>1, ConstantsAssumption DEF MergeFromDay, GreaterOf, Whole
  <2>3. /\ run'[w].pc = "start" /\ run'[w].pay \in Payload
        /\ run'[w].pay.look = Bounded(run[w].pay.look, first)
        /\ run'[w].pay.from = from /\ ~run'[w].pay.resume
        /\ \A v \in Slots \ {w} : run'[v] = run[v]
    BY <1>1, <1>3, <2>1, <2>2, PhasesMove
  <2> HIDE DEF from
  <2>4. /\ d <= r /\ d <= run[w].pay.look => d \in DaysLeft(run'[w].pay, first)
        /\ d \in DaysLeft(run[w].pay, past) =>
             \/ d \in DaysLeft(run'[w].pay, first)
             \/ d <= r /\ run[w].pay.look < d
             \/ /\ r < d /\ Clears(WindowDays(run[w].pay), past)
                /\ ~Clears(WindowDays(run[w].pay), first)
    BY <1>1, <2>2, <2>3, ShiftKeeps
  <2>5. d \in DaysLeft(run'[w].pay, first) => Obliged(c, d)'
    BY <1>3, <2>3 DEF RunOwes, Window, Obliged
  <2>6. d <= r /\ run[w].pay.look < d /\ (c = Phases \/ Stale(c, d)) => <<c, d>> \in missed'
    BY <1>3 DEF Beyond
  <2>7. CASE c = Phases
    <3>1. Stale(c, d)' => d <= r
      BY <1>3, <2>7 DEF Stale, RebuildInv, Typed, TypeOK
    <3>2. QED
      BY <1>1, <2>4, <2>5, <2>6, <2>7, <3>1 DEF Kept
  <2>8. CASE c # Phases
    <3>1. Stale(c, d)' = Stale(c, d)
      BY <1>1, <1>3, <2>8 DEF Stale, RebuildInv, Typed, TypeOK
    <3>2. Obliged(c, d) => Obliged(c, d)' \/ RunOwes(w, c, d) \/ Outran(d, first)
      <4>1. ~AskerOwes(w, d)
        BY <1>1, AsksOnlyToHandOver
      <4>2. QED
        BY <1>1, <1>3, <2>3, <4>1, OthersOwe DEF RebuildInv
    <3>3. Stale(c, d) /\ d \in Outrun(r, first) => <<c, d>> \in missed'
      BY <1>3
    <3>4. r < d /\ Outran(d, first) => d \in Outrun(r, first)
      BY DEF Outran, Outrun
    <3>5. ASSUME Stale(c, d), RunOwes(w, c, d)
          PROVE  <<c, d>> \in missed' \/ Obliged(c, d)'
      <4>1. d \in DaysLeft(run[w].pay, past) /\ run[w].pay \in UnderWay
        BY <1>1, <3>5 DEF RunOwes, Window, UnderWay
      <4>2. ASSUME r < d, Clears(WindowDays(run[w].pay), past),
                   ~Clears(WindowDays(run[w].pay), first)
            PROVE  d \in Outrun(r, first)
        BY <4>1, <4>2 DEF Outrun
      <4>3. QED
        BY <2>4, <2>5, <2>6, <3>3, <3>5, <4>1, <4>2
    <3>6. ASSUME Stale(c, d), Outran(d, first)
          PROVE  <<c, d>> \in missed' \/ Obliged(c, d)'
      BY <1>1, <2>4, <2>5, <2>6, <3>3, <3>4, <3>6
    <3>7. QED
      BY <1>3, <3>1, <3>2, <3>5, <3>6 DEF RebuildInv, OwedInv, Kept
  <2>9. QED
    BY <2>7, <2>8
<1>4. QED
  BY <1>1, <1>2, <1>3, PhasesCases, BoundedTyped

\* What a chunk's end leaves owed: the days beyond it.
LEMMA LeaveOwes ==
  ASSUME RebuildInv, NEW w \in Slots, run[w].pc = "write", LeaveChunk(w), UNCHANGED past
  PROVE  /\ run'[w].pc = "mark" /\ run'[w].pay = run[w].pay
         /\ \A v \in Slots \ {w} : run'[v] = run[v] /\ seen'[v] = seen[v]
         /\ \A c, d : d \in Window(run[w].pay) /\ ChunkEnd(w) < d /\ ~LastChunk(w) =>
              RunOwes(w, c, d)'
<1>1. /\ run[w] \in RunType /\ run \in [Slots -> RunType]
      /\ seen \in [Rollers -> SUBSET Causes] /\ \A v \in Slots : v \in Rollers
  BY RunsTyped DEF RebuildInv, Typed, TypeOK, Rollers
<1>2. /\ run'[w].pc = "mark" /\ run'[w].pay = run[w].pay
      /\ \A v \in Slots \ {w} : run'[v] = run[v] /\ seen'[v] = seen[v]
  BY <1>1 DEF LeaveChunk, RunType
<1>3. ChunkEnd(w)' = ChunkEnd(w) /\ LastChunk(w)' = LastChunk(w)
  BY <1>2 DEF ChunkEnd, LastChunk
<1>4. QED
  BY <1>2, <1>3 DEF RunOwes, Window

\* A rebuild in the middle of a chunk owes what it has seen the change for and
\* not written, and the days beyond the chunk.
LEMMA ChunkOwes ==
  ASSUME RebuildInv, NEW w \in Slots, run[w].pc = "write", NEW c, NEW d \in 1..Days,
         AskerOwes(w, d) \/ RunOwes(w, c, d)
  PROVE  /\ d \in Window(run[w].pay)
         /\ \/ c \in seen[w] /\ d \in LeftOfChunk(w)
            \/ ChunkEnd(w) < d /\ ~LastChunk(w)
<1>1. RunOwes(w, c, d)
  BY AsksOnlyToHandOver
<1>2. QED
  BY <1>1 DEF RunOwes

\* A statement leaves of its chunk what it has not touched.
LEMMA StatementLeaves ==
  ASSUME RebuildInv, NEW w \in Slots, run[w].pc = "write", NEW d \in 1..Days,
         d \in LeftOfChunk(w), d \notin Touched(w)
  PROVE  run[w].day < d /\ run[w].day # LastStatement(w)
<1>1. /\ run[w].day \in 1..Whole /\ ChunkEnd(w) \in 0..Days /\ run[w].day <= d
      /\ run[w].day <= LastStatement(w)
  BY RunsTyped DEF RebuildInv, RunsInShape, InShape, InChunk, RunType, LeftOfChunk
<1>2. run[w].day <= ChunkEnd(w) /\ d # run[w].day
  BY DEF Touched
<1>3. run[w].day < d
  BY <1>1, <1>2, ConstantsAssumption DEF Whole
<1>4. ASSUME run[w].day = LastStatement(w)
      PROVE  FALSE
  <2>1. ~LastChunk(w) /\ run[w].day = ChunkEnd(w)
    BY <1>1, <1>2, <1>4, ConstantsAssumption DEF LastStatement
  <2>2. QED
    BY <1>1, <1>3, <2>1, ConstantsAssumption DEF LeftOfChunk
<1>5. QED
  BY <1>3, <1>4

LEMMA WritesKeeps ==
  ASSUME RebuildInv, NEW w \in Slots, RollupWrites(w), NEW c \in Causes, NEW d \in 1..Days
  PROVE  Kept(c, d)'
<1>1. /\ run[w] \in RunType /\ run \in [Slots -> RunType] /\ run[w].pc = "write"
      /\ w \in Rollers /\ rollup = w
  BY RunsTyped DEF RebuildInv, Typed, TypeOK, Rollers, RollupWrites
<1>2. /\ row'[d] = IF d \in Touched(w) THEN seen[w] ELSE row[d]
      /\ missed' = Healed(Touched(w), w)
      /\ UNCHANGED <<reach, past, jobs, enq, lock, spent>>
  BY DEF RollupWrites, WriteDay
<1>3. row[d] \subseteq seen[w]
  BY <1>1 DEF RebuildInv, RowInv, HolderReadLast
<1>4. Stale(c, d)' => Stale(c, d) /\ (d \in Touched(w) => c \notin seen[w])
  BY <1>2, <1>3 DEF Stale
<1>5. Stale(c, d)' /\ <<c, d>> \in missed => <<c, d>> \in missed'
  BY <1>2, <1>4 DEF Healed
<1>6. \A v \in Slots \ {w} : run'[v] = run[v] /\ seen'[v] = seen[v]
  <2>1. CASE run[w].day = LastStatement(w)
    BY <1>1, <1>2, <2>1, LeaveOwes DEF RollupWrites, WriteDay
  <2>2. CASE run[w].day # LastStatement(w)
    BY <1>1, <2>2 DEF RollupWrites, WriteDay
  <2>3. QED
    BY <2>1, <2>2
<1>7. ASSUME Stale(c, d)', AskerOwes(w, d) \/ RunOwes(w, c, d)
      PROVE  RunOwes(w, c, d)'
  <2>1. /\ d \in Window(run[w].pay)
        /\ \/ c \in seen[w] /\ d \in LeftOfChunk(w) /\ d \notin Touched(w)
           \/ ChunkEnd(w) < d /\ ~LastChunk(w)
    BY <1>1, <1>4, <1>7, ChunkOwes
  <2>2. CASE run[w].day = LastStatement(w)
    <3>1. ChunkEnd(w) < d /\ ~LastChunk(w)
      BY <1>1, <2>1, <2>2, StatementLeaves
    <3>2. LeaveChunk(w)
      BY <2>2 DEF RollupWrites, WriteDay
    <3>3. QED
      BY <1>1, <1>2, <2>1, <3>1, <3>2, LeaveOwes
  <2>3. CASE run[w].day # LastStatement(w)
    <3>1. /\ run'[w].pc = "write" /\ run'[w].pay = run[w].pay /\ run'[w].day = run[w].day + 1
          /\ seen' = seen
      BY <1>1, <2>3 DEF RollupWrites, WriteDay, RunType
    <3>2. ChunkEnd(w)' = ChunkEnd(w) /\ LastChunk(w)' = LastChunk(w)
      BY <3>1 DEF ChunkEnd, LastChunk
    <3>3. d \in LeftOfChunk(w) /\ d \notin Touched(w) => d \in LeftOfChunk(w)'
      <4>1. run[w].day \in Nat
        BY <1>1, ConstantsAssumption DEF RunType, Whole
      <4>2. d \in LeftOfChunk(w) /\ d \notin Touched(w) => run[w].day + 1 <= d
        BY <1>1, <4>1, StatementLeaves
      <4>3. QED
        BY <1>2, <3>1, <3>2, <4>2 DEF LeftOfChunk
    <3>4. QED
      BY <1>2, <2>1, <3>1, <3>2, <3>3 DEF RunOwes, Window
  <2>4. QED
    BY <2>2, <2>3
<1>8. Obliged(c, d) => Obliged(c, d)' \/ AskerOwes(w, d) \/ RunOwes(w, c, d)
  BY <1>1, <1>2, <1>6, OthersOwe, NoneOutran DEF RebuildInv
<1>9. QED
  BY <1>4, <1>5, <1>7, <1>8 DEF RebuildInv, OwedInv, Kept, Obliged

LEMMA WritesLateKeeps ==
  ASSUME RebuildInv, NEW w \in Slots, RollupWritesLate(w), NEW c \in Causes, NEW d \in 1..Days
  PROVE  Kept(c, d)'
<1>1. run[w].pc = "write" /\ LeaveChunk(w)
  BY DEF RollupWritesLate
<1>2. /\ row'[d] = IF d \in Touched(w) THEN seen[w] ELSE row[d]
      /\ Healed(Touched(w), w) \subseteq missed' /\ Unseen(w) \subseteq missed'
      /\ d \in LeftOfChunk(w) \ Touched(w) /\ Stale(c, d) => <<c, d>> \in missed'
      /\ UNCHANGED <<reach, past, jobs, enq, lock, spent>>
  BY DEF RollupWritesLate
<1>3. CASE d \in Touched(w)
  <2>1. Stale(c, d)' => <<c, d>> \in Unseen(w)
    BY <1>2, <1>3 DEF Stale, Unseen
  <2>2. QED
    BY <1>2, <2>1 DEF Kept
<1>4. CASE d \notin Touched(w)
  <2>1. Stale(c, d)' = Stale(c, d)
    BY <1>2, <1>4 DEF Stale
  <2>2. <<c, d>> \in missed => <<c, d>> \in missed'
    BY <1>2, <1>4 DEF Healed
  <2>3. Obliged(c, d) => Obliged(c, d)' \/ AskerOwes(w, d) \/ RunOwes(w, c, d)
    BY <1>1, <1>2, LeaveOwes, OthersOwe, NoneOutran DEF RebuildInv
  <2>4. ASSUME Stale(c, d), AskerOwes(w, d) \/ RunOwes(w, c, d)
        PROVE  <<c, d>> \in missed' \/ RunOwes(w, c, d)'
    BY <1>1, <1>2, <1>4, <2>4, ChunkOwes, LeaveOwes
  <2>5. QED
    BY <2>1, <2>2, <2>3, <2>4 DEF RebuildInv, OwedInv, Kept, Obliged
<1>5. QED
  BY <1>3, <1>4

LEMMA BreaksKeeps ==
  ASSUME RebuildInv, NEW w \in Slots, RollupBreaks(w), NEW c \in Causes, NEW d \in 1..Days
  PROVE  Kept(c, d)'
<1>1. run[w].pc = "write" /\ LeaveChunk(w) /\ UNCHANGED <<reach, past, row, jobs, enq, lock>>
  BY DEF RollupBreaks
<1>2. missed \subseteq missed' /\ (d \in LeftOfChunk(w) /\ Stale(c, d) => <<c, d>> \in missed')
  BY MissesKeeps DEF RollupBreaks
<1>3. ASSUME Stale(c, d), AskerOwes(w, d) \/ RunOwes(w, c, d)
      PROVE  <<c, d>> \in missed' \/ RunOwes(w, c, d)'
  BY <1>1, <1>2, <1>3, ChunkOwes, LeaveOwes
<1>4. QED
  BY <1>1, <1>2, <1>3, LeaveOwes, StepKeeps DEF Obliged

LEMMA FailKeeps ==
  ASSUME RebuildInv, NEW w \in Slots, run[w].pc # "idle", Fail(w), UNCHANGED <<reach, past, row>>,
         NEW c \in Causes, NEW d \in 1..Days
  PROVE  Kept(c, d)'
<1>1. /\ run[w].id \in Ids /\ run \in [Slots -> RunType] /\ enq \in [Askers -> EnqType]
      /\ jobs \in [Ids -> Entry] /\ seen \in [Rollers -> SUBSET Causes]
      /\ \A v \in Slots : v \in Rollers
  BY DEF RebuildInv, Typed, TypeOK, HoldsJobs, Rollers
<1>2. /\ \A v \in Slots \ {w} : run'[v] = run[v] /\ seen'[v] = seen[v]
      /\ \A a \in Askers \ {w} : enq'[a] = enq[a]
      /\ \A id \in Ids \ {run[w].id} : jobs'[id] = jobs[id]
  BY <1>1 DEF Fail
<1> DEFINE entry == jobs[run[w].id]
           dead == entry.made + 1 >= Attempts
           days == IF dead THEN Window(run[w].pay) \cup Window(entry.pay)
                   ELSE Window(run[w].pay) \ Window(entry.pay)
<1>3. Misses(days)
  BY DEF Fail
<1>4. missed \subseteq missed' /\ (d \in days /\ Stale(c, d) => <<c, d>> \in missed')
  <2> HIDE DEF days
  <2> QED
    BY <1>3, MissesKeeps
<1>5. ASSUME d \in Window(run[w].pay), d \notin days
      PROVE  QueueOwes(d)'
  <2>1. ~dead /\ d \in Window(entry.pay)
    BY <1>5
  <2>2. jobs'[run[w].id] = [Pending(entry.pay) EXCEPT !.made = entry.made + 1]
    BY <1>1, <2>1 DEF Fail
  <2>3. jobs'[run[w].id].st = "pending" /\ jobs'[run[w].id].pay = entry.pay
    BY <2>2 DEF Pending
  <2>4. QED
    BY <1>1, <2>1, <2>3 DEF QueueOwes, Waits, Window
<1>6. Stale(c, d) /\ (AskerOwes(w, d) \/ RunOwes(w, c, d)) => <<c, d>> \in missed' \/ Obliged(c, d)'
  <2> HIDE DEF days
  <2> QED
    BY <1>4, <1>5, OwnWindow DEF Obliged
<1>7. QED
  BY <1>2, <1>4, <1>6, StepKeeps

LEMMA MemoryKeeps ==
  ASSUME RebuildInv, NEW w \in Slots, MemoryStop(w), NEW c \in Causes, NEW d \in 1..Days
  PROVE  Kept(c, d)'
<1>1. /\ run[w] \in RunType /\ run \in [Slots -> RunType] /\ enq \in [Askers -> EnqType]
      /\ w \in Askers /\ run[w].pc = "chunk" /\ UNCHANGED <<reach, past, row>>
  BY RunsTyped DEF RebuildInv, Typed, TypeOK, Askers, MemoryStop, MoreDays
<1>2. CASE MayDefer(run[w].id)
  <2>1. /\ run' = [run EXCEPT ![w].pc = "behind"]
        /\ \E id : enq' = [enq EXCEPT ![w] = [NotAsking EXCEPT !.pc = "add", !.id = id,
                                                               !.pay = run[w].pay]]
        /\ UNCHANGED <<jobs, seen, missed>>
    BY <1>2 DEF MemoryStop, Goto
  <2>2. run'[w].pay = run[w].pay /\ \A v \in Slots \ {w} : run'[v] = run[v]
    BY <1>1, <2>1 DEF RunType
  <2>3. /\ enq'[w].pc = "add" /\ enq'[w].pay = run[w].pay
        /\ \A a \in Askers \ {w} : enq'[a] = enq[a]
    BY <1>1, <2>1 DEF NotAsking
  <2>4. RunOwes(w, c, d) => AskerOwes(w, d)'
    BY <1>1, <2>2, <2>3 DEF RunOwes, AskerOwes, Window
  <2>5. QED
    BY <1>1, <2>1, <2>2, <2>3, <2>4, StepKeeps, AsksOnlyToHandOver DEF Obliged
<1>3. CASE ~MayDefer(run[w].id)
  BY <1>1, <1>3, FailKeeps DEF MemoryStop
<1>4. QED
  BY <1>2, <1>3

\* A rebuild that ends has nothing left.
LEMMA FinishKeeps ==
  ASSUME RebuildInv, NEW w \in Slots, Finish(w) \/ Skip(w), NEW c \in Causes, NEW d \in 1..Days
  PROVE  Kept(c, d)'
<1>1. /\ run[w].pc # "idle" /\ UNCHANGED <<reach, past, row>> /\ run[w].id \in Ids
      /\ run \in [Slots -> RunType] /\ jobs \in [Ids -> Entry]
      /\ run[w].pay.at \in 0..Days /\ WindowDays(run[w].pay) \in 1..Days
  BY RunsTyped DEF RebuildInv, Typed, TypeOK, HoldsJobs, Finish, Skip
<1>2. CASE Finish(w) /\ lock # w
  BY <1>1, <1>2, FailKeeps DEF Finish
<1>3. CASE Skip(w) \/ (Finish(w) /\ lock = w)
  <2>1. /\ jobs' = [jobs EXCEPT ![run[w].id] = NoEntry]
        /\ run' = [run EXCEPT ![w] = Idle]
        /\ UNCHANGED <<enq, seen, missed>>
    BY <1>3 DEF Finish, Skip
  <2>2. ~AskerOwes(w, d) /\ ~RunOwes(w, c, d)
    <3>1. CASE run[w].pc = "chunk" /\ ~MoreDays(w)
      <4>1. WindowDays(run[w].pay) <= run[w].pay.at /\ run[w].pay.resume
        BY <1>1, <3>1 DEF MoreDays, RebuildInv, RunsInShape, InShape
      <4>2. d \notin Window(run[w].pay)
        BY <1>1, <4>1 DEF Window, DaysLeft, Walked
      <4>3. QED
        BY <4>2, OwnWindow
    <3>2. CASE run[w].pc \in {"behind", "skip"} /\ enq[w].pc = "off"
      BY <3>2 DEF AskerOwes, RunOwes
    <3>3. QED
      BY <1>3, <3>1, <3>2 DEF Finish, Skip
  <2>3. QED
    BY <1>1, <2>1, <2>2, StepKeeps
<1>4. QED
  BY <1>2, <1>3

LEMMA DieKeeps ==
  ASSUME RebuildInv, NEW w \in Slots, Die(w), NEW c \in Causes, NEW d \in 1..Days
  PROVE  Kept(c, d)'
<1>1. /\ run[w].pc # "idle" /\ UNCHANGED <<reach, past, row>> /\ run[w].id \in Ids
      /\ run \in [Slots -> RunType] /\ jobs \in [Ids -> Entry] /\ enq \in [Askers -> EnqType]
      /\ jobs[run[w].id].st = "active"
  BY DEF RebuildInv, Typed, TypeOK, HoldsJobs, Die
<1>2. /\ \A v \in Slots \ {w} : run'[v] = run[v] /\ seen'[v] = seen[v]
      /\ \A a \in Askers \ {w} : enq'[a] = enq[a]
      /\ \A id \in Ids \ {run[w].id} : jobs'[id] = jobs[id]
  <2>1. \A v \in Slots : v \in Rollers
    BY DEF Rollers
  <2>2. QED
    BY <1>1, <2>1 DEF Die, RebuildInv, Typed, TypeOK
<1>3. /\ missed \subseteq missed'
      /\ d \in Window(run[w].pay) \ Window(jobs[run[w].id].pay) /\ Stale(c, d) =>
           <<c, d>> \in missed'
  BY MissesKeeps DEF Die
<1>4. d \in Window(jobs[run[w].id].pay) => QueueOwes(d)'
  <2>1. /\ jobs'[run[w].id].st = "active" /\ jobs'[run[w].id].holder = Nobody
        /\ jobs'[run[w].id].pay = jobs[run[w].id].pay
    BY <1>1 DEF Die, Entry
  <2>2. QED
    BY <1>1, <2>1 DEF QueueOwes, Waits, Window
<1>5. QED
  BY <1>1, <1>2, <1>3, <1>4, OwnWindow, StepKeeps DEF Obliged

LEMMA PickUpKeeps ==
  ASSUME RebuildInv, NEW w \in Slots, PickUp(w), NEW c \in Causes, NEW d \in 1..Days
  PROVE  Kept(c, d)'
<1>1. PICK id \in Ids :
       /\ jobs[id].st = "pending"
       /\ jobs' = [jobs EXCEPT ![id].st = "active", ![id].holder = w]
       /\ run' = [run EXCEPT ![w].pc = "lock", ![w].id = id, ![w].pay = jobs[id].pay]
  BY DEF PickUp
<1>2. /\ run[w].pc = "idle" /\ UNCHANGED <<reach, past, row, enq, seen, missed>>
      /\ run \in [Slots -> RunType] /\ jobs \in [Ids -> Entry]
  BY DEF PickUp, RebuildInv, Typed, TypeOK
<1>3. /\ run'[w].pc = "lock" /\ run'[w].pay = jobs[id].pay
      /\ \A v \in Slots \ {w} : run'[v] = run[v]
      /\ \A other \in Ids \ {id} : jobs'[other] = jobs[other]
  BY <1>1, <1>2 DEF RunType
<1>4. QueueOwes(d) => QueueOwes(d)' \/ RunOwes(w, c, d)'
  <2>1. d \in Window(jobs[id].pay) => RunOwes(w, c, d)'
    BY <1>2, <1>3 DEF RunOwes, Window
  <2>2. QED
    BY <1>2, <1>3, <2>1 DEF QueueOwes, Waits, Window
<1>5. \A a \in Askers : AskerOwes(a, d) => AskerOwes(a, d)'
  <2>1. ~AskerOwes(w, d)
    BY <1>2, AsksOnlyToHandOver
  <2>2. QED
    BY <1>2, <1>3, <2>1 DEF AskerOwes, Window
<1>6. \A v \in Slots : RunOwes(v, c, d) => RunOwes(v, c, d)'
  <2>1. ~RunOwes(w, c, d)
    BY <1>2 DEF RunOwes
  <2>2. QED
    BY <1>2, <1>3, <2>1 DEF RunOwes, LeftOfChunk, LastChunk, ChunkEnd, Window
<1>7. Stale(c, d)' = Stale(c, d)
  BY <1>2, StaleStays
<1>8. QED
  BY <1>2, <1>4, <1>5, <1>6, <1>7 DEF RebuildInv, OwedInv, Kept, Obliged

\* A rebuild asks for itself alone.
LEMMA RunsAskAlone ==
  ASSUME Typed, NEW w \in Slots, RunStep(w), NEW a \in Askers, a # w
  PROVE  enq'[a] = enq[a]
<1>1. enq \in [Askers -> EnqType]
  BY DEF Typed, TypeOK
<1>2. CASE Fail(w)
  BY <1>1, <1>2 DEF Fail
<1>3. CASE ~Fail(w)
  <2>1. CASE PickUp(w) \/ TakeLock(w) \/ LockHeld(w) \/ RunPhases(w) \/ SaveStart(w)
    BY <1>1, <2>1 DEF PickUp, TakeLock, LockHeld, RunPhases, SaveStart, ScheduleLockHeldRetry
  <2>2. CASE RollupReads(w) \/ RollupWrites(w) \/ RollupWritesLate(w) \/ RollupBreaks(w) \/ SaveChunk(w)
    BY <2>2 DEF RollupReads, RollupWrites, RollupWritesLate, RollupBreaks, SaveChunk
  <2>3. CASE RollupLockHeld(w) \/ MemoryStop(w) \/ Finish(w) \/ Skip(w) \/ AttemptThrows(w) \/ Die(w)
    BY <1>1, <1>3, <2>3 DEF RollupLockHeld, MemoryStop, Finish, Skip, AttemptThrows, Die,
       ScheduleLockHeldRetry
  <2>4. QED
    BY <2>1, <2>2, <2>3 DEF RunStep
<1>4. QED
  BY <1>2, <1>3

\* Only a change, or what a rebuild's phases change, reaches days.
LEMMA ReachesOnce ==
  ASSUME [Next]_vars
  PROVE  UNCHANGED reach \/ (\E x \in Changes : Commit(x)) \/ (\E w \in Slots : RunPhases(w))
<1>1. ASSUME NEW w \in Slots, RunStep(w) PROVE UNCHANGED reach \/ RunPhases(w)
  <2>1. CASE PickUp(w) \/ TakeLock(w) \/ LockHeld(w) \/ SaveStart(w) \/ SaveChunk(w) \/ RollupReads(w)
    BY <2>1 DEF PickUp, TakeLock, LockHeld, SaveStart, SaveChunk, RollupReads
  <2>2. CASE RollupWrites(w) \/ RollupWritesLate(w) \/ RollupBreaks(w) \/ RollupLockHeld(w)
    BY <2>2 DEF RollupWrites, RollupWritesLate, RollupBreaks, RollupLockHeld
  <2>3. CASE MemoryStop(w) \/ Finish(w) \/ Skip(w) \/ AttemptThrows(w) \/ Die(w)
    BY <2>3 DEF MemoryStop, Finish, Skip, AttemptThrows, Die
  <2>4. QED
    BY <1>1, <2>1, <2>2, <2>3 DEF RunStep
<1>2. ASSUME NEW a \in Askers, EnqueueStep(a) \/ EnqueueFails(a) PROVE UNCHANGED reach
  BY <1>2 DEF EnqueueStep, LookAtSlot, ReadPending, WritePending, AddJob, EnqueueFails
<1>3. CASE (\E id \in Ids : ReclaimStalled(id)) \/ LoseSessions \/ CronReads \/ CronWrites \/ UNCHANGED vars
  BY <1>3 DEF ReclaimStalled, LoseSessions, CronReads, CronWrites, vars
<1>4. QED
  BY <1>1, <1>2, <1>3 DEF Next

\* Two asks joined reach at least as far as the one a job waits with.
LEMMA AbsorbsWindow ==
  ASSUME NEW p \in Payload, NEW q \in Payload
  PROVE  \A first \in Nat : DaysLeft(p, first) \subseteq DaysLeft(Absorbed(p, q), first)
<1> USE ConstantsAssumption DEF Payload, Whole
<1>1. /\ Absorbed(p, q).resume = p.resume /\ Absorbed(p, q).at = p.at
      /\ Absorbed(p, q).from \in 1..Whole /\ Absorbed(p, q).look \in 1..Days
      /\ p.from <= Absorbed(p, q).from /\ p.look <= Absorbed(p, q).look
  BY DEF Absorbed, MergeFromDay, GreaterOf
<1>2. WindowDays(p) <= WindowDays(Absorbed(p, q)) /\ WindowDays(p) \in 1..Days
        /\ WindowDays(Absorbed(p, q)) \in 1..Days
  BY <1>1 DEF WindowDays, LesserOf
<1>3. Walked(Absorbed(p, q)) = Walked(p) /\ Walked(p) \in 0..Days
  BY <1>1 DEF Walked
<1>4. ASSUME NEW first \in Nat, NEW d \in DaysLeft(p, first)
      PROVE  d \in DaysLeft(Absorbed(p, q), first)
  <2>1. CASE WindowDays(Absorbed(p, q)) = WindowDays(p)
    BY <1>3, <1>4, <2>1 DEF DaysLeft
  <2>2. CASE WindowDays(p) < WindowDays(Absorbed(p, q))
    BY <1>2, <1>3, <1>4, <2>2 DEF DaysLeft, Clears
  <2>3. QED
    BY <1>2, <2>1, <2>2
<1>5. QED
  BY <1>4

LEMMA CommitKeeps ==
  ASSUME RebuildInv, NEW x \in Changes, Commit(x), NEW c \in Causes, NEW d \in 1..Days
  PROVE  Kept(c, d)'
<1>1. PICK r \in 1..Days : \E q \in Requests(r) : \E first \in Earliest(r) :
        /\ reach' = [reach EXCEPT ![x] = r]
        /\ past' = first
        /\ enq' = [enq EXCEPT ![x] = Asking(q[1], q[2])]
        /\ Misses(Outrun(r, first))
  BY DEF Commit
<1>2. PICK q \in Requests(r) :
        /\ reach' = [reach EXCEPT ![x] = r]
        /\ enq' = [enq EXCEPT ![x] = Asking(q[1], q[2])]
        /\ Misses(Outrun(r, past'))
  BY <1>1
<1>3. /\ reach \in [Causes -> 0..Days] /\ enq \in [Askers -> EnqType] /\ x \in Askers
      /\ x \in Causes /\ x \notin Slots /\ reach[x] = 0 /\ enq[x].pc = "off"
      /\ UNCHANGED <<row, jobs, run, seen>>
  BY ConstantsAssumption DEF RebuildInv, Typed, TypeOK, ChangesAsk, Askers, Causes, Commit
<1>4. d <= r => Obliged(c, d)'
  <2>1. d <= r => d \in DaysLeft(q[2], past')
    <3>1. q = <<"mutation", Ask(r, Days)>> \/ \E look \in r..Days : q = <<"import", Ask(Whole, look)>>
      BY DEF Requests
    <3>2. d <= r => d \in DaysLeft(Ask(r, Days), past')
      BY ConstantsAssumption DEF DaysLeft, Walked, WindowDays, Ask, LesserOf
    <3>3. \A look \in r..Days : d <= r => d \in DaysLeft(Ask(Whole, look), past')
      BY ConstantsAssumption DEF DaysLeft, Walked, WindowDays, Ask, LesserOf, Whole
    <3>4. QED
      BY <3>1, <3>2, <3>3
  <2>2. enq'[x].pc = "look" /\ enq'[x].pay = q[2]
    BY <1>2, <1>3 DEF Asking, NotAsking
  <2>3. QED
    BY <1>3, <2>1, <2>2 DEF Obliged, AskerOwes, Window
<1>5. CASE c = x
  <2>1. Stale(c, d)' => d <= r
    BY <1>2, <1>3, <1>5 DEF Stale
  <2>2. QED
    BY <1>4, <2>1 DEF Kept
<1>6. CASE c # x
  <2>1. Stale(c, d)' = Stale(c, d)
    BY <1>2, <1>3, <1>6 DEF Stale
  <2>2. QueueOwes(d) => Obliged(c, d)' \/ Outran(d, past')
    <3>1. SUFFICES ASSUME NEW id \in Ids, Waits(id), d \in Window(jobs[id].pay)
                   PROVE  Obliged(c, d)' \/ Outran(d, past')
      BY DEF QueueOwes
    <3>2. Waits(id)' /\ jobs'[id].pay = jobs[id].pay
      BY <1>3, <3>1 DEF Waits
    <3>3. QED
      BY <3>1, <3>2, JobMoves DEF Obliged, RebuildInv
  <2>3. Obliged(c, d) => Obliged(c, d)' \/ AskerOwes(x, d) \/ QueueOwes(d) \/ Outran(d, past')
    BY <1>2, <1>3, OthersOweToo DEF RebuildInv
  <2>4. ~AskerOwes(x, d)
    BY <1>3 DEF AskerOwes
  <2>5. missed \subseteq missed' /\ (Stale(c, d) /\ d \in Outrun(r, past') => <<c, d>> \in missed')
    BY <1>2, MissesKeeps
  <2>6. Outran(d, past') => d <= r \/ d \in Outrun(r, past')
    BY DEF Outran, Outrun
  <2>7. QED
    BY <1>4, <2>1, <2>2, <2>3, <2>4, <2>5, <2>6 DEF RebuildInv, OwedInv, Kept
<1>7. QED
  BY <1>5, <1>6

LEMMA AskStepKeeps ==
  ASSUME RebuildInv, NEW a \in Askers, UNCHANGED <<reach, past, row, run, seen>>,
         missed \subseteq missed', \A b \in Askers \ {a} : enq'[b] = enq[b],
         NEW c \in Causes, NEW d \in 1..Days,
         Stale(c, d) /\ AskerOwes(a, d) => <<c, d>> \in missed' \/ Obliged(c, d)',
         Stale(c, d) /\ QueueOwes(d) => <<c, d>> \in missed' \/ Obliged(c, d)'
  PROVE  Kept(c, d)'
<1>1. Stale(c, d)' = Stale(c, d)
  BY StaleStays
<1>2. Obliged(c, d) => Obliged(c, d)' \/ AskerOwes(a, d) \/ QueueOwes(d)
  BY OthersOweToo, NoneOutran DEF RebuildInv
<1>3. QED
  BY <1>1, <1>2 DEF RebuildInv, OwedInv, Kept

LEMMA AskKeeps ==
  ASSUME RebuildInv, NEW a \in Askers, LookAtSlot(a) \/ ReadPending(a),
         NEW c \in Causes, NEW d \in 1..Days
  PROVE  Kept(c, d)'
<1>1. /\ UNCHANGED <<reach, past, row, jobs, run, seen, missed>>
      /\ \A b \in Askers \ {a} : enq'[b] = enq[b]
  BY DEF LookAtSlot, ReadPending, RebuildInv, Typed, TypeOK
<1>2. enq'[a].pay = enq[a].pay /\ enq'[a].pc # "off"
  <2>1. enq[a] \in EnqType /\ enq \in [Askers -> EnqType]
    BY DEF RebuildInv, Typed, TypeOK
  <2>2. CASE LookAtSlot(a)
    <3>1. PICK pc \in {"look", "read", "add"}, to \in Ids :
            enq' = [enq EXCEPT ![a].pc = pc, ![a].id = to]
      BY <2>2, LookGoesOn DEF RebuildInv
    <3>2. QED
      BY <2>1, <3>1 DEF EnqType
  <2>3. CASE ReadPending(a)
    BY <2>1, <2>3 DEF ReadPending, EnqType
  <2>4. QED
    BY <2>2, <2>3
<1>3. AskerOwes(a, d) => AskerOwes(a, d)'
  BY <1>1, <1>2 DEF AskerOwes, Window
<1>4. QueueOwes(d) => QueueOwes(d)'
  BY <1>1 DEF QueueOwes, Waits, Window
<1>5. QED
  BY <1>1, <1>3, <1>4, AskStepKeeps DEF Obliged

LEMMA WritePendingKeeps ==
  ASSUME RebuildInv, NEW a \in Askers, WritePending(a), NEW c \in Causes, NEW d \in 1..Days
  PROVE  Kept(c, d)'
<1> DEFINE id == enq[a].id
           joined == IF Waits(id) THEN Window(jobs[id].pay) \ Window(enq[a].got) ELSE {}
<1>1. /\ enq \in [Askers -> EnqType] /\ enq[a] \in EnqType /\ id \in Ids
      /\ jobs \in [Ids -> Entry] /\ jobs[id] \in Entry
  BY DEF RebuildInv, Typed, TypeOK, AsksById, WritePending
<1>2. /\ UNCHANGED <<reach, past, row, run, seen>> /\ \A b \in Askers \ {a} : enq'[b] = enq[b]
      /\ enq'[a].pc = "add" /\ enq'[a].pay = enq[a].pay
  BY <1>1 DEF WritePending, EnqType
<1>3. missed \subseteq missed' /\ (d \in joined /\ Stale(c, d) => <<c, d>> \in missed')
  <2>1. Misses(joined)
    BY DEF WritePending
  <2> HIDE DEF joined
  <2>2. QED
    BY <2>1, MissesKeeps
<1>4. AskerOwes(a, d) => AskerOwes(a, d)'
  BY <1>2 DEF AskerOwes, Window
<1>5. Stale(c, d) /\ QueueOwes(d) => <<c, d>> \in missed' \/ QueueOwes(d)'
  <2>1. SUFFICES ASSUME Stale(c, d), NEW k \in Ids, Waits(k), d \in Window(jobs[k].pay)
                 PROVE  <<c, d>> \in missed' \/ QueueOwes(d)'
    BY DEF QueueOwes
  <2>2. CASE k # id
    <3>1. jobs'[k] = jobs[k]
      BY <1>1, <2>2 DEF WritePending
    <3>2. QED
      BY <1>2, <2>1, <3>1 DEF QueueOwes, Waits, Window
  <2>3. CASE k = id /\ d \in Window(enq[a].got)
    <3>1. jobs' = [jobs EXCEPT ![id] = [jobs[id] EXCEPT !.pay = Absorbed(enq[a].got, enq[a].pay)]]
      BY <1>1 DEF WritePending
    <3>2. /\ jobs'[id].pay = Absorbed(enq[a].got, enq[a].pay) /\ jobs'[id].st = jobs[id].st
          /\ jobs'[id].holder = jobs[id].holder
      BY <1>1, <3>1 DEF Entry
    <3>3. d \in Window(Absorbed(enq[a].got, enq[a].pay))
      <4>1. past \in Nat
        BY ConstantsAssumption DEF RebuildInv, Typed, TypeOK
      <4>2. QED
        BY <1>1, <2>3, <4>1, AbsorbsWindow DEF EnqType, Window
    <3>4. QED
      BY <1>1, <1>2, <2>1, <2>3, <3>2, <3>3 DEF QueueOwes, Waits, Window
  <2>4. CASE k = id /\ d \notin Window(enq[a].got)
    BY <1>3, <2>1, <2>4
  <2>5. QED
    BY <2>2, <2>3, <2>4
<1>6. QED
  BY <1>2, <1>3, <1>4, <1>5, AskStepKeeps DEF Obliged

LEMMA AddKeeps ==
  ASSUME RebuildInv, NEW a \in Askers, AddJob(a), NEW c \in Causes, NEW d \in 1..Days
  PROVE  Kept(c, d)'
<1> DEFINE id == enq[a].id
           live == jobs[id].st \in {"pending", "active"}
           kept == IF jobs[id].st = "pending" THEN Window(jobs[id].pay) ELSE {}
<1>1. /\ enq \in [Askers -> EnqType] /\ id \in Ids /\ jobs \in [Ids -> Entry]
      /\ jobs[id].st \in {"none", "pending", "active"}
  BY DEF RebuildInv, Typed, TypeOK, AsksById, AddJob, Entry
<1>2. UNCHANGED <<reach, past, row, run, seen>> /\ \A b \in Askers \ {a} : enq'[b] = enq[b]
  BY <1>1 DEF AddJob
<1>3. CASE live
  <2>1. UNCHANGED jobs /\ Misses(Window(enq[a].pay) \ kept)
    BY <1>3 DEF AddJob
  <2>2. /\ missed \subseteq missed'
        /\ d \in Window(enq[a].pay) \ kept /\ Stale(c, d) => <<c, d>> \in missed'
    <3> HIDE DEF kept
    <3> QED
      BY <2>1, MissesKeeps
  <2>3. QueueOwes(d) => QueueOwes(d)'
    BY <1>2, <2>1 DEF QueueOwes, Waits, Window
  <2>4. d \in kept => QueueOwes(d)
    BY <1>1 DEF QueueOwes, Waits, Window
  <2>5. AskerOwes(a, d) => d \in Window(enq[a].pay)
    BY DEF AskerOwes
  <2>6. Stale(c, d) /\ AskerOwes(a, d) => <<c, d>> \in missed' \/ QueueOwes(d)'
    <3> HIDE DEF kept
    <3> QED
      BY <2>2, <2>3, <2>4, <2>5
  <2>7. QED
    BY <1>2, <2>2, <2>3, <2>6, AskStepKeeps DEF Obliged
<1>4. CASE ~live
  <2>1. UNCHANGED missed /\ jobs' = [jobs EXCEPT ![id] = Pending(enq[a].pay)]
    BY <1>4 DEF AddJob
  <2>2. jobs'[id].st = "pending" /\ jobs'[id].pay = enq[a].pay
    BY <1>1, <2>1 DEF Pending
  <2>3. AskerOwes(a, d) => QueueOwes(d)'
    BY <1>1, <1>2, <2>2 DEF AskerOwes, QueueOwes, Waits, Window
  <2>4. QueueOwes(d) => QueueOwes(d)'
    <3>1. SUFFICES ASSUME NEW k \in Ids, Waits(k), d \in Window(jobs[k].pay)
                   PROVE  QueueOwes(d)'
      BY DEF QueueOwes
    <3>2. k # id
      BY <1>1, <1>4, <3>1 DEF Waits
    <3>3. jobs'[k] = jobs[k]
      BY <1>1, <2>1, <3>2
    <3>4. QED
      BY <1>2, <3>1, <3>3 DEF QueueOwes, Waits, Window
  <2>5. QED
    BY <1>2, <2>1, <2>3, <2>4, AskStepKeeps DEF Obliged
<1>5. QED
  BY <1>3, <1>4

LEMMA EnqueueFailsKeeps ==
  ASSUME RebuildInv, NEW a \in Askers, EnqueueFails(a), NEW c \in Causes, NEW d \in 1..Days
  PROVE  Kept(c, d)'
<1>1. CASE a \in Slots /\ run[a].pc = "behind"
  BY <1>1, FailKeeps DEF EnqueueFails
<1>2. CASE ~(a \in Slots /\ run[a].pc = "behind")
  <2>1. /\ UNCHANGED <<reach, past, row, run, seen, jobs>> /\ Misses(Window(enq[a].pay))
        /\ \A b \in Askers \ {a} : enq'[b] = enq[b]
    BY <1>2 DEF EnqueueFails, RebuildInv, Typed, TypeOK
  <2>2. /\ missed \subseteq missed'
        /\ Stale(c, d) /\ AskerOwes(a, d) => <<c, d>> \in missed'
    BY <2>1, MissesKeeps DEF AskerOwes
  <2>3. QueueOwes(d) => QueueOwes(d)'
    BY <2>1 DEF QueueOwes, Waits, Window
  <2>4. QED
    BY <2>1, <2>2, <2>3, AskStepKeeps DEF Obliged
<1>3. QED
  BY <1>1, <1>2

\* What happens to no rebuild and no ask leaves every debt where it is.
LEMMA QueueKeeps ==
  ASSUME RebuildInv,
         (\E id \in Ids : ReclaimStalled(id)) \/ LoseSessions \/ CronReads \/ UNCHANGED vars,
         NEW c \in Causes, NEW d \in 1..Days
  PROVE  Kept(c, d)'
<1>1. UNCHANGED <<reach, past, row, run, enq, missed>>
  BY DEF ReclaimStalled, LoseSessions, CronReads, vars
<1>2. \A v \in Slots : seen'[v] = seen[v]
  BY ConstantsAssumption DEF ReclaimStalled, LoseSessions, CronReads, vars, RebuildInv, Typed, TypeOK, Rollers
<1>3. QueueOwes(d) => QueueOwes(d)'
  <2>1. CASE UNCHANGED jobs
    BY <1>1, <2>1 DEF QueueOwes, Waits, Window
  <2>2. ASSUME NEW id \in Ids, ReclaimStalled(id)
        PROVE  QueueOwes(d) => QueueOwes(d)'
    <3>1. jobs' = [jobs EXCEPT ![id] = [jobs[id] EXCEPT !.st = "pending"]]
            /\ jobs \in [Ids -> Entry]
      BY <2>2 DEF ReclaimStalled, RebuildInv, Typed, TypeOK
    <3>2. /\ jobs'[id].st = "pending" /\ jobs'[id].pay = jobs[id].pay
          /\ \A k \in Ids \ {id} : jobs'[k] = jobs[k]
      BY <3>1 DEF Entry
    <3>3. QED
      BY <1>1, <3>2 DEF QueueOwes, Waits, Window
  <2>3. QED
    BY <2>1, <2>2 DEF LoseSessions, CronReads, vars
<1>4. \A a \in Askers : AskerOwes(a, d) => AskerOwes(a, d)'
  BY <1>1 DEF AskerOwes, Window
<1>5. \A v \in Slots : RunOwes(v, c, d) => RunOwes(v, c, d)'
  BY <1>1, <1>2 DEF RunOwes, LeftOfChunk, LastChunk, ChunkEnd, Window
<1>6. QED
  BY <1>1, <1>3, <1>4, <1>5, StaleStays DEF RebuildInv, OwedInv, Kept, Obliged

LEMMA CronWritesKeeps ==
  ASSUME RebuildInv, CronWrites, NEW c \in Causes, NEW d \in 1..Days
  PROVE  Kept(c, d)'
<1>1. /\ UNCHANGED <<reach, past, run, enq, jobs>>
      /\ \A v \in Slots : seen'[v] = seen[v]
      /\ row[d] \subseteq seen[Cron]
  BY ConstantsAssumption DEF CronWrites, RebuildInv, Typed, TypeOK, Rollers, RowInv, HolderReadLast
<1> DEFINE days == {x \in 1..Days : x <= CronDays \/ Clears(CronDays, past)}
<1>2. Stale(c, d)' => Stale(c, d) /\ (d \in days => c \notin seen[Cron])
  BY <1>1 DEF CronWrites, Stale
<1>3. Stale(c, d)' /\ <<c, d>> \in missed => <<c, d>> \in missed'
  BY <1>2 DEF CronWrites, Healed
<1>4. QueueOwes(d) => QueueOwes(d)'
  BY <1>1 DEF QueueOwes, Waits, Window
<1>5. \A a \in Askers : AskerOwes(a, d) => AskerOwes(a, d)'
  BY <1>1 DEF AskerOwes, Window
<1>6. \A v \in Slots : RunOwes(v, c, d) => RunOwes(v, c, d)'
  BY <1>1 DEF RunOwes, LeftOfChunk, LastChunk, ChunkEnd, Window
<1>7. QED
  BY <1>2, <1>3, <1>4, <1>5, <1>6 DEF RebuildInv, OwedInv, Kept, Obliged

\* Every step keeps every debt.
LEMMA RebuildStep ==
  ASSUME RebuildInv, [Next]_vars
  PROVE  OwedInv'
<1> SUFFICES ASSUME NEW c \in Causes, NEW d \in 1..Days PROVE Kept(c, d)'
  BY DEF OwedInv
<1>1. ASSUME NEW x \in Changes, Commit(x) PROVE Kept(c, d)'
  BY <1>1, CommitKeeps
<1>2. ASSUME NEW a \in Askers, EnqueueStep(a) \/ EnqueueFails(a) PROVE Kept(c, d)'
  BY <1>2, AskKeeps, WritePendingKeeps, AddKeeps, EnqueueFailsKeeps DEF EnqueueStep
<1>3. ASSUME NEW w \in Slots, RunStep(w) PROVE Kept(c, d)'
  <2>1. AttemptThrows(w) => Kept(c, d)'
    BY FailKeeps DEF AttemptThrows
  <2>2. QED
    BY <1>3, <2>1, PickUpKeeps, TakeLockKeeps, HeldKeeps, PhasesKeeps, SaveKeeps, ReadsKeeps,
       WritesKeeps, WritesLateKeeps, BreaksKeeps, MemoryKeeps, FinishKeeps, DieKeeps DEF RunStep
<1>4. QED
  BY <1>1, <1>2, <1>3, QueueKeeps, CronWritesKeeps DEF Next

\* A change that asks has happened.
LEMMA AsksStay ==
  ASSUME RebuildInv, [Next]_vars
  PROVE  ChangesAsk'
<1> SUFFICES ASSUME NEW c \in Changes, enq'[c].pc # "off" PROVE reach'[c] > 0
  BY DEF ChangesAsk
<1>1. c \in Askers /\ c \in Causes /\ c \notin Slots
        /\ reach \in [Causes -> 0..Days] /\ enq \in [Askers -> EnqType]
        /\ \A w \in Slots : w \in Askers /\ w # c
  BY ConstantsAssumption DEF Askers, Causes, RebuildInv, Typed, TypeOK
<1>2. reach[c] > 0 => reach'[c] > 0
  <2>1. \A x \in Changes : Commit(x) => \E r \in 1..Days : reach' = [reach EXCEPT ![x] = r]
    BY DEF Commit
  <2>2. \A w \in Slots : RunPhases(w) =>
          UNCHANGED reach \/ \E r \in 1..Days : reach' = [reach EXCEPT ![Phases] = r]
    BY DEF RunPhases
  <2>3. UNCHANGED reach \/ (\E x \in Changes : Commit(x)) \/ (\E w \in Slots : RunPhases(w))
    BY ReachesOnce
  <2>4. QED
    BY <1>1, <2>1, <2>2, <2>3
<1>3. enq[c].pc # "off" \/ reach'[c] > 0
  <2>1. ASSUME NEW x \in Changes, Commit(x) PROVE enq[c].pc # "off" \/ reach'[c] > 0
    BY <1>1, <2>1, ConstantsAssumption DEF Commit, Askers
  <2>2. ASSUME NEW a \in Askers, EnqueueStep(a) PROVE enq[c].pc # "off"
    <3>1. a # c => enq'[c] = enq[c]
      BY <1>1, <2>2 DEF EnqueueStep, LookAtSlot, ReadPending, WritePending, AddJob
    <3>2. QED
      BY <2>2, <3>1, AskGoesOn DEF RebuildInv
  <2>3. ASSUME NEW a \in Askers, EnqueueFails(a) PROVE enq[c].pc # "off"
    BY <1>1, <2>3 DEF EnqueueFails, Fail, NotAsking
  <2>4. ASSUME NEW w \in Slots, RunStep(w) PROVE enq[c].pc # "off"
    BY <1>1, <2>4, RunsAskAlone DEF RebuildInv
  <2>5. CASE (\E id \in Ids : ReclaimStalled(id)) \/ LoseSessions \/ CronReads \/ CronWrites \/ UNCHANGED vars
    BY <2>5 DEF ReclaimStalled, LoseSessions, CronReads, CronWrites, vars
  <2>6. QED
    BY <2>1, <2>2, <2>3, <2>4, <2>5 DEF Next
<1>4. QED
  BY <1>2, <1>3 DEF RebuildInv, ChangesAsk

LEMMA RebuildInvInit == Init => RebuildInv
<1> SUFFICES ASSUME Init PROVE RebuildInv
  OBVIOUS
<1>1. RunsInShape
  BY DEF Init, RunsInShape, InShape, Idle, NotAsking, Askers
<1>2. ChangesAsk
  BY DEF Init, ChangesAsk, NotAsking, Askers
<1>3. OwedInv
  BY DEF Init, OwedInv, Kept, Stale
<1>4. QED
  BY <1>1, <1>2, <1>3, InitTyped, InitRows DEF RebuildInv

LEMMA RebuildInvNext == RebuildInv /\ [Next]_vars => RebuildInv'
BY NextTyped, NextInShape, StepRows, AsksStay, RebuildStep DEF RebuildInv

LEMMA RebuildInvHolds == Spec => []RebuildInv
BY RebuildInvInit, RebuildInvNext, PTL DEF Spec

\* The variables keep their types: a chunk never leaves its window, a chain of
\* memory deferrals its bound, nor an ask the ids there are.
THEOREM TypeCorrect == Spec => []TypeOK
<1>1. RebuildInv => TypeOK
  BY DEF RebuildInv, Typed
<1>2. QED
  BY <1>1, RebuildInvHolds, PTL

\* No stale day is forgotten: through enqueueCoalescedBackfill's joins, the lock
\* and memory retries of the processor, its saved progress, its failed attempts
\* and deaths, a queued job, an ask or a running rebuild will still compute the
\* day from a ledger that holds the change, unless a path has let go of it.
THEOREM RebuildsOwed == Spec => []RebuildsAreOwed
<1>1. RebuildInv => RebuildsAreOwed
  <2>1. \A c, d : Obliged(c, d) => Owed(c, d)
    BY DEF Obliged, AskerOwes, Owed, EnqueueOwes
  <2>2. QED
    BY <2>1 DEF RebuildInv, OwedInv, Kept, RebuildsAreOwed
<1>2. QED
  BY <1>1, RebuildInvHolds, PTL

=============================================================================
