---------------------------- MODULE Outbox_proofs ----------------------------
(***************************************************************************)
(* For every number of rows, users and processes, with every fault the     *)
(* model has: no row is marked published that did not reach its channel,   *)
(* nothing uncommitted reaches one, and a user's events follow their       *)
(* commits.  Until the first fault: no row is published twice, and a kick  *)
(* that was heard is not forgotten.                                        *)
(***************************************************************************)
EXTENDS Outbox, TLAPS, FiniteSetTheorems

\* The part of the types the argument needs.
Types ==
  /\ next \in Nat
  /\ txn \in [Ids -> {"none", "open", "committed", "rolledback"}]
  /\ \A i \in Ids : i >= next <=> txn[i] = "none"
  /\ disp \in [Dispatchers -> DispType]
  /\ flight \in SUBSET Ids
  /\ delivered \in SUBSET Ids
  /\ published \in SUBSET Ids
  /\ ahead \in [Ids -> SUBSET Ids]

\* Whatever is on its way is committed; whatever is done has arrived.
Carried ==
  /\ published \subseteq delivered
  /\ delivered \cup flight \subseteq Committed
  /\ \A d \in Dispatchers : disp[d].todo \subseteq Committed /\ disp[d].done \subseteq delivered

DInv == Types /\ Carried

LEMMA CommittedType == Committed \in SUBSET Ids
BY DEF Committed

\* An update of one loop keeps the others and the type.
LEMMA DispUpdate ==
  ASSUME NEW d \in Dispatchers, NEW new \in DispType, disp \in [Dispatchers -> DispType],
         disp' = [disp EXCEPT ![d] = new]
  PROVE  /\ disp' \in [Dispatchers -> DispType]
         /\ disp'[d] = new
         /\ \A e \in Dispatchers : e # d => disp'[e] = disp[e]
OBVIOUS

LEMMA OffType == Off \in DispType /\ Off.todo = {} /\ Off.done = {}
BY DEF Off, DispType

LEMMA InitDInv == Init => DInv
<1> SUFFICES ASSUME Init PROVE DInv
  OBVIOUS
<1>1. Types
  BY OffType, ConstantsAssumption DEF Init, Types, Ids
<1>2. Carried
  BY OffType DEF Init, Carried, Committed
<1>3. QED
  BY <1>1, <1>2 DEF DInv

\* A step that leaves the writers alone and moves one loop.
LEMMA LoopMoves ==
  ASSUME DInv, NEW d \in Dispatchers, NEW new \in DispType,
         disp' = [disp EXCEPT ![d] = new],
         UNCHANGED <<next, txn, ahead>>,
         new.todo \subseteq Committed, new.done \subseteq delivered',
         delivered \subseteq delivered', delivered' \subseteq Committed,
         flight' \subseteq Committed, published' \subseteq delivered'
  PROVE  DInv'
<1> USE DEF DInv
<1>1. Committed' = Committed
  BY DEF Committed
<1>2. Types'
  BY DispUpdate, CommittedType DEF Types
<1>3. Carried'
  BY <1>1, DispUpdate DEF Carried, Types
<1>4. QED
  BY <1>2, <1>3

LEMMA WriterKeepsDInv ==
  ASSUME DInv, WriterStep
  PROVE  DInv'
<1> USE DEF DInv
<1>1. CASE Append
  <2>1. Types'
    BY <1>1, ConstantsAssumption DEF Append, Types, Ids
  <2>2. Committed' = Committed
    BY <1>1 DEF Append, Committed, Types, Ids
  <2>3. QED
    BY <1>1, <2>1, <2>2 DEF Append, Carried
<1>2. ASSUME NEW i \in Ids, Commit(i)
      PROVE  DInv'
  <2>1. Types'
    BY <1>2, CommittedType DEF Commit, Types
  <2>2. Committed \subseteq Committed'
    BY <1>2 DEF Commit, Committed, Types
  <2>3. QED
    BY <1>2, <2>1, <2>2 DEF Commit, Carried
<1>3. ASSUME NEW i \in Ids, Rollback(i)
      PROVE  DInv'
  <2>1. Types'
    BY <1>3 DEF Rollback, Types
  <2>2. Committed' = Committed
    BY <1>3 DEF Rollback, Committed, Types
  <2>3. QED
    BY <1>3, <2>1, <2>2 DEF Rollback, Carried
<1>4. ASSUME NEW i \in Ids, Kick(i)
      PROVE  DInv'
  <2>1. PICK reached \in SUBSET Dispatchers :
          disp' = [d \in Dispatchers |->
                     IF d \in reached THEN [disp[d] EXCEPT !.kicked = TRUE] ELSE disp[d]]
    BY <1>4 DEF Kick
  <2> DEFINE told(d) == [disp[d] EXCEPT !.kicked = TRUE]
  <2>a. ASSUME NEW d \in Dispatchers
        PROVE  told(d) \in DispType /\ told(d).todo = disp[d].todo /\ told(d).done = disp[d].done
    BY DEF Types, DispType
  <2>b. disp' = [d \in Dispatchers |-> IF d \in reached THEN told(d) ELSE disp[d]]
    BY <2>1
  <2> HIDE DEF told
  <2>2. disp' \in [Dispatchers -> DispType]
    BY <2>a, <2>b DEF Types
  <2>3. \A d \in Dispatchers : disp'[d].todo = disp[d].todo /\ disp'[d].done = disp[d].done
    BY <2>a, <2>b
  <2>4. UNCHANGED <<next, txn, ahead, flight, delivered, published>> /\ Committed' = Committed
    BY <1>4 DEF Kick, Committed
  <2>5. QED
    BY <2>2, <2>3, <2>4 DEF Types, Carried
<1>5. QED
  BY <1>1, <1>2, <1>3, <1>4 DEF WriterStep

LEMMA DrainKeepsDInv ==
  ASSUME DInv, NEW d \in Dispatchers, DrainStep(d)
  PROVE  DInv'
<1> USE DEF DInv
<1>a. disp[d] \in DispType /\ disp[d].todo \subseteq Committed /\ disp[d].done \subseteq delivered
  BY DEF Types, Carried
<1>b. published \subseteq delivered /\ delivered \subseteq Committed /\ flight \subseteq Committed
  BY DEF Carried
<1>c. disp \in [Dispatchers -> DispType]
  BY DEF Types
<1>1. CASE ReadBatch(d)
  <2> DEFINE batch == Oldest(Unpublished)
             new == [disp[d] EXCEPT
               !.pc = IF disp[d].stop \/ batch = {} THEN Drained(d) ELSE "publish",
               !.todo = IF disp[d].stop THEN {} ELSE batch]
  <2>1. batch \subseteq Committed
    BY DEF Oldest, Unpublished, Visible, Committed
  <2>2. (IF disp[d].stop THEN {} ELSE batch) \subseteq Committed
    BY <2>1
  <2>3. new \in DispType /\ new.todo \subseteq Committed /\ new.done = disp[d].done
    BY <1>a, <2>2, CommittedType DEF DispType, Drained
  <2>4. disp' = [disp EXCEPT ![d] = new]
    BY <1>1, <1>c DEF ReadBatch
  <2> HIDE DEF new
  <2>5. QED
    BY <1>1, <1>a, <1>b, <2>3, <2>4, LoopMoves DEF ReadBatch
<1>2. CASE Publish(d)
  <2>1. PICK i \in Ids :
          /\ NextInBatch(d, i)
          /\ delivered' = delivered \cup {i}
          /\ disp' = [disp EXCEPT ![d].todo = @ \ {i}, ![d].done = @ \cup {i},
                        ![d].pc = IF disp[d].todo = {i} THEN "mark" ELSE "publish"]
    BY <1>2 DEF Publish
  <2> DEFINE new == [disp[d] EXCEPT !.todo = @ \ {i}, !.done = @ \cup {i},
                       !.pc = IF disp[d].todo = {i} THEN "mark" ELSE "publish"]
  <2>2. new \in DispType /\ new.todo \subseteq Committed /\ new.done \subseteq delivered'
    BY <1>a, <2>1 DEF DispType
  <2>3. disp' = [disp EXCEPT ![d] = new]
    BY <2>1, <1>c
  <2>4. i \in Committed
    BY <1>a, <2>1 DEF NextInBatch
  <2> HIDE DEF new
  <2>5. QED
    BY <1>2, <1>b, <2>1, <2>2, <2>3, <2>4, LoopMoves DEF Publish
<1>3. CASE PublishFails(d)
  <2>1. PICK i \in Ids :
          /\ NextInBatch(d, i)
          /\ flight' \in {flight, flight \cup {i}}
          /\ disp' = [disp EXCEPT ![d].pc = "mark", ![d].failed = TRUE]
    BY <1>3 DEF PublishFails
  <2> DEFINE new == [disp[d] EXCEPT !.pc = "mark", !.failed = TRUE]
  <2>2. new \in DispType /\ new.todo = disp[d].todo /\ new.done = disp[d].done
    BY <1>a DEF DispType
  <2>3. disp' = [disp EXCEPT ![d] = new]
    BY <2>1, <1>c
  <2>4. flight' \subseteq Committed
    BY <1>a, <1>b, <2>1 DEF NextInBatch
  <2> HIDE DEF new
  <2>5. QED
    BY <1>3, <1>a, <1>b, <2>2, <2>3, <2>4, LoopMoves DEF PublishFails
\* MarkPublished and PassFault both end the pass.
<1>d. ASSUME NEW failed \in BOOLEAN, AfterPass(d, failed),
             UNCHANGED <<next, txn, ahead, flight, delivered>>, published' \subseteq delivered
      PROVE  DInv'
  <2> DEFINE sleeps == IF failed /\ disp[d].sleeps < MaxBackoffs
                       THEN disp[d].sleeps + 1 ELSE disp[d].sleeps
             pc == IF failed /\ disp[d].sleeps >= MaxBackoffs THEN Drained(d) ELSE "read"
             new == [disp[d] EXCEPT !.pc = pc, !.sleeps = sleeps,
                       !.todo = {}, !.done = {}, !.failed = FALSE]
  <2>a. disp[d].sleeps \in Nat
    BY <1>a DEF DispType
  <2>b. sleeps \in Nat
    BY <2>a
  <2>c. pc \in {"read", "prune", "release"}
    BY DEF Drained
  <2>2. disp' = [disp EXCEPT ![d] = new]
    BY <1>d, <1>c DEF AfterPass
  <2> HIDE DEF sleeps, pc
  <2>1. new \in DispType /\ new.todo = {} /\ new.done = {}
    BY <1>a, <2>b, <2>c DEF DispType
  <2> HIDE DEF new
  <2>3. QED
    BY <1>b, <1>d, <2>1, <2>2, LoopMoves
<1>4. CASE MarkPublished(d)
  <2>1. disp[d].failed \in BOOLEAN
    BY <1>a DEF DispType
  <2>2. published' \subseteq delivered
    BY <1>4, <1>a, <1>b DEF MarkPublished
  <2>3. QED
    BY <1>4, <1>d, <2>1, <2>2 DEF MarkPublished
<1>5. CASE PassFault(d)
  BY <1>5, <1>b, <1>d DEF PassFault
<1>6. CASE Prune(d)
  <2> DEFINE new == [disp[d] EXCEPT !.pc = "release"]
  <2>1. new \in DispType /\ new.todo = disp[d].todo /\ new.done = disp[d].done
    BY <1>a DEF DispType
  <2>2. disp' = [disp EXCEPT ![d] = new]
    BY <1>6, <1>c DEF Prune
  <2> HIDE DEF new
  <2>3. QED
    BY <1>6, <1>a, <1>b, <2>1, <2>2, LoopMoves DEF Prune
<1>7. CASE Release(d)
  <2> DEFINE new == IF lock = d
                    THEN [disp[d] EXCEPT !.pc = "wait", !.swept = FALSE, !.sleeps = 0]
                    ELSE [Off EXCEPT !.pc = "dead"]
  <2>1. /\ new \in DispType /\ new.todo \subseteq disp[d].todo
        /\ new.done \subseteq disp[d].done
    BY <1>a, OffType DEF DispType
  <2>2. disp' = [disp EXCEPT ![d] = new]
    BY <1>7, <1>c DEF Release
  <2> HIDE DEF new
  <2>3. QED
    BY <1>7, <1>a, <1>b, <2>1, <2>2, LoopMoves DEF Release
<1>8. QED
  BY <1>1, <1>2, <1>3, <1>4, <1>5, <1>6, <1>7 DEF DrainStep

LEMMA LoopKeepsDInv ==
  ASSUME DInv, NEW d \in Dispatchers, LoopStep(d)
  PROVE  DInv'
<1> USE DEF DInv
<1>a. disp[d] \in DispType /\ disp[d].todo \subseteq Committed /\ disp[d].done \subseteq delivered
  BY DEF Types, Carried
<1>b. published \subseteq delivered /\ delivered \subseteq Committed /\ flight \subseteq Committed
  BY DEF Carried
<1>c. disp \in [Dispatchers -> DispType]
  BY DEF Types
\* Every step of the loop leaves its batch or drops it, and no step moves a row.
<1>d. ASSUME NEW new \in DispType, disp' = [disp EXCEPT ![d] = new],
             new.todo \subseteq disp[d].todo, new.done \subseteq disp[d].done,
             UNCHANGED <<next, txn, ahead, published, flight, delivered>>
      PROVE  DInv'
  BY <1>a, <1>b, <1>d, LoopMoves
<1>e. \A pc \in {"off", "dead", "wait"} :
        /\ [Off EXCEPT !.pc = pc] \in DispType
        /\ [Off EXCEPT !.pc = pc].todo = {} /\ [Off EXCEPT !.pc = pc].done = {}
  BY DEF Off, DispType
<1>1. CASE Start(d)
  BY <1>1, <1>d, <1>e DEF Start
<1>2. CASE WakeOnKick(d)
  <2> DEFINE new == [disp[d] EXCEPT !.pc = "lock", !.swept = FALSE, !.kicked = FALSE]
  <2>1. new \in DispType /\ new.todo = disp[d].todo /\ new.done = disp[d].done
    BY <1>a DEF DispType
  <2>2. disp' = [disp EXCEPT ![d] = new]
    BY <1>2, <1>c DEF WakeOnKick
  <2> HIDE DEF new
  <2>3. QED
    BY <1>2, <1>d, <2>1, <2>2 DEF WakeOnKick
<1>3. CASE WakeOnSweep(d)
  <2> DEFINE new == [disp[d] EXCEPT !.pc = "lock", !.swept = TRUE]
  <2>1. new \in DispType /\ new.todo = disp[d].todo /\ new.done = disp[d].done
    BY <1>a DEF DispType
  <2>2. disp' = [disp EXCEPT ![d] = new]
    BY <1>3, <1>c DEF WakeOnSweep
  <2> HIDE DEF new
  <2>3. QED
    BY <1>3, <1>d, <2>1, <2>2 DEF WakeOnSweep
<1>4. CASE TryLock(d)
  <2> DEFINE new == IF lock = Nobody
                    THEN [disp[d] EXCEPT !.pc = "read", !.sleeps = 0]
                    ELSE [disp[d] EXCEPT !.pc = "wait", !.swept = FALSE]
  <2>1. new \in DispType /\ new.todo = disp[d].todo /\ new.done = disp[d].done
    BY <1>a DEF DispType
  <2>2. disp' = [disp EXCEPT ![d] = new]
    BY <1>4, <1>c DEF TryLock
  <2> HIDE DEF new
  <2>3. QED
    BY <1>4, <1>d, <2>1, <2>2 DEF TryLock
<1>5. CASE LockFault(d)
  BY <1>5, <1>d, <1>e DEF LockFault
<1>6. CASE LoseLock(d)
  BY <1>6, DispUpdate DEF LoseLock, Types, Carried, Committed
<1>7. CASE Stop(d)
  <2> DEFINE new == [disp[d] EXCEPT !.stop = TRUE]
  <2>1. new \in DispType /\ new.todo = disp[d].todo /\ new.done = disp[d].done
    BY <1>a DEF DispType
  <2>2. disp' = [disp EXCEPT ![d] = new]
    BY <1>7, <1>c DEF Stop
  <2> HIDE DEF new
  <2>3. QED
    BY <1>7, <1>d, <2>1, <2>2 DEF Stop
<1>8. CASE Stopped(d)
  BY <1>8, <1>d, OffType DEF Stopped
<1>9. CASE Crash(d)
  BY <1>9, <1>d, OffType DEF Crash
<1>10. QED
  BY <1>1, <1>2, <1>3, <1>4, <1>5, <1>6, <1>7, <1>8, <1>9 DEF LoopStep

LEMMA NextKeepsDInv ==
  ASSUME DInv, [Next]_vars
  PROVE  DInv'
<1>1. CASE WriterStep
  BY <1>1, WriterKeepsDInv
<1>2. ASSUME NEW i \in Ids, LateArrival(i)
      PROVE  DInv'
  BY <1>2 DEF LateArrival, DInv, Types, Carried, Committed
<1>3. ASSUME NEW d \in Dispatchers, DrainStep(d) \/ LoopStep(d)
      PROVE  DInv'
  BY <1>3, DrainKeepsDInv, LoopKeepsDInv
<1>4. CASE UNCHANGED vars
  BY <1>4 DEF vars, DInv, Types, Carried, Committed
<1>5. QED
  BY <1>1, <1>2, <1>3, <1>4 DEF Next

LEMMA DInvHolds == Spec => []DInv
BY InitDInv, NextKeepsDInv, PTL DEF Spec

\* No row is marked published, or pruned, on a publish that failed
\* (dispatchBatch and markPublished).
THEOREM NothingLost == Spec => []PublishedWasDelivered
<1>1. DInv => PublishedWasDelivered
  BY DEF DInv, Carried, PublishedWasDelivered
<1>2. QED
  BY <1>1, DInvHolds, PTL

-----------------------------------------------------------------------------
(***************************************************************************)
(* Without faults, and with two processes or twenty: the lock lets one     *)
(* loop into a drain, so no row is published twice; and the loops that     *)
(* skip the drain leave their kick to the one inside, which either has     *)
(* still to read or has been kicked itself.                                *)
(***************************************************************************)
InDrain == {"read", "publish", "mark", "prune", "release"}

\* A kick is for a committed row.
KicksAreCommitted == unkicked \cup heard \subseteq Committed

\* A loop that nothing has disturbed: inside a drain it has the lock, its batch
\* is there from the read to the last publish, and nothing in it is out yet.
Undisturbed(d) ==
  /\ disp[d].pc # "dead" /\ ~disp[d].stop /\ ~disp[d].failed
  /\ disp[d].pc \in InDrain => lock = d
  /\ disp[d].pc # "publish" => disp[d].todo = {}
  /\ disp[d].pc \notin {"publish", "mark"} => disp[d].done = {}
  /\ disp[d].todo \cap (published \cup disp[d].done) = {}

\* What has reached a channel is published, or about to be marked.
Accounted ==
  /\ flight = {}
  /\ \A i \in delivered : i \in published \/ \E d \in Dispatchers : i \in disp[d].done

\* This loop will read the outbox before it waits unkicked.
Serves(d) ==
  \/ Up(d) /\ disp[d].kicked
  \/ disp[d].pc \in {"lock", "read", "publish", "mark"}

\* A heard kick is in good hands, and a loop about to leave its drain cannot
\* have missed it.
KickInHand ==
  heard \cap Unpublished # {} =>
    /\ \E d \in Dispatchers : Serves(d)
    /\ \A d \in Dispatchers : disp[d].pc \in {"prune", "release"} => disp[d].kicked

Calm == (\A d \in Dispatchers : Undisturbed(d)) /\ Accounted /\ KickInHand

QInv == DInv /\ TypeOK /\ KicksAreCommitted /\ (NoFaultYet => Calm)

-----------------------------------------------------------------------------
\* Nothing gives a spent event back, so a quiet state had a quiet past.
LEMMA FaultsStay ==
  ASSUME TypeOK, [Next]_vars, NoFaultYet'
  PROVE  NoFaultYet /\ UNCHANGED spent
<1>1. ASSUME NEW e \in Budgeted, Spend(e)
      PROVE  FALSE
  BY <1>1 DEF Spend, NoFaultYet, TypeOK
<1>2. UNCHANGED spent
  <2>1. CASE WriterStep
    BY <1>1, <2>1 DEF WriterStep, Append, Commit, Rollback, Kick, Budgeted
  <2>2. ASSUME NEW i \in Ids, LateArrival(i)
        PROVE  UNCHANGED spent
    BY <2>2 DEF LateArrival
  <2>3. ASSUME NEW d \in Dispatchers, DrainStep(d)
        PROVE  UNCHANGED spent
    BY <1>1, <2>3 DEF DrainStep, ReadBatch, Publish, PublishFails, MarkPublished, PassFault,
       Prune, Release, Budgeted
  <2>4. ASSUME NEW d \in Dispatchers, LoopStep(d)
        PROVE  UNCHANGED spent
    BY <1>1, <2>4 DEF LoopStep, Start, WakeOnKick, WakeOnSweep, TryLock, LockFault, LoseLock,
       Stop, Stopped, Crash, Budgeted
  <2>5. QED
    BY <2>1, <2>2, <2>3, <2>4 DEF Next, vars
<1>3. QED
  BY <1>2 DEF NoFaultYet

\* A batch is empty only when nothing is unpublished.
LEMMA OldestIsNotEmpty ==
  ASSUME NEW S \in SUBSET Ids, S # {}
  PROVE  Oldest(S) # {}
<1> DEFINE less == {ss \in Nat \X Nat : ss[1] < ss[2]}
<1>a. IsWellFoundedOn(less, Nat)
  BY NatLessThanWellFounded DEF OpToRel
<1>b. S \subseteq Nat
  BY ConstantsAssumption DEF Ids
<1>c. \E i \in S : \A j \in S : ~(<<j, i>> \in less)
  <2> HIDE DEF less
  <2> QED
    BY <1>a, <1>b, WFMin
<1>1. PICK i \in S : \A j \in S : ~(<<j, i>> \in less)
  BY <1>c
<1>2. {j \in S : j < i} = {}
  BY <1>b, <1>1
<1>3. Cardinality({j \in S : j < i}) = 0
  BY <1>2, FS_EmptySet
<1>4. i \in Oldest(S)
  BY <1>3, ConstantsAssumption DEF Oldest
<1>5. QED
  BY <1>4

LEMMA TypeKept ==
  ASSUME TypeOK, DInv', [Next]_vars
  PROVE  TypeOK'
<1>a. /\ txn' \in [Ids -> {"none", "open", "committed", "rolledback"}]
      /\ \A i \in Ids : i >= next' <=> txn'[i] = "none"
      /\ disp' \in [Dispatchers -> DispType]
      /\ flight' \in SUBSET Ids /\ delivered' \in SUBSET Ids /\ published' \in SUBSET Ids
      /\ ahead' \in [Ids -> SUBSET Ids]
  BY DEF DInv, Types
<1>b. ASSUME UNCHANGED spent \/ \E e \in Budgeted : Spend(e)
      PROVE  spent' \in [Budgeted -> Nat]
  BY <1>b DEF TypeOK, Spend
<1>1. CASE Append
  BY <1>1, <1>a, ConstantsAssumption DEF Append, TypeOK, Ids
<1>2. ASSUME NEW i \in Ids, Commit(i) \/ Rollback(i)
      PROVE  TypeOK'
  BY <1>2, <1>a DEF Commit, Rollback, TypeOK
<1>3. ASSUME NEW i \in Ids, Kick(i)
      PROVE  TypeOK'
  <2>1. spent' \in [Budgeted -> Nat]
    BY <1>3, <1>b DEF Kick, Budgeted
  <2>2. \A d \in Dispatchers : disp'[d].pc = disp[d].pc
    BY <1>3 DEF Kick, TypeOK, DispType
  <2>3. /\ UNCHANGED <<next, lock>> /\ unkicked' \subseteq unkicked
        /\ heard' \subseteq heard \cup {i}
    BY <1>3 DEF Kick
  <2>4. QED
    BY <1>a, <2>1, <2>2, <2>3 DEF TypeOK
<1>4. ASSUME NEW i \in Ids, LateArrival(i)
      PROVE  TypeOK'
  BY <1>4, <1>a DEF LateArrival, TypeOK
\* Only a loop inside a drain holds the lock.
<1>c. ASSUME NEW d \in Dispatchers,
             \A e \in Dispatchers : e # d => disp'[e] = disp[e],
             lock' \in {lock, Nobody, d},
             lock' = d => disp'[d].pc \in {"read", "publish", "mark", "prune", "release"},
             UNCHANGED <<next, unkicked, heard>>, spent' \in [Budgeted -> Nat]
      PROVE  TypeOK'
  BY <1>a, <1>c DEF TypeOK
<1>5. ASSUME NEW d \in Dispatchers, DrainStep(d)
      PROVE  TypeOK'
  <2>1. spent' \in [Budgeted -> Nat]
    BY <1>5, <1>b DEF DrainStep, ReadBatch, Publish, PublishFails, MarkPublished, PassFault,
       Prune, Release, Budgeted
  <2>2. disp \in [Dispatchers -> DispType]
    BY DEF TypeOK
  <2>3. \A e \in Dispatchers : e # d => disp'[e] = disp[e]
    BY <1>5, <2>2 DEF DrainStep, ReadBatch, Publish, PublishFails, MarkPublished, PassFault,
       AfterPass, Prune, Release
  <2>4. lock' \in {lock, Nobody}
    BY <1>5 DEF DrainStep, ReadBatch, Publish, PublishFails, MarkPublished, PassFault,
       Prune, Release
  <2>5. lock' = d => disp'[d].pc \in {"read", "publish", "mark", "prune", "release"}
    <3>1. CASE Release(d)
      BY <3>1, ConstantsAssumption DEF Release
    <3>2. CASE MarkPublished(d) \/ PassFault(d)
      BY <3>2, <2>2 DEF MarkPublished, PassFault, AfterPass, Drained, DispType
    <3>3. CASE ReadBatch(d) \/ Prune(d) \/ PublishFails(d)
      BY <3>3, <2>2 DEF ReadBatch, Drained, Prune, PublishFails, DispType
    <3>4. CASE Publish(d)
      BY <3>4, <2>2 DEF Publish, DispType
    <3>5. QED
      BY <1>5, <3>1, <3>2, <3>3, <3>4 DEF DrainStep
  <2>6. UNCHANGED <<next, unkicked, heard>>
    BY <1>5 DEF DrainStep, ReadBatch, Publish, PublishFails, MarkPublished, PassFault,
       Prune, Release
  <2>7. QED
    BY <1>c, <2>1, <2>3, <2>4, <2>5, <2>6
<1>6. ASSUME NEW d \in Dispatchers, LoopStep(d)
      PROVE  TypeOK'
  <2>1. spent' \in [Budgeted -> Nat]
    BY <1>6, <1>b DEF LoopStep, Start, WakeOnKick, WakeOnSweep, TryLock, LockFault, LoseLock,
       Stop, Stopped, Crash, Budgeted
  <2>2. disp \in [Dispatchers -> DispType]
    BY DEF TypeOK
  <2>3. \A e \in Dispatchers : e # d => disp'[e] = disp[e]
    BY <1>6, <2>2 DEF LoopStep, Start, WakeOnKick, WakeOnSweep, TryLock, LockFault, LoseLock,
       Stop, Stopped, Crash
  <2>4. lock' \in {lock, Nobody, d}
    BY <1>6 DEF LoopStep, Start, WakeOnKick, WakeOnSweep, TryLock, LockFault, LoseLock,
       Stop, Stopped, Crash
  <2>a. lock = d => disp[d].pc \in {"read", "publish", "mark", "prune", "release"}
    BY ConstantsAssumption DEF TypeOK
  <2>5. lock' = d => disp'[d].pc \in {"read", "publish", "mark", "prune", "release"}
    BY <1>6, <2>2, <2>a, ConstantsAssumption DEF LoopStep, Start, WakeOnKick, WakeOnSweep,
       TryLock, LockFault, LoseLock, Stop, Stopped, Crash, DispType
  <2>6. UNCHANGED <<next, unkicked, heard>>
    BY <1>6 DEF LoopStep, Start, WakeOnKick, WakeOnSweep, TryLock, LockFault, LoseLock,
       Stop, Stopped, Crash
  <2>7. QED
    BY <1>c, <2>1, <2>3, <2>4, <2>5, <2>6
<1>7. CASE UNCHANGED vars
  BY <1>7 DEF vars, TypeOK
<1>8. QED
  BY <1>1, <1>2, <1>3, <1>4, <1>5, <1>6, <1>7 DEF Next, WriterStep

LEMMA KicksAreCommittedKept ==
  ASSUME TypeOK, KicksAreCommitted, [Next]_vars
  PROVE  KicksAreCommitted'
<1>1. CASE Append
  BY <1>1 DEF Append, TypeOK, KicksAreCommitted, Committed
<1>2. ASSUME NEW i \in Ids, Commit(i)
      PROVE  KicksAreCommitted'
  BY <1>2 DEF Commit, TypeOK, KicksAreCommitted, Committed
<1>3. ASSUME NEW i \in Ids, Rollback(i)
      PROVE  KicksAreCommitted'
  BY <1>3 DEF Rollback, TypeOK, KicksAreCommitted, Committed
<1>4. ASSUME NEW i \in Ids, Kick(i)
      PROVE  KicksAreCommitted'
  BY <1>4 DEF Kick, KicksAreCommitted, Committed
<1>5. ASSUME NEW d \in Dispatchers, DrainStep(d) \/ LoopStep(d)
      PROVE  UNCHANGED <<txn, unkicked, heard>>
  BY <1>5 DEF DrainStep, ReadBatch, Publish, PublishFails, MarkPublished, PassFault, Prune,
     Release, LoopStep, Start, WakeOnKick, WakeOnSweep, TryLock, LockFault, LoseLock, Stop,
     Stopped, Crash
<1>6. ASSUME NEW i \in Ids, LateArrival(i)
      PROVE  UNCHANGED <<txn, unkicked, heard>>
  BY <1>6 DEF LateArrival
<1>7. CASE UNCHANGED <<txn, unkicked, heard>>
  BY <1>7 DEF KicksAreCommitted, Committed
<1>8. QED
  BY <1>1, <1>2, <1>3, <1>4, <1>5, <1>6, <1>7 DEF Next, WriterStep, vars

-----------------------------------------------------------------------------
\* A step of one loop leaves the others calm: if it publishes it has the lock,
\* and the others have no batch.
LEMMA OthersStayCalm ==
  ASSUME Calm, NEW d \in Dispatchers, NEW e \in Dispatchers, e # d,
         disp'[e] = disp[e], lock = e => lock' = e,
         published' = published \/ lock = d
  PROVE  Undisturbed(e)'
<1>1. Undisturbed(e)
  BY DEF Calm
<1>2. CASE published' = published
  BY <1>1, <1>2 DEF Undisturbed
<1>3. CASE lock = d
  <2>1. disp[e].pc \notin InDrain
    BY <1>1, <1>3 DEF Undisturbed
  <2>2. disp[e].todo = {}
    BY <1>1, <2>1 DEF Undisturbed, InDrain
  <2>3. QED
    BY <1>1, <2>1, <2>2 DEF Undisturbed
<1>4. QED
  BY <1>2, <1>3

LEMMA SameDeliveries ==
  ASSUME Accounted, UNCHANGED <<flight, delivered, published>>,
         \A d \in Dispatchers : disp[d].done \subseteq disp'[d].done
  PROVE  Accounted'
BY DEF Accounted

\* Kicks stay in hand when a loop that served still does, and none comes to the
\* end of its drain.
LEMMA SameKicks ==
  ASSUME KickInHand, NEW d \in Dispatchers,
         \A e \in Dispatchers : e # d => disp'[e] = disp[e],
         heard' = heard, Unpublished' \subseteq Unpublished,
         Serves(d) => Serves(d)',
         disp'[d].pc \in {"prune", "release"} =>
           disp[d].pc \in {"prune", "release"} /\ disp'[d].kicked = disp[d].kicked
  PROVE  KickInHand'
<1> SUFFICES ASSUME heard \cap Unpublished # {} PROVE KickInHand'
  BY DEF KickInHand
<1>1. \A e \in Dispatchers : Serves(e) => Serves(e)'
  BY DEF Serves, Up
<1>2. QED
  BY <1>1 DEF KickInHand

LEMMA CalmStart == Init => Calm
<1> SUFFICES ASSUME Init PROVE Calm
  OBVIOUS
<1>1. \A d \in Dispatchers : Undisturbed(d)
  BY DEF Init, Undisturbed, Off, InDrain
<1>2. Accounted /\ KickInHand
  BY DEF Init, Accounted, KickInHand
<1>3. QED
  BY <1>1, <1>2 DEF Calm

LEMMA WriterKeepsCalm ==
  ASSUME DInv, TypeOK, KicksAreCommitted, Calm, WriterStep, UNCHANGED spent
  PROVE  Calm'
<1>a. ASSUME UNCHANGED <<lock, disp, flight, delivered, published, heard>>,
             heard \cap Unpublished' = heard \cap Unpublished
      PROVE  Calm'
  BY <1>a DEF Calm, Undisturbed, Accounted, KickInHand, Serves, Up
<1>1. CASE Append
  <2>1. txn[next] = "none" /\ txn' = [txn EXCEPT ![next] = "open"] /\ next \in Ids
    BY <1>1 DEF Append, TypeOK, Ids
  <2>2. Unpublished' = Unpublished
    BY <1>1, <2>1 DEF Append, Unpublished, Visible, TypeOK
  <2>3. QED
    BY <1>1, <1>a, <2>2 DEF Append
<1>2. ASSUME NEW i \in Ids, Commit(i) \/ Rollback(i)
      PROVE  Calm'
  <2>1. i \notin heard
    BY <1>2 DEF Commit, Rollback, KicksAreCommitted, Committed
  <2>2. Unpublished' \subseteq Unpublished \cup {i} /\ Unpublished \subseteq Unpublished'
    BY <1>2 DEF Commit, Rollback, Unpublished, Visible, TypeOK
  <2>3. QED
    BY <1>2, <1>a, <2>1, <2>2 DEF Commit, Rollback
<1>3. ASSUME NEW i \in Ids, Kick(i)
      PROVE  Calm'
  <2>1. PICK reached \in SUBSET {d \in Dispatchers : Up(d)} :
          /\ disp' = [d \in Dispatchers |->
                        IF d \in reached THEN [disp[d] EXCEPT !.kicked = TRUE] ELSE disp[d]]
          /\ IF \A d \in Dispatchers : Up(d) => d \in reached
             THEN heard' = heard \cup (IF reached = {} THEN {} ELSE {i}) /\ UNCHANGED spent
             ELSE Spend("loseKick") /\ UNCHANGED heard
    BY <1>3 DEF Kick
  <2>2. /\ \A d \in Dispatchers : Up(d) => d \in reached
        /\ heard' = heard \cup (IF reached = {} THEN {} ELSE {i})
    BY <2>1 DEF Spend, TypeOK, Budgeted
  <2>3. \A d \in Dispatchers :
          /\ disp'[d].pc = disp[d].pc /\ disp'[d].stop = disp[d].stop
          /\ disp'[d].failed = disp[d].failed
          /\ disp'[d].todo = disp[d].todo /\ disp'[d].done = disp[d].done
          /\ disp'[d].kicked = (IF d \in reached THEN TRUE ELSE disp[d].kicked)
    BY <2>1 DEF TypeOK, DispType
  <2>4. UNCHANGED <<txn, published, lock, flight, delivered>>
    BY <1>3 DEF Kick
  <2>5. \A d \in Dispatchers : Undisturbed(d)'
    BY <2>3, <2>4 DEF Calm, Undisturbed
  <2>6. Accounted'
    BY <2>3, <2>4 DEF Calm, Accounted
  <2>7. Unpublished' = Unpublished
    BY <2>4 DEF Unpublished, Visible
  <2>8. KickInHand'
    <3>1. CASE reached = {}
      <4>1. disp' = disp /\ heard' = heard
        BY <2>1, <2>2, <3>1 DEF TypeOK
      <4>2. QED
        BY <2>7, <4>1 DEF Calm, KickInHand, Serves, Up
    <3>2. ASSUME NEW d \in reached
          PROVE  KickInHand'
      <4>1. Serves(d)'
        BY <2>3, <3>2 DEF Serves, Up
      <4>2. \A e \in Dispatchers : disp'[e].pc \in {"prune", "release"} => disp'[e].kicked
        BY <2>2, <2>3 DEF Up
      <4>3. QED
        BY <4>1, <4>2 DEF KickInHand
    <3>3. QED
      BY <3>1, <3>2
  <2>9. QED
    BY <2>5, <2>6, <2>8 DEF Calm
<1>4. QED
  BY <1>1, <1>2, <1>3 DEF WriterStep

LEMMA DrainKeepsCalm ==
  ASSUME DInv, TypeOK, Calm, NEW d \in Dispatchers, DrainStep(d), UNCHANGED spent
  PROVE  Calm'
<1>a. disp \in [Dispatchers -> DispType] /\ disp[d] \in DispType /\ published \subseteq Ids
  BY DEF TypeOK
<1>b. \A e \in Dispatchers : e # d => disp'[e] = disp[e]
  BY <1>a DEF DrainStep, ReadBatch, Publish, PublishFails, MarkPublished, PassFault, AfterPass,
     Prune, Release
<1>c. disp[d].pc \in InDrain
  BY DEF DrainStep, ReadBatch, Publish, NextInBatch, PublishFails, MarkPublished, PassFault,
     Prune, Release, InDrain
<1>d. Undisturbed(d) /\ lock = d
  BY <1>c DEF Calm, Undisturbed
\* Nobody else is in a drain, so nobody else has a batch.
<1>e. \A e \in Dispatchers : e # d => disp[e].todo = {} /\ disp[e].done = {}
  BY <1>d DEF Calm, Undisturbed, InDrain
<1>f. \A e \in Dispatchers : e # d => Undisturbed(e)'
  BY <1>b, <1>d, OthersStayCalm
<1>g. \A i \in delivered : i \in published \/ i \in disp[d].done
  BY <1>e DEF Calm, Accounted
<1>h. flight = {} /\ KickInHand
  BY DEF Calm, Accounted
<1>i. ~Spend("publishFault") /\ ~Spend("dbFault")
  BY DEF Spend, TypeOK, Budgeted
<1>1. CASE ReadBatch(d)
  <2> DEFINE batch == Oldest(Unpublished)
  <2>1. /\ disp'[d].pc = IF batch = {} THEN Drained(d) ELSE "publish"
        /\ disp'[d].todo = batch /\ disp'[d].done = {}
        /\ disp'[d].stop = disp[d].stop /\ disp'[d].failed = disp[d].failed
    BY <1>1, <1>a, <1>d DEF ReadBatch, DispType, Undisturbed
  <2>2. batch \cap published = {}
    BY DEF Oldest, Unpublished
  <2>3. UNCHANGED <<txn, lock, flight, delivered, published, heard>>
    BY <1>1 DEF ReadBatch
  <2>a. disp[d].done = {}
    BY <1>1, <1>d DEF ReadBatch, Undisturbed
  <2> HIDE DEF batch
  <2>4. Undisturbed(d)'
    BY <1>d, <2>1, <2>2, <2>3 DEF Undisturbed, Drained
  <2>5. Accounted'
    BY <1>g, <1>h, <2>3, <2>a DEF Accounted
  <2>6. KickInHand'
    <3>1. CASE batch = {}
      <4>1. Unpublished \in SUBSET Ids
        BY DEF Unpublished
      <4>2. Unpublished = {}
        BY <3>1, <4>1, OldestIsNotEmpty DEF batch
      <4>3. Unpublished' = {}
        BY <2>3, <4>2 DEF Unpublished, Visible
      <4>4. QED
        BY <4>3 DEF KickInHand
    <3>2. CASE batch # {}
      <4>1. Serves(d)'
        BY <2>1, <3>2 DEF Serves
      <4>2. Unpublished' = Unpublished
        BY <2>3 DEF Unpublished, Visible
      <4>3. QED
        BY <1>b, <1>h, <2>1, <2>3, <3>2, <4>1, <4>2, SameKicks
    <3>3. QED
      BY <3>1, <3>2
  <2>7. QED
    BY <1>f, <2>4, <2>5, <2>6 DEF Calm
<1>2. CASE Publish(d)
  <2>1. PICK i \in Ids :
          /\ NextInBatch(d, i)
          /\ delivered' = delivered \cup {i}
          /\ disp' = [disp EXCEPT ![d].todo = @ \ {i}, ![d].done = @ \cup {i},
                        ![d].pc = IF disp[d].todo = {i} THEN "mark" ELSE "publish"]
    BY <1>2 DEF Publish
  <2>2. /\ disp'[d].todo = disp[d].todo \ {i} /\ disp'[d].done = disp[d].done \cup {i}
        /\ disp'[d].pc = (IF disp[d].todo = {i} THEN "mark" ELSE "publish")
        /\ disp'[d].stop = disp[d].stop /\ disp'[d].failed = disp[d].failed
    BY <2>1, <1>a DEF DispType
  <2>3. UNCHANGED <<txn, lock, flight, published, heard>>
    BY <1>2 DEF Publish
  <2>4. Undisturbed(d)'
    BY <1>d, <2>2, <2>3 DEF Undisturbed
  <2>5. Accounted'
    BY <1>g, <1>h, <2>1, <2>2, <2>3 DEF Accounted
  <2>6. Serves(d)'
    BY <2>2 DEF Serves
  <2>7. Unpublished' = Unpublished
    BY <2>3 DEF Unpublished, Visible
  <2>8. KickInHand'
    BY <1>b, <1>h, <2>2, <2>3, <2>6, <2>7, SameKicks
  <2>9. QED
    BY <1>f, <2>4, <2>5, <2>8 DEF Calm
<1>3. CASE PublishFails(d) \/ PassFault(d)
  BY <1>3, <1>i DEF PublishFails, PassFault
<1>4. CASE MarkPublished(d)
  <2>1. /\ disp'[d].pc = "read" /\ disp'[d].todo = {} /\ disp'[d].done = {}
        /\ disp'[d].failed = FALSE /\ disp'[d].stop = disp[d].stop
    BY <1>4, <1>a, <1>d DEF MarkPublished, AfterPass, DispType, Undisturbed
  <2>2. /\ published' = published \cup disp[d].done
        /\ UNCHANGED <<txn, lock, flight, delivered, heard>>
    BY <1>4 DEF MarkPublished
  <2>3. Undisturbed(d)'
    BY <1>d, <2>1, <2>2 DEF Undisturbed
  <2>4. Accounted'
    BY <1>g, <1>h, <2>2 DEF Accounted
  <2>5. Serves(d)'
    BY <2>1 DEF Serves
  <2>6. Unpublished' \subseteq Unpublished
    BY <2>2 DEF Unpublished, Visible
  <2>7. KickInHand'
    BY <1>b, <1>h, <2>1, <2>2, <2>5, <2>6, SameKicks
  <2>8. QED
    BY <1>f, <2>3, <2>4, <2>7 DEF Calm
<1>5. CASE Prune(d) \/ Release(d)
  <2>1. /\ disp'[d].pc \in {"release", "wait"} /\ disp[d].pc \in {"prune", "release"}
        /\ disp'[d].kicked = disp[d].kicked /\ disp'[d].stop = disp[d].stop
        /\ disp'[d].failed = disp[d].failed
        /\ disp'[d].todo = disp[d].todo /\ disp'[d].done = disp[d].done
        /\ disp'[d].pc = "release" => lock' = lock
    BY <1>5, <1>a, <1>d DEF Prune, Release, DispType
  <2>2. UNCHANGED <<txn, flight, delivered, published, heard>>
    BY <1>5 DEF Prune, Release
  <2>3. Undisturbed(d)'
    BY <1>d, <2>1, <2>2 DEF Undisturbed, InDrain
  <2>4. Accounted'
    BY <1>g, <1>h, <2>1, <2>2 DEF Accounted
  <2>5. Serves(d) => Serves(d)'
    BY <2>1 DEF Serves, Up
  <2>6. Unpublished' = Unpublished
    BY <2>2 DEF Unpublished, Visible
  <2>7. KickInHand'
    BY <1>b, <1>h, <2>1, <2>2, <2>5, <2>6, SameKicks
  <2>8. QED
    BY <1>f, <2>3, <2>4, <2>7 DEF Calm
<1>6. QED
  BY <1>1, <1>2, <1>3, <1>4, <1>5 DEF DrainStep

LEMMA LoopKeepsCalm ==
  ASSUME DInv, TypeOK, Calm, NEW d \in Dispatchers, LoopStep(d), UNCHANGED spent
  PROVE  Calm'
<1>a. disp \in [Dispatchers -> DispType] /\ disp[d] \in DispType
  BY DEF TypeOK
<1>b. \A e \in Dispatchers : e # d => disp'[e] = disp[e]
  BY <1>a DEF LoopStep, Start, WakeOnKick, WakeOnSweep, TryLock, LockFault, LoseLock, Stop,
     Stopped, Crash
<1>c. ~LockFault(d) /\ ~LoseLock(d) /\ ~Stop(d) /\ ~Crash(d)
  BY DEF LockFault, LoseLock, Stop, Crash, Spend, TypeOK, Budgeted
<1>d. Undisturbed(d) /\ ~Stopped(d)
  BY DEF Calm, Undisturbed, Stopped
<1>e. UNCHANGED <<txn, flight, delivered, published, heard>>
  BY <1>c DEF LoopStep, Start, WakeOnKick, WakeOnSweep, TryLock, Stopped
<1>f. Accounted /\ KickInHand /\ Unpublished' = Unpublished
  BY <1>e DEF Calm, Unpublished, Visible
\* These steps are taken outside a drain, without a batch.
<1>g. /\ disp[d].pc \in {"off", "wait", "lock"} /\ disp'[d].pc \in {"wait", "lock", "read"}
      /\ disp'[d].todo = {} /\ disp'[d].done = {} /\ ~disp'[d].stop /\ ~disp'[d].failed
      /\ disp'[d].pc = "read" => lock' = d
  BY <1>a, <1>c, <1>d DEF LoopStep, Start, WakeOnKick, WakeOnSweep, TryLock, Undisturbed,
     DispType, Off
<1>h. \A e \in Dispatchers : lock = e => lock' = e
  BY <1>c, <1>d, ConstantsAssumption DEF LoopStep, Start, WakeOnKick, WakeOnSweep, TryLock
<1>1. \A e \in Dispatchers : e # d => Undisturbed(e)'
  BY <1>b, <1>e, <1>h, OthersStayCalm
<1>2. Undisturbed(d)'
  BY <1>g DEF Undisturbed, InDrain
<1>3. disp[d].done = {}
  BY <1>d, <1>g DEF Undisturbed
<1>4. Accounted'
  BY <1>b, <1>e, <1>f, <1>3, SameDeliveries
<1>5. CASE TryLock(d) /\ lock # Nobody
  \* The holder is not this loop; it reads once more, or has been kicked.
  <2>1. lock \in Dispatchers /\ disp[lock].pc \in {"read", "publish", "mark", "prune", "release"}
    BY <1>5 DEF TypeOK
  <2>2. lock # d
    BY <1>g, <2>1
  <2>3. KickInHand'
    <3> SUFFICES ASSUME heard \cap Unpublished # {} PROVE KickInHand'
      BY <1>e, <1>f DEF KickInHand
    <3>1. disp[lock].pc \in {"prune", "release"} => disp[lock].kicked
      BY <1>f, <2>1 DEF KickInHand
    <3>2. Serves(lock)
      BY <2>1, <3>1 DEF Serves, Up
    <3>3. disp'[lock] = disp[lock]
      BY <1>b, <2>1, <2>2
    <3>4. \E e \in Dispatchers : Serves(e)'
      BY <2>1, <3>2, <3>3 DEF Serves, Up
    <3>5. \A e \in Dispatchers : disp'[e].pc \in {"prune", "release"} => disp'[e].kicked
      BY <1>b, <1>f, <1>g DEF KickInHand
    <3>6. QED
      BY <3>4, <3>5 DEF KickInHand
  <2>4. QED
    BY <1>1, <1>2, <1>4, <2>3 DEF Calm
<1>6. CASE ~(TryLock(d) /\ lock # Nobody)
  <2>1. Serves(d) => Serves(d)'
    BY <1>a, <1>c, <1>d, <1>6 DEF LoopStep, Start, WakeOnKick, WakeOnSweep, TryLock, Serves,
       Up, DispType, Off
  <2>2. KickInHand'
    BY <1>b, <1>e, <1>f, <1>g, <2>1, SameKicks
  <2>3. QED
    BY <1>1, <1>2, <1>4, <2>2 DEF Calm
<1>7. QED
  BY <1>5, <1>6

LEMMA NextKeepsQInv ==
  ASSUME QInv, [Next]_vars
  PROVE  QInv'
<1>1. DInv' /\ TypeOK' /\ KicksAreCommitted'
  BY NextKeepsDInv, TypeKept, KicksAreCommittedKept DEF QInv
<1>2. ASSUME NoFaultYet'
      PROVE  Calm'
  <2>1. Calm /\ UNCHANGED spent
    BY <1>2, FaultsStay DEF QInv
  <2>2. CASE WriterStep
    BY <2>1, <2>2, WriterKeepsCalm DEF QInv
  <2>3. ASSUME NEW i \in Ids, LateArrival(i)
        PROVE  Calm'
    BY <2>1, <2>3 DEF LateArrival, Calm, Accounted
  <2>4. ASSUME NEW d \in Dispatchers, DrainStep(d) \/ LoopStep(d)
        PROVE  Calm'
    BY <2>1, <2>4, DrainKeepsCalm, LoopKeepsCalm DEF QInv
  <2>5. CASE UNCHANGED vars
    BY <2>1, <2>5 DEF vars, Calm, Undisturbed, Accounted, KickInHand, Serves, Up, Unpublished,
       Visible
  <2>6. QED
    BY <2>2, <2>3, <2>4, <2>5 DEF Next
<1>3. QED
  BY <1>1, <1>2 DEF QInv

LEMMA QInvHolds == Spec => []QInv
<1>1. Init => TypeOK /\ KicksAreCommitted
  BY OffType, ConstantsAssumption DEF Init, TypeOK, KicksAreCommitted, Ids
<1>2. Init => QInv
  BY <1>1, InitDInv, CalmStart DEF QInv
<1>3. QED
  BY <1>2, NextKeepsQInv, PTL DEF Spec

\* Every variable of the outbox keeps its type, and only a loop inside a drain
\* holds the lock.
THEOREM TypeCorrect == Spec => []TypeOK
BY QInvHolds, PTL DEF QInv

\* While nothing fails, no row is published twice, however many processes a
\* deploy leaves running (withAdvisoryLock around drain).
THEOREM RowsArePublishedOnce == Spec => PublishedOnce
<1>1. ASSUME QInv, NoFaultYet, NEW d \in Dispatchers, NEW i \in Ids, Publish(d), NextInBatch(d, i)
      PROVE  i \notin delivered
  <2>1. Undisturbed(d) /\ disp[d].pc = "publish" /\ i \in disp[d].todo
    BY <1>1 DEF QInv, Calm, NextInBatch
  <2>2. lock = d /\ i \notin published /\ i \notin disp[d].done
    BY <2>1 DEF Undisturbed, InDrain
  <2>3. \A e \in Dispatchers : e # d => disp[e].done = {}
    BY <1>1, <2>2 DEF QInv, Calm, Undisturbed, InDrain
  <2>4. QED
    BY <1>1, <2>2, <2>3 DEF QInv, Calm, Accounted
<1>2. QInv => \A d \in Dispatchers, i \in Ids :
                NoFaultYet /\ Publish(d) /\ NextInBatch(d, i) => i \notin delivered
  BY <1>1
<1>3. QED
  BY <1>2, QInvHolds, PTL DEF PublishedOnce

\* While nothing fails, a kick that was heard is not lost on the loops that
\* found the lock taken: when all are back to waiting, its rows are out.
THEOREM KicksAreServed == Spec => []HeardKicksAreServed
<1>1. QInv => HeardKicksAreServed
  BY DEF QInv, Calm, KickInHand, Serves, HeardKicksAreServed
<1>2. QED
  BY <1>1, QInvHolds, PTL

-----------------------------------------------------------------------------
(***************************************************************************)
(* The outbox implements OutboxDelivery, with every fault the model has:   *)
(* lost locks and two drains at once, publishes that arrive late, crashes, *)
(* and transactions that commit in any order.  The argument needs no lock. *)
(* Whatever is waiting in a batch, on its way or delivered has the rows    *)
(* ahead of it delivered, or before it in the batch; and a commit puts     *)
(* nothing ahead of a row that is committed already.                       *)
(***************************************************************************)

\* What is ahead of a row is older and was committed when the row was.
AheadIsCommitted ==
  /\ ahead \in [Ids -> SUBSET Ids]
  /\ \A i \in Ids : \A j \in ahead[i] : j < i /\ j \in Committed

\* What is ahead of whatever a loop, the network or a channel holds.
BatchInOrder(todo) == \A i \in todo : ahead[i] \subseteq delivered \cup todo

Ordered ==
  /\ \A i \in flight \cup delivered : ahead[i] \subseteq delivered
  /\ \A d \in Dispatchers : BatchInOrder(disp[d].todo)

OInv == DInv /\ AheadIsCommitted /\ Ordered

LEMMA InitOInv == Init => OInv
<1> SUFFICES ASSUME Init PROVE OInv
  OBVIOUS
<1>1. DInv
  BY InitDInv
<1>2. AheadIsCommitted
  BY DEF Init, AheadIsCommitted
<1>3. Ordered
  BY OffType DEF Init, Ordered, BatchInOrder
<1>4. QED
  BY <1>1, <1>2, <1>3 DEF OInv

\* A batch cut off by id is closed downwards.
LEMMA OldestIsClosed ==
  ASSUME NEW S \in SUBSET Ids, NEW i \in Oldest(S), NEW j \in S, j < i
  PROVE  j \in Oldest(S)
<1> DEFINE below(k) == {l \in S : l < k}
<1>a. IsFiniteSet(1..MaxId)
  BY FS_Interval, ConstantsAssumption
<1>1. IsFiniteSet(S)
  BY <1>a, FS_Subset DEF Ids
<1>b. i \in Int /\ j \in Int /\ \A k \in S : k \in Int
  BY ConstantsAssumption DEF Oldest, Ids
<1>2. IsFiniteSet(below(i)) /\ IsFiniteSet(below(j))
  BY <1>1, FS_Subset
<1>3. below(j) \in SUBSET below(i)
  <2>1. \A k \in S : k < j => k < i
    BY <1>b
  <2>2. QED
    BY <2>1
<1>4. Cardinality(below(j)) <= Cardinality(below(i))
  BY <1>2, <1>3, FS_Subset
<1>5. Cardinality(below(j)) \in Nat /\ Cardinality(below(i)) \in Nat
  BY <1>2, FS_CardinalityType
<1>6. Cardinality(below(i)) < BatchSize
  BY DEF Oldest
<1>7. Cardinality(below(j)) < BatchSize
  BY <1>4, <1>5, <1>6, ConstantsAssumption
<1>8. QED
  BY <1>7 DEF Oldest

\* findUnpublished: what is older than a row of the batch is in the batch too,
\* or published and so delivered.
LEMMA ReadInOrder ==
  ASSUME OInv
  PROVE  BatchInOrder(Oldest(Unpublished))
<1> SUFFICES ASSUME NEW i \in Oldest(Unpublished), NEW j \in ahead[i]
             PROVE  j \in delivered \cup Oldest(Unpublished)
  BY DEF BatchInOrder
<1>1. j \in Committed /\ j < i
  BY DEF OInv, AheadIsCommitted, Oldest, Unpublished
<1>2. CASE j \in published
  BY <1>2 DEF OInv, DInv, Carried
<1>3. CASE j \notin published
  <2>1. Unpublished \in SUBSET Ids /\ j \in Unpublished
    BY <1>1, <1>3 DEF Unpublished, Visible, Committed
  <2>2. QED
    BY <1>1, <2>1, OldestIsClosed
<1>4. QED
  BY <1>2, <1>3

\* A step that leaves the writers alone and moves one loop.
LEMMA LoopMovesInOrder ==
  ASSUME OInv, NEW d \in Dispatchers,
         disp' \in [Dispatchers -> DispType],
         \A e \in Dispatchers : e # d => disp'[e] = disp[e],
         UNCHANGED <<txn, ahead>>, delivered \subseteq delivered',
         \A i \in flight' \cup delivered' : ahead[i] \subseteq delivered',
         \A i \in disp'[d].todo : ahead[i] \subseteq delivered' \cup disp'[d].todo
  PROVE  AheadIsCommitted' /\ Ordered'
<1>1. AheadIsCommitted'
  BY DEF OInv, AheadIsCommitted, Committed
<1>2. \A e \in Dispatchers : BatchInOrder(disp[e].todo)'
  BY DEF OInv, Ordered, BatchInOrder
<1>3. QED
  BY <1>1, <1>2 DEF Ordered

\* Steps that keep or drop the batch and move no row.
LEMMA QuietLoop ==
  ASSUME OInv, NEW d \in Dispatchers,
         disp' \in [Dispatchers -> DispType],
         \A e \in Dispatchers : e # d => disp'[e] = disp[e],
         disp'[d].todo \in {{}, disp[d].todo},
         UNCHANGED <<txn, ahead, delivered, flight>>
  PROVE  AheadIsCommitted' /\ Ordered'
BY LoopMovesInOrder DEF OInv, Ordered, BatchInOrder

\* A commit names what is ahead of the row it commits, which no loop holds yet.
LEMMA WriterKeepsOrder ==
  ASSUME OInv, WriterStep
  PROVE  AheadIsCommitted' /\ Ordered'
<1> USE DEF OInv, DInv
<1>1. CASE Append
  <2>1. /\ next \in Ids /\ txn' = [txn EXCEPT ![next] = "open"]
        /\ UNCHANGED <<disp, ahead, flight, delivered>>
    BY <1>1 DEF Append
  <2>2. txn[next] = "none"
    BY <2>1, ConstantsAssumption DEF Types, Ids
  <2>3. Committed' = Committed
    BY <2>1, <2>2 DEF Committed, Types
  <2>4. QED
    BY <2>1, <2>3 DEF AheadIsCommitted, Ordered, BatchInOrder
<1>2. ASSUME NEW i \in Ids, Commit(i)
      PROVE  AheadIsCommitted' /\ Ordered'
  <2>1. /\ txn[i] = "open" /\ txn' = [txn EXCEPT ![i] = "committed"]
        /\ ahead' = [ahead EXCEPT ![i] = {j \in Committed : j < i /\ Owner[j] = Owner[i]}]
        /\ UNCHANGED <<disp, flight, delivered>>
    BY <1>2 DEF Commit
  <2>2. Committed' = Committed \cup {i} /\ i \notin Committed
    BY <2>1 DEF Committed, Types
  <2>3. AheadIsCommitted'
    BY <2>1, <2>2, CommittedType DEF AheadIsCommitted
  <2>4. \A k \in Committed : ahead'[k] = ahead[k]
    BY <2>1, <2>2, CommittedType DEF AheadIsCommitted
  <2>5. QED
    BY <2>1, <2>3, <2>4 DEF Ordered, BatchInOrder, Carried
<1>3. ASSUME NEW i \in Ids, Rollback(i)
      PROVE  AheadIsCommitted' /\ Ordered'
  <2>1. /\ txn[i] = "open" /\ txn' = [txn EXCEPT ![i] = "rolledback"]
        /\ UNCHANGED <<disp, ahead, flight, delivered>>
    BY <1>3 DEF Rollback
  <2>2. Committed' = Committed
    BY <2>1 DEF Committed, Types
  <2>3. QED
    BY <2>1, <2>2 DEF AheadIsCommitted, Ordered, BatchInOrder
<1>4. ASSUME NEW i \in Ids, Kick(i)
      PROVE  AheadIsCommitted' /\ Ordered'
  <2>1. PICK reached \in SUBSET Dispatchers :
          disp' = [d \in Dispatchers |->
                     IF d \in reached THEN [disp[d] EXCEPT !.kicked = TRUE] ELSE disp[d]]
    BY <1>4 DEF Kick
  <2>2. \A d \in Dispatchers : disp'[d].todo = disp[d].todo
    BY <2>1 DEF Types, DispType
  <2>3. UNCHANGED <<txn, ahead, flight, delivered>>
    BY <1>4 DEF Kick
  <2>4. QED
    BY <2>2, <2>3 DEF AheadIsCommitted, Ordered, BatchInOrder, Committed
<1>5. QED
  BY <1>1, <1>2, <1>3, <1>4 DEF WriterStep

\* dispatchBatch publishes in id order, so the next row's elders are out.
LEMMA NextRowIsDue ==
  ASSUME OInv, NEW d \in Dispatchers, NEW i \in Ids, NextInBatch(d, i)
  PROVE  ahead[i] \subseteq delivered
<1> SUFFICES ASSUME NEW j \in ahead[i] PROVE j \in delivered
  OBVIOUS
<1>1. j \in Ids /\ j < i
  BY DEF OInv, AheadIsCommitted
<1>2. j \notin disp[d].todo
  BY <1>1, ConstantsAssumption DEF NextInBatch, Ids
<1>3. QED
  BY <1>2 DEF OInv, Ordered, BatchInOrder, NextInBatch

LEMMA DrainKeepsOrder ==
  ASSUME OInv, DInv', NEW d \in Dispatchers, DrainStep(d)
  PROVE  AheadIsCommitted' /\ Ordered'
<1>a. disp \in [Dispatchers -> DispType] /\ disp' \in [Dispatchers -> DispType]
  BY DEF OInv, DInv, Types
<1>b. disp[d] \in DispType
  BY <1>a
<1>1. CASE ReadBatch(d)
  <2>1. disp'[d].todo = IF disp[d].stop THEN {} ELSE Oldest(Unpublished)
    BY <1>1, <1>a DEF ReadBatch, DispType
  <2>2. \A e \in Dispatchers : e # d => disp'[e] = disp[e]
    BY <1>1, <1>a DEF ReadBatch
  <2>3. UNCHANGED <<txn, ahead, flight, delivered>>
    BY <1>1 DEF ReadBatch
  <2>4. \A i \in flight' \cup delivered' : ahead[i] \subseteq delivered'
    BY <2>3 DEF OInv, Ordered
  <2>5. \A i \in disp'[d].todo : ahead[i] \subseteq delivered' \cup disp'[d].todo
    BY <2>1, <2>3, ReadInOrder DEF BatchInOrder
  <2>6. QED
    BY <1>a, <2>2, <2>3, <2>4, <2>5, LoopMovesInOrder
<1>2. CASE Publish(d)
  <2>1. PICK i \in Ids :
          /\ NextInBatch(d, i)
          /\ delivered' = delivered \cup {i}
          /\ disp' = [disp EXCEPT ![d].todo = @ \ {i}, ![d].done = @ \cup {i},
                        ![d].pc = IF disp[d].todo = {i} THEN "mark" ELSE "publish"]
    BY <1>2 DEF Publish
  <2>2. disp'[d].todo = disp[d].todo \ {i}
    BY <1>a, <2>1 DEF DispType
  <2>3. \A e \in Dispatchers : e # d => disp'[e] = disp[e]
    BY <1>a, <2>1
  <2>4. UNCHANGED <<txn, ahead, flight>>
    BY <1>2 DEF Publish
  <2>5. ahead[i] \subseteq delivered
    BY <2>1, NextRowIsDue
  <2>6. \A k \in flight' \cup delivered' : ahead[k] \subseteq delivered'
    BY <2>1, <2>4, <2>5 DEF OInv, Ordered
  <2>7. \A k \in disp'[d].todo : ahead[k] \subseteq delivered' \cup disp'[d].todo
    BY <2>1, <2>2 DEF OInv, Ordered, BatchInOrder
  <2>8. QED
    BY <1>a, <2>1, <2>3, <2>4, <2>6, <2>7, LoopMovesInOrder
<1>3. CASE PublishFails(d)
  <2>1. PICK i \in Ids :
          /\ NextInBatch(d, i)
          /\ flight' \in {flight, flight \cup {i}}
          /\ disp' = [disp EXCEPT ![d].pc = "mark", ![d].failed = TRUE]
    BY <1>3 DEF PublishFails
  <2>2. disp'[d].todo = disp[d].todo
    BY <1>a, <2>1 DEF DispType
  <2>3. \A e \in Dispatchers : e # d => disp'[e] = disp[e]
    BY <1>a, <2>1
  <2>4. UNCHANGED <<txn, ahead, delivered>>
    BY <1>3 DEF PublishFails
  <2>5. ahead[i] \subseteq delivered
    BY <2>1, NextRowIsDue
  <2>6. \A k \in flight' \cup delivered' : ahead[k] \subseteq delivered'
    BY <2>1, <2>4, <2>5 DEF OInv, Ordered
  <2>7. \A k \in disp'[d].todo : ahead[k] \subseteq delivered' \cup disp'[d].todo
    BY <2>2, <2>4 DEF OInv, Ordered, BatchInOrder
  <2>8. QED
    BY <1>a, <2>3, <2>4, <2>6, <2>7, LoopMovesInOrder
<1>4. CASE MarkPublished(d) \/ PassFault(d)
  <2>1. disp'[d].todo = {}
    BY <1>4, <1>a DEF MarkPublished, PassFault, AfterPass, DispType
  <2>2. \A e \in Dispatchers : e # d => disp'[e] = disp[e]
    BY <1>4, <1>a DEF MarkPublished, PassFault, AfterPass
  <2>3. UNCHANGED <<txn, ahead, delivered, flight>>
    BY <1>4 DEF MarkPublished, PassFault
  <2>4. QED
    BY <1>a, <2>1, <2>2, <2>3, QuietLoop
<1>5. CASE Prune(d)
  <2>1. disp'[d].todo = disp[d].todo
    BY <1>5, <1>a DEF Prune, DispType
  <2>2. \A e \in Dispatchers : e # d => disp'[e] = disp[e]
    BY <1>5, <1>a DEF Prune
  <2>3. QED
    BY <1>5, <1>a, <2>1, <2>2, QuietLoop DEF Prune
<1>6. CASE Release(d)
  <2>1. disp'[d].todo \in {{}, disp[d].todo}
    BY <1>6, <1>a, <1>b DEF Release, DispType, Off
  <2>2. \A e \in Dispatchers : e # d => disp'[e] = disp[e]
    BY <1>6, <1>a DEF Release
  <2>3. QED
    BY <1>6, <1>a, <2>1, <2>2, QuietLoop DEF Release
<1>7. QED
  BY <1>1, <1>2, <1>3, <1>4, <1>5, <1>6 DEF DrainStep

LEMMA LoopKeepsOrder ==
  ASSUME OInv, DInv', NEW d \in Dispatchers, LoopStep(d)
  PROVE  AheadIsCommitted' /\ Ordered'
<1>a. disp \in [Dispatchers -> DispType] /\ disp' \in [Dispatchers -> DispType]
  BY DEF OInv, DInv, Types
<1>b. UNCHANGED <<txn, ahead, delivered, flight>>
  BY DEF LoopStep, Start, WakeOnKick, WakeOnSweep, TryLock, LockFault, LoseLock, Stop,
     Stopped, Crash
<1>c. \A e \in Dispatchers : e # d => disp'[e] = disp[e]
  BY <1>a DEF LoopStep, Start, WakeOnKick, WakeOnSweep, TryLock, LockFault, LoseLock, Stop,
     Stopped, Crash
<1>1. CASE Start(d) \/ LockFault(d) \/ Stopped(d) \/ Crash(d)
  <2>1. disp'[d].todo = {}
    BY <1>1, <1>a DEF Start, LockFault, Stopped, Crash, Off
  <2>2. QED
    BY <1>a, <1>b, <1>c, <2>1, QuietLoop
<1>2. CASE WakeOnKick(d) \/ WakeOnSweep(d) \/ TryLock(d) \/ LoseLock(d) \/ Stop(d)
  <2>1. disp'[d].todo = disp[d].todo
    BY <1>2, <1>a DEF WakeOnKick, WakeOnSweep, TryLock, LoseLock, Stop, DispType
  <2>2. QED
    BY <1>a, <1>b, <1>c, <2>1, QuietLoop
<1>3. QED
  BY <1>1, <1>2 DEF LoopStep

LEMMA LateArrivalKeepsOrder ==
  ASSUME OInv, NEW i \in Ids, LateArrival(i)
  PROVE  AheadIsCommitted' /\ Ordered'
<1>1. /\ i \in flight /\ flight' = flight \ {i} /\ delivered' = delivered \cup {i}
      /\ UNCHANGED <<txn, ahead, disp>>
  BY DEF LateArrival
<1>2. Committed' = Committed
  BY <1>1 DEF Committed
<1>3. QED
  BY <1>1, <1>2 DEF OInv, AheadIsCommitted, Ordered, BatchInOrder

LEMMA NextKeepsOInv ==
  ASSUME OInv, [Next]_vars
  PROVE  OInv'
<1>1. DInv'
  BY NextKeepsDInv DEF OInv
<1>2. CASE WriterStep
  BY <1>1, <1>2, WriterKeepsOrder DEF OInv
<1>3. ASSUME NEW i \in Ids, LateArrival(i)
      PROVE  OInv'
  BY <1>1, <1>3, LateArrivalKeepsOrder DEF OInv
<1>4. ASSUME NEW d \in Dispatchers, DrainStep(d) \/ LoopStep(d)
      PROVE  OInv'
  BY <1>1, <1>4, DrainKeepsOrder, LoopKeepsOrder DEF OInv
<1>5. CASE UNCHANGED vars
  BY <1>1, <1>5 DEF vars, OInv, AheadIsCommitted, Ordered, BatchInOrder, Committed
<1>6. QED
  BY <1>2, <1>3, <1>4, <1>5 DEF Next

-----------------------------------------------------------------------------
\* Appends, kicks and rollbacks stutter, a commit is the abstract commit.
LEMMA WriterRefines ==
  ASSUME OInv, WriterStep
  PROVE  [Promise!Next]_(Promise!vars)
<1> USE DEF OInv, DInv
<1>1. CASE Append
  <2>1. next \in Ids /\ txn' = [txn EXCEPT ![next] = "open"] /\ UNCHANGED <<ahead, delivered>>
    BY <1>1 DEF Append
  <2>2. txn[next] = "none"
    BY <2>1, ConstantsAssumption DEF Types, Ids
  <2>3. Committed' = Committed
    BY <2>1, <2>2 DEF Committed, Types
  <2>4. QED
    BY <2>1, <2>3 DEF Promise!vars
<1>2. ASSUME NEW i \in Ids, Commit(i)
      PROVE  Promise!Commit(i)
  <2>1. txn[i] = "open" /\ txn' = [txn EXCEPT ![i] = "committed"] /\ UNCHANGED delivered
    BY <1>2 DEF Commit
  <2>2. Committed' = Committed \cup {i} /\ i \notin Committed
    BY <2>1 DEF Committed, Types
  <2>3. ahead' = [ahead EXCEPT ![i] = Promise!Older(Committed, i)]
    BY <1>2 DEF Commit, Promise!Older
  <2>4. QED
    BY <2>1, <2>2, <2>3 DEF Promise!Commit
<1>3. ASSUME NEW i \in Ids, Rollback(i) \/ Kick(i)
      PROVE  UNCHANGED Promise!vars
  BY <1>3 DEF Rollback, Kick, Committed, Types, Promise!vars
<1>4. QED
  BY <1>1, <1>2, <1>3 DEF WriterStep, Promise!Next

\* Whatever adds a row to delivered is an abstract delivery.
LEMMA DeliveryRefines ==
  ASSUME OInv, NEW i \in Committed, ahead[i] \subseteq delivered,
         delivered' = delivered \cup {i}, UNCHANGED <<txn, ahead>>
  PROVE  Promise!Next
<1>1. i \in Ids /\ Committed' = Committed
  BY DEF Committed
<1>2. Promise!Deliver(i)
  BY <1>1 DEF Promise!Deliver
<1>3. QED
  BY <1>1, <1>2 DEF Promise!Next

LEMMA NextRefines ==
  ASSUME OInv, [Next]_vars
  PROVE  [Promise!Next]_(Promise!vars)
<1>a. ASSUME UNCHANGED <<txn, ahead, delivered>>
      PROVE  UNCHANGED Promise!vars
  BY <1>a DEF Promise!vars, Committed
<1>1. CASE WriterStep
  BY <1>1, WriterRefines
<1>2. ASSUME NEW i \in Ids, LateArrival(i)
      PROVE  Promise!Next
  <2>1. i \in Committed /\ ahead[i] \subseteq delivered
    BY <1>2 DEF LateArrival, OInv, DInv, Carried, Ordered
  <2>2. QED
    BY <1>2, <2>1, DeliveryRefines DEF LateArrival
<1>3. ASSUME NEW d \in Dispatchers, Publish(d)
      PROVE  Promise!Next
  <2>1. PICK i \in Ids : NextInBatch(d, i) /\ delivered' = delivered \cup {i}
    BY <1>3 DEF Publish
  <2>2. i \in Committed /\ ahead[i] \subseteq delivered
    BY <2>1, NextRowIsDue DEF NextInBatch, OInv, DInv, Carried
  <2>3. QED
    BY <1>3, <2>1, <2>2, DeliveryRefines DEF Publish
<1>4. ASSUME NEW d \in Dispatchers, DrainStep(d), ~Publish(d)
      PROVE  UNCHANGED <<txn, ahead, delivered>>
  BY <1>4 DEF DrainStep, ReadBatch, PublishFails, MarkPublished, PassFault, Prune, Release
<1>5. ASSUME NEW d \in Dispatchers, LoopStep(d)
      PROVE  UNCHANGED <<txn, ahead, delivered>>
  BY <1>5 DEF LoopStep, Start, WakeOnKick, WakeOnSweep, TryLock, LockFault, LoseLock,
     Stop, Stopped, Crash
<1>6. CASE UNCHANGED vars
  BY <1>6, <1>a DEF vars
<1>7. QED
  BY <1>1, <1>2, <1>3, <1>4, <1>5, <1>6, <1>a DEF Next

LEMMA InitRefines == Init => Promise!Init
BY DEF Init, Promise!Init, Committed

\* Nothing that is delivered for the first time was ahead of what has been.
LEMMA StepFollowsCommits ==
  ASSUME OInv
  PROVE  \A i \in delivered' \ delivered, j \in delivered : i \notin ahead[j]
BY DEF OInv, Ordered

\* The outbox keeps what OutboxDelivery promises, whatever fails and in whatever
\* order the transactions commit: of two rows of a user, the one with the older
\* id that was committed first reaches the channel first (findUnpublished and
\* dispatchBatch read and send in id order and stop at the first failure).  The
\* advisory lock is not needed for it.
THEOREM OutboxKeepsPromise == Spec => KeepsPromise
<1>1. OInv /\ [Next]_vars => OInv'
  BY NextKeepsOInv
<1>2. OInv /\ [Next]_vars => [Promise!Next]_(Promise!vars)
  BY NextRefines
<1>3. QED
  BY <1>1, <1>2, InitOInv, InitRefines, PTL DEF Spec, KeepsPromise, Promise!Spec

\* The same seen by a client: it never sees an event of a user for the first time
\* after a later one that was committed after it.
THEOREM DeliveriesFollowCommitsHolds == Spec => DeliveriesFollowCommits
<1>1. OInv /\ [Next]_vars => OInv'
  BY NextKeepsOInv
<1>2. OInv /\ [Next]_vars =>
        [\A i \in delivered' \ delivered, j \in delivered : i \notin ahead[j]]_vars
  BY StepFollowsCommits
<1>3. QED
  BY <1>1, <1>2, InitOInv, PTL DEF Spec, DeliveriesFollowCommits

=============================================================================
