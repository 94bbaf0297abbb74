---------------------------- MODULE Schedules_proofs ----------------------------
(***************************************************************************)
(* The safety of repeatable jobs over deploys, for every number of         *)
(* schedules, machines, boots, instants and faults.                        *)
(***************************************************************************)
EXTENDS Schedules, WellFoundedInduction, TLAPS

\* Where a boot is, and what it remembers there.
PlacesOK ==
  \A m \in Machines :
    /\ machine[m].asOf <= now /\ machine[m].startedAt <= now
    /\ machine[m].pc = "upsert" => machine[m].asOf <= machine[m].startedAt
    /\ machine[m].pc = "stamp" => machine[m].todo = Wanted[m]
    /\ machine[m].pc \notin {"stamp", "upsert"} => machine[m].todo = {}
    /\ machine[m].pc \in {"down", "snap", "up"} => machine[m].missed = {}

\* An occurrence that is parked since before a machine's snapshot is in it.
OldIsShown ==
  \A m \in Machines : \A n \in machine[m].todo :
    armed[n] \in 1..machine[m].asOf => machine[m].before[n] = armed[n]

CameIsPast == \A o \in came : o[2] <= now

\* The occurrences that are no longer parked, nor ever will be again.
Handled(o) ==
  \/ \E kind \in {"regular", "catchup", "dead"} : <<o, kind>> \in taken
  \/ o \in catchups
  \/ \E m \in Machines : o \in machine[m].missed

HandledIsPast ==
  \A o \in Occurrences : Handled(o) => o[2] <= now /\ armed[o[1]] # o[2]

\* What ran on its schedule neither has been caught up on nor ever will be.
CatchesUpOn(o) ==
  \/ o \in catchups
  \/ <<o, "catchup">> \in taken
  \/ \E m \in Machines : Remembers(m, o[1], o[2])

RegularIsForgotten ==
  \A o \in Occurrences : <<o, "regular">> \in taken /\ o \notin raced => ~CatchesUpOn(o)

\* Every machine that has come this far agrees with what is armed.
ListsAgree ==
  \A m \in Machines, n \in Names \ disputed :
    /\ Registered(m, n) => armed[n] # 0
    /\ Reconciled(m) /\ n \notin Wanted[m] => armed[n] = 0

IInv ==
  /\ TypeOK
  /\ PlacesOK
  /\ OldIsShown
  /\ CameIsPast
  /\ DueRunsAreKept
  /\ HandledIsPast
  /\ RegularIsForgotten
  /\ ListsAgree

-----------------------------------------------------------------------------
\* The next occurrence exists, and is later.
LEMMA LessOnNat == IsWellFoundedOn({ss \in Nat \X Nat : ss[1] < ss[2]}, Nat)
BY NatLessThanWellFounded DEF OpToRel

LEMMA NextDueIsLater ==
  ASSUME NEW n \in Names, NEW t \in 0..Horizon
  PROVE  NextDue(n, t) \in 1..Never /\ NextDue(n, t) > t
<1> USE ConstantsAssumption
<1> DEFINE later == {s \in Due[n] : s > t}
           less == {ss \in Nat \X Nat : ss[1] < ss[2]}
<1>1. later \subseteq 1..Horizon
  OBVIOUS
<1>2. CASE later = {}
  BY <1>2 DEF NextDue, Never
<1>3. CASE later # {}
  <2>1. IsWellFoundedOn(less, Nat)
    BY LessOnNat
  <2>2. later \subseteq Nat
    BY <1>1
  <2> HIDE DEF later, less
  <2>3. \E x \in later : \A y \in later : ~ (<<y, x>> \in less)
    BY <1>3, <2>1, <2>2, WFMin
  <2>4. \E x \in later : \A y \in later : x <= y
    <3>1. PICK x \in later : \A y \in later : ~ (<<y, x>> \in less)
      BY <2>3
    <3>2. ASSUME NEW y \in later PROVE x <= y
      <4>1. x \in Nat /\ y \in Nat /\ <<y, x>> \notin less
        BY <2>2, <3>1
      <4>2. ~ (y < x)
        BY <4>1 DEF less
      <4>3. QED
        BY <4>1, <4>2
    <3>3. QED
      BY <3>2
  <2>5. QED
    BY <1>1, <2>4 DEF NextDue, Never, later
<1>4. QED
  BY <1>2, <1>3

-----------------------------------------------------------------------------
\* What the steps do to a machine, field by field.
Becomes(m, r) ==
  /\ r \in MachineType
  /\ machine' \in [Machines -> MachineType] /\ machine'[m] = r
  /\ \A x \in Machines \ {m} : machine'[x] = machine[x]

LEMMA OthersStay ==
  ASSUME TypeOK, NEW m \in Machines, NEW r \in MachineType, machine' = [machine EXCEPT ![m] = r]
  PROVE  Becomes(m, r)
BY DEF TypeOK, Becomes

LEMMA DownType == Down \in MachineType /\ [Down EXCEPT !.pc = "up"] \in MachineType
<1>1. Blank \in [Names -> 0..Never] /\ 0 \in 0..Horizon
  BY ConstantsAssumption DEF Blank, Never
<1>2. QED
  BY <1>1 DEF Down, MachineType

LEMMA BootEffect ==
  ASSUME TypeOK, NEW m \in Machines, Boot(m)
  PROVE  /\ Becomes(m, machine'[m])
         /\ machine[m].pc = "down" /\ machine'[m].pc = "snap"
         /\ machine'[m].todo = machine[m].todo /\ machine'[m].missed = machine[m].missed
         /\ machine'[m].asOf = machine[m].asOf /\ machine'[m].startedAt = machine[m].startedAt
<1> DEFINE new == [machine[m] EXCEPT !.pc = "snap"]
<1>1. machine[m] \in MachineType
  BY DEF TypeOK
<1>2. /\ new \in MachineType
      /\ new.pc = "snap" /\ new.todo = machine[m].todo /\ new.missed = machine[m].missed
      /\ new.asOf = machine[m].asOf /\ new.startedAt = machine[m].startedAt
  BY <1>1 DEF MachineType
<1>3. machine' = [machine EXCEPT ![m] = new]
  BY DEF Boot, TypeOK
<1> HIDE DEF new
<1>4. QED
  BY <1>2, <1>3, OthersStay DEF Becomes, Boot

LEMMA SnapshotEffect ==
  ASSUME TypeOK, NEW m \in Machines, Snapshot(m)
  PROVE  /\ Becomes(m, machine'[m])
         /\ machine[m].pc = "snap" /\ machine'[m].pc = "stamp"
         /\ machine'[m].before = armed /\ machine'[m].asOf = now
         /\ machine'[m].todo = Wanted[m] /\ machine'[m].missed = machine[m].missed
         /\ machine'[m].startedAt = machine[m].startedAt
<1> DEFINE new == [machine[m] EXCEPT !.pc = "stamp", !.before = armed, !.asOf = now,
                                     !.todo = Wanted[m]]
<1>1. machine[m] \in MachineType
  BY DEF TypeOK
<1>2. armed \in [Names -> 0..Never] /\ now \in 0..Horizon /\ Wanted[m] \in SUBSET Names
  BY ConstantsAssumption DEF TypeOK
<1>3. /\ new \in MachineType
      /\ new.pc = "stamp" /\ new.before = armed /\ new.asOf = now /\ new.todo = Wanted[m]
      /\ new.missed = machine[m].missed /\ new.startedAt = machine[m].startedAt
  BY <1>1, <1>2 DEF MachineType
<1>4. machine' = [machine EXCEPT ![m] = new]
  BY DEF Snapshot, TypeOK
<1> HIDE DEF new
<1>5. QED
  BY <1>3, <1>4, OthersStay DEF Becomes, Snapshot

LEMMA StampEffect ==
  ASSUME TypeOK, NEW m \in Machines, Stamp(m)
  PROVE  /\ Becomes(m, machine'[m])
         /\ machine[m].pc = "stamp" /\ machine'[m].pc = "upsert"
         /\ machine'[m].startedAt = now
         /\ machine'[m].before = machine[m].before /\ machine'[m].asOf = machine[m].asOf
         /\ machine'[m].todo = machine[m].todo /\ machine'[m].missed = machine[m].missed
<1> DEFINE new == [machine[m] EXCEPT !.pc = "upsert", !.startedAt = now]
<1>1. machine[m] \in MachineType /\ now \in 0..Horizon
  BY DEF TypeOK
<1>2. /\ new \in MachineType
      /\ new.pc = "upsert" /\ new.startedAt = now
      /\ new.before = machine[m].before /\ new.asOf = machine[m].asOf
      /\ new.todo = machine[m].todo /\ new.missed = machine[m].missed
  BY <1>1 DEF MachineType
<1>3. machine' = [machine EXCEPT ![m] = new]
  BY DEF Stamp, TypeOK
<1> HIDE DEF new
<1>4. QED
  BY <1>2, <1>3, OthersStay DEF Becomes, Stamp

LEMMA UpsertEffect ==
  ASSUME TypeOK, PlacesOK, NEW m \in Machines, NEW n \in Names, Upsert(m, n)
  PROVE  /\ Becomes(m, machine'[m])
         /\ machine[m].pc = "upsert" /\ machine'[m].pc = "upsert" /\ n \in machine[m].todo
         /\ machine'[m].startedAt = machine[m].startedAt
         /\ machine'[m].before = machine[m].before /\ machine'[m].asOf = machine[m].asOf
         /\ machine'[m].todo = machine[m].todo \ {n}
         /\ machine[m].missed \subseteq machine'[m].missed
         /\ machine'[m].missed \subseteq machine[m].missed \cup {<<n, machine[m].before[n]>>}
         /\ CameDue(m, n) => <<n, machine[m].before[n]>> \in machine'[m].missed
         /\ ~CameDue(m, n) => machine'[m].missed = machine[m].missed
<1> DEFINE added == IF CameDue(m, n) THEN {<<n, machine[m].before[n]>>} ELSE {}
           new == [machine[m] EXCEPT !.todo = @ \ {n}, !.missed = @ \cup added]
<1>1. machine[m] \in MachineType
  BY DEF TypeOK
<1>2. added \subseteq Occurrences
  BY <1>1, ConstantsAssumption DEF CameDue, PlacesOK, TypeOK, MachineType, Occurrences, Times
<1>3. machine' = [machine EXCEPT ![m] = new]
  BY DEF Upsert
<1>4. /\ machine[m].pc = "upsert" /\ n \in machine[m].todo
  BY DEF Upsert
<1>5. /\ added \subseteq {<<n, machine[m].before[n]>>}
      /\ CameDue(m, n) => <<n, machine[m].before[n]>> \in added
      /\ ~CameDue(m, n) => added = {}
  OBVIOUS
<1> HIDE DEF added
<1>6. /\ new \in MachineType
      /\ new.pc = machine[m].pc /\ new.startedAt = machine[m].startedAt
      /\ new.before = machine[m].before /\ new.asOf = machine[m].asOf
      /\ new.todo = machine[m].todo \ {n} /\ new.missed = machine[m].missed \cup added
  BY <1>1, <1>2 DEF MachineType
<1> HIDE DEF new
<1>7. Becomes(m, new)
  BY <1>3, <1>6, OthersStay
<1>8. QED
  BY <1>4, <1>5, <1>6, <1>7 DEF Becomes

LEMMA ReconcileEffect ==
  ASSUME TypeOK, NEW m \in Machines, Reconcile(m)
  PROVE  /\ Becomes(m, machine'[m])
         /\ machine[m].pc = "upsert" /\ machine'[m].pc = "replay"
         /\ machine[m].todo = {} /\ machine'[m].todo = {}
         /\ machine'[m].missed = machine[m].missed
         /\ machine'[m].asOf = machine[m].asOf /\ machine'[m].startedAt = machine[m].startedAt
<1> DEFINE new == [machine[m] EXCEPT !.pc = "replay"]
<1>1. machine[m] \in MachineType
  BY DEF TypeOK
<1>2. /\ new \in MachineType
      /\ new.pc = "replay" /\ new.todo = machine[m].todo /\ new.missed = machine[m].missed
      /\ new.asOf = machine[m].asOf /\ new.startedAt = machine[m].startedAt
  BY <1>1 DEF MachineType
<1>3. machine' = [machine EXCEPT ![m] = new]
  BY DEF Reconcile, TypeOK
<1>4. machine[m].pc = "upsert" /\ machine[m].todo = {}
  BY DEF Reconcile
<1> HIDE DEF new
<1>5. QED
  BY <1>2, <1>3, <1>4, OthersStay DEF Becomes

LEMMA ReplayEffect ==
  ASSUME TypeOK, NEW m \in Machines, NEW o, Replay(m, o)
  PROVE  /\ Becomes(m, machine'[m])
         /\ machine[m].pc = "replay" /\ machine'[m].pc = "replay"
         /\ o \in machine[m].missed /\ o \in Occurrences
         /\ machine'[m].missed = machine[m].missed \ {o}
         /\ machine'[m].todo = machine[m].todo /\ machine'[m].before = machine[m].before
         /\ machine'[m].asOf = machine[m].asOf /\ machine'[m].startedAt = machine[m].startedAt
<1> DEFINE new == [machine[m] EXCEPT !.missed = @ \ {o}]
<1>1. machine[m] \in MachineType
  BY DEF TypeOK
<1>2. /\ new \in MachineType
      /\ new.pc = machine[m].pc /\ new.missed = machine[m].missed \ {o}
      /\ new.todo = machine[m].todo /\ new.before = machine[m].before
      /\ new.asOf = machine[m].asOf /\ new.startedAt = machine[m].startedAt
  BY <1>1 DEF MachineType
<1>3. machine' = [machine EXCEPT ![m] = new]
  BY DEF Replay, TypeOK
<1>4. machine[m].pc = "replay" /\ o \in machine[m].missed /\ o \in Occurrences
  BY <1>1 DEF Replay, MachineType
<1> HIDE DEF new
<1>5. QED
  BY <1>2, <1>3, <1>4, OthersStay DEF Becomes

\* A boot ends, or a machine goes down: nothing is remembered.
LEMMA BlankEffect ==
  ASSUME TypeOK, NEW m \in Machines, ReplayDone(m) \/ Stop(m) \/ Crash(m)
  PROVE  /\ Becomes(m, machine'[m])
         /\ machine'[m].todo = {} /\ machine'[m].missed = {}
         /\ machine'[m].asOf = 0 /\ machine'[m].startedAt = 0
         /\ \/ machine[m].pc = "replay" /\ machine'[m].pc = "up" /\ machine[m].missed = {}
            \/ machine[m].pc = "up" /\ machine'[m].pc = "down"
            \/ Crash(m) /\ machine'[m].pc = "down"
<1>1. \E r \in {Down, [Down EXCEPT !.pc = "up"]} : machine' = [machine EXCEPT ![m] = r]
  BY DEF ReplayDone, Stop, Crash
<1>2. Becomes(m, machine'[m])
  BY <1>1, DownType, OthersStay DEF Becomes
<1>3. \/ machine[m].pc = "replay" /\ machine'[m] = [Down EXCEPT !.pc = "up"] /\ machine[m].missed = {}
      \/ machine[m].pc = "up" /\ machine'[m] = Down
      \/ Crash(m) /\ machine'[m] = Down
  BY DEF ReplayDone, Stop, Crash, TypeOK
<1>4. QED
  BY <1>2, <1>3 DEF Down

\* A schedule that is armed again is armed for later.
LEMMA RearmEffect ==
  ASSUME TypeOK, NEW n \in Names, armed' = [armed EXCEPT ![n] = NextDue(n, now)]
  PROVE  /\ armed' \in [Names -> 0..Never]
         /\ armed'[n] \in 1..Never /\ armed'[n] > now
         /\ \A x \in Names \ {n} : armed'[x] = armed[x]
<1>1. now \in 0..Horizon /\ armed \in [Names -> 0..Never]
  BY DEF TypeOK
<1>2. NextDue(n, now) \in 1..Never /\ NextDue(n, now) > now
  BY <1>1, NextDueIsLater
<1>3. NextDue(n, now) \in 0..Never
  BY <1>2, ConstantsAssumption DEF Never
<1>4. QED
  BY <1>1, <1>2, <1>3

LEMMA SpendType ==
  ASSUME TypeOK, NEW e \in Faults, Spend(e)
  PROVE  spent' \in [Faults -> Nat] /\ \A f \in Faults : spent'[f] <= Limit[f]
<1>1. /\ spent \in [Faults -> Nat] /\ Limit \in [Faults -> Nat]
      /\ spent[e] < Limit[e] /\ spent' = [spent EXCEPT ![e] = @ + 1]
      /\ \A f \in Faults : spent[f] <= Limit[f]
  BY ConstantsAssumption DEF TypeOK, Spend
<1>2. spent[e] \in Nat /\ Limit[e] \in Nat /\ spent[e] + 1 <= Limit[e]
  BY <1>1
<1>3. QED
  BY <1>1, <1>2

-----------------------------------------------------------------------------
\* Every variable keeps its type.
LEMMA TypeStep ==
  ASSUME TypeOK, PlacesOK, [Next]_vars
  PROVE  TypeOK'
<1> USE ConstantsAssumption
<1>1. CASE Tick
  <2>1. now' \in 0..Horizon /\ came' \subseteq Occurrences
    BY <1>1 DEF Tick, TypeOK, Occurrences, Times
  <2>2. QED
    BY <1>1, <2>1 DEF Tick, TypeOK
<1>2. ASSUME NEW m \in Machines, Boot(m) PROVE TypeOK'
  <2>1. machine' \in [Machines -> MachineType]
    BY <1>2, BootEffect DEF Becomes
  <2>2. boots' \in [Machines -> Nat] /\ \A x \in Machines : boots'[x] <= Boots[x]
    BY <1>2 DEF Boot, TypeOK
  <2>3. QED
    BY <1>2, <2>1, <2>2 DEF Boot, TypeOK, histories
<1>3. ASSUME NEW m \in Machines, Snapshot(m) PROVE TypeOK'
  <2>1. machine' \in [Machines -> MachineType]
    BY <1>3, SnapshotEffect DEF Becomes
  <2>2. QED
    BY <1>3, <2>1 DEF Snapshot, TypeOK, histories
<1>4. ASSUME NEW m \in Machines, Stamp(m) PROVE TypeOK'
  <2>1. machine' \in [Machines -> MachineType]
    BY <1>4, StampEffect DEF Becomes
  <2>2. QED
    BY <1>4, <2>1 DEF Stamp, TypeOK, histories
<1>5. ASSUME NEW m \in Machines, NEW n \in Names, Upsert(m, n) PROVE TypeOK'
  <2>1. machine' \in [Machines -> MachineType]
    BY <1>5, UpsertEffect DEF Becomes
  <2>2. armed' \in [Names -> 0..Never]
    BY <1>5, RearmEffect DEF Upsert
  <2>3. dropped' \subseteq Occurrences
    BY <1>5 DEF Upsert, TypeOK, MachineType, Occurrences, Times
  <2>4. disputed' \subseteq Names
    BY <1>5 DEF Upsert, TypeOK
  <2>5. UNCHANGED <<now, catchups, taken, boots, came, raced, spent>>
    BY <1>5 DEF Upsert
  <2>6. QED
    BY <2>1, <2>2, <2>3, <2>4, <2>5 DEF TypeOK
<1>6. ASSUME NEW m \in Machines, Reconcile(m) PROVE TypeOK'
  <2>1. machine' \in [Machines -> MachineType]
    BY <1>6, ReconcileEffect DEF Becomes
  <2>2. PICK kept \in SUBSET ToRemove(m) :
          LET gone == ToRemove(m) \ kept
          IN /\ IF kept = {} THEN UNCHANGED spent ELSE Spend("removeFault")
             /\ armed' = [n \in Names |-> IF n \in gone THEN 0 ELSE armed[n]]
             /\ dropped' = dropped \cup {<<n, armed[n]>> : n \in {x \in gone : armed[x] <= now}}
             /\ disputed' = (disputed \ gone) \cup kept \cup
                  {n \in gone : \E x \in Machines : Registered(x, n)}
    BY <1>6 DEF Reconcile
  <2>3. \A n \in ToRemove(m) : n \in Names /\ armed[n] \in 1..Never
    BY DEF ToRemove, Orphans, TypeOK, Never
  <2>4. armed' \in [Names -> 0..Never]
    BY <2>2 DEF TypeOK, Never
  <2>5. dropped' \subseteq Occurrences
    BY <2>2, <2>3 DEF TypeOK, Occurrences, Times
  <2>6. disputed' \subseteq Names
    BY <2>2, <2>3 DEF TypeOK
  <2>7. spent' \in [Faults -> Nat] /\ \A f \in Faults : spent'[f] <= Limit[f]
    BY <2>2, SpendType DEF TypeOK, Faults
  <2>8. UNCHANGED <<now, catchups, taken, boots, came, raced>>
    BY <1>6 DEF Reconcile
  <2>9. QED
    BY <2>1, <2>4, <2>5, <2>6, <2>7, <2>8 DEF TypeOK
<1>7. ASSUME NEW m \in Machines, NEW o, Replay(m, o) PROVE TypeOK'
  <2>1. machine' \in [Machines -> MachineType] /\ o \in Occurrences
    BY <1>7, ReplayEffect DEF Becomes
  <2>2. spent' \in [Faults -> Nat] /\ \A f \in Faults : spent'[f] <= Limit[f]
    BY <1>7, SpendType DEF Replay, TypeOK, Faults
  <2>3. QED
    BY <1>7, <2>1, <2>2 DEF Replay, TypeOK
<1>8. ASSUME NEW m \in Machines, ReplayDone(m) \/ Stop(m) \/ Crash(m) PROVE TypeOK'
  <2>1. machine' \in [Machines -> MachineType] /\ machine[m] \in MachineType
    BY <1>8, BlankEffect DEF Becomes, TypeOK
  <2>2. spent' \in [Faults -> Nat] /\ \A f \in Faults : spent'[f] <= Limit[f]
    BY <1>8, SpendType DEF ReplayDone, Stop, Crash, TypeOK, Faults
  <2>3. dropped' \subseteq Occurrences
    BY <1>8, <2>1 DEF ReplayDone, Stop, Crash, TypeOK, MachineType, histories
  <2>4. QED
    BY <1>8, <2>1, <2>2, <2>3 DEF ReplayDone, Stop, Crash, TypeOK, histories
<1>9. ASSUME NEW m \in Machines, NEW n \in Names, TakeOccurrence(m, n) PROVE TypeOK'
  <2>1. armed' \in [Names -> 0..Never]
    BY <1>9, RearmEffect DEF TakeOccurrence
  <2>2. <<n, armed[n]>> \in Occurrences
    BY <1>9 DEF TakeOccurrence, TypeOK, Occurrences, Times
  <2>3. QED
    BY <1>9, <2>1, <2>2 DEF TakeOccurrence, TypeOK
<1>10. ASSUME NEW m \in Machines, NEW o \in Occurrences, TakeCatchup(m, o) PROVE TypeOK'
  BY <1>10 DEF TakeCatchup, TypeOK
<1>11. CASE UNCHANGED vars
  BY <1>11 DEF vars, TypeOK, histories
<1>12. QED
  BY <1>1, <1>2, <1>3, <1>4, <1>5, <1>6, <1>7, <1>8, <1>9, <1>10, <1>11
     DEF Next, BootStep, WorkStep

LEMMA PlacesStep ==
  ASSUME TypeOK, PlacesOK, [Next]_vars
  PROVE  PlacesOK'
<1>1. CASE Tick
  BY <1>1 DEF Tick, PlacesOK, TypeOK, MachineType
<1>2. ASSUME NEW m \in Machines, BootStep(m) \/ Boot(m) \/ Stop(m) \/ Crash(m) PROVE PlacesOK'
  <2>1. UNCHANGED now
    <3>1. \A n \in Names : Upsert(m, n) => UNCHANGED now
      BY DEF Upsert
    <3>2. Reconcile(m) => UNCHANGED now
      BY DEF Reconcile
    <3>3. QED
      BY <1>2, <3>1, <3>2 DEF BootStep, Boot, Stop, Crash, Snapshot, Stamp, Replay, ReplayDone
  <2> now \in Nat
    BY DEF TypeOK
  <2>2. CASE Boot(m)
    BY <2>1, <2>2, BootEffect DEF PlacesOK, Becomes
  <2>3. CASE Snapshot(m)
    BY <2>1, <2>3, SnapshotEffect DEF PlacesOK, Becomes
  <2>4. CASE Stamp(m)
    BY <2>1, <2>4, StampEffect DEF PlacesOK, Becomes
  <2>5. ASSUME NEW n \in Names, Upsert(m, n) PROVE PlacesOK'
    <3>1. /\ \A x \in Machines \ {m} : machine'[x] = machine[x]
          /\ machine[m].pc = "upsert" /\ machine'[m].pc = "upsert"
          /\ machine'[m].startedAt = machine[m].startedAt /\ machine'[m].asOf = machine[m].asOf
      BY <2>5, UpsertEffect DEF Becomes
    <3>2. QED
      BY <2>1, <3>1 DEF PlacesOK
  <2>6. CASE Reconcile(m)
    BY <2>1, <2>6, ReconcileEffect DEF PlacesOK, Becomes
  <2>7. ASSUME NEW o, Replay(m, o) PROVE PlacesOK'
    BY <2>1, <2>7, ReplayEffect DEF PlacesOK, Becomes
  <2>8. CASE ReplayDone(m) \/ Stop(m) \/ Crash(m)
    BY <2>1, <2>8, BlankEffect DEF PlacesOK, Becomes
  <2>9. QED
    BY <1>2, <2>2, <2>3, <2>4, <2>5, <2>6, <2>7, <2>8 DEF BootStep
<1>3. CASE UNCHANGED <<now, machine>>
  BY <1>3 DEF PlacesOK
<1>4. QED
  BY <1>1, <1>2, <1>3 DEF Next, WorkStep, TakeOccurrence, TakeCatchup, vars

\* An armed occurrence goes away for good or makes room for a later one.
ArmedMovesOn == \A n \in Names : armed'[n] \in {armed[n], 0} \/ armed'[n] > now

LEMMA ArmedStep ==
  ASSUME TypeOK, [Next]_vars
  PROVE  ArmedMovesOn
<1>1. ASSUME NEW n \in Names, armed' = [armed EXCEPT ![n] = NextDue(n, now)] PROVE ArmedMovesOn
  BY <1>1, RearmEffect DEF ArmedMovesOn
<1>2. ASSUME NEW m \in Machines, Reconcile(m) PROVE ArmedMovesOn
  BY <1>2 DEF Reconcile, ArmedMovesOn
<1>3. CASE UNCHANGED armed
  BY <1>3 DEF ArmedMovesOn
<1>4. QED
  BY <1>1, <1>2, <1>3 DEF Next, Tick, Boot, BootStep, Snapshot, Stamp, Upsert, Replay, ReplayDone,
     WorkStep, TakeOccurrence, TakeCatchup, Stop, Crash, vars

LEMMA ShownStep ==
  ASSUME TypeOK, PlacesOK, OldIsShown, [Next]_vars
  PROVE  OldIsShown'
<1>1. ArmedMovesOn
  BY ArmedStep
<1>2. \A m \in Machines : machine[m].todo \subseteq Names /\ machine[m].asOf \in Nat
  BY DEF TypeOK, MachineType
\* It is enough that the machines remember what they did, or start anew.
<1>3. ASSUME \A m \in Machines :
               \/ /\ machine'[m].todo \subseteq machine[m].todo
                  /\ machine'[m].before = machine[m].before /\ machine'[m].asOf = machine[m].asOf
               \/ machine'[m].todo = {}
               \/ machine'[m].before = armed'
      PROVE  OldIsShown'
  BY <1>1, <1>2, <1>3 DEF OldIsShown, PlacesOK, ArmedMovesOn, TypeOK
<1>4. ASSUME NEW m \in Machines, Boot(m) PROVE OldIsShown'
  BY <1>3, <1>4, BootEffect DEF Becomes, PlacesOK
<1>5. ASSUME NEW m \in Machines, Snapshot(m) PROVE OldIsShown'
  <2>1. UNCHANGED armed
    BY <1>5 DEF Snapshot
  <2>2. QED
    BY <1>3, <1>5, <2>1, SnapshotEffect DEF Becomes
<1>6. ASSUME NEW m \in Machines, Stamp(m) PROVE OldIsShown'
  BY <1>3, <1>6, StampEffect DEF Becomes
<1>7. ASSUME NEW m \in Machines, NEW n \in Names, Upsert(m, n) PROVE OldIsShown'
  BY <1>3, <1>7, UpsertEffect DEF Becomes
<1>8. ASSUME NEW m \in Machines, Reconcile(m) PROVE OldIsShown'
  BY <1>3, <1>8, ReconcileEffect DEF Becomes
<1>9. ASSUME NEW m \in Machines, NEW o, Replay(m, o) PROVE OldIsShown'
  BY <1>3, <1>9, ReplayEffect DEF Becomes
<1>10. ASSUME NEW m \in Machines, ReplayDone(m) \/ Stop(m) \/ Crash(m) PROVE OldIsShown'
  BY <1>3, <1>10, BlankEffect DEF Becomes
<1>11. CASE UNCHANGED machine
  BY <1>3, <1>11
<1>12. QED
  BY <1>4, <1>5, <1>6, <1>7, <1>8, <1>9, <1>10, <1>11
     DEF Next, Tick, BootStep, WorkStep, TakeOccurrence, TakeCatchup, vars

LEMMA CameStep ==
  ASSUME TypeOK, CameIsPast, [Next]_vars
  PROVE  CameIsPast'
<1>1. CASE Tick
  BY <1>1 DEF Tick, CameIsPast, TypeOK, Occurrences, Times
<1>2. CASE UNCHANGED <<now, came>>
  BY <1>2 DEF CameIsPast
<1>3. QED
  BY <1>1, <1>2 DEF Next, Boot, BootStep, Snapshot, Stamp, Upsert, Reconcile, Replay, ReplayDone,
     WorkStep, TakeOccurrence, TakeCatchup, Stop, Crash, vars, histories

\* What a worker or a boot takes out of the queue turns up elsewhere.
Kept(o) ==
  \/ armed[o[1]] = o[2]
  \/ Ran(o)
  \/ o \in catchups
  \/ \E m \in Machines : o \in machine[m].missed

LEMMA KeptStep ==
  ASSUME TypeOK, PlacesOK, OldIsShown, CameIsPast, DueRunsAreKept, [Next]_vars
  PROVE  DueRunsAreKept'
<1>1. \A o \in came \ dropped : Kept(o)
  BY DEF DueRunsAreKept, Kept
<1>2. \A o \in came : o \in Names \X Times /\ o[1] \in Names /\ o[2] \in Nat /\ o[2] >= 1
                      /\ o[2] <= now /\ o = <<o[1], o[2]>>
  <2>1. came \subseteq Names \X (1..Horizon) /\ Horizon \in Nat
    BY ConstantsAssumption DEF TypeOK, Occurrences, Times
  <2>2. QED
    BY <2>1 DEF CameIsPast, Times
\* It is enough to follow what leaves the queue, or a memory.
<1>3. ASSUME came' = came, dropped \subseteq dropped', taken \subseteq taken',
             catchups \subseteq catchups',
             \A o \in came \ dropped' : armed[o[1]] = o[2] => Kept(o)',
             \A o \in came \ dropped' : \A m \in Machines : o \in machine[m].missed => Kept(o)'
      PROVE  DueRunsAreKept'
  <2>1. ASSUME NEW o \in came \ dropped' PROVE Kept(o)'
    <3>1. Kept(o)
      BY <1>1, <1>3, <2>1
    <3>2. CASE Ran(o) \/ o \in catchups
      BY <1>3, <3>2 DEF Kept, Ran
    <3>3. QED
      BY <1>3, <2>1, <3>1, <3>2 DEF Kept
  <2>2. QED
    BY <1>3, <2>1 DEF DueRunsAreKept, Kept
<1>4. CASE Tick
  <2>1. ASSUME NEW o \in came' \ dropped' PROVE Kept(o)'
    <3>1. CASE o \in came
      BY <1>1, <1>4, <2>1, <3>1 DEF Tick, Kept, Ran
    <3>2. CASE \E n \in Names : armed[n] = now' /\ o = <<n, now'>>
      BY <1>4, <3>2 DEF Tick, Kept
    <3>3. QED
      BY <1>4, <2>1, <3>1, <3>2 DEF Tick
  <2>2. QED
    BY <2>1 DEF DueRunsAreKept, Kept
<1>5. ASSUME UNCHANGED <<came, dropped, taken, catchups, armed>>,
             \A m \in Machines : machine[m].missed \subseteq machine'[m].missed
      PROVE  DueRunsAreKept'
  BY <1>3, <1>5 DEF Kept
<1>6. ASSUME NEW m \in Machines, Boot(m) PROVE DueRunsAreKept'
  BY <1>5, <1>6, BootEffect DEF Boot, histories, Becomes
<1>7. ASSUME NEW m \in Machines, Snapshot(m) PROVE DueRunsAreKept'
  BY <1>5, <1>7, SnapshotEffect DEF Snapshot, histories, Becomes
<1>8. ASSUME NEW m \in Machines, Stamp(m) PROVE DueRunsAreKept'
  BY <1>5, <1>8, StampEffect DEF Stamp, histories, Becomes
<1>9. ASSUME NEW m \in Machines, NEW n \in Names, Upsert(m, n) PROVE DueRunsAreKept'
  <2>1. /\ UNCHANGED <<now, catchups, taken, came>>
        /\ dropped' = dropped \cup
             (IF armed[n] \in (machine[m].asOf + 1)..now THEN {<<n, armed[n]>>} ELSE {})
        /\ armed' = [armed EXCEPT ![n] = NextDue(n, now)]
    BY <1>9 DEF Upsert
  <2>2. \A x \in Machines : machine[x].missed \subseteq machine'[x].missed
    BY <1>9, UpsertEffect DEF Becomes
  <2>3. \A x \in Names \ {n} : armed'[x] = armed[x]
    BY <2>1, RearmEffect
  <2>4. ASSUME NEW o \in came \ dropped', armed[o[1]] = o[2] PROVE Kept(o)'
    <3>1. CASE o[1] # n
      BY <1>2, <2>3, <2>4, <3>1 DEF Kept
    <3>2. CASE o[1] = n
      <4>1. machine[m].asOf \in Nat /\ machine[m].startedAt \in Nat /\ now \in Nat
        BY DEF TypeOK, MachineType
      <4>2. armed[n] \in Nat /\ armed[n] >= 1 /\ armed[n] <= now /\ o = <<n, armed[n]>>
        BY <1>2, <2>4, <3>2
      <4>3. ~ (armed[n] \in (machine[m].asOf + 1)..now)
        BY <2>1, <2>4, <4>2
      <4>4. armed[n] <= machine[m].asOf
        BY <4>1, <4>2, <4>3
      <4>5. machine[m].before[n] = armed[n] /\ machine[m].asOf <= machine[m].startedAt
        <5>1. machine[m].pc = "upsert" /\ n \in machine[m].todo
          BY <1>9 DEF Upsert
        <5>2. armed[n] \in 1..machine[m].asOf
          BY <4>1, <4>2, <4>4
        <5>3. QED
          BY <5>1, <5>2 DEF OldIsShown, PlacesOK
      <4>6. CameDue(m, n)
        BY <4>1, <4>2, <4>4, <4>5 DEF CameDue
      <4>7. o \in machine'[m].missed
        BY <1>9, <4>2, <4>5, <4>6, UpsertEffect
      <4>8. QED
        BY <4>7 DEF Kept
    <3>3. QED
      BY <3>1, <3>2
  <2>5. QED
    BY <1>3, <2>1, <2>2, <2>4 DEF Kept
<1>10. ASSUME NEW m \in Machines, Reconcile(m) PROVE DueRunsAreKept'
  <2>1. PICK gone \in SUBSET Names :
          /\ armed' = [n \in Names |-> IF n \in gone THEN 0 ELSE armed[n]]
          /\ dropped' = dropped \cup {<<n, armed[n]>> : n \in {x \in gone : armed[x] <= now}}
    BY <1>10 DEF Reconcile, ToRemove, Orphans
  <2>2. UNCHANGED <<now, catchups, taken, came>>
    BY <1>10 DEF Reconcile
  <2>3. \A x \in Machines : machine[x].missed = machine'[x].missed
    BY <1>10, ReconcileEffect DEF Becomes
  <2>4. ASSUME NEW o \in came \ dropped', armed[o[1]] = o[2] PROVE Kept(o)'
    <3>1. o[1] \in Names /\ o = <<o[1], armed[o[1]]>> /\ armed[o[1]] <= now
      BY <1>2, <2>4
    <3>2. o[1] \notin gone
      BY <2>1, <2>4, <3>1
    <3>3. armed'[o[1]] = armed[o[1]]
      BY <2>1, <3>1, <3>2
    <3>4. QED
      BY <2>4, <3>3 DEF Kept
  <2>5. QED
    BY <1>3, <2>1, <2>2, <2>3, <2>4 DEF Kept
<1>11. ASSUME NEW m \in Machines, NEW o, Replay(m, o) PROVE DueRunsAreKept'
  <2>1. /\ UNCHANGED <<armed, taken, came>>
        /\ \/ catchups' = catchups \cup {o} /\ UNCHANGED dropped
           \/ dropped' = dropped \cup {o} /\ UNCHANGED catchups
    BY <1>11 DEF Replay
  <2>2. \A x \in Machines : machine[x].missed \ {o} \subseteq machine'[x].missed
    BY <1>11, ReplayEffect DEF Becomes
  <2>3. QED
    BY <1>3, <2>1, <2>2 DEF Kept
<1>12. ASSUME NEW m \in Machines, ReplayDone(m) \/ Stop(m) PROVE DueRunsAreKept'
  <2>1. machine[m].missed = {}
    BY <1>12 DEF ReplayDone, Stop, PlacesOK
  <2>2. QED
    BY <1>5, <1>12, <2>1, BlankEffect DEF ReplayDone, Stop, histories, Becomes
<1>13. ASSUME NEW m \in Machines, Crash(m) PROVE DueRunsAreKept'
  <2>1. UNCHANGED <<armed, catchups, taken, came>> /\ dropped' = dropped \cup machine[m].missed
    BY <1>13 DEF Crash
  <2>2. \A x \in Machines \ {m} : machine[x].missed = machine'[x].missed
    BY <1>13, BlankEffect DEF Becomes
  <2>3. QED
    BY <1>3, <2>1, <2>2 DEF Kept
<1>14. ASSUME NEW m \in Machines, NEW n \in Names, TakeOccurrence(m, n) PROVE DueRunsAreKept'
  <2>1. /\ UNCHANGED <<catchups, came, machine>>
        /\ \/ taken' = taken \cup {<<<<n, armed[n]>>, "regular">>} /\ UNCHANGED dropped
           \/ dropped' = dropped \cup {<<n, armed[n]>>} /\ UNCHANGED taken
    BY <1>14 DEF TakeOccurrence
  <2>2. \A x \in Names \ {n} : armed'[x] = armed[x]
    BY <1>14, RearmEffect DEF TakeOccurrence
  <2>3. ASSUME NEW o \in came \ dropped', armed[o[1]] = o[2] PROVE Kept(o)'
    <3>1. CASE o[1] # n
      BY <1>2, <2>2, <2>3, <3>1 DEF Kept
    <3>2. CASE o[1] = n
      <4>1. o = <<n, armed[n]>>
        BY <1>2, <2>3, <3>2
      <4>2. <<o, "regular">> \in taken'
        BY <2>1, <2>3, <4>1
      <4>3. QED
        BY <4>2 DEF Kept, Ran
    <3>3. QED
      BY <3>1, <3>2
  <2>4. QED
    BY <1>3, <2>1, <2>3 DEF Kept
<1>15. ASSUME NEW m \in Machines, NEW o \in Occurrences, TakeCatchup(m, o) PROVE DueRunsAreKept'
  <2>1. /\ UNCHANGED <<armed, catchups, came, machine>>
        /\ dropped \subseteq dropped' /\ taken \subseteq taken'
    BY <1>15 DEF TakeCatchup
  <2>2. QED
    BY <1>3, <2>1 DEF Kept
<1>16. CASE UNCHANGED vars
  BY <1>5, <1>16 DEF vars, histories
<1>17. QED
  BY <1>4, <1>6, <1>7, <1>8, <1>9, <1>10, <1>11, <1>12, <1>13, <1>14, <1>15, <1>16
     DEF Next, BootStep, WorkStep

\* What is handled is not armed again: what a step arms is due later.
LEMMA HandledStep ==
  ASSUME TypeOK, PlacesOK, HandledIsPast, [Next]_vars
  PROVE  HandledIsPast'
<1>1. ArmedMovesOn
  BY ArmedStep
<1>2. now' \in Nat /\ now \in Nat /\ now <= now'
  <2>1. \A m \in Machines, n \in Names : Upsert(m, n) => UNCHANGED now
    BY DEF Upsert
  <2>2. \A m \in Machines : Reconcile(m) => UNCHANGED now
    BY DEF Reconcile
  <2>3. now' = now + 1 \/ UNCHANGED now
    BY <2>1, <2>2 DEF Next, Tick, Boot, BootStep, Snapshot, Stamp, Replay, ReplayDone,
       WorkStep, TakeOccurrence, TakeCatchup, Stop, Crash, vars
  <2>4. QED
    BY <2>3 DEF TypeOK
<1>3. \A o \in Occurrences : o[1] \in Names /\ o[2] \in Nat /\ o[2] >= 1
  BY ConstantsAssumption DEF Occurrences, Times
\* It is enough that whatever comes to be handled is past.
<1>4. ASSUME \A o \in Occurrences :
               Handled(o)' => Handled(o) \/ (o[2] <= now /\ armed'[o[1]] # o[2])
      PROVE  HandledIsPast'
  BY <1>1, <1>2, <1>3, <1>4 DEF HandledIsPast, ArmedMovesOn
<1>5. ASSUME UNCHANGED <<taken, catchups>>,
             \A m \in Machines : machine'[m].missed \subseteq machine[m].missed
      PROVE  HandledIsPast'
  BY <1>4, <1>5 DEF Handled
<1>6. ASSUME NEW m \in Machines, Boot(m) PROVE HandledIsPast'
  BY <1>5, <1>6, BootEffect DEF Boot, Becomes
<1>7. ASSUME NEW m \in Machines, Snapshot(m) PROVE HandledIsPast'
  BY <1>5, <1>7, SnapshotEffect DEF Snapshot, Becomes
<1>8. ASSUME NEW m \in Machines, Stamp(m) PROVE HandledIsPast'
  BY <1>5, <1>8, StampEffect DEF Stamp, Becomes
<1>9. ASSUME NEW m \in Machines, NEW n \in Names, Upsert(m, n) PROVE HandledIsPast'
  <2>1. UNCHANGED <<taken, catchups, now>>
    BY <1>9 DEF Upsert
  <2>2. \A x \in Machines \ {m} : machine'[x].missed = machine[x].missed
    <3>1. Becomes(m, machine'[m])
      BY <1>9, UpsertEffect
    <3>2. QED
      BY <3>1 DEF Becomes
  <2>3. armed'[n] > now /\ armed'[n] \in Nat
    <3>1. armed' = [armed EXCEPT ![n] = NextDue(n, now)]
      BY <1>9 DEF Upsert
    <3>2. armed'[n] \in 1..Never /\ armed'[n] > now
      BY <3>1, RearmEffect
    <3>3. QED
      BY <3>2, ConstantsAssumption DEF Never
  <2>4. ASSUME NEW o \in Occurrences, o \in machine'[m].missed
        PROVE  Handled(o) \/ (o[2] <= now /\ armed'[o[1]] # o[2])
    <3>1. CASE o \in machine[m].missed
      BY <3>1 DEF Handled
    <3>2. CASE o \notin machine[m].missed
      <4>1. o = <<n, machine[m].before[n]>> /\ CameDue(m, n)
        <5>1. /\ machine'[m].missed \subseteq machine[m].missed \cup {<<n, machine[m].before[n]>>}
              /\ ~CameDue(m, n) => machine'[m].missed = machine[m].missed
          BY <1>9, UpsertEffect
        <5>2. QED
          BY <2>4, <3>2, <5>1
      <4>2. machine[m].startedAt \in Nat /\ machine[m].startedAt <= now
        BY DEF TypeOK, MachineType, PlacesOK
      <4>3. o[1] = n /\ o[2] \in Nat /\ o[2] <= machine[m].startedAt
        BY <1>3, <4>1 DEF CameDue
      <4>4. QED
        BY <1>2, <2>3, <4>2, <4>3
    <3>3. QED
      BY <3>1, <3>2
  <2>5. QED
    BY <1>4, <2>1, <2>2, <2>4 DEF Handled
<1>10. ASSUME NEW m \in Machines, Reconcile(m) PROVE HandledIsPast'
  BY <1>5, <1>10, ReconcileEffect DEF Reconcile, Becomes
<1>11. ASSUME NEW m \in Machines, NEW o, Replay(m, o) PROVE HandledIsPast'
  <2>1. UNCHANGED taken /\ catchups' \subseteq catchups \cup {o} /\ o \in machine[m].missed
    BY <1>11 DEF Replay
  <2>2. \A x \in Machines : machine'[x].missed \subseteq machine[x].missed
    BY <1>11, ReplayEffect DEF Becomes
  <2>3. QED
    BY <1>4, <2>1, <2>2 DEF Handled
<1>12. ASSUME NEW m \in Machines, ReplayDone(m) \/ Stop(m) \/ Crash(m) PROVE HandledIsPast'
  BY <1>5, <1>12, BlankEffect DEF ReplayDone, Stop, Crash, Becomes
<1>13. ASSUME NEW m \in Machines, NEW n \in Names, TakeOccurrence(m, n) PROVE HandledIsPast'
  <2>1. /\ UNCHANGED <<catchups, machine, now>> /\ armed[n] \in 1..now
        /\ taken' \subseteq taken \cup {<<<<n, armed[n]>>, "regular">>}
    BY <1>13 DEF TakeOccurrence
  <2>2. armed'[n] > now /\ armed'[n] \in Nat
    <3>1. armed' = [armed EXCEPT ![n] = NextDue(n, now)]
      BY <1>13 DEF TakeOccurrence
    <3>2. armed'[n] \in 1..Never /\ armed'[n] > now
      BY <3>1, RearmEffect
    <3>3. QED
      BY <3>2, ConstantsAssumption DEF Never
  <2>3. ASSUME NEW o \in Occurrences, Handled(o)'
        PROVE  Handled(o) \/ o = <<n, armed[n]>>
    BY <2>1, <2>3 DEF Handled
  <2>4. QED
    BY <1>2, <1>4, <2>1, <2>2, <2>3
<1>14. ASSUME NEW m \in Machines, NEW o \in Occurrences, TakeCatchup(m, o) PROVE HandledIsPast'
  <2>1. /\ UNCHANGED <<catchups, machine>> /\ o \in catchups
        /\ taken' \subseteq taken \cup {<<o, "catchup">>, <<o, "dead">>}
    BY <1>14 DEF TakeCatchup
  <2>2. \A p \in Occurrences : Handled(p)' => Handled(p)
    BY <2>1 DEF Handled
  <2>3. QED
    BY <1>4, <2>2
<1>15. CASE UNCHANGED <<taken, catchups, machine>>
  BY <1>5, <1>15
<1>16. QED
  BY <1>6, <1>7, <1>8, <1>9, <1>10, <1>11, <1>12, <1>13, <1>14, <1>15
     DEF Next, Tick, BootStep, WorkStep, vars

\* A machine comes to remember an occurrence only from what is armed; whatever
\* runs while it is remembered is in raced.
LEMMA RegularStep ==
  ASSUME TypeOK, PlacesOK, HandledIsPast, RegularIsForgotten, [Next]_vars
  PROVE  RegularIsForgotten'
\* It is enough that what may be caught up on is neither new nor had run.
<1>1. ASSUME raced \subseteq raced',
             \A o \in Occurrences :
               CatchesUpOn(o)' /\ <<o, "regular">> \in taken' =>
                 \/ o \in raced'
                 \/ CatchesUpOn(o) /\ <<o, "regular">> \in taken
      PROVE  RegularIsForgotten'
  BY <1>1 DEF RegularIsForgotten
<1>2. ASSUME UNCHANGED <<taken, catchups, raced>>,
             \A x \in Machines, n \in Names, t \in Times :
               Remembers(x, n, t)' => Remembers(x, n, t)
      PROVE  RegularIsForgotten'
  <2>1. \A o \in Occurrences : CatchesUpOn(o)' => CatchesUpOn(o)
    BY <1>2 DEF CatchesUpOn, Occurrences
  <2>2. QED
    BY <1>1, <1>2, <2>1
<1>3. ASSUME UNCHANGED <<taken, catchups, raced>>,
             \A x \in Machines :
               /\ machine'[x].missed \subseteq machine[x].missed
               /\ \/ machine'[x].todo = {}
                  \/ machine'[x].todo = machine[x].todo /\ machine'[x].before = machine[x].before
      PROVE  RegularIsForgotten'
  BY <1>2, <1>3 DEF Remembers
<1>4. ASSUME NEW m \in Machines, Boot(m) PROVE RegularIsForgotten'
  <2>1. machine'[m].todo = {} /\ machine'[m].missed = machine[m].missed
    BY <1>4, BootEffect DEF PlacesOK
  <2>2. \A x \in Machines \ {m} : machine'[x] = machine[x]
    BY <1>4, BootEffect DEF Becomes
  <2>3. QED
    BY <1>3, <1>4, <2>1, <2>2 DEF Boot, histories
<1>5. ASSUME NEW m \in Machines, Snapshot(m) PROVE RegularIsForgotten'
  <2>1. machine'[m].before = armed /\ machine'[m].missed = machine[m].missed
    BY <1>5, SnapshotEffect
  <2>2. \A x \in Machines \ {m} : machine'[x] = machine[x]
    BY <1>5, SnapshotEffect DEF Becomes
  <2>3. UNCHANGED <<taken, catchups, raced>>
    BY <1>5 DEF Snapshot, histories
  <2>4. ASSUME NEW o \in Occurrences, CatchesUpOn(o)', <<o, "regular">> \in taken'
        PROVE  CatchesUpOn(o)
    <3>1. <<o, "regular">> \in taken
      BY <2>3, <2>4
    <3>2. armed[o[1]] # o[2]
      BY <3>1 DEF HandledIsPast, Handled
    <3>3. CASE \E x \in Machines : Remembers(x, o[1], o[2])'
      <4>1. PICK x \in Machines : Remembers(x, o[1], o[2])'
        BY <3>3
      <4>2. Remembers(x, o[1], o[2])
        BY <2>1, <2>2, <3>2, <4>1 DEF Remembers
      <4>3. QED
        BY <4>2 DEF CatchesUpOn
    <3>4. QED
      BY <2>3, <2>4, <3>3 DEF CatchesUpOn
  <2>5. QED
    BY <1>1, <2>3, <2>4
<1>6. ASSUME NEW m \in Machines, Stamp(m) PROVE RegularIsForgotten'
  <2>1. /\ machine'[m].todo = machine[m].todo /\ machine'[m].before = machine[m].before
        /\ machine'[m].missed = machine[m].missed
    BY <1>6, StampEffect
  <2>2. \A x \in Machines \ {m} : machine'[x] = machine[x]
    BY <1>6, StampEffect DEF Becomes
  <2>3. QED
    BY <1>3, <1>6, <2>1, <2>2 DEF Stamp, histories
<1>7. ASSUME NEW m \in Machines, NEW n \in Names, Upsert(m, n) PROVE RegularIsForgotten'
  <2>1. /\ n \in machine[m].todo /\ machine'[m].todo \subseteq machine[m].todo
        /\ machine'[m].before = machine[m].before
        /\ machine'[m].missed \subseteq machine[m].missed \cup {<<n, machine[m].before[n]>>}
    <3>1. machine'[m].todo = machine[m].todo \ {n}
      BY <1>7, UpsertEffect
    <3>2. QED
      BY <1>7, <3>1, UpsertEffect
  <2>2. \A x \in Machines \ {m} : machine'[x] = machine[x]
    <3>1. Becomes(m, machine'[m])
      BY <1>7, UpsertEffect
    <3>2. QED
      BY <3>1 DEF Becomes
  <2>3. UNCHANGED <<taken, catchups, raced>>
    BY <1>7 DEF Upsert
  <2>4. QED
    BY <1>2, <2>1, <2>2, <2>3 DEF Remembers
<1>8. ASSUME NEW m \in Machines, Reconcile(m) PROVE RegularIsForgotten'
  <2>1. machine'[m].todo = {} /\ machine'[m].missed = machine[m].missed
    BY <1>8, ReconcileEffect
  <2>2. \A x \in Machines \ {m} : machine'[x] = machine[x]
    BY <1>8, ReconcileEffect DEF Becomes
  <2>3. UNCHANGED <<taken, catchups, raced>>
    BY <1>8 DEF Reconcile
  <2>4. QED
    BY <1>3, <2>1, <2>2, <2>3
<1>9. ASSUME NEW m \in Machines, NEW o, Replay(m, o) PROVE RegularIsForgotten'
  <2>1. /\ o \in machine[m].missed /\ o \in Occurrences
        /\ machine'[m].missed \subseteq machine[m].missed
        /\ machine'[m].todo = machine[m].todo /\ machine'[m].before = machine[m].before
    BY <1>9, ReplayEffect
  <2>2. \A x \in Machines \ {m} : machine'[x] = machine[x]
    BY <1>9, ReplayEffect DEF Becomes
  <2>3. UNCHANGED <<taken, raced>> /\ catchups' \subseteq catchups \cup {o}
    BY <1>9 DEF Replay
  <2>4. CatchesUpOn(o)
    BY <2>1 DEF CatchesUpOn, Remembers, Occurrences
  <2>5. \A x \in Machines, n \in Names, t \in Times : Remembers(x, n, t)' => Remembers(x, n, t)
    BY <2>1, <2>2 DEF Remembers
  <2>6. \A p \in Occurrences : CatchesUpOn(p)' => CatchesUpOn(p)
    BY <2>3, <2>4, <2>5 DEF CatchesUpOn, Occurrences
  <2>7. QED
    BY <1>1, <2>3, <2>6
<1>10. ASSUME NEW m \in Machines, ReplayDone(m) \/ Stop(m) \/ Crash(m) PROVE RegularIsForgotten'
  <2>1. machine'[m].todo = {} /\ machine'[m].missed = {}
    BY <1>10, BlankEffect
  <2>2. \A x \in Machines \ {m} : machine'[x] = machine[x]
    BY <1>10, BlankEffect DEF Becomes
  <2>3. UNCHANGED <<taken, catchups, raced>>
    BY <1>10 DEF ReplayDone, Stop, Crash, histories
  <2>4. QED
    BY <1>3, <2>1, <2>2, <2>3
<1>11. ASSUME NEW m \in Machines, NEW n \in Names, TakeOccurrence(m, n) PROVE RegularIsForgotten'
  <2> DEFINE o == <<n, armed[n]>>
  <2>1. /\ UNCHANGED <<catchups, machine>>
        /\ taken' = taken \cup {<<o, "regular">>} \/ UNCHANGED taken
        /\ raced' = IF \E x \in Machines : Remembers(x, n, armed[n])
                    THEN raced \cup {o} ELSE raced
    BY <1>11 DEF TakeOccurrence
  <2>2. \A p \in Occurrences : CatchesUpOn(p)' => CatchesUpOn(p)
    BY <2>1 DEF CatchesUpOn, Remembers
  <2>3. CatchesUpOn(o) => o \in raced'
    <3>1. o \in Occurrences
      <4>1. armed[n] \in 1..now
        BY <1>11 DEF TakeOccurrence
      <4>2. armed[n] \in 1..Horizon
        BY <4>1, ConstantsAssumption DEF TypeOK
      <4>3. QED
        BY <4>2 DEF Occurrences, Times
    <3>2. ~Handled(o)
      BY <3>1 DEF HandledIsPast
    <3>3. CASE \E x \in Machines : Remembers(x, n, armed[n])
      BY <2>1, <3>3
    <3>4. QED
      BY <3>2, <3>3 DEF CatchesUpOn, Handled
  <2> HIDE DEF o
  <2>4. QED
    BY <1>1, <2>1, <2>2, <2>3
<1>12. ASSUME NEW m \in Machines, NEW o \in Occurrences, TakeCatchup(m, o) PROVE RegularIsForgotten'
  <2>1. /\ UNCHANGED <<catchups, machine, raced>> /\ o \in catchups
        /\ \E kind \in {"catchup", "dead"} : taken' = taken \cup {<<o, kind>>}
    BY <1>12 DEF TakeCatchup
  <2>2. \A p \in Occurrences : CatchesUpOn(p)' => CatchesUpOn(p)
    BY <2>1 DEF CatchesUpOn, Remembers
  <2>3. \A p \in Occurrences : <<p, "regular">> \in taken' => <<p, "regular">> \in taken
    BY <2>1
  <2>4. QED
    BY <1>1, <2>1, <2>2, <2>3
<1>13. CASE UNCHANGED <<taken, catchups, raced, machine>>
  BY <1>3, <1>13
<1>14. QED
  BY <1>4, <1>5, <1>6, <1>7, <1>8, <1>9, <1>10, <1>11, <1>12, <1>13
     DEF Next, Tick, BootStep, WorkStep, vars, histories

\* A step that arms or removes a schedule behind another machine disputes it.
LEMMA ListsStep ==
  ASSUME TypeOK, PlacesOK, ListsAgree, [Next]_vars
  PROVE  ListsAgree'
<1>1. ASSUME UNCHANGED disputed, \A n \in Names : armed'[n] = 0 <=> armed[n] = 0,
             \A x \in Machines :
               /\ \A n \in Names : Registered(x, n)' => Registered(x, n)
               /\ Reconciled(x)' => Reconciled(x)
      PROVE  ListsAgree'
  BY <1>1 DEF ListsAgree
<1>2. ASSUME UNCHANGED <<disputed, armed>>, NEW m \in Machines,
             \A x \in Machines \ {m} : machine'[x] = machine[x],
             \/ machine'[m].pc \in {"down", "snap", "stamp"}
             \/ machine'[m].pc = "upsert" /\ machine'[m].todo = Wanted[m]
             \/ /\ Reconciled(m) /\ machine'[m].pc \in {"replay", "up"}
                /\ machine'[m].todo = machine[m].todo
      PROVE  ListsAgree'
  <2>1. \A n \in Names : Registered(m, n)' => Registered(m, n)
    BY <1>2 DEF Registered, Reconciled
  <2>2. Reconciled(m)' => Reconciled(m)
    BY <1>2 DEF Reconciled
  <2>3. ASSUME NEW x \in Machines
        PROVE  /\ \A n \in Names : Registered(x, n)' => Registered(x, n)
               /\ Reconciled(x)' => Reconciled(x)
    BY <1>2, <2>1, <2>2 DEF Registered, Reconciled
  <2>4. QED
    BY <1>1, <1>2, <2>3
<1>3. ASSUME NEW m \in Machines, Boot(m) PROVE ListsAgree'
  BY <1>2, <1>3, BootEffect DEF Boot, histories, Becomes
<1>4. ASSUME NEW m \in Machines, Snapshot(m) PROVE ListsAgree'
  BY <1>2, <1>4, SnapshotEffect DEF Snapshot, histories, Becomes
<1>5. ASSUME NEW m \in Machines, Stamp(m) PROVE ListsAgree'
  <2>1. machine'[m].pc = "upsert" /\ machine'[m].todo = Wanted[m]
    BY <1>5, StampEffect DEF PlacesOK
  <2>2. \A x \in Machines \ {m} : machine'[x] = machine[x]
    BY <1>5, StampEffect DEF Becomes
  <2>3. QED
    BY <1>2, <1>5, <2>1, <2>2 DEF Stamp, histories
<1>6. ASSUME NEW m \in Machines, NEW n \in Names, Upsert(m, n) PROVE ListsAgree'
  <2>1. /\ machine[m].pc = "upsert" /\ machine'[m].pc = "upsert"
        /\ machine'[m].todo = machine[m].todo \ {n}
    BY <1>6, UpsertEffect
  <2>2. \A x \in Machines \ {m} : machine'[x] = machine[x]
    <3>1. Becomes(m, machine'[m])
      BY <1>6, UpsertEffect
    <3>2. QED
      BY <3>1 DEF Becomes
  <2>3. /\ armed' = [armed EXCEPT ![n] = NextDue(n, now)]
        /\ disputed' = IF \E x \in Machines : Reconciled(x) /\ n \notin Wanted[x]
                       THEN disputed \cup {n} ELSE disputed \ {n}
    BY <1>6 DEF Upsert
  <2>4. armed'[n] # 0 /\ \A k \in Names \ {n} : armed'[k] = armed[k]
    <3>1. armed'[n] \in 1..Never /\ \A k \in Names \ {n} : armed'[k] = armed[k]
      BY <2>3, RearmEffect
    <3>2. QED
      BY <3>1
  <2>5. \A x \in Machines : Reconciled(x)' <=> Reconciled(x)
    BY <2>1, <2>2 DEF Reconciled
  <2>6. \A x \in Machines, k \in Names \ {n} : Registered(x, k)' <=> Registered(x, k)
    BY <2>1, <2>2 DEF Registered
  <2>7. ASSUME NEW x \in Machines, NEW k \in Names \ disputed'
        PROVE  /\ Registered(x, k)' => armed'[k] # 0
               /\ Reconciled(x)' /\ k \notin Wanted[x] => armed'[k] = 0
    <3>1. CASE k = n
      BY <2>3, <2>4, <2>5, <2>7, <3>1
    <3>2. CASE k # n
      <4>1. k \notin disputed
        BY <2>3, <2>7, <3>2
      <4>2. QED
        BY <2>4, <2>5, <2>6, <2>7, <3>2, <4>1 DEF ListsAgree
    <3>3. QED
      BY <3>1, <3>2
  <2>8. QED
    BY <2>7 DEF ListsAgree
<1>7. ASSUME NEW m \in Machines, Reconcile(m) PROVE ListsAgree'
  <2>1. PICK kept \in SUBSET ToRemove(m) :
          LET gone == ToRemove(m) \ kept
          IN /\ armed' = [n \in Names |-> IF n \in gone THEN 0 ELSE armed[n]]
             /\ disputed' = (disputed \ gone) \cup kept \cup
                  {n \in gone : \E x \in Machines : Registered(x, n)}
    BY <1>7 DEF Reconcile
  <2>2. \A x \in Machines \ {m} : machine'[x] = machine[x]
    BY <1>7, ReconcileEffect DEF Becomes
  <2>3. machine[m].pc = "upsert" /\ machine[m].todo = {} /\ machine'[m].todo = {}
    BY <1>7, ReconcileEffect
  <2>4. \A x \in Machines, n \in Names : Registered(x, n)' => Registered(x, n)
    BY <2>2, <2>3 DEF Registered
  <2>5. \A x \in Machines \ {m} : Reconciled(x)' => Reconciled(x)
    BY <2>2 DEF Reconciled
  <2>6. ASSUME NEW x \in Machines, NEW n \in Names \ disputed'
        PROVE  /\ Registered(x, n)' => armed'[n] # 0
               /\ Reconciled(x)' /\ n \notin Wanted[x] => armed'[n] = 0
    <3>1. CASE n \in ToRemove(m) \ kept
      <4>1. armed'[n] = 0 /\ ~Registered(x, n)
        BY <2>1, <2>6, <3>1
      <4>2. QED
        BY <2>4, <4>1
    <3>2. CASE n \notin ToRemove(m) \ kept
      <4>1. armed'[n] = armed[n] /\ n \notin disputed /\ n \notin ToRemove(m)
        BY <2>1, <2>6, <3>2
      <4>2. n \notin Wanted[m] => armed[n] = 0
        BY <4>1 DEF ToRemove, Orphans
      <4>3. QED
        BY <2>4, <2>5, <4>1, <4>2 DEF ListsAgree
    <3>3. QED
      BY <3>1, <3>2
  <2>7. QED
    BY <2>6 DEF ListsAgree
<1>8. ASSUME NEW m \in Machines, NEW o, Replay(m, o) PROVE ListsAgree'
  <2>1. /\ machine[m].pc = "replay" /\ machine'[m].pc = "replay"
        /\ machine'[m].todo = machine[m].todo
    BY <1>8, ReplayEffect
  <2>2. \A x \in Machines \ {m} : machine'[x] = machine[x]
    BY <1>8, ReplayEffect DEF Becomes
  <2>3. QED
    BY <1>2, <1>8, <2>1, <2>2 DEF Replay, Reconciled
<1>9. ASSUME NEW m \in Machines, ReplayDone(m) \/ Stop(m) \/ Crash(m) PROVE ListsAgree'
  <2>1. \/ machine'[m].pc = "down"
        \/ /\ machine[m].pc = "replay" /\ machine'[m].pc = "up"
           /\ machine'[m].todo = machine[m].todo
    BY <1>9, BlankEffect DEF PlacesOK
  <2>2. \A x \in Machines \ {m} : machine'[x] = machine[x]
    BY <1>9, BlankEffect DEF Becomes
  <2>3. UNCHANGED <<armed, disputed>>
    BY <1>9 DEF ReplayDone, Stop, Crash, histories
  <2>4. QED
    BY <1>2, <2>1, <2>2, <2>3 DEF Reconciled
<1>10. ASSUME NEW m \in Machines, NEW n \in Names, TakeOccurrence(m, n) PROVE ListsAgree'
  <2>1. UNCHANGED <<machine, disputed>> /\ armed[n] \in 1..now
    BY <1>10 DEF TakeOccurrence
  <2>2. armed'[n] \in 1..Never /\ \A k \in Names \ {n} : armed'[k] = armed[k]
    BY <1>10, RearmEffect DEF TakeOccurrence
  <2>3. \A k \in Names : armed'[k] = 0 <=> armed[k] = 0
    BY <2>1, <2>2
  <2>4. QED
    BY <1>1, <2>1, <2>3 DEF Registered, Reconciled
<1>11. CASE UNCHANGED <<armed, machine, disputed>>
  BY <1>1, <1>11 DEF Registered, Reconciled
<1>12. QED
  BY <1>3, <1>4, <1>5, <1>6, <1>7, <1>8, <1>9, <1>10, <1>11
     DEF Next, Tick, BootStep, WorkStep, TakeCatchup, vars, histories

-----------------------------------------------------------------------------
LEMMA InitInv == Init => IInv
<1> SUFFICES ASSUME Init PROVE IInv
  OBVIOUS
<1> USE ConstantsAssumption
<1>1. armed \in [Names -> 0..Never] /\ \A n \in Names : armed[n] = 0
  BY DEF Init, Blank, Never
<1>2. machine \in [Machines -> MachineType] /\ \A m \in Machines : machine[m] = Down
  BY DownType DEF Init
<1>3. TypeOK
  BY <1>1, <1>2 DEF Init, TypeOK
<1>4. PlacesOK
  BY <1>2 DEF Init, PlacesOK, Down
<1>5. OldIsShown
  BY <1>2 DEF OldIsShown, Down
<1>6. CameIsPast /\ DueRunsAreKept
  BY DEF Init, CameIsPast, DueRunsAreKept
<1>7. HandledIsPast /\ RegularIsForgotten
  BY <1>2 DEF Init, HandledIsPast, Handled, RegularIsForgotten, Down
<1>8. ListsAgree
  BY <1>2 DEF ListsAgree, Registered, Reconciled, Down
<1>9. QED
  BY <1>3, <1>4, <1>5, <1>6, <1>7, <1>8 DEF IInv

LEMMA StepInv == IInv /\ [Next]_vars => IInv'
BY TypeStep, PlacesStep, ShownStep, CameStep, KeptStep, HandledStep, RegularStep, ListsStep DEF IInv

\* The inductive invariant holds in every reachable state.
THEOREM Invariance == Spec => []IInv
BY InitInv, StepInv, PTL DEF Spec

\* Every variable keeps its type (of upsertAll's locals, of the queue, and of the
\* histories the properties are stated with).
THEOREM TypeCorrect == Spec => []TypeOK
<1>1. IInv => TypeOK
  BY DEF IInv
<1>2. QED
  BY <1>1, Invariance, PTL

\* However many machines boot, stop, crash and consume in whatever order, an
\* occurrence that came due is still parked, has run, waits as a catch-up or is
\* remembered by a booting machine, unless a known gap has let go of it.
THEOREM DueRunsKept == Spec => []DueRunsAreKept
<1>1. IInv => DueRunsAreKept
  BY DEF IInv
<1>2. QED
  BY <1>1, Invariance, PTL

\* No occurrence runs both on its schedule and as a catch-up, unless a running
\* machine took it while a booting one had it in its snapshot.
THEOREM OccurrencesRunOnce == Spec => []RunsOnce
<1>1. IInv => RunsOnce
  BY DEF IInv, RegularIsForgotten, CatchesUpOn, RunsOnce
<1>2. QED
  BY <1>1, Invariance, PTL

\* When a machine has finished its boot, what is armed is its list, except for
\* schedules that a machine of another version has armed or removed behind it.
THEOREM ListsArmed == Spec => []ListIsArmed
<1>1. IInv => ListIsArmed
  <2> SUFFICES ASSUME IInv, NEW m \in Machines, NEW n \in Names \ disputed, machine[m].pc = "up"
               PROVE  armed[n] # 0 <=> n \in Wanted[m]
    BY DEF ListIsArmed
  <2>1. machine[m].todo = {}
    BY DEF IInv, PlacesOK
  <2>2. QED
    BY <2>1 DEF IInv, ListsAgree, Registered, Reconciled
<1>2. QED
  BY <1>1, Invariance, PTL
=============================================================================
