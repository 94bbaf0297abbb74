------------------------ MODULE TransferReview_proofs ------------------------
(***************************************************************************)
(* The safety of the transfer review, for any number of sessions, rows,    *)
(* answers and calls.  First what holds however calls overlap: types,      *)
(* locks, and that rules and the matcher overrule nobody.  Then what holds *)
(* while no call has gone by a stale row: transfer groups are whole,       *)
(* arrivals are answered, answers and links agree.  Last, the money: every *)
(* balance is what was there before the arrivals plus what they brought,   *)
(* and no reconciliation takes a deposit away.                             *)
(***************************************************************************)
EXTENDS TransferReview, Sums_proofs

Keys == Legs \cup Holdings

RowOK(k, r) ==
  /\ k \in Outflows => r \in OutflowType
  /\ k \in Inflows => r \in InflowType \cup {None}
  /\ k \in Arrivals => r \in ArrivalType \cup {None}
  /\ k \in Holdings => r \in HoldingType \cup {None}

RowsOK(f) == DOMAIN f \subseteq Keys /\ \A k \in DOMAIN f : RowOK(k, f[k])

\* What a session is about to do, place by place.
Group == Groups \cup {None}
Quantities == UNION {[D -> Nat] : D \in SUBSET Accounts}
Withdrawn == UNION {[H -> ArrivalType] : H \in SUBSET Holdings}
Asking == {"claim", "claimed", "giveBack", "arrive", "stamp"}
Quiet == {"idle", "marks", "mark", "match"}

AskType ==
  [at : Asking, row : Outflows, review : Reviews, claims : Seq(Inflows),
   into : Quantities, set : BOOLEAN, group : Group]
ArrivedType ==
  [at : {"arrived"}, row : Outflows, review : Reviews, claims : {<<>>},
   into : Quantities, set : BOOLEAN, group : Group, account : Accounts,
   holding : Holdings \cup {None}, adopts : Typed \cup {None}]
WithdrawType ==
  [at : {"withdraw"}, row : Outflows, only : SUBSET Holdings, group : Group,
   by : {None, "user"}, part : BOOLEAN, claim : Inflows \cup {None}]
UndoType ==
  [at : {"undo"}, row : Outflows, group : Group, by : {None, "user"}, part : BOOLEAN,
   claim : Inflows \cup {None}, arrivals : Withdrawn, closes : SUBSET Holdings]
ClearType ==
  [at : {"clear", "part"}, row : Outflows, group : Group, by : {None, "user"},
   claim : Inflows \cup {None}]
BulkType == [at : {"bulk"}, rows : SUBSET Outflows, review : Bulk \cup {None}]
MarkType == [at : {"mark"}, rows : SUBSET Outflows]
MatchType == [at : {"match"}, rows : SUBSET Outflows, among : SUBSET Inflows]

TaskOK(t) ==
  /\ t.at \in Quiet \cup Asking
       \cup {"arrived", "withdraw", "undo", "clear", "part", "unlink", "bulk"}
  /\ t.at \in Asking => t \in AskType
  /\ t.at \in {"claim", "claimed"} => t.claims # <<>>
  /\ t.at = "arrived" => t \in ArrivedType /\ t.account \in DOMAIN t.into
  /\ t.at = "withdraw" => t \in WithdrawType
  /\ t.at = "undo" => t \in UndoType /\ t.closes \subseteq DOMAIN t.arrivals
  /\ t.at \in {"clear", "part"} => t \in ClearType
  /\ t.at = "bulk" => t \in BulkType
  /\ t.at = "mark" => t \in MarkType
  /\ t.at = "match" => t \in MatchType

-----------------------------------------------------------------------------
\* The inductive invariant.

Shape == DOMAIN own = Sessions /\ DOMAIN task = Sessions /\ DOMAIN db = Keys

RowsTyped == RowsOK(db) /\ \A s \in Sessions : RowsOK(own[s])

\* Two sessions never have written, and so locked, one row.
LocksExclude ==
  \A s, x \in Sessions : s # x => DOMAIN own[s] \cap DOMAIN own[x] = {}

\* What a transaction has written of an outflow claims a rule's authority only
\* for what a rule has answered.
RulesAreKept ==
  \A s \in Sessions, o \in Outflows :
    o \in DOMAIN own[s] /\ own[s][o].by = "rule" => db[o].by = "rule"

TasksTyped == \A s \in Sessions : TaskOK(task[s])

QuietHaveNoLocks == \A s \in Sessions : task[s].at \in Quiet => own[s] = <<>>

IInv ==
  Shape /\ RowsTyped /\ LocksExclude /\ RulesAreKept /\ TasksTyped /\ QuietHaveNoLocks

\* The step of the action property RulesNeverOverrule.
Blank == [group |-> None, review |-> None, by |-> None]
Overrules(o) == db'[o].by = "rule" /\ db[o].by # "rule" /\ db[o] # Blank
NoOverrule == \A o \in Outflows : ~Overrules(o)

-----------------------------------------------------------------------------
\* Functions and rows.

LEMMA OverDomain == ASSUME NEW f, NEW g PROVE DOMAIN (f ++ g) = DOMAIN f \cup DOMAIN g
BY DEF ++

LEMMA OverFirst == ASSUME NEW f, NEW g, NEW k \in DOMAIN f PROVE (f ++ g)[k] = f[k]
BY DEF ++

LEMMA OverSecond ==
  ASSUME NEW f, NEW g, NEW k \in DOMAIN g, k \notin DOMAIN f PROVE (f ++ g)[k] = g[k]
BY DEF ++

LEMMA OverTyped == ASSUME NEW f, NEW g, RowsOK(f), RowsOK(g) PROVE RowsOK(f ++ g)
<1>1. DOMAIN (f ++ g) \subseteq Keys
  BY OverDomain DEF RowsOK
<1>2. ASSUME NEW k \in DOMAIN (f ++ g) PROVE RowOK(k, (f ++ g)[k])
  <2>1. CASE k \in DOMAIN f
    BY <2>1, OverFirst DEF RowsOK
  <2>2. CASE k \notin DOMAIN f
    <3>1. k \in DOMAIN g
      BY <2>2, OverDomain
    <3>2. (f ++ g)[k] = g[k]
      BY <2>2, <3>1, OverSecond
    <3>3. QED
      BY <3>1, <3>2 DEF RowsOK
  <2>3. QED
    BY <2>1, <2>2
<1>3. QED
  BY <1>1, <1>2 DEF RowsOK

LEMMA EmptyDomain == DOMAIN <<>> = {}
OBVIOUS

LEMMA EmptyTyped == RowsOK(<<>>)
BY EmptyDomain DEF RowsOK

LEMMA JustOne == ASSUME NEW k, NEW v PROVE DOMAIN Just(k, v) = {k} /\ Just(k, v)[k] = v
BY DEF Just

\* A key is of one kind.
LEMMA Kinds ==
  /\ \A k \in Outflows : k \in Keys /\ k \notin Inflows \cup Arrivals \cup Holdings
  /\ \A k \in Inflows : k \in Keys /\ k \notin Outflows \cup Arrivals \cup Holdings
  /\ \A k \in Arrivals : k \in Keys /\ k \notin Outflows \cup Inflows \cup Holdings
  /\ \A k \in Holdings : k \in Keys /\ k \notin Outflows \cup Inflows \cup Arrivals
  /\ \A k \in Keys : k \in Outflows \/ k \in Inflows \/ k \in Arrivals \/ k \in Holdings
<1> HIDE DEF Arrivals, Holdings
<1>1. /\ Outflows \cap (Inflows \cup Arrivals \cup Holdings) = {}
      /\ Inflows \cap (Arrivals \cup Holdings) = {} /\ Arrivals \cap Holdings = {}
  BY TransferReviewAssumption
<1>2. QED
  BY <1>1 DEF Keys, Legs

LEMMA RowKinds ==
  ASSUME NEW k, NEW r
  PROVE  /\ k \in Outflows /\ r \in OutflowType => RowOK(k, r)
         /\ k \in Inflows /\ r \in InflowType \cup {None} => RowOK(k, r)
         /\ k \in Arrivals /\ r \in ArrivalType \cup {None} => RowOK(k, r)
         /\ k \in Holdings /\ r \in HoldingType \cup {None} => RowOK(k, r)
BY Kinds DEF RowOK

LEMMA JustTyped == ASSUME NEW k \in Keys, NEW v, RowOK(k, v) PROVE RowsOK(Just(k, v))
<1> DEFINE w == Just(k, v)
<1>1. DOMAIN w = {k} /\ w[k] = v
  BY JustOne
<1> HIDE DEF w
<1>2. RowsOK(w)
  BY <1>1 DEF RowsOK
<1>3. QED
  BY <1>2 DEF w

\* What a session sees is a whole database.
LEMMA SeesAll ==
  ASSUME IInv, NEW s \in Sessions
  PROVE  /\ DOMAIN Sees(s) = Keys /\ RowsOK(Sees(s))
         /\ \A o \in Outflows : Sees(s)[o] \in OutflowType
         /\ \A i \in Inflows : Sees(s)[i] \in InflowType \cup {None}
         /\ \A r \in Arrivals : Sees(s)[r] \in ArrivalType \cup {None}
         /\ \A h \in Holdings : Sees(s)[h] \in HoldingType \cup {None}
         /\ \A o \in Outflows : Sees(s)[o].by = "rule" => db[o].by = "rule"
         /\ own[s] = <<>> => \A k \in Keys : Sees(s)[k] = db[k]
<1> DEFINE f == Sees(s)
<1>0. RowsOK(own[s]) /\ RowsOK(db) /\ DOMAIN db = Keys /\ DOMAIN own[s] \subseteq Keys
  BY DEF IInv, Shape, RowsTyped, RowsOK
<1>1. DOMAIN f = Keys
  BY <1>0, OverDomain DEF Sees
<1>2. RowsOK(f)
  BY <1>0, OverTyped DEF Sees
<1>3. ASSUME NEW o \in Outflows, f[o].by = "rule" PROVE db[o].by = "rule"
  <2>1. CASE o \in DOMAIN own[s]
    <3>1. f[o] = own[s][o]
      BY <2>1, OverFirst DEF Sees
    <3>2. QED
      BY <2>1, <3>1, <1>3 DEF IInv, RulesAreKept
  <2>2. CASE o \notin DOMAIN own[s]
    <3>1. f[o] = db[o]
      BY <2>2, <1>0, Kinds, OverSecond DEF Sees
    <3>2. QED
      BY <3>1, <1>3
  <2>3. QED
    BY <2>1, <2>2
<1>4. ASSUME own[s] = <<>>, NEW k \in Keys PROVE f[k] = db[k]
  BY <1>0, <1>4, EmptyDomain, OverSecond DEF Sees
<1> HIDE DEF f
<1>5. \A k \in Keys : RowOK(k, f[k])
  BY <1>1, <1>2 DEF RowsOK
<1>6. /\ \A o \in Outflows : f[o] \in OutflowType
      /\ \A i \in Inflows : f[i] \in InflowType \cup {None}
      /\ \A r \in Arrivals : f[r] \in ArrivalType \cup {None}
      /\ \A h \in Holdings : f[h] \in HoldingType \cup {None}
  BY <1>5, Kinds DEF RowOK
<1>7. QED
  BY <1>1, <1>2, <1>3, <1>4, <1>6 DEF f

\* A release takes rows out of a group and changes nothing else.
LEMMA ReleaseTyped ==
  ASSUME NEW f, RowsOK(f), DOMAIN f = Keys, NEW g
  PROVE  /\ RowsOK(ReleaseTransferGroup(f, g))
         /\ \A o \in Outflows : o \in DOMAIN ReleaseTransferGroup(f, g) =>
              /\ ReleaseTransferGroup(f, g)[o] \in OutflowType
              /\ ReleaseTransferGroup(f, g)[o].by = f[o].by
<1> DEFINE w == ReleaseTransferGroup(f, g)
<1>1. CASE g = None
  <2>1. w = <<>>
    BY <1>1 DEF ReleaseTransferGroup
  <2>2. QED
    BY <2>1, EmptyTyped, EmptyDomain
<1>2. CASE g # None
  <2>1. /\ DOMAIN w = InGroup(f, g)
        /\ \A k \in InGroup(f, g) : w[k] = [f[k] EXCEPT !.group = None]
    BY <1>2 DEF ReleaseTransferGroup
  <2>2. InGroup(f, g) \subseteq Legs /\ \A k \in InGroup(f, g) : f[k] # None
    BY DEF InGroup
  <2> HIDE DEF w
  <2>3. ASSUME NEW k \in DOMAIN w PROVE RowOK(k, w[k])
    <3>1. k \in Legs /\ k \in Keys /\ f[k] # None /\ RowOK(k, f[k])
      BY <2>1, <2>2, <2>3 DEF RowsOK, Keys
    <3>2. CASE k \in Outflows
      BY <3>1, <3>2, <2>1, <2>3, RowKinds DEF RowOK, OutflowType
    <3>3. CASE k \in Inflows
      <4>1. f[k] \in InflowType
        BY <3>1, <3>3 DEF RowOK
      <4>2. w[k] \in InflowType
        BY <4>1, <2>1, <2>3 DEF InflowType
      <4>3. QED
        BY <4>2, <3>3, RowKinds
    <3>4. CASE k \in Arrivals
      <4>1. f[k] \in ArrivalType
        BY <3>1, <3>4 DEF RowOK
      <4>2. w[k] \in ArrivalType
        BY <4>1, <2>1, <2>3 DEF ArrivalType
      <4>3. QED
        BY <4>2, <3>4, RowKinds
    <3>5. QED
      BY <3>1, <3>2, <3>3, <3>4 DEF Legs
  <2>4. RowsOK(w)
    BY <2>1, <2>2, <2>3 DEF RowsOK, Keys
  <2>5. ASSUME NEW o \in Outflows, o \in DOMAIN w
        PROVE  w[o] \in OutflowType /\ w[o].by = f[o].by
    <3>1. f[o] \in OutflowType
      BY Kinds DEF RowsOK, RowOK
    <3>2. QED
      BY <3>1, <2>1, <2>5 DEF OutflowType
  <2>6. QED
    BY <2>4, <2>5 DEF w
<1>3. QED
  BY <1>1, <1>2

-----------------------------------------------------------------------------
\* The kinds of step.

\* A session goes to another place.
LEMMA TasksStep ==
  ASSUME IInv, NEW s \in Sessions, NEW t, Goto(s, t), TaskOK(t)
  PROVE  /\ TasksTyped' /\ DOMAIN task' = Sessions
         /\ task'[s] = t /\ \A x \in Sessions \ {s} : task'[x] = task[x]
BY DEF IInv, Shape, TasksTyped, Goto

LEMMA LookStep ==
  ASSUME IInv, NEW s \in Sessions, NEW t, Goto(s, t), TaskOK(t), UNCHANGED <<db, own>>,
         t.at \in Quiet => own[s] = <<>>
  PROVE  IInv' /\ NoOverrule
<1>1. TasksTyped' /\ Shape' /\ RowsTyped' /\ LocksExclude' /\ RulesAreKept'
  BY TasksStep DEF IInv, Shape, RowsTyped, LocksExclude, RulesAreKept
<1>2. QuietHaveNoLocks'
  BY TasksStep DEF IInv, QuietHaveNoLocks
<1>3. QED
  BY <1>1, <1>2 DEF IInv, NoOverrule, Overrules

LEMMA WriteStep ==
  ASSUME IInv, NEW s \in Sessions, NEW t, Goto(s, t), TaskOK(t), t.at \notin Quiet,
         NEW w, RowsOK(w), Free(s, DOMAIN w), Write(s, w), db' = db,
         \A o \in Outflows : o \in DOMAIN w /\ w[o].by = "rule" => db[o].by = "rule"
  PROVE  IInv' /\ NoOverrule
<1> DEFINE new == w ++ own[s]
<1>1. /\ DOMAIN own' = Sessions /\ own'[s] = new
      /\ \A x \in Sessions \ {s} : own'[x] = own[x]
  BY DEF IInv, Shape, Write
<1>2. DOMAIN new = DOMAIN w \cup DOMAIN own[s] /\ RowsOK(new)
  BY OverDomain, OverTyped DEF IInv, RowsTyped
<1>3. ASSUME NEW o \in Outflows, o \in DOMAIN new, new[o].by = "rule" PROVE db[o].by = "rule"
  <2>1. CASE o \in DOMAIN w
    BY <2>1, <1>3, OverFirst
  <2>2. CASE o \notin DOMAIN w
    <3>1. o \in DOMAIN own[s] /\ new[o] = own[s][o]
      BY <2>2, <1>2, <1>3, OverSecond
    <3>2. QED
      BY <3>1, <1>3 DEF IInv, RulesAreKept
  <2>3. QED
    BY <2>1, <2>2
<1> HIDE DEF new
<1>4. Shape' /\ RowsTyped'
  BY <1>1, <1>2, TasksStep DEF IInv, Shape, RowsTyped
<1>5. \A x \in Sessions \ {s} : DOMAIN own[x] \cap DOMAIN new = {}
  BY <1>2 DEF Free, IInv, LocksExclude
<1>6. LocksExclude'
  BY <1>1, <1>5 DEF IInv, LocksExclude
<1>7. RulesAreKept'
  BY <1>1, <1>3 DEF IInv, RulesAreKept
<1>8. TasksTyped' /\ QuietHaveNoLocks'
  BY <1>1, TasksStep DEF IInv, QuietHaveNoLocks
<1>9. QED
  BY <1>4, <1>6, <1>7, <1>8 DEF IInv, NoOverrule, Overrules

LEMMA CommitStep ==
  ASSUME IInv, NEW s \in Sessions, NEW t, TaskOK(t),
         NEW w, RowsOK(w), Free(s, DOMAIN w), Commit(s, w, t),
         \A o \in Outflows : o \in DOMAIN w /\ w[o].by = "rule" => db[o].by = "rule" \/ db[o] = Blank
  PROVE  IInv' /\ NoOverrule
<1> DEFINE new == w ++ own[s]
<1>1. /\ db' = new ++ db /\ Goto(s, t)
      /\ DOMAIN own' = Sessions /\ own'[s] = <<>>
      /\ \A x \in Sessions \ {s} : own'[x] = own[x]
  BY DEF Commit, Publish, IInv, Shape
<1>2. DOMAIN new = DOMAIN w \cup DOMAIN own[s] /\ RowsOK(new)
  BY OverDomain, OverTyped DEF IInv, RowsTyped
<1>3. ASSUME NEW o \in Outflows, o \in DOMAIN new, new[o].by = "rule"
      PROVE  db[o].by = "rule" \/ db[o] = Blank
  <2>1. CASE o \in DOMAIN w
    BY <2>1, <1>3, OverFirst
  <2>2. CASE o \notin DOMAIN w
    <3>1. o \in DOMAIN own[s] /\ new[o] = own[s][o]
      BY <2>2, <1>2, <1>3, OverSecond
    <3>2. QED
      BY <3>1, <1>3 DEF IInv, RulesAreKept
  <2>3. QED
    BY <2>1, <2>2
<1> HIDE DEF new
<1>4. DOMAIN db' = Keys /\ RowsOK(db')
  <2>1. DOMAIN (new ++ db) = DOMAIN new \cup DOMAIN db /\ RowsOK(new ++ db)
    BY <1>2, OverDomain, OverTyped DEF IInv, RowsTyped
  <2>2. QED
    BY <2>1, <1>1, <1>2 DEF IInv, Shape, RowsOK
<1>5. /\ \A k \in DOMAIN new : db'[k] = new[k]
      /\ \A k \in Keys \ DOMAIN new : db'[k] = db[k]
  <2>1. \A k \in DOMAIN new : (new ++ db)[k] = new[k]
    BY OverFirst
  <2>2. \A k \in Keys \ DOMAIN new : (new ++ db)[k] = db[k]
    BY OverSecond DEF IInv, Shape
  <2>3. QED
    BY <2>1, <2>2, <1>1
<1>6. Shape' /\ RowsTyped' /\ LocksExclude'
  BY <1>1, <1>4, TasksStep, EmptyTyped, EmptyDomain DEF IInv, Shape, RowsTyped, LocksExclude
<1>7. \A x \in Sessions \ {s} : DOMAIN own[x] \cap DOMAIN new = {}
  BY <1>2 DEF Free, IInv, LocksExclude
<1>8. ASSUME NEW x \in Sessions, NEW o \in Outflows, o \in DOMAIN own'[x], own'[x][o].by = "rule"
      PROVE  db'[o].by = "rule"
  <2>1. x # s /\ own'[x] = own[x]
    BY <1>1, <1>8, EmptyDomain
  <2>2. o \in Keys \ DOMAIN new
    BY <2>1, <1>7, <1>8, Kinds
  <2>3. QED
    BY <2>1, <2>2, <1>5, <1>8 DEF IInv, RulesAreKept
<1>9. TasksTyped' /\ QuietHaveNoLocks'
  BY <1>1, TasksStep DEF IInv, QuietHaveNoLocks
<1>10. NoOverrule
  <2>1. ASSUME NEW o \in Outflows, db'[o].by = "rule", db[o].by # "rule" PROVE db[o] = Blank
    <3>1. o \in DOMAIN new /\ db'[o] = new[o]
      BY <2>1, <1>5, Kinds
    <3>2. QED
      BY <3>1, <2>1, <1>3
  <2>2. QED
    BY <2>1 DEF NoOverrule, Overrules
<1>11. QED
  BY <1>6, <1>8, <1>9, <1>10 DEF IInv, RulesAreKept

LEMMA RollbackStep ==
  ASSUME IInv, NEW s \in Sessions, Rollback(s)
  PROVE  IInv' /\ NoOverrule
<1>1. /\ DOMAIN own' = Sessions /\ own'[s] = <<>> /\ db' = db
      /\ \A x \in Sessions \ {s} : own'[x] = own[x]
  BY DEF Rollback, IInv, Shape
<1>2. TaskOK(Idle) /\ Goto(s, Idle)
  BY DEF TaskOK, Idle, Quiet, Asking, Rollback
<1>3. Shape' /\ RowsTyped' /\ LocksExclude'
  BY <1>1, <1>2, TasksStep, EmptyTyped, EmptyDomain DEF IInv, Shape, RowsTyped, LocksExclude
<1>4. RulesAreKept'
  BY <1>1, EmptyDomain DEF IInv, RulesAreKept
<1>5. TasksTyped' /\ QuietHaveNoLocks'
  BY <1>1, <1>2, TasksStep DEF IInv, QuietHaveNoLocks
<1>6. QED
  BY <1>1, <1>3, <1>4, <1>5 DEF IInv, NoOverrule, Overrules

\* A call begins with a look at the committed rows.
LEMMA BeginStep ==
  ASSUME IInv, NEW s \in Sessions, NEW t, TaskOK(t), NEW K, Begin(s, t, K)
  PROVE  IInv' /\ NoOverrule
<1>1. own[s] = <<>>
  BY DEF Begin, Idle, IInv, QuietHaveNoLocks, Quiet
<1>2. QED
  BY <1>1, LookStep DEF Begin

-----------------------------------------------------------------------------
\* The answers.

LEMMA Places == TaskOK(Idle) /\ TaskOK(Start) /\ Idle.at = "idle" /\ Start.at = "marks"
BY DEF TaskOK, Idle, Start, Quiet, Asking

LEMMA FreshIsNew == Unused # {} => FreshGroup \in Unused /\ FreshGroup \in Groups
BY DEF FreshGroup, Unused

BareType ==
  [at : Asking \cup {""}, row : Outflows, review : Reviews, claims : Seq(Inflows),
   into : Quantities, set : BOOLEAN, group : Group]

LEMMA OnwardTyped ==
  ASSUME NEW t \in BareType
  PROVE  TaskOK(Onward(t)) /\ Onward(t).at \in {"claim", "arrive", "stamp"}
<1>1. Onward(t) \in AskType /\ Onward(t).at \in {"claim", "arrive", "stamp"}
  BY DEF Onward, BareType, AskType, Asking
<1>2. Onward(t).claims = t.claims /\ (Onward(t).at = "claim" => t.claims # <<>>)
  BY DEF Onward, BareType
<1>3. QED
  BY <1>1, <1>2 DEF TaskOK, Quiet, Asking

LEMMA QuantitiesFacts ==
  ASSUME NEW f \in Quantities
  PROVE  /\ DOMAIN f \subseteq Accounts /\ \A a \in DOMAIN f : f[a] \in Nat
         /\ \A d : [a \in DOMAIN f \ {d} |-> f[a]] \in Quantities
<1>1. PICK D \in SUBSET Accounts : f \in [D -> Nat]
  BY DEF Quantities
<1>2. ASSUME NEW d PROVE [a \in DOMAIN f \ {d} |-> f[a]] \in Quantities
  <2>1. [a \in DOMAIN f \ {d} |-> f[a]] \in [D \ {d} -> Nat] /\ D \ {d} \in SUBSET Accounts
    BY <1>1
  <2>2. QED
    BY <2>1 DEF Quantities
<1>3. QED
  BY <1>1, <1>2

LEMMA ResolveKeeps ==
  ASSUME IInv, NEW s \in Sessions, NEW o \in Outflows, Resolve(s, o)
  PROVE  IInv' /\ NoOverrule
<1>1. PICK a \in Answers[o] :
        LET links == a.claims # <<>> \/ DOMAIN a.into # {}
            t == [at |-> "", row |-> o, review |-> a.review, claims |-> a.claims,
                  into |-> a.into, set |-> Len(a.claims) > 1,
                  group |-> IF links THEN FreshGroup ELSE None]
        IN Begin(s, Onward(t), {o})
  BY DEF Resolve
<1> DEFINE t == [at |-> "", row |-> o, review |-> a.review, claims |-> a.claims,
                 into |-> a.into, set |-> Len(a.claims) > 1,
                 group |-> IF a.claims # <<>> \/ DOMAIN a.into # {} THEN FreshGroup ELSE None]
<1>2. PICK D \in SUBSET Accounts :
        a \in [review : Reviews, claims : Seq(Inflows), into : [D -> Nat]]
  BY TransferReviewAssumption
<1>3. a.into \in Quantities
  BY <1>2 DEF Quantities
<1>4. FreshGroup \in Groups
  BY FreshIsNew DEF Resolve
<1>5. t \in BareType
  BY <1>2, <1>3, <1>4 DEF BareType, Group
<1>6. Begin(s, Onward(t), {o})
  BY <1>1
<1> HIDE DEF t
<1>7. QED
  BY <1>5, <1>6, OnwardTyped, BeginStep

LEMMA ClaimLooksKeeps ==
  ASSUME IInv, NEW s \in Sessions, ClaimLooks(s)
  PROVE  IInv' /\ NoOverrule
<1> DEFINE t == [task[s] EXCEPT !.at = IF Claimable(s, task[s].row, Head(task[s].claims))
                                        THEN "claimed" ELSE "giveBack"]
<1>1. task[s] \in AskType /\ task[s].claims # <<>>
  BY DEF ClaimLooks, IInv, TasksTyped, TaskOK, Asking
<1>2. t \in AskType /\ t.claims # <<>> /\ t.at \in {"claimed", "giveBack"}
  BY <1>1 DEF AskType, Asking
<1>3. Goto(s, t) /\ UNCHANGED <<db, own>>
  BY DEF ClaimLooks
<1> HIDE DEF t
<1>4. TaskOK(t) /\ t.at \notin Quiet
  BY <1>2 DEF TaskOK, Asking, Quiet
<1>5. QED
  BY <1>3, <1>4, LookStep

LEMMA ClaimWritesKeeps ==
  ASSUME IInv, NEW s \in Sessions, ClaimWrites(s)
  PROVE  IInv' /\ NoOverrule
<1> DEFINE u == task[s]
           i == Head(u.claims)
           w == IF Sees(s)[i] = None THEN <<>>
                ELSE Just(i, [Sees(s)[i] EXCEPT !.group = u.group])
           t == [u EXCEPT !.claims = Tail(@)]
<1>1. u \in AskType /\ u.claims # <<>>
  BY DEF ClaimWrites, IInv, TasksTyped, TaskOK, Asking
<1>2. i \in Inflows /\ Tail(u.claims) \in Seq(Inflows)
  BY <1>1 DEF AskType
<1>3. t \in BareType
  BY <1>1, <1>2 DEF AskType, BareType
<1>4. RowsOK(w) /\ DOMAIN w \subseteq {i}
  <2>1. CASE Sees(s)[i] = None
    BY <2>1, EmptyTyped, EmptyDomain
  <2>2. CASE Sees(s)[i] # None
    <3>1. Sees(s)[i] \in InflowType
      BY <2>2, <1>2, SeesAll
    <3>2. [Sees(s)[i] EXCEPT !.group = u.group] \in InflowType
      BY <3>1, <1>1 DEF InflowType, AskType, Group
    <3>3. QED
      BY <2>2, <3>2, <1>2, Kinds, RowKinds, JustTyped, JustOne
  <2>3. QED
    BY <2>1, <2>2
<1>5. Write(s, w) /\ Free(s, {i}) /\ db' = db /\ Goto(s, Onward(t))
  BY DEF ClaimWrites
<1> HIDE DEF w, t, i, u
<1>6. Free(s, DOMAIN w) /\ \A o \in Outflows : o \notin DOMAIN w
  BY <1>2, <1>4, <1>5, Kinds DEF Free
<1>7. QED
  BY <1>3, <1>4, <1>5, <1>6, OnwardTyped, WriteStep DEF Quiet

LEMMA GiveBackClaimsKeeps ==
  ASSUME IInv, NEW s \in Sessions, GiveBackClaims(s)
  PROVE  IInv' /\ NoOverrule
<1> DEFINE w == ReleaseTransferGroup(Sees(s), task[s].group)
<1>1. RowsOK(w) /\ \A o \in Outflows : o \in DOMAIN w /\ w[o].by = "rule" => db[o].by = "rule"
  BY SeesAll, ReleaseTyped
<1>2. Free(s, DOMAIN w) /\ Commit(s, w, Idle)
  BY DEF GiveBackClaims
<1> HIDE DEF w
<1>3. QED
  BY <1>1, <1>2, Places, CommitStep

LEMMA TypedDepositIsTyped ==
  ASSUME NEW s, NEW o, NEW h, NEW q PROVE TypedDeposit(s, o, h, q) \in Typed \cup {None}
BY DEF TypedDeposit

LEMMA ArriveLooksKeeps ==
  ASSUME IInv, NEW s \in Sessions, ArriveLooks(s)
  PROVE  IInv' /\ NoOverrule
<1>1. task[s] \in AskType
  BY DEF ArriveLooks, IInv, TasksTyped, TaskOK, Asking
<1>2. PICK a \in DOMAIN task[s].into, h \in Holdings \cup {None} :
        Goto(s, [at |-> "arrived", row |-> task[s].row, review |-> task[s].review,
                 claims |-> <<>>, into |-> task[s].into, set |-> task[s].set,
                 group |-> task[s].group, account |-> a, holding |-> h,
                 adopts |-> TypedDeposit(s, task[s].row, h, task[s].into[a])])
  <2>1. PICK a \in DOMAIN task[s].into :
          \E h \in IF {x \in Room[a] : Sees(s)[x] # None /\ x # HoldingOf[task[s].row]} = {}
                   THEN {None}
                   ELSE {x \in Room[a] : Sees(s)[x] # None /\ x # HoldingOf[task[s].row]} :
            Goto(s, [at |-> "arrived", row |-> task[s].row, review |-> task[s].review,
                     claims |-> <<>>, into |-> task[s].into, set |-> task[s].set,
                     group |-> task[s].group, account |-> a, holding |-> h,
                     adopts |-> TypedDeposit(s, task[s].row, h, task[s].into[a])])
    BY DEF ArriveLooks
  <2>2. a \in Accounts
    BY <1>1, QuantitiesFacts DEF AskType
  <2>3. Room[a] \subseteq Holdings
    BY <2>2 DEF Holdings
  <2>4. QED
    BY <2>1, <2>3
<1> DEFINE t == [at |-> "arrived", row |-> task[s].row, review |-> task[s].review,
                 claims |-> <<>>, into |-> task[s].into, set |-> task[s].set,
                 group |-> task[s].group, account |-> a, holding |-> h,
                 adopts |-> TypedDeposit(s, task[s].row, h, task[s].into[a])]
<1>3. a \in Accounts
  BY <1>1, QuantitiesFacts DEF AskType
<1>4. t \in ArrivedType /\ t.account \in DOMAIN t.into
  BY <1>1, <1>3, TypedDepositIsTyped DEF AskType, ArrivedType
<1>5. Goto(s, t) /\ UNCHANGED <<db, own>>
  BY <1>2 DEF ArriveLooks
<1> HIDE DEF t
<1>6. TaskOK(t) /\ t.at \notin Quiet
  BY <1>4 DEF TaskOK, ArrivedType, Asking, Quiet
<1>7. QED
  BY <1>5, <1>6, LookStep

\* What is left of an answer after one of its arrivals.
Remains(t) ==
  [at |-> "", row |-> t.row, review |-> t.review, claims |-> <<>>,
   into |-> [a \in DOMAIN t.into \ {t.account} |-> t.into[a]],
   set |-> t.set, group |-> t.group]

LEMMA RemainsTyped == ASSUME NEW t \in ArrivedType PROVE Remains(t) \in BareType
<1>1. [a \in DOMAIN t.into \ {t.account} |-> t.into[a]] \in Quantities
  BY QuantitiesFacts DEF ArrivedType
<1>2. <<>> \in Seq(Inflows)
  OBVIOUS
<1>3. QED
  BY <1>1, <1>2 DEF Remains, ArrivedType, BareType

LEMMA JustRow ==
  ASSUME NEW k, NEW r,
         \/ k \in Outflows /\ r \in OutflowType
         \/ k \in Inflows /\ r \in InflowType \cup {None}
         \/ k \in Arrivals /\ r \in ArrivalType \cup {None}
         \/ k \in Holdings /\ r \in HoldingType \cup {None}
  PROVE  RowsOK(Just(k, r)) /\ DOMAIN Just(k, r) = {k} /\ Just(k, r)[k] = r
<1>1. k \in Keys /\ RowOK(k, r)
  BY Kinds, RowKinds
<1>2. QED
  BY <1>1, JustTyped, JustOne

\* The holding an arrival lands in, and the arrival.
LEMMA LandedTyped ==
  ASSUME NEW h \in Holdings, NEW state \in HoldingType,
         NEW key \in Arrivals, NEW arrival \in ArrivalType
  PROVE  /\ RowsOK(Just(h, state) ++ Just(key, arrival))
         /\ DOMAIN (Just(h, state) ++ Just(key, arrival)) = {h, key}
<1> DEFINE f == Just(h, state)
           g == Just(key, arrival)
<1>1. RowsOK(f) /\ DOMAIN f = {h}
  BY JustRow
<1>2. RowsOK(g) /\ DOMAIN g = {key}
  BY JustRow
<1> HIDE DEF f, g
<1>3. RowsOK(f ++ g)
  BY <1>1, <1>2, OverTyped
<1>4. DOMAIN (f ++ g) = DOMAIN f \cup DOMAIN g
  BY OverDomain
<1>5. DOMAIN (f ++ g) = {h, key}
  BY <1>1, <1>2, <1>4
<1>6. QED
  BY <1>3, <1>5 DEF f, g

LEMMA MovedBalanceIs ==
  ASSUME NEW s, NEW key, NEW qty \in Nat, Sees(s)[key[2]] \in HoldingType,
         Sees(s)[key] \in ArrivalType \cup {None}
  PROVE  /\ MovedBalance(s, key, qty) \in Int
         /\ Sees(s)[key] = None => MovedBalance(s, key, qty) = Sees(s)[key[2]].balance + qty
<1> DEFINE was == IF Sees(s)[key] = None THEN 0 ELSE Sees(s)[key].qty
<1>1. was \in Nat /\ (Sees(s)[key] = None => was = 0)
  BY DEF ArrivalType
<1>2. Sees(s)[key[2]].balance \in Int
  BY DEF HoldingType
<1>3. MovedBalance(s, key, qty) = Sees(s)[key[2]].balance - was + qty
  BY DEF MovedBalance
<1> HIDE DEF was
<1>4. QED
  BY <1>1, <1>2, <1>3

LEMMA ArriveInHoldingKeeps ==
  ASSUME IInv, NEW s \in Sessions, ArriveInHolding(s)
  PROVE  IInv' /\ NoOverrule
<1> DEFINE t == task[s]
           h == t.holding
           qty == t.into[t.account]
           key == <<t.row, h>>
           old == Sees(s)[key]
           adopted == IF t.adopts = None THEN <<>> ELSE Just(t.adopts, None)
           state == IF t.adopts # None THEN Sees(s)[h]
                    ELSE [Sees(s)[h] EXCEPT !.balance = MovedBalance(s, key, qty), !.touched = TRUE]
           arrival == IF old = None
                      THEN [qty |-> qty, group |-> t.group, opened |-> FALSE,
                            moved |-> t.adopts = None, adopts |-> t.adopts]
                      ELSE [old EXCEPT !.qty = qty, !.group = t.group]
           landed == Just(h, state) ++ Just(key, arrival)
           w == landed ++ adopted
<1>1. t \in ArrivedType /\ t.account \in DOMAIN t.into /\ h # None
  BY DEF ArriveInHolding, IInv, TasksTyped, TaskOK
<1>2. /\ t.row \in Outflows /\ h \in Holdings /\ t.group \in Group
      /\ t.adopts \in Typed \cup {None} /\ t.into \in Quantities
  BY <1>1 DEF ArrivedType
<1>3. key \in Arrivals /\ qty \in Nat
  BY <1>1, <1>2, QuantitiesFacts DEF Arrivals
<1>4. Sees(s)[h] \in HoldingType /\ old \in ArrivalType \cup {None}
  BY <1>2, <1>3, SeesAll DEF ArriveInHolding
<1>5. state \in HoldingType
  <2>1. MovedBalance(s, key, qty) \in Int
    BY <1>3, <1>4, MovedBalanceIs
  <2>2. QED
    BY <1>4, <2>1 DEF HoldingType
<1>6. arrival \in ArrivalType
  BY <1>2, <1>3, <1>4 DEF ArrivalType, Group
<1>7. RowsOK(adopted) /\ DOMAIN adopted \subseteq Inflows
  <2>1. CASE t.adopts = None
    BY <2>1, EmptyTyped, EmptyDomain
  <2>2. CASE t.adopts # None
    <3>1. t.adopts \in Inflows
      BY <1>2, <2>2, TransferReviewAssumption
    <3>2. RowsOK(Just(t.adopts, None)) /\ DOMAIN Just(t.adopts, None) = {t.adopts}
      BY <3>1, JustRow
    <3>3. QED
      BY <2>2, <3>1, <3>2
  <2>3. QED
    BY <2>1, <2>2
<1>8. /\ Write(s, w) /\ Free(s, {h, key} \cup DOMAIN adopted) /\ db' = db
      /\ Goto(s, Onward(Remains(t)))
  BY DEF ArriveInHolding, Remains
<1> HIDE DEF state, arrival, adopted, h, key
<1>9. RowsOK(landed) /\ DOMAIN landed = {h, key}
  BY <1>2, <1>3, <1>5, <1>6, LandedTyped
<1> HIDE DEF landed, t
<1>10. RowsOK(w) /\ DOMAIN w = {h, key} \cup DOMAIN adopted
  BY <1>7, <1>9, OverTyped, OverDomain
<1>11. \A o \in Outflows : o \notin DOMAIN w
  BY <1>2, <1>3, <1>7, <1>10, Kinds
<1> HIDE DEF w
<1>12. Remains(t) \in BareType
  BY <1>1, RemainsTyped
<1>13. QED
  BY <1>8, <1>10, <1>11, <1>12, OnwardTyped, WriteStep DEF Quiet

LEMMA ArriveInNewHoldingKeeps ==
  ASSUME IInv, NEW s \in Sessions, ArriveInNewHolding(s)
  PROVE  IInv' /\ NoOverrule
<1> DEFINE t == task[s]
           qty == t.into[t.account]
           unused == {n \in Room[t.account] : Sees(s)[n] = None /\ Free(s, {n, <<t.row, n>>})}
           new == CHOOSE x \in unused : TRUE
           key == <<t.row, new>>
           state == [balance |-> qty, stated |-> 0, left |-> 0, touched |-> FALSE]
           arrival == [qty |-> qty, group |-> t.group, opened |-> TRUE, moved |-> FALSE,
                       adopts |-> None]
           w == Just(new, state) ++ Just(key, arrival)
<1>1. t \in ArrivedType /\ t.account \in DOMAIN t.into /\ unused # {}
  BY DEF ArriveInNewHolding, IInv, TasksTyped, TaskOK
<1>2. t.row \in Outflows /\ t.account \in Accounts /\ t.group \in Group /\ t.into \in Quantities
  BY <1>1 DEF ArrivedType
<1>3. new \in unused
  BY <1>1
<1>4. new \in Holdings /\ Free(s, {new, key})
  BY <1>2, <1>3 DEF Holdings
<1>5. qty \in Nat
  BY <1>1, <1>2, QuantitiesFacts
<1>6. Write(s, w) /\ db' = db /\ Goto(s, Onward(Remains(t)))
  BY DEF ArriveInNewHolding, Remains
<1>7. state \in HoldingType /\ arrival \in ArrivalType
  BY <1>2, <1>5 DEF HoldingType, ArrivalType, Group
<1> HIDE DEF unused, state, arrival, new
<1>8. key \in Arrivals
  BY <1>2, <1>4 DEF Arrivals
<1> HIDE DEF key
<1>9. RowsOK(w) /\ DOMAIN w = {new, key}
  BY <1>4, <1>7, <1>8, LandedTyped
<1>10. \A o \in Outflows : o \notin DOMAIN w
  BY <1>4, <1>8, <1>9, Kinds
<1> HIDE DEF w, t
<1>11. Remains(t) \in BareType
  BY <1>1, RemainsTyped
<1>12. QED
  BY <1>4, <1>6, <1>9, <1>10, <1>11, OnwardTyped, WriteStep DEF Quiet

LEMMA StampKeeps ==
  ASSUME IInv, NEW s \in Sessions, Stamp(s)
  PROVE  IInv' /\ NoOverrule
<1> DEFINE t == task[s]
           row == [group |-> IF t.group = None THEN Sees(s)[t.row].group ELSE t.group,
                   review |-> t.review, by |-> "user"]
           w == Just(t.row, row)
<1>1. t \in AskType
  BY DEF Stamp, IInv, TasksTyped, TaskOK, Asking
<1>2. t.row \in Outflows /\ t.group \in Group /\ t.review \in Reviews
  BY <1>1 DEF AskType
<1>3. Sees(s)[t.row] \in OutflowType
  BY <1>2, SeesAll
<1>4. row \in OutflowType /\ row.by = "user"
  BY <1>2, <1>3 DEF OutflowType, Group
<1>5. Commit(s, w, Idle) /\ Free(s, {t.row})
  BY DEF Stamp
<1> HIDE DEF row, t
<1>6. RowsOK(w) /\ DOMAIN w = {t.row} /\ w[t.row] = row
  BY <1>2, <1>4, JustRow
<1> HIDE DEF w
<1>7. QED
  BY <1>4, <1>5, <1>6, Places, CommitStep

-----------------------------------------------------------------------------
\* Reopening, parts and links.

\* The committed rows, kind by kind.
LEMMA DbTyped ==
  ASSUME IInv
  PROVE  /\ \A o \in Outflows : db[o] \in OutflowType
         /\ \A i \in Inflows : db[i] \in InflowType \cup {None}
         /\ \A r \in Arrivals : db[r] \in ArrivalType \cup {None}
         /\ \A h \in Holdings : db[h] \in HoldingType \cup {None}
BY Kinds DEF IInv, Shape, RowsTyped, RowsOK, RowOK

LEMMA ReopenKeeps ==
  ASSUME IInv, NEW s \in Sessions, NEW o \in Outflows, Reopen(s, o)
  PROVE  IInv' /\ NoOverrule
<1> DEFINE t == [at |-> "withdraw", row |-> o, only |-> Holdings, group |-> db[o].group,
                 by |-> IF db[o].by = "rule" THEN "user" ELSE None,
                 part |-> FALSE, claim |-> None]
<1>1. db[o] \in OutflowType
  BY DbTyped
<1>2. t \in WithdrawType /\ t.at = "withdraw"
  BY <1>1 DEF WithdrawType, OutflowType, Group
<1>3. Begin(s, t, {o})
  BY DEF Reopen
<1> HIDE DEF t
<1>4. TaskOK(t)
  BY <1>2 DEF TaskOK, Asking, Quiet
<1>5. QED
  BY <1>3, <1>4, BeginStep

LEMMA ResolvePartKeeps ==
  ASSUME IInv, NEW s \in Sessions, NEW o \in Outflows, ResolvePart(s, o)
  PROVE  IInv' /\ NoOverrule
<1>1. PICK h \in Holdings, i \in Inflows \cup {None} :
        Goto(s, [at |-> "withdraw", row |-> o, only |-> {h}, group |-> db[o].group,
                 by |-> "user", part |-> TRUE, claim |-> i])
  BY DEF ResolvePart
<1> DEFINE t == [at |-> "withdraw", row |-> o, only |-> {h}, group |-> db[o].group,
                 by |-> "user", part |-> TRUE, claim |-> i]
           w == Just(o, db[o])
<1>2. db[o] \in OutflowType
  BY DbTyped
<1>3. t \in WithdrawType /\ t.at = "withdraw"
  BY <1>2 DEF WithdrawType, OutflowType, Group
<1>4. RowsOK(w) /\ DOMAIN w = {o} /\ w[o] = db[o]
  BY <1>2, JustRow
<1>5. Goto(s, t) /\ Write(s, w) /\ Free(s, {o}) /\ db' = db
  BY <1>1 DEF ResolvePart
<1> HIDE DEF t, w
<1>6. TaskOK(t) /\ t.at \notin Quiet
  BY <1>3 DEF TaskOK, Asking, Quiet
<1>7. QED
  BY <1>4, <1>5, <1>6, WriteStep

LEMMA WithdrawArrivalsKeeps ==
  ASSUME IInv, NEW s \in Sessions, WithdrawArrivals(s)
  PROVE  IInv' /\ NoOverrule
<1> DEFINE u == task[s]
           gone == ArrivalsIn(s, u.row, u.only)
           withdrawn == [h \in gone |-> Sees(s)[<<u.row, h>>]]
           closes == {h \in gone : withdrawn[h].opened /\ Untouched(s, u.row, h)}
           w == [r \in {u.row} \X gone |-> None]
           t == [at |-> "undo", row |-> u.row, group |-> u.group, by |-> u.by,
                 part |-> u.part, claim |-> u.claim, arrivals |-> withdrawn,
                 closes |-> closes]
<1>1. u \in WithdrawType
  BY DEF WithdrawArrivals, IInv, TasksTyped, TaskOK
<1>2. /\ u.row \in Outflows /\ u.only \subseteq Holdings /\ u.group \in Group
      /\ u.by \in {None, "user"} /\ u.part \in BOOLEAN /\ u.claim \in Inflows \cup {None}
  BY <1>1 DEF WithdrawType
<1>3. Write(s, w) /\ Free(s, {u.row} \X gone) /\ db' = db /\ Goto(s, t)
  BY DEF WithdrawArrivals
<1>4. DOMAIN w = {u.row} \X gone /\ \A r \in DOMAIN w : w[r] = None
  OBVIOUS
<1>5. closes \subseteq gone /\ DOMAIN withdrawn = gone
  OBVIOUS
<1>6. gone \subseteq Holdings /\ \A h \in gone : Sees(s)[<<u.row, h>>] # None
  BY <1>2 DEF ArrivalsIn
<1>7. \A h \in gone : <<u.row, h>> \in Arrivals
  BY <1>2, <1>6 DEF Arrivals
<1>8. \A h \in gone : Sees(s)[<<u.row, h>>] \in ArrivalType
  BY <1>6, <1>7, SeesAll
<1>9. withdrawn \in Withdrawn
  BY <1>6, <1>8 DEF Withdrawn
<1>10. DOMAIN w \subseteq Arrivals
  BY <1>4, <1>7
<1> HIDE DEF closes, withdrawn, w, gone, u
<1>11. t \in UndoType /\ t.closes \subseteq DOMAIN t.arrivals
  BY <1>2, <1>5, <1>6, <1>9 DEF UndoType
<1> HIDE DEF t
<1>12. TaskOK(t) /\ t.at \notin Quiet
  BY <1>11 DEF TaskOK, UndoType, Asking, Quiet
<1>13. RowsOK(w)
  BY <1>4, <1>10, Kinds, RowKinds DEF RowsOK
<1>14. \A o \in Outflows : o \notin DOMAIN w
  BY <1>10, Kinds
<1>15. QED
  BY <1>3, <1>4, <1>12, <1>13, <1>14, WriteStep

LEMMA PutBackTyped ==
  ASSUME NEW s, NEW f, \A i \in Adopted(f) : Spare(s, i) # {}
  PROVE  /\ RowsOK(PutBack(s, f)) /\ DOMAIN PutBack(s, f) \subseteq Inflows
         /\ \A x \in DOMAIN PutBack(s, f) : Sees(s)[x] = None /\ PutBack(s, f)[x] = [group |-> None]
<1> DEFINE w == PutBack(s, f)
<1>1. \A x \in DOMAIN w : w[x] = [group |-> None]
  BY DEF PutBack
<1>2. /\ DOMAIN w \subseteq Inflows
      /\ \A x \in DOMAIN w : Sees(s)[x] = None
  BY TransferReviewAssumption DEF PutBack, Spare
<1>3. [group |-> None] \in InflowType
  BY DEF InflowType
<1> HIDE DEF w
<1>4. \A x \in DOMAIN w : x \in Keys /\ RowOK(x, w[x])
  BY <1>1, <1>2, <1>3, Kinds, RowKinds
<1>5. QED
  BY <1>1, <1>2, <1>4 DEF RowsOK, w

LEMMA UnmovedIs ==
  ASSUME NEW r \in HoldingType, NEW a \in ArrivalType
  PROVE  /\ Unmoved(r, a) \in HoldingType
         /\ Unmoved(r, a).balance - Unmoved(r, a).stated - Unmoved(r, a).left =
              (r.balance - r.stated - r.left) - (IF a.moved \/ a.opened THEN a.qty ELSE 0)
<1>1. /\ a.qty \in Nat /\ r.balance \in Int /\ r.stated \in Nat /\ r.left \in Nat
      /\ r = [balance |-> r.balance, stated |-> r.stated, left |-> r.left, touched |-> r.touched]
      /\ r.touched \in BOOLEAN
  BY DEF ArrivalType, HoldingType
<1>2. CASE a.moved
  <2> DEFINE b == r.balance - a.qty
  <2>1. Unmoved(r, a) = [balance |-> b, stated |-> r.stated, left |-> r.left, touched |-> TRUE]
    BY <1>1, <1>2 DEF Unmoved
  <2>2. b \in Int
    BY <1>1
  <2>3. b - r.stated - r.left = (r.balance - r.stated - r.left) - a.qty
    BY <1>1
  <2> HIDE DEF b
  <2>4. QED
    BY <1>1, <1>2, <2>1, <2>2, <2>3 DEF HoldingType
<1>3. CASE ~a.moved /\ a.opened
  <2> DEFINE l == r.left + a.qty
  <2>1. Unmoved(r, a) = [balance |-> r.balance, stated |-> r.stated, left |-> l,
                         touched |-> r.touched]
    BY <1>1, <1>3 DEF Unmoved
  <2>2. l \in Nat
    BY <1>1
  <2>3. r.balance - r.stated - l = (r.balance - r.stated - r.left) - a.qty
    BY <1>1
  <2> HIDE DEF l
  <2>4. QED
    BY <1>1, <1>3, <2>1, <2>2, <2>3 DEF HoldingType
<1>4. CASE ~a.moved /\ ~a.opened
  <2>1. Unmoved(r, a) = r
    BY <1>4 DEF Unmoved
  <2>2. QED
    BY <1>1, <1>4, <2>1
<1>5. QED
  BY <1>2, <1>3, <1>4

LEMMA UndoArrivalsKeeps ==
  ASSUME IInv, NEW s \in Sessions, UndoArrivals(s)
  PROVE  IInv' /\ NoOverrule
<1> DEFINE u == task[s]
           stays == [h \in DOMAIN u.arrivals \ u.closes |-> u.arrivals[h]]
           there == {h \in DOMAIN stays : Sees(s)[h] # None}
           back == PutBack(s, stays)
           cascade == {r \in Arrivals : r[2] \in u.closes /\ Sees(s)[r] # None}
           closed == [k \in u.closes \cup cascade |-> None]
           moved == [h \in there |-> Unmoved(Sees(s)[h], stays[h])]
           w == closed ++ moved ++ back
           t == [at |-> IF u.part THEN "part" ELSE "clear", row |-> u.row,
                 group |-> u.group, by |-> u.by, claim |-> u.claim]
<1>1. u \in UndoType /\ u.closes \subseteq DOMAIN u.arrivals
  BY DEF UndoArrivals, IInv, TasksTyped, TaskOK
<1>2. t \in ClearType
  BY <1>1 DEF UndoType, ClearType
<1>3. /\ DOMAIN u.arrivals \subseteq Holdings
      /\ \A h \in DOMAIN u.arrivals : u.arrivals[h] \in ArrivalType
  BY <1>1 DEF UndoType, Withdrawn
<1>4. /\ Write(s, w) /\ Free(s, DOMAIN u.arrivals \cup cascade \cup DOMAIN back)
      /\ db' = db /\ Goto(s, t) /\ \A i \in Adopted(stays) : Spare(s, i) # {}
  BY DEF UndoArrivals
<1>5. RowsOK(back) /\ DOMAIN back \subseteq Inflows
  BY <1>4, PutBackTyped
<1>6. DOMAIN closed = u.closes \cup cascade /\ \A k \in DOMAIN closed : closed[k] = None
  OBVIOUS
<1>7. cascade \subseteq Arrivals /\ u.closes \subseteq Holdings
  BY <1>1, <1>3
<1>8. there \subseteq DOMAIN u.arrivals /\ DOMAIN moved = there
  OBVIOUS
<1>9. ASSUME NEW h \in there PROVE moved[h] \in HoldingType
  <2>1. stays[h] \in ArrivalType
    BY <1>3
  <2>2. Sees(s)[h] \in HoldingType
    BY <1>3, SeesAll
  <2>3. moved[h] = Unmoved(Sees(s)[h], stays[h])
    OBVIOUS
  <2> HIDE DEF stays, moved, there
  <2>4. QED
    BY <2>1, <2>2, <2>3, UnmovedIs
<1> HIDE DEF closed, moved, back, cascade, there, stays, t
<1>10. RowsOK(closed)
  <2>1. \A k \in DOMAIN closed : k \in Keys /\ RowOK(k, closed[k])
    BY <1>6, <1>7, Kinds, RowKinds
  <2>2. QED
    BY <2>1 DEF RowsOK
<1>11. RowsOK(moved)
  <2>1. \A k \in DOMAIN moved : k \in Keys /\ RowOK(k, moved[k])
    BY <1>3, <1>8, <1>9, Kinds, RowKinds
  <2>2. QED
    BY <2>1 DEF RowsOK
<1>12. RowsOK(closed ++ moved) /\ DOMAIN (closed ++ moved) = DOMAIN closed \cup DOMAIN moved
  BY <1>10, <1>11, OverTyped, OverDomain
<1> DEFINE both == closed ++ moved
<1> HIDE DEF both
<1>13. RowsOK(both) /\ DOMAIN both = DOMAIN closed \cup DOMAIN moved
  BY <1>12 DEF both
<1>14. RowsOK(both ++ back) /\ DOMAIN (both ++ back) = DOMAIN both \cup DOMAIN back
  BY <1>5, <1>13, OverTyped, OverDomain
<1>15. w = both ++ back
  BY DEF both
<1> HIDE DEF w
<1>16. RowsOK(w) /\ DOMAIN w = u.closes \cup cascade \cup there \cup DOMAIN back
  BY <1>6, <1>8, <1>13, <1>14, <1>15
<1>17. \A o \in Outflows : o \notin DOMAIN w
  BY <1>3, <1>5, <1>7, <1>8, <1>16, Kinds
<1>18. DOMAIN w \subseteq DOMAIN u.arrivals \cup cascade \cup DOMAIN back
  BY <1>1, <1>8, <1>16
<1>19. Free(s, DOMAIN w)
  BY <1>4, <1>18 DEF Free
<1>20. TaskOK(t) /\ t.at \notin Quiet
  BY <1>2 DEF TaskOK, ClearType, Asking, Quiet
<1> HIDE DEF u
<1>21. QED
  BY <1>4, <1>16, <1>17, <1>19, <1>20, WriteStep

LEMMA ClearAnswerKeeps ==
  ASSUME IInv, NEW s \in Sessions, ClearAnswer(s)
  PROVE  IInv' /\ NoOverrule
<1> DEFINE u == task[s]
           released == ReleaseTransferGroup(Sees(s), u.group)
           row == (released ++ Sees(s))[u.row]
           cleared == [row EXCEPT !.review = None, !.by = u.by]
           answer == Just(u.row, cleared)
           w == answer ++ released
<1>1. u \in ClearType
  BY DEF ClearAnswer, IInv, TasksTyped, TaskOK
<1>2. u.row \in Outflows /\ u.by \in {None, "user"}
  BY <1>1 DEF ClearType
<1>3. /\ RowsOK(released)
      /\ \A o \in Outflows : o \in DOMAIN released =>
           released[o] \in OutflowType /\ released[o].by = Sees(s)[o].by
  BY SeesAll, ReleaseTyped
<1>4. Commit(s, w, Start) /\ Free(s, {u.row} \cup DOMAIN released)
  BY DEF ClearAnswer
<1>5. row \in OutflowType
  <2> DEFINE f == released ++ Sees(s)
  <2>1. DOMAIN Sees(s) = Keys /\ u.row \in Keys /\ Sees(s)[u.row] \in OutflowType
    BY <1>2, SeesAll, Kinds
  <2>2. CASE u.row \in DOMAIN released
    BY <2>2, <1>2, <1>3, OverFirst
  <2>3. CASE u.row \notin DOMAIN released
    <3>1. f[u.row] = Sees(s)[u.row]
      BY <2>1, <2>3, OverSecond
    <3>2. QED
      BY <2>1, <3>1
  <2>4. QED
    BY <2>2, <2>3
<1> HIDE DEF released, row
<1>6. cleared \in OutflowType /\ cleared.by # "rule"
  BY <1>2, <1>5, TransferReviewAssumption DEF OutflowType
<1> HIDE DEF cleared
<1>7. RowsOK(answer) /\ DOMAIN answer = {u.row} /\ answer[u.row] = cleared
  BY <1>2, <1>6, JustRow
<1> HIDE DEF answer, u
<1>8. RowsOK(w) /\ DOMAIN w = {u.row} \cup DOMAIN released
  BY <1>3, <1>7, OverTyped, OverDomain
<1>9. ASSUME NEW o \in Outflows, o \in DOMAIN w, w[o].by = "rule" PROVE db[o].by = "rule"
  <2>1. CASE o \in DOMAIN answer
    BY <2>1, <1>6, <1>7, <1>9, OverFirst
  <2>2. CASE o \notin DOMAIN answer
    <3>1. o \in DOMAIN released /\ w[o] = released[o]
      BY <2>2, <1>7, <1>8, <1>9, OverSecond
    <3>2. Sees(s)[o].by = "rule"
      BY <3>1, <1>3, <1>9
    <3>3. QED
      BY <3>2, SeesAll
  <2>3. QED
    BY <2>1, <2>2
<1> HIDE DEF w
<1>10. QED
  BY <1>4, <1>8, <1>9, Places, CommitStep

LEMMA ClaimPartKeeps ==
  ASSUME IInv, NEW s \in Sessions, ClaimPart(s)
  PROVE  IInv' /\ NoOverrule
<1> DEFINE u == task[s]
           w == IF u.claim = None THEN <<>> ELSE Just(u.claim, [group |-> u.group])
<1>1. u \in ClearType
  BY DEF ClaimPart, IInv, TasksTyped, TaskOK
<1>2. u.claim \in Inflows \cup {None} /\ [group |-> u.group] \in InflowType
  BY <1>1 DEF ClearType, InflowType, Group
<1>3. RowsOK(w) /\ DOMAIN w \subseteq Inflows
  <2>1. CASE u.claim = None
    BY <2>1, EmptyTyped, EmptyDomain
  <2>2. CASE u.claim # None
    <3>1. /\ RowsOK(Just(u.claim, [group |-> u.group]))
          /\ DOMAIN Just(u.claim, [group |-> u.group]) = {u.claim}
      BY <1>2, <2>2, JustRow
    <3>2. QED
      BY <1>2, <2>2, <3>1
  <2>3. QED
    BY <2>1, <2>2
<1>4. Commit(s, w, Idle) /\ Free(s, DOMAIN w)
  BY DEF ClaimPart
<1> HIDE DEF w
<1>5. \A o \in Outflows : o \notin DOMAIN w
  BY <1>3, Kinds
<1>6. QED
  BY <1>3, <1>4, <1>5, Places, CommitStep

LEMMA UnlinkPairKeeps ==
  ASSUME IInv, NEW s \in Sessions, NEW o \in Outflows, UnlinkPair(s, o)
  PROVE  IInv' /\ NoOverrule
<1> DEFINE t == [at |-> "unlink", group |-> db[o].group]
<1>1. TaskOK(t)
  BY DEF TaskOK, Asking, Quiet
<1>2. Begin(s, t, InGroup(db, db[o].group))
  BY DEF UnlinkPair
<1> HIDE DEF t
<1>3. QED
  BY <1>1, <1>2, BeginStep

LEMMA UnlinkWritesKeeps ==
  ASSUME IInv, NEW s \in Sessions, UnlinkWrites(s)
  PROVE  IInv' /\ NoOverrule
<1> DEFINE w == ReleaseTransferGroup(Sees(s), task[s].group)
<1>1. RowsOK(w) /\ \A o \in Outflows : o \in DOMAIN w /\ w[o].by = "rule" => db[o].by = "rule"
  BY SeesAll, ReleaseTyped
<1>2. Free(s, DOMAIN w) /\ Commit(s, w, Start)
  BY DEF UnlinkWrites
<1> HIDE DEF w
<1>3. QED
  BY <1>1, <1>2, Places, CommitStep

-----------------------------------------------------------------------------
\* Many rows at once.

LEMMA BulkResolveKeeps ==
  ASSUME IInv, NEW s \in Sessions, BulkResolve(s)
  PROVE  IInv' /\ NoOverrule
<1>1. PICK R \in SUBSET Outflows, d \in Bulk \cup {None} :
        Begin(s, [at |-> "bulk", rows |-> R, review |-> d], R \cup (R \X Holdings))
  BY DEF BulkResolve
<1> DEFINE t == [at |-> "bulk", rows |-> R, review |-> d]
<1>2. t \in BulkType /\ t.at = "bulk"
  BY DEF BulkType
<1>3. Begin(s, t, R \cup (R \X Holdings))
  BY <1>1
<1> HIDE DEF t
<1>4. TaskOK(t)
  BY <1>2 DEF TaskOK, Asking, Quiet
<1>5. QED
  BY <1>3, <1>4, BeginStep

LEMMA BulkWritesKeeps ==
  ASSUME IInv, NEW s \in Sessions, BulkWrites(s)
  PROVE  IInv' /\ NoOverrule
<1> DEFINE u == task[s]
           w == [o \in u.rows |-> [Sees(s)[o] EXCEPT !.review = u.review,
                                    !.by = IF u.review = None THEN None ELSE "user"]]
<1>1. u \in BulkType
  BY DEF BulkWrites, IInv, TasksTyped, TaskOK
<1>2. u.rows \subseteq Outflows /\ u.review \in Bulk \cup {None}
  BY <1>1 DEF BulkType
<1>3. Commit(s, w, Start) /\ Free(s, u.rows)
  BY DEF BulkWrites
<1>4. DOMAIN w = u.rows
  OBVIOUS
<1>5. ASSUME NEW o \in u.rows PROVE w[o] \in OutflowType /\ w[o].by # "rule"
  <2>1. Sees(s)[o] \in OutflowType
    BY <1>2, SeesAll
  <2>2. w[o] = [Sees(s)[o] EXCEPT !.review = u.review,
                                 !.by = IF u.review = None THEN None ELSE "user"]
    OBVIOUS
  <2>3. u.review \in Reviews \cup {None}
    BY <1>2 DEF Reviews
  <2> HIDE DEF w, u
  <2>4. QED
    BY <2>1, <2>2, <2>3, TransferReviewAssumption DEF OutflowType
<1> HIDE DEF w, u
<1>6. RowsOK(w)
  <2>1. \A k \in DOMAIN w : k \in Keys /\ RowOK(k, w[k])
    BY <1>2, <1>4, <1>5, Kinds, RowKinds
  <2>2. QED
    BY <2>1 DEF RowsOK
<1>7. QED
  BY <1>3, <1>4, <1>5, <1>6, Places, CommitStep

LEMMA MarksLookKeeps ==
  ASSUME IInv, NEW s \in Sessions, MarksLook(s)
  PROVE  IInv' /\ NoOverrule
<1> DEFINE rows == {o \in Marked : RuleWritable(db[o]) /\ BulkEligible(o)}
           t == IF rows = {} THEN Idle ELSE [at |-> "mark", rows |-> rows]
<1>1. own[s] = <<>>
  BY DEF MarksLook, IInv, QuietHaveNoLocks, Quiet
<1>2. Goto(s, t) /\ UNCHANGED <<db, own>>
  BY DEF MarksLook
<1>3. rows \subseteq Outflows
  BY TransferReviewAssumption
<1> HIDE DEF rows
<1>4. TaskOK(t)
  <2>1. CASE rows = {}
    BY <2>1, Places
  <2>2. CASE rows # {}
    <3>1. t \in MarkType /\ t.at = "mark"
      BY <2>2, <1>3 DEF MarkType
    <3> HIDE DEF t
    <3>2. QED
      BY <3>1 DEF TaskOK, Asking, Quiet
  <2>3. QED
    BY <2>1, <2>2
<1> HIDE DEF t
<1>5. QED
  BY <1>1, <1>2, <1>4, LookStep

LEMMA MarksWriteKeeps ==
  ASSUME IInv, NEW s \in Sessions, MarksWrite(s)
  PROVE  IInv' /\ NoOverrule
<1> DEFINE rows == {o \in task[s].rows : RuleWritable(Sees(s)[o])}
           mark == [group |-> None, review |-> "left_control", by |-> "rule"]
           w == [o \in rows |-> mark]
<1>1. task[s] \in MarkType /\ own[s] = <<>>
  BY DEF MarksWrite, IInv, TasksTyped, TaskOK, QuietHaveNoLocks, Quiet
<1>2. rows \subseteq Outflows
  BY <1>1 DEF MarkType
<1>3. ASSUME NEW o \in rows PROVE db[o] = Blank
  <2>1. Sees(s)[o] = db[o] /\ db[o] \in OutflowType
    BY <1>1, <1>2, SeesAll, DbTyped, Kinds
  <2>2. RuleWritable(db[o])
    BY <2>1
  <2>3. QED
    BY <2>1, <2>2 DEF RuleWritable, Pending, OutflowType, Blank
<1>4. Commit(s, w, Idle) /\ Free(s, rows)
  BY DEF MarksWrite
<1>5. DOMAIN w = rows /\ \A o \in rows : w[o] = mark
  OBVIOUS
<1>6. mark \in OutflowType
  BY DEF OutflowType, Reviews, Bulk
<1> HIDE DEF w, rows, mark
<1>7. RowsOK(w)
  <2>1. \A k \in DOMAIN w : k \in Keys /\ RowOK(k, w[k])
    BY <1>2, <1>5, <1>6, Kinds, RowKinds
  <2>2. QED
    BY <2>1 DEF RowsOK
<1>8. QED
  BY <1>3, <1>4, <1>5, <1>7, Places, CommitStep

-----------------------------------------------------------------------------
\* The matcher, and an edit of a balance.

LEMMA LinkTransferPairsKeeps ==
  ASSUME IInv, NEW s \in Sessions, LinkTransferPairs(s)
  PROVE  IInv' /\ NoOverrule
<1> DEFINE outs == {o \in Outflows : Pending(db[o])}
           ins == {i \in Inflows \ Typed : db[i] # None /\ db[i].group = None}
           t == IF outs = {} THEN Start ELSE [at |-> "match", rows |-> outs, among |-> ins]
<1>1. Begin(s, t, outs \cup ins)
  BY DEF LinkTransferPairs
<1>2. outs \subseteq Outflows /\ ins \subseteq Inflows
  OBVIOUS
<1> HIDE DEF outs, ins
<1>3. TaskOK(t)
  <2>1. CASE outs = {}
    BY <2>1, Places
  <2>2. CASE outs # {}
    <3>1. t \in MatchType /\ t.at = "match"
      BY <2>2, <1>2 DEF MatchType
    <3> HIDE DEF t
    <3>2. QED
      BY <3>1 DEF TaskOK, Asking, Quiet
  <2>3. QED
    BY <2>1, <2>2
<1> HIDE DEF t
<1>4. QED
  BY <1>1, <1>3, BeginStep

\* A write that is committed at once, to rows nobody has locked.
LEMMA PublishStep ==
  ASSUME IInv, NEW w, RowsOK(w), db' = w ++ db, own' = own,
         \A x \in Sessions : DOMAIN own[x] \cap DOMAIN w = {},
         \A o \in Outflows : o \in DOMAIN w => w[o].by = db[o].by,
         DOMAIN task' = Sessions, TasksTyped', QuietHaveNoLocks'
  PROVE  IInv' /\ NoOverrule
<1>1. DOMAIN db' = Keys /\ RowsOK(db')
  <2>1. DOMAIN (w ++ db) = DOMAIN w \cup DOMAIN db /\ RowsOK(w ++ db)
    BY OverDomain, OverTyped DEF IInv, RowsTyped
  <2>2. QED
    BY <2>1 DEF IInv, Shape, RowsOK
<1>2. \A o \in Outflows : db'[o].by = db[o].by
  <2>1. ASSUME NEW o \in Outflows PROVE (w ++ db)[o].by = db[o].by
    <3>1. CASE o \in DOMAIN w
      BY <3>1, OverFirst
    <3>2. CASE o \notin DOMAIN w
      BY <3>2, OverSecond, Kinds DEF IInv, Shape
    <3>3. QED
      BY <3>1, <3>2
  <2>2. QED
    BY <2>1
<1>3. Shape' /\ RowsTyped' /\ LocksExclude'
  BY <1>1 DEF IInv, Shape, RowsTyped, LocksExclude
<1>4. RulesAreKept'
  BY <1>2 DEF IInv, RulesAreKept
<1>5. NoOverrule
  BY <1>2 DEF NoOverrule, Overrules
<1>6. QED
  BY <1>3, <1>4, <1>5 DEF IInv

\* What LinkPair writes: both rows' group, or nothing.
Links(o, s) ==
  LET viable == Viable(o, task[s].among)
  IN Cardinality(viable) = 1 /\ StillFree({o} \cup viable)

LinkRows(o, s) ==
  IF Links(o, s) THEN [k \in {o} \cup Viable(o, task[s].among) |-> [db[k] EXCEPT !.group = FreshGroup]]
                 ELSE <<>>

LEMMA LinkPairRows ==
  ASSUME IInv, NEW s \in Sessions, task[s] \in MatchType, NEW o \in task[s].rows,
         Links(o, s) => Unused # {}
  PROVE  /\ RowsOK(LinkRows(o, s))
         /\ \A p \in Outflows : p \in DOMAIN LinkRows(o, s) => LinkRows(o, s)[p].by = db[p].by
         /\ DOMAIN LinkRows(o, s) \subseteq {o} \cup Viable(o, task[s].among)
         /\ \A k \in DOMAIN LinkRows(o, s) : db[k] # None /\ db[k].group = None
<1> DEFINE pair == {o} \cup Viable(o, task[s].among)
           w == LinkRows(o, s)
<1>1. CASE ~Links(o, s)
  <2>1. w = <<>>
    BY <1>1 DEF LinkRows
  <2>2. QED
    BY <2>1, EmptyTyped, EmptyDomain
<1>2. CASE Links(o, s)
  <2>1. /\ DOMAIN w = pair
        /\ \A k \in pair : w[k] = [db[k] EXCEPT !.group = FreshGroup]
    BY <1>2 DEF LinkRows
  <2>2. \A k \in pair : db[k] # None /\ db[k].group = None
    BY <1>2 DEF Links, StillFree
  <2>3. o \in Outflows /\ pair \subseteq {o} \cup Inflows
    BY DEF MatchType, Viable
  <2>4. FreshGroup \in Groups
    BY <1>2, FreshIsNew
  <2> HIDE DEF w, pair
  <2>5. db[o] \in OutflowType /\ w[o] \in OutflowType /\ w[o].by = db[o].by
    <3>1. db[o] \in OutflowType
      BY <2>3, DbTyped
    <3>2. w[o] = [db[o] EXCEPT !.group = FreshGroup]
      BY <2>1 DEF pair
    <3>3. QED
      BY <3>1, <3>2, <2>4 DEF OutflowType
  <2>6. ASSUME NEW k \in pair, k \in Inflows PROVE w[k] \in InflowType
    <3>1. db[k] \in InflowType
      BY <2>2, <2>6, DbTyped
    <3>2. QED
      BY <3>1, <2>1, <2>4 DEF InflowType
  <2>7. \A k \in DOMAIN w : k \in Keys /\ RowOK(k, w[k])
    BY <2>1, <2>3, <2>5, <2>6, Kinds, RowKinds
  <2>8. \A p \in Outflows : p \in DOMAIN w => p = o
    BY <2>1, <2>3, Kinds
  <2>9. QED
    BY <2>1, <2>2, <2>5, <2>7, <2>8 DEF RowsOK, w, pair
<1>3. QED
  BY <1>1, <1>2

LEMMA LinkPairSteps ==
  ASSUME IInv, NEW s \in Sessions, LinkPair(s)
  PROVE  /\ task[s] \in MatchType /\ own[s] = <<>> /\ own' = own
         /\ \E o \in task[s].rows :
              /\ Links(o, s) => Free(s, {o} \cup Viable(o, task[s].among)) /\ Unused # {}
              /\ db' = LinkRows(o, s) ++ db
              /\ Goto(s, IF task[s].rows = {o} THEN Start
                         ELSE [task[s] EXCEPT !.rows = @ \ {o}])
<1>1. task[s] \in MatchType /\ own[s] = <<>> /\ own' = own
  BY DEF LinkPair, IInv, TasksTyped, TaskOK, QuietHaveNoLocks, Quiet
<1>2. PICK o \in task[s].rows :
        LET viable == Viable(o, task[s].among)
            pair == {o} \cup viable
            links == Cardinality(viable) = 1 /\ StillFree(pair)
            g == FreshGroup
        IN /\ links => Free(s, pair) /\ Unused # {}
           /\ Publish(s, IF links THEN [k \in pair |-> [db[k] EXCEPT !.group = g]]
                         ELSE <<>>, IF task[s].rows = {o} THEN {} ELSE stale[s])
           /\ Goto(s, IF task[s].rows = {o} THEN Start ELSE [task[s] EXCEPT !.rows = @ \ {o}])
  BY DEF LinkPair
<1>3. Links(o, s) => Free(s, {o} \cup Viable(o, task[s].among)) /\ Unused # {}
  BY <1>2 DEF Links
<1>4. db' = LinkRows(o, s) ++ db
  BY <1>2 DEF Links, LinkRows, Publish
<1>5. QED
  BY <1>1, <1>2, <1>3, <1>4

LEMMA LinkPairKeeps ==
  ASSUME IInv, NEW s \in Sessions, LinkPair(s)
  PROVE  IInv' /\ NoOverrule
<1> DEFINE next(o) == IF task[s].rows = {o} THEN Start ELSE [task[s] EXCEPT !.rows = @ \ {o}]
<1>1. task[s] \in MatchType /\ own[s] = <<>> /\ own' = own
  BY LinkPairSteps
<1>2. PICK o \in task[s].rows :
        /\ Links(o, s) => Free(s, {o} \cup Viable(o, task[s].among)) /\ Unused # {}
        /\ db' = LinkRows(o, s) ++ db
        /\ Goto(s, next(o))
  BY LinkPairSteps
<1> DEFINE w == LinkRows(o, s)
           t == next(o)
<1>3. /\ RowsOK(w) /\ DOMAIN w \subseteq {o} \cup Viable(o, task[s].among)
      /\ \A p \in Outflows : p \in DOMAIN w => w[p].by = db[p].by
  BY <1>1, <1>2, LinkPairRows
<1>4. TaskOK(t) /\ t.at \in Quiet
  <2>1. CASE task[s].rows = {o}
    BY <2>1, Places DEF Quiet
  <2>2. CASE task[s].rows # {o}
    <3>1. t \in MatchType /\ t.at = "match"
      BY <1>1, <2>2 DEF MatchType
    <3> HIDE DEF t
    <3>2. QED
      BY <3>1 DEF TaskOK, Asking, Quiet
  <2>3. QED
    BY <2>1, <2>2
<1>5. DOMAIN w = {} \/ Links(o, s)
  BY EmptyDomain DEF LinkRows
<1>6. \A x \in Sessions : DOMAIN own[x] \cap DOMAIN w = {}
  BY <1>1, <1>2, <1>3, <1>5, EmptyDomain DEF Free
<1>7. Goto(s, t) /\ db' = w ++ db
  BY <1>2
<1> HIDE DEF w, t, next
<1>8. DOMAIN task' = Sessions /\ TasksTyped' /\ QuietHaveNoLocks'
  BY <1>1, <1>4, <1>7, TasksStep DEF IInv, QuietHaveNoLocks
<1>9. QED
  BY <1>1, <1>3, <1>6, <1>7, <1>8, PublishStep

LEMMA EditHoldingKeeps ==
  ASSUME IInv, NEW h \in Holdings, EditHolding(h)
  PROVE  IInv' /\ NoOverrule
<1> DEFINE row == [balance |-> db[h].balance + 1, stated |-> db[h].stated + 1,
                   left |-> db[h].left, touched |-> TRUE]
           w == Just(h, row)
<1>1. db' = w ++ db /\ own' = own /\ task' = task
  BY DEF EditHolding, Publish
<1>2. db[h] \in HoldingType
  BY DbTyped DEF EditHolding
<1>3. row \in HoldingType
  BY <1>2 DEF HoldingType
<1> HIDE DEF row
<1>4. RowsOK(w) /\ DOMAIN w = {h}
  BY <1>3, JustRow
<1> HIDE DEF w
<1>5. \A x \in Sessions : DOMAIN own[x] \cap DOMAIN w = {}
  BY <1>4 DEF EditHolding
<1>6. \A o \in Outflows : o \notin DOMAIN w
  BY <1>4, Kinds
<1>7. DOMAIN task' = Sessions /\ TasksTyped' /\ QuietHaveNoLocks'
  BY <1>1 DEF IInv, Shape, TasksTyped, QuietHaveNoLocks
<1>8. QED
  BY <1>1, <1>4, <1>5, <1>6, <1>7, PublishStep

-----------------------------------------------------------------------------
\* The theorems.

LEMMA InitIInv == Init => IInv
<1> SUFFICES ASSUME Init PROVE IInv
  OBVIOUS
<1> DEFINE outs == [o \in Outflows |-> [group |-> None, review |-> None, by |-> None]]
           ins == [i \in Inflows |-> IF i \in Recorded THEN [group |-> None] ELSE None]
           arrived == [r \in Arrivals |-> None]
           held == [h \in Holdings |-> IF Opening[h] = None THEN None
                                       ELSE [balance |-> Opening[h], stated |-> Opening[h],
                                             left |-> 0, touched |-> TRUE]]
<1>1. db = outs ++ ins ++ arrived ++ held
  BY DEF Init
<1>2. DOMAIN outs = Outflows /\ RowsOK(outs)
  <2>1. DOMAIN outs = Outflows /\ \A k \in Outflows : outs[k] \in OutflowType
    BY DEF OutflowType
  <2> HIDE DEF outs
  <2>2. \A k \in DOMAIN outs : k \in Keys /\ RowOK(k, outs[k])
    BY <2>1, Kinds, RowKinds
  <2>3. QED
    BY <2>1, <2>2 DEF RowsOK
<1>3. DOMAIN ins = Inflows /\ RowsOK(ins)
  <2>1. DOMAIN ins = Inflows /\ \A k \in Inflows : ins[k] \in InflowType \cup {None}
    BY DEF InflowType
  <2> HIDE DEF ins
  <2>2. \A k \in DOMAIN ins : k \in Keys /\ RowOK(k, ins[k])
    BY <2>1, Kinds, RowKinds
  <2>3. QED
    BY <2>1, <2>2 DEF RowsOK
<1>4. DOMAIN arrived = Arrivals /\ RowsOK(arrived)
  <2>1. DOMAIN arrived = Arrivals /\ \A k \in Arrivals : arrived[k] = None
    OBVIOUS
  <2> HIDE DEF arrived
  <2>2. \A k \in DOMAIN arrived : k \in Keys /\ RowOK(k, arrived[k])
    BY <2>1, Kinds, RowKinds
  <2>3. QED
    BY <2>1, <2>2 DEF RowsOK
<1>5. DOMAIN held = Holdings /\ RowsOK(held)
  <2>1. DOMAIN held = Holdings
    OBVIOUS
  <2>2. ASSUME NEW h \in Holdings PROVE held[h] \in HoldingType \cup {None}
    <3>1. Opening[h] \in Nat \cup {None}
      BY TransferReviewAssumption
    <3>2. QED
      BY <3>1 DEF HoldingType
  <2> HIDE DEF held
  <2>3. \A k \in DOMAIN held : k \in Keys /\ RowOK(k, held[k])
    BY <2>1, <2>2, Kinds, RowKinds
  <2>4. QED
    BY <2>1, <2>3 DEF RowsOK
<1> HIDE DEF outs, ins, arrived, held
<1> DEFINE two == outs ++ ins
           three == two ++ arrived
<1>6. RowsOK(two) /\ DOMAIN two = Outflows \cup Inflows
  BY <1>2, <1>3, OverTyped, OverDomain
<1> HIDE DEF two
<1>7. RowsOK(three) /\ DOMAIN three = Outflows \cup Inflows \cup Arrivals
  BY <1>4, <1>6, OverTyped, OverDomain
<1> HIDE DEF three
<1>8. RowsOK(three ++ held) /\ DOMAIN (three ++ held) = Keys
  BY <1>5, <1>7, OverTyped, OverDomain DEF Keys, Legs
<1>9. RowsOK(db) /\ DOMAIN db = Keys
  BY <1>1, <1>8 DEF two, three
<1>10. /\ DOMAIN own = Sessions /\ DOMAIN task = Sessions
       /\ \A s \in Sessions : own[s] = <<>> /\ task[s] = Idle
  BY DEF Init
<1>11. QED
  BY <1>9, <1>10, EmptyDomain, EmptyTyped, Places
     DEF IInv, Shape, RowsTyped, LocksExclude, RulesAreKept, TasksTyped, QuietHaveNoLocks

\* Every step keeps the invariant, and none overrules a person.
LEMMA StepKeeps == ASSUME IInv, [Next]_vars PROVE IInv' /\ NoOverrule
<1>1. ASSUME NEW s \in Sessions, Call(s) PROVE IInv' /\ NoOverrule
  BY <1>1, ResolveKeeps, ReopenKeeps, ResolvePartKeeps, UnlinkPairKeeps, BulkResolveKeeps,
     LinkTransferPairsKeeps DEF Call
<1>2. ASSUME NEW s \in Sessions, Statement(s) PROVE IInv' /\ NoOverrule
  BY <1>2, ClaimLooksKeeps, ClaimWritesKeeps, GiveBackClaimsKeeps, ArriveLooksKeeps,
     ArriveInHoldingKeeps, ArriveInNewHoldingKeeps, StampKeeps, WithdrawArrivalsKeeps,
     UndoArrivalsKeeps, ClearAnswerKeeps, ClaimPartKeeps, UnlinkWritesKeeps,
     BulkWritesKeeps, MarksLookKeeps, MarksWriteKeeps, LinkPairKeeps DEF Statement
<1>3. CASE UNCHANGED vars
  BY <1>3 DEF vars, IInv, Shape, RowsTyped, LocksExclude, RulesAreKept, TasksTyped,
              QuietHaveNoLocks, NoOverrule, Overrules
<1>4. QED
  BY <1>1, <1>2, <1>3, RollbackStep, EditHoldingKeeps DEF Next

LEMMA Invariance == Spec => []IInv
<1>1. IInv /\ [Next]_vars => IInv'
  BY StepKeeps
<1>2. QED
  BY <1>1, InitIInv, PTL DEF Spec

LEMMA IInvTypeOK == IInv => TypeOK
<1>1. IInv => \A s \in Sessions : task[s] = Idle => own[s] = <<>>
  BY Places DEF IInv, QuietHaveNoLocks, Quiet
<1>2. QED
  BY <1>1, DbTyped DEF TypeOK, Row

\* Every committed row has its type however calls overlap, and a session between
\* calls has released its row locks (resolve, reopen and their siblings each
\* commit or roll back all they wrote).
THEOREM TypeCorrect == Spec => []TypeOK
BY Invariance, IInvTypeOK, PTL

\* No two transactions ever have uncommitted writes to one row: every UPDATE and
\* DELETE waits for the row's lock.
THEOREM LocksAreExclusive == Spec => []LocksExclude
<1>1. IInv => LocksExclude
  BY DEF IInv
<1>2. QED
  BY <1>1, Invariance, PTL

\* For any number of sessions, a rule's answer lands only on a row that is in no
\* group, unanswered and not taken back from a rule before (applyDisposalMarks).
THEOREM RulesNeverOverruleHolds == Spec => RulesNeverOverrule
<1>1. IInv /\ [Next]_vars =>
        [\A o \in Outflows : (db'[o].by = "rule" /\ db[o].by # "rule")
           => db[o] = [group |-> None, review |-> None, by |-> None]]_vars
  BY StepKeeps DEF NoOverrule, Overrules, Blank
<1>2. QED
  BY <1>1, Invariance, PTL DEF Spec, RulesNeverOverrule

\* A session whose call is at the matcher's list takes no step but the matcher's.
LEMMA OnlyLinkPair ==
  ASSUME IInv, NEW s \in Sessions, task[s].at = "match", Next, task'[s] # task[s]
  PROVE  LinkPair(s) \/ Rollback(s)
<1>1. ASSUME NEW x \in Sessions, x # s, NEW t, Goto(x, t) PROVE FALSE
  BY <1>1 DEF Goto, IInv, Shape
<1>2. task[s] # Idle
  BY Places
<1>3. ASSUME NEW x \in Sessions, Call(x) PROVE FALSE
  <2>1. CASE x # s
    BY <1>1, <1>3, <2>1 DEF Call, Resolve, Reopen, ResolvePart, UnlinkPair, BulkResolve,
       LinkTransferPairs, Begin
  <2>2. CASE x = s
    BY <1>2, <1>3, <2>2 DEF Call, Resolve, Reopen, ResolvePart, UnlinkPair, BulkResolve,
       LinkTransferPairs, Begin
  <2>3. QED
    BY <2>1, <2>2
<1>4. ASSUME NEW x \in Sessions, Statement(x) PROVE x = s /\ LinkPair(s)
  <2>1. CASE x # s
    BY <1>1, <1>4, <2>1 DEF Statement, ClaimLooks, ClaimWrites, GiveBackClaims, ArriveLooks,
       ArriveInHolding, ArriveInNewHolding, Stamp, WithdrawArrivals, UndoArrivals,
       ClearAnswer, ClaimPart, UnlinkWrites, BulkWrites, MarksLook, MarksWrite, LinkPair, Commit
  <2>2. CASE x = s
    BY <1>4, <2>2 DEF Statement, ClaimLooks, ClaimWrites, GiveBackClaims, ArriveLooks,
       ArriveInHolding, ArriveInNewHolding, Stamp, WithdrawArrivals, UndoArrivals,
       ClearAnswer, ClaimPart, UnlinkWrites, BulkWrites, MarksLook, MarksWrite
  <2>3. QED
    BY <2>1, <2>2
<1>5. ASSUME NEW x \in Sessions, Rollback(x) PROVE x = s
  BY <1>1, <1>5 DEF Rollback
<1>6. ASSUME NEW h \in Holdings, EditHolding(h) PROVE FALSE
  BY <1>6 DEF EditHolding
<1>7. QED
  BY <1>3, <1>4, <1>5, <1>6 DEF Next

LEMMA MatcherTakesNoLink ==
  ASSUME IInv, NEW s \in Sessions, LinkPair(s), NEW k \in Legs, db[k].group # None
  PROVE  db'[k] = db[k]
<1>1. task[s] \in MatchType
  BY LinkPairSteps
<1>2. PICK o \in task[s].rows :
        /\ Links(o, s) => Unused # {}
        /\ db' = LinkRows(o, s) ++ db
  BY LinkPairSteps
<1>3. k \notin DOMAIN LinkRows(o, s)
  BY <1>1, <1>2, LinkPairRows
<1>4. k \in DOMAIN db
  BY DEF IInv, Shape, Keys
<1>5. QED
  BY <1>2, <1>3, <1>4, OverSecond

\* However old the list a nightly sweep works from and whatever answers were
\* given meanwhile, it takes no row out of a transfer group.
THEOREM LinksAreNotStolenHolds == Spec => LinksAreNotStolen
<1> DEFINE Kept == \A s \in Sessions, k \in Legs :
      (task[s].at = "match" /\ task'[s] # task[s] /\ Row(k) /\ db[k].group # None)
        => db'[k] = db[k]
<1>1. IInv /\ Next => Kept
  <2>1. ASSUME IInv, Next, NEW s \in Sessions, NEW k \in Legs, task[s].at = "match",
               task'[s] # task[s], db[k].group # None
        PROVE  db'[k] = db[k]
    <3>1. CASE LinkPair(s)
      BY <2>1, <3>1, MatcherTakesNoLink
    <3>2. CASE Rollback(s)
      BY <3>2 DEF Rollback
    <3>3. QED
      BY <2>1, <3>1, <3>2, OnlyLinkPair
  <2>2. QED
    BY <2>1
<1>2. IInv /\ [Next]_vars => [Kept]_vars
  BY <1>1
<1>3. QED
  BY <1>2, Invariance, PTL DEF Spec, LinksAreNotStolen

-----------------------------------------------------------------------------
(* While no call has gone by a stale row.                                  *)

\* Places of the calls that answer an outflow, that take an answer back, and of
\* all that name a transfer group.
ResolveAt == {"claim", "claimed", "giveBack", "arrive", "arrived", "stamp"}
WithdrawAt == {"withdraw", "undo", "clear", "part"}
GroupedAt == ResolveAt \cup WithdrawAt \cup {"unlink"}

IsPart(t) == t.at = "part" \/ (t.at \in {"withdraw", "undo"} /\ t.part)

(* Below, f is the committed rows, w what a session has written, rd the rows *)
(* it goes by, st those that have changed since, and t its call.             *)

-----------------------------------------------------------------------------
\* What holds however calls overlap.

\* An arrival is in a holding that exists; an uncommitted one goes with a write
\* of its holding, and an uncommitted DELETE of a holding takes its arrivals.
HoldingsExist(f) ==
  \A o \in Outflows, h \in Holdings : f[<<o, h>>] # None => f[h] # None

WrittenBeside(w) ==
  \A o \in Outflows, h \in Holdings :
    <<o, h>> \in DOMAIN w /\ w[<<o, h>>] # None => h \in DOMAIN w /\ w[h] # None

DeletedWhole(f, w) ==
  \A o \in Outflows, h \in Holdings :
    h \in DOMAIN w /\ w[h] = None /\ f[<<o, h>>] # None
      => <<o, h>> \in DOMAIN w /\ w[<<o, h>>] = None

OneDeparture(f) ==
  \A o, p \in Outflows : f[o].group # None /\ f[o].group = f[p].group => o = p

\* Nobody else has the group an answer is about to use.
GroupUnused(f, t) ==
  t.at \in ResolveAt /\ t.group # None =>
    \A k \in Legs : f[k] # None => f[k].group # t.group

GroupsApart(t, u) ==
  t.at \in ResolveAt /\ t.group # None /\ u.at \in GroupedAt => t.group # u.group

\* What a call has written of legs is in the group it names, or in none.
WritesNamed(f, w, t) ==
  \A k \in DOMAIN w \cap Legs :
    /\ t.at \in ResolveAt \cup WithdrawAt
    /\ w[k] # None => w[k].group \in {None, t.group}
    /\ k \in Outflows => t.at \in WithdrawAt /\ k = t.row /\ w[k] = f[k]

\* How far an answer has come.
AnswerProgress(w, t) ==
  t.at \in ResolveAt =>
    /\ t.review \in Bulk => t.group = None
    /\ t.review \in {"paired", "internal"} => t.group # None
    /\ t.review = "paired" => DOMAIN t.into = {} /\ DOMAIN w \cap Arrivals = {}
    /\ t.group = None => t.at = "stamp" /\ DOMAIN w = {}
    /\ t.at = "stamp" => t.claims = <<>> /\ DOMAIN t.into = {}
    /\ t.at \in {"claim", "claimed", "giveBack"} => DOMAIN w \subseteq Inflows
    /\ \A r \in DOMAIN w \cap Arrivals :
         r[1] = t.row /\ w[r] # None /\ w[r].group = t.group

Sure(f, w, t) ==
  /\ WrittenBeside(w) /\ DeletedWhole(f, w) /\ GroupUnused(f, t)
  /\ WritesNamed(f, w, t) /\ AnswerProgress(w, t)
  /\ t.at = "unlink" => "group" \in DOMAIN t

Always ==
  /\ DOMAIN read = Sessions /\ DOMAIN stale = Sessions
  /\ HoldingsExist(db) /\ OneDeparture(db)
  /\ \A s \in Sessions : Sure(db, own[s], task[s])
  /\ \A s, x \in Sessions : s # x => GroupsApart(task[s], task[x])

-----------------------------------------------------------------------------
\* What holds of a session none of whose rows has changed under it.

Unlinked(f, k) == f[k] # None /\ f[k].group = None

AnswerStands(f, w, rd, t) ==
  t.at \in ResolveAt =>
    /\ t.row \in rd /\ Pending(f[t.row])
    /\ \A i \in DOMAIN w \cap Inflows : Unlinked(f, i)
    /\ t.at = "claimed" =>
         Head(t.claims) \in rd /\ Unlinked(w ++ f, Head(t.claims))
    /\ t.at = "arrived" /\ t.adopts # None =>
         t.adopts \in rd /\ Unlinked(w ++ f, t.adopts)
    /\ t.group # None /\ t.at # "giveBack" =>
         \/ t.claims # <<>> \/ DOMAIN t.into # {}
         \/ \E k \in (DOMAIN w \cap Legs) \ Outflows : w[k] # None /\ w[k].group = t.group

WithdrawalStands(f, w, rd, t) ==
  t.at \in WithdrawAt =>
    /\ t.row \in rd \cup DOMAIN w
    /\ f[t.row].review # None /\ f[t.row].group = t.group
    /\ \A i \in DOMAIN w \cap Inflows : f[i] = None
    /\ \A r \in DOMAIN w \cap Arrivals : r[1] = t.row /\ w[r] = None
    /\ IsPart(t) =>
         /\ f[t.row].review = "split"
         /\ t.group # None
         /\ \E k \in Legs \ Outflows : /\ k \in rd \ DOMAIN w
                                       /\ f[k] # None /\ f[k].group = t.group
                                       /\ t.at = "withdraw" => k \notin {t.row} \X t.only
    /\ t.at = "withdraw" /\ ~IsPart(t) => t.only = Holdings
    /\ t.at \in {"undo", "clear"} /\ ~IsPart(t) =>
         \A h \in Holdings : (w ++ f)[<<t.row, h>>] = None
    /\ t.at = "undo" =>
         \A o \in Outflows, h \in t.closes :
           <<o, h>> \in rd \cup DOMAIN w /\ (w ++ f)[<<o, h>>] = None

UnlinkStands(f, rd, t) ==
  t.at = "unlink" =>
    /\ t.group # None
    /\ \E o \in Outflows \cap rd : f[o].group = t.group /\ f[o].review = None

BulkStands(f, rd, t) ==
  t.at = "bulk" =>
    \A o \in t.rows : o \in rd /\ f[o].group = None /\ f[o].review \in Bulk \cup {None}

\* The matcher goes on after a change: each row of its list stands on its own.
MatchStands(f, rd, st, t) ==
  t.at = "match" => \A o \in t.rows : o \in rd /\ (o \notin st => Pending(f[o]))

Stands(f, w, rd, st, t) ==
  /\ MatchStands(f, rd, st, t)
  /\ st = {} => /\ AnswerStands(f, w, rd, t) /\ WithdrawalStands(f, w, rd, t)
                /\ UnlinkStands(f, rd, t) /\ BulkStands(f, rd, t)

\* What holds of the committed rows meanwhile.
Answered(f) ==
  \A o \in Outflows, h \in Holdings : f[<<o, h>>] # None =>
    /\ f[o].review \in {"internal", "split"}
    /\ f[o].group = f[<<o, h>>].group
    /\ f[o].group # None

Agrees(r) ==
  /\ r.review \in Bulk => r.group = None
  /\ r.review \in {"paired", "internal"} => r.group # None

WholeGroup(f, g) ==
  InGroup(f, g) # {} =>
    /\ InGroup(f, g) \cap Outflows # {}
    /\ InGroup(f, g) \ Outflows # {}
    /\ (\E o \in InGroup(f, g) \cap Outflows : f[o].review = "split")
         => ~TwoArrivalsOnOneHolding(f, g)

Whole(f) ==
  Answered(f) /\ (\A o \in Outflows : Agrees(f[o])) /\ (\A g \in Groups : WholeGroup(f, g))

Unraced ==
  ~raced => /\ Whole(db)
            /\ \A s \in Sessions : Stands(db, own[s], read[s], stale[s], task[s])

WInv == IInv /\ Always /\ Unraced
-----------------------------------------------------------------------------
\* Rows under a write.

LEMMA LegKeys ==
  /\ Outflows \subseteq Legs /\ Inflows \subseteq Legs /\ Arrivals \subseteq Legs
  /\ Legs \subseteq Keys /\ Holdings \subseteq Keys
  /\ \A o \in Outflows, h \in Holdings : <<o, h>> \in Arrivals
  /\ \A r \in Arrivals : r[1] \in Outflows /\ r[2] \in Holdings /\ r = <<r[1], r[2]>>
  /\ \A k \in Legs : k \notin Holdings
  /\ \A k \in Legs : k \in Outflows \/ k \in Inflows \/ k \in Arrivals
<1>1. \A k \in Legs : k \notin Holdings
  BY Kinds DEF Legs
<1>2. /\ \A o \in Outflows, h \in Holdings : <<o, h>> \in Arrivals
      /\ \A r \in Arrivals : r[1] \in Outflows /\ r[2] \in Holdings /\ r = <<r[1], r[2]>>
  BY DEF Arrivals
<1>3. QED
  BY <1>1, <1>2 DEF Legs, Keys

LEMMA OverAt ==
  ASSUME NEW w, NEW f, NEW k, k \in DOMAIN w \/ k \in DOMAIN f
  PROVE  /\ k \in DOMAIN w => (w ++ f)[k] = w[k]
         /\ k \notin DOMAIN w => (w ++ f)[k] = f[k]
BY OverFirst, OverSecond

\* A group that InGroup finds.
LEMMA InGroupIs ==
  ASSUME NEW f, NEW g, NEW k
  PROVE  k \in InGroup(f, g) <=> k \in Legs /\ f[k] # None /\ f[k].group = g
BY DEF InGroup

\* What a session's call goes by survives what others commit.
LEMMA StandsStable ==
  ASSUME NEW f, NEW e, DOMAIN f = Keys, DOMAIN e = Keys, NEW w, NEW rd, NEW st, NEW sd,
         NEW t, TaskOK(t), Stands(f, w, rd, st, t), DOMAIN w \subseteq Keys,
         st \subseteq sd,
         \A k \in Legs \cap rd : e[k] = f[k] \/ k \in sd,
         \A k \in DOMAIN w : e[k] = f[k],
         \A o \in Outflows, h \in Holdings :
           e[<<o, h>>] # None /\ f[<<o, h>>] = None => e[o] # f[o]
  PROVE  Stands(e, w, rd, sd, t)
<1>1. MatchStands(e, rd, sd, t)
  <2> SUFFICES ASSUME t.at = "match", NEW o \in t.rows
               PROVE  o \in rd /\ (o \notin sd => Pending(e[o]))
    BY DEF MatchStands
  <2>1. o \in rd /\ (o \notin st => Pending(f[o]))
    BY DEF Stands, MatchStands
  <2>2. o \in Legs
    BY LegKeys DEF TaskOK, MatchType
  <2>3. QED
    BY <2>1, <2>2
<1>2. ASSUME sd = {}
      PROVE  /\ AnswerStands(e, w, rd, t) /\ WithdrawalStands(e, w, rd, t)
             /\ UnlinkStands(e, rd, t) /\ BulkStands(e, rd, t)
  <2>1. /\ AnswerStands(f, w, rd, t) /\ WithdrawalStands(f, w, rd, t)
        /\ UnlinkStands(f, rd, t) /\ BulkStands(f, rd, t)
    BY <1>2 DEF Stands
  <2>2. \A k \in Legs \cap (rd \cup DOMAIN w) : e[k] = f[k]
    BY <1>2
  <2>3. \A k \in Legs \cap (rd \cup DOMAIN w) : (w ++ e)[k] = (w ++ f)[k]
    BY <2>2, OverAt, LegKeys
  <2>4. AnswerStands(e, w, rd, t)
    <3> SUFFICES ASSUME t.at \in ResolveAt PROVE AnswerStands(e, w, rd, t)
      BY DEF AnswerStands
    <3>1. t.row \in Outflows
      BY DEF TaskOK, AskType, ArrivedType, ResolveAt, Asking
    <3>2. t.at = "claimed" => Head(t.claims) \in Legs
      <4>1. t.at = "claimed" => t.claims \in Seq(Inflows) /\ t.claims # <<>>
        BY DEF TaskOK, AskType, Asking
      <4>2. QED
        BY <4>1, LegKeys
    <3>3. t.at = "arrived" /\ t.adopts # None => t.adopts \in Legs
      BY LegKeys, TransferReviewAssumption DEF TaskOK, ArrivedType
    <3>4. e[t.row] = f[t.row]
      BY <2>1, <2>2, <3>1, LegKeys DEF AnswerStands
    <3>5. \A i \in DOMAIN w \cap Inflows : e[i] = f[i]
      BY <2>2, LegKeys
    <3>6. t.at = "claimed" =>
            Head(t.claims) \in rd /\ (w ++ e)[Head(t.claims)] = (w ++ f)[Head(t.claims)]
      BY <2>1, <2>3, <3>2 DEF AnswerStands
    <3>7. t.at = "arrived" /\ t.adopts # None =>
            t.adopts \in rd /\ (w ++ e)[t.adopts] = (w ++ f)[t.adopts]
      BY <2>1, <2>3, <3>3 DEF AnswerStands
    <3>8. QED
      BY <2>1, <3>4, <3>5, <3>6, <3>7 DEF AnswerStands, Unlinked
  <2>5. WithdrawalStands(e, w, rd, t)
    <3> SUFFICES ASSUME t.at \in WithdrawAt PROVE WithdrawalStands(e, w, rd, t)
      BY DEF WithdrawalStands
    <3>1. t.row \in Outflows
      BY DEF TaskOK, WithdrawType, UndoType, ClearType, WithdrawAt
    <3>2. e[t.row] = f[t.row]
      BY <2>1, <2>2, <3>1, LegKeys DEF WithdrawalStands
    <3>3. \A i \in DOMAIN w \cap Inflows : e[i] = f[i]
      BY <2>2, LegKeys
    <3>4. \A o \in Outflows, h \in Holdings : <<o, h>> \in rd \cup DOMAIN w =>
            e[<<o, h>>] = f[<<o, h>>] /\ (w ++ e)[<<o, h>>] = (w ++ f)[<<o, h>>]
      BY <2>2, <2>3, LegKeys
    <3>5. t.at = "undo" => t.closes \subseteq Holdings
      BY DEF TaskOK, UndoType
    <3>6. ASSUME t.at \in {"undo", "clear"}, ~IsPart(t), NEW h \in Holdings
          PROVE  (w ++ e)[<<t.row, h>>] = None
      <4>1. (w ++ f)[<<t.row, h>>] = None
        BY <2>1, <3>6 DEF WithdrawalStands
      <4>2. <<t.row, h>> \in Keys
        BY <3>1, LegKeys
      <4>3. CASE <<t.row, h>> \in DOMAIN w
        BY <4>1, <4>3, OverAt
      <4>4. CASE <<t.row, h>> \notin DOMAIN w
        <5>1. f[<<t.row, h>>] = None
          BY <4>1, <4>2, <4>4, OverAt
        <5>2. e[<<t.row, h>>] = None
          BY <5>1, <3>1, <3>2
        <5>3. QED
          BY <5>2, <4>2, <4>4, OverAt
      <4>5. QED
        BY <4>3, <4>4
    <3>7. ASSUME IsPart(t)
          PROVE  \E k \in Legs \ Outflows : /\ k \in rd \ DOMAIN w
                                            /\ e[k] # None /\ e[k].group = t.group
                                            /\ t.at = "withdraw" => k \notin {t.row} \X t.only
      <4>1. PICK k \in Legs \ Outflows : /\ k \in rd \ DOMAIN w
                                         /\ f[k] # None /\ f[k].group = t.group
                                         /\ t.at = "withdraw" => k \notin {t.row} \X t.only
        BY <2>1, <3>7 DEF WithdrawalStands
      <4>2. e[k] = f[k]
        BY <4>1, <2>2
      <4>3. QED
        BY <4>1, <4>2
    <3>8. ASSUME t.at = "undo", NEW o \in Outflows, NEW h \in t.closes
          PROVE  <<o, h>> \in rd \cup DOMAIN w /\ (w ++ e)[<<o, h>>] = None
      <4>1. <<o, h>> \in rd \cup DOMAIN w /\ (w ++ f)[<<o, h>>] = None
        BY <2>1, <3>8 DEF WithdrawalStands
      <4>2. QED
        BY <4>1, <3>4, <3>5, <3>8
    <3>9. QED
      BY <2>1, <3>2, <3>3, <3>6, <3>7, <3>8 DEF WithdrawalStands
  <2>6. UnlinkStands(e, rd, t)
    BY <2>1, <2>2, LegKeys DEF UnlinkStands
  <2>7. BulkStands(e, rd, t)
    <3>1. t.at = "bulk" => t.rows \subseteq Legs
      BY LegKeys DEF TaskOK, BulkType
    <3>2. QED
      BY <2>1, <2>2, <3>1 DEF BulkStands
  <2>8. QED
    BY <2>4, <2>5, <2>6, <2>7
<1>3. QED
  BY <1>1, <1>2 DEF Stands

\* And what its writes look like.
LEMMA SureStable ==
  ASSUME NEW f, NEW e, NEW w, NEW t, Sure(f, w, t),
         \A k \in DOMAIN w : e[k] = f[k],
         \A o \in Outflows, h \in Holdings :
           h \in DOMAIN w /\ e[<<o, h>>] # None => f[<<o, h>>] # None,
         GroupUnused(e, t)
  PROVE  Sure(e, w, t)
<1>1. DeletedWhole(e, w)
  BY DEF Sure, DeletedWhole
<1>2. WritesNamed(e, w, t)
  BY DEF Sure, WritesNamed
<1>3. QED
  BY <1>1, <1>2 DEF Sure
-----------------------------------------------------------------------------
\* The kinds of step.

LEMMA NotNone ==
  ASSUME NEW r, r \in OutflowType \cup InflowType \cup ArrivalType \cup HoldingType
  PROVE  r # None
BY NoneIsNoRow

\* A session's step that publishes nothing.
LEMMA LocalStep ==
  ASSUME WInv, IInv', NEW s \in Sessions, db' = db, raced' = raced,
         DOMAIN read' = Sessions, DOMAIN stale' = Sessions,
         \A x \in Sessions \ {s} : /\ own'[x] = own[x] /\ task'[x] = task[x]
                                   /\ read'[x] = read[x] /\ stale'[x] = stale[x],
         Sure(db, own'[s], task'[s]),
         \A x \in Sessions \ {s} : /\ GroupsApart(task'[s], task[x])
                                   /\ GroupsApart(task[x], task'[s]),
         ~raced => Stands(db, own'[s], read'[s], stale'[s], task'[s])
  PROVE  WInv'
<1>1. \A x \in Sessions : Sure(db', own'[x], task'[x])
  BY DEF WInv, Always
<1>2. \A y, x \in Sessions : y # x => GroupsApart(task'[y], task'[x])
  BY DEF WInv, Always
<1>3. Always'
  BY <1>1, <1>2 DEF WInv, Always
<1>4. Unraced'
  BY DEF WInv, Unraced
<1>5. QED
  BY <1>3, <1>4 DEF WInv

\* The call goes on, in the group it had, or leaves its group.
LEMMA GroupKept ==
  ASSUME NEW t, NEW n, NEW u, GroupsApart(t, u), GroupsApart(u, t),
         n.at \in ResolveAt => t.at \in ResolveAt /\ n.group = t.group,
         n.at \in GroupedAt => t.at \in GroupedAt /\ n.group = t.group
  PROVE  GroupsApart(n, u) /\ GroupsApart(u, n)
BY DEF GroupsApart

\* A call that is nowhere in a transaction's middle.
LEMMA QuietStands ==
  ASSUME NEW f, NEW rd, NEW st, NEW t, t \in {Idle, Start}
  PROVE  /\ Sure(f, <<>>, t) /\ Stands(f, <<>>, rd, st, t)
         /\ \A u : GroupsApart(t, u) /\ GroupsApart(u, t)
<1>1. t.at \in {"idle", "marks"}
  BY DEF Idle, Start
<1>2. t.at \notin GroupedAt \cup {"bulk", "match"} /\ t.at \notin ResolveAt /\ t.at \notin WithdrawAt
      /\ t.at \notin {"unlink", "bulk", "match"}
  BY <1>1 DEF GroupedAt, ResolveAt, WithdrawAt
<1>3. Sure(f, <<>>, t)
  BY <1>2, EmptyDomain DEF Sure, WrittenBeside, DeletedWhole, GroupUnused, WritesNamed, AnswerProgress
<1>4. Stands(f, <<>>, rd, st, t)
  BY <1>2 DEF Stands, MatchStands, AnswerStands, WithdrawalStands, UnlinkStands, BulkStands
<1>5. \A u : GroupsApart(t, u) /\ GroupsApart(u, t)
  BY <1>2 DEF GroupsApart
<1>6. QED
  BY <1>3, <1>4, <1>5

\* An arrival appears only together with a change of its outflow.
Adds(f, e) ==
  \A o \in Outflows, h \in Holdings : e[<<o, h>>] # None /\ f[<<o, h>>] = None => e[o] # f[o]

Changed(f, new) == {k \in DOMAIN new : Fact(new, k) # Fact(f, k)}

\* A step that publishes new; s is who takes it.
LEMMA PublishesStep ==
  ASSUME WInv, IInv', NEW s, NEW new, DOMAIN new \subseteq Keys, db' = new ++ db,
         ~raced' => ~raced,
         DOMAIN read' = Sessions, DOMAIN stale' = Sessions,
         \A x \in Sessions \ {s} : /\ own'[x] = own[x] /\ task'[x] = task[x]
                                   /\ read'[x] = read[x]
                                   /\ stale'[x] = stale[x] \cup (Changed(db, new) \cap read[x])
                                   /\ DOMAIN own[x] \cap DOMAIN new = {}
                                   /\ GroupUnused(db', task[x])
                                   /\ \A o \in Outflows, h \in Holdings :
                                        h \in DOMAIN own[x] /\ db'[<<o, h>>] # None
                                          => db[<<o, h>>] # None,
         HoldingsExist(db'), OneDeparture(db'),
         s \in Sessions => /\ Sure(db', own'[s], task'[s])
                           /\ \A x \in Sessions \ {s} : /\ GroupsApart(task'[s], task[x])
                                                        /\ GroupsApart(task[x], task'[s]),
         ~raced' => /\ Whole(db') /\ Adds(db, db')
                    /\ s \in Sessions => Stands(db', own'[s], read'[s], stale'[s], task'[s])
  PROVE  WInv'
<1>1. DOMAIN db = Keys /\ DOMAIN db' = Keys
  BY DEF WInv, IInv, Shape
<1>2. \A k \in Keys : /\ k \in DOMAIN new => db'[k] = new[k]
                      /\ k \notin DOMAIN new => db'[k] = db[k]
  <2>1. \A k \in Keys : /\ k \in DOMAIN new => (new ++ db)[k] = new[k]
                        /\ k \notin DOMAIN new => (new ++ db)[k] = db[k]
    BY <1>1, OverAt
  <2>2. QED
    BY <2>1
<1>3. ASSUME NEW x \in Sessions \ {s} PROVE Sure(db', own'[x], task'[x])
  <2>1. Sure(db, own[x], task[x]) /\ DOMAIN own[x] \subseteq Keys
    BY DEF WInv, Always, IInv, RowsTyped, RowsOK
  <2>2. \A k \in DOMAIN own[x] : db'[k] = db[k]
    BY <1>2, <2>1
  <2> DEFINE w == own[x]
             t == task[x]
             e == db'
  <2>3. /\ \A o \in Outflows, h \in Holdings :
             h \in DOMAIN w /\ e[<<o, h>>] # None => db[<<o, h>>] # None
        /\ GroupUnused(e, t)
    OBVIOUS
  <2>4. Sure(db, w, t) /\ \A k \in DOMAIN w : e[k] = db[k]
    BY <2>1, <2>2
  <2> HIDE DEF w, t, e
  <2>5. Sure(e, w, t)
    BY <2>3, <2>4, SureStable
  <2>6. QED
    BY <2>5 DEF w, t, e
<1>4. ASSUME NEW x \in Sessions \ {s}, ~raced'
      PROVE  Stands(db', own'[x], read'[x], stale'[x], task'[x])
  <2>1. /\ Stands(db, own[x], read[x], stale[x], task[x]) /\ TaskOK(task[x])
        /\ DOMAIN own[x] \subseteq Keys
    BY <1>4 DEF WInv, Unraced, IInv, RowsTyped, RowsOK, TasksTyped
  <2>2. \A k \in DOMAIN own[x] : db'[k] = db[k]
    BY <1>2, <2>1
  <2>3. ASSUME NEW k \in Legs \cap read[x] PROVE db'[k] = db[k] \/ k \in stale'[x]
    <3>1. k \in Keys /\ k \notin Holdings
      BY LegKeys
    <3>2. CASE k \in DOMAIN new /\ new[k] # db[k]
      <4>1. Fact(new, k) = new[k] /\ Fact(db, k) = db[k]
        BY <3>1 DEF Fact
      <4>2. QED
        BY <4>1, <3>2 DEF Changed
    <3>3. QED
      BY <1>2, <3>1, <3>2
  <2> DEFINE w == own[x]
             t == task[x]
             e == db'
             rd == read[x]
             st == stale[x]
             sd == stale'[x]
  <2>4. /\ Stands(db, w, rd, st, t) /\ TaskOK(t) /\ DOMAIN w \subseteq Keys
        /\ \A k \in DOMAIN w : e[k] = db[k]
        /\ \A k \in Legs \cap rd : e[k] = db[k] \/ k \in sd
        /\ st \subseteq sd /\ DOMAIN e = Keys /\ DOMAIN db = Keys
    BY <1>1, <2>1, <2>2, <2>3
  <2>5. \A o \in Outflows, h \in Holdings :
          e[<<o, h>>] # None /\ db[<<o, h>>] = None => e[o] # db[o]
    BY <1>4 DEF Adds
  <2> HIDE DEF w, t, e, rd, st, sd
  <2>6. Stands(e, w, rd, sd, t)
    BY <2>4, <2>5, StandsStable
  <2>7. QED
    BY <2>6 DEF w, t, e, rd, st, sd
<1>5. \A x \in Sessions : Sure(db', own'[x], task'[x])
  BY <1>3
<1>6. \A y, x \in Sessions : y # x => GroupsApart(task'[y], task'[x])
  BY DEF WInv, Always
<1>7. Always'
  BY <1>5, <1>6 DEF Always
<1>8. Unraced'
  BY <1>4 DEF Unraced
<1>9. QED
  BY <1>7, <1>8 DEF WInv
-----------------------------------------------------------------------------
\* What a commit does to groups and answers.

\* A write in one group that leaves that group whole, and answers where it
\* changes an outflow, leaves everything whole.
LEMMA WholeAfter ==
  ASSUME NEW f, NEW new, NEW e, e = new ++ f, DOMAIN f = Keys, DOMAIN new \subseteq Keys,
         Whole(f), NEW g,
         \A k \in DOMAIN new \cap Legs : /\ f[k] # None => f[k].group \in {None, g}
                                         /\ new[k] # None => new[k].group \in {None, g},
         g \in Groups => WholeGroup(e, g), None \notin Groups,
         \A o \in DOMAIN new \cap Outflows :
           /\ Agrees(new[o])
           /\ \/ new[o] = f[o]
              \/ \A h \in Holdings : f[<<o, h>>] # None => <<o, h>> \in DOMAIN new,
         \A o \in Outflows, h \in Holdings :
           <<o, h>> \in DOMAIN new /\ new[<<o, h>>] # None =>
             /\ e[o].review \in {"internal", "split"}
             /\ e[o].group = new[<<o, h>>].group
             /\ e[o].group # None
  PROVE  Whole(e)
<1>1. \A k \in Keys : /\ k \in DOMAIN new => e[k] = new[k]
                      /\ k \notin DOMAIN new => e[k] = f[k]
  BY OverAt
<1>2. Answered(e)
  <2> SUFFICES ASSUME NEW o \in Outflows, NEW h \in Holdings, e[<<o, h>>] # None
               PROVE  /\ e[o].review \in {"internal", "split"}
                      /\ e[o].group = e[<<o, h>>].group
                      /\ e[o].group # None
    BY DEF Answered
  <2>1. <<o, h>> \in Keys /\ o \in Keys
    BY LegKeys
  <2>2. CASE <<o, h>> \in DOMAIN new
    BY <1>1, <2>1, <2>2
  <2>3. CASE <<o, h>> \notin DOMAIN new
    <3>1. e[<<o, h>>] = f[<<o, h>>]
      BY <1>1, <2>1, <2>3
    <3>2. e[o] = f[o]
      BY <1>1, <2>1, <2>3, <3>1
    <3>3. QED
      BY <3>1, <3>2 DEF Whole, Answered
  <2>4. QED
    BY <2>2, <2>3
<1>3. \A o \in Outflows : Agrees(e[o])
  BY <1>1, LegKeys DEF Whole
<1>4. ASSUME NEW d \in Groups PROVE WholeGroup(e, d)
  <2>1. CASE d = g
    BY <2>1
  <2>2. CASE d # g
    <3>1. \A k \in Legs : k \in InGroup(f, d) \/ k \in InGroup(e, d) => e[k] = f[k]
      <4>1. ASSUME NEW k \in Legs, k \in DOMAIN new
            PROVE  k \notin InGroup(f, d) /\ k \notin InGroup(e, d)
        <5>1. k \in Keys /\ e[k] = new[k]
          BY <1>1, <4>1, LegKeys
        <5>2. QED
          BY <2>2, <4>1, <5>1, InGroupIs
      <4>2. QED
        BY <1>1, <4>1, LegKeys
    <3>2. InGroup(f, d) = InGroup(e, d)
      BY <3>1, InGroupIs
    <3>3. \A k \in InGroup(e, d) : e[k] = f[k]
      BY <3>1, InGroupIs
    <3>4. TwoArrivalsOnOneHolding(e, d) => TwoArrivalsOnOneHolding(f, d)
      BY <3>2 DEF TwoArrivalsOnOneHolding
    <3>5. WholeGroup(f, d)
      BY DEF Whole
    <3>6. QED
      BY <3>2, <3>3, <3>4, <3>5 DEF WholeGroup
  <2>3. QED
    BY <2>1, <2>2
<1>5. QED
  BY <1>2, <1>3, <1>4 DEF Whole

\* A group nothing is in is whole.
LEMMA EmptyGroup ==
  ASSUME NEW f, NEW g, \A k \in Legs : f[k] # None => f[k].group # g
  PROVE  WholeGroup(f, g)
BY InGroupIs DEF WholeGroup

\* After a release is committed nothing is in the group.
LEMMA Released ==
  ASSUME NEW f, DOMAIN f = Keys, RowsOK(f), NEW g, g # None, NEW k \in Legs,
         NEW w, k \in DOMAIN ReleaseTransferGroup(f, g) => w = ReleaseTransferGroup(f, g)[k],
         k \notin DOMAIN ReleaseTransferGroup(f, g) => w = f[k], w # None
  PROVE  w.group # g
<1>1. /\ DOMAIN ReleaseTransferGroup(f, g) = InGroup(f, g)
      /\ \A j \in InGroup(f, g) : ReleaseTransferGroup(f, g)[j] = [f[j] EXCEPT !.group = None]
  BY DEF ReleaseTransferGroup
<1>2. CASE k \in InGroup(f, g)
  <2>1. f[k] \in OutflowType \cup InflowType \cup ArrivalType
    BY <1>2, LegKeys, InGroupIs DEF RowsOK, RowOK
  <2>2. w = [f[k] EXCEPT !.group = None]
    BY <1>1, <1>2
  <2>3. w.group = None
    BY <2>1, <2>2 DEF OutflowType, InflowType, ArrivalType
  <2>4. QED
    BY <2>3
<1>3. CASE k \notin InGroup(f, g)
  BY <1>1, <1>3, InGroupIs
<1>4. QED
  BY <1>2, <1>3

\* A commit of w, and of what the session has written before.
LEMMA CommitStands ==
  ASSUME WInv, IInv', NEW s \in Sessions, NEW t, t \in {Idle, Start},
         NEW w, Commit(s, w, t), Free(s, DOMAIN w), DOMAIN w \subseteq Legs,
         \A r \in DOMAIN w \cap Arrivals : w[r] # None => Sees(s)[r] # None,
         \A k \in DOMAIN w : w[k] # None =>
           \/ w[k].group = None
           \/ task[s].at \in GroupedAt /\ w[k].group = task[s].group
           \/ db[k] # None /\ w[k].group = db[k].group,
         \A o \in DOMAIN w \cap Outflows :
           \/ w[o].group \in {None, db[o].group}
           \/ /\ task[s].at \in ResolveAt /\ o = task[s].row /\ w[o].group = task[s].group,
         ~raced /\ stale[s] = {} =>
           Whole((w ++ own[s]) ++ db) /\ Adds(db, (w ++ own[s]) ++ db)
  PROVE  WInv'
<1> DEFINE new == w ++ own[s]
           e == new ++ db
<1>1. /\ DOMAIN db = Keys /\ DOMAIN own[s] \subseteq Keys
      /\ DOMAIN own = Sessions /\ DOMAIN task = Sessions
      /\ DOMAIN read = Sessions /\ DOMAIN stale = Sessions
      /\ Sure(db, own[s], task[s])
      /\ \A k \in Outflows : db[k] # None
  BY NotNone, LegKeys DEF WInv, IInv, Shape, RowsTyped, RowsOK, RowOK, Always
<1>2. DOMAIN new = DOMAIN w \cup DOMAIN own[s] /\ DOMAIN new \subseteq Keys
  <2>1. DOMAIN new = DOMAIN w \cup DOMAIN own[s]
    BY OverDomain
  <2> HIDE DEF new
  <2>2. QED
    BY <1>1, <2>1, LegKeys
<1>3. \A k \in Keys : /\ k \in DOMAIN w => e[k] = w[k] /\ new[k] = w[k]
                      /\ k \notin DOMAIN w => e[k] = Sees(s)[k]
                      /\ k \notin DOMAIN w /\ k \in DOMAIN own[s] =>
                           e[k] = own[s][k] /\ new[k] = own[s][k] /\ Sees(s)[k] = own[s][k]
                      /\ k \notin DOMAIN w /\ k \notin DOMAIN own[s] =>
                           e[k] = db[k] /\ Sees(s)[k] = db[k]
  <2>1. \A k \in DOMAIN new : new[k] = IF k \in DOMAIN w THEN w[k] ELSE own[s][k]
    BY <1>2, OverAt
  <2>2. \A k \in Keys : e[k] = IF k \in DOMAIN new THEN new[k] ELSE db[k]
    <3> HIDE DEF new
    <3>1. QED
      BY <1>1, OverAt
  <2>3. \A k \in Keys : Sees(s)[k] = IF k \in DOMAIN own[s] THEN own[s][k] ELSE db[k]
    BY <1>1, OverAt DEF Sees
  <2> HIDE DEF new, e
  <2>4. QED
    BY <1>2, <2>1, <2>2, <2>3
<1>4. /\ db' = e
      /\ \A x \in Sessions \ {s} : /\ own'[x] = own[x] /\ task'[x] = task[x]
                                   /\ read'[x] = read[x]
                                   /\ stale'[x] = stale[x] \cup (Changed(db, new) \cap read[x])
      /\ own'[s] = <<>> /\ task'[s] = t
      /\ DOMAIN read' = Sessions /\ DOMAIN stale' = Sessions
      /\ raced' = (raced \/ (DOMAIN new # {} /\ stale[s] # {}))
  BY <1>1 DEF Commit, Publish, Goto, Changed
<1> HIDE DEF e
<1>5. \A x \in Sessions \ {s} : DOMAIN own[x] \cap DOMAIN new = {}
  BY <1>2 DEF Free, WInv, IInv, LocksExclude
<1>6. \A o \in Outflows, h \in Holdings : e[<<o, h>>] # None => Sees(s)[<<o, h>>] # None
  BY <1>3, LegKeys
<1>7. HoldingsExist(e)
  <2> SUFFICES ASSUME NEW o \in Outflows, NEW h \in Holdings, e[<<o, h>>] # None
               PROVE  e[h] # None
    BY DEF HoldingsExist
  <2>1. Sees(s)[<<o, h>>] # None /\ <<o, h>> \in Keys /\ h \in Keys /\ h \notin DOMAIN w
    BY <1>6, LegKeys
  <2>2. CASE h \in DOMAIN own[s]
    <3>1. CASE <<o, h>> \in DOMAIN own[s]
      BY <1>1, <1>3, <2>1, <2>2, <3>1, OverAt DEF Sure, WrittenBeside, Sees
    <3>2. CASE <<o, h>> \notin DOMAIN own[s]
      <4>1. db[<<o, h>>] # None
        BY <1>1, <2>1, <3>2, OverAt DEF Sees
      <4>2. own[s][h] # None
        BY <1>1, <2>2, <3>2, <4>1 DEF Sure, DeletedWhole
      <4>3. QED
        BY <1>3, <2>1, <2>2, <4>2
    <3>3. QED
      BY <3>1, <3>2
  <2>3. CASE h \notin DOMAIN own[s]
    <3>1. <<o, h>> \notin DOMAIN own[s]
      BY <1>1, <2>1, <2>3, OverAt DEF Sure, WrittenBeside, Sees
    <3>2. db[<<o, h>>] # None
      BY <1>1, <2>1, <3>1, OverAt DEF Sees
    <3>3. db[h] # None
      BY <3>2 DEF WInv, Always, HoldingsExist
    <3>4. QED
      BY <1>3, <2>1, <2>3, <3>3
  <2>4. QED
    BY <2>2, <2>3
<1>8. ASSUME NEW x \in Sessions \ {s}, NEW o \in Outflows, NEW h \in Holdings,
             h \in DOMAIN own[x], e[<<o, h>>] # None
      PROVE  db[<<o, h>>] # None
  <2>1. h \notin DOMAIN own[s]
    BY <1>8 DEF WInv, IInv, LocksExclude
  <2>2. Sees(s)[<<o, h>>] # None /\ <<o, h>> \in Keys
    BY <1>6, <1>8, LegKeys
  <2>3. <<o, h>> \notin DOMAIN own[s]
    BY <1>1, <2>1, <2>2, OverAt DEF Sure, WrittenBeside, Sees
  <2>4. QED
    BY <1>1, <2>2, <2>3, OverAt DEF Sees
<1>9. ASSUME NEW x \in Sessions \ {s} PROVE GroupUnused(e, task[x])
  <2> SUFFICES ASSUME task[x].at \in ResolveAt, task[x].group # None, NEW k \in Legs, e[k] # None
               PROVE  e[k].group # task[x].group
    BY DEF GroupUnused
  <2>1. k \in Keys
    BY LegKeys
  <2>2. db[k] # None => db[k].group # task[x].group
    BY DEF WInv, Always, Sure, GroupUnused
  <2>3. task[s].at \in GroupedAt => task[s].group # task[x].group
    BY DEF WInv, Always, GroupsApart
  <2>4. CASE k \in DOMAIN w
    BY <1>3, <2>1, <2>2, <2>3, <2>4
  <2>5. CASE k \notin DOMAIN w /\ k \in DOMAIN own[s]
    <3>1. /\ task[s].at \in GroupedAt
          /\ own[s][k] # None => own[s][k].group \in {None, task[s].group}
      BY <1>1, <2>5 DEF Sure, WritesNamed, GroupedAt
    <3>2. QED
      BY <1>3, <2>1, <2>3, <2>5, <3>1
  <2>6. CASE k \notin DOMAIN w /\ k \notin DOMAIN own[s]
    BY <1>3, <2>1, <2>2, <2>6
  <2>7. QED
    BY <2>4, <2>5, <2>6
<1>10. OneDeparture(e)
  <2>1. ASSUME NEW o \in Outflows
        PROVE  \/ e[o].group \in {None, db[o].group}
               \/ /\ task[s].at \in ResolveAt /\ o = task[s].row
                  /\ e[o].group = task[s].group
    <3>1. o \in Keys
      BY LegKeys
    <3>2. CASE o \in DOMAIN w
      BY <1>3, <3>1, <3>2
    <3>3. CASE o \notin DOMAIN w /\ o \in DOMAIN own[s]
      <4>1. own[s][o] = db[o]
        BY <1>1, <3>3, LegKeys DEF Sure, WritesNamed
      <4>2. QED
        BY <1>3, <3>1, <3>3, <4>1
    <3>4. CASE o \notin DOMAIN w /\ o \notin DOMAIN own[s]
      BY <1>3, <3>1, <3>4
    <3>5. QED
      BY <3>2, <3>3, <3>4
  <2>2. ASSUME task[s].at \in ResolveAt, task[s].group # None, NEW o \in Outflows
        PROVE  db[o].group # task[s].group
    BY <1>1, <2>2, LegKeys DEF Sure, GroupUnused
  <2>3. QED
    BY <2>1, <2>2 DEF OneDeparture, WInv, Always
<1>11. /\ Sure(e, <<>>, t) /\ \A st : Stands(e, <<>>, read'[s], st, t)
       /\ \A u : GroupsApart(t, u) /\ GroupsApart(u, t)
  BY QuietStands
<1>12. ASSUME ~raced' PROVE ~raced /\ Whole(e) /\ Adds(db, e)
  <2>1. ~raced
    BY <1>4, <1>12
  <2>2. CASE stale[s] = {}
    BY <2>1, <2>2 DEF e
  <2>3. CASE DOMAIN new = {}
    <3>1. \A k \in Keys : e[k] = db[k]
      BY <1>2, <1>3, <2>3
    <3>2. Whole(db) /\ None \notin Groups /\ e = new ++ db
      BY <2>1, TransferReviewAssumption DEF WInv, Unraced, e
    <3> HIDE DEF new
    <3>3. DOMAIN new \cap Legs = {} /\ DOMAIN new \cap Outflows = {}
      BY <2>3
    <3>4. Whole(e)
      BY <1>1, <1>2, <2>3, <3>2, <3>3, WholeAfter
    <3>5. Adds(db, e)
      BY <3>1, LegKeys DEF Adds
    <3>6. QED
      BY <2>1, <3>4, <3>5
  <2>4. QED
    BY <1>4, <1>12, <2>2, <2>3
<1> HIDE DEF new
<1>13. QED
  BY <1>2, <1>4, <1>5, <1>7, <1>8, <1>9, <1>10, <1>11, <1>12, PublishesStep DEF e
-----------------------------------------------------------------------------
\* The calls begin.

LEMMA GoesOn ==
  ASSUME WInv, IInv', NEW s \in Sessions, NEW t, Goto(s, t),
         db' = db, raced' = raced, stale' = stale,
         NEW v, (own' = own /\ v = own[s]) \/ own' = [own EXCEPT ![s] = v],
         NEW rd, (read' = read /\ rd = read[s]) \/ read' = [read EXCEPT ![s] = rd],
         \A x \in Sessions \ {s} : GroupsApart(t, task[x]) /\ GroupsApart(task[x], t),
         Sure(db, v, t), ~raced => Stands(db, v, rd, stale[s], t)
  PROVE  WInv'
<1>1. /\ DOMAIN own = Sessions /\ DOMAIN task = Sessions
      /\ DOMAIN read = Sessions /\ DOMAIN stale = Sessions
  BY DEF WInv, IInv, Shape, Always
<1>2. /\ own'[s] = v /\ read'[s] = rd /\ task'[s] = t
      /\ \A x \in Sessions \ {s} : own'[x] = own[x] /\ read'[x] = read[x] /\ task'[x] = task[x]
      /\ DOMAIN read' = Sessions /\ DOMAIN stale' = Sessions
  BY <1>1 DEF Goto
<1>3. QED
  BY <1>2, LocalStep

\* The same, in the group the call has.
LEMMA GoesOnInGroup ==
  ASSUME WInv, IInv', NEW s \in Sessions, NEW t, Goto(s, t),
         db' = db, raced' = raced, stale' = stale,
         NEW v, (own' = own /\ v = own[s]) \/ own' = [own EXCEPT ![s] = v],
         NEW rd, (read' = read /\ rd = read[s]) \/ read' = [read EXCEPT ![s] = rd],
         t.at \in ResolveAt => task[s].at \in ResolveAt /\ t.group = task[s].group,
         t.at \in GroupedAt => task[s].at \in GroupedAt /\ t.group = task[s].group,
         Sure(db, v, t), ~raced => Stands(db, v, rd, stale[s], t)
  PROVE  WInv'
<1>1. \A x \in Sessions \ {s} : GroupsApart(t, task[x]) /\ GroupsApart(task[x], t)
  BY GroupKept DEF WInv, Always
<1>2. QED
  BY <1>1, GoesOn

LEMMA UnusedIs ==
  ASSUME WInv, Unused # {}
  PROVE  /\ FreshGroup \in Groups /\ FreshGroup # None
         /\ \A k \in Legs : db[k] # None => db[k].group # FreshGroup
         /\ \A x \in Sessions : task[x].at \in GroupedAt => task[x].group # FreshGroup
<1>1. FreshGroup \in Unused /\ FreshGroup \in Groups /\ FreshGroup # None
  BY FreshIsNew, TransferReviewAssumption
<1>2. \A k \in Legs : k \in DOMAIN db
  BY LegKeys DEF WInv, IInv, Shape
<1>3. \A k \in Legs : db[k] # None => db[k].group # FreshGroup
  BY <1>1, <1>2 DEF Unused
<1>4. ASSUME NEW x \in Sessions, task[x].at \in GroupedAt PROVE "group" \in DOMAIN task[x]
  <2>1. TaskOK(task[x]) /\ Sure(db, own[x], task[x])
    BY DEF WInv, IInv, TasksTyped, Always
  <2> DEFINE t == task[x]
  <2>2. TaskOK(t) /\ t.at \in GroupedAt /\ (t.at = "unlink" => "group" \in DOMAIN t)
    BY <1>4, <2>1 DEF Sure
  <2> HIDE DEF t
  <2>3. t \in AskType \cup ArrivedType \cup WithdrawType \cup UndoType \cup ClearType
        \/ "group" \in DOMAIN t
    BY <2>2 DEF TaskOK, GroupedAt, ResolveAt, WithdrawAt, Asking
  <2>4. "group" \in DOMAIN t
    BY <2>3 DEF AskType, ArrivedType, WithdrawType, UndoType, ClearType
  <2>5. QED
    BY <2>4 DEF t
<1>5. \A x \in Sessions : task[x].at \in GroupedAt => task[x].group # FreshGroup
  BY <1>1, <1>4 DEF Unused
<1>6. QED
  BY <1>1, <1>3, <1>5

LEMMA IdleOwns ==
  ASSUME IInv, NEW s \in Sessions, task[s] = Idle PROVE own[s] = <<>>
BY Places DEF IInv, QuietHaveNoLocks, Quiet

\* A call that begins with nothing written.
LEMMA SureAtFirst ==
  ASSUME NEW f, NEW t, t.at \notin ResolveAt, t.at = "unlink" => "group" \in DOMAIN t
  PROVE  Sure(f, <<>>, t)
BY EmptyDomain DEF Sure, WrittenBeside, DeletedWhole, GroupUnused, WritesNamed, AnswerProgress

LEMMA ResolveStands ==
  ASSUME WInv, IInv', NEW s \in Sessions, NEW o \in Outflows, Resolve(s, o)
  PROVE  WInv'
<1>1. PICK a \in Answers[o] :
        LET links == a.claims # <<>> \/ DOMAIN a.into # {}
            t == [at |-> "", row |-> o, review |-> a.review, claims |-> a.claims,
                  into |-> a.into, set |-> Len(a.claims) > 1,
                  group |-> IF links THEN FreshGroup ELSE None]
        IN Begin(s, Onward(t), {o})
  BY DEF Resolve
<1> DEFINE b == [at |-> "", row |-> o, review |-> a.review, claims |-> a.claims,
                 into |-> a.into, set |-> Len(a.claims) > 1,
                 group |-> IF a.claims # <<>> \/ DOMAIN a.into # {} THEN FreshGroup ELSE None]
           t == Onward(b)
<1>2. /\ t.row = o /\ t.review = a.review /\ t.claims = a.claims /\ t.into = a.into
      /\ t.group = IF a.claims # <<>> \/ DOMAIN a.into # {} THEN FreshGroup ELSE None
      /\ t.at = IF a.claims # <<>> THEN "claim" ELSE IF DOMAIN a.into # {} THEN "arrive" ELSE "stamp"
  BY DEF Onward
<1>3. /\ Begin(s, t, {o}) /\ Pending(db[o]) /\ Unused # {}
  BY <1>1 DEF Resolve
<1> HIDE DEF b, t
<1>4. /\ Goto(s, t) /\ Note(s, {o}) /\ task[s] = Idle /\ own[s] = <<>>
      /\ db' = db /\ raced' = raced /\ stale' = stale /\ own' = own
  BY <1>3, IdleOwns DEF Begin, WInv
<1>5. /\ FreshGroup # None
      /\ \A k \in Legs : db[k] # None => db[k].group # FreshGroup
      /\ \A x \in Sessions : task[x].at \in GroupedAt => task[x].group # FreshGroup
  BY <1>3, UnusedIs
<1>6. /\ a.review \in Bulk => a.claims = <<>> /\ DOMAIN a.into = {}
      /\ a.review = "paired" => a.claims # <<>> /\ DOMAIN a.into = {}
      /\ a.review = "internal" => DOMAIN a.into # {}
  <2>1. ASSUME a.review = "internal" PROVE DOMAIN a.into # {}
    <3>1. PICK d \in Accounts : a.into = Just(d, Size[o])
      BY <2>1, TransferReviewAssumption
    <3>2. DOMAIN Just(d, Size[o]) = {d}
      BY JustOne
    <3>3. QED
      BY <3>1, <3>2
  <2>2. QED
    BY <2>1, TransferReviewAssumption
<1>7. AnswerProgress(<<>>, t)
  BY <1>2, <1>5, <1>6, EmptyDomain DEF AnswerProgress
<1>8. Sure(db, <<>>, t)
  BY <1>2, <1>5, <1>7, EmptyDomain DEF Sure, WrittenBeside, DeletedWhole, GroupUnused, WritesNamed
<1>9. AnswerStands(db, <<>>, read[s] \cup {o}, t)
  BY <1>2, <1>3, <1>5, EmptyDomain DEF AnswerStands
<1>10. Stands(db, <<>>, read[s] \cup {o}, stale[s], t)
  BY <1>2, <1>9 DEF Stands, MatchStands, WithdrawalStands, UnlinkStands, BulkStands, WithdrawAt
<1>11. \A x \in Sessions \ {s} : GroupsApart(t, task[x]) /\ GroupsApart(task[x], t)
  BY <1>2, <1>5 DEF GroupsApart, GroupedAt
<1>12. read' = [read EXCEPT ![s] = read[s] \cup {o}]
  BY <1>4 DEF Note
<1>13. QED
  BY <1>4, <1>8, <1>10, <1>11, <1>12, GoesOn

\* A call that takes the group of a committed row.
LEMMA TakesGroup ==
  ASSUME WInv, NEW s \in Sessions, NEW o \in Outflows, NEW t, t.at \notin ResolveAt,
         t.at \in GroupedAt => t.group = db[o].group
  PROVE  \A x \in Sessions \ {s} : GroupsApart(t, task[x]) /\ GroupsApart(task[x], t)
<1>1. db[o] # None
  BY NotNone, DbTyped DEF WInv
<1>2. \A x \in Sessions : GroupUnused(db, task[x])
  BY DEF WInv, Always, Sure
<1>3. QED
  BY <1>1, <1>2, LegKeys DEF GroupsApart, GroupUnused

LEMMA ReopenStands ==
  ASSUME WInv, IInv', NEW s \in Sessions, NEW o \in Outflows, Reopen(s, o)
  PROVE  WInv'
<1> DEFINE t == [at |-> "withdraw", row |-> o, only |-> Holdings, group |-> db[o].group,
                 by |-> IF db[o].by = "rule" THEN "user" ELSE None,
                 part |-> FALSE, claim |-> None]
<1>1. /\ db[o].review # None /\ Goto(s, t) /\ Note(s, {o}) /\ task[s] = Idle /\ own[s] = <<>>
      /\ db' = db /\ raced' = raced /\ stale' = stale /\ own' = own
  BY IdleOwns DEF Reopen, Begin, WInv
<1>2. /\ t.at = "withdraw" /\ t.row = o /\ t.only = Holdings /\ t.group = db[o].group
      /\ t.part = FALSE
  OBVIOUS
<1> HIDE DEF t
<1>3. Sure(db, <<>>, t)
  BY <1>2, SureAtFirst DEF ResolveAt
<1>4. WithdrawalStands(db, <<>>, read[s] \cup {o}, t)
  BY <1>1, <1>2, EmptyDomain DEF WithdrawalStands, IsPart
<1>5. Stands(db, <<>>, read[s] \cup {o}, stale[s], t)
  BY <1>2, <1>4 DEF Stands, MatchStands, AnswerStands, UnlinkStands, BulkStands, ResolveAt
<1>6. \A x \in Sessions \ {s} : GroupsApart(t, task[x]) /\ GroupsApart(task[x], t)
  BY <1>2, TakesGroup DEF ResolveAt
<1>7. read' = [read EXCEPT ![s] = read[s] \cup {o}]
  BY <1>1 DEF Note
<1>8. QED
  BY <1>1, <1>3, <1>5, <1>6, <1>7, GoesOn

LEMMA ResolvePartStands ==
  ASSUME WInv, IInv', NEW s \in Sessions, NEW o \in Outflows, ResolvePart(s, o)
  PROVE  WInv'
<1> DEFINE into == {h \in Holdings : db[<<o, h>>] # None}
           deposits == InGroup(db, db[o].group) \cap Inflows
           arrived == {HoldingOf[j] : j \in deposits} \cap Holdings
<1>1. PICK h \in into, i \in Inflows \cup {None} :
        /\ (into \cup arrived) \ {h} # {}
        /\ Goto(s, [at |-> "withdraw", row |-> o, only |-> {h}, group |-> db[o].group,
                    by |-> "user", part |-> TRUE, claim |-> i])
  BY DEF ResolvePart
<1> DEFINE t == [at |-> "withdraw", row |-> o, only |-> {h}, group |-> db[o].group,
                 by |-> "user", part |-> TRUE, claim |-> i]
           v == Just(o, db[o]) ++ own[s]
           rd == read[s] \cup (({o} \X into) \cup deposits)
<1>2. /\ db[o].review = "split" /\ db[o].group # None
      /\ Goto(s, t) /\ read' = [read EXCEPT ![s] = rd]
      /\ task[s] = Idle /\ own' = [own EXCEPT ![s] = v]
      /\ db' = db /\ raced' = raced /\ stale' = stale
  BY <1>1 DEF ResolvePart, Write, Note
<1>3. own[s] = <<>>
  BY <1>2, IdleOwns DEF WInv
<1>4. DOMAIN v = {o} /\ v[o] = db[o]
  <2> DEFINE j == Just(o, db[o])
  <2>1. DOMAIN j = {o} /\ j[o] = db[o]
    BY JustOne
  <2> HIDE DEF j
  <2>2. DOMAIN (j ++ own[s]) = {o} /\ (j ++ own[s])[o] = db[o]
    <3>1. DOMAIN own[s] = {}
      BY <1>3, EmptyDomain
    <3>2. DOMAIN (j ++ own[s]) = DOMAIN j \cup DOMAIN own[s]
      BY OverDomain
    <3>3. (j ++ own[s])[o] = j[o]
      BY <2>1, OverFirst
    <3>4. QED
      BY <2>1, <3>1, <3>2, <3>3
  <2>3. QED
    BY <2>2 DEF j
<1>5. \/ \E g \in into : g # h
      \/ \E j \in deposits : TRUE
  BY <1>1
<1>6. /\ t.at = "withdraw" /\ t.row = o /\ t.only = {h} /\ t.group = db[o].group /\ t.part = TRUE
  OBVIOUS
<1>7. /\ \A g \in into : g \in Holdings /\ db[<<o, g>>] # None /\ <<o, g>> \in rd
      /\ \A j \in deposits : /\ j \in Inflows /\ j \in rd
                            /\ db[j] # None /\ db[j].group = db[o].group
  BY InGroupIs
<1>8. o \in Legs /\ o \notin Inflows \cup Arrivals \cup Holdings
  BY LegKeys, Kinds
<1>9. ASSUME ~raced
      PROVE  \E k \in Legs \ Outflows : /\ k \in rd /\ k # o /\ k \notin {o} \X {h}
                                        /\ db[k] # None /\ db[k].group = db[o].group
  <2>1. CASE \E g \in into : g # h
    <3>1. PICK g \in into : g # h
      BY <2>1
    <3>2. /\ g \in Holdings /\ db[<<o, g>>] # None /\ <<o, g>> \in rd
          /\ <<o, g>> \in Arrivals /\ <<o, g>> \in Legs /\ <<o, g>> \notin {o} \X {h}
      BY <1>7, <3>1, LegKeys
    <3>3. db[<<o, g>>].group = db[o].group
      BY <1>9, <3>2 DEF WInv, Unraced, Whole, Answered
    <3>4. <<o, g>> \notin Outflows /\ <<o, g>> # o
      BY <1>8, <3>2, Kinds
    <3>5. QED
      BY <3>2, <3>3, <3>4
  <2>2. CASE \E j \in deposits : TRUE
    <3>1. PICK j \in deposits : TRUE
      BY <2>2
    <3>2. /\ j \in Inflows /\ j \in rd /\ db[j] # None /\ db[j].group = db[o].group
          /\ j \in Legs /\ j \notin Outflows /\ j \notin Arrivals
      BY <1>7, <3>1, LegKeys, Kinds
    <3>3. h \in Holdings
      OBVIOUS
    <3>4. \A k \in {o} \X {h} : k \in Arrivals
      BY <3>3 DEF Arrivals
    <3>5. QED
      BY <3>2, <3>4
  <2>3. QED
    BY <1>5, <2>1, <2>2
<1> HIDE DEF t, v, into, deposits, rd
<1>11. Sure(db, v, t)
  BY <1>4, <1>6, <1>8, LegKeys
     DEF Sure, WrittenBeside, DeletedWhole, GroupUnused, WritesNamed, AnswerProgress, ResolveAt, WithdrawAt
<1>12. ASSUME ~raced PROVE WithdrawalStands(db, v, rd, t)
  <2>1. \E k \in Legs \ Outflows : /\ k \in rd \ DOMAIN v /\ k \notin {t.row} \X t.only
                                   /\ db[k] # None /\ db[k].group = t.group
    BY <1>4, <1>6, <1>9, <1>12
  <2>2. /\ DOMAIN v \cap Inflows = {} /\ DOMAIN v \cap Arrivals = {}
        /\ t.row \in rd \cup DOMAIN v
    BY <1>4, <1>6, <1>8
  <2>3. db[t.row].review = "split" /\ "split" # None
    BY <1>2, <1>6, TransferReviewAssumption DEF Reviews
  <2>4. QED
    BY <1>2, <1>6, <2>1, <2>2, <2>3 DEF WithdrawalStands, IsPart
<1>13. ~raced => Stands(db, v, rd, stale[s], t)
  BY <1>6, <1>12 DEF Stands, MatchStands, AnswerStands, UnlinkStands, BulkStands, ResolveAt
<1>14. \A x \in Sessions \ {s} : GroupsApart(t, task[x]) /\ GroupsApart(task[x], t)
  BY <1>6, TakesGroup DEF ResolveAt
<1>15. QED
  BY <1>2, <1>11, <1>13, <1>14, GoesOn

LEMMA UnlinkPairStands ==
  ASSUME WInv, IInv', NEW s \in Sessions, NEW o \in Outflows, UnlinkPair(s, o)
  PROVE  WInv'
<1> DEFINE t == [at |-> "unlink", group |-> db[o].group]
           legs == InGroup(db, db[o].group)
<1>1. /\ db[o].group # None /\ \A k \in legs \cap Outflows : db[k].review = None
      /\ Goto(s, t) /\ Note(s, legs) /\ task[s] = Idle /\ own[s] = <<>>
      /\ db' = db /\ raced' = raced /\ stale' = stale /\ own' = own
  BY IdleOwns DEF UnlinkPair, Begin, WInv
<1>2. o \in legs
  BY InGroupIs, LegKeys, NotNone, DbTyped DEF WInv
<1>3. t.at = "unlink" /\ t.group = db[o].group /\ "group" \in DOMAIN t
  OBVIOUS
<1> HIDE DEF t, legs
<1>4. Sure(db, <<>>, t)
  BY <1>3, SureAtFirst DEF ResolveAt
<1>5. UnlinkStands(db, read[s] \cup legs, t)
  BY <1>1, <1>2, <1>3 DEF UnlinkStands
<1>6. Stands(db, <<>>, read[s] \cup legs, stale[s], t)
  BY <1>3, <1>5 DEF Stands, MatchStands, AnswerStands, WithdrawalStands, BulkStands, ResolveAt, WithdrawAt
<1>7. \A x \in Sessions \ {s} : GroupsApart(t, task[x]) /\ GroupsApart(task[x], t)
  BY <1>3, TakesGroup DEF ResolveAt
<1>8. read' = [read EXCEPT ![s] = read[s] \cup legs]
  BY <1>1 DEF Note
<1>9. QED
  BY <1>1, <1>4, <1>6, <1>7, <1>8, GoesOn

LEMMA NoGroup ==
  ASSUME NEW t, t.at \notin GroupedAt
  PROVE  /\ t.at \notin ResolveAt /\ t.at \notin WithdrawAt /\ t.at # "unlink"
         /\ \A u : GroupsApart(t, u) /\ GroupsApart(u, t)
BY DEF GroupedAt, GroupsApart

LEMMA BulkResolveStands ==
  ASSUME WInv, IInv', NEW s \in Sessions, BulkResolve(s)
  PROVE  WInv'
<1>1. PICK R \in SUBSET Outflows \ {{}}, d \in Bulk \cup {None} :
        /\ \A o \in R : BulkEligible(o)
        /\ Begin(s, [at |-> "bulk", rows |-> R, review |-> d], R \cup (R \X Holdings))
  BY DEF BulkResolve
<1> DEFINE t == [at |-> "bulk", rows |-> R, review |-> d]
           rd == read[s] \cup (R \cup (R \X Holdings))
<1>2. /\ Goto(s, t) /\ read' = [read EXCEPT ![s] = rd] /\ task[s] = Idle /\ own[s] = <<>>
      /\ db' = db /\ raced' = raced /\ stale' = stale /\ own' = own
  BY <1>1, IdleOwns DEF Begin, Note, WInv
<1>3. t.at = "bulk" /\ t.rows = R /\ R \subseteq rd
  OBVIOUS
<1>4. \A o \in R : db[o].group = None /\ db[o].review \in Bulk \cup {None}
  BY <1>1 DEF BulkEligible
<1> HIDE DEF t, rd
<1>5. t.at \notin GroupedAt
  BY <1>3 DEF GroupedAt, ResolveAt, WithdrawAt
<1>6. Sure(db, <<>>, t)
  BY <1>5, NoGroup, SureAtFirst
<1>7. BulkStands(db, rd, t)
  BY <1>3, <1>4 DEF BulkStands
<1>8. Stands(db, <<>>, rd, stale[s], t)
  BY <1>3, <1>5, <1>7, NoGroup
     DEF Stands, MatchStands, AnswerStands, WithdrawalStands, UnlinkStands
<1>9. QED
  BY <1>2, <1>5, <1>6, <1>8, NoGroup, GoesOn

LEMMA LinkTransferPairsStands ==
  ASSUME WInv, IInv', NEW s \in Sessions, LinkTransferPairs(s)
  PROVE  WInv'
<1> DEFINE outs == {o \in Outflows : Pending(db[o])}
           ins == {i \in Inflows \ Typed : db[i] # None /\ db[i].group = None}
           t == IF outs = {} THEN Start ELSE [at |-> "match", rows |-> outs, among |-> ins]
           rd == read[s] \cup (outs \cup ins)
<1>1. /\ Goto(s, t) /\ read' = [read EXCEPT ![s] = rd] /\ task[s] = Idle /\ own[s] = <<>>
      /\ db' = db /\ raced' = raced /\ stale' = stale /\ own' = own
  BY IdleOwns DEF LinkTransferPairs, Begin, Note, WInv
<1>2. t = Start \/ (t.at = "match" /\ t.rows = outs)
  OBVIOUS
<1>3. outs \subseteq rd /\ \A o \in outs : Pending(db[o])
  OBVIOUS
<1> HIDE DEF t, rd, outs
<1>4. t.at \notin GroupedAt
  BY <1>2 DEF GroupedAt, ResolveAt, WithdrawAt, Start
<1>5. Sure(db, <<>>, t)
  BY <1>4, NoGroup, SureAtFirst
<1>6. Stands(db, <<>>, rd, stale[s], t)
  <2>1. CASE t = Start
    BY <2>1, QuietStands
  <2>2. CASE t.at = "match" /\ t.rows = outs
    BY <1>3, <1>4, <2>2, NoGroup
       DEF Stands, MatchStands, AnswerStands, WithdrawalStands, UnlinkStands, BulkStands
  <2>3. QED
    BY <1>2, <2>1, <2>2
<1>7. QED
  BY <1>1, <1>4, <1>5, <1>6, NoGroup, GoesOn

LEMMA MarksLookStands ==
  ASSUME WInv, IInv', NEW s \in Sessions, MarksLook(s)
  PROVE  WInv'
<1> DEFINE rows == {o \in Marked : RuleWritable(db[o]) /\ BulkEligible(o)}
           t == IF rows = {} THEN Idle ELSE [at |-> "mark", rows |-> rows]
           rd == read[s] \cup (rows \cup (rows \X Holdings))
<1>1. /\ Goto(s, t) /\ read' = [read EXCEPT ![s] = rd] /\ task[s].at = "marks"
      /\ db' = db /\ raced' = raced /\ stale' = stale /\ own' = own
  BY DEF MarksLook, Note
<1>2. own[s] = <<>>
  BY <1>1 DEF WInv, IInv, QuietHaveNoLocks, Quiet
<1>3. t = Idle \/ t.at = "mark"
  OBVIOUS
<1> HIDE DEF t, rd
<1>4. t.at \notin GroupedAt \cup {"bulk", "match"}
  BY <1>3 DEF GroupedAt, ResolveAt, WithdrawAt, Idle
<1>5. t.at \notin GroupedAt /\ t.at # "bulk" /\ t.at # "match"
  BY <1>4
<1>6. Sure(db, <<>>, t)
  BY <1>5, NoGroup, SureAtFirst
<1>7. Stands(db, <<>>, rd, stale[s], t)
  BY <1>5, NoGroup
     DEF Stands, MatchStands, AnswerStands, WithdrawalStands, UnlinkStands, BulkStands
<1>8. QED
  BY <1>1, <1>2, <1>5, <1>6, <1>7, NoGroup, GoesOn

LEMMA RollbackStands ==
  ASSUME WInv, IInv', NEW s \in Sessions, Rollback(s)
  PROVE  WInv'
<1>1. /\ DOMAIN own = Sessions /\ DOMAIN task = Sessions
      /\ DOMAIN read = Sessions /\ DOMAIN stale = Sessions
  BY DEF WInv, IInv, Shape, Always
<1>2. /\ own'[s] = <<>> /\ task'[s] = Idle /\ db' = db /\ raced' = raced
      /\ \A x \in Sessions \ {s} : /\ own'[x] = own[x] /\ task'[x] = task[x]
                                   /\ read'[x] = read[x] /\ stale'[x] = stale[x]
      /\ DOMAIN read' = Sessions /\ DOMAIN stale' = Sessions
  BY <1>1 DEF Rollback, Goto
<1>3. /\ Sure(db, own'[s], task'[s])
      /\ Stands(db, own'[s], read'[s], stale'[s], task'[s])
      /\ \A u : GroupsApart(task'[s], u) /\ GroupsApart(u, task'[s])
  BY <1>2, QuietStands
<1>4. QED
  BY <1>2, <1>3, LocalStep
-----------------------------------------------------------------------------
\* The statements of an answer.

LEMMA OwnRows ==
  ASSUME WInv, NEW s \in Sessions
  PROVE  /\ DOMAIN own[s] \subseteq Keys /\ DOMAIN db = Keys
         /\ Sure(db, own[s], task[s]) /\ TaskOK(task[s])
         /\ \A k \in Keys : /\ k \in DOMAIN own[s] => Sees(s)[k] = own[s][k]
                            /\ k \notin DOMAIN own[s] => Sees(s)[k] = db[k]
         /\ \A i \in Inflows : db[i] \in InflowType \cup {None}
         /\ ~raced /\ stale[s] = {} =>
              /\ AnswerStands(db, own[s], read[s], task[s])
              /\ WithdrawalStands(db, own[s], read[s], task[s])
              /\ UnlinkStands(db, read[s], task[s]) /\ BulkStands(db, read[s], task[s])
              /\ Whole(db)
<1>1. /\ DOMAIN own[s] \subseteq Keys /\ DOMAIN db = Keys
      /\ Sure(db, own[s], task[s]) /\ TaskOK(task[s])
  BY DEF WInv, IInv, RowsTyped, RowsOK, Shape, TasksTyped, Always
<1>2. \A k \in Keys : /\ k \in DOMAIN own[s] => Sees(s)[k] = own[s][k]
                      /\ k \notin DOMAIN own[s] => Sees(s)[k] = db[k]
  BY <1>1, OverAt DEF Sees
<1>3. \A i \in Inflows : db[i] \in InflowType \cup {None}
  BY LegKeys DEF WInv, IInv, RowsTyped, RowsOK, RowOK, Shape
<1>4. ~raced /\ stale[s] = {} =>
              /\ AnswerStands(db, own[s], read[s], task[s])
              /\ WithdrawalStands(db, own[s], read[s], task[s])
              /\ UnlinkStands(db, read[s], task[s]) /\ BulkStands(db, read[s], task[s])
              /\ Whole(db)
  BY DEF WInv, Unraced, Stands
<1>5. QED
  BY <1>1, <1>2, <1>3, <1>4

LEMMA ResolvePlaces ==
  ASSUME NEW t, t.at \in ResolveAt
  PROVE  /\ t.at \in GroupedAt /\ t.at \notin WithdrawAt
         /\ t.at # "unlink" /\ t.at # "bulk" /\ t.at # "match"
BY DEF ResolveAt, GroupedAt, WithdrawAt

LEMMA AnswerIsAll ==
  ASSUME NEW f, NEW w, NEW rd, NEW st, NEW t, t.at \in ResolveAt,
         st = {} => AnswerStands(f, w, rd, t)
  PROVE  Stands(f, w, rd, st, t)
BY ResolvePlaces DEF Stands, MatchStands, WithdrawalStands, UnlinkStands, BulkStands

LEMMA ClaimLooksStands ==
  ASSUME WInv, IInv', NEW s \in Sessions, ClaimLooks(s)
  PROVE  WInv'
<1> DEFINE u == task[s]
           i == Head(u.claims)
           claimable == Claimable(s, u.row, i)
           t == [u EXCEPT !.at = IF claimable THEN "claimed" ELSE "giveBack"]
           rd == read[s] \cup {i}
           w == own[s]
<1>1. /\ u.at = "claim" /\ Goto(s, t) /\ read' = [read EXCEPT ![s] = rd]
      /\ db' = db /\ raced' = raced /\ stale' = stale /\ own' = own
  BY DEF ClaimLooks, Note
<1>2. u \in AskType /\ u.claims # <<>> /\ i \in Inflows
  BY <1>1, OwnRows DEF TaskOK, AskType, Asking
<1>3. /\ t.row = u.row /\ t.review = u.review /\ t.claims = u.claims /\ t.into = u.into
      /\ t.group = u.group /\ t.at = IF claimable THEN "claimed" ELSE "giveBack"
  BY <1>2 DEF AskType
<1>4. claimable => Unlinked(w ++ db, i)
  <2>1. ASSUME claimable PROVE Sees(s)[i] # None /\ Sees(s)[i].group = None
    <3>1. Sees(s)[i] \in [group : {None}]
      BY <2>1 DEF Claimable
    <3>2. Sees(s)[i] \in InflowType
      BY <3>1 DEF InflowType
    <3>3. QED
      BY <3>1, <3>2, NotNone
  <2>2. QED
    BY <2>1 DEF Unlinked, Sees
<1>5. Sure(db, w, u)
  BY OwnRows
<1>6. ~raced /\ stale[s] = {} => AnswerStands(db, w, read[s], u)
  BY OwnRows
<1>7. u.at \in ResolveAt /\ t.at \in ResolveAt
  BY <1>1, <1>3 DEF ResolveAt
<1>8. i = Head(t.claims)
  BY <1>3
<1> HIDE DEF u, t, rd, w, i, claimable
<1>9. AnswerProgress(w, t)
  BY <1>1, <1>3, <1>5, <1>7 DEF Sure, AnswerProgress
<1>10. Sure(db, w, t)
  BY <1>3, <1>5, <1>7, <1>9, ResolvePlaces DEF Sure, GroupUnused, WritesNamed
<1>11. ~raced /\ stale[s] = {} => AnswerStands(db, w, rd, t)
  <2> SUFFICES ASSUME ~raced, stale[s] = {} PROVE AnswerStands(db, w, rd, t)
    OBVIOUS
  <2>1. AnswerStands(db, w, read[s], u) /\ i \in rd /\ read[s] \subseteq rd
    BY <1>6 DEF rd
  <2>2. QED
    BY <1>1, <1>2, <1>3, <1>4, <1>7, <1>8, <2>1 DEF AnswerStands, u
<1>12. ~raced => Stands(db, w, rd, stale[s], t)
  BY <1>7, <1>11, AnswerIsAll
<1>13. /\ t.at \in ResolveAt => task[s].at \in ResolveAt /\ t.group = task[s].group
       /\ t.at \in GroupedAt => task[s].at \in GroupedAt /\ t.group = task[s].group
  BY <1>3, <1>7, ResolvePlaces DEF u
<1>14. QED
  BY <1>1, <1>10, <1>12, <1>13, GoesOnInGroup DEF w

LEMMA OnwardIs ==
  ASSUME NEW b \in BareType
  PROVE  LET t == Onward(b)
         IN /\ t.row = b.row /\ t.review = b.review /\ t.claims = b.claims /\ t.into = b.into
            /\ t.group = b.group /\ t.at \in {"claim", "arrive", "stamp"} /\ t.at \in ResolveAt
            /\ t.at = "claim" => b.claims # <<>>
            /\ t.at = "stamp" => b.claims = <<>> /\ DOMAIN b.into = {}
BY DEF Onward, BareType, ResolveAt

LEMMA ClaimWritesStands ==
  ASSUME WInv, IInv', NEW s \in Sessions, ClaimWrites(s)
  PROVE  WInv'
<1> DEFINE u == task[s]
           i == Head(u.claims)
           row == [Sees(s)[i] EXCEPT !.group = u.group]
           w == IF Sees(s)[i] = None THEN <<>> ELSE Just(i, row)
           b == [u EXCEPT !.claims = Tail(@)]
           t == Onward(b)
           v == w ++ own[s]
<1>1. /\ u.at = "claimed" /\ Goto(s, t) /\ own' = [own EXCEPT ![s] = v]
      /\ db' = db /\ raced' = raced /\ stale' = stale /\ read' = read
  BY DEF ClaimWrites, Write
<1>2. u \in AskType /\ u.claims # <<>> /\ i \in Inflows /\ u.group \in Group
  BY <1>1, OwnRows DEF TaskOK, AskType, Asking
<1>3. b \in BareType /\ b.row = u.row /\ b.review = u.review /\ b.into = u.into /\ b.group = u.group
  <2>1. Tail(u.claims) \in Seq(Inflows)
    BY <1>2 DEF AskType
  <2>2. QED
    BY <1>2, <2>1 DEF AskType, BareType
<1>4. /\ t.row = u.row /\ t.review = u.review /\ t.claims = b.claims /\ t.into = u.into
      /\ t.group = u.group /\ t.at \in {"claim", "arrive", "stamp"} /\ t.at \in ResolveAt
      /\ t.at = "stamp" => t.claims = <<>> /\ DOMAIN u.into = {}
  BY <1>3, OnwardIs
<1>5. /\ DOMAIN w \subseteq {i}
      /\ i \in DOMAIN w => w[i] # None /\ w[i].group = u.group
      /\ Sees(s)[i] # None => i \in DOMAIN w
  <2>1. CASE Sees(s)[i] = None
    BY <2>1, EmptyDomain
  <2>2. CASE Sees(s)[i] # None
    <3>1. Sees(s)[i] \in InflowType
      BY <2>2, <1>2, SeesAll DEF WInv
    <3>2. row \in InflowType /\ row.group = u.group
      BY <3>1, <1>2 DEF InflowType, Group
    <3> HIDE DEF row
    <3>3. w = Just(i, row) /\ DOMAIN Just(i, row) = {i} /\ Just(i, row)[i] = row
      BY <2>2, JustOne
    <3>4. QED
      BY <3>2, <3>3, NotNone
  <2>3. QED
    BY <2>1, <2>2
<1>6. Sure(db, own[s], u) /\ DOMAIN own[s] \subseteq Keys
  BY OwnRows
<1>7. ~raced /\ stale[s] = {} => AnswerStands(db, own[s], read[s], u)
  BY OwnRows
<1>8. u.at \in ResolveAt
  BY <1>1 DEF ResolveAt
<1>9. \A k \in Keys : /\ k \in DOMAIN own[s] => Sees(s)[k] = own[s][k]
                      /\ k \notin DOMAIN own[s] => Sees(s)[k] = db[k]
  BY OwnRows
<1> HIDE DEF w, row
<1>10. DOMAIN v = DOMAIN w \cup DOMAIN own[s]
  BY OverDomain
<1>11. \A k \in DOMAIN v : v[k] = IF k \in DOMAIN w THEN w[k] ELSE own[s][k]
  BY <1>10, OverAt
<1> HIDE DEF u, t, b, v, i
<1>12. DOMAIN own[s] \subseteq Inflows /\ DOMAIN v \subseteq Inflows
  BY <1>1, <1>2, <1>5, <1>6, <1>8, <1>10 DEF Sure, AnswerProgress
<1>13. /\ \A k \in DOMAIN v : k \notin Outflows /\ k \notin Arrivals /\ k \notin Holdings
       /\ \A k \in DOMAIN v : k \in Legs
  BY <1>12, Kinds, LegKeys
<1>14. WrittenBeside(v) /\ DeletedWhole(db, v)
  BY <1>13, LegKeys DEF WrittenBeside, DeletedWhole
<1>15. WritesNamed(db, v, t)
  <2> SUFFICES ASSUME NEW k \in DOMAIN v
               PROVE  v[k] # None => v[k].group \in {None, t.group}
    BY <1>4, <1>13 DEF WritesNamed
  <2>1. CASE k \in DOMAIN w
    BY <1>4, <1>5, <1>11, <2>1
  <2>2. CASE k \notin DOMAIN w
    BY <1>4, <1>6, <1>10, <1>11, <1>13, <2>2 DEF Sure, WritesNamed
  <2>3. QED
    BY <2>1, <2>2
<1>16. AnswerProgress(v, t) /\ u.group # None
  BY <1>1, <1>4, <1>6, <1>8, <1>12, <1>13 DEF Sure, AnswerProgress
<1>17. Sure(db, v, t)
  BY <1>4, <1>6, <1>8, <1>14, <1>15, <1>16, ResolvePlaces DEF Sure, GroupUnused
<1>18. ~raced /\ stale[s] = {} => AnswerStands(db, v, read[s], t)
  <2> SUFFICES ASSUME ~raced, stale[s] = {} PROVE AnswerStands(db, v, read[s], t)
    OBVIOUS
  <2>1. AnswerStands(db, own[s], read[s], u)
    BY <1>7
  <2>2. Sees(s)[i] # None /\ Sees(s)[i].group = None
    BY <1>1, <1>8, <2>1 DEF AnswerStands, Unlinked, i, Sees
  <2>3. i \in DOMAIN w /\ i \in DOMAIN v /\ v[i] # None /\ v[i].group = t.group /\ i \in Legs \ Outflows
    BY <1>4, <1>5, <1>10, <1>11, <1>13, <2>2
  <2>4. ASSUME NEW j \in DOMAIN v \cap Inflows PROVE Unlinked(db, j)
    <3>1. CASE j \in DOMAIN own[s]
      BY <1>8, <2>1, <2>4, <3>1 DEF AnswerStands
    <3>2. CASE j \notin DOMAIN own[s]
      <4>1. j = i /\ j \in Keys
        BY <1>5, <1>10, <2>4, <3>2, LegKeys
      <4>2. QED
        BY <1>9, <2>2, <3>2, <4>1 DEF Unlinked
    <3>3. QED
      BY <3>1, <3>2
  <2>5. t.row \in read[s] /\ Pending(db[t.row])
    BY <1>4, <1>8, <2>1 DEF AnswerStands
  <2>6. t.at # "claimed" /\ t.at # "arrived"
    BY <1>4
  <2>7. QED
    BY <2>3, <2>4, <2>5, <2>6 DEF AnswerStands
<1>19. ~raced => Stands(db, v, read[s], stale[s], t)
  BY <1>4, <1>18, AnswerIsAll
<1>20. /\ t.at \in ResolveAt => task[s].at \in ResolveAt /\ t.group = task[s].group
       /\ t.at \in GroupedAt => task[s].at \in GroupedAt /\ t.group = task[s].group
  BY <1>4, <1>8, ResolvePlaces DEF u
<1>21. QED
  BY <1>1, <1>17, <1>19, <1>20, GoesOnInGroup
LEMMA TypedDepositIs ==
  ASSUME NEW s, NEW o, NEW h, NEW q, TypedDeposit(s, o, h, q) # None
  PROVE  LET i == TypedDeposit(s, o, h, q)
         IN i \in Typed /\ HoldingOf[i] = h /\ Sees(s)[i] # None /\ Sees(s)[i].group = None
BY DEF TypedDeposit

LEMMA ArriveLooksStands ==
  ASSUME WInv, IInv', NEW s \in Sessions, ArriveLooks(s)
  PROVE  WInv'
<1> DEFINE u == task[s]
           at(a, h) == [at |-> "arrived", row |-> u.row, review |-> u.review,
                        claims |-> <<>>, into |-> u.into, set |-> u.set,
                        group |-> u.group, account |-> a, holding |-> h,
                        adopts |-> TypedDeposit(s, u.row, h, u.into[a])]
           goes(a, h) == read[s] \cup (Room[a] \cup {i \in Typed : HoldingOf[i] = h})
<1>1. PICK a \in DOMAIN u.into :
        \E h \in IF {x \in Room[a] : Sees(s)[x] # None /\ x # HoldingOf[u.row]} = {}
                 THEN {None}
                 ELSE {x \in Room[a] : Sees(s)[x] # None /\ x # HoldingOf[u.row]} :
          Goto(s, at(a, h)) /\ Note(s, Room[a] \cup {i \in Typed : HoldingOf[i] = h})
  BY DEF ArriveLooks
<1>2. PICK h : Goto(s, at(a, h)) /\ Note(s, Room[a] \cup {i \in Typed : HoldingOf[i] = h})
  BY <1>1
<1> DEFINE t == at(a, h)
           rd == goes(a, h)
           w == own[s]
<1>3. /\ u.at = "arrive" /\ Goto(s, t) /\ read' = [read EXCEPT ![s] = rd]
      /\ db' = db /\ raced' = raced /\ stale' = stale /\ own' = own
  BY <1>2 DEF ArriveLooks, Note
<1>4. /\ t.row = u.row /\ t.review = u.review /\ t.into = u.into /\ t.group = u.group
      /\ t.at = "arrived" /\ t.adopts = TypedDeposit(s, u.row, h, u.into[a])
  OBVIOUS
<1>5. t.adopts # None => t.adopts \in rd /\ Unlinked(w ++ db, t.adopts)
  <2>1. ASSUME t.adopts # None
        PROVE  /\ t.adopts \in Typed /\ HoldingOf[t.adopts] = h
               /\ Sees(s)[t.adopts] # None /\ Sees(s)[t.adopts].group = None
    BY <1>4, <2>1, TypedDepositIs
  <2>2. t.adopts # None => t.adopts \in rd
    BY <2>1
  <2> HIDE DEF t, rd
  <2>3. QED
    BY <2>1, <2>2 DEF Unlinked, Sees
<1>6. read[s] \subseteq rd /\ DOMAIN u.into # {}
  OBVIOUS
<1>7. Sure(db, w, u)
  BY OwnRows
<1>8. ~raced /\ stale[s] = {} => AnswerStands(db, w, read[s], u)
  BY OwnRows
<1>9. u.at \in ResolveAt /\ t.at \in ResolveAt
  BY <1>3, <1>4 DEF ResolveAt
<1> HIDE DEF u, t, rd, w
<1>10. AnswerProgress(w, t)
  BY <1>3, <1>4, <1>7, <1>9 DEF Sure, AnswerProgress
<1>11. Sure(db, w, t)
  BY <1>4, <1>7, <1>9, <1>10, ResolvePlaces DEF Sure, GroupUnused, WritesNamed
<1>12. ~raced /\ stale[s] = {} => AnswerStands(db, w, rd, t)
  <2> SUFFICES ASSUME ~raced, stale[s] = {} PROVE AnswerStands(db, w, rd, t)
    OBVIOUS
  <2>1. AnswerStands(db, w, read[s], u)
    BY <1>8
  <2>2. QED
    BY <1>4, <1>5, <1>6, <1>9, <2>1 DEF AnswerStands
<1>13. ~raced => Stands(db, w, rd, stale[s], t)
  BY <1>9, <1>12, AnswerIsAll
<1>14. /\ t.at \in ResolveAt => task[s].at \in ResolveAt /\ t.group = task[s].group
       /\ t.at \in GroupedAt => task[s].at \in GroupedAt /\ t.group = task[s].group
  BY <1>4, <1>9, ResolvePlaces DEF u
<1>15. QED
  BY <1>3, <1>11, <1>13, <1>14, GoesOnInGroup DEF w

\* An arrival is written, beside its holding, and a deposit it takes deleted.
Landed(w, h, t) ==
  /\ DOMAIN w \subseteq {h, <<t.row, h>>} \cup ({t.adopts} \ {None})
  /\ {h, <<t.row, h>>} \subseteq DOMAIN w
  /\ w[h] # None /\ w[<<t.row, h>>] # None /\ w[<<t.row, h>>].group = t.group
  /\ t.adopts \in DOMAIN w \ {h, <<t.row, h>>} => w[t.adopts] = None

LEMMA Lands ==
  ASSUME WInv, IInv', NEW s \in Sessions, task[s].at = "arrived",
         Goto(s, Onward(Remains(task[s]))), NEW w, NEW h \in Holdings,
         own' = [own EXCEPT ![s] = w ++ own[s]], Landed(w, h, task[s]),
         db' = db, raced' = raced, stale' = stale, read' = read
  PROVE  WInv'
<1> DEFINE u == task[s]
           d == u.adopts
           v == w ++ own[s]
           key == <<u.row, h>>
           t == Onward(Remains(u))
<1>0. Landed(w, h, u) /\ Goto(s, t) /\ own' = [own EXCEPT ![s] = v]
  OBVIOUS
<1>1. /\ u \in ArrivedType /\ u.account \in DOMAIN u.into /\ u.at = "arrived"
      /\ u.row \in Outflows /\ d \in Typed \cup {None}
  BY OwnRows DEF TaskOK, ArrivedType
<1>2. Remains(u) \in BareType
  BY <1>1, RemainsTyped
<1>3. /\ Remains(u).row = u.row /\ Remains(u).review = u.review /\ Remains(u).group = u.group
      /\ DOMAIN Remains(u).into = DOMAIN u.into \ {u.account}
  BY DEF Remains
<1>4. /\ t.row = u.row /\ t.review = u.review /\ DOMAIN t.into = DOMAIN u.into \ {u.account}
      /\ t.group = u.group /\ t.at \in {"claim", "arrive", "stamp"} /\ t.at \in ResolveAt
      /\ t.at # "claim" /\ (t.at = "stamp" => t.claims = <<>> /\ DOMAIN t.into = {})
  <2>1. Remains(u).claims = <<>> /\ t = Onward(Remains(u))
    BY DEF Remains
  <2> DEFINE b == Remains(u)
  <2>2. /\ b \in BareType /\ b.row = u.row /\ b.review = u.review /\ b.group = u.group
        /\ DOMAIN b.into = DOMAIN u.into \ {u.account} /\ b.claims = <<>> /\ t = Onward(b)
    BY <1>2, <1>3, <2>1
  <2> HIDE DEF u, b, t
  <2>3. QED
    BY <2>2, OnwardIs
<1>5. /\ Sure(db, own[s], u) /\ DOMAIN own[s] \subseteq Keys
      /\ ~raced /\ stale[s] = {} => AnswerStands(db, own[s], read[s], u)
  BY OwnRows
<1>6. \A k \in Keys : /\ k \in DOMAIN own[s] => Sees(s)[k] = own[s][k]
                      /\ k \notin DOMAIN own[s] => Sees(s)[k] = db[k]
  BY OwnRows
<1>7. u.at \in ResolveAt /\ u.at \in GroupedAt /\ t.at \in GroupedAt
  BY <1>1, <1>4, ResolvePlaces DEF ResolveAt
<1>8. /\ key \in Arrivals /\ key[1] = u.row
      /\ d # None => d \in Inflows
  <2>1. key \in Arrivals
    BY <1>1, LegKeys
  <2> HIDE DEF u, t, v
  <2>2. QED
    BY <1>1, <2>1, TransferReviewAssumption
<1>9. DOMAIN v = DOMAIN w \cup DOMAIN own[s]
  BY OverDomain
<1>10. \A k \in DOMAIN v : v[k] = IF k \in DOMAIN w THEN w[k] ELSE own[s][k]
  BY <1>9, OverAt
<1>11. /\ \A k \in DOMAIN w : k = h \/ k = key \/ (k = d /\ d # None)
       /\ h \in DOMAIN w /\ w[h] # None
       /\ key \in DOMAIN w /\ w[key] # None /\ w[key].group = u.group
       /\ d \in DOMAIN w \ {h, key} => w[d] = None
  BY <1>0 DEF Landed
<1> HIDE DEF u, d, v, key, t
<1>12. d # None /\ d \in DOMAIN w => w[d] = None
  BY <1>8, <1>11, Kinds
<1>13. /\ \A o \in Outflows : o \notin DOMAIN w
       /\ \A o, g : <<o, g>> = key => g = h
  BY <1>8, <1>11, Kinds DEF key
<1>14. u.group # None /\ u.review # "paired" /\ u.review \notin Bulk
  BY <1>1, <1>5, <1>7 DEF Sure, AnswerProgress
<1>15. WrittenBeside(v)
  <2> SUFFICES ASSUME NEW o \in Outflows, NEW g \in Holdings, <<o, g>> \in DOMAIN v, v[<<o, g>>] # None
               PROVE  g \in DOMAIN v /\ v[g] # None
    BY DEF WrittenBeside
  <2>1. <<o, g>> \in Arrivals /\ g \in Keys
    BY LegKeys
  <2>2. CASE g = h
    BY <1>9, <1>10, <1>11, <2>2
  <2>3. CASE g # h
    <3>1. <<o, g>> \notin DOMAIN w
      BY <1>8, <1>11, <1>13, <2>1, <2>3, Kinds
    <3>2. g \in DOMAIN own[s] /\ own[s][g] # None
      BY <1>5, <1>9, <1>10, <3>1 DEF Sure, WrittenBeside
    <3>3. g \notin DOMAIN w
      BY <1>8, <1>11, <2>3, Kinds
    <3>4. QED
      BY <1>9, <1>10, <3>2, <3>3
  <2>4. QED
    BY <2>2, <2>3
<1>16. DeletedWhole(db, v)
  <2> SUFFICES ASSUME NEW o \in Outflows, NEW g \in Holdings,
                      g \in DOMAIN v, v[g] = None, db[<<o, g>>] # None
               PROVE  <<o, g>> \in DOMAIN v /\ v[<<o, g>>] = None
    BY DEF DeletedWhole
  <2>1. <<o, g>> \in Arrivals /\ g \in Keys
    BY LegKeys
  <2>2. g # h
    BY <1>9, <1>10, <1>11
  <2>3. g \notin DOMAIN w /\ <<o, g>> \notin DOMAIN w
    BY <1>8, <1>11, <1>13, <2>1, <2>2, Kinds
  <2>4. <<o, g>> \in DOMAIN own[s] /\ own[s][<<o, g>>] = None
    BY <1>5, <1>9, <1>10, <2>3 DEF Sure, DeletedWhole
  <2>5. QED
    BY <1>9, <1>10, <2>3, <2>4
<1>17. WritesNamed(db, v, t)
  <2> SUFFICES ASSUME NEW k \in DOMAIN v \cap Legs
               PROVE  /\ v[k] # None => v[k].group \in {None, t.group}
                      /\ k \notin Outflows
    BY <1>4 DEF WritesNamed
  <2>1. CASE k \in DOMAIN w
    <3>1. k # h /\ k \notin Outflows
      BY <1>13, <2>1, LegKeys
    <3>2. k = key \/ w[k] = None
      BY <1>11, <1>12, <2>1, <3>1
    <3>3. QED
      BY <1>4, <1>10, <1>11, <2>1, <3>1, <3>2
  <2>2. CASE k \notin DOMAIN w
    <3>1. /\ own[s][k] # None => own[s][k].group \in {None, u.group}
          /\ k \in Outflows => u.at \in WithdrawAt
      BY <1>5, <1>9, <2>2 DEF Sure, WritesNamed
    <3>2. u.at \notin WithdrawAt
      BY <1>7, ResolvePlaces
    <3>3. QED
      BY <1>4, <1>10, <2>2, <3>1, <3>2
  <2>3. QED
    BY <2>1, <2>2
<1>18. AnswerProgress(v, t)
  <2>1. ASSUME NEW r \in DOMAIN v \cap Arrivals
        PROVE  r[1] = t.row /\ v[r] # None /\ v[r].group = t.group
    <3>1. CASE r \in DOMAIN w
      <4>1. r = key
        BY <1>8, <1>11, <3>1, Kinds
      <4>2. QED
        BY <1>4, <1>8, <1>10, <1>11, <3>1, <4>1
    <3>2. CASE r \notin DOMAIN w
      <4>1. r \in DOMAIN own[s] \cap Arrivals /\ v[r] = own[s][r]
        BY <1>9, <1>10, <3>2
      <4>2. QED
        BY <1>4, <1>5, <1>7, <4>1 DEF Sure, AnswerProgress
    <3>3. QED
      BY <3>1, <3>2
  <2>2. QED
    BY <1>4, <1>14, <2>1 DEF AnswerProgress
<1>19. Sure(db, v, t)
  BY <1>4, <1>5, <1>7, <1>15, <1>16, <1>17, <1>18, ResolvePlaces DEF Sure, GroupUnused
<1>20. ~raced /\ stale[s] = {} => AnswerStands(db, v, read[s], t)
  <2> SUFFICES ASSUME ~raced, stale[s] = {} PROVE AnswerStands(db, v, read[s], t)
    OBVIOUS
  <2>1. AnswerStands(db, own[s], read[s], u)
    BY <1>5
  <2>2. key \in (DOMAIN v \cap Legs) \ Outflows /\ v[key] # None /\ v[key].group = t.group
    BY <1>4, <1>8, <1>9, <1>10, <1>11, Kinds, LegKeys
  <2>3. ASSUME NEW j \in DOMAIN v \cap Inflows PROVE Unlinked(db, j)
    <3>1. CASE j \in DOMAIN own[s]
      BY <1>7, <2>1, <2>3, <3>1 DEF AnswerStands
    <3>2. CASE j \notin DOMAIN own[s]
      <4>1. j = d /\ d # None /\ j \in Keys
        BY <1>8, <1>9, <1>11, <2>3, <3>2, Kinds
      <4>2. Unlinked(own[s] ++ db, d)
        BY <1>1, <1>7, <2>1, <4>1 DEF AnswerStands, d
      <4>3. Sees(s)[j] = db[j]
        BY <1>6, <3>2, <4>1
      <4>4. QED
        BY <4>1, <4>2, <4>3 DEF Unlinked, Sees
    <3>3. QED
      BY <3>1, <3>2
  <2>4. t.row \in read[s] /\ Pending(db[t.row])
    BY <1>4, <1>7, <2>1 DEF AnswerStands
  <2>5. t.at # "claimed" /\ t.at # "arrived"
    BY <1>4
  <2>6. QED
    BY <2>2, <2>3, <2>4, <2>5 DEF AnswerStands
<1>21. ~raced => Stands(db, v, read[s], stale[s], t)
  BY <1>4, <1>20, AnswerIsAll
<1>22. /\ t.at \in ResolveAt => task[s].at \in ResolveAt /\ t.group = task[s].group
       /\ t.at \in GroupedAt => task[s].at \in GroupedAt /\ t.group = task[s].group
  BY <1>4, <1>7 DEF u
<1>23. QED
  BY <1>0, <1>19, <1>21, <1>22, GoesOnInGroup

LEMMA OverBoth ==
  ASSUME NEW f, NEW g
  PROVE  /\ DOMAIN (f ++ g) = DOMAIN f \cup DOMAIN g
         /\ \A k \in DOMAIN f : (f ++ g)[k] = f[k]
         /\ \A k \in DOMAIN g : k \notin DOMAIN f => (f ++ g)[k] = g[k]
BY DEF ++

LEMMA ArriveInHoldingStands ==
  ASSUME WInv, IInv', NEW s \in Sessions, ArriveInHolding(s)
  PROVE  WInv'
<1> DEFINE u == task[s]
           h == u.holding
           qty == u.into[u.account]
           key == <<u.row, h>>
           old == Sees(s)[key]
           adopted == IF u.adopts = None THEN <<>> ELSE Just(u.adopts, None)
           state == IF u.adopts # None THEN Sees(s)[h]
                    ELSE [Sees(s)[h] EXCEPT !.balance = MovedBalance(s, key, qty), !.touched = TRUE]
           arrival == IF old = None
                      THEN [qty |-> qty, group |-> u.group, opened |-> FALSE,
                            moved |-> u.adopts = None, adopts |-> u.adopts]
                      ELSE [old EXCEPT !.qty = qty, !.group = u.group]
           landed == Just(h, state) ++ Just(key, arrival)
           w == landed ++ adopted
<1>1. u \in ArrivedType /\ u.account \in DOMAIN u.into /\ h # None /\ u.at = "arrived"
  BY OwnRows DEF ArriveInHolding, TaskOK
<1>2. /\ u.row \in Outflows /\ h \in Holdings /\ u.group \in Group
      /\ u.adopts \in Typed \cup {None} /\ u.into \in Quantities
  BY <1>1 DEF ArrivedType
<1>3. key \in Arrivals /\ qty \in Nat
  BY <1>1, <1>2, QuantitiesFacts DEF Arrivals
<1>4. Sees(s)[h] \in HoldingType /\ old \in ArrivalType \cup {None}
  BY <1>2, <1>3, SeesAll DEF ArriveInHolding, WInv
<1>5. state \in HoldingType
  <2>1. MovedBalance(s, key, qty) \in Int
    BY <1>3, <1>4, MovedBalanceIs
  <2>2. QED
    BY <1>4, <2>1 DEF HoldingType
<1>6. arrival \in ArrivalType /\ arrival.group = u.group
  BY <1>2, <1>3, <1>4 DEF ArrivalType, Group
<1>7. /\ DOMAIN adopted = {u.adopts} \ {None}
      /\ \A k \in DOMAIN adopted : adopted[k] = None
  <2>1. CASE u.adopts = None
    BY <2>1, EmptyDomain
  <2>2. CASE u.adopts # None
    <3> DEFINE d == u.adopts
    <3>1. adopted = Just(d, None) /\ DOMAIN Just(d, None) = {d} /\ Just(d, None)[d] = None
      BY <2>2, JustOne
    <3> HIDE DEF adopted
    <3>2. \A k \in DOMAIN adopted : k = d
      BY <3>1
    <3>3. QED
      BY <2>2, <3>1, <3>2
  <2>3. QED
    BY <2>1, <2>2
<1>8. own' = [own EXCEPT ![s] = w ++ own[s]]
  BY DEF ArriveInHolding, Write
<1>9. /\ db' = db /\ raced' = raced /\ stale' = stale /\ read' = read
      /\ Goto(s, Onward(Remains(u)))
  BY DEF ArriveInHolding, Remains
<1>10. state # None /\ arrival # None
  BY <1>5, <1>6, NotNone
<1>11. h # key
  BY <1>2, <1>3, Kinds
<1> HIDE DEF state, arrival, adopted, u, h, key, landed, w
<1>12. /\ DOMAIN landed = {h, key} /\ landed[h] = state /\ landed[key] = arrival
  <2>1. landed = Just(h, state) ++ Just(key, arrival)
    BY DEF landed
  <2>2. QED
    BY <1>11, <2>1 DEF ++, Just
<1>13. /\ DOMAIN w = DOMAIN landed \cup DOMAIN adopted
       /\ \A k \in DOMAIN landed : w[k] = landed[k]
       /\ \A k \in DOMAIN adopted : k \notin DOMAIN landed => w[k] = adopted[k]
  BY OverBoth DEF w
<1>14. Landed(w, h, u)
  <2>1. /\ DOMAIN w = {h, key} \cup ({u.adopts} \ {None})
        /\ w[h] # None /\ w[key] # None /\ w[key].group = u.group
    BY <1>6, <1>7, <1>10, <1>12, <1>13
  <2>2. u.adopts \in DOMAIN w \ {h, key} => w[u.adopts] = None
    BY <1>7, <1>12, <1>13, <2>1
  <2>3. QED
    BY <2>1, <2>2 DEF Landed, key
<1>15. task[s].at = "arrived" /\ Goto(s, Onward(Remains(task[s]))) /\ Landed(w, h, task[s])
  BY <1>1, <1>9, <1>14 DEF u
<1>16. QED
  BY <1>2, <1>8, <1>9, <1>15, Lands

LEMMA ArriveInNewHoldingStands ==
  ASSUME WInv, IInv', NEW s \in Sessions, ArriveInNewHolding(s)
  PROVE  WInv'
<1> DEFINE u == task[s]
           qty == u.into[u.account]
           unused == {n \in Room[u.account] : Sees(s)[n] = None /\ Free(s, {n, <<u.row, n>>})}
           new == CHOOSE x \in unused : TRUE
           key == <<u.row, new>>
           state == [balance |-> qty, stated |-> 0, left |-> 0, touched |-> FALSE]
           arrival == [qty |-> qty, group |-> u.group, opened |-> TRUE, moved |-> FALSE,
                       adopts |-> None]
           w == Just(new, state) ++ Just(key, arrival)
<1>1. u \in ArrivedType /\ u.account \in DOMAIN u.into /\ unused # {} /\ u.at = "arrived"
  BY OwnRows DEF ArriveInNewHolding, TaskOK
<1>2. u.row \in Outflows /\ u.account \in Accounts /\ u.group \in Group /\ u.into \in Quantities
  BY <1>1 DEF ArrivedType
<1>3. new \in unused
  BY <1>1
<1>4. new \in Holdings
  BY <1>2, <1>3 DEF Holdings
<1>5. qty \in Nat
  BY <1>1, <1>2, QuantitiesFacts
<1>6. /\ own' = [own EXCEPT ![s] = w ++ own[s]]
      /\ db' = db /\ raced' = raced /\ stale' = stale /\ read' = read
      /\ Goto(s, Onward(Remains(u)))
  BY DEF ArriveInNewHolding, Remains, Write
<1>7. state \in HoldingType /\ arrival \in ArrivalType /\ arrival.group = u.group
  BY <1>2, <1>5 DEF HoldingType, ArrivalType, Group
<1> HIDE DEF unused, new, u
<1>8. key \in Arrivals
  BY <1>2, <1>4 DEF Arrivals
<1>9. state # None /\ arrival # None /\ new # key
  BY <1>4, <1>7, <1>8, NotNone, Kinds
<1> HIDE DEF unused, state, arrival, new, key, u, w
<1>10. DOMAIN w = {new, key} /\ w[new] = state /\ w[key] = arrival
  <2>1. w = Just(new, state) ++ Just(key, arrival)
    BY DEF w
  <2>2. QED
    BY <1>9, <2>1 DEF ++, Just
<1>11. Landed(w, new, u)
  BY <1>7, <1>9, <1>10 DEF Landed, key
<1>12. task[s].at = "arrived" /\ Goto(s, Onward(Remains(task[s]))) /\ Landed(w, new, task[s])
  BY <1>1, <1>6, <1>11 DEF u
<1>13. QED
  BY <1>4, <1>6, <1>12, Lands
-----------------------------------------------------------------------------
\* The statements that take an answer back.

LEMMA WithdrawPlaces ==
  ASSUME NEW t, t.at \in WithdrawAt
  PROVE  /\ t.at \in GroupedAt /\ t.at \notin ResolveAt
         /\ t.at # "unlink" /\ t.at # "bulk" /\ t.at # "match"
BY DEF ResolveAt, GroupedAt, WithdrawAt

LEMMA WithdrawalIsAll ==
  ASSUME NEW f, NEW w, NEW rd, NEW st, NEW t, t.at \in WithdrawAt,
         st = {} => WithdrawalStands(f, w, rd, t)
  PROVE  Stands(f, w, rd, st, t)
BY WithdrawPlaces DEF Stands, MatchStands, AnswerStands, UnlinkStands, BulkStands

\* Deletes, and rows in no group, go beside what a withdrawal has written.
LEMMA SureWithdrawal ==
  ASSUME NEW f, NEW own0, NEW task0, Sure(f, own0, task0), task0.at \in WithdrawAt,
         NEW t, t.at \in WithdrawAt, t.row = task0.row, t.group = task0.group,
         NEW w, DOMAIN w \cap Outflows = {},
         \A k \in DOMAIN w \cap Legs : w[k] # None => w[k].group = None,
         \A r \in DOMAIN w \cap Arrivals : w[r] = None,
         \A o \in Outflows, h \in Holdings :
           h \in DOMAIN w /\ w[h] = None =>
             \/ <<o, h>> \in DOMAIN w
             \/ <<o, h>> \in DOMAIN own0 /\ own0[<<o, h>>] = None
             \/ <<o, h>> \notin DOMAIN own0 /\ f[<<o, h>>] = None
  PROVE  Sure(f, w ++ own0, t)
<1> DEFINE v == w ++ own0
<1>1. /\ DOMAIN v = DOMAIN w \cup DOMAIN own0
      /\ \A k \in DOMAIN w : v[k] = w[k]
      /\ \A k \in DOMAIN own0 : k \notin DOMAIN w => v[k] = own0[k]
  BY OverBoth
<1> HIDE DEF v
<1>2. \A o \in Outflows, h \in Holdings :
        <<o, h>> \in Arrivals /\ (<<o, h>> \in DOMAIN w => v[<<o, h>>] = None)
  BY <1>1, LegKeys
<1>3. WrittenBeside(v)
  <2> SUFFICES ASSUME NEW o \in Outflows, NEW h \in Holdings, <<o, h>> \in DOMAIN v, v[<<o, h>>] # None
               PROVE  h \in DOMAIN v /\ v[h] # None
    BY DEF WrittenBeside
  <2>1. <<o, h>> \notin DOMAIN w /\ <<o, h>> \in DOMAIN own0 /\ own0[<<o, h>>] # None
    BY <1>1, <1>2
  <2>2. h \in DOMAIN own0 /\ own0[h] # None
    BY <2>1 DEF Sure, WrittenBeside
  <2>3. QED
    BY <1>1, <2>1, <2>2
<1>4. DeletedWhole(f, v)
  <2> SUFFICES ASSUME NEW o \in Outflows, NEW h \in Holdings,
                      h \in DOMAIN v, v[h] = None, f[<<o, h>>] # None
               PROVE  <<o, h>> \in DOMAIN v /\ v[<<o, h>>] = None
    BY DEF DeletedWhole
  <2>1. CASE h \in DOMAIN w
    BY <1>1, <1>2, <2>1
  <2>2. CASE h \notin DOMAIN w
    <3>1. <<o, h>> \in DOMAIN own0 /\ own0[<<o, h>>] = None
      BY <1>1, <2>2 DEF Sure, DeletedWhole
    <3>2. QED
      BY <1>1, <1>2, <3>1
  <2>3. QED
    BY <2>1, <2>2
<1>5. WritesNamed(f, v, t)
  <2> SUFFICES ASSUME NEW k \in DOMAIN v \cap Legs
               PROVE  /\ v[k] # None => v[k].group \in {None, t.group}
                      /\ k \in Outflows => k = t.row /\ v[k] = f[k]
    BY DEF WritesNamed
  <2>1. CASE k \in DOMAIN w
    BY <1>1, <2>1
  <2>2. CASE k \notin DOMAIN w
    BY <1>1, <2>2 DEF Sure, WritesNamed
  <2>3. QED
    BY <2>1, <2>2
<1>6. QED
  BY <1>3, <1>4, <1>5, WithdrawPlaces DEF Sure, GroupUnused, AnswerProgress, v

LEMMA WithdrawArrivalsStands ==
  ASSUME WInv, IInv', NEW s \in Sessions, WithdrawArrivals(s)
  PROVE  WInv'
<1> DEFINE u == task[s]
           gone == ArrivalsIn(s, u.row, u.only)
           withdrawn == [h \in gone |-> Sees(s)[<<u.row, h>>]]
           closes == {h \in gone : withdrawn[h].opened /\ Untouched(s, u.row, h)}
           w == [r \in {u.row} \X gone |-> None]
           v == w ++ own[s]
           rd == read[s] \cup ((Outflows \X gone) \cup gone)
           t == [at |-> "undo", row |-> u.row, group |-> u.group, by |-> u.by,
                 part |-> u.part, claim |-> u.claim, arrivals |-> withdrawn,
                 closes |-> closes]
<1>1. u \in WithdrawType /\ u.at = "withdraw" /\ u.row \in Outflows /\ u.only \subseteq Holdings
  BY OwnRows DEF WithdrawArrivals, TaskOK, WithdrawType
<1>2. /\ Goto(s, t) /\ own' = [own EXCEPT ![s] = v] /\ read' = [read EXCEPT ![s] = rd]
      /\ db' = db /\ raced' = raced /\ stale' = stale
  BY DEF WithdrawArrivals, Write, Note
<1>3. DOMAIN w = {u.row} \X gone /\ \A r \in DOMAIN w : w[r] = None
  OBVIOUS
<1>4. /\ gone \subseteq u.only
      /\ \A h \in u.only : h \notin gone => Sees(s)[<<u.row, h>>] = None
  BY DEF ArrivalsIn
<1>5. /\ closes \subseteq gone
      /\ \A h \in closes : \A p \in Outflows \ {u.row} : Sees(s)[<<p, h>>] = None
  BY DEF Untouched
<1>6. /\ t.at = "undo" /\ t.row = u.row /\ t.group = u.group /\ t.part = u.part
      /\ t.closes = closes
  OBVIOUS
<1>7. read[s] \subseteq rd /\ \A o \in Outflows, h \in gone : <<o, h>> \in rd
  OBVIOUS
<1>8. \A o, h : <<o, h>> \in DOMAIN w <=> o = u.row /\ h \in gone
  BY <1>3
<1>9. \A k \in DOMAIN w : k \in Arrivals /\ k[1] = u.row
  BY <1>1, <1>3, <1>4 DEF Arrivals
<1> HIDE DEF u, gone, withdrawn, closes, w, rd, t
<1>10. u.at \in WithdrawAt /\ t.at \in WithdrawAt
  BY <1>1, <1>6 DEF WithdrawAt
<1>11. /\ \A k \in DOMAIN w : k \notin Outflows /\ k \notin Inflows /\ k \notin Holdings
       /\ \A k \in DOMAIN w : w[k] = None
  BY <1>3, <1>9, Kinds
<1>12. Sure(db, own[s], u)
  BY OwnRows DEF u
<1>13. Sure(db, v, t)
  <2> DEFINE own0 == own[s]
  <2>1. Sure(db, own0, u)
    BY <1>12
  <2>2. /\ DOMAIN w \cap Outflows = {}
        /\ \A k \in DOMAIN w \cap Legs : w[k] # None => w[k].group = None
        /\ \A r \in DOMAIN w \cap Arrivals : w[r] = None
        /\ \A o \in Outflows, h \in Holdings : h \notin DOMAIN w
    BY <1>11
  <2> HIDE DEF own0
  <2>3. Sure(db, w ++ own0, t)
    BY <1>6, <1>10, <2>1, <2>2, SureWithdrawal
  <2>4. QED
    BY <2>3 DEF own0, v
<1>14. /\ DOMAIN v = DOMAIN w \cup DOMAIN own[s]
       /\ \A k \in DOMAIN w : v[k] = w[k]
       /\ \A k \in DOMAIN own[s] : k \notin DOMAIN w => v[k] = own[s][k]
  BY OverBoth DEF v
<1> HIDE DEF v
<1>15. \A k \in Keys : k \in DOMAIN v => (v ++ db)[k] = v[k]
  BY OverAt
<1>16. \A k \in Keys : k \notin DOMAIN w => (v ++ db)[k] = Sees(s)[k]
  <2> SUFFICES ASSUME NEW k \in Keys, k \notin DOMAIN w PROVE (v ++ db)[k] = Sees(s)[k]
    OBVIOUS
  <2>1. CASE k \in DOMAIN own[s]
    BY <1>14, <1>15, <2>1, OwnRows
  <2>2. CASE k \notin DOMAIN own[s]
    <3>1. k \in DOMAIN db /\ Sees(s)[k] = db[k] /\ k \notin DOMAIN v
      BY <1>14, <2>2, OwnRows
    <3>2. QED
      BY <3>1, OverAt
  <2>3. QED
    BY <2>1, <2>2
<1>17. ASSUME ~raced, stale[s] = {} PROVE WithdrawalStands(db, v, rd, t)
  <2>1. WithdrawalStands(db, own[s], read[s], u)
    BY <1>17, OwnRows DEF u
  <2>2. /\ u.row \in read[s] \cup DOMAIN own[s]
        /\ db[u.row].review # None /\ db[u.row].group = u.group
        /\ \A i \in DOMAIN own[s] \cap Inflows : db[i] = None
        /\ \A r \in DOMAIN own[s] \cap Arrivals : r[1] = u.row /\ own[s][r] = None
        /\ ~IsPart(u) => u.only = Holdings
    BY <1>1, <1>10, <2>1 DEF WithdrawalStands
  <2>3. IsPart(t) <=> IsPart(u)
    BY <1>1, <1>6 DEF IsPart
  <2>4. ASSUME IsPart(t)
        PROVE  /\ db[t.row].review = "split"
               /\ t.group # None
               /\ \E k \in Legs \ Outflows : /\ k \in rd \ DOMAIN v
                                             /\ db[k] # None /\ db[k].group = t.group
    <3>1. db[u.row].review = "split" /\ u.group # None
      BY <1>10, <2>1, <2>3, <2>4 DEF WithdrawalStands
    <3>2. PICK k \in Legs \ Outflows : /\ k \in read[s] \ DOMAIN own[s]
                                       /\ db[k] # None /\ db[k].group = u.group
                                       /\ k \notin {u.row} \X u.only
      BY <1>1, <1>10, <2>1, <2>3, <2>4 DEF WithdrawalStands
    <3>3. k \notin DOMAIN v
      BY <1>3, <1>4, <1>14, <3>2
    <3>4. QED
      BY <1>6, <1>7, <3>1, <3>2, <3>3
  <2>5. ASSUME ~IsPart(t), NEW h \in Holdings PROVE (v ++ db)[<<t.row, h>>] = None
    <3>1. <<t.row, h>> \in Keys /\ h \in u.only
      BY <1>1, <1>6, <2>2, <2>3, <2>5, LegKeys
    <3>2. CASE h \in gone
      BY <1>6, <1>8, <1>11, <1>14, <1>15, <3>1, <3>2
    <3>3. CASE h \notin gone
      BY <1>4, <1>6, <1>8, <1>16, <3>1, <3>3
    <3>4. QED
      BY <3>2, <3>3
  <2>6. ASSUME NEW o \in Outflows, NEW h \in t.closes
        PROVE  <<o, h>> \in rd \cup DOMAIN v /\ (v ++ db)[<<o, h>>] = None
    <3>1. h \in gone /\ h \in closes /\ h \in Holdings /\ <<o, h>> \in Keys
      BY <1>1, <1>4, <1>5, <1>6, LegKeys
    <3>2. CASE o = u.row
      BY <1>7, <1>8, <1>11, <1>14, <1>15, <3>1, <3>2
    <3>3. CASE o # u.row
      BY <1>5, <1>7, <1>8, <1>16, <3>1, <3>3
    <3>4. QED
      BY <3>2, <3>3
  <2>7. \A r \in DOMAIN v \cap Arrivals : r[1] = t.row /\ v[r] = None
    BY <1>6, <1>9, <1>11, <1>14, <2>2
  <2>8. \A i \in DOMAIN v \cap Inflows : db[i] = None
    BY <1>11, <1>14, <2>2
  <2>9. t.row \in rd \cup DOMAIN v /\ db[t.row].review # None /\ db[t.row].group = t.group
    BY <1>6, <1>7, <1>14, <2>2
  <2>10. t.at # "withdraw"
    BY <1>6
  <2>11. QED
    BY <2>4, <2>5, <2>6, <2>7, <2>8, <2>9, <2>10 DEF WithdrawalStands
<1>18. ~raced => Stands(db, v, rd, stale[s], t)
  BY <1>10, <1>17, WithdrawalIsAll
<1>19. /\ t.at \in ResolveAt => task[s].at \in ResolveAt /\ t.group = task[s].group
       /\ t.at \in GroupedAt => task[s].at \in GroupedAt /\ t.group = task[s].group
  BY <1>6, <1>10, WithdrawPlaces DEF u
<1>20. QED
  BY <1>2, <1>13, <1>18, <1>19, GoesOnInGroup

LEMMA UndoArrivalsStands ==
  ASSUME WInv, IInv', NEW s \in Sessions, UndoArrivals(s)
  PROVE  WInv'
<1> DEFINE u == task[s]
           stays == [h \in DOMAIN u.arrivals \ u.closes |-> u.arrivals[h]]
           there == {h \in DOMAIN stays : Sees(s)[h] # None}
           back == PutBack(s, stays)
           cascade == {r \in Arrivals : r[2] \in u.closes /\ Sees(s)[r] # None}
           closed == [k \in u.closes \cup cascade |-> None]
           moved == [h \in there |-> Unmoved(Sees(s)[h], stays[h])]
           both == closed ++ moved
           w == both ++ back
           v == w ++ own[s]
           t == [at |-> IF u.part THEN "part" ELSE "clear", row |-> u.row,
                 group |-> u.group, by |-> u.by, claim |-> u.claim]
<1>1. u \in UndoType /\ u.closes \subseteq DOMAIN u.arrivals /\ u.at = "undo" /\ u.row \in Outflows
  BY OwnRows DEF UndoArrivals, TaskOK, UndoType
<1>2. /\ t.at = (IF u.part THEN "part" ELSE "clear") /\ t.row = u.row /\ t.group = u.group
      /\ u.part \in BOOLEAN
  BY <1>1 DEF UndoType
<1>3. /\ DOMAIN u.arrivals \subseteq Holdings
      /\ \A h \in DOMAIN u.arrivals : u.arrivals[h] \in ArrivalType
  BY <1>1 DEF UndoType, Withdrawn
<1>4. /\ own' = [own EXCEPT ![s] = v] /\ Goto(s, t) /\ \A i \in Adopted(stays) : Spare(s, i) # {}
      /\ db' = db /\ raced' = raced /\ stale' = stale /\ read' = read
  BY DEF UndoArrivals, Write
<1>5. /\ DOMAIN back \subseteq Inflows
      /\ \A x \in DOMAIN back : Sees(s)[x] = None /\ back[x] = [group |-> None]
  <2>1. /\ DOMAIN PutBack(s, stays) \subseteq Inflows
        /\ \A x \in DOMAIN PutBack(s, stays) :
             Sees(s)[x] = None /\ PutBack(s, stays)[x] = [group |-> None]
    <3>1. \A i \in Adopted(stays) : Spare(s, i) # {}
      BY <1>4
    <3> HIDE DEF stays, u
    <3>2. QED
      BY <3>1, PutBackTyped
  <2>2. QED
    BY <2>1
<1>6. DOMAIN closed = u.closes \cup cascade /\ \A k \in DOMAIN closed : closed[k] = None
  OBVIOUS
<1>7. /\ cascade \subseteq Arrivals /\ u.closes \subseteq Holdings
      /\ \A o \in Outflows, h \in u.closes : Sees(s)[<<o, h>>] # None => <<o, h>> \in cascade
      /\ \A o, h : <<o, h>> \in cascade => h \in u.closes
  BY <1>1, <1>3, LegKeys
<1>8. there \subseteq Holdings /\ there \cap u.closes = {} /\ DOMAIN moved = there
  BY <1>3
<1>9. ASSUME NEW h \in there PROVE moved[h] # None
  <2>1. stays[h] \in ArrivalType
    BY <1>3
  <2>2. Sees(s)[h] \in HoldingType
    BY <1>3, SeesAll DEF WInv
  <2>3. moved[h] = Unmoved(Sees(s)[h], stays[h])
    OBVIOUS
  <2> HIDE DEF stays, moved, there
  <2>4. QED
    BY <2>1, <2>2, <2>3, UnmovedIs, NotNone
<1> HIDE DEF u, closed, moved, back, cascade, there, stays, t, both, w, v
<1>10. /\ DOMAIN both = DOMAIN closed \cup DOMAIN moved
       /\ \A k \in DOMAIN closed : both[k] = closed[k]
       /\ \A k \in DOMAIN moved : k \notin DOMAIN closed => both[k] = moved[k]
  BY OverBoth DEF both
<1>11. /\ DOMAIN w = DOMAIN both \cup DOMAIN back
       /\ \A k \in DOMAIN both : w[k] = both[k]
       /\ \A k \in DOMAIN back : k \notin DOMAIN both => w[k] = back[k]
  BY OverBoth DEF w
<1>12. /\ \A k \in DOMAIN w : k \in u.closes \/ k \in cascade \/ k \in there \/ k \in DOMAIN back
       /\ u.closes \subseteq DOMAIN w /\ cascade \subseteq DOMAIN w
       /\ \A k \in u.closes \cup cascade : w[k] = None
  BY <1>6, <1>8, <1>10, <1>11
<1>13. \A k \in DOMAIN w : /\ k \notin Outflows
                           /\ k \in Inflows => k \in DOMAIN back /\ w[k] = [group |-> None]
                           /\ k \in Arrivals => k \in cascade
  <2> SUFFICES ASSUME NEW k \in DOMAIN w
               PROVE  /\ k \notin Outflows
                      /\ k \in Inflows => k \in DOMAIN back /\ w[k] = [group |-> None]
                      /\ k \in Arrivals => k \in cascade
    OBVIOUS
  <2>1. CASE k \in u.closes \/ k \in there
    BY <1>7, <1>8, <2>1, Kinds
  <2>2. CASE k \in cascade
    BY <1>7, <2>2, Kinds
  <2>3. CASE k \in DOMAIN back
    <3>1. k \in Inflows /\ k \notin Outflows /\ k \notin Arrivals /\ k \notin Holdings
      BY <1>5, <2>3, Kinds
    <3>2. k \notin DOMAIN both
      BY <1>6, <1>7, <1>8, <1>10, <3>1
    <3>3. QED
      BY <1>5, <1>11, <2>3, <3>1, <3>2
  <2>4. QED
    BY <1>12, <2>1, <2>2, <2>3
<1>14. \A h \in Holdings : h \in DOMAIN w /\ w[h] = None => h \in u.closes
  <2> SUFFICES ASSUME NEW h \in Holdings, h \in DOMAIN w, h \notin u.closes PROVE w[h] # None
    OBVIOUS
  <2>1. h \notin cascade /\ h \notin DOMAIN back
    BY <1>5, <1>7, Kinds
  <2>2. h \in there /\ h \notin DOMAIN closed
    BY <1>6, <1>12, <2>1
  <2>3. QED
    BY <1>8, <1>9, <1>10, <1>11, <2>2
<1>15. u.at \in WithdrawAt /\ t.at \in WithdrawAt
  BY <1>1, <1>2 DEF WithdrawAt
<1>16. Sure(db, own[s], u)
  BY OwnRows DEF u
<1>17. \A k \in Keys : /\ k \in DOMAIN own[s] => Sees(s)[k] = own[s][k]
                       /\ k \notin DOMAIN own[s] => Sees(s)[k] = db[k]
  BY OwnRows
<1>18. Sure(db, v, t)
  <2> DEFINE own0 == own[s]
  <2>1. Sure(db, own0, u)
    BY <1>16
  <2>2. /\ DOMAIN w \cap Outflows = {}
        /\ \A r \in DOMAIN w \cap Arrivals : w[r] = None
    BY <1>12, <1>13
  <2>3. \A k \in DOMAIN w \cap Legs : w[k] # None => w[k].group = None
    <3> SUFFICES ASSUME NEW k \in DOMAIN w, k \in Legs, w[k] # None PROVE w[k].group = None
      OBVIOUS
    <3>1. k \in Inflows
      BY <1>12, <1>13, LegKeys
    <3>2. QED
      BY <1>13, <3>1
  <2>4. ASSUME NEW o \in Outflows, NEW h \in Holdings, h \in DOMAIN w, w[h] = None
        PROVE  \/ <<o, h>> \in DOMAIN w
               \/ <<o, h>> \in DOMAIN own0 /\ own0[<<o, h>>] = None
               \/ <<o, h>> \notin DOMAIN own0 /\ db[<<o, h>>] = None
    <3>1. h \in u.closes /\ <<o, h>> \in Keys
      BY <1>14, <2>4, LegKeys
    <3>2. CASE Sees(s)[<<o, h>>] # None
      BY <1>7, <1>12, <3>1, <3>2
    <3>3. CASE Sees(s)[<<o, h>>] = None
      BY <1>17, <3>1, <3>3
    <3>4. QED
      BY <3>2, <3>3
  <2> HIDE DEF own0
  <2>5. Sure(db, w ++ own0, t)
    BY <1>2, <1>15, <2>1, <2>2, <2>3, <2>4, SureWithdrawal
  <2>6. QED
    BY <2>5 DEF own0, v
<1>19. /\ DOMAIN v = DOMAIN w \cup DOMAIN own[s]
       /\ \A k \in DOMAIN w : v[k] = w[k]
       /\ \A k \in DOMAIN own[s] : k \notin DOMAIN w => v[k] = own[s][k]
  BY OverBoth DEF v
<1>20. \A k \in Keys : k \notin DOMAIN w => (v ++ db)[k] = Sees(s)[k]
  <2> SUFFICES ASSUME NEW k \in Keys, k \notin DOMAIN w PROVE (v ++ db)[k] = Sees(s)[k]
    OBVIOUS
  <2>1. CASE k \in DOMAIN own[s]
    <3>1. k \in DOMAIN v /\ v[k] = own[s][k]
      BY <1>19, <2>1
    <3>2. QED
      BY <1>17, <2>1, <3>1, OverAt
  <2>2. CASE k \notin DOMAIN own[s]
    <3>1. k \in DOMAIN db /\ Sees(s)[k] = db[k] /\ k \notin DOMAIN v
      BY <1>17, <1>19, <2>2, OwnRows
    <3>2. QED
      BY <3>1, OverAt
  <2>3. QED
    BY <2>1, <2>2
<1>21. ASSUME ~raced, stale[s] = {} PROVE WithdrawalStands(db, v, read[s], t)
  <2>1. WithdrawalStands(db, own[s], read[s], u)
    BY <1>21, OwnRows DEF u
  <2>2. /\ u.row \in read[s] \cup DOMAIN own[s]
        /\ db[u.row].review # None /\ db[u.row].group = u.group
        /\ \A i \in DOMAIN own[s] \cap Inflows : db[i] = None
        /\ \A r \in DOMAIN own[s] \cap Arrivals : r[1] = u.row /\ own[s][r] = None
        /\ ~IsPart(u) => \A h \in Holdings : (own[s] ++ db)[<<u.row, h>>] = None
        /\ \A o \in Outflows, h \in u.closes : (own[s] ++ db)[<<o, h>>] = None
    BY <1>1, <1>15, <2>1 DEF WithdrawalStands
  <2>3. cascade = {}
    BY <2>2, LegKeys DEF cascade, Sees
  <2>4. IsPart(t) <=> IsPart(u)
    BY <1>1, <1>2 DEF IsPart
  <2>5. \A r \in Arrivals : r \notin DOMAIN w
    BY <1>13, <2>3
  <2>6. ASSUME IsPart(t)
        PROVE  /\ db[t.row].review = "split"
               /\ t.group # None
               /\ \E k \in Legs \ Outflows : /\ k \in read[s] \ DOMAIN v
                                             /\ db[k] # None /\ db[k].group = t.group
    <3>1. db[u.row].review = "split" /\ u.group # None
      BY <1>15, <2>1, <2>4, <2>6 DEF WithdrawalStands
    <3>2. PICK k \in Legs \ Outflows : /\ k \in read[s] \ DOMAIN own[s]
                                       /\ db[k] # None /\ db[k].group = u.group
      BY <1>15, <2>1, <2>4, <2>6 DEF WithdrawalStands
    <3>3. k \notin DOMAIN w
      <4>1. CASE k \in Arrivals
        BY <2>5, <4>1
      <4>2. CASE k \in Inflows
        <5>1. Sees(s)[k] # None
          BY <1>17, <3>2, LegKeys
        <5>2. QED
          BY <1>5, <1>13, <4>2, <5>1
      <4>3. QED
        BY <3>2, <4>1, <4>2, LegKeys
    <3>4. k \notin DOMAIN v
      BY <1>19, <3>2, <3>3
    <3>5. QED
      BY <1>2, <3>1, <3>2, <3>4
  <2>7. ASSUME ~IsPart(t), NEW h \in Holdings PROVE (v ++ db)[<<t.row, h>>] = None
    <3>1. <<u.row, h>> \in Keys /\ <<u.row, h>> \notin DOMAIN w
      BY <1>1, <2>5, LegKeys
    <3>2. Sees(s)[<<u.row, h>>] = None
      BY <2>2, <2>4, <2>7 DEF Sees
    <3>3. QED
      BY <1>2, <1>20, <3>1, <3>2
  <2>8. \A r \in DOMAIN v \cap Arrivals : r[1] = t.row /\ v[r] = None
    BY <1>2, <1>19, <2>2, <2>5
  <2>9. ASSUME NEW i \in DOMAIN v \cap Inflows PROVE db[i] = None
    <3>1. CASE i \in DOMAIN own[s]
      BY <2>2, <2>9, <3>1
    <3>2. CASE i \notin DOMAIN own[s]
      BY <1>5, <1>13, <1>17, <1>19, <2>9, <3>2, LegKeys
    <3>3. QED
      BY <3>1, <3>2
  <2>10. t.row \in read[s] \cup DOMAIN v /\ db[t.row].review # None /\ db[t.row].group = t.group
    BY <1>2, <1>19, <2>2
  <2>11. t.at # "withdraw" /\ t.at # "undo"
    BY <1>2
  <2>12. QED
    BY <2>6, <2>7, <2>8, <2>9, <2>10, <2>11 DEF WithdrawalStands
<1>22. ~raced => Stands(db, v, read[s], stale[s], t)
  BY <1>15, <1>21, WithdrawalIsAll
<1>23. /\ t.at \in ResolveAt => task[s].at \in ResolveAt /\ t.group = task[s].group
       /\ t.at \in GroupedAt => task[s].at \in GroupedAt /\ t.group = task[s].group
  BY <1>2, <1>15, WithdrawPlaces DEF u
<1>24. QED
  BY <1>4, <1>18, <1>22, <1>23, GoesOnInGroup
-----------------------------------------------------------------------------
\* The commits.

\* The rows once session s has committed w.
After(s, w) == (w ++ own[s]) ++ db

LEMMA AfterIs ==
  ASSUME WInv, NEW s \in Sessions, NEW w, DOMAIN w \subseteq Legs
  PROVE  /\ DOMAIN (w ++ own[s]) = DOMAIN w \cup DOMAIN own[s]
         /\ DOMAIN (w ++ own[s]) \subseteq Keys
         /\ \A k \in Keys :
              /\ k \notin DOMAIN (w ++ own[s]) => After(s, w)[k] = db[k]
              /\ k \in DOMAIN w => After(s, w)[k] = w[k] /\ (w ++ own[s])[k] = w[k]
              /\ k \notin DOMAIN w => After(s, w)[k] = Sees(s)[k]
              /\ k \notin DOMAIN w /\ k \in DOMAIN own[s] => (w ++ own[s])[k] = own[s][k]
<1> DEFINE new == w ++ own[s]
           f == db
<1>1. DOMAIN own[s] \subseteq Keys /\ DOMAIN f = Keys
  BY OwnRows
<1>2. /\ DOMAIN new = DOMAIN w \cup DOMAIN own[s]
      /\ \A k \in DOMAIN w : new[k] = w[k]
      /\ \A k \in DOMAIN own[s] : k \notin DOMAIN w => new[k] = own[s][k]
  BY OverBoth
<1> HIDE DEF new, f
<1>3. /\ \A k \in DOMAIN new : (new ++ f)[k] = new[k]
      /\ \A k \in DOMAIN f : k \notin DOMAIN new => (new ++ f)[k] = f[k]
  BY OverBoth
<1>4. DOMAIN new \subseteq Keys
  BY <1>1, <1>2, LegKeys
<1>5. \A k \in Keys : /\ k \in DOMAIN own[s] => Sees(s)[k] = own[s][k]
                      /\ k \notin DOMAIN own[s] => Sees(s)[k] = f[k]
  BY OwnRows DEF f
<1>6. \A k \in Keys :
        /\ k \notin DOMAIN new => (new ++ f)[k] = f[k]
        /\ k \in DOMAIN w => (new ++ f)[k] = w[k] /\ new[k] = w[k]
        /\ k \notin DOMAIN w => (new ++ f)[k] = Sees(s)[k]
        /\ k \notin DOMAIN w /\ k \in DOMAIN own[s] => new[k] = own[s][k]
  BY <1>1, <1>2, <1>3, <1>5
<1>7. QED
  BY <1>2, <1>4, <1>6 DEF After, new, f

\* What a release writes.
LEMMA ReleaseIs ==
  ASSUME NEW f, RowsOK(f), DOMAIN f = Keys, NEW g
  PROVE  LET w == ReleaseTransferGroup(f, g)
         IN /\ DOMAIN w \subseteq Legs
            /\ \A k \in DOMAIN w : /\ g # None /\ f[k] # None /\ f[k].group = g
                                   /\ w[k] # None /\ w[k].group = None
                                   /\ k \in Outflows => w[k].review = f[k].review
            /\ \A k \in Legs : k \notin DOMAIN w /\ f[k] # None /\ g # None => f[k].group # g
<1> DEFINE w == ReleaseTransferGroup(f, g)
<1>1. CASE g = None
  <2>1. DOMAIN w = {}
    BY <1>1, EmptyDomain DEF ReleaseTransferGroup
  <2> HIDE DEF w
  <2>2. QED
    BY <1>1, <2>1 DEF w
<1>2. CASE g # None
  <2>1. /\ DOMAIN w = InGroup(f, g)
        /\ \A k \in InGroup(f, g) : w[k] = [f[k] EXCEPT !.group = None]
    BY <1>2 DEF ReleaseTransferGroup
  <2> HIDE DEF w
  <2>2. ASSUME NEW k \in DOMAIN w
        PROVE  /\ k \in Legs /\ f[k] # None /\ f[k].group = g
               /\ w[k] # None /\ w[k].group = None
               /\ k \in Outflows => w[k].review = f[k].review
    <3>1. k \in Legs /\ f[k] # None /\ f[k].group = g /\ k \in Keys
      BY <2>1, InGroupIs, LegKeys
    <3>2. /\ k \in Outflows => f[k] \in OutflowType
          /\ k \in Inflows => f[k] \in InflowType
          /\ k \in Arrivals => f[k] \in ArrivalType
      BY <3>1 DEF RowsOK, RowOK
    <3>3. w[k] = [f[k] EXCEPT !.group = None]
      BY <2>1
    <3>4. CASE k \in Outflows
      <4>1. w[k] \in OutflowType /\ w[k].group = None /\ w[k].review = f[k].review
        BY <3>2, <3>3, <3>4 DEF OutflowType
      <4>2. QED
        BY <3>1, <4>1, NotNone
    <3>5. CASE k \in Inflows
      <4>1. w[k] \in InflowType /\ w[k].group = None
        BY <3>2, <3>3, <3>5 DEF InflowType
      <4>2. QED
        BY <3>1, <3>5, <4>1, NotNone, Kinds
    <3>6. CASE k \in Arrivals
      <4>1. w[k] \in ArrivalType /\ w[k].group = None
        BY <3>2, <3>3, <3>6 DEF ArrivalType
      <4>2. QED
        BY <3>1, <3>6, <4>1, NotNone, Kinds
    <3>7. QED
      BY <3>1, <3>4, <3>5, <3>6, LegKeys
  <2>3. \A k \in Legs : k \notin DOMAIN w /\ f[k] # None => f[k].group # g
    BY <2>1, InGroupIs
  <2>4. DOMAIN w \subseteq Legs
    BY <2>2
  <2>5. QED
    BY <1>2, <2>2, <2>3, <2>4 DEF w
<1>3. QED
  BY <1>1, <1>2

LEMMA GiveBackClaimsStands ==
  ASSUME WInv, IInv', NEW s \in Sessions, GiveBackClaims(s)
  PROVE  WInv'
<1> DEFINE u == task[s]
           g == u.group
           w == ReleaseTransferGroup(Sees(s), g)
           new == w ++ own[s]
<1>1. u.at = "giveBack" /\ Free(s, DOMAIN w) /\ Commit(s, w, Idle)
  BY DEF GiveBackClaims
<1>2. RowsOK(Sees(s)) /\ DOMAIN Sees(s) = Keys
  BY SeesAll DEF WInv
<1>3. /\ DOMAIN w \subseteq Legs
      /\ \A k \in DOMAIN w : /\ g # None /\ Sees(s)[k] # None /\ Sees(s)[k].group = g
                             /\ w[k] # None /\ w[k].group = None
      /\ \A k \in Legs : k \notin DOMAIN w /\ Sees(s)[k] # None /\ g # None => Sees(s)[k].group # g
  BY <1>2, ReleaseIs
<1> HIDE DEF u, g, w, new
<1>4. u.at \in ResolveAt
  BY <1>1 DEF ResolveAt
<1>5. /\ g # None /\ DOMAIN own[s] \subseteq Inflows
      /\ \A k \in Legs : db[k] # None => db[k].group # g
      /\ \A k \in DOMAIN own[s] : own[s][k] # None => own[s][k].group \in {None, g}
  <2>1. Sure(db, own[s], u)
    BY OwnRows DEF u
  <2>2. u.group # None /\ DOMAIN own[s] \subseteq Inflows
    BY <1>1, <1>4, <2>1 DEF Sure, AnswerProgress
  <2>3. QED
    BY <1>4, <2>1, <2>2, LegKeys DEF Sure, GroupUnused, WritesNamed, g
<1>6. /\ DOMAIN new = DOMAIN w \cup DOMAIN own[s] /\ DOMAIN new \subseteq Keys
      /\ \A k \in Keys :
           /\ k \notin DOMAIN new => After(s, w)[k] = db[k]
           /\ k \in DOMAIN w => After(s, w)[k] = w[k] /\ new[k] = w[k]
           /\ k \notin DOMAIN w => After(s, w)[k] = Sees(s)[k]
           /\ k \notin DOMAIN w /\ k \in DOMAIN own[s] => new[k] = own[s][k]
  BY <1>3, AfterIs DEF new
<1>7. DOMAIN w \subseteq DOMAIN own[s]
  <2> SUFFICES ASSUME NEW k \in DOMAIN w, k \notin DOMAIN own[s] PROVE FALSE
    OBVIOUS
  <2>1. k \in Legs /\ Sees(s)[k] = db[k]
    BY <1>3, OwnRows, LegKeys
  <2>2. QED
    BY <1>3, <1>5, <2>1
<1>8. \A k \in DOMAIN new : k \in Inflows /\ k \notin Outflows /\ k \notin Arrivals /\ k \in Keys
  BY <1>5, <1>6, <1>7, Kinds
<1> DEFINE e == After(s, w)
<1>9. ASSUME ~raced, stale[s] = {} PROVE Whole(e) /\ Adds(db, e)
  <2>1. AnswerStands(db, own[s], read[s], u) /\ Whole(db)
    BY <1>9, OwnRows DEF u
  <2>2. \A k \in DOMAIN new \cap Legs : /\ db[k] # None => db[k].group \in {None, g}
                                        /\ new[k] # None => new[k].group \in {None, g}
    <3>1. \A i \in DOMAIN own[s] \cap Inflows : db[i].group = None
      BY <1>4, <2>1 DEF AnswerStands, Unlinked
    <3>2. QED
      BY <1>3, <1>5, <1>6, <1>7, <1>8, <3>1
  <2>3. WholeGroup(e, g)
    <3>1. \A k \in Legs : e[k] # None => e[k].group # g
      BY <1>3, <1>5, <1>6, LegKeys
    <3> HIDE DEF e
    <3>2. QED
      BY <3>1, EmptyGroup
  <2>4. e = new ++ db /\ DOMAIN db = Keys /\ None \notin Groups
    BY OwnRows, TransferReviewAssumption DEF After, new
  <2>5. \A o \in Outflows, h \in Holdings : <<o, h>> \notin DOMAIN new
    BY <1>8, LegKeys
  <2>6. DOMAIN new \cap Outflows = {}
    BY <1>8
  <2>7. \A o \in Outflows, h \in Holdings : e[<<o, h>>] = db[<<o, h>>]
    BY <1>6, <2>5, LegKeys
  <2>8. Adds(db, e)
    BY <2>7 DEF Adds
  <2> HIDE DEF e
  <2>9. Whole(e)
    BY <1>6, <2>1, <2>2, <2>3, <2>4, <2>5, <2>6, WholeAfter
  <2>10. QED
    BY <2>8, <2>9
<1>10. ~raced /\ stale[s] = {} => Whole((w ++ own[s]) ++ db) /\ Adds(db, (w ++ own[s]) ++ db)
  BY <1>9 DEF After
<1>11. \A k \in DOMAIN w : k \notin Outflows /\ k \notin Arrivals /\ w[k].group = None
  BY <1>3, <1>6, <1>8
<1> HIDE DEF e
<1>12. QED
  BY <1>1, <1>3, <1>10, <1>11, CommitStands

LEMMA StampStands ==
  ASSUME WInv, IInv', NEW s \in Sessions, Stamp(s)
  PROVE  WInv'
<1> DEFINE u == task[s]
           o == u.row
           g == u.group
           row == [group |-> IF g = None THEN Sees(s)[o].group ELSE g,
                   review |-> u.review, by |-> "user"]
           w == Just(o, row)
           new == w ++ own[s]
<1>1. /\ u.at = "stamp" /\ Free(s, {o}) /\ Commit(s, w, Idle)
      /\ u.review = "split" /\ g # None => ~TwoArrivalsOnOneHolding(Sees(s), g)
  BY DEF Stamp
<1>2. u \in AskType /\ o \in Outflows /\ g \in Group /\ u.review \in Reviews
  BY <1>1, OwnRows DEF TaskOK, Asking, AskType
<1>3. DOMAIN w = {o} /\ w[o] = row
  <2> HIDE DEF row, o
  <2>1. QED
    BY JustOne
<1>4. /\ row.group = IF g = None THEN Sees(s)[o].group ELSE g
      /\ row.review = u.review
  OBVIOUS
<1>5. u.at \in ResolveAt /\ u.at \in GroupedAt /\ u.at \notin WithdrawAt
  BY <1>1, ResolvePlaces DEF ResolveAt
<1> HIDE DEF row, w, new
<1>6. /\ \A k \in DOMAIN own[s] \cap Legs :
           /\ k \notin Outflows
           /\ own[s][k] # None => own[s][k].group \in {None, g}
      /\ g # None => \A k \in Legs : db[k] # None => db[k].group # g
      /\ u.review \in Bulk => g = None
      /\ u.review \in {"paired", "internal"} => g # None
      /\ u.review = "paired" => DOMAIN own[s] \cap Arrivals = {}
      /\ g = None => DOMAIN own[s] = {}
      /\ u.claims = <<>> /\ DOMAIN u.into = {}
      /\ \A r \in DOMAIN own[s] \cap Arrivals : r[1] = o /\ own[s][r] # None /\ own[s][r].group = g
  <2>1. Sure(db, own[s], u)
    BY OwnRows
  <2>2. WritesNamed(db, own[s], u) /\ GroupUnused(db, u) /\ AnswerProgress(own[s], u)
    BY <2>1 DEF Sure
  <2> HIDE DEF u
  <2>3. QED
    BY <1>1, <1>5, <2>2 DEF WritesNamed, GroupUnused, AnswerProgress
<1>7. Sees(s)[o] = db[o] /\ db[o] \in OutflowType /\ db[o] # None
  <2>1. o \notin DOMAIN own[s] /\ o \in Keys
    BY <1>2, <1>6, LegKeys
  <2> HIDE DEF u, o
  <2>2. QED
    BY <1>2, <2>1, OwnRows, DbTyped, NotNone DEF WInv
<1>8. /\ DOMAIN new = DOMAIN w \cup DOMAIN own[s] /\ DOMAIN new \subseteq Keys
      /\ \A k \in Keys :
           /\ k \notin DOMAIN new => After(s, w)[k] = db[k]
           /\ k \in DOMAIN w => After(s, w)[k] = w[k] /\ new[k] = w[k]
           /\ k \notin DOMAIN w => After(s, w)[k] = Sees(s)[k]
           /\ k \notin DOMAIN w /\ k \in DOMAIN own[s] => new[k] = own[s][k]
  <2>1. DOMAIN w \subseteq Legs
    BY <1>2, <1>3, LegKeys
  <2> HIDE DEF u, o, g
  <2>2. QED
    BY <2>1, AfterIs DEF new
<1> DEFINE e == After(s, w)
<1>9. \A k \in Keys : k \in DOMAIN own[s] => Sees(s)[k] = own[s][k]
  BY OwnRows
<1>10. o \in Legs /\ o \in Keys /\ o \notin Arrivals /\ o \notin Inflows
  BY <1>2, LegKeys, Kinds
<1>11. e[o] = row
  BY <1>3, <1>8, <1>10
<1>12. ASSUME ~raced, stale[s] = {} PROVE Whole(e) /\ Adds(db, e)
  <2>1. AnswerStands(db, own[s], read[s], u) /\ Whole(db)
    BY <1>12, OwnRows
  <2>2. /\ Pending(db[o]) /\ \A i \in DOMAIN own[s] \cap Inflows : Unlinked(db, i)
        /\ g # None => \E k \in (DOMAIN own[s] \cap Legs) \ Outflows :
                          own[s][k] # None /\ own[s][k].group = g
    <3>1. u.at # "giveBack"
      BY <1>1
    <3>2. u.claims = <<>> /\ DOMAIN u.into = {}
      BY <1>6
    <3> HIDE DEF u
    <3>3. QED
      BY <1>5, <2>1, <3>1, <3>2 DEF AnswerStands
  <2>3. \A h \in Holdings : db[<<o, h>>] = None
    <3>1. db[o].review = None
      BY <2>2 DEF Pending
    <3>2. None \notin {"internal", "split"}
      BY TransferReviewAssumption DEF Reviews
    <3> HIDE DEF o
    <3>3. QED
      BY <1>2, <2>1, <3>1, <3>2 DEF Whole, Answered
  <2> HIDE DEF u, o, g, e
  <2>4. \A k \in DOMAIN new \cap Legs : /\ db[k] # None => db[k].group \in {None, g}
                                        /\ new[k] # None => new[k].group \in {None, g}
    <3> SUFFICES ASSUME NEW k \in DOMAIN new, k \in Legs
                 PROVE  /\ db[k] # None => db[k].group \in {None, g}
                        /\ new[k] # None => new[k].group \in {None, g}
      OBVIOUS
    <3>0. k \in Keys
      BY LegKeys
    <3>1. CASE k = o
      BY <1>3, <1>4, <1>7, <1>8, <2>2, <3>0, <3>1 DEF Pending
    <3>2. CASE k # o
      <4>1. k \in DOMAIN own[s] /\ k \notin DOMAIN w /\ new[k] = own[s][k] /\ k \notin Outflows
        BY <1>3, <1>6, <1>8, <3>0, <3>2
      <4>2. CASE k \in Inflows
        BY <1>6, <2>2, <4>1, <4>2 DEF Unlinked
      <4>3. CASE k \in Arrivals
        <5>1. k[1] = o /\ k = <<k[1], k[2]>> /\ k[2] \in Holdings
          BY <1>6, <4>1, <4>3, LegKeys
        <5>2. db[k] = None
          BY <2>3, <5>1
        <5>3. QED
          BY <1>6, <4>1, <5>2
      <4>4. QED
        BY <4>1, <4>2, <4>3, LegKeys
    <3>3. QED
      BY <3>1, <3>2
  <2>5. ASSUME g \in Groups PROVE WholeGroup(e, g)
    <3>1. g # None
      BY <2>5, TransferReviewAssumption
    <3>2. e[o] # None /\ e[o].group = g
      <4>1. row.group = g /\ row \in OutflowType
        BY <1>2, <1>4, <3>1, <2>5 DEF row, OutflowType
      <4>2. QED
        BY <1>11, <4>1, NotNone
    <3>3. o \in InGroup(e, g)
      BY <1>10, <3>2, InGroupIs
    <3>4. PICK k \in (DOMAIN own[s] \cap Legs) \ Outflows : own[s][k] # None /\ own[s][k].group = g
      BY <2>2, <3>1
    <3>5. k \in Keys /\ k \notin DOMAIN w /\ k \in DOMAIN own[s]
      BY <1>2, <1>3, <3>4, LegKeys
    <3>6. e[k] = own[s][k]
      BY <1>8, <1>9, <3>5 DEF e
    <3>7. k \in InGroup(e, g)
      BY <3>4, <3>6, InGroupIs
    <3>8. \A p \in InGroup(e, g) \cap Outflows : p = o
      <4> SUFFICES ASSUME NEW p \in Outflows, p # o, e[p] # None PROVE e[p].group # g
        BY InGroupIs
      <4>1. p \in Keys /\ p \in Legs /\ p \notin DOMAIN new
        BY <1>3, <1>6, <1>8, LegKeys
      <4>2. e[p] = db[p]
        BY <1>8, <4>1 DEF e
      <4>3. QED
        BY <1>6, <3>1, <4>1, <4>2
    <3>9. \A p \in InGroup(e, g) \ Outflows : p \in InGroup(Sees(s), g) \ Outflows
      <4> SUFFICES ASSUME NEW p \in Legs, p \notin Outflows, e[p] # None, e[p].group = g
                   PROVE  Sees(s)[p] # None /\ Sees(s)[p].group = g
        BY InGroupIs
      <4>1. p \in Keys /\ p \notin DOMAIN w
        BY <1>2, <1>3, LegKeys
      <4>2. QED
        BY <1>8, <4>1 DEF e
    <3>10. u.review = "split" => ~TwoArrivalsOnOneHolding(e, g)
      BY <1>1, <3>1, <3>9 DEF TwoArrivalsOnOneHolding
    <3>11. e[o].review = u.review
      BY <1>4, <1>11 DEF e
    <3>12. QED
      BY <1>2, <3>3, <3>4, <3>7, <3>8, <3>10, <3>11 DEF WholeGroup
  <2>6. \A p \in DOMAIN new \cap Outflows :
          /\ Agrees(new[p])
          /\ \/ new[p] = db[p]
             \/ \A h \in Holdings : db[<<p, h>>] # None => <<p, h>> \in DOMAIN new
    <3>1. \A p \in DOMAIN new \cap Outflows : p = o
      BY <1>3, <1>6, <1>8, LegKeys
    <3>2. Agrees(row)
      <4>1. u.review \in Bulk => row.group = None
        BY <1>4, <1>6, <1>7, <2>2 DEF Pending
      <4>2. u.review \in {"paired", "internal"} => row.group # None
        BY <1>4, <1>6
      <4>3. QED
        BY <1>4, <4>1, <4>2 DEF Agrees
    <3>3. new[o] = row
      BY <1>3, <1>8, <1>10
    <3>4. QED
      BY <2>3, <3>1, <3>2, <3>3
  <2>7. ASSUME NEW p \in Outflows, NEW h \in Holdings, <<p, h>> \in DOMAIN new, new[<<p, h>>] # None
        PROVE  /\ e[p].review \in {"internal", "split"}
               /\ e[p].group = new[<<p, h>>].group
               /\ e[p].group # None
    <3>1. <<p, h>> \in Arrivals /\ <<p, h>> \in Keys
      BY LegKeys
    <3>2. <<p, h>> \notin DOMAIN w
      BY <1>3, <1>10, <3>1
    <3>3. <<p, h>> \in DOMAIN own[s] /\ new[<<p, h>>] = own[s][<<p, h>>]
      BY <1>8, <2>7, <3>1, <3>2
    <3>4. p = o /\ own[s][<<p, h>>].group = g
      BY <1>6, <3>1, <3>3
    <3>5. g # None /\ u.review \in {"internal", "split"}
      BY <1>2, <1>6, <3>1, <3>3 DEF Reviews
    <3>6. e[o].review = u.review /\ e[o].group = g
      BY <1>4, <1>11, <3>5 DEF e
    <3>7. QED
      BY <3>3, <3>4, <3>5, <3>6
  <2>8. e = new ++ db /\ DOMAIN db = Keys /\ None \notin Groups
    BY OwnRows, TransferReviewAssumption DEF After, new, e
  <2>9. Adds(db, e)
    <3> SUFFICES ASSUME NEW p \in Outflows, NEW h \in Holdings, e[<<p, h>>] # None, db[<<p, h>>] = None
                 PROVE  e[p] # db[p]
      BY DEF Adds
    <3>1. <<p, h>> \in Arrivals /\ <<p, h>> \in Keys
      BY LegKeys
    <3>2. <<p, h>> \in DOMAIN new /\ <<p, h>> \notin DOMAIN w
      BY <1>3, <1>8, <1>10, <3>1 DEF e
    <3>3. <<p, h>> \in DOMAIN own[s]
      BY <1>8, <3>2
    <3>4. p = o
      BY <1>6, <3>1, <3>3
    <3>5. e[o].review = u.review /\ u.review # None /\ db[o].review = None
      BY <1>2, <1>4, <1>11, <2>2, TransferReviewAssumption DEF e, Pending
    <3>6. QED
      BY <3>4, <3>5
  <2>10. Whole(e)
    <3> DEFINE f == db
    <3>1. /\ e = new ++ f /\ DOMAIN f = Keys /\ DOMAIN new \subseteq Keys /\ Whole(f)
          /\ None \notin Groups /\ (g \in Groups => WholeGroup(e, g))
      BY <1>8, <2>1, <2>5, <2>8
    <3>2. /\ \A k \in DOMAIN new \cap Legs : /\ f[k] # None => f[k].group \in {None, g}
                                             /\ new[k] # None => new[k].group \in {None, g}
          /\ \A p \in DOMAIN new \cap Outflows :
               /\ Agrees(new[p])
               /\ \/ new[p] = f[p]
                  \/ \A h \in Holdings : f[<<p, h>>] # None => <<p, h>> \in DOMAIN new
      BY <2>4, <2>6
    <3>3. \A p \in Outflows, h \in Holdings :
            <<p, h>> \in DOMAIN new /\ new[<<p, h>>] # None =>
               /\ e[p].review \in {"internal", "split"}
               /\ e[p].group = new[<<p, h>>].group
               /\ e[p].group # None
      BY <2>7
    <3> HIDE DEF f
    <3>4. QED
      BY <3>1, <3>2, <3>3, WholeAfter
  <2>11. QED
    BY <2>9, <2>10
<1>13. ~raced /\ stale[s] = {} => Whole((w ++ own[s]) ++ db) /\ Adds(db, (w ++ own[s]) ++ db)
  BY <1>12 DEF After
<1>14. /\ Free(s, DOMAIN w) /\ DOMAIN w \subseteq Legs
       /\ \A r \in DOMAIN w \cap Arrivals : w[r] # None => Sees(s)[r] # None
       /\ \A k \in DOMAIN w : w[k] # None =>
            \/ w[k].group = None
            \/ task[s].at \in GroupedAt /\ w[k].group = task[s].group
            \/ db[k] # None /\ w[k].group = db[k].group
       /\ \A k \in DOMAIN w \cap Outflows :
            \/ w[k].group \in {None, db[k].group}
            \/ /\ task[s].at \in ResolveAt /\ k = task[s].row /\ w[k].group = task[s].group
  BY <1>1, <1>3, <1>4, <1>5, <1>7, <1>10
<1> HIDE DEF e, u, o, g
<1>15. QED
  BY <1>1, <1>13, <1>14, CommitStands

\* What a withdrawal's session has written of legs.
LEMMA WithdrawalWrites ==
  ASSUME WInv, NEW s \in Sessions, NEW u, u = task[s], u.at \in {"clear", "part"}
  PROVE  /\ u \in ClearType /\ u.row \in Outflows /\ u.group \in Group
         /\ u.at \in WithdrawAt /\ u.at \in GroupedAt
         /\ \A k \in DOMAIN own[s] \cap Legs :
              /\ own[s][k] # None => own[s][k].group \in {None, u.group}
              /\ k \in Outflows => k = u.row /\ own[s][k] = db[k]
         /\ \A o \in Outflows : Sees(s)[o] = db[o] /\ db[o] \in OutflowType /\ db[o] # None
<1>1. u \in ClearType /\ u.row \in Outflows /\ u.group \in Group
  BY OwnRows DEF TaskOK, ClearType
<1>2. u.at \in WithdrawAt /\ u.at \in GroupedAt
  BY WithdrawPlaces DEF WithdrawAt
<1>3. WritesNamed(db, own[s], u)
  BY OwnRows DEF Sure
<1>4. \A k \in DOMAIN own[s] \cap Legs :
              /\ own[s][k] # None => own[s][k].group \in {None, u.group}
              /\ k \in Outflows => k = u.row /\ own[s][k] = db[k]
  BY <1>3 DEF WritesNamed
<1>5. ASSUME NEW o \in Outflows PROVE Sees(s)[o] = db[o] /\ db[o] \in OutflowType /\ db[o] # None
  <2>1. o \in Keys /\ o \in Legs
    BY LegKeys
  <2>2. CASE o \in DOMAIN own[s]
    BY <1>4, <2>1, <2>2, OwnRows, DbTyped, NotNone DEF WInv
  <2>3. CASE o \notin DOMAIN own[s]
    BY <2>1, <2>3, OwnRows, DbTyped, NotNone DEF WInv
  <2>4. QED
    BY <2>2, <2>3
<1>6. QED
  BY <1>1, <1>2, <1>4, <1>5

\* And, while nothing it went by has changed, of the committed rows.
LEMMA WithdrawalSure ==
  ASSUME WInv, NEW s \in Sessions, NEW u, u = task[s], u.at \in {"clear", "part"},
         ~raced, stale[s] = {}
  PROVE  /\ db[u.row].review # None /\ db[u.row].group = u.group
         /\ \A i \in DOMAIN own[s] \cap Inflows : db[i] = None
         /\ \A r \in DOMAIN own[s] \cap Arrivals :
              own[s][r] = None /\ (db[r] # None => db[r].group = u.group)
         /\ Whole(db)
         /\ \A o \in Outflows, h \in Holdings :
              Sees(s)[<<o, h>>] # None => /\ <<o, h>> \notin DOMAIN own[s]
                                          /\ db[<<o, h>>] = Sees(s)[<<o, h>>]
<1>1. WithdrawalStands(db, own[s], read[s], u) /\ Whole(db)
  BY OwnRows
<1>2. u.at \in WithdrawAt
  BY WithdrawalWrites
<1>3. /\ db[u.row].review # None /\ db[u.row].group = u.group
      /\ \A i \in DOMAIN own[s] \cap Inflows : db[i] = None
      /\ \A r \in DOMAIN own[s] \cap Arrivals : r[1] = u.row /\ own[s][r] = None
  BY <1>1, <1>2 DEF WithdrawalStands
<1>4. ASSUME NEW r \in DOMAIN own[s] \cap Arrivals, db[r] # None PROVE db[r].group = u.group
  <2>1. r = <<u.row, r[2]>> /\ r[2] \in Holdings /\ u.row \in Outflows
    BY <1>3, LegKeys
  <2>2. \A h \in Holdings : db[<<u.row, h>>] # None => db[<<u.row, h>>].group = db[u.row].group
    BY <1>1, <2>1 DEF Whole, Answered
  <2>3. QED
    BY <1>3, <1>4, <2>1, <2>2
<1>5. \A o \in Outflows, h \in Holdings :
        Sees(s)[<<o, h>>] # None => /\ <<o, h>> \notin DOMAIN own[s]
                                    /\ db[<<o, h>>] = Sees(s)[<<o, h>>]
  BY <1>3, LegKeys, OwnRows
<1>6. QED
  BY <1>1, <1>3, <1>4, <1>5

LEMMA ClearAnswerStands ==
  ASSUME WInv, IInv', NEW s \in Sessions, ClearAnswer(s)
  PROVE  WInv'
<1> DEFINE u == task[s]
           o == u.row
           g == u.group
           released == ReleaseTransferGroup(Sees(s), g)
           row == (released ++ Sees(s))[o]
           cleared == [row EXCEPT !.review = None, !.by = u.by]
           answer == Just(o, cleared)
           w == answer ++ released
           new == w ++ own[s]
           e == After(s, w)
<1>1. u.at = "clear" /\ Commit(s, w, Start) /\ Free(s, {o} \cup DOMAIN released)
  BY DEF ClearAnswer
<1>2. RowsOK(Sees(s)) /\ DOMAIN Sees(s) = Keys
  BY SeesAll DEF WInv
<1>3. /\ DOMAIN released \subseteq Legs
      /\ \A k \in DOMAIN released :
           /\ g # None /\ Sees(s)[k] # None /\ Sees(s)[k].group = g
           /\ released[k] # None /\ released[k].group = None
           /\ k \in Outflows => released[k].review = Sees(s)[k].review
      /\ \A k \in Legs : k \notin DOMAIN released /\ Sees(s)[k] # None /\ g # None
           => Sees(s)[k].group # g
  BY <1>2, ReleaseIs
<1>4. /\ u \in ClearType /\ o \in Outflows /\ g \in Group
      /\ u.at \in WithdrawAt /\ u.at \in GroupedAt
      /\ \A k \in DOMAIN own[s] \cap Legs :
           /\ own[s][k] # None => own[s][k].group \in {None, g}
           /\ k \in Outflows => k = o /\ own[s][k] = db[k]
      /\ \A p \in Outflows : Sees(s)[p] = db[p] /\ db[p] \in OutflowType /\ db[p] # None
  BY <1>1, WithdrawalWrites
<1>5. /\ RowsOK(released)
      /\ \A p \in Outflows : p \in DOMAIN released => released[p] \in OutflowType
  BY <1>2, ReleaseTyped
<1>6. o \in Keys /\ o \in Legs /\ o \notin Inflows /\ o \notin Arrivals /\ o \notin Holdings
  BY <1>4, LegKeys, Kinds
<1>7. row \in OutflowType /\ row.group \in {None, db[o].group}
      /\ (g # None => row.group # g)
  <2> DEFINE f == Sees(s)
  <2>1. o \in DOMAIN f
    BY <1>2, <1>6
  <2>2. /\ o \in DOMAIN released => row = released[o]
        /\ o \notin DOMAIN released => row = f[o]
    <3> HIDE DEF released, f, o
    <3>1. QED
      BY <2>1, OverAt DEF f
  <2> HIDE DEF released, row, u, o, g
  <2>3. QED
    BY <1>3, <1>4, <1>5, <1>6, <2>2
<1> HIDE DEF released, row
<1>8. /\ cleared \in OutflowType /\ cleared.group = row.group /\ cleared.review = None
      /\ cleared # None
  <2>1. u.by \in {None, "user"}
    BY <1>4 DEF ClearType
  <2> HIDE DEF u
  <2>2. cleared \in OutflowType /\ cleared.group = row.group /\ cleared.review = None
    BY <1>7, <2>1 DEF OutflowType
  <2> HIDE DEF cleared
  <2>3. QED
    BY <2>2, NotNone
<1> HIDE DEF cleared
<1>9. DOMAIN answer = {o} /\ answer[o] = cleared
  <2> HIDE DEF o
  <2>1. QED
    BY JustOne
<1> HIDE DEF answer, w, new, e
<1>10. /\ DOMAIN w = {o} \cup DOMAIN released /\ w[o] = cleared
       /\ \A k \in DOMAIN released : k # o => w[k] = released[k]
  <2>1. /\ DOMAIN w = DOMAIN answer \cup DOMAIN released
        /\ \A k \in DOMAIN answer : w[k] = answer[k]
        /\ \A k \in DOMAIN released : k \notin DOMAIN answer => w[k] = released[k]
    BY OverBoth DEF w
  <2> HIDE DEF o
  <2>2. QED
    BY <1>9, <2>1
<1> HIDE DEF u, o, g
<1>11. DOMAIN w \subseteq Legs
  BY <1>3, <1>6, <1>10
<1>12. /\ DOMAIN new = DOMAIN w \cup DOMAIN own[s] /\ DOMAIN new \subseteq Keys
       /\ \A k \in Keys :
            /\ k \notin DOMAIN new => e[k] = db[k]
            /\ k \in DOMAIN w => e[k] = w[k] /\ new[k] = w[k]
            /\ k \notin DOMAIN w => e[k] = Sees(s)[k]
            /\ k \notin DOMAIN w /\ k \in DOMAIN own[s] => new[k] = own[s][k]
  BY <1>11, AfterIs DEF new, e
<1>13. \A k \in Keys : /\ k \in DOMAIN own[s] => Sees(s)[k] = own[s][k]
                       /\ k \notin DOMAIN own[s] => Sees(s)[k] = db[k]
  BY OwnRows
<1>14. ASSUME ~raced, stale[s] = {} PROVE Whole(e) /\ Adds(db, e)
  <2>1. /\ db[o].review # None /\ db[o].group = g
        /\ \A i \in DOMAIN own[s] \cap Inflows : db[i] = None
        /\ \A r \in DOMAIN own[s] \cap Arrivals :
             own[s][r] = None /\ (db[r] # None => db[r].group = g)
        /\ Whole(db)
        /\ \A p \in Outflows, h \in Holdings :
             Sees(s)[<<p, h>>] # None => /\ <<p, h>> \notin DOMAIN own[s]
                                         /\ db[<<p, h>>] = Sees(s)[<<p, h>>]
    BY <1>1, <1>14, WithdrawalSure DEF u, o, g
  <2>2. \A h \in Holdings : Sees(s)[<<o, h>>] = None
    <3>1. WithdrawalStands(db, own[s], read[s], u)
      BY <1>14, OwnRows DEF u
    <3>2. u.at # "withdraw" /\ ~IsPart(u)
      BY <1>1 DEF IsPart
    <3>3. QED
      BY <1>1, <1>4, <3>1, <3>2 DEF WithdrawalStands, Sees, o
  <2>3. \A p \in Outflows : p \in DOMAIN released => p = o
    <3>1. \A p \in Outflows : p \in DOMAIN released => g # None /\ db[p].group = g
      BY <1>3, <1>4
    <3>2. OneDeparture(db)
      BY DEF WInv, Always
    <3>3. QED
      BY <1>4, <2>1, <3>1, <3>2 DEF OneDeparture
  <2>4. \A p \in Outflows, h \in Holdings : <<p, h>> \notin DOMAIN w
    <3> SUFFICES ASSUME NEW p \in Outflows, NEW h \in Holdings, <<p, h>> \in DOMAIN w PROVE FALSE
      OBVIOUS
    <3>1. <<p, h>> \in Arrivals /\ <<p, h>> \in DOMAIN released
      BY <1>6, <1>10, LegKeys
    <3>2. g # None /\ Sees(s)[<<p, h>>] # None /\ Sees(s)[<<p, h>>].group = g
      BY <1>3, <3>1
    <3>3. db[<<p, h>>] # None /\ db[<<p, h>>].group = g
      BY <2>1, <3>2
    <3>4. db[p].group = g
      BY <2>1, <3>3 DEF Whole, Answered
    <3>5. p = o
      BY <1>4, <2>1, <3>2, <3>4 DEF WInv, Always, OneDeparture
    <3>6. QED
      BY <2>2, <3>2, <3>5
  <2>5. \A k \in DOMAIN new \cap Legs : /\ db[k] # None => db[k].group \in {None, g}
                                        /\ new[k] # None => new[k].group \in {None, g}
    <3> SUFFICES ASSUME NEW k \in DOMAIN new, k \in Legs
                 PROVE  /\ db[k] # None => db[k].group \in {None, g}
                        /\ new[k] # None => new[k].group \in {None, g}
      OBVIOUS
    <3>0. k \in Keys
      BY LegKeys
    <3>1. CASE k = o
      BY <1>7, <1>8, <1>10, <1>12, <2>1, <3>0, <3>1
    <3>2. CASE k # o /\ k \in DOMAIN w
      <4>1. /\ k \in DOMAIN released /\ new[k] = released[k] /\ released[k].group = None
            /\ Sees(s)[k].group = g /\ Sees(s)[k] # None
        BY <1>3, <1>10, <1>12, <3>0, <3>2
      <4>2. CASE k \in DOMAIN own[s]
        BY <1>4, <2>1, <3>2, <4>1, <4>2, LegKeys
      <4>3. CASE k \notin DOMAIN own[s]
        BY <1>13, <3>0, <4>1, <4>3
      <4>4. QED
        BY <4>2, <4>3, <4>1
    <3>3. CASE k # o /\ k \notin DOMAIN w
      <4>1. k \in DOMAIN own[s] /\ new[k] = own[s][k]
        BY <1>12, <3>0, <3>3
      <4>2. QED
        BY <1>4, <2>1, <3>3, <4>1, LegKeys
    <3>4. QED
      BY <3>1, <3>2, <3>3
  <2>6. ASSUME g \in Groups PROVE WholeGroup(e, g)
    <3>1. g # None
      BY <2>6, TransferReviewAssumption
    <3>2. ASSUME NEW k \in Legs, e[k] # None PROVE e[k].group # g
      <4>1. k \in Keys
        BY LegKeys
      <4>2. CASE k = o
        BY <1>7, <1>8, <1>10, <1>12, <3>1, <4>1, <4>2
      <4>3. CASE k # o /\ k \in DOMAIN w
        BY <1>3, <1>10, <1>12, <3>1, <4>1, <4>3
      <4>4. CASE k \notin DOMAIN w
        <5>1. e[k] = Sees(s)[k] /\ k \notin DOMAIN released
          BY <1>10, <1>12, <4>1, <4>4
        <5>2. QED
          BY <1>3, <3>1, <3>2, <5>1
      <4>5. QED
        BY <4>2, <4>3, <4>4
    <3>3. QED
      BY <3>2, EmptyGroup
  <2>7. ASSUME NEW p \in DOMAIN new \cap Outflows
        PROVE  /\ Agrees(new[p])
               /\ \/ new[p] = db[p]
                  \/ \A h \in Holdings : db[<<p, h>>] # None => <<p, h>> \in DOMAIN new
    <3>1. p = o
      BY <1>4, <1>10, <1>12, <2>3, <2>7, LegKeys
    <3>2. new[o] = cleared
      BY <1>6, <1>10, <1>12
    <3>3. Agrees(cleared)
      BY <1>8, TransferReviewAssumption DEF Agrees, Reviews
    <3>4. ASSUME NEW h \in Holdings, db[<<o, h>>] # None PROVE <<o, h>> \in DOMAIN new
      <4>1. <<o, h>> \in Keys
        BY <1>4, LegKeys
      <4>2. <<o, h>> \in DOMAIN own[s]
        BY <1>13, <2>2, <3>4, <4>1
      <4>3. QED
        BY <1>12, <4>2
    <3>5. QED
      BY <3>1, <3>2, <3>3, <3>4
  <2>8. ASSUME NEW p \in Outflows, NEW h \in Holdings PROVE <<p, h>> \in DOMAIN new => new[<<p, h>>] = None
    <3>1. <<p, h>> \in Arrivals /\ <<p, h>> \in Keys /\ <<p, h>> \notin DOMAIN w
      BY <2>4, LegKeys
    <3>2. QED
      BY <1>12, <2>1, <3>1
  <2>9. ASSUME NEW p \in Outflows, NEW h \in Holdings, e[<<p, h>>] # None PROVE db[<<p, h>>] # None
    <3>1. <<p, h>> \in Keys /\ <<p, h>> \notin DOMAIN w
      BY <2>4, LegKeys
    <3>2. e[<<p, h>>] = Sees(s)[<<p, h>>]
      BY <1>12, <3>1
    <3>3. QED
      BY <2>1, <2>9, <3>2
  <2>10. Adds(db, e)
    BY <2>9 DEF Adds
  <2>11. e = new ++ db /\ DOMAIN db = Keys /\ None \notin Groups
    BY OwnRows, TransferReviewAssumption DEF After, new, e
  <2>12. Whole(e)
    <3> DEFINE f == db
    <3>1. /\ e = new ++ f /\ DOMAIN f = Keys /\ DOMAIN new \subseteq Keys /\ Whole(f)
          /\ None \notin Groups /\ (g \in Groups => WholeGroup(e, g))
      BY <1>12, <2>1, <2>6, <2>11
    <3>2. /\ \A k \in DOMAIN new \cap Legs : /\ f[k] # None => f[k].group \in {None, g}
                                             /\ new[k] # None => new[k].group \in {None, g}
          /\ \A p \in DOMAIN new \cap Outflows :
               /\ Agrees(new[p])
               /\ \/ new[p] = f[p]
                  \/ \A h \in Holdings : f[<<p, h>>] # None => <<p, h>> \in DOMAIN new
      BY <2>5, <2>7
    <3>3. \A p \in Outflows, h \in Holdings : <<p, h>> \in DOMAIN new => new[<<p, h>>] = None
      BY <2>8
    <3> HIDE DEF f
    <3>4. QED
      BY <3>1, <3>2, <3>3, WholeAfter
  <2>13. QED
    BY <2>10, <2>12
<1>15. ~raced /\ stale[s] = {} => Whole((w ++ own[s]) ++ db) /\ Adds(db, (w ++ own[s]) ++ db)
  BY <1>14 DEF After, e
<1>16. /\ Free(s, DOMAIN w) /\ Commit(s, w, Start)
       /\ \A r \in DOMAIN w \cap Arrivals : w[r] # None => Sees(s)[r] # None
       /\ \A k \in DOMAIN w : w[k] # None =>
            \/ w[k].group = None
            \/ task[s].at \in GroupedAt /\ w[k].group = task[s].group
            \/ db[k] # None /\ w[k].group = db[k].group
       /\ \A k \in DOMAIN w \cap Outflows :
            \/ w[k].group \in {None, db[k].group}
            \/ /\ task[s].at \in ResolveAt /\ k = task[s].row /\ w[k].group = task[s].group
  <2>1. Free(s, DOMAIN w) /\ Commit(s, w, Start)
    BY <1>1, <1>10
  <2>2. \A r \in DOMAIN w \cap Arrivals : Sees(s)[r] # None
    BY <1>3, <1>6, <1>10
  <2>3. ASSUME NEW k \in DOMAIN w PROVE w[k].group = None \/ (k = o /\ w[k].group = db[o].group)
    BY <1>3, <1>7, <1>8, <1>10
  <2>4. QED
    BY <1>4, <2>1, <2>2, <2>3
<1>17. QED
  BY <1>11, <1>15, <1>16, CommitStands

LEMMA ClaimPartStands ==
  ASSUME WInv, IInv', NEW s \in Sessions, ClaimPart(s)
  PROVE  WInv'
<1> DEFINE u == task[s]
           o == u.row
           g == u.group
           i == u.claim
           w == IF i = None THEN <<>> ELSE Just(i, [group |-> g])
           new == w ++ own[s]
           e == After(s, w)
<1>1. /\ u.at = "part" /\ Commit(s, w, Idle) /\ Free(s, DOMAIN w)
      /\ \A k \in DOMAIN w : Sees(s)[k] = [group |-> None]
      /\ ~TwoArrivalsOnOneHolding(w ++ Sees(s), g)
  BY DEF ClaimPart
<1>2. /\ u \in ClearType /\ o \in Outflows /\ g \in Group
      /\ u.at \in WithdrawAt /\ u.at \in GroupedAt
      /\ \A k \in DOMAIN own[s] \cap Legs :
           /\ own[s][k] # None => own[s][k].group \in {None, g}
           /\ k \in Outflows => k = o /\ own[s][k] = db[k]
      /\ \A p \in Outflows : Sees(s)[p] = db[p] /\ db[p] \in OutflowType /\ db[p] # None
  BY <1>1, WithdrawalWrites
<1>3. i \in Inflows \cup {None}
  BY <1>2 DEF ClearType
<1>4. /\ DOMAIN w \subseteq Inflows
      /\ \A k \in DOMAIN w : w[k] = [group |-> g] /\ w[k].group = g
  <2>1. CASE i = None
    BY <2>1, EmptyDomain
  <2>2. CASE i # None
    <3> DEFINE row == [group |-> g]
    <3>1. row.group = g
      OBVIOUS
    <3> HIDE DEF row
    <3>2. DOMAIN Just(i, row) = {i} /\ Just(i, row)[i] = row
      <4> HIDE DEF i
      <4>1. QED
        BY JustOne
    <3>3. w = Just(i, row)
      BY <2>2 DEF row
    <3>4. DOMAIN w = {i} /\ w[i] = row /\ i \in Inflows
      BY <1>3, <2>2, <3>2, <3>3
    <3> HIDE DEF w, i, u
    <3>5. QED
      BY <3>1, <3>4 DEF row
  <2>3. QED
    BY <2>1, <2>2
<1> HIDE DEF u, o, g, i, w, new, e
<1>5. DOMAIN w \subseteq Legs /\ \A k \in DOMAIN w : k \notin Outflows /\ k \notin Arrivals
  BY <1>4, LegKeys, Kinds
<1>6. /\ DOMAIN new = DOMAIN w \cup DOMAIN own[s] /\ DOMAIN new \subseteq Keys
      /\ \A k \in Keys :
           /\ k \notin DOMAIN new => e[k] = db[k]
           /\ k \in DOMAIN w => e[k] = w[k] /\ new[k] = w[k]
           /\ k \notin DOMAIN w => e[k] = Sees(s)[k]
           /\ k \notin DOMAIN w /\ k \in DOMAIN own[s] => new[k] = own[s][k]
  BY <1>5, AfterIs DEF new, e
<1>7. /\ DOMAIN Sees(s) = Keys
      /\ \A k \in Keys : /\ k \in DOMAIN own[s] => Sees(s)[k] = own[s][k]
                         /\ k \notin DOMAIN own[s] => Sees(s)[k] = db[k]
  BY OwnRows, SeesAll DEF WInv
<1>8. ASSUME ~raced, stale[s] = {} PROVE Whole(e) /\ Adds(db, e)
  <2>1. /\ db[o].review # None /\ db[o].group = g
        /\ \A j \in DOMAIN own[s] \cap Inflows : db[j] = None
        /\ \A r \in DOMAIN own[s] \cap Arrivals :
             own[s][r] = None /\ (db[r] # None => db[r].group = g)
        /\ Whole(db)
        /\ \A p \in Outflows, h \in Holdings :
             Sees(s)[<<p, h>>] # None => /\ <<p, h>> \notin DOMAIN own[s]
                                         /\ db[<<p, h>>] = Sees(s)[<<p, h>>]
    BY <1>1, <1>8, WithdrawalSure DEF u, o, g
  <2>2. PICK there \in Legs \ Outflows : /\ there \notin DOMAIN own[s] /\ db[there] # None
                                         /\ db[there].group = g /\ g # None
    <3>1. WithdrawalStands(db, own[s], read[s], u) /\ IsPart(u)
      BY <1>1, <1>8, OwnRows DEF u, IsPart
    <3>2. QED
      BY <1>2, <3>1 DEF WithdrawalStands, g
  <2>3. there \in Keys /\ there \notin DOMAIN w /\ e[there] = db[there]
    <3>1. there \in Keys
      BY LegKeys
    <3>2. Sees(s)[there] = db[there]
      BY <1>7, <2>2, <3>1
    <3>3. there \notin DOMAIN w
      <4>1. there \in DOMAIN w => Sees(s)[there].group = None
        BY <1>1
      <4>2. QED
        BY <2>2, <3>2, <4>1
    <3>4. QED
      BY <1>6, <3>1, <3>2, <3>3
  <2>4. \A k \in DOMAIN new \cap Legs : /\ db[k] # None => db[k].group \in {None, g}
                                        /\ new[k] # None => new[k].group \in {None, g}
    <3> SUFFICES ASSUME NEW k \in DOMAIN new, k \in Legs
                 PROVE  /\ db[k] # None => db[k].group \in {None, g}
                        /\ new[k] # None => new[k].group \in {None, g}
      OBVIOUS
    <3>0. k \in Keys
      BY LegKeys
    <3>1. CASE k \in DOMAIN w
      <4>1. new[k].group = g /\ Sees(s)[k].group = None /\ k \in Inflows
        BY <1>1, <1>4, <1>6, <3>0, <3>1
      <4>2. QED
        BY <1>7, <2>1, <3>0, <4>1
    <3>2. CASE k \notin DOMAIN w
      <4>1. k \in DOMAIN own[s] /\ new[k] = own[s][k]
        BY <1>6, <3>0, <3>2
      <4>2. QED
        BY <1>2, <2>1, <4>1, LegKeys
    <3>3. QED
      BY <3>1, <3>2
  <2>5. WholeGroup(e, g)
    <3>1. e[o] = db[o] /\ o \in Legs
      BY <1>2, <1>5, <1>6, LegKeys
    <3>2. o \in InGroup(e, g)
      BY <1>2, <2>1, <3>1, InGroupIs
    <3>5. there \in InGroup(e, g) /\ there \notin Outflows
      BY <2>2, <2>3, InGroupIs
    <3>6. \A k \in Keys : e[k] = (w ++ Sees(s))[k]
      <4> SUFFICES ASSUME NEW k \in Keys PROVE e[k] = (w ++ Sees(s))[k]
        OBVIOUS
      <4> DEFINE f == Sees(s)
      <4>1. /\ k \in DOMAIN f
            /\ k \in DOMAIN w => e[k] = w[k]
            /\ k \notin DOMAIN w => e[k] = f[k]
        BY <1>6, <1>7
      <4> HIDE DEF f
      <4>2. e[k] = (w ++ f)[k]
        BY <4>1, OverAt
      <4>3. QED
        BY <4>2 DEF f
    <3>7. InGroup(e, g) = InGroup(w ++ Sees(s), g)
      <4> DEFINE f == w ++ Sees(s)
      <4>1. \A k \in Legs : e[k] = f[k]
        BY <3>6, LegKeys
      <4> HIDE DEF f
      <4>2. InGroup(e, g) = InGroup(f, g)
        BY ONLY <4>1 DEF InGroup
      <4>3. QED
        BY <4>2 DEF f
    <3>8. ~TwoArrivalsOnOneHolding(e, g)
      BY <1>1, <3>7 DEF TwoArrivalsOnOneHolding
    <3>9. QED
      BY <1>2, <3>2, <3>5, <3>8 DEF WholeGroup
  <2>6. ASSUME NEW p \in DOMAIN new \cap Outflows PROVE Agrees(new[p]) /\ new[p] = db[p]
    <3>1. p \in Keys /\ p \in Legs /\ p \notin DOMAIN w
      BY <1>5, LegKeys
    <3>2. new[p] = db[p]
      BY <1>2, <1>6, <2>6, <3>1
    <3>3. QED
      BY <2>1, <3>2 DEF Whole
  <2>7. ASSUME NEW p \in Outflows, NEW q \in Holdings
        PROVE  /\ <<p, q>> \in DOMAIN new => new[<<p, q>>] = None
               /\ e[<<p, q>>] # None => db[<<p, q>>] # None
    <3>1. <<p, q>> \in Arrivals /\ <<p, q>> \in Keys /\ <<p, q>> \notin DOMAIN w
      BY <1>5, LegKeys
    <3>2. <<p, q>> \in DOMAIN new => new[<<p, q>>] = None
      BY <1>6, <2>1, <3>1
    <3>3. e[<<p, q>>] = Sees(s)[<<p, q>>]
      BY <1>6, <3>1
    <3>4. QED
      BY <2>1, <3>2, <3>3
  <2>8. Adds(db, e)
    BY <2>7 DEF Adds
  <2>9. e = new ++ db /\ DOMAIN db = Keys /\ None \notin Groups
    BY OwnRows, TransferReviewAssumption DEF After, new, e
  <2>10. Whole(e)
    <3> DEFINE f == db
    <3>1. /\ e = new ++ f /\ DOMAIN f = Keys /\ DOMAIN new \subseteq Keys /\ Whole(f)
          /\ None \notin Groups /\ WholeGroup(e, g)
      BY <1>6, <2>1, <2>5, <2>9
    <3>2. /\ \A k \in DOMAIN new \cap Legs : /\ f[k] # None => f[k].group \in {None, g}
                                             /\ new[k] # None => new[k].group \in {None, g}
          /\ \A p \in DOMAIN new \cap Outflows : Agrees(new[p]) /\ new[p] = f[p]
      BY <2>4, <2>6
    <3>3. \A p \in Outflows, q \in Holdings : <<p, q>> \in DOMAIN new => new[<<p, q>>] = None
      BY <2>7
    <3> HIDE DEF f
    <3>4. QED
      BY <3>1, <3>2, <3>3, WholeAfter
  <2>11. QED
    BY <2>8, <2>10
<1>9. ~raced /\ stale[s] = {} => Whole((w ++ own[s]) ++ db) /\ Adds(db, (w ++ own[s]) ++ db)
  BY <1>8 DEF After, e
<1>10. \A k \in DOMAIN w : task[s].at \in GroupedAt /\ w[k].group = task[s].group
  BY <1>2, <1>4 DEF u, g
<1>11. DOMAIN w \cap Outflows = {} /\ DOMAIN w \cap Arrivals = {}
  BY <1>5
<1>12. QED
  BY <1>1, <1>5, <1>9, <1>10, <1>11, CommitStands

\* A call that has written nothing of legs yet.
LEMMA NoLegsWritten ==
  ASSUME WInv, NEW s \in Sessions, task[s].at \in {"unlink", "bulk", "mark"}
  PROVE  /\ \A k \in Legs : k \notin DOMAIN own[s] /\ Sees(s)[k] = db[k]
         /\ \A o \in Outflows : db[o] \in OutflowType /\ db[o] # None
         /\ OneDeparture(db)
<1>1. WritesNamed(db, own[s], task[s])
  BY OwnRows DEF Sure
<1>2. task[s].at \notin ResolveAt \cup WithdrawAt
  BY DEF ResolveAt, WithdrawAt
<1>3. ASSUME NEW k \in Legs PROVE k \notin DOMAIN own[s] /\ Sees(s)[k] = db[k]
  <2>1. k \notin DOMAIN own[s]
    BY <1>1, <1>2 DEF WritesNamed
  <2>2. QED
    BY <2>1, OwnRows, LegKeys
<1>4. QED
  BY <1>3, DbTyped, NotNone DEF WInv, Always

\* Such a call writes legs it puts in no group: nothing becomes half.
LEMMA FreeingStands ==
  ASSUME WInv, IInv', NEW s \in Sessions, task[s].at \in {"unlink", "bulk", "mark"},
         NEW t, t \in {Idle, Start}, NEW w, Commit(s, w, t), Free(s, DOMAIN w),
         DOMAIN w \subseteq Legs, NEW g,
         \A k \in DOMAIN w : /\ db[k] # None /\ w[k] # None
                             /\ w[k].group = None \/ w[k].group = db[k].group,
         ~raced /\ stale[s] = {} =>
           /\ \A k \in DOMAIN w : db[k].group = g /\ w[k].group = None
           /\ g # None => \A k \in Legs : k \notin DOMAIN w /\ db[k] # None => db[k].group # g
           /\ \A o \in DOMAIN w \cap Outflows :
                Agrees(w[o]) /\ db[o].review \notin {"internal", "split"}
           /\ \A o \in Outflows, h \in Holdings :
                <<o, h>> \in DOMAIN w => db[o].review \notin {"internal", "split"}
  PROVE  WInv'
<1> DEFINE new == w ++ own[s]
           e == After(s, w)
<1>0. DOMAIN w \subseteq Legs
  OBVIOUS
<1> HIDE DEF new, e
<1>1. /\ \A k \in Legs : k \notin DOMAIN own[s] /\ Sees(s)[k] = db[k]
      /\ \A o \in Outflows : db[o] \in OutflowType /\ db[o] # None
  BY NoLegsWritten
<1>2. /\ DOMAIN new = DOMAIN w \cup DOMAIN own[s] /\ DOMAIN new \subseteq Keys
      /\ \A k \in Keys :
           /\ k \notin DOMAIN new => e[k] = db[k]
           /\ k \in DOMAIN w => e[k] = w[k] /\ new[k] = w[k]
           /\ k \notin DOMAIN w => e[k] = Sees(s)[k]
           /\ k \notin DOMAIN w /\ k \in DOMAIN own[s] => new[k] = own[s][k]
  <2>1. WInv /\ s \in Sessions /\ DOMAIN w \subseteq Legs
    BY <1>0
  <2>2. QED
    BY ONLY <2>1, AfterIs DEF new, e
<1>3. ASSUME ~raced, stale[s] = {} PROVE Whole(e) /\ Adds(db, e)
  <2>1. Whole(db) /\ Answered(db)
    BY <1>3, OwnRows DEF Whole
  <2>2. \A k \in DOMAIN new \cap Legs :
          k \in DOMAIN w /\ k \in Keys /\ new[k] = w[k] /\ db[k].group = g /\ w[k].group = None
    BY <1>1, <1>2, <1>3, LegKeys
  <2>3. \A o \in Outflows, h \in Holdings : <<o, h>> \notin DOMAIN new
    <3> SUFFICES ASSUME NEW o \in Outflows, NEW h \in Holdings, <<o, h>> \in DOMAIN new PROVE FALSE
      OBVIOUS
    <3>1. <<o, h>> \in DOMAIN w /\ db[<<o, h>>] # None
      BY <2>2, LegKeys
    <3>2. QED
      BY <1>3, <2>1, <3>1 DEF Answered
  <2>4. ASSUME NEW o \in DOMAIN new \cap Outflows
        PROVE  Agrees(new[o]) /\ \A h \in Holdings : db[<<o, h>>] = None
    <3>1. o \in DOMAIN w /\ new[o] = w[o]
      BY <2>2, LegKeys
    <3>2. QED
      BY <1>3, <2>1, <3>1 DEF Answered
  <2>5. ASSUME g \in Groups PROVE WholeGroup(e, g)
    <3>1. g # None
      BY <2>5, TransferReviewAssumption
    <3>2. ASSUME NEW k \in Legs, e[k] # None PROVE e[k].group # g
      <4>1. k \in Keys
        BY LegKeys
      <4>2. CASE k \in DOMAIN w
        BY <1>2, <1>3, <3>1, <4>1, <4>2
      <4>3. CASE k \notin DOMAIN w
        BY <1>1, <1>2, <1>3, <3>1, <3>2, <4>1, <4>3
      <4>4. QED
        BY <4>2, <4>3
    <3>3. QED
      BY <3>2, EmptyGroup
  <2>6. \A o \in Outflows, h \in Holdings : e[<<o, h>>] = db[<<o, h>>]
    BY <1>2, <2>3, LegKeys
  <2>7. Adds(db, e)
    BY <2>6 DEF Adds
  <2>8. Whole(e)
    <3> DEFINE f == db
    <3>1. /\ e = new ++ f /\ DOMAIN f = Keys /\ DOMAIN new \subseteq Keys /\ Whole(f)
          /\ None \notin Groups /\ (g \in Groups => WholeGroup(e, g))
      BY <1>2, <2>1, <2>5, OwnRows, TransferReviewAssumption DEF After, new, e
    <3>2. /\ \A k \in DOMAIN new \cap Legs : /\ f[k] # None => f[k].group \in {None, g}
                                             /\ new[k] # None => new[k].group \in {None, g}
          /\ \A p \in DOMAIN new \cap Outflows :
               Agrees(new[p]) /\ \A h \in Holdings : f[<<p, h>>] # None => <<p, h>> \in DOMAIN new
      BY <2>2, <2>4
    <3>3. \A p \in Outflows, h \in Holdings : <<p, h>> \notin DOMAIN new
      BY <2>3
    <3> HIDE DEF f
    <3>4. QED
      BY <3>1, <3>2, <3>3, WholeAfter
  <2>9. QED
    BY <2>7, <2>8
<1>4. ~raced /\ stale[s] = {} => Whole((w ++ own[s]) ++ db) /\ Adds(db, (w ++ own[s]) ++ db)
  BY <1>3 DEF After, e
<1>5. /\ \A r \in DOMAIN w \cap Arrivals : Sees(s)[r] # None
      /\ \A k \in DOMAIN w : \/ w[k].group = None
                             \/ db[k] # None /\ w[k].group = db[k].group
      /\ \A k \in DOMAIN w \cap Outflows : w[k].group \in {None, db[k].group}
  BY <1>1, LegKeys
<1>6. QED
  BY <1>4, <1>5, CommitStands

LEMMA UnlinkWritesStands ==
  ASSUME WInv, IInv', NEW s \in Sessions, UnlinkWrites(s)
  PROVE  WInv'
<1> DEFINE u == task[s]
           g == u.group
           w == ReleaseTransferGroup(Sees(s), g)
<1>1. u.at = "unlink" /\ Commit(s, w, Start) /\ Free(s, DOMAIN w)
  BY DEF UnlinkWrites
<1>2. RowsOK(Sees(s)) /\ DOMAIN Sees(s) = Keys
  BY SeesAll DEF WInv
<1>3. /\ DOMAIN w \subseteq Legs
      /\ \A k \in DOMAIN w :
           /\ g # None /\ Sees(s)[k] # None /\ Sees(s)[k].group = g
           /\ w[k] # None /\ w[k].group = None
           /\ k \in Outflows => w[k].review = Sees(s)[k].review
      /\ \A k \in Legs : k \notin DOMAIN w /\ Sees(s)[k] # None /\ g # None => Sees(s)[k].group # g
  BY <1>2, ReleaseIs
<1>4. task[s].at \in {"unlink", "bulk", "mark"}
  BY <1>1
<1>5. /\ \A k \in Legs : Sees(s)[k] = db[k]
      /\ \A o \in Outflows : db[o] # None
      /\ OneDeparture(db)
  BY <1>4, NoLegsWritten
<1> HIDE DEF u, g, w
<1>6. \A k \in DOMAIN w : /\ db[k] # None /\ w[k] # None /\ db[k].group = g /\ w[k].group = None
                          /\ k \in Outflows => w[k].review = db[k].review
  BY <1>3, <1>5
<1>7. g # None => \A k \in Legs : k \notin DOMAIN w /\ db[k] # None => db[k].group # g
  BY <1>3, <1>5
<1>8. ASSUME ~raced, stale[s] = {}
      PROVE  /\ \A o \in DOMAIN w \cap Outflows :
                  Agrees(w[o]) /\ db[o].review \notin {"internal", "split"}
             /\ \A o \in Outflows, h \in Holdings :
                  <<o, h>> \in DOMAIN w => db[o].review \notin {"internal", "split"}
  <2>1. PICK p \in Outflows : db[p].group = g /\ db[p].review = None /\ g # None
    <3>1. UnlinkStands(db, read[s], u)
      BY <1>8, OwnRows DEF u
    <3>2. QED
      BY <1>1, <3>1 DEF UnlinkStands, g
  <2>2. \A o \in Outflows : db[o].group = g => o = p
    BY <1>5, <2>1 DEF OneDeparture
  <2>3. Answered(db)
    BY <1>8, OwnRows DEF Whole
  <2>4. ASSUME NEW o \in DOMAIN w \cap Outflows
        PROVE  Agrees(w[o]) /\ db[o].review \notin {"internal", "split"}
    <3>1. w[o].review = None /\ db[o].review = None
      BY <1>6, <2>1, <2>2
    <3>2. QED
      BY <3>1, TransferReviewAssumption DEF Agrees, Reviews
  <2>5. ASSUME NEW o \in Outflows, NEW h \in Holdings, <<o, h>> \in DOMAIN w
        PROVE  db[o].review \notin {"internal", "split"}
    <3>1. db[o].group = g
      BY <1>6, <2>3, <2>5 DEF Answered
    <3>2. QED
      BY <2>1, <2>2, <3>1, TransferReviewAssumption DEF Reviews
  <2>6. QED
    BY <2>4, <2>5
<1>9. QED
  BY <1>1, <1>3, <1>4, <1>6, <1>7, <1>8, FreeingStands

LEMMA BulkWritesStands ==
  ASSUME WInv, IInv', NEW s \in Sessions, BulkWrites(s)
  PROVE  WInv'
<1> DEFINE u == task[s]
           w == [o \in u.rows |-> [Sees(s)[o] EXCEPT !.review = u.review,
                                    !.by = IF u.review = None THEN None ELSE "user"]]
<1>1. u.at = "bulk" /\ Commit(s, w, Start) /\ Free(s, u.rows)
  BY DEF BulkWrites
<1>2. u.rows \subseteq Outflows /\ u.review \in Bulk \cup {None}
  BY <1>1, OwnRows DEF TaskOK, BulkType
<1>3. task[s].at \in {"unlink", "bulk", "mark"}
  BY <1>1
<1>4. /\ \A k \in Legs : Sees(s)[k] = db[k]
      /\ \A o \in Outflows : db[o] \in OutflowType /\ db[o] # None
  BY <1>3, NoLegsWritten
<1>5. DOMAIN w = u.rows
  OBVIOUS
<1>6. ASSUME NEW o \in u.rows
      PROVE  w[o] # None /\ w[o].group = db[o].group /\ w[o].review = u.review
  <2>1. Sees(s)[o] \in OutflowType /\ Sees(s)[o] = db[o]
    BY <1>2, <1>4, LegKeys
  <2>2. w[o] = [Sees(s)[o] EXCEPT !.review = u.review,
                                 !.by = IF u.review = None THEN None ELSE "user"]
    OBVIOUS
  <2>3. u.review \in Reviews \cup {None}
    BY <1>2 DEF Reviews
  <2> HIDE DEF w, u
  <2>4. w[o] \in OutflowType /\ w[o].group = db[o].group /\ w[o].review = u.review
    BY <2>1, <2>2, <2>3 DEF OutflowType
  <2>5. QED
    BY <2>4, NotNone
<1> HIDE DEF w, u
<1>7. ASSUME ~raced, stale[s] = {}, NEW o \in u.rows
      PROVE  /\ db[o].group = None /\ Agrees(w[o]) /\ db[o].review \notin {"internal", "split"}
  <2>1. BulkStands(db, read[s], u)
    BY <1>7, OwnRows DEF u
  <2>2. db[o].group = None /\ db[o].review \in Bulk \cup {None}
    BY <1>1, <2>1 DEF BulkStands
  <2>3. None \notin {"internal", "split", "paired"}
    BY TransferReviewAssumption DEF Reviews
  <2>4. QED
    BY <1>2, <1>6, <2>2, <2>3 DEF Agrees, Bulk
<1>8. /\ DOMAIN w \subseteq Legs /\ Free(s, DOMAIN w)
      /\ \A o \in Outflows, h \in Holdings : <<o, h>> \notin DOMAIN w
  BY <1>1, <1>2, <1>5, LegKeys, Kinds
<1>9. /\ \A k \in DOMAIN w : /\ db[k] # None /\ w[k] # None /\ w[k].group = db[k].group
      /\ ~raced /\ stale[s] = {} =>
           /\ \A k \in DOMAIN w : db[k].group = None /\ w[k].group = None
           /\ \A o \in DOMAIN w \cap Outflows :
                Agrees(w[o]) /\ db[o].review \notin {"internal", "split"}
  BY <1>2, <1>4, <1>5, <1>6, <1>7
<1> DEFINE g == None
<1>10. g = None
  OBVIOUS
<1> HIDE DEF g
<1>11. QED
  BY <1>1, <1>3, <1>8, <1>9, <1>10, FreeingStands

LEMMA MarksWriteStands ==
  ASSUME WInv, IInv', NEW s \in Sessions, MarksWrite(s)
  PROVE  WInv'
<1> DEFINE u == task[s]
           rows == {o \in u.rows : RuleWritable(Sees(s)[o])}
           w == [o \in rows |-> [group |-> None, review |-> "left_control", by |-> "rule"]]
<1>1. u.at = "mark" /\ Commit(s, w, Idle) /\ Free(s, rows)
  BY DEF MarksWrite
<1>2. rows \subseteq Outflows
  BY <1>1, OwnRows DEF TaskOK, MarkType
<1>3. task[s].at \in {"unlink", "bulk", "mark"}
  BY <1>1
<1>4. /\ \A k \in Legs : Sees(s)[k] = db[k]
      /\ \A o \in Outflows : db[o] # None
  BY <1>3, NoLegsWritten
<1>5. DOMAIN w = rows
  OBVIOUS
<1>6. ASSUME NEW o \in rows
      PROVE  w[o] # None /\ w[o].group = None /\ w[o].review = "left_control"
  <2>1. w[o] = [group |-> None, review |-> "left_control", by |-> "rule"]
    OBVIOUS
  <2> HIDE DEF w
  <2>2. w[o] \in OutflowType /\ w[o].group = None /\ w[o].review = "left_control"
    BY <2>1 DEF OutflowType, Reviews, Bulk
  <2>3. QED
    BY <2>2, NotNone
<1>7. ASSUME NEW o \in rows
      PROVE  db[o].group = None /\ Agrees(w[o]) /\ db[o].review \notin {"internal", "split"}
  <2>1. Pending(db[o])
    BY <1>2, <1>4, LegKeys DEF RuleWritable
  <2>2. None \notin {"internal", "split", "paired"}
    BY TransferReviewAssumption DEF Reviews
  <2> HIDE DEF w, rows
  <2>3. QED
    BY <1>6, <2>1, <2>2 DEF Agrees, Pending
<1> HIDE DEF w, u, rows
<1>8. /\ DOMAIN w \subseteq Legs /\ Free(s, DOMAIN w)
      /\ \A o \in Outflows, h \in Holdings : <<o, h>> \notin DOMAIN w
  BY <1>1, <1>2, <1>5, LegKeys, Kinds
<1>9. /\ \A k \in DOMAIN w : db[k] # None /\ w[k] # None /\ w[k].group = None /\ db[k].group = None
      /\ \A o \in DOMAIN w \cap Outflows :
           Agrees(w[o]) /\ db[o].review \notin {"internal", "split"}
  BY <1>2, <1>4, <1>5, <1>6, <1>7
<1> DEFINE g == None
<1>10. g = None
  OBVIOUS
<1> HIDE DEF g
<1>11. QED
  BY <1>1, <1>3, <1>8, <1>9, <1>10, FreeingStands
-----------------------------------------------------------------------------
\* The matcher and the owner's edits, the start and the theorems.

LEMMA LinkPairIs ==
  ASSUME WInv, NEW s \in Sessions, LinkPair(s)
  PROVE  /\ task[s] \in MatchType /\ own[s] = <<>> /\ own' = own
         /\ \E o \in task[s].rows :
              /\ Links(o, s) => Free(s, {o} \cup Viable(o, task[s].among)) /\ Unused # {}
              /\ db' = LinkRows(o, s) ++ db
              /\ stale' = [x \in Sessions |->
                             IF x = s THEN IF task[s].rows = {o} THEN {} ELSE stale[s]
                             ELSE stale[x] \cup (Changed(db, LinkRows(o, s)) \cap read[x])]
              /\ raced' = (raced \/ (Links(o, s) /\ ({o} \cup Viable(o, task[s].among)) \cap stale[s] # {}))
              /\ Goto(s, IF task[s].rows = {o} THEN Start ELSE [task[s] EXCEPT !.rows = @ \ {o}])
              /\ DOMAIN read' = Sessions /\ \A x \in Sessions \ {s} : read'[x] = read[x]
              /\ read'[s] = IF task[s].rows = {o} THEN {} ELSE read[s]
<1>1. task[s] \in MatchType /\ own[s] = <<>> /\ own' = own /\ DOMAIN read = Sessions
  BY LinkPairSteps DEF WInv, Always
<1>2. PICK o \in task[s].rows :
        LET viable == Viable(o, task[s].among)
            pair == {o} \cup viable
            links == Cardinality(viable) = 1 /\ StillFree(pair)
            g == FreshGroup
        IN /\ links => Free(s, pair) /\ Unused # {}
           /\ Publish(s, IF links THEN [k \in pair |-> [db[k] EXCEPT !.group = g]]
                         ELSE <<>>, IF task[s].rows = {o} THEN {} ELSE stale[s])
           /\ raced' = (raced \/ (links /\ pair \cap stale[s] # {}))
           /\ Goto(s, IF task[s].rows = {o} THEN Start ELSE [task[s] EXCEPT !.rows = @ \ {o}])
           /\ read' = [read EXCEPT ![s] = IF task[s].rows = {o} THEN {} ELSE @]
  BY DEF LinkPair
<1>3. Links(o, s) => Free(s, {o} \cup Viable(o, task[s].among)) /\ Unused # {}
  BY <1>2 DEF Links
<1>4. Publish(s, LinkRows(o, s), IF task[s].rows = {o} THEN {} ELSE stale[s])
  BY <1>2 DEF Links, LinkRows
<1>5. /\ db' = LinkRows(o, s) ++ db
      /\ stale' = [x \in Sessions |->
                     IF x = s THEN IF task[s].rows = {o} THEN {} ELSE stale[s]
                     ELSE stale[x] \cup (Changed(db, LinkRows(o, s)) \cap read[x])]
  BY <1>4 DEF Publish, Changed
<1>6. raced' = (raced \/ (Links(o, s) /\ ({o} \cup Viable(o, task[s].among)) \cap stale[s] # {}))
  BY <1>2 DEF Links
<1>7. /\ DOMAIN read' = Sessions /\ \A x \in Sessions \ {s} : read'[x] = read[x]
      /\ read'[s] = IF task[s].rows = {o} THEN {} ELSE read[s]
  BY <1>1, <1>2
<1>8. QED
  BY <1>1, <1>2, <1>3, <1>5, <1>6, <1>7

\* The rows a link writes: an outflow that was free, and one deposit.
LEMMA LinkRowsAre ==
  ASSUME WInv, NEW s \in Sessions, task[s] \in MatchType, NEW o \in task[s].rows,
         Links(o, s), Unused # {}
  PROVE  /\ DOMAIN LinkRows(o, s) = {o} \cup Viable(o, task[s].among)
         /\ o \in Outflows /\ Viable(o, task[s].among) \subseteq Inflows
         /\ Viable(o, task[s].among) # {}
         /\ LinkRows(o, s)[o] \in OutflowType
         /\ LinkRows(o, s)[o].review = db[o].review
         /\ \A k \in DOMAIN LinkRows(o, s) :
              /\ db[k] # None /\ db[k].group = None
              /\ LinkRows(o, s)[k] # None /\ LinkRows(o, s)[k].group = FreshGroup
<1> DEFINE viable == Viable(o, task[s].among)
           w == LinkRows(o, s)
<1>1. DOMAIN w = {o} \cup viable /\ \A k \in {o} \cup viable : w[k] = [db[k] EXCEPT !.group = FreshGroup]
  BY DEF LinkRows
<1>2. o \in Outflows /\ viable \subseteq Inflows
  BY DEF MatchType, Viable
<1>3. Cardinality(viable) = 1 /\ \A k \in {o} \cup viable : db[k] # None /\ db[k].group = None
  BY DEF Links, StillFree
<1>4. FreshGroup \in Groups
  BY UnusedIs
<1> HIDE DEF w, viable
<1>5. viable # {}
  <2>1. Cardinality({}) = 0
    BY FS_EmptySet
  <2>2. QED
    BY <1>3, <2>1
<1>6. w[o] \in OutflowType /\ w[o].review = db[o].review /\ w[o].group = FreshGroup
  <2>1. db[o] \in OutflowType /\ w[o] = [db[o] EXCEPT !.group = FreshGroup]
    BY <1>1, <1>2, DbTyped DEF WInv
  <2>2. QED
    BY <1>4, <2>1 DEF OutflowType
<1>7. ASSUME NEW k \in viable PROVE w[k] \in InflowType /\ w[k].group = FreshGroup
  <2>1. db[k] \in InflowType /\ w[k] = [db[k] EXCEPT !.group = FreshGroup]
    BY <1>1, <1>2, <1>3, DbTyped DEF WInv
  <2>2. QED
    BY <1>4, <2>1 DEF InflowType
<1>8. \A k \in DOMAIN w : db[k] # None /\ db[k].group = None /\ w[k] # None /\ w[k].group = FreshGroup
  BY <1>1, <1>3, <1>6, <1>7, NotNone
<1>9. QED
  BY <1>1, <1>2, <1>5, <1>6, <1>8 DEF w, viable

\* Where the matcher is after a row.
LEMMA MatcherGoesOn ==
  ASSUME WInv, NEW s \in Sessions, task[s] \in MatchType, NEW o \in task[s].rows,
         NEW t, t = IF task[s].rows = {o} THEN Start ELSE [task[s] EXCEPT !.rows = @ \ {o}],
         NEW f, \A p \in Outflows \ {o} : f[p] = db[p]
  PROVE  /\ Sure(f, <<>>, t)
         /\ \A u : GroupsApart(t, u) /\ GroupsApart(u, t)
         /\ ~raced => Stands(f, <<>>, IF task[s].rows = {o} THEN {} ELSE read[s],
                             IF task[s].rows = {o} THEN {} ELSE stale[s], t)
<1>1. CASE task[s].rows = {o}
  BY <1>1, QuietStands
<1>2. CASE task[s].rows # {o}
  <2>1. /\ t.at = "match" /\ t.rows = task[s].rows \ {o} /\ task[s].at = "match"
        /\ task[s].rows \subseteq Outflows
    BY <1>2 DEF MatchType
  <2>2. t.at \notin GroupedAt
    BY <2>1 DEF GroupedAt, ResolveAt, WithdrawAt
  <2>3. Sure(f, <<>>, t)
    BY <2>2, NoGroup, SureAtFirst
  <2>4. ASSUME ~raced PROVE Stands(f, <<>>, read[s], stale[s], t)
    <3>1. MatchStands(db, read[s], stale[s], task[s])
      BY <2>4 DEF WInv, Unraced, Stands
    <3>2. \A p \in t.rows : p \in read[s] /\ (p \notin stale[s] => Pending(f[p]))
      BY <2>1, <3>1 DEF MatchStands
    <3>3. MatchStands(f, read[s], stale[s], t)
      BY <3>2 DEF MatchStands
    <3>4. QED
      BY <2>1, <2>2, <3>3, NoGroup
         DEF Stands, AnswerStands, WithdrawalStands, UnlinkStands, BulkStands
  <2>5. QED
    BY <1>2, <2>2, <2>3, <2>4, NoGroup
<1>3. QED
  BY <1>1, <1>2

\* The rows after a link.
LEMMA LinkedWhole ==
  ASSUME WInv, ~raced, NEW s \in Sessions, task[s] \in MatchType, NEW o \in task[s].rows,
         Links(o, s), Unused # {}, o \notin stale[s]
  PROVE  Whole(LinkRows(o, s) ++ db)
<1> DEFINE w == LinkRows(o, s)
           f == db
           e == w ++ f
           g == FreshGroup
           viable == Viable(o, task[s].among)
<1>1. /\ DOMAIN w = {o} \cup viable /\ o \in Outflows /\ viable \subseteq Inflows
      /\ viable # {} /\ w[o] \in OutflowType /\ w[o].review = f[o].review
      /\ \A k \in DOMAIN w : /\ f[k] # None /\ f[k].group = None
                             /\ w[k] # None /\ w[k].group = g
  BY LinkRowsAre
<1>2. Pending(f[o])
  BY DEF WInv, Unraced, Stands, MatchStands, MatchType
<1>3. Whole(f) /\ Answered(f) /\ DOMAIN f = Keys
  BY OwnRows DEF WInv, Unraced, Whole
<1>4. /\ g \in Groups /\ g # None /\ None \notin Groups
      /\ \A k \in Legs : f[k] # None => f[k].group # g
  BY UnusedIs, TransferReviewAssumption
<1> HIDE DEF w, f, e, g, viable
<1>5. /\ DOMAIN w \subseteq Legs /\ DOMAIN w \subseteq Keys
      /\ \A p \in Outflows : p \in DOMAIN w => p = o
      /\ \A p \in Outflows, h \in Holdings : <<p, h>> \notin DOMAIN w
  BY <1>1, LegKeys, Kinds
<1>6. \A k \in Keys : /\ k \in DOMAIN w => e[k] = w[k]
                      /\ k \notin DOMAIN w => e[k] = f[k]
  BY <1>3, OverAt DEF e
<1>7. w[o].review = None
  BY <1>1, <1>2 DEF Pending
<1>8. Agrees(w[o])
  BY <1>7, TransferReviewAssumption DEF Agrees, Reviews
<1>9. \A k \in Legs : k \in InGroup(e, g) <=> k \in DOMAIN w
  BY <1>1, <1>4, <1>6, InGroupIs, LegKeys
<1>10. WholeGroup(e, g)
  <2>1. o \in InGroup(e, g) \cap Outflows
    BY <1>1, <1>5, <1>9
  <2>2. PICK i \in viable : TRUE
    BY <1>1
  <2>3. i \in InGroup(e, g) \ Outflows
    BY <1>1, <1>5, <1>9, <2>2, Kinds
  <2>4. ASSUME NEW p \in InGroup(e, g) \cap Outflows PROVE e[p].review # "split"
    <3>1. p = o /\ e[p] = w[o]
      BY <1>1, <1>5, <1>6, <1>9, <2>4, LegKeys
    <3>2. QED
      BY <1>7, <3>1, TransferReviewAssumption DEF Reviews
  <2>5. QED
    BY <2>1, <2>3, <2>4 DEF WholeGroup
<1>11. \A p \in DOMAIN w \cap Outflows :
         /\ Agrees(w[p])
         /\ \A h \in Holdings : f[<<p, h>>] # None => <<p, h>> \in DOMAIN w
  <2> SUFFICES ASSUME NEW p \in DOMAIN w \cap Outflows
               PROVE  /\ Agrees(w[p])
                      /\ \A h \in Holdings : f[<<p, h>>] # None => <<p, h>> \in DOMAIN w
    OBVIOUS
  <2>1. p = o /\ f[o].review = None
    BY <1>2, <1>5 DEF Pending
  <2>2. \A h \in Holdings : f[<<o, h>>] = None
    BY <1>1, <1>3, <2>1, TransferReviewAssumption DEF Answered, Reviews
  <2>3. QED
    BY <1>8, <2>1, <2>2
<1>12. Whole(e)
  <2>1. /\ e = w ++ f /\ DOMAIN f = Keys /\ DOMAIN w \subseteq Keys /\ Whole(f)
        /\ (g \in Groups => WholeGroup(e, g)) /\ None \notin Groups
    BY <1>3, <1>4, <1>5, <1>10 DEF e
  <2>2. \A k \in DOMAIN w \cap Legs : /\ f[k] # None => f[k].group \in {None, g}
                                      /\ w[k] # None => w[k].group \in {None, g}
    BY <1>1
  <2>3. \A p \in DOMAIN w \cap Outflows :
          /\ Agrees(w[p])
          /\ \/ w[p] = f[p]
             \/ \A h \in Holdings : f[<<p, h>>] # None => <<p, h>> \in DOMAIN w
    BY ONLY <1>11
  <2>4. \A p \in Outflows, h \in Holdings :
          <<p, h>> \in DOMAIN w /\ w[<<p, h>>] # None =>
            /\ e[p].review \in {"internal", "split"}
            /\ e[p].group = w[<<p, h>>].group
            /\ e[p].group # None
    BY <1>5
  <2>5. QED
    BY ONLY <2>1, <2>2, <2>3, <2>4, WholeAfter
<1>13. QED
  BY <1>12 DEF e, w, f

LEMMA LinkPairStands ==
  ASSUME WInv, IInv', NEW s \in Sessions, LinkPair(s)
  PROVE  WInv'
<1>1. task[s] \in MatchType /\ own[s] = <<>> /\ own' = own
  BY LinkPairIs
<1>2. PICK o \in task[s].rows :
        /\ Links(o, s) => Free(s, {o} \cup Viable(o, task[s].among)) /\ Unused # {}
        /\ db' = LinkRows(o, s) ++ db
        /\ stale' = [x \in Sessions |->
                       IF x = s THEN IF task[s].rows = {o} THEN {} ELSE stale[s]
                       ELSE stale[x] \cup (Changed(db, LinkRows(o, s)) \cap read[x])]
        /\ raced' = (raced \/ (Links(o, s) /\ ({o} \cup Viable(o, task[s].among)) \cap stale[s] # {}))
        /\ Goto(s, IF task[s].rows = {o} THEN Start ELSE [task[s] EXCEPT !.rows = @ \ {o}])
        /\ DOMAIN read' = Sessions /\ \A x \in Sessions \ {s} : read'[x] = read[x]
        /\ read'[s] = IF task[s].rows = {o} THEN {} ELSE read[s]
  BY LinkPairIs
<1> DEFINE w == LinkRows(o, s)
           t == IF task[s].rows = {o} THEN Start ELSE [task[s] EXCEPT !.rows = @ \ {o}]
           viable == Viable(o, task[s].among)
<1>3. /\ o \in Outflows /\ DOMAIN w \subseteq {o} \cup Inflows
      /\ \A x \in Sessions \ {s} : DOMAIN own[x] \cap DOMAIN w = {}
      /\ DOMAIN w # {} => /\ Links(o, s) /\ FreshGroup # None
                          /\ \A k \in DOMAIN w : w[k].group = FreshGroup
                          /\ \A k \in Legs : db[k] # None => db[k].group # FreshGroup
                          /\ \A x \in Sessions : task[x].at \in GroupedAt => task[x].group # FreshGroup
      /\ ~raced' => Whole(w ++ db)
  <2>1. CASE Links(o, s)
    <3>1. /\ DOMAIN w = {o} \cup viable /\ o \in Outflows /\ viable \subseteq Inflows
          /\ \A k \in DOMAIN w : w[k].group = FreshGroup
      BY <1>1, <1>2, <2>1, LinkRowsAre
    <3>2. /\ FreshGroup # None
          /\ \A k \in Legs : db[k] # None => db[k].group # FreshGroup
          /\ \A x \in Sessions : task[x].at \in GroupedAt => task[x].group # FreshGroup
      BY <1>2, <2>1, UnusedIs
    <3>3. \A x \in Sessions \ {s} : DOMAIN own[x] \cap DOMAIN w = {}
      BY <1>2, <2>1, <3>1 DEF Free
    <3>4. ASSUME ~raced' PROVE Whole(w ++ db)
      <4>1. ~raced /\ o \notin stale[s] /\ Unused # {}
        BY <1>2, <2>1, <3>4
      <4>2. QED
        BY <1>1, <2>1, <4>1, LinkedWhole
    <3>5. QED
      BY <2>1, <3>1, <3>2, <3>3, <3>4
  <2>2. CASE ~Links(o, s)
    <3>1. DOMAIN w = {}
      BY <2>2, EmptyDomain DEF LinkRows
    <3>2. o \in Outflows
      BY <1>1 DEF MatchType
    <3>3. ASSUME ~raced' PROVE Whole(w ++ db)
      <4> DEFINE f == db
                 e == w ++ f
                 g == None
      <4>1. Whole(f) /\ DOMAIN f = Keys /\ None \notin Groups /\ e = w ++ f /\ g = None
        BY <1>2, <3>3, OwnRows, TransferReviewAssumption DEF WInv, Unraced
      <4> HIDE DEF w, f, e, g
      <4>2. Whole(e)
        BY ONLY <3>1, <4>1, WholeAfter
      <4>3. QED
        BY <4>2 DEF e, f
    <3>4. QED
      BY <3>1, <3>2, <3>3
  <2>3. QED
    BY <2>1, <2>2
<1>4. Goto(s, t) /\ db' = w ++ db
  BY <1>2
<1>5. /\ DOMAIN stale' = Sessions
      /\ \A x \in Sessions \ {s} : stale'[x] = stale[x] \cup (Changed(db, w) \cap read[x])
      /\ stale'[s] = IF task[s].rows = {o} THEN {} ELSE stale[s]
      /\ ~raced' => ~raced
  BY <1>2
<1>6. t = IF task[s].rows = {o} THEN Start ELSE [task[s] EXCEPT !.rows = @ \ {o}]
  OBVIOUS
<1> HIDE DEF w, t, viable
<1>7. /\ DOMAIN w \subseteq Keys
      /\ \A k \in Keys : /\ k \in DOMAIN w => db'[k] = w[k]
                         /\ k \notin DOMAIN w => db'[k] = db[k]
      /\ \A p \in Outflows : p \in DOMAIN w => p = o
      /\ \A p \in Outflows, h \in Holdings : <<p, h>> \in Keys /\ <<p, h>> \notin DOMAIN w
      /\ \A h \in Holdings : h \in Keys /\ h \notin DOMAIN w
  <2>1. DOMAIN w \subseteq Keys
    BY <1>3, LegKeys
  <2>2. DOMAIN db = Keys
    BY OwnRows
  <2>3. \A k \in Keys : /\ k \in DOMAIN w => (w ++ db)[k] = w[k]
                        /\ k \notin DOMAIN w => (w ++ db)[k] = db[k]
    BY <2>2, OverAt
  <2>4. /\ \A p \in Outflows : p \in DOMAIN w => p = o
        /\ \A p \in Outflows, h \in Holdings : <<p, h>> \in Keys /\ <<p, h>> \notin DOMAIN w
        /\ \A h \in Holdings : h \in Keys /\ h \notin DOMAIN w
    BY <1>3, LegKeys, Kinds DEF Keys
  <2>5. QED
    BY <1>4, <2>1, <2>3, <2>4
<1>8. \A p \in Outflows, h \in Holdings : db'[<<p, h>>] = db[<<p, h>>] /\ db'[h] = db[h]
  BY <1>7
<1>9. HoldingsExist(db')
  <2>1. HoldingsExist(db)
    BY DEF WInv, Always
  <2>2. QED
    BY <1>8, <2>1 DEF HoldingsExist
<1>10. OneDeparture(db')
  <2>1. OneDeparture(db) /\ \A p \in Outflows : p \in Keys /\ p \in Legs /\ db[p] # None
    BY LegKeys, DbTyped, NotNone DEF WInv, Always
  <2>2. SUFFICES ASSUME NEW p \in Outflows, NEW q \in Outflows,
                        db'[p].group # None, db'[p].group = db'[q].group
                 PROVE  p = q
    BY DEF OneDeparture
  <2>3. ASSUME NEW r \in Outflows
        PROVE  \/ r = o /\ r \in DOMAIN w /\ db'[r].group = FreshGroup
               \/ r \notin DOMAIN w /\ db'[r] = db[r]
    BY <1>3, <1>7, <2>1
  <2>4. QED
    BY <1>3, <2>1, <2>2, <2>3 DEF OneDeparture
<1>11. ASSUME NEW x \in Sessions PROVE GroupUnused(db', task[x])
  <2>1. GroupUnused(db, task[x])
    BY DEF WInv, Always, Sure
  <2>2. SUFFICES ASSUME task[x].at \in ResolveAt, task[x].group # None,
                        NEW k \in Legs, db'[k] # None
                 PROVE  db'[k].group # task[x].group
    BY DEF GroupUnused
  <2>3. k \in Keys
    BY LegKeys
  <2>4. CASE k \in DOMAIN w
    <3>1. db'[k].group = FreshGroup /\ task[x].group # FreshGroup
      BY <1>3, <1>7, <2>2, <2>3, <2>4 DEF GroupedAt
    <3>2. QED
      BY <3>1
  <2>5. CASE k \notin DOMAIN w
    BY <1>7, <2>1, <2>2, <2>3, <2>5 DEF GroupUnused
  <2>6. QED
    BY <2>4, <2>5
<1>12. /\ Sure(db', <<>>, t)
       /\ \A u : GroupsApart(t, u) /\ GroupsApart(u, t)
       /\ ~raced => Stands(db', <<>>, IF task[s].rows = {o} THEN {} ELSE read[s],
                           IF task[s].rows = {o} THEN {} ELSE stale[s], t)
  <2> DEFINE f == db'
  <2>1. \A p \in Outflows \ {o} : f[p] = db[p]
    BY <1>7, LegKeys
  <2> HIDE DEF f
  <2>2. /\ Sure(f, <<>>, t)
        /\ \A u : GroupsApart(t, u) /\ GroupsApart(u, t)
        /\ ~raced => Stands(f, <<>>, IF task[s].rows = {o} THEN {} ELSE read[s],
                            IF task[s].rows = {o} THEN {} ELSE stale[s], t)
    BY <1>1, <1>2, <1>6, <2>1, MatcherGoesOn
  <2>3. QED
    BY <2>2 DEF f
<1>13. /\ task'[s] = t /\ own'[s] = <<>> /\ own' = own
       /\ \A x \in Sessions \ {s} : task'[x] = task[x]
  BY <1>1, <1>4, TasksStep DEF WInv, IInv, Shape, Goto
<1>14. ~raced' => /\ Whole(db') /\ Adds(db, db')
                  /\ Stands(db', own'[s], read'[s], stale'[s], task'[s])
  BY <1>2, <1>3, <1>4, <1>5, <1>8, <1>12, <1>13 DEF Adds
<1>15. \A x \in Sessions \ {s} :
         /\ own'[x] = own[x] /\ task'[x] = task[x] /\ read'[x] = read[x]
         /\ stale'[x] = stale[x] \cup (Changed(db, w) \cap read[x])
         /\ DOMAIN own[x] \cap DOMAIN w = {}
         /\ GroupUnused(db', task[x])
         /\ \A p \in Outflows, h \in Holdings :
              h \in DOMAIN own[x] /\ db'[<<p, h>>] # None => db[<<p, h>>] # None
  BY <1>2, <1>3, <1>5, <1>8, <1>11, <1>13
<1>16. /\ Sure(db', own'[s], task'[s])
       /\ \A x \in Sessions \ {s} : /\ GroupsApart(task'[s], task[x])
                                    /\ GroupsApart(task[x], task'[s])
  BY <1>12, <1>13
<1>17. DOMAIN read' = Sessions /\ DOMAIN stale' = Sessions
  BY <1>2, <1>5
<1>18. QED
  BY <1>4, <1>5, <1>7, <1>9, <1>10, <1>14, <1>15, <1>16, <1>17, PublishesStep

\* A person who restates a balance touches no leg.
LEMMA EditHoldingStands ==
  ASSUME WInv, IInv', NEW h \in Holdings, EditHolding(h)
  PROVE  WInv'
<1> DEFINE row == [balance |-> db[h].balance + 1, stated |-> db[h].stated + 1,
                   left |-> db[h].left, touched |-> TRUE]
           w == Just(h, row)
           f == db
           e == w ++ f
           g == None
<1>1. /\ db' = e /\ own' = own /\ task' = task /\ read' = read /\ raced' = raced
      /\ DOMAIN stale' = Sessions
      /\ \A x \in Sessions : stale'[x] = stale[x] \cup (Changed(f, w) \cap read[x])
      /\ \A x \in Sessions : h \notin DOMAIN own[x]
  <2>1. Publish(None, w, {}) /\ own' = own /\ task' = task /\ read' = read /\ raced' = raced
        /\ \A x \in Sessions : h \notin DOMAIN own[x]
    BY DEF EditHolding
  <2>2. \A x \in Sessions : x # None
    BY TransferReviewAssumption
  <2> HIDE DEF w
  <2>3. QED
    BY <2>1, <2>2 DEF Publish, Changed
<1>2. f[h] # None /\ f[h] \in HoldingType
  BY DbTyped DEF EditHolding, WInv
<1>3. row # None
  <2>1. row \in HoldingType
    BY <1>2 DEF HoldingType
  <2>2. QED
    BY <2>1, NotNone
<1>4. DOMAIN w = {h} /\ w[h] # None
  <2> HIDE DEF row
  <2>1. DOMAIN Just(h, row) = {h} /\ Just(h, row)[h] = row
    BY JustOne
  <2>2. QED
    BY <1>3, <2>1
<1>5. DOMAIN f = Keys /\ DOMAIN read = Sessions
  BY OwnRows DEF WInv, IInv, Shape, Always
<1>6. /\ HoldingsExist(f) /\ OneDeparture(f) /\ None \notin Groups /\ g = None
      /\ ~raced => Whole(f)
      /\ \A x \in Sessions : GroupUnused(f, task[x])
  BY TransferReviewAssumption DEF WInv, Always, Unraced, Sure
<1>7. h \in Keys /\ h \notin Legs
  BY Kinds DEF Keys, Legs
<1> HIDE DEF row, w, f, e, g
<1>8. /\ DOMAIN w \subseteq Keys
      /\ \A k \in Keys : /\ k = h => e[k] # None
                         /\ k # h => e[k] = f[k]
  BY <1>4, <1>5, <1>7, OverAt DEF e
<1>9. \A k \in Legs : k \in Keys /\ k # h /\ e[k] = f[k]
  BY <1>7, <1>8, LegKeys
<1>10. \A p \in Outflows, q \in Holdings :
         /\ e[<<p, q>>] = f[<<p, q>>] /\ e[p] = f[p]
         /\ f[q] # None => e[q] # None
  BY <1>8, <1>9, LegKeys DEF Keys
<1>11. HoldingsExist(e) /\ OneDeparture(e) /\ Adds(f, e)
  <2>1. HoldingsExist(e)
    BY <1>6, <1>10 DEF HoldingsExist
  <2>2. OneDeparture(e)
    <3>1. \A p \in Outflows : e[p] = f[p]
      BY <1>9, LegKeys
    <3>2. QED
      BY <1>6, <3>1 DEF OneDeparture
  <2>3. QED
    BY <1>10, <2>1, <2>2 DEF Adds
<1>12. \A x \in Sessions : GroupUnused(e, task[x])
  BY <1>6, <1>9 DEF GroupUnused
<1>13. ~raced => Whole(e)
  <2>1. SUFFICES ASSUME ~raced PROVE Whole(e)
    OBVIOUS
  <2>2. Whole(f) /\ e = w ++ f /\ DOMAIN f = Keys /\ DOMAIN w \subseteq Keys
    BY <1>5, <1>6, <1>8, <2>1 DEF e
  <2>3. DOMAIN w \cap Legs = {} /\ \A p \in Outflows, q \in Holdings : <<p, q>> \notin DOMAIN w
    BY <1>4, <1>7, LegKeys
  <2>4. DOMAIN w \cap Outflows = {}
    BY <1>4, <1>7, LegKeys
  <2>5. QED
    BY ONLY <1>6, <2>2, <2>3, <2>4, WholeAfter
<1> DEFINE s == None
<1>14. s \notin Sessions
  BY TransferReviewAssumption
<1> HIDE DEF s
<1>15. \A x \in Sessions \ {s} :
         /\ own'[x] = own[x] /\ task'[x] = task[x] /\ read'[x] = read[x]
         /\ stale'[x] = stale[x] \cup (Changed(db, w) \cap read[x])
         /\ DOMAIN own[x] \cap DOMAIN w = {}
         /\ GroupUnused(db', task[x])
         /\ \A p \in Outflows, q \in Holdings :
              q \in DOMAIN own[x] /\ db'[<<p, q>>] # None => db[<<p, q>>] # None
  BY <1>1, <1>4, <1>10, <1>12 DEF f
<1>16. /\ DOMAIN w \subseteq Keys /\ db' = w ++ db /\ (~raced' => ~raced)
       /\ DOMAIN read' = Sessions /\ DOMAIN stale' = Sessions
       /\ HoldingsExist(db') /\ OneDeparture(db')
       /\ ~raced' => Whole(db') /\ Adds(db, db')
  BY <1>1, <1>5, <1>8, <1>11, <1>13 DEF e, f
<1>17. QED
  BY <1>14, <1>15, <1>16, PublishesStep

-----------------------------------------------------------------------------
\* The start: nothing is linked, answered or written.
LEMMA InitWInv == Init => WInv
<1> SUFFICES ASSUME Init PROVE WInv
  OBVIOUS
<1>1. IInv
  BY InitIInv
<1> DEFINE outs == [o \in Outflows |-> [group |-> None, review |-> None, by |-> None]]
           ins == [i \in Inflows |-> IF i \in Recorded THEN [group |-> None] ELSE None]
           arrived == [r \in Arrivals |-> None]
           held == [h \in Holdings |-> IF Opening[h] = None THEN None
                                       ELSE [balance |-> Opening[h], stated |-> Opening[h],
                                             left |-> 0, touched |-> TRUE]]
           f == db
<1>2. f = outs ++ ins ++ arrived ++ held
  BY DEF Init
<1>3. /\ DOMAIN outs = Outflows /\ DOMAIN ins = Inflows /\ DOMAIN arrived = Arrivals
      /\ \A o \in Outflows : outs[o].group = None /\ outs[o].review = None
      /\ \A i \in Inflows : ins[i] # None => ins[i].group = None
      /\ \A r \in Arrivals : arrived[r] = None
  OBVIOUS
<1> HIDE DEF outs, ins, arrived, held, f
<1>4. /\ Outflows \cap (Inflows \cup Arrivals) = {} /\ Inflows \cap Arrivals = {}
      /\ None \notin Groups \cup Reviews
  BY TransferReviewAssumption
<1> DEFINE two == outs ++ ins
           three == two ++ arrived
<1>5. /\ DOMAIN two = Outflows \cup Inflows
      /\ \A o \in Outflows : two[o] = outs[o]
      /\ \A i \in Inflows : two[i] = ins[i]
  BY <1>3, <1>4 DEF ++
<1> HIDE DEF two
<1>6. /\ DOMAIN three = Outflows \cup Inflows \cup Arrivals
      /\ \A k \in Outflows \cup Inflows : three[k] = two[k]
      /\ \A r \in Arrivals : three[r] = arrived[r]
  BY <1>3, <1>4, <1>5 DEF ++
<1> HIDE DEF three
<1>7. f = three ++ held
  BY <1>2 DEF two, three
<1>8. \A k \in Legs : f[k] = three[k]
  BY <1>6, <1>7 DEF Legs, ++
<1>9. /\ \A o \in Outflows : f[o].group = None /\ f[o].review = None
      /\ \A r \in Arrivals : f[r] = None
      /\ \A k \in Legs : f[k] # None => f[k].group = None
  BY <1>3, <1>5, <1>6, <1>8 DEF Legs
<1>10. \A o \in Outflows, h \in Holdings : f[<<o, h>>] = None
  BY <1>9 DEF Arrivals
<1>11. HoldingsExist(f) /\ OneDeparture(f)
  BY <1>9, <1>10 DEF HoldingsExist, OneDeparture
<1>12. Whole(f)
  <2>1. \A o \in Outflows : Agrees(f[o])
    BY <1>4, <1>9 DEF Agrees, Reviews
  <2>2. ASSUME NEW g \in Groups PROVE WholeGroup(f, g)
    BY <1>4, <1>9, EmptyGroup
  <2>3. QED
    BY <1>10, <2>1, <2>2 DEF Whole, Answered
<1>13. /\ DOMAIN read = Sessions /\ DOMAIN stale = Sessions
       /\ \A s \in Sessions : own[s] = <<>> /\ task[s] = Idle
  BY DEF Init
<1>14. ASSUME NEW s \in Sessions
       PROVE  /\ Sure(f, own[s], task[s])
              /\ Stands(f, own[s], read[s], stale[s], task[s])
              /\ \A u : GroupsApart(task[s], u)
  <2>1. /\ Sure(f, <<>>, Idle)
        /\ Stands(f, <<>>, read[s], stale[s], Idle)
        /\ \A u : GroupsApart(Idle, u)
    BY QuietStands
  <2>2. QED
    BY <1>13, <2>1
<1>15. QED
  BY <1>1, <1>11, <1>12, <1>13, <1>14 DEF WInv, Always, Unraced, f

LEMMA StepStands == ASSUME WInv, [Next]_vars PROVE WInv'
<1>1. IInv'
  BY StepKeeps DEF WInv
<1>2. ASSUME NEW s \in Sessions, Call(s) PROVE WInv'
  BY <1>1, <1>2, ResolveStands, ReopenStands, ResolvePartStands, UnlinkPairStands,
     BulkResolveStands, LinkTransferPairsStands DEF Call
<1>3. ASSUME NEW s \in Sessions, Statement(s) PROVE WInv'
  BY <1>1, <1>3, ClaimLooksStands, ClaimWritesStands, GiveBackClaimsStands, ArriveLooksStands,
     ArriveInHoldingStands, ArriveInNewHoldingStands, StampStands, WithdrawArrivalsStands,
     UndoArrivalsStands, ClearAnswerStands, ClaimPartStands, UnlinkWritesStands,
     BulkWritesStands, MarksLookStands, MarksWriteStands, LinkPairStands DEF Statement
<1>4. CASE UNCHANGED vars
  <2>1. Always'
    BY <1>4 DEF vars, WInv, Always
  <2>2. Unraced'
    BY <1>4 DEF vars, WInv, Unraced
  <2>3. QED
    BY <1>1, <2>1, <2>2 DEF WInv
<1>5. QED
  BY <1>1, <1>2, <1>3, <1>4, RollbackStands, EditHoldingStands DEF Next

LEMMA WholeInvariance == Spec => []WInv
<1>1. WInv /\ [Next]_vars => WInv'
  BY StepStands
<1>2. QED
  BY <1>1, InitWInv, PTL DEF Spec

-----------------------------------------------------------------------------
\* A transfer group never has two departures, and while no call has committed
\* on a stale row it is never half: one departure, something that arrived, and
\* no two parts of a split in one holding (resolve, resolveSplit, resolvePart,
\* claimInflowSet, unlinkPair, the matcher's linkAsTransferPair).
THEOREM GroupsAreWholeHolds == Spec => []GroupsAreWhole
<1>1. ASSUME WInv PROVE GroupsAreWhole
  <2> SUFFICES ASSUME NEW g \in Groups
               PROVE  /\ Cardinality(Linked(g) \cap Outflows) <= 1
                      /\ (~raced /\ Linked(g) # {}) =>
                           /\ Linked(g) \cap Outflows # {}
                           /\ Linked(g) \ Outflows # {}
                           /\ (\E o \in Linked(g) \cap Outflows : db[o].review = "split") =>
                                ~TwoArrivalsOnOneHolding(db, g)
    BY DEF GroupsAreWhole
  <2>1. Linked(g) = InGroup(db, g)
    BY DEF Linked, Row, InGroup
  <2>2. g # None
    BY TransferReviewAssumption
  <2>3. \A o, p \in Linked(g) \cap Outflows : o = p
    BY <1>1, <2>1, <2>2, InGroupIs DEF WInv, Always, OneDeparture
  <2>4. Cardinality(Linked(g) \cap Outflows) <= 1
    <3> DEFINE S == Linked(g) \cap Outflows
    <3>1. \A o, p \in S : o = p
      BY <2>3
    <3> HIDE DEF S
    <3>2. Cardinality(S) = 0 \/ Cardinality(S) = 1
      <4>1. CASE S = {}
        <5>1. Cardinality({}) = 0
          BY FS_EmptySet
        <5>2. QED
          BY <4>1, <5>1
      <4>2. CASE S # {}
        <5>1. PICK o \in S : TRUE
          BY <4>2
        <5>2. S = {o}
          BY <3>1, <5>1
        <5>3. Cardinality({o}) = 1
          BY FS_Singleton
        <5>4. QED
          BY <5>2, <5>3
      <4>3. QED
        BY <4>1, <4>2
    <3>3. QED
      BY <3>2 DEF S
  <2>5. ~raced => WholeGroup(db, g)
    BY <1>1 DEF WInv, Unraced, Whole
  <2>6. QED
    BY <2>1, <2>4, <2>5 DEF WholeGroup
<1>2. QED
  BY <1>1, WholeInvariance, PTL

\* An arrival is always in a holding that exists, and while no call has
\* committed on a stale row it is in the group of an outflow answered "internal"
\* or "split": none is left behind to be counted again (withdrawArrivals,
\* clearAnswer, unlinkPair, bulkResolve).
THEOREM ArrivalsAreAnsweredHolds == Spec => []ArrivalsAreAnswered
<1>1. ASSUME WInv PROVE ArrivalsAreAnswered
  <2> SUFFICES ASSUME NEW o \in Outflows, NEW h \in Holdings, db[<<o, h>>] # None
               PROVE  /\ db[h] # None
                      /\ ~raced => /\ db[o].review \in {"internal", "split"}
                                   /\ db[o].group = db[<<o, h>>].group
                                   /\ db[<<o, h>>].group # None
    BY DEF ArrivalsAreAnswered, Arrivals, Row
  <2>1. db[h] # None
    BY <1>1 DEF WInv, Always, HoldingsExist
  <2>2. ~raced => Answered(db)
    BY <1>1 DEF WInv, Unraced, Whole
  <2>3. QED
    BY <2>1, <2>2 DEF Answered
<1>2. QED
  BY <1>1, WholeInvariance, PTL

\* While no call has committed on a stale row, an answer that the money left is
\* on no linked row, and one that names an arrival has its link, whatever the
\* matcher, a rule or a bulk answer did in between (linkAsTransferPair,
\* stampAnswer, bulkClassify, ruleWritablePredicate).
THEOREM AnswersAndLinksAgreeHolds == Spec => []AnswersAndLinksAgree
<1>1. WInv => AnswersAndLinksAgree
  BY DEF WInv, Unraced, Whole, Agrees, AnswersAndLinksAgree
<1>2. QED
  BY <1>1, WholeInvariance, PTL

-----------------------------------------------------------------------------
(* Below, f is the committed rows, w what a session has written, and o the  *)
(* outflow its call is about.                                               *)

\* What an arrival says of itself: it opened its holding, moved its balance, or
\* took the place of a deposit typed into that holding.
Marks(r, a) ==
  /\ a.opened => ~a.moved /\ a.adopts = None
  /\ ~a.opened => (a.moved <=> a.adopts = None)
  /\ a.adopts # None => a.adopts \in Typed /\ HoldingOf[a.adopts] = r[2]

AllMarked(f) == \A r \in Arrivals \cap DOMAIN f : f[r] # None => Marks(r, f[r])

\* How far a balance is from what was stated and from what withdrawn openings
\* left, and what an arrival has to do with it.
Held(f, h) == IF f[h] = None THEN 0 ELSE f[h].balance - f[h].stated - f[h].left
Moved(f, r) == IF f[r] # None /\ (f[r].moved \/ f[r].opened) THEN f[r].qty ELSE 0
Adopts(f, r) == f[r] # None /\ f[r].adopts # None

\* The deposits typed into h that w adds to the ledger, or takes out of it.
Born(f, w, h) ==
  {i \in Typed \cap DOMAIN w : HoldingOf[i] = h /\ f[i] = None /\ w[i] # None}
Died(f, w, h) ==
  {i \in Typed \cap DOMAIN w : HoldingOf[i] = h /\ f[i] # None /\ w[i] = None}

\* What w does to h, all of it on rows it has locked: the balance moves as the
\* arrival of o does, and the arrival takes what leaves the ledger, or gives
\* back what comes into it.
Even(f, w, o, h) ==
  LET r == <<o, h>>
      born == Born(f, w, h)
      died == Died(f, w, h)
      has == r \in DOMAIN w /\ Adopts(w, r)
      had == r \in DOMAIN w /\ Adopts(f, r)
  IN /\ \A x \in Outflows : <<x, h>> \in DOMAIN w => x = o
     /\ h \in DOMAIN w => r \in DOMAIN w
     /\ h \in DOMAIN w /\ w[h] # None => Held(w, h) - Held(f, h) = Moved(w, r) - Moved(f, r)
     /\ r \in DOMAIN w /\ h \notin DOMAIN w => Moved(w, r) = Moved(f, r)
     /\ \/ born = {} /\ died = {} /\ (has <=> had)
        \/ \E i \in Typed : born = {} /\ died = {i} /\ has /\ ~had
        \/ \E i \in Typed : born = {i} /\ died = {} /\ ~has /\ had

AllEven(f, w, o) ==
  /\ \A h \in Holdings : Even(f, w, o, h)
  /\ \A i \in Typed \cap DOMAIN w : (f[i] = None <=> w[i] = None) \/ HoldingOf[i] \in Holdings

NothingOf(w) == DOMAIN w \cap (Inflows \cup Arrivals \cup Holdings) = {}

\* Where an arrival of o has yet to land, w has written neither.
Ahead(w, t) ==
  \A a \in DOMAIN t.into : \A h \in Room[a] : h \notin DOMAIN w /\ <<t.row, h>> \notin DOMAIN w

\* Place by place.
Settled(f, w, t) ==
  /\ t.at \in ResolveAt \cup {"clear", "part"} => AllEven(f, w, t.row)
  /\ t.at \in ResolveAt =>
       /\ Ahead(w, t)
       /\ \A i \in Inflows \cap DOMAIN w : w[i] = None =>
            i \in Typed /\ HoldingOf[i] \in DOMAIN w
  /\ t.at = "undo" =>
       /\ DOMAIN w \cap (Inflows \cup Holdings) = {}
       /\ \A x \in Outflows, h \in Holdings :
            <<x, h>> \in DOMAIN w <=> x = t.row /\ h \in DOMAIN t.arrivals
       /\ \A h \in DOMAIN t.arrivals : w[<<t.row, h>>] = None /\ f[<<t.row, h>>] = t.arrivals[h]
       /\ \A h \in t.closes : t.arrivals[h].opened
  /\ t.at \notin ResolveAt \cup {"undo", "clear", "part"} => NothingOf(w)

\* What an arrival that is about to land knows.
Landing(t) ==
  t.at = "arrived" =>
    /\ t.holding # None => t.holding \in Room[t.account]
    /\ t.adopts # None => HoldingOf[t.adopts] = t.holding

\* The two properties, of any rows.
Counted(f, h) ==
  {r \in Arrivals : /\ r[2] = h /\ f[r] # None
                    /\ f[r].moved \/ f[r].opened}
AddUp(f) ==
  \A h \in Holdings : f[h] # None =>
    f[h].balance = f[h].stated + f[h].left + MapThenSumSet(LAMBDA r : f[r].qty, Counted(f, h))

TypedAt(S, h) == {i \in S : HoldingOf[i] = h}
KeptAt(f, h) == {r \in Arrivals : r[2] = h /\ f[r] # None /\ f[r].adopts # None}
AreKept(f) ==
  \A h \in {HoldingOf[i] : i \in Typed} :
    Cardinality(TypedAt({i \in Typed : f[i] # None}, h)) + Cardinality(KeptAt(f, h))
      = Cardinality(TypedAt(Typed \cap Recorded, h))

AllMarks == /\ AllMarked(db)
           /\ \A s \in Sessions : AllMarked(own[s]) /\ Landing(task[s])

Balanced ==
  ~raced => /\ AddUp(db) /\ AreKept(db)
            /\ \A s \in Sessions : stale[s] = {} => Settled(db, own[s], task[s])

BInv == AllMarks /\ Balanced
-----------------------------------------------------------------------------
\* What the two properties count.

LEMMA Finite ==
  /\ IsFiniteSet(Outflows) /\ IsFiniteSet(Typed)
  /\ \A h : IsFiniteSet(Outflows \X {h})
<1>1. IsFiniteSet(Outflows) /\ IsFiniteSet(Typed)
  BY TransferReviewAssumption
<1>2. ASSUME NEW h PROVE IsFiniteSet(Outflows \X {h})
  BY <1>1, FS_Singleton, FS_Product
<1>3. QED
  BY <1>1, <1>2

\* The arrivals there may be in a holding, and what each moved its balance by.
ArrivalsAt(h) == Outflows \X {h}
Weights(f, h) == [r \in ArrivalsAt(h) |-> Moved(f, r)]

ArrivalsTyped(f) == \A r \in Arrivals : f[r] \in ArrivalType \cup {None}

LEMMA ArrivalsAtIs ==
  ASSUME NEW h \in Holdings
  PROVE  /\ ArrivalsAt(h) = {r \in Arrivals : r[2] = h}
         /\ \A o \in Outflows : <<o, h>> \in ArrivalsAt(h) /\ <<o, h>> \in Arrivals
         /\ \A r \in ArrivalsAt(h) : r[1] \in Outflows /\ r = <<r[1], h>>
         /\ IsFiniteSet(ArrivalsAt(h))
<1>1. IsFiniteSet(ArrivalsAt(h))
  BY Finite DEF ArrivalsAt
<1>2. QED
  BY <1>1 DEF ArrivalsAt, Arrivals

LEMMA MovedNat ==
  ASSUME NEW f, ArrivalsTyped(f), NEW r \in Arrivals
  PROVE  Moved(f, r) \in Nat
BY DEF Moved, ArrivalsTyped, ArrivalType

LEMMA CountedIs ==
  ASSUME NEW f, ArrivalsTyped(f), NEW h \in Holdings
  PROVE  /\ MapThenSumSet(LAMBDA r : f[r].qty, Counted(f, h)) = Sum(Weights(f, h), ArrivalsAt(h))
         /\ Sum(Weights(f, h), ArrivalsAt(h)) \in Int
         /\ \A r \in ArrivalsAt(h) : Weights(f, h)[r] = Moved(f, r) /\ Weights(f, h)[r] \in Int
<1> DEFINE S == ArrivalsAt(h)
           C == Counted(f, h)
           e == Weights(f, h)
<1>1. IsFiniteSet(S) /\ S = {r \in Arrivals : r[2] = h}
  BY ArrivalsAtIs
<1>2. \A r \in S : e[r] = Moved(f, r) /\ e[r] \in Int
  BY <1>1, MovedNat DEF Weights
<1>3. /\ C \in SUBSET S /\ \A r \in C : f[r].qty = Moved(f, r)
      /\ \A r \in S \ C : Moved(f, r) = 0
  BY <1>1 DEF Counted, Moved
<1>4. IsFiniteSet(C)
  BY <1>1, <1>3, FS_Subset
<1> DEFINE q == [r \in C |-> f[r].qty]
<1>5. \A r \in C : q[r] = e[r]
  BY <1>2, <1>3
<1> HIDE DEF S, C, e
<1>6. MapThenSumSet(LAMBDA r : f[r].qty, C) = Sum(q, C)
  BY <1>4, QtySum
<1> HIDE DEF q
<1>7. Sum(q, C) = Sum(e, C)
  BY <1>4, <1>5, SumSame
<1>8. Sum(e, C) = Sum(e, S)
  <2>1. \A r \in S \ C : e[r] = 0
    BY <1>2, <1>3
  <2>2. QED
    BY <2>1, <1>1, <1>2, <1>3, SumWithout
<1>9. Sum(e, S) \in Int
  BY <1>1, <1>2, SumInt
<1>10. QED
  BY <1>2, <1>6, <1>7, <1>8, <1>9 DEF S, C, e

\* What balances and typed deposits are measured by.
LEMMA HeldInt ==
  ASSUME NEW f, NEW h, f[h] \in HoldingType \cup {None}
  PROVE  /\ Held(f, h) \in Int
         /\ f[h] # None => f[h].balance \in Int /\ f[h].stated \in Int /\ f[h].left \in Int
BY DEF Held, HoldingType

\* A holding nothing ever arrived in is where its owner stated it.
LEMMA AddUpIs ==
  ASSUME NEW f, ArrivalsTyped(f), HoldingsExist(f),
         \A h \in Holdings : f[h] \in HoldingType \cup {None}
  PROVE  AddUp(f) <=> \A h \in Holdings : Held(f, h) = Sum(Weights(f, h), ArrivalsAt(h))
<1>1. ASSUME NEW h \in Holdings, f[h] = None
      PROVE  Held(f, h) = Sum(Weights(f, h), ArrivalsAt(h))
  <2> DEFINE S == ArrivalsAt(h)
             e == Weights(f, h)
  <2>1. IsFiniteSet(S) /\ \A r \in S : e[r] = Moved(f, r) /\ e[r] \in Int
    BY ArrivalsAtIs, CountedIs
  <2>2. \A r \in S : Moved(f, r) = 0
    BY <1>1, ArrivalsAtIs DEF Moved, HoldingsExist
  <2>3. {} \in SUBSET S /\ \A r \in S \ {} : e[r] = 0
    BY <2>1, <2>2
  <2> HIDE DEF S, e
  <2>4. Sum(e, {}) = Sum(e, S)
    BY <2>1, <2>3, SumWithout
  <2>5. QED
    BY <2>4, <1>1, SumEmpty DEF Held, S, e
<1>2. ASSUME NEW h \in Holdings, f[h] # None
      PROVE  Held(f, h) = Sum(Weights(f, h), ArrivalsAt(h)) <=>
               f[h].balance =
                 f[h].stated + f[h].left + MapThenSumSet(LAMBDA r : f[r].qty, Counted(f, h))
  <2> DEFINE n == Sum(Weights(f, h), ArrivalsAt(h))
  <2>1. /\ MapThenSumSet(LAMBDA r : f[r].qty, Counted(f, h)) = n
        /\ n \in Int
    BY CountedIs
  <2>2. /\ f[h].balance \in Int /\ f[h].stated \in Int /\ f[h].left \in Int
        /\ Held(f, h) = f[h].balance - f[h].stated - f[h].left
    BY <1>2, HeldInt DEF Held
  <2> HIDE DEF n
  <2>3. Held(f, h) = n <=> f[h].balance = f[h].stated + f[h].left + n
    BY <2>1, <2>2
  <2>4. QED
    BY <2>1, <2>3 DEF n
<1>3. QED
  BY <1>1, <1>2 DEF AddUp

-----------------------------------------------------------------------------
\* From committed rows to others.

TypedRows(f) ==
  /\ ArrivalsTyped(f) /\ HoldingsExist(f)
  /\ \A h \in Holdings : f[h] \in HoldingType \cup {None}

\* At h, no arrival but o's changes what it counts for; the balance moves as that
\* one does; and what leaves the ledger, or comes into it, is what it takes up, or
\* lets go.
Shifts(f, g, o, h) ==
  LET r == <<o, h>>
      Same(i) == f[i] = None <=> g[i] = None
      here == TypedAt(Typed, h)
  IN /\ \A x \in Outflows \ {o} : /\ Moved(g, <<x, h>>) = Moved(f, <<x, h>>)
                                  /\ Adopts(g, <<x, h>>) <=> Adopts(f, <<x, h>>)
     /\ g[h] # None => Held(g, h) - Held(f, h) = Moved(g, r) - Moved(f, r)
     /\ \/ (\A i \in here : Same(i)) /\ (Adopts(g, r) <=> Adopts(f, r))
        \/ \E i \in here : /\ \A j \in here \ {i} : Same(j)
                           /\ f[i] # None /\ g[i] = None /\ Adopts(g, r) /\ ~Adopts(f, r)
        \/ \E i \in here : /\ \A j \in here \ {i} : Same(j)
                           /\ f[i] = None /\ g[i] # None /\ ~Adopts(g, r) /\ Adopts(f, r)

LEMMA AddUpShifts ==
  ASSUME NEW f, NEW g, TypedRows(f), TypedRows(g), AddUp(f), NEW o \in Outflows,
         \A h \in Holdings : Shifts(f, g, o, h)
  PROVE  AddUp(g)
<1>1. ASSUME NEW h \in Holdings
      PROVE  Held(g, h) = Sum(Weights(g, h), ArrivalsAt(h))
  <2> DEFINE S == ArrivalsAt(h)
             r == <<o, h>>
             e == Weights(f, h)
             d == Weights(g, h)
  <2>1. /\ IsFiniteSet(S) /\ r \in S
        /\ \A y \in S : /\ e[y] = Moved(f, y) /\ e[y] \in Int
                        /\ d[y] = Moved(g, y) /\ d[y] \in Int
    BY ArrivalsAtIs, CountedIs DEF TypedRows
  <2>2. \A y \in S \ {r} : e[y] = d[y]
    <3>1. ASSUME NEW y \in S \ {r} PROVE e[y] = d[y]
      <4>1. y[1] \in Outflows \ {o} /\ y = <<y[1], h>>
        BY ArrivalsAtIs
      <4>2. Moved(g, y) = Moved(f, y)
        BY <4>1 DEF Shifts
      <4>3. QED
        BY <4>2, <2>1
    <3>2. QED
      BY <3>1
  <2>3. Held(f, h) = Sum(e, S) /\ Sum(e, S) \in Int
    BY AddUpIs, CountedIs DEF TypedRows
  <2>4. CASE g[h] # None
    <3>1. Held(g, h) - Held(f, h) = Moved(g, r) - Moved(f, r)
      BY <2>4 DEF Shifts
    <3>2. Held(g, h) \in Int /\ Held(f, h) \in Int
      BY HeldInt DEF TypedRows
    <3>3. e[r] = Moved(f, r) /\ d[r] = Moved(g, r) /\ e[r] \in Int /\ d[r] \in Int
      BY <2>1
    <3> HIDE DEF S, e, d, r
    <3>4. Sum(d, S) = Sum(e, S) + (d[r] - e[r])
      BY <2>1, <2>2, SumChange
    <3>5. QED
      BY <3>1, <3>2, <3>3, <3>4, <2>3 DEF S, d
  <2>5. CASE g[h] = None
    <3>1. \A y \in S : d[y] = 0
      <4>1. \A y \in S : g[y] = None
        BY <2>5, ArrivalsAtIs DEF TypedRows, HoldingsExist
      <4>2. QED
        BY <4>1, <2>1 DEF Moved
    <3> HIDE DEF S, e, d, r
    <3>2. Sum(d, {}) = Sum(d, S)
      <4>1. {} \in SUBSET S /\ \A y \in S \ {} : d[y] = 0
        BY <3>1
      <4>2. QED
        BY <4>1, <2>1, SumWithout
    <3>3. QED
      BY <3>2, <2>5, SumEmpty DEF Held, S, d
  <2>6. QED
    BY <2>4, <2>5
<1>2. QED
  BY <1>1, AddUpIs DEF TypedRows

\* One element more, one element less.
LEMMA OneApart ==
  ASSUME NEW A, NEW B, IsFiniteSet(A), NEW x, x \notin A, B = A \cup {x}
  PROVE  IsFiniteSet(B) /\ Cardinality(A) \in Nat /\ Cardinality(B) = Cardinality(A) + 1
BY FS_AddElement, FS_CardinalityType

LEMMA KeptShifts ==
  ASSUME NEW f, NEW g, AreKept(f), NEW o \in Outflows,
         \A h \in Holdings : Shifts(f, g, o, h),
         \A i \in Typed : HoldingOf[i] \notin Holdings => (f[i] = None <=> g[i] = None)
  PROVE  AreKept(g)
<1> SUFFICES ASSUME NEW h \in {HoldingOf[i] : i \in Typed}
             PROVE  Cardinality(TypedAt({i \in Typed : g[i] # None}, h)) + Cardinality(KeptAt(g, h))
                      = Cardinality(TypedAt(Typed \cap Recorded, h))
  BY DEF AreKept
<1> DEFINE P == TypedAt({i \in Typed : f[i] # None}, h)
           Q == TypedAt({i \in Typed : g[i] # None}, h)
           K == KeptAt(f, h)
           L == KeptAt(g, h)
           n == Cardinality(TypedAt(Typed \cap Recorded, h))
           here == TypedAt(Typed, h)
           r == <<o, h>>
<1>1. Cardinality(P) + Cardinality(K) = n
  BY DEF AreKept
<1>2. IsFiniteSet(P) /\ IsFiniteSet(Q) /\ Cardinality(P) \in Nat /\ Cardinality(Q) \in Nat
  <2>1. P \subseteq Typed /\ Q \subseteq Typed
    BY DEF TypedAt
  <2> HIDE DEF P, Q
  <2>2. QED
    BY <2>1, Finite, FS_Subset, FS_CardinalityType
<1>3. CASE h \notin Holdings
  <2>1. P = Q
    BY <1>3 DEF TypedAt
  <2>2. K = {} /\ L = {}
    BY <1>3 DEF KeptAt, Arrivals
  <2> HIDE DEF P, Q, K, L, n
  <2>3. QED
    BY <1>1, <2>1, <2>2 DEF P, Q, K, L, n
<1>4. CASE h \in Holdings
  <2>1. IsFiniteSet(K) /\ IsFiniteSet(L) /\ Cardinality(K) \in Nat /\ Cardinality(L) \in Nat
    <3>1. K \subseteq ArrivalsAt(h) /\ L \subseteq ArrivalsAt(h) /\ IsFiniteSet(ArrivalsAt(h))
      BY <1>4, ArrivalsAtIs DEF KeptAt
    <3> HIDE DEF K, L
    <3>2. QED
      BY <3>1, FS_Subset, FS_CardinalityType
  <2>2. /\ r \in Arrivals
        /\ \A x \in ArrivalsAt(h) : x # r => (x \in K <=> x \in L)
        /\ r \in K <=> Adopts(f, r)
        /\ r \in L <=> Adopts(g, r)
        /\ K \subseteq ArrivalsAt(h) /\ L \subseteq ArrivalsAt(h)
    <3>1. r \in Arrivals /\ r[2] = h
      BY <1>4 DEF Arrivals
    <3>2. ASSUME NEW x \in ArrivalsAt(h), x # r PROVE x \in K <=> x \in L
      <4>1. x[1] \in Outflows \ {o} /\ x = <<x[1], h>> /\ x \in Arrivals /\ x[2] = h
        BY <1>4, <3>2, ArrivalsAtIs
      <4>2. Adopts(g, x) <=> Adopts(f, x)
        BY <4>1, <1>4 DEF Shifts
      <4>3. QED
        BY <4>1, <4>2 DEF KeptAt, Adopts
    <3>3. K \subseteq ArrivalsAt(h) /\ L \subseteq ArrivalsAt(h)
      BY <1>4, ArrivalsAtIs DEF KeptAt
    <3>4. QED
      BY <3>1, <3>2, <3>3 DEF KeptAt, Adopts
  <2>3. \A i : /\ i \in P <=> i \in here /\ f[i] # None
               /\ i \in Q <=> i \in here /\ g[i] # None
    BY DEF TypedAt
  <2>4. \/ /\ \A i \in here : f[i] = None <=> g[i] = None
           /\ Adopts(g, r) <=> Adopts(f, r)
        \/ \E i \in here : /\ \A j \in here \ {i} : f[j] = None <=> g[j] = None
                           /\ f[i] # None /\ g[i] = None /\ Adopts(g, r) /\ ~Adopts(f, r)
        \/ \E i \in here : /\ \A j \in here \ {i} : f[j] = None <=> g[j] = None
                           /\ f[i] = None /\ g[i] # None /\ ~Adopts(g, r) /\ Adopts(f, r)
    BY <1>4 DEF Shifts
  <2> HIDE DEF P, Q, K, L, n, here, r
  <2>5. CASE /\ \A i \in here : f[i] = None <=> g[i] = None
             /\ Adopts(g, r) <=> Adopts(f, r)
    <3>1. P = Q /\ K = L
      BY <2>2, <2>3, <2>5
    <3>2. QED
      BY <1>1, <3>1 DEF P, Q, K, L, n
  <2>6. ASSUME NEW i \in here, \A j \in here \ {i} : f[j] = None <=> g[j] = None,
               f[i] # None, g[i] = None, Adopts(g, r), ~Adopts(f, r)
        PROVE  Cardinality(Q) + Cardinality(L) = n
    <3>1. i \notin Q /\ P = Q \cup {i} /\ r \notin K /\ L = K \cup {r}
      BY <2>2, <2>3, <2>6
    <3>2. Cardinality(P) = Cardinality(Q) + 1 /\ Cardinality(L) = Cardinality(K) + 1
      BY <3>1, <1>2, <2>1, OneApart
    <3>3. QED
      BY <3>2, <1>1, <1>2, <2>1
  <2>7. ASSUME NEW i \in here, \A j \in here \ {i} : f[j] = None <=> g[j] = None,
               f[i] = None, g[i] # None, ~Adopts(g, r), Adopts(f, r)
        PROVE  Cardinality(Q) + Cardinality(L) = n
    <3>1. i \notin P /\ Q = P \cup {i} /\ r \notin L /\ K = L \cup {r}
      BY <2>2, <2>3, <2>7
    <3>2. Cardinality(Q) = Cardinality(P) + 1 /\ Cardinality(K) = Cardinality(L) + 1
      BY <3>1, <1>2, <2>1, OneApart
    <3>3. QED
      BY <3>2, <1>1, <1>2, <2>1
  <2>8. QED
    BY <2>4, <2>5, <2>6, <2>7 DEF Q, L, n
<1>5. QED
  BY <1>3, <1>4

\* Rows that count for the same.
Alike(f, g) ==
  /\ \A r \in Arrivals : Moved(g, r) = Moved(f, r) /\ (Adopts(g, r) <=> Adopts(f, r))
  /\ \A h \in Holdings : g[h] # None => f[h] # None /\ Held(g, h) = Held(f, h)
  /\ \A i \in Typed : f[i] = None <=> g[i] = None

LEMMA AlikeKeeps ==
  ASSUME NEW f, NEW g, Alike(f, g), AddUp(f), AreKept(f), ArrivalsTyped(f), ArrivalsTyped(g),
         \A h \in Holdings : f[h] \in HoldingType \cup {None} /\ g[h] \in HoldingType \cup {None}
  PROVE  AddUp(g) /\ AreKept(g)
<1>1. ASSUME NEW h \in Holdings, g[h] # None
      PROVE  g[h].balance =
               g[h].stated + g[h].left + MapThenSumSet(LAMBDA r : g[r].qty, Counted(g, h))
  <2> DEFINE a == MapThenSumSet(LAMBDA r : f[r].qty, Counted(f, h))
             b == MapThenSumSet(LAMBDA r : g[r].qty, Counted(g, h))
  <2>1. a = b /\ a \in Int
    <3>1. ArrivalsAt(h) \subseteq Arrivals /\ IsFiniteSet(ArrivalsAt(h))
      BY ArrivalsAtIs
    <3>2. Weights(f, h) = Weights(g, h)
      BY <3>1 DEF Weights, Alike
    <3>3. QED
      BY <3>2, CountedIs
  <2>2. f[h] # None /\ Held(g, h) = Held(f, h)
    BY <1>1 DEF Alike
  <2>3. f[h].balance = f[h].stated + f[h].left + a
    BY <2>2 DEF AddUp
  <2>4. /\ g[h].balance \in Int /\ g[h].stated \in Int /\ g[h].left \in Int
        /\ f[h].balance \in Int /\ f[h].stated \in Int /\ f[h].left \in Int
        /\ Held(f, h) = f[h].balance - f[h].stated - f[h].left
        /\ Held(g, h) = g[h].balance - g[h].stated - g[h].left
    BY <1>1, <2>2, HeldInt DEF Held
  <2> HIDE DEF a, b
  <2>5. g[h].balance = g[h].stated + g[h].left + b
    BY <2>1, <2>2, <2>3, <2>4
  <2>6. QED
    BY <2>5 DEF b
<1>2. ASSUME NEW h
      PROVE  /\ TypedAt({i \in Typed : f[i] # None}, h) = TypedAt({i \in Typed : g[i] # None}, h)
             /\ KeptAt(f, h) = KeptAt(g, h)
  BY DEF Alike, TypedAt, KeptAt, Adopts
<1>3. AreKept(g)
  BY <1>2 DEF AreKept
<1>4. QED
  BY <1>1, <1>3 DEF AddUp

-----------------------------------------------------------------------------
\* A session whose writes are even sees rows that add up as the committed ones do.

LEMMA EvenShifts ==
  ASSUME NEW f, DOMAIN f = Keys, NEW w, DOMAIN w \subseteq Keys, NEW o \in Outflows,
         TypedRows(f), AllEven(f, w, o)
  PROVE  /\ \A h \in Holdings : Shifts(f, w ++ f, o, h)
         /\ \A i \in Typed : HoldingOf[i] \notin Holdings => (f[i] = None <=> (w ++ f)[i] = None)
<1> DEFINE g == w ++ f
<1>1. \A k \in Keys : (k \in DOMAIN w => g[k] = w[k]) /\ (k \notin DOMAIN w => g[k] = f[k])
  BY OverAt
<1>2. Typed \subseteq Keys /\ Holdings \subseteq Keys /\ Arrivals \subseteq Keys
  BY LegKeys, TransferReviewAssumption
<1> HIDE DEF g
<1>3. ASSUME NEW h \in Holdings PROVE Shifts(f, g, o, h)
  <2> DEFINE r == <<o, h>>
             here == TypedAt(Typed, h)
  <2>1. Even(f, w, o, h)
    BY DEF AllEven
  <2>2. r \in Arrivals /\ r \in Keys /\ \A x \in Outflows : <<x, h>> \in Arrivals /\ <<x, h>> \in Keys
    BY <1>2 DEF Arrivals
  <2>3. \A k \in Keys : /\ Moved(g, k) = IF k \in DOMAIN w THEN Moved(w, k) ELSE Moved(f, k)
                        /\ Held(g, k) = IF k \in DOMAIN w THEN Held(w, k) ELSE Held(f, k)
                        /\ Adopts(g, k) <=> IF k \in DOMAIN w THEN Adopts(w, k) ELSE Adopts(f, k)
    BY <1>1 DEF Moved, Held, Adopts
  <2>4. \A x \in Outflows \ {o} : /\ Moved(g, <<x, h>>) = Moved(f, <<x, h>>)
                                  /\ Adopts(g, <<x, h>>) <=> Adopts(f, <<x, h>>)
    <3>1. ASSUME NEW x \in Outflows \ {o} PROVE <<x, h>> \in Keys \ DOMAIN w
      BY <2>1, <2>2 DEF Even
    <3>2. QED
      BY <2>3, <3>1
  <2>5. g[h] # None => Held(g, h) - Held(f, h) = Moved(g, r) - Moved(f, r)
    <3>1. Held(f, h) \in Int /\ Moved(f, r) \in Nat
      BY <2>2, HeldInt, MovedNat DEF TypedRows
    <3>2. CASE h \in DOMAIN w
      <4>1. r \in DOMAIN w /\ g[h] = w[h] /\ Held(g, h) = Held(w, h) /\ Moved(g, r) = Moved(w, r)
        BY <3>2, <2>1, <2>2, <2>3, <1>1, <1>2 DEF Even
      <4>2. QED
        BY <4>1, <3>2, <2>1 DEF Even
    <3>3. CASE h \notin DOMAIN w
      <4>1. Held(g, h) = Held(f, h)
        BY <3>3, <2>3, <1>2
      <4>2. Moved(g, r) = Moved(f, r)
        BY <3>3, <2>1, <2>2, <2>3 DEF Even
      <4>3. QED
        BY <4>1, <4>2, <3>1
    <3>4. QED
      BY <3>2, <3>3
  <2>6. \/ (\A i \in here : f[i] = None <=> g[i] = None) /\ (Adopts(g, r) <=> Adopts(f, r))
        \/ \E i \in here : /\ \A j \in here \ {i} : f[j] = None <=> g[j] = None
                           /\ f[i] # None /\ g[i] = None /\ Adopts(g, r) /\ ~Adopts(f, r)
        \/ \E i \in here : /\ \A j \in here \ {i} : f[j] = None <=> g[j] = None
                           /\ f[i] = None /\ g[i] # None /\ ~Adopts(g, r) /\ Adopts(f, r)
    <3> DEFINE born == Born(f, w, h)
               died == Died(f, w, h)
               has == r \in DOMAIN w /\ Adopts(w, r)
               had == r \in DOMAIN w /\ Adopts(f, r)
    <3>1. \A i \in here : /\ i \in born <=> f[i] = None /\ g[i] # None
                          /\ i \in died <=> f[i] # None /\ g[i] = None
      BY <1>1, <1>2 DEF Born, Died, TypedAt
    <3>2. \A i : i \in born \cup died => i \in here
      BY DEF Born, Died, TypedAt
    <3>3. Adopts(g, r) <=> IF r \in DOMAIN w THEN Adopts(w, r) ELSE Adopts(f, r)
      BY <2>2, <2>3
    <3>4. \/ born = {} /\ died = {} /\ (has <=> had)
          \/ \E i \in Typed : born = {} /\ died = {i} /\ has /\ ~had
          \/ \E i \in Typed : born = {i} /\ died = {} /\ ~has /\ had
      BY <2>1 DEF Even
    <3> HIDE DEF born, died, here, r
    <3>5. CASE born = {} /\ died = {} /\ (has <=> had)
      BY <3>1, <3>3, <3>5
    <3>6. ASSUME NEW i, born = {}, died = {i}, has, ~had
          PROVE  \E j \in here : /\ \A k \in here \ {j} : f[k] = None <=> g[k] = None
                                 /\ f[j] # None /\ g[j] = None /\ Adopts(g, r) /\ ~Adopts(f, r)
      <4>1. i \in here /\ f[i] # None /\ g[i] = None
        BY <3>1, <3>2, <3>6
      <4>2. QED
        BY <4>1, <3>1, <3>3, <3>6
    <3>7. ASSUME NEW i, born = {i}, died = {}, ~has, had
          PROVE  \E j \in here : /\ \A k \in here \ {j} : f[k] = None <=> g[k] = None
                                 /\ f[j] = None /\ g[j] # None /\ ~Adopts(g, r) /\ Adopts(f, r)
      <4>1. i \in here /\ f[i] = None /\ g[i] # None
        BY <3>1, <3>2, <3>7
      <4>2. QED
        BY <4>1, <3>1, <3>3, <3>7
    <3>8. QED
      BY <3>4, <3>5, <3>6, <3>7
  <2>7. QED
    BY <2>4, <2>5, <2>6 DEF Shifts
<1>4. ASSUME NEW i \in Typed, HoldingOf[i] \notin Holdings PROVE f[i] = None <=> g[i] = None
  BY <1>1, <1>2, <1>4 DEF AllEven
<1>5. QED
  BY <1>3, <1>4 DEF g

\* Writes of no inflow, arrival and holding count for nothing.
LEMMA NothingIsEven ==
  ASSUME NEW f, NEW w, NEW o \in Outflows, NothingOf(w)
  PROVE  AllEven(f, w, o)
<1>1. \A h \in Holdings : h \notin DOMAIN w /\ \A x \in Outflows : <<x, h>> \notin DOMAIN w
  BY LegKeys DEF NothingOf
<1>2. \A i \in Typed : i \notin DOMAIN w
  BY TransferReviewAssumption DEF NothingOf
<1>3. ASSUME NEW h \in Holdings PROVE Even(f, w, o, h)
  <2>1. Born(f, w, h) = {} /\ Died(f, w, h) = {}
    BY <1>2 DEF Born, Died
  <2>2. \A x \in Outflows : <<x, h>> \in DOMAIN w => x = o
    BY <1>1
  <2>3. <<o, h>> \notin DOMAIN w
    BY <1>1
  <2>4. QED
    BY <1>1, <2>1, <2>2, <2>3 DEF Even
<1>4. QED
  BY <1>2, <1>3 DEF AllEven

\* What a session sees has types, and every arrival in it a holding.
LEMMA SeesTyped ==
  ASSUME WInv, NEW s \in Sessions
  PROVE  /\ TypedRows(db) /\ TypedRows(Sees(s))
         /\ DOMAIN db = Keys /\ DOMAIN own[s] \subseteq Keys
<1> DEFINE w == own[s]
           g == Sees(s)
<1>1. /\ DOMAIN db = Keys /\ DOMAIN w \subseteq Keys /\ HoldingsExist(db)
      /\ WrittenBeside(w) /\ DeletedWhole(db, w)
      /\ \A k \in Keys : /\ k \in DOMAIN w => g[k] = w[k]
                         /\ k \notin DOMAIN w => g[k] = db[k]
  BY OwnRows DEF WInv, Always, Sure
<1>2. /\ ArrivalsTyped(g) /\ \A h \in Holdings : g[h] \in HoldingType \cup {None}
  BY SeesAll DEF WInv, ArrivalsTyped
<1>3. /\ ArrivalsTyped(db) /\ \A h \in Holdings : db[h] \in HoldingType \cup {None}
  BY LegKeys DEF WInv, IInv, RowsTyped, RowsOK, RowOK, Shape, ArrivalsTyped
<1> HIDE DEF w, g
<1>4. HoldingsExist(g)
  <2> SUFFICES ASSUME NEW o \in Outflows, NEW h \in Holdings, g[<<o, h>>] # None
               PROVE  g[h] # None
    BY DEF HoldingsExist
  <2>1. <<o, h>> \in Keys /\ h \in Keys
    BY LegKeys
  <2>2. CASE <<o, h>> \in DOMAIN w
    BY <1>1, <2>1, <2>2 DEF WrittenBeside
  <2>3. CASE <<o, h>> \notin DOMAIN w
    BY <1>1, <2>1, <2>3 DEF DeletedWhole, HoldingsExist
  <2>4. QED
    BY <2>2, <2>3
<1>5. QED
  BY <1>1, <1>2, <1>3, <1>4 DEF TypedRows, g, w

LEMMA SeenAddsUp ==
  ASSUME WInv, NEW s \in Sessions, AddUp(db), AreKept(db),
         NothingOf(own[s]) \/ \E o \in Outflows : AllEven(db, own[s], o)
  PROVE  AddUp(Sees(s)) /\ AreKept(Sees(s))
<1>0. /\ TypedRows(db) /\ TypedRows(Sees(s)) /\ DOMAIN db = Keys /\ DOMAIN own[s] \subseteq Keys
  BY SeesTyped
<1>1. CASE NothingOf(own[s])
  <2>1. \A k \in Inflows \cup Arrivals \cup Holdings : Sees(s)[k] = db[k]
    BY <1>1, OwnRows, LegKeys DEF NothingOf
  <2>2. Alike(db, Sees(s))
    BY <2>1, TransferReviewAssumption DEF Alike, Moved, Adopts, Held
  <2>3. QED
    BY <2>2, <1>0, AlikeKeeps DEF TypedRows
<1>2. CASE \E o \in Outflows : AllEven(db, own[s], o)
  <2>1. PICK o \in Outflows : AllEven(db, own[s], o)
    BY <1>2
  <2> DEFINE f == db
             w == own[s]
             g == Sees(s)
  <2>2. /\ TypedRows(f) /\ TypedRows(g) /\ DOMAIN f = Keys /\ DOMAIN w \subseteq Keys
        /\ AllEven(f, w, o) /\ g = w ++ f /\ AddUp(f) /\ AreKept(f)
    BY <1>0, <2>1 DEF Sees
  <2> HIDE DEF f, w, g
  <2>3. /\ \A h \in Holdings : Shifts(f, g, o, h)
        /\ \A i \in Typed : HoldingOf[i] \notin Holdings => (f[i] = None <=> g[i] = None)
    <3>1. /\ \A h \in Holdings : Shifts(f, w ++ f, o, h)
          /\ \A i \in Typed : HoldingOf[i] \notin Holdings => (f[i] = None <=> (w ++ f)[i] = None)
      BY <2>2, EvenShifts
    <3>2. QED
      BY <3>1, <2>2
  <2>4. AddUp(g)
    BY <2>2, <2>3, AddUpShifts
  <2>5. AreKept(g)
    BY <2>2, <2>3, KeptShifts
  <2>6. QED
    BY <2>4, <2>5 DEF g
<1>3. QED
  BY <1>1, <1>2

\* What a session has written is even whatever others commit: they have none of
\* its rows.
LEMMA SettledStable ==
  ASSUME NEW f, NEW e, NEW w, NEW t, TaskOK(t), Settled(f, w, t),
         \A k \in DOMAIN w : e[k] = f[k]
  PROVE  Settled(e, w, t)
<1>1. ASSUME NEW o, AllEven(f, w, o) PROVE AllEven(e, w, o)
  <2>1. ASSUME NEW h \in Holdings PROVE Even(e, w, o, h)
    <3>1. Even(f, w, o, h)
      BY <1>1 DEF AllEven
    <3>2. Born(e, w, h) = Born(f, w, h) /\ Died(e, w, h) = Died(f, w, h)
      BY DEF Born, Died
    <3> DEFINE r == <<o, h>>
    <3>3. /\ h \in DOMAIN w => Held(e, h) = Held(f, h)
          /\ r \in DOMAIN w => Moved(e, r) = Moved(f, r) /\ (Adopts(e, r) <=> Adopts(f, r))
      BY DEF Held, Moved, Adopts
    <3> HIDE DEF r
    <3>4. /\ \A x \in Outflows : <<x, h>> \in DOMAIN w => x = o
          /\ h \in DOMAIN w => r \in DOMAIN w
          /\ h \in DOMAIN w /\ w[h] # None =>
               Held(w, h) - Held(e, h) = Moved(w, r) - Moved(e, r)
          /\ r \in DOMAIN w /\ h \notin DOMAIN w => Moved(w, r) = Moved(e, r)
      BY <3>1, <3>3 DEF Even, r
    <3>5. \/ /\ Born(e, w, h) = {} /\ Died(e, w, h) = {}
             /\ (r \in DOMAIN w /\ Adopts(w, r)) <=> (r \in DOMAIN w /\ Adopts(e, r))
          \/ \E i \in Typed : /\ Born(e, w, h) = {} /\ Died(e, w, h) = {i}
                              /\ r \in DOMAIN w /\ Adopts(w, r)
                              /\ ~(r \in DOMAIN w /\ Adopts(e, r))
          \/ \E i \in Typed : /\ Born(e, w, h) = {i} /\ Died(e, w, h) = {}
                              /\ ~(r \in DOMAIN w /\ Adopts(w, r))
                              /\ r \in DOMAIN w /\ Adopts(e, r)
      BY <3>1, <3>2, <3>3 DEF Even, r
    <3>6. QED
      BY <3>4, <3>5 DEF Even, r
  <2>2. QED
    BY <1>1, <2>1 DEF AllEven
<1>2. t.at = "undo" =>
        /\ DOMAIN t.arrivals \subseteq Holdings /\ t.row \in Outflows
  BY DEF TaskOK, UndoType, Withdrawn
<1>3. t.at = "undo" => \A h \in DOMAIN t.arrivals : <<t.row, h>> \in DOMAIN w
  BY <1>2 DEF Settled
<1>4. t.at \in ResolveAt \cup {"clear", "part"} => AllEven(e, w, t.row)
  BY <1>1 DEF Settled
<1>5. t.at = "undo" =>
       /\ DOMAIN w \cap (Inflows \cup Holdings) = {}
       /\ \A x \in Outflows, h \in Holdings :
            <<x, h>> \in DOMAIN w <=> x = t.row /\ h \in DOMAIN t.arrivals
       /\ \A h \in DOMAIN t.arrivals : w[<<t.row, h>>] = None /\ e[<<t.row, h>>] = t.arrivals[h]
       /\ \A h \in t.closes : t.arrivals[h].opened
  BY <1>3 DEF Settled
<1>6. QED
  BY <1>4, <1>5 DEF Settled
-----------------------------------------------------------------------------
\* The kinds of step.

\* A place where a session has written nothing of inflows, arrivals and holdings.
Still(t) == t.at \notin ResolveAt \cup {"undo", "clear", "part"}

LEMMA StillSettles ==
  ASSUME NEW f, NEW w, NEW t, Still(t), NothingOf(w)
  PROVE  Settled(f, w, t) /\ Landing(t)
<1>1. t.at \notin ResolveAt /\ t.at \notin {"undo", "clear", "part"} /\ t.at # "arrived"
  BY DEF Still, ResolveAt
<1>2. QED
  BY <1>1 DEF Settled, Landing

LEMMA NothingMarked == NothingOf(<<>>) /\ AllMarked(<<>>)
BY EmptyDomain DEF NothingOf, AllMarked

\* A session's step that publishes nothing.
LEMMA LocalBalance ==
  ASSUME BInv, NEW s \in Sessions, db' = db, raced' = raced,
         \A x \in Sessions \ {s} : /\ own'[x] = own[x] /\ task'[x] = task[x]
                                   /\ stale'[x] = stale[x],
         AllMarked(own'[s]), Landing(task'[s]),
         ~raced /\ stale'[s] = {} => Settled(db, own'[s], task'[s])
  PROVE  BInv'
<1>1. AllMarks'
  <2>1. AllMarked(db') /\ \A x \in Sessions : AllMarked(own'[x]) /\ Landing(task'[x])
    BY DEF BInv, AllMarks
  <2>2. QED
    BY <2>1 DEF AllMarks
<1>2. Balanced'
  <2>1. ~raced' => /\ AddUp(db') /\ AreKept(db')
                   /\ \A x \in Sessions : stale'[x] = {} => Settled(db', own'[x], task'[x])
    BY DEF BInv, Balanced
  <2>2. QED
    BY <2>1 DEF Balanced
<1>3. QED
  BY <1>1, <1>2 DEF BInv

\* The same, as the statements are written.
LEMMA GoesOnBalanced ==
  ASSUME WInv, BInv, NEW s \in Sessions, NEW t, Goto(s, t),
         db' = db, raced' = raced, stale' = stale,
         NEW v, (own' = own /\ v = own[s]) \/ own' = [own EXCEPT ![s] = v],
         AllMarked(v), Landing(t), ~raced /\ stale[s] = {} => Settled(db, v, t)
  PROVE  BInv'
<1>1. DOMAIN own = Sessions /\ DOMAIN task = Sessions
  BY DEF WInv, IInv, Shape
<1>2. /\ own'[s] = v /\ task'[s] = t
      /\ \A x \in Sessions \ {s} : own'[x] = own[x] /\ task'[x] = task[x]
  BY <1>1 DEF Goto
<1>3. QED
  BY <1>2, LocalBalance

\* A step that publishes new; s is who takes it, with nothing left to write.
LEMMA PublishBalance ==
  ASSUME WInv, BInv, NEW s, NEW new, DOMAIN new \subseteq Keys, db' = new ++ db, AllMarked(new),
         \A x \in Sessions \ {s} : /\ own'[x] = own[x] /\ task'[x] = task[x]
                                   /\ stale[x] \subseteq stale'[x]
                                   /\ DOMAIN own[x] \cap DOMAIN new = {},
         s \in Sessions => NothingOf(own'[s]) /\ AllMarked(own'[s]) /\ Still(task'[s]),
         ~raced' => ~raced /\ AddUp(db') /\ AreKept(db')
  PROVE  BInv'
<1>1. DOMAIN db = Keys
  BY DEF WInv, IInv, Shape
<1>2. \A k \in Keys : /\ k \in DOMAIN new => db'[k] = new[k]
                      /\ k \notin DOMAIN new => db'[k] = db[k]
  <2>1. \A k \in Keys : /\ k \in DOMAIN new => (new ++ db)[k] = new[k]
                        /\ k \notin DOMAIN new => (new ++ db)[k] = db[k]
    BY <1>1, OverAt
  <2>2. QED
    BY <2>1
<1>3. AllMarked(db')
  <2>1. DOMAIN db' = Keys /\ AllMarked(db)
    BY <1>1, OverDomain DEF BInv, AllMarks
  <2>2. QED
    BY <1>1, <1>2, <2>1 DEF AllMarked
<1>4. AllMarks'
  <2>1. \A x \in Sessions : AllMarked(own'[x]) /\ Landing(task'[x])
    BY StillSettles DEF BInv, AllMarks
  <2>2. QED
    BY <1>3, <2>1 DEF AllMarks
<1>5. ASSUME ~raced', NEW x \in Sessions, stale'[x] = {} PROVE Settled(db', own'[x], task'[x])
  <2>1. CASE x = s
    BY <2>1, StillSettles
  <2>2. CASE x # s
    <3> DEFINE f == db
               e == db'
               w == own[x]
               t == task[x]
    <3>1. TaskOK(t) /\ DOMAIN w \subseteq Keys
      BY DEF WInv, IInv, TasksTyped, RowsTyped, RowsOK
    <3>2. Settled(f, w, t) /\ own'[x] = w /\ task'[x] = t
      BY <1>5, <2>2 DEF BInv, Balanced
    <3>3. \A k \in DOMAIN w : e[k] = f[k]
      BY <1>2, <2>2, <3>1
    <3> HIDE DEF f, e, w, t
    <3>4. Settled(e, w, t)
      BY <3>1, <3>2, <3>3, SettledStable
    <3>5. QED
      BY <3>2, <3>4 DEF e
  <2>3. QED
    BY <2>1, <2>2
<1>6. Balanced'
  BY <1>5 DEF Balanced
<1>7. QED
  BY <1>4, <1>6 DEF BInv
-----------------------------------------------------------------------------
\* A commit, and what a call's last statement adds to it.

\* Rows of arrivals that say the same, whatever group they are in.
SameArrival(a, b) ==
  /\ a # None /\ b # None
  /\ a.qty = b.qty /\ a.opened = b.opened /\ a.moved = b.moved /\ a.adopts = b.adopts

\* What w writes of f changes nobody's count.
Recounts(w, f) ==
  /\ \A r \in DOMAIN w \cap Arrivals : SameArrival(w[r], f[r])
  /\ \A i \in DOMAIN w \cap Inflows : w[i] # None /\ f[i] # None

LEMMA SeesMarked ==
  ASSUME WInv, BInv, NEW s \in Sessions
  PROVE  \A r \in Arrivals : Sees(s)[r] # None => Marks(r, Sees(s)[r])
<1>1. AllMarked(db) /\ AllMarked(own[s])
  BY DEF BInv, AllMarks
<1>2. QED
  BY <1>1, OwnRows, LegKeys DEF AllMarked

LEMMA CommitBalance ==
  ASSUME WInv, IInv', BInv, NEW s \in Sessions, NEW t, t \in {Idle, Start},
         NEW w, Commit(s, w, t), Free(s, DOMAIN w), DOMAIN w \subseteq Legs,
         Recounts(w, Sees(s)), task[s].at # "undo"
  PROVE  BInv'
<1> DEFINE new == w ++ own[s]
           e == After(s, w)
           g == Sees(s)
<1>0. DOMAIN w \subseteq Legs
  OBVIOUS
<1>1. /\ DOMAIN new = DOMAIN w \cup DOMAIN own[s] /\ DOMAIN new \subseteq Keys
      /\ \A k \in Keys :
           /\ k \notin DOMAIN new => e[k] = db[k]
           /\ k \in DOMAIN w => e[k] = w[k] /\ new[k] = w[k]
           /\ k \notin DOMAIN w => e[k] = g[k]
           /\ k \notin DOMAIN w /\ k \in DOMAIN own[s] => new[k] = own[s][k]
  <2>1. WInv /\ s \in Sessions /\ DOMAIN w \subseteq Legs
    BY <1>0
  <2>2. QED
    BY ONLY <2>1, AfterIs
<1>2. /\ DOMAIN own = Sessions /\ DOMAIN task = Sessions
      /\ DOMAIN read = Sessions /\ DOMAIN stale = Sessions
      /\ \A x \in Sessions \ {s} : DOMAIN own[x] \cap DOMAIN own[s] = {}
      /\ TaskOK(task[s])
  BY DEF WInv, IInv, Shape, Always, LocksExclude, TasksTyped
<1>3. /\ db' = e
      /\ \A x \in Sessions \ {s} : /\ own'[x] = own[x] /\ task'[x] = task[x]
                                   /\ stale[x] \subseteq stale'[x]
      /\ own'[s] = <<>> /\ task'[s] = t
      /\ raced' = (raced \/ (DOMAIN new # {} /\ stale[s] # {}))
  BY <1>2 DEF Commit, Publish, Goto, After
<1>4. \A x \in Sessions \ {s} : DOMAIN own[x] \cap DOMAIN new = {}
  BY <1>1, <1>2 DEF Free
<1>5. db' = new ++ db
  BY <1>3 DEF After
<1> HIDE DEF new, e
<1>6. AllMarked(new)
  <2> SUFFICES ASSUME NEW r \in Arrivals, r \in DOMAIN new, new[r] # None PROVE Marks(r, new[r])
    BY DEF AllMarked
  <2>1. r \in Keys
    BY LegKeys
  <2>2. CASE r \in DOMAIN w
    <3>1. new[r] = w[r] /\ SameArrival(w[r], g[r])
      BY <1>1, <2>1, <2>2 DEF Recounts
    <3>2. g[r] # None /\ Marks(r, g[r])
      BY <3>1, SeesMarked DEF SameArrival
    <3>3. QED
      BY <3>1, <3>2 DEF SameArrival, Marks
  <2>3. CASE r \notin DOMAIN w
    <3>1. r \in DOMAIN own[s] /\ new[r] = own[s][r]
      BY <1>1, <2>1, <2>3
    <3>2. AllMarked(own[s])
      BY DEF BInv, AllMarks
    <3>3. QED
      BY <3>1, <3>2 DEF AllMarked
  <2>4. QED
    BY <2>2, <2>3
<1>7. NothingOf(own'[s]) /\ AllMarked(own'[s]) /\ Still(task'[s])
  <2>1. Still(t)
    BY DEF Still, Idle, Start, ResolveAt
  <2>2. QED
    BY <2>1, <1>3, NothingMarked
<1>8. TypedRows(db) /\ TypedRows(g)
  BY SeesTyped
<1>9. ASSUME ~raced' PROVE ~raced /\ AddUp(e) /\ AreKept(e)
  <2>1. ~raced /\ AddUp(db) /\ AreKept(db)
    BY <1>3, <1>9 DEF BInv, Balanced
  <2>2. CASE DOMAIN new = {}
    <3>1. \A k \in Keys : e[k] = db[k]
      BY <1>1, <2>2
    <3> DEFINE f == db
    <3>2. \A k \in Arrivals \cup Holdings \cup Typed : e[k] = f[k]
      BY <3>1, LegKeys, TransferReviewAssumption
    <3>3. /\ AddUp(f) /\ AreKept(f) /\ ArrivalsTyped(f) /\ ArrivalsTyped(e)
          /\ \A h \in Holdings : f[h] \in HoldingType \cup {None} /\ e[h] \in HoldingType \cup {None}
      BY <1>8, <2>1, <3>2 DEF TypedRows, ArrivalsTyped
    <3> HIDE DEF f
    <3>4. Alike(f, e)
      BY <3>2 DEF Alike, Moved, Adopts, Held
    <3>5. AddUp(e) /\ AreKept(e)
      BY <3>3, <3>4, AlikeKeeps
    <3>6. QED
      BY <2>1, <3>5
  <2>3. CASE stale[s] = {}
    <3>1. Settled(db, own[s], task[s])
      BY <2>1, <2>3 DEF BInv, Balanced
    <3>2. NothingOf(own[s]) \/ \E o \in Outflows : AllEven(db, own[s], o)
      <4>1. CASE task[s].at \in ResolveAt \cup {"clear", "part"}
        <5>1. task[s].row \in Outflows
          BY <1>2, <4>1 DEF TaskOK, AskType, ArrivedType, ClearType, ResolveAt, Asking
        <5>2. QED
          BY <3>1, <4>1, <5>1 DEF Settled
      <4>2. CASE task[s].at \notin ResolveAt \cup {"clear", "part"}
        BY <3>1, <4>2 DEF Settled
      <4>3. QED
        BY <4>1, <4>2
    <3>3. AddUp(g) /\ AreKept(g)
      BY <2>1, <3>2, SeenAddsUp
    <3>4. /\ \A k \in Keys : k \notin DOMAIN w => e[k] = g[k]
          /\ \A k \in Keys : k \in DOMAIN w => e[k] = w[k]
          /\ \A h \in Holdings : h \notin DOMAIN w
      BY <1>1, LegKeys
    <3>5. /\ \A r \in Arrivals : SameArrival(e[r], g[r]) \/ e[r] = g[r]
          /\ \A h \in Holdings : e[h] = g[h]
          /\ \A i \in Typed : e[i] = g[i] \/ (e[i] # None /\ g[i] # None)
      BY <3>4, LegKeys, TransferReviewAssumption DEF Recounts
    <3>6. \A r \in Arrivals : e[r] \in ArrivalType \cup {None}
      <4>1. \A r \in Arrivals : db'[r] \in ArrivalType \cup {None}
        BY LegKeys DEF IInv, RowsTyped, RowsOK, RowOK, Shape
      <4>2. QED
        BY <4>1, <1>3
    <3> HIDE DEF g
    <3>7. Alike(g, e)
      BY <3>5 DEF Alike, Moved, Adopts, Held, SameArrival
    <3>8. QED
      BY <1>8, <2>1, <3>3, <3>5, <3>6, <3>7, AlikeKeeps DEF TypedRows, ArrivalsTyped
  <2>4. QED
    BY <2>2, <2>3, <1>3, <1>9
<1>10. ~raced' => ~raced /\ AddUp(db') /\ AreKept(db')
  BY <1>3, <1>9
<1>11. QED
  BY <1>1, <1>3, <1>4, <1>5, <1>6, <1>7, <1>10, PublishBalance

LEMMA ReleaseRecounts ==
  ASSUME NEW f, RowsOK(f), DOMAIN f = Keys, NEW g
  PROVE  /\ DOMAIN ReleaseTransferGroup(f, g) \subseteq Legs
         /\ Recounts(ReleaseTransferGroup(f, g), f)
<1> DEFINE w == ReleaseTransferGroup(f, g)
<1>1. /\ DOMAIN w \subseteq Legs
      /\ \A k \in DOMAIN w : f[k] # None /\ w[k] # None
  BY ReleaseIs
<1>2. ASSUME NEW r \in DOMAIN w \cap Arrivals PROVE SameArrival(w[r], f[r])
  <2>1. f[r] # None /\ w[r] # None /\ f[r] \in ArrivalType
    BY <1>1, LegKeys DEF RowsOK, RowOK
  <2>2. w[r] = [f[r] EXCEPT !.group = None]
    BY EmptyDomain DEF ReleaseTransferGroup
  <2> HIDE DEF w
  <2>3. QED
    BY <2>1, <2>2 DEF SameArrival, ArrivalType
<1> HIDE DEF w
<1>3. QED
  BY <1>1, <1>2 DEF Recounts, w

\* The writes of outflows alone.
LEMMA OutflowsRecount ==
  ASSUME NEW w, DOMAIN w \subseteq Outflows, NEW f
  PROVE  DOMAIN w \subseteq Legs /\ Recounts(w, f)
BY LegKeys, Kinds DEF Recounts

LEMMA GiveBackClaimsBalances ==
  ASSUME WInv, IInv', BInv, NEW s \in Sessions, GiveBackClaims(s)
  PROVE  BInv'
<1> DEFINE w == ReleaseTransferGroup(Sees(s), task[s].group)
<1>1. task[s].at = "giveBack" /\ Free(s, DOMAIN w) /\ Commit(s, w, Idle)
  BY DEF GiveBackClaims
<1>2. RowsOK(Sees(s)) /\ DOMAIN Sees(s) = Keys
  BY SeesAll DEF WInv
<1>3. DOMAIN w \subseteq Legs /\ Recounts(w, Sees(s))
  BY <1>2, ReleaseRecounts
<1> HIDE DEF w
<1>4. QED
  BY <1>1, <1>3, CommitBalance

LEMMA UnlinkWritesBalances ==
  ASSUME WInv, IInv', BInv, NEW s \in Sessions, UnlinkWrites(s)
  PROVE  BInv'
<1> DEFINE w == ReleaseTransferGroup(Sees(s), task[s].group)
<1>1. task[s].at = "unlink" /\ Free(s, DOMAIN w) /\ Commit(s, w, Start)
  BY DEF UnlinkWrites
<1>2. RowsOK(Sees(s)) /\ DOMAIN Sees(s) = Keys
  BY SeesAll DEF WInv
<1>3. DOMAIN w \subseteq Legs /\ Recounts(w, Sees(s))
  BY <1>2, ReleaseRecounts
<1> HIDE DEF w
<1>4. QED
  BY <1>1, <1>3, CommitBalance

LEMMA StampBalances ==
  ASSUME WInv, IInv', BInv, NEW s \in Sessions, Stamp(s)
  PROVE  BInv'
<1> DEFINE u == task[s]
           row == [group |-> IF u.group = None THEN Sees(s)[u.row].group ELSE u.group,
                   review |-> u.review, by |-> "user"]
           w == Just(u.row, row)
<1>1. u.at = "stamp" /\ Free(s, {u.row}) /\ Commit(s, w, Idle)
  BY DEF Stamp
<1>2. u.row \in Outflows
  BY <1>1, OwnRows DEF TaskOK, Asking, AskType
<1>3. DOMAIN w = {u.row}
  <2> HIDE DEF row
  <2>1. QED
    BY JustOne
<1> HIDE DEF w
<1>4. DOMAIN w \subseteq Legs /\ Recounts(w, Sees(s))
  BY <1>2, <1>3, OutflowsRecount
<1>5. QED
  BY <1>1, <1>3, <1>4, CommitBalance

LEMMA BulkWritesBalances ==
  ASSUME WInv, IInv', BInv, NEW s \in Sessions, BulkWrites(s)
  PROVE  BInv'
<1> DEFINE u == task[s]
           w == [o \in u.rows |-> [Sees(s)[o] EXCEPT !.review = u.review,
                                    !.by = IF u.review = None THEN None ELSE "user"]]
<1>1. u.at = "bulk" /\ Commit(s, w, Start) /\ Free(s, u.rows)
  BY DEF BulkWrites
<1>2. u.rows \subseteq Outflows
  BY <1>1, OwnRows DEF TaskOK, BulkType
<1>3. DOMAIN w = u.rows
  OBVIOUS
<1> HIDE DEF w
<1>4. DOMAIN w \subseteq Legs /\ Recounts(w, Sees(s))
  BY <1>2, <1>3, OutflowsRecount
<1>5. QED
  BY <1>1, <1>3, <1>4, CommitBalance

LEMMA MarksWriteBalances ==
  ASSUME WInv, IInv', BInv, NEW s \in Sessions, MarksWrite(s)
  PROVE  BInv'
<1> DEFINE u == task[s]
           rows == {o \in u.rows : RuleWritable(Sees(s)[o])}
           w == [o \in rows |-> [group |-> None, review |-> "left_control", by |-> "rule"]]
<1>1. u.at = "mark" /\ Commit(s, w, Idle) /\ Free(s, rows)
  BY DEF MarksWrite
<1>2. rows \subseteq Outflows
  BY <1>1, OwnRows DEF TaskOK, MarkType
<1>3. DOMAIN w = rows
  OBVIOUS
<1> HIDE DEF w
<1>4. DOMAIN w \subseteq Legs /\ Recounts(w, Sees(s))
  BY <1>2, <1>3, OutflowsRecount
<1>5. QED
  BY <1>1, <1>3, <1>4, CommitBalance

LEMMA ClearAnswerBalances ==
  ASSUME WInv, IInv', BInv, NEW s \in Sessions, ClearAnswer(s)
  PROVE  BInv'
<1> DEFINE u == task[s]
           released == ReleaseTransferGroup(Sees(s), u.group)
           cleared == [(released ++ Sees(s))[u.row] EXCEPT !.review = None, !.by = u.by]
           answer == Just(u.row, cleared)
           w == answer ++ released
<1>1. u.at = "clear" /\ Commit(s, w, Start) /\ Free(s, {u.row} \cup DOMAIN released)
  BY DEF ClearAnswer
<1>2. RowsOK(Sees(s)) /\ DOMAIN Sees(s) = Keys
  BY SeesAll DEF WInv
<1>3. DOMAIN released \subseteq Legs /\ Recounts(released, Sees(s))
  BY <1>2, ReleaseRecounts
<1>4. u.row \in Outflows
  BY <1>1, OwnRows DEF TaskOK, ClearType
<1> HIDE DEF released, cleared
<1>5. DOMAIN answer = {u.row}
  BY JustOne
<1> HIDE DEF answer
<1>6. /\ DOMAIN w = {u.row} \cup DOMAIN released
      /\ \A k \in DOMAIN released : k # u.row => w[k] = released[k]
  <2>1. /\ DOMAIN w = DOMAIN answer \cup DOMAIN released
        /\ \A k \in DOMAIN released : k \notin DOMAIN answer => w[k] = released[k]
    BY OverBoth
  <2> HIDE DEF w
  <2>2. QED
    BY <1>5, <2>1
<1> HIDE DEF w
<1>7. DOMAIN w \subseteq Legs /\ Recounts(w, Sees(s))
  BY <1>3, <1>4, <1>6, LegKeys, Kinds DEF Recounts
<1>8. Free(s, DOMAIN w)
  BY <1>1, <1>6
<1>9. QED
  BY <1>1, <1>7, <1>8, CommitBalance

LEMMA ClaimPartBalances ==
  ASSUME WInv, IInv', BInv, NEW s \in Sessions, ClaimPart(s)
  PROVE  BInv'
<1> DEFINE u == task[s]
           row == [group |-> u.group]
           w == IF u.claim = None THEN <<>> ELSE Just(u.claim, row)
<1>1. /\ u.at = "part" /\ Commit(s, w, Idle) /\ Free(s, DOMAIN w)
      /\ \A k \in DOMAIN w : Sees(s)[k] = [group |-> None]
  BY DEF ClaimPart
<1>2. u \in ClearType
  BY <1>1, OwnRows DEF TaskOK
<1>3. row \in InflowType /\ [group |-> None] \in InflowType
  BY <1>2 DEF ClearType, InflowType, Group
<1>4. row # None /\ [group |-> None] # None
  BY <1>3, NotNone
<1>5. DOMAIN w \subseteq Inflows /\ \A k \in DOMAIN w : w[k] = row
  <2>1. CASE u.claim = None
    BY <2>1, EmptyDomain
  <2>2. CASE u.claim # None
    <3>1. u.claim \in Inflows
      BY <1>2, <2>2 DEF ClearType
    <3> HIDE DEF row
    <3>2. DOMAIN Just(u.claim, row) = {u.claim} /\ Just(u.claim, row)[u.claim] = row
      BY JustOne
    <3>3. w = Just(u.claim, row)
      BY <2>2
    <3> HIDE DEF w
    <3>4. QED
      BY <3>1, <3>2, <3>3
  <2>3. QED
    BY <2>1, <2>2
<1> HIDE DEF w, row
<1>6. DOMAIN w \subseteq Legs /\ Recounts(w, Sees(s))
  BY <1>1, <1>4, <1>5, LegKeys, Kinds DEF Recounts
<1>7. QED
  BY <1>1, <1>6, CommitBalance
-----------------------------------------------------------------------------
\* The steps that write nothing of inflows, arrivals and holdings.

LEMMA NothingSettles ==
  ASSUME NEW f, NEW w, NEW t, TaskOK(t), t.at \notin {"undo", "arrived"}, NothingOf(w)
  PROVE  Settled(f, w, t) /\ Landing(t)
<1>1. CASE t.at \in ResolveAt
  <2>1. t.at \in Asking
    BY <1>1 DEF ResolveAt, Asking
  <2>2. t \in AskType /\ t.row \in Outflows /\ t.into \in Quantities
    BY <2>1 DEF TaskOK, AskType
  <2>3. AllEven(f, w, t.row)
    BY <2>2, NothingIsEven
  <2>4. Ahead(w, t)
    <3> SUFFICES ASSUME NEW a \in DOMAIN t.into, NEW h \in Room[a]
                 PROVE  h \notin DOMAIN w /\ <<t.row, h>> \notin DOMAIN w
      BY DEF Ahead
    <3>1. a \in Accounts
      BY <2>2, QuantitiesFacts
    <3>2. h \in Holdings /\ <<t.row, h>> \in Arrivals
      BY <2>2, <3>1 DEF Holdings, Arrivals
    <3>3. QED
      BY <3>2 DEF NothingOf
  <2>5. QED
    BY <1>1, <2>1, <2>3, <2>4 DEF Settled, Landing, NothingOf, Asking
<1>2. CASE t.at \in {"clear", "part"}
  <2>1. t.row \in Outflows
    BY <1>2 DEF TaskOK, ClearType
  <2>2. AllEven(f, w, t.row)
    BY <2>1, NothingIsEven
  <2>3. QED
    BY <1>2, <2>2 DEF Settled, Landing, ResolveAt
<1>3. CASE t.at \notin ResolveAt \cup {"clear", "part"}
  BY <1>3, StillSettles DEF Still
<1>4. QED
  BY <1>1, <1>2, <1>3

LEMMA NothingBalances ==
  ASSUME WInv, IInv', BInv, NEW s \in Sessions, NEW t, Goto(s, t),
         db' = db, raced' = raced, \A x \in Sessions \ {s} : stale'[x] = stale[x],
         NEW v, (own' = own /\ v = own[s]) \/ own' = [own EXCEPT ![s] = v],
         NothingOf(v), t.at \notin {"undo", "arrived"}
  PROVE  BInv'
<1>1. DOMAIN own = Sessions /\ DOMAIN task = Sessions
  BY DEF WInv, IInv, Shape
<1>2. /\ own'[s] = v /\ task'[s] = t
      /\ \A x \in Sessions \ {s} : own'[x] = own[x] /\ task'[x] = task[x]
  BY <1>1 DEF Goto
<1>3. TaskOK(t)
  BY <1>2 DEF IInv, TasksTyped
<1>4. Settled(db, v, t) /\ Landing(t)
  <2> DEFINE f == db
  <2> HIDE DEF f
  <2>1. Settled(f, v, t) /\ Landing(t)
    BY <1>3, NothingSettles
  <2>2. QED
    BY <2>1 DEF f
<1>5. AllMarked(v)
  BY DEF NothingOf, AllMarked
<1>6. QED
  BY <1>2, <1>4, <1>5, LocalBalance

LEMMA BeginBalances ==
  ASSUME WInv, IInv', BInv, NEW s \in Sessions, NEW t, NEW K, Begin(s, t, K),
         t.at \notin {"undo", "arrived"}
  PROVE  BInv'
<1>1. own[s] = <<>> /\ own' = own /\ db' = db /\ raced' = raced /\ stale' = stale /\ Goto(s, t)
  BY IdleOwns DEF Begin, WInv
<1>2. NothingOf(own[s])
  BY <1>1, NothingMarked
<1>3. QED
  BY <1>1, <1>2, NothingBalances

LEMMA ResolveBalances ==
  ASSUME WInv, IInv', BInv, NEW s \in Sessions, NEW o \in Outflows, Resolve(s, o)
  PROVE  BInv'
<1>1. PICK a \in Answers[o] :
        LET links == a.claims # <<>> \/ DOMAIN a.into # {}
            t == [at |-> "", row |-> o, review |-> a.review, claims |-> a.claims,
                  into |-> a.into, set |-> Len(a.claims) > 1,
                  group |-> IF links THEN FreshGroup ELSE None]
        IN Begin(s, Onward(t), {o})
  BY DEF Resolve
<1> DEFINE b == [at |-> "", row |-> o, review |-> a.review, claims |-> a.claims,
                 into |-> a.into, set |-> Len(a.claims) > 1,
                 group |-> IF a.claims # <<>> \/ DOMAIN a.into # {} THEN FreshGroup ELSE None]
           t == Onward(b)
<1>2. t.at \notin {"undo", "arrived"}
  BY DEF Onward
<1>3. Begin(s, t, {o})
  BY <1>1
<1> HIDE DEF t
<1>4. QED
  BY <1>2, <1>3, BeginBalances

LEMMA ReopenBalances ==
  ASSUME WInv, IInv', BInv, NEW s \in Sessions, NEW o \in Outflows, Reopen(s, o)
  PROVE  BInv'
<1> DEFINE t == [at |-> "withdraw", row |-> o, only |-> Holdings, group |-> db[o].group,
                 by |-> IF db[o].by = "rule" THEN "user" ELSE None,
                 part |-> FALSE, claim |-> None]
<1>1. Begin(s, t, {o}) /\ t.at \notin {"undo", "arrived"}
  BY DEF Reopen
<1> HIDE DEF t
<1>2. QED
  BY <1>1, BeginBalances

LEMMA UnlinkPairBalances ==
  ASSUME WInv, IInv', BInv, NEW s \in Sessions, NEW o \in Outflows, UnlinkPair(s, o)
  PROVE  BInv'
<1> DEFINE t == [at |-> "unlink", group |-> db[o].group]
           legs == InGroup(db, db[o].group)
<1>1. Begin(s, t, legs) /\ t.at \notin {"undo", "arrived"}
  BY DEF UnlinkPair
<1> HIDE DEF t, legs
<1>2. QED
  BY <1>1, BeginBalances

LEMMA BulkResolveBalances ==
  ASSUME WInv, IInv', BInv, NEW s \in Sessions, BulkResolve(s)
  PROVE  BInv'
<1>1. PICK R \in SUBSET Outflows \ {{}}, d \in Bulk \cup {None} :
        Begin(s, [at |-> "bulk", rows |-> R, review |-> d], R \cup (R \X Holdings))
  BY DEF BulkResolve
<1> DEFINE t == [at |-> "bulk", rows |-> R, review |-> d]
           K == R \cup (R \X Holdings)
<1>2. Begin(s, t, K) /\ t.at \notin {"undo", "arrived"}
  BY <1>1
<1> HIDE DEF t, K
<1>3. QED
  BY <1>2, BeginBalances

LEMMA LinkTransferPairsBalances ==
  ASSUME WInv, IInv', BInv, NEW s \in Sessions, LinkTransferPairs(s)
  PROVE  BInv'
<1> DEFINE outs == {o \in Outflows : Pending(db[o])}
           ins == {i \in Inflows \ Typed : db[i] # None /\ db[i].group = None}
           t == IF outs = {} THEN Start ELSE [at |-> "match", rows |-> outs, among |-> ins]
           K == outs \cup ins
<1>1. Begin(s, t, K)
  BY DEF LinkTransferPairs
<1>2. t.at \notin {"undo", "arrived"}
  BY DEF Start
<1> HIDE DEF t, K
<1>3. QED
  BY <1>1, <1>2, BeginBalances

LEMMA ResolvePartBalances ==
  ASSUME WInv, IInv', BInv, NEW s \in Sessions, NEW o \in Outflows, ResolvePart(s, o)
  PROVE  BInv'
<1>1. PICK h \in Holdings, i \in Inflows \cup {None} :
        Goto(s, [at |-> "withdraw", row |-> o, only |-> {h}, group |-> db[o].group,
                 by |-> "user", part |-> TRUE, claim |-> i])
  BY DEF ResolvePart
<1> DEFINE t == [at |-> "withdraw", row |-> o, only |-> {h}, group |-> db[o].group,
                 by |-> "user", part |-> TRUE, claim |-> i]
           j == Just(o, db[o])
           v == j ++ own[s]
<1>2. /\ Goto(s, t) /\ t.at \notin {"undo", "arrived"}
      /\ own' = [own EXCEPT ![s] = v] /\ task[s] = Idle
      /\ db' = db /\ raced' = raced /\ stale' = stale
  BY <1>1 DEF ResolvePart, Write
<1>3. DOMAIN own[s] = {}
  BY <1>2, IdleOwns, EmptyDomain DEF WInv
<1>4. DOMAIN j = {o}
  BY JustOne
<1> HIDE DEF j, t
<1>5. DOMAIN v = DOMAIN j \cup DOMAIN own[s]
  BY OverDomain
<1> HIDE DEF v
<1>6. NothingOf(v)
  BY <1>3, <1>4, <1>5, Kinds DEF NothingOf
<1>7. QED
  BY <1>2, <1>6, NothingBalances

LEMMA MarksLookBalances ==
  ASSUME WInv, IInv', BInv, NEW s \in Sessions, MarksLook(s)
  PROVE  BInv'
<1> DEFINE rows == {o \in Marked : RuleWritable(db[o]) /\ BulkEligible(o)}
           t == IF rows = {} THEN Idle ELSE [at |-> "mark", rows |-> rows]
<1>1. /\ Goto(s, t) /\ task[s].at = "marks"
      /\ db' = db /\ raced' = raced /\ stale' = stale /\ own' = own
  BY DEF MarksLook
<1>2. t.at \notin {"undo", "arrived"}
  BY DEF Idle
<1>3. own[s] = <<>>
  BY <1>1 DEF WInv, IInv, QuietHaveNoLocks, Quiet
<1>4. NothingOf(own[s])
  BY <1>3, NothingMarked
<1> HIDE DEF t
<1>5. QED
  BY <1>1, <1>2, <1>4, NothingBalances

LEMMA RollbackBalances ==
  ASSUME WInv, IInv', BInv, NEW s \in Sessions, Rollback(s)
  PROVE  BInv'
<1> DEFINE v == <<>>
<1>1. /\ Goto(s, Idle) /\ own' = [own EXCEPT ![s] = v] /\ db' = db /\ raced' = raced
      /\ \A x \in Sessions \ {s} : stale'[x] = stale[x]
  BY DEF Rollback, WInv, Always
<1>2. NothingOf(v) /\ Idle.at \notin {"undo", "arrived"}
  BY NothingMarked DEF Idle
<1> HIDE DEF v
<1>3. QED
  BY <1>1, <1>2, NothingBalances

\* The matcher writes groups, and a person an amount of their own.
LEMMA LinkPairBalances ==
  ASSUME WInv, IInv', BInv, NEW s \in Sessions, LinkPair(s)
  PROVE  BInv'
<1>1. /\ task[s] \in MatchType /\ own[s] = <<>> /\ own' = own
      /\ \E o \in task[s].rows :
           /\ Links(o, s) => Free(s, {o} \cup Viable(o, task[s].among)) /\ Unused # {}
           /\ db' = LinkRows(o, s) ++ db
           /\ stale' = [x \in Sessions |->
                          IF x = s THEN IF task[s].rows = {o} THEN {} ELSE stale[s]
                          ELSE stale[x] \cup (Changed(db, LinkRows(o, s)) \cap read[x])]
           /\ raced' = (raced \/ (Links(o, s) /\ ({o} \cup Viable(o, task[s].among)) \cap stale[s] # {}))
           /\ Goto(s, IF task[s].rows = {o} THEN Start ELSE [task[s] EXCEPT !.rows = @ \ {o}])
  BY LinkPairIs
<1>2. PICK o \in task[s].rows :
        /\ Links(o, s) => Free(s, {o} \cup Viable(o, task[s].among)) /\ Unused # {}
        /\ db' = LinkRows(o, s) ++ db
        /\ stale' = [x \in Sessions |->
                       IF x = s THEN IF task[s].rows = {o} THEN {} ELSE stale[s]
                       ELSE stale[x] \cup (Changed(db, LinkRows(o, s)) \cap read[x])]
        /\ raced' = (raced \/ (Links(o, s) /\ ({o} \cup Viable(o, task[s].among)) \cap stale[s] # {}))
        /\ Goto(s, IF task[s].rows = {o} THEN Start ELSE [task[s] EXCEPT !.rows = @ \ {o}])
  BY <1>1
<1> DEFINE w == LinkRows(o, s)
           t == IF task[s].rows = {o} THEN Start ELSE [task[s] EXCEPT !.rows = @ \ {o}]
<1>3. /\ DOMAIN w \subseteq Outflows \cup Inflows
      /\ \A k \in DOMAIN w : db[k] # None /\ w[k] # None
      /\ \A x \in Sessions \ {s} : DOMAIN own[x] \cap DOMAIN w = {}
  <2>1. CASE Links(o, s)
    <3>0. task[s] \in MatchType /\ Links(o, s) /\ Unused # {}
      BY <1>1, <1>2, <2>1
    <3>1. /\ DOMAIN w = {o} \cup Viable(o, task[s].among)
          /\ o \in Outflows /\ Viable(o, task[s].among) \subseteq Inflows
          /\ \A k \in DOMAIN w : db[k] # None /\ w[k] # None
      BY <3>0, LinkRowsAre
    <3>2. Free(s, DOMAIN w)
      BY <1>2, <2>1, <3>1
    <3> HIDE DEF w
    <3>3. QED
      BY <3>1, <3>2 DEF Free
  <2>2. CASE ~Links(o, s)
    BY <2>2, EmptyDomain DEF LinkRows
  <2>3. QED
    BY <2>1, <2>2
<1>4. Still(t)
  BY <1>1 DEF MatchType, Still, Start, ResolveAt
<1>5. /\ db' = w ++ db /\ (~raced' => ~raced)
      /\ \A x \in Sessions \ {s} : /\ own'[x] = own[x] /\ task'[x] = task[x]
                                   /\ stale[x] \subseteq stale'[x]
      /\ task'[s] = t /\ own'[s] = <<>>
  BY <1>1, <1>2 DEF Goto, WInv, IInv, Shape
<1>6. DOMAIN db = Keys
  BY OwnRows
<1> DEFINE f == db
           e == w ++ f
<1> HIDE DEF w, t
<1>7. /\ \A k \in Keys : k \notin DOMAIN w => e[k] = f[k]
      /\ \A k \in Keys : k \in DOMAIN w => e[k] = w[k]
  BY <1>6, OverAt
<1>8. /\ \A r \in Arrivals : e[r] = f[r]
      /\ \A h \in Holdings : e[h] = f[h]
      /\ \A i \in Typed : e[i] = None <=> f[i] = None
  BY <1>3, <1>7, Kinds, TransferReviewAssumption
<1>9. TypedRows(f)
  BY SeesTyped
<1>10. ~raced' => AddUp(f) /\ AreKept(f)
  BY <1>5 DEF BInv, Balanced
<1> HIDE DEF f, e
<1>11. Alike(f, e)
  BY <1>8 DEF Alike, Moved, Adopts, Held
<1>12. ArrivalsTyped(e) /\ \A h \in Holdings : e[h] \in HoldingType \cup {None}
  BY <1>8, <1>9 DEF TypedRows, ArrivalsTyped
<1>13. ~raced' => AddUp(e) /\ AreKept(e)
  BY <1>9, <1>10, <1>11, <1>12, AlikeKeeps DEF TypedRows
<1>14. DOMAIN w \subseteq Keys /\ AllMarked(w)
  BY <1>3, Kinds DEF AllMarked
<1>15. db' = e
  BY <1>5 DEF e, f
<1>16. QED
  BY <1>3, <1>4, <1>5, <1>13, <1>14, <1>15, NothingMarked, PublishBalance

LEMMA EditHoldingBalances ==
  ASSUME WInv, IInv', BInv, NEW h \in Holdings, EditHolding(h)
  PROVE  BInv'
<1> DEFINE row == [balance |-> db[h].balance + 1, stated |-> db[h].stated + 1,
                   left |-> db[h].left, touched |-> TRUE]
           w == Just(h, row)
           f == db
           e == w ++ f
           s == None
<1>1. /\ db' = e /\ own' = own /\ task' = task /\ raced' = raced
      /\ \A x \in Sessions : stale[x] \subseteq stale'[x]
      /\ \A x \in Sessions : h \notin DOMAIN own[x]
  <2>1. Publish(None, w, {}) /\ own' = own /\ task' = task /\ raced' = raced
        /\ \A x \in Sessions : h \notin DOMAIN own[x]
    BY DEF EditHolding
  <2>2. \A x \in Sessions : x # None
    BY TransferReviewAssumption
  <2> HIDE DEF w
  <2>3. QED
    BY <2>1, <2>2 DEF Publish
<1>2. f[h] # None /\ f[h] \in HoldingType
  BY DbTyped DEF EditHolding, WInv
<1>3. /\ row \in HoldingType /\ row.balance = f[h].balance + 1 /\ row.stated = f[h].stated + 1
      /\ row.left = f[h].left
  BY <1>2 DEF HoldingType
<1>4. row # None
  BY <1>3, NotNone
<1>5. DOMAIN f = Keys /\ TypedRows(f)
  <2>1. \A x \in Sessions : TypedRows(db)
    BY SeesTyped
  <2>2. TypedRows(db)
    BY DbTyped DEF WInv, Always, TypedRows, ArrivalsTyped
  <2>3. QED
    BY <2>2 DEF WInv, IInv, Shape
<1>6. ~raced => AddUp(f) /\ AreKept(f)
  BY DEF BInv, Balanced
<1>7. s \notin Sessions
  BY TransferReviewAssumption
<1>8. db' = w ++ db
  BY <1>1
<1> HIDE DEF row, f, s
<1>9. DOMAIN w = {h} /\ w[h] = row
  BY JustOne
<1> HIDE DEF w
<1>10. \A k \in Keys : (k # h => e[k] = f[k]) /\ (k = h => e[k] = row)
  BY <1>5, <1>9, OverAt
<1> HIDE DEF e
<1>11. /\ \A r \in Arrivals : e[r] = f[r]
       /\ \A i \in Typed : e[i] = f[i]
       /\ e[h] = row /\ \A x \in Holdings : x # h => e[x] = f[x]
  BY <1>10, Kinds, TransferReviewAssumption
<1>12. Held(e, h) = Held(f, h)
  BY <1>2, <1>3, <1>4, <1>11 DEF Held, HoldingType
<1>13. Alike(f, e)
  <2>1. \A x \in Holdings : e[x] # None => f[x] # None /\ Held(e, x) = Held(f, x)
    <3>1. ASSUME NEW x \in Holdings, x # h PROVE Held(e, x) = Held(f, x) /\ e[x] = f[x]
      BY <1>11, <3>1 DEF Held
    <3>2. QED
      BY <1>2, <1>12, <3>1
  <2>2. QED
    BY <1>11, <2>1 DEF Alike, Moved, Adopts
<1>14. ArrivalsTyped(e) /\ \A x \in Holdings : e[x] \in HoldingType \cup {None}
  BY <1>3, <1>5, <1>11 DEF TypedRows, ArrivalsTyped
<1>15. ~raced => AddUp(e) /\ AreKept(e)
  BY <1>5, <1>6, <1>13, <1>14, AlikeKeeps DEF TypedRows
<1>16. DOMAIN w \subseteq Keys /\ AllMarked(w)
  BY <1>9, Kinds DEF AllMarked
<1>17. QED
  BY <1>1, <1>7, <1>8, <1>9, <1>15, <1>16, PublishBalance
-----------------------------------------------------------------------------
\* The statements of an answer.

LEMMA OwnSettled ==
  ASSUME WInv, BInv, NEW s \in Sessions, task[s].at \in ResolveAt
  PROVE  /\ AllMarked(own[s]) /\ Landing(task[s]) /\ task[s].row \in Outflows
         /\ task[s].into \in Quantities
         /\ ~raced /\ stale[s] = {} =>
              /\ AllEven(db, own[s], task[s].row) /\ Ahead(own[s], task[s])
              /\ \A i \in Inflows \cap DOMAIN own[s] :
                   /\ db[i] # None
                   /\ own[s][i] = None => i \in Typed /\ HoldingOf[i] \in DOMAIN own[s]
<1>1. task[s].row \in Outflows /\ task[s].into \in Quantities
  BY OwnRows DEF TaskOK, AskType, ArrivedType, ResolveAt, Asking
<1>2. ASSUME ~raced, stale[s] = {} PROVE Settled(db, own[s], task[s])
  BY <1>2 DEF BInv, Balanced
<1>3. ASSUME ~raced, stale[s] = {}, NEW i \in Inflows \cap DOMAIN own[s] PROVE db[i] # None
  BY <1>3, OwnRows DEF AnswerStands, Unlinked
<1>4. AllMarked(own[s]) /\ Landing(task[s])
  BY DEF BInv, AllMarks
<1>5. QED
  BY <1>1, <1>2, <1>3, <1>4 DEF Settled

\* The call goes on with what it has written and what it has to write.
LEMMA AnswerSettles ==
  ASSUME NEW f, NEW w, NEW t, t.at \in ResolveAt, AllEven(f, w, t.row), Ahead(w, t),
         \A i \in Inflows \cap DOMAIN w : w[i] = None => i \in Typed /\ HoldingOf[i] \in DOMAIN w
  PROVE  Settled(f, w, t)
<1>1. t.at \notin {"undo", "clear", "part"}
  BY DEF ResolveAt
<1>2. QED
  BY <1>1 DEF Settled

LEMMA ClaimLooksBalances ==
  ASSUME WInv, IInv', BInv, NEW s \in Sessions, ClaimLooks(s)
  PROVE  BInv'
<1> DEFINE u == task[s]
           claimable == Claimable(s, u.row, Head(u.claims))
           t == [u EXCEPT !.at = IF claimable THEN "claimed" ELSE "giveBack"]
           w == own[s]
<1>1. /\ u.at = "claim" /\ Goto(s, t)
      /\ db' = db /\ raced' = raced /\ stale' = stale /\ own' = own
  BY DEF ClaimLooks
<1>2. u \in AskType
  BY <1>1, OwnRows DEF TaskOK, Asking
<1>3. t.row = u.row /\ t.into = u.into /\ t.at \in {"claimed", "giveBack"}
  BY <1>2 DEF AskType
<1>4. u.at \in ResolveAt /\ t.at \in ResolveAt /\ t.at # "arrived"
  BY <1>1, <1>3 DEF ResolveAt
<1>5. /\ AllMarked(w)
      /\ ~raced /\ stale[s] = {} =>
           /\ AllEven(db, w, u.row) /\ Ahead(w, u)
           /\ \A i \in Inflows \cap DOMAIN w :
                w[i] = None => i \in Typed /\ HoldingOf[i] \in DOMAIN w
  BY <1>4, OwnSettled
<1> HIDE DEF t, u, w
<1>6. Landing(t)
  BY <1>4 DEF Landing
<1>7. ~raced /\ stale[s] = {} => Settled(db, w, t)
  BY <1>3, <1>4, <1>5, AnswerSettles DEF Ahead
<1>8. QED
  BY <1>1, <1>5, <1>6, <1>7, GoesOnBalanced DEF w

LEMMA ArriveLooksBalances ==
  ASSUME WInv, IInv', BInv, NEW s \in Sessions, ArriveLooks(s)
  PROVE  BInv'
<1> DEFINE u == task[s]
           at(a, h) == [at |-> "arrived", row |-> u.row, review |-> u.review,
                        claims |-> <<>>, into |-> u.into, set |-> u.set,
                        group |-> u.group, account |-> a, holding |-> h,
                        adopts |-> TypedDeposit(s, u.row, h, u.into[a])]
           existing(a) == {x \in Room[a] : Sees(s)[x] # None /\ x # HoldingOf[u.row]}
<1>1. PICK a \in DOMAIN u.into :
        \E h \in IF existing(a) = {} THEN {None} ELSE existing(a) : Goto(s, at(a, h))
  BY DEF ArriveLooks
<1>2. PICK h : (h = None \/ h \in Room[a]) /\ Goto(s, at(a, h))
  BY <1>1
<1> DEFINE t == at(a, h)
           w == own[s]
<1>3. /\ u.at = "arrive" /\ Goto(s, t)
      /\ db' = db /\ raced' = raced /\ stale' = stale /\ own' = own
  BY <1>2 DEF ArriveLooks
<1>4. /\ t.row = u.row /\ t.into = u.into /\ t.at = "arrived"
      /\ t.adopts = TypedDeposit(s, u.row, h, u.into[a])
      /\ t.holding = h /\ t.account = a
  OBVIOUS
<1>5. t.adopts # None => HoldingOf[t.adopts] = h
  BY <1>4, TypedDepositIs
<1>6. u.at \in ResolveAt /\ t.at \in ResolveAt
  BY <1>3, <1>4 DEF ResolveAt
<1>7. /\ AllMarked(w)
      /\ ~raced /\ stale[s] = {} =>
           /\ AllEven(db, w, u.row) /\ Ahead(w, u)
           /\ \A i \in Inflows \cap DOMAIN w :
                w[i] = None => i \in Typed /\ HoldingOf[i] \in DOMAIN w
  BY <1>6, OwnSettled
<1> HIDE DEF t, u, w
<1>8. Landing(t)
  BY <1>2, <1>4, <1>5 DEF Landing
<1>9. ~raced /\ stale[s] = {} => Settled(db, w, t)
  BY <1>4, <1>6, <1>7, AnswerSettles DEF Ahead
<1>10. QED
  BY <1>3, <1>7, <1>8, <1>9, GoesOnBalanced DEF w

\* A claim neither adds a deposit nor takes one away.
LEMMA ClaimIsEven ==
  ASSUME NEW f, NEW w, NEW v, NEW o \in Outflows, NEW i \in Inflows, AllEven(f, w, o),
         DOMAIN v = DOMAIN w \cup {i}, \A k \in DOMAIN w : k # i => v[k] = w[k],
         v[i] # None, i \in DOMAIN w => w[i] # None, i \notin DOMAIN w => f[i] # None
  PROVE  AllEven(f, v, o)
<1>1. \A k \in Holdings \cup Arrivals : k # i /\ (k \in DOMAIN v <=> k \in DOMAIN w)
  BY Kinds
<1>2. ASSUME NEW h \in Holdings PROVE Even(f, v, o, h)
  <2>1. Even(f, w, o, h)
    BY DEF AllEven
  <2>2. Born(f, v, h) = Born(f, w, h) /\ Died(f, v, h) = Died(f, w, h)
    BY DEF Born, Died
  <2> DEFINE r == <<o, h>>
  <2>3. \A x \in Outflows : <<x, h>> \in Arrivals
    BY LegKeys
  <2>4. /\ h \in DOMAIN v <=> h \in DOMAIN w
        /\ r \in DOMAIN v <=> r \in DOMAIN w
        /\ h \in DOMAIN w => v[h] = w[h] /\ Held(v, h) = Held(w, h)
        /\ r \in DOMAIN w => Moved(v, r) = Moved(w, r) /\ (Adopts(v, r) <=> Adopts(w, r))
        /\ \A x \in Outflows : <<x, h>> \in DOMAIN v <=> <<x, h>> \in DOMAIN w
    BY <1>1, <2>3 DEF Held, Moved, Adopts
  <2> HIDE DEF r
  <2>5. /\ \A x \in Outflows : <<x, h>> \in DOMAIN v => x = o
        /\ h \in DOMAIN v => r \in DOMAIN v
        /\ h \in DOMAIN v /\ v[h] # None => Held(v, h) - Held(f, h) = Moved(v, r) - Moved(f, r)
        /\ r \in DOMAIN v /\ h \notin DOMAIN v => Moved(v, r) = Moved(f, r)
    BY <2>1, <2>4 DEF Even, r
  <2>6. \/ /\ Born(f, v, h) = {} /\ Died(f, v, h) = {}
           /\ (r \in DOMAIN v /\ Adopts(v, r)) <=> (r \in DOMAIN v /\ Adopts(f, r))
        \/ \E j \in Typed : /\ Born(f, v, h) = {} /\ Died(f, v, h) = {j}
                            /\ r \in DOMAIN v /\ Adopts(v, r)
                            /\ ~(r \in DOMAIN v /\ Adopts(f, r))
        \/ \E j \in Typed : /\ Born(f, v, h) = {j} /\ Died(f, v, h) = {}
                            /\ ~(r \in DOMAIN v /\ Adopts(v, r))
                            /\ r \in DOMAIN v /\ Adopts(f, r)
    BY <2>1, <2>2, <2>4 DEF Even, r
  <2>7. QED
    BY <2>5, <2>6 DEF Even, r
<1>3. \A j \in Typed \cap DOMAIN v : (f[j] = None <=> v[j] = None) \/ HoldingOf[j] \in Holdings
  BY DEF AllEven
<1>4. QED
  BY <1>2, <1>3 DEF AllEven

LEMMA ClaimWritesBalances ==
  ASSUME WInv, IInv', BInv, NEW s \in Sessions, ClaimWrites(s)
  PROVE  BInv'
<1> DEFINE u == task[s]
           i == Head(u.claims)
           row == [Sees(s)[i] EXCEPT !.group = u.group]
           w == IF Sees(s)[i] = None THEN <<>> ELSE Just(i, row)
           e == own[s]
           v == w ++ e
           b == [u EXCEPT !.claims = Tail(u.claims)]
           t == Onward(b)
<1>1. /\ u.at = "claimed" /\ Goto(s, t) /\ own' = [own EXCEPT ![s] = v]
      /\ db' = db /\ raced' = raced /\ stale' = stale
  BY DEF ClaimWrites, Write
<1>2. u \in AskType /\ u.claims # <<>> /\ i \in Inflows /\ u.claims \in Seq(Inflows)
  BY <1>1, OwnRows DEF TaskOK, AskType, Asking
<1>3. b \in BareType /\ b.row = u.row /\ b.into = u.into
  <2>1. Tail(u.claims) \in Seq(Inflows)
    BY <1>2
  <2>2. QED
    BY <1>2, <2>1 DEF AskType, BareType
<1>4. t.row = u.row /\ t.into = u.into /\ t.at \in {"claim", "arrive", "stamp"} /\ t.at \in ResolveAt
  <2> HIDE DEF b
  <2>1. QED
    BY <1>3, OnwardIs
<1>5. u.at \in ResolveAt
  BY <1>1 DEF ResolveAt
<1>6. /\ AllMarked(e) /\ u.row \in Outflows
      /\ ~raced /\ stale[s] = {} =>
           /\ AllEven(db, e, u.row) /\ Ahead(e, u)
           /\ \A j \in Inflows \cap DOMAIN e :
                e[j] = None => j \in Typed /\ HoldingOf[j] \in DOMAIN e
  BY <1>5, OwnSettled
<1>7. Sees(s)[i] # None => row # None
  <2>1. Sees(s)[i] # None => Sees(s)[i] \in InflowType
    BY <1>2, SeesAll DEF WInv
  <2>2. Sees(s)[i] # None => row \in InflowType
    BY <1>2, <2>1 DEF InflowType, AskType, Group
  <2>3. QED
    BY <2>2, NotNone
<1>8. /\ Sees(s)[i] # None => DOMAIN w = {i} /\ w[i] = row
      /\ Sees(s)[i] = None => DOMAIN w = {}
  <2> HIDE DEF row, i
  <2>1. DOMAIN Just(i, row) = {i} /\ Just(i, row)[i] = row
    BY JustOne
  <2>2. QED
    BY <2>1, EmptyDomain
<1> HIDE DEF row, w, e
<1>9. /\ DOMAIN v = DOMAIN w \cup DOMAIN e
      /\ \A k \in DOMAIN w : v[k] = w[k]
      /\ \A k \in DOMAIN e : k \notin DOMAIN w => v[k] = e[k]
  BY OverBoth
<1>10. (i \in DOMAIN e => Sees(s)[i] = e[i]) /\ (i \notin DOMAIN e => Sees(s)[i] = db[i])
  BY <1>2, OwnRows, LegKeys DEF e
<1> HIDE DEF u, i, v, b, t
<1>11. AllMarked(v)
  BY <1>2, <1>6, <1>8, <1>9, Kinds DEF AllMarked
<1>12. t.at # "arrived" /\ Landing(t)
  BY <1>4 DEF Landing
<1>13. ASSUME ~raced, stale[s] = {} PROVE Settled(db, v, t)
  <2>1. AnswerStands(db, own[s], read[s], task[s])
    BY <1>13, OwnRows
  <2>2. Sees(s)[i] # None
    BY <1>1, <1>5, <2>1 DEF AnswerStands, Unlinked, Sees, i, u
  <2>3. AllEven(db, v, u.row)
    BY <1>2, <1>6, <1>7, <1>8, <1>9, <1>10, <1>13, <2>2, ClaimIsEven
  <2>4. Ahead(v, t)
    <3> SUFFICES ASSUME NEW a \in DOMAIN t.into, NEW h \in Room[a]
                 PROVE  h \notin DOMAIN v /\ <<t.row, h>> \notin DOMAIN v
      BY DEF Ahead
    <3>1. a \in Accounts
      BY <1>2, <1>4, QuantitiesFacts DEF AskType
    <3>2. h \in Holdings /\ <<t.row, h>> \in Arrivals
      BY <1>4, <1>6, <3>1 DEF Holdings, Arrivals
    <3>3. h # i /\ <<t.row, h>> # i
      BY <1>2, <3>2, Kinds
    <3>4. h \notin DOMAIN e /\ <<t.row, h>> \notin DOMAIN e
      BY <1>4, <1>6, <1>13 DEF Ahead
    <3>5. QED
      BY <1>8, <1>9, <2>2, <3>3, <3>4
  <2>5. \A j \in Inflows \cap DOMAIN v : v[j] = None => j \in Typed /\ HoldingOf[j] \in DOMAIN v
    BY <1>6, <1>7, <1>8, <1>9, <1>13, <2>2
  <2>6. QED
    BY <1>4, <2>3, <2>4, <2>5, AnswerSettles
<1>14. QED
  BY <1>1, <1>11, <1>12, <1>13, GoesOnBalanced

\* An arrival lands beside its holding; the deposit it takes up, if any, leaves.
LEMMA LandingIsEven ==
  ASSUME NEW f, NEW e, NEW o \in Outflows, NEW h \in Holdings, NEW d \in Typed \cup {None},
         d # None => HoldingOf[d] = h /\ f[d] # None,
         NEW w, DOMAIN w = {h, <<o, h>>} \cup ({d} \ {None}), d # None => w[d] = None,
         AllEven(f, e, o), h \notin DOMAIN e, <<o, h>> \notin DOMAIN e,
         \A i \in Inflows \cap DOMAIN e :
           /\ f[i] # None
           /\ e[i] = None => i \in Typed /\ HoldingOf[i] \in DOMAIN e,
         Held(w, h) - Held(f, h) = Moved(w, <<o, h>>) - Moved(f, <<o, h>>),
         Adopts(w, <<o, h>>) <=> d # None, ~Adopts(f, <<o, h>>)
  PROVE  AllEven(f, w ++ e, o)
<1> DEFINE v == w ++ e
           key == <<o, h>>
<1>1. /\ DOMAIN v = DOMAIN w \cup DOMAIN e
      /\ \A k \in DOMAIN w : v[k] = w[k]
      /\ \A k \in DOMAIN e : k \notin DOMAIN w => v[k] = e[k]
  BY OverBoth
<1>2. key \in Arrivals /\ None \notin Inflows /\ None \notin Typed /\ (d # None => d \in Inflows)
  BY TransferReviewAssumption DEF Arrivals
<1> HIDE DEF v
<1>3. \A i \in Typed : i \in DOMAIN w <=> i = d
  BY <1>2, Kinds, TransferReviewAssumption
<1>4. ASSUME NEW x \in Holdings, x # h PROVE Even(f, v, o, x)
  <2>1. Even(f, e, o, x)
    BY DEF AllEven
  <2>2. \A i \in Typed : HoldingOf[i] = x => i \notin DOMAIN w
    BY <1>2, <1>3, <1>4
  <2>3. Born(f, v, x) = Born(f, e, x) /\ Died(f, v, x) = Died(f, e, x)
    BY <1>1, <2>2 DEF Born, Died
  <2> DEFINE r == <<o, x>>
  <2>4. /\ x \notin DOMAIN w
        /\ \A y \in Outflows : <<y, x>> \notin DOMAIN w
    <3>1. \A y \in Outflows : <<y, x>> \in Arrivals /\ <<y, x>> # key
      BY <1>4, LegKeys
    <3>2. QED
      BY <1>2, <1>4, <3>1, Kinds
  <2>5. /\ x \in DOMAIN v <=> x \in DOMAIN e
        /\ r \in DOMAIN v <=> r \in DOMAIN e
        /\ x \in DOMAIN e => v[x] = e[x] /\ Held(v, x) = Held(e, x)
        /\ r \in DOMAIN e => Moved(v, r) = Moved(e, r) /\ (Adopts(v, r) <=> Adopts(e, r))
        /\ \A y \in Outflows : <<y, x>> \in DOMAIN v <=> <<y, x>> \in DOMAIN e
    BY <1>1, <2>4 DEF Held, Moved, Adopts
  <2> HIDE DEF r
  <2>6. /\ \A y \in Outflows : <<y, x>> \in DOMAIN v => y = o
        /\ x \in DOMAIN v => r \in DOMAIN v
        /\ x \in DOMAIN v /\ v[x] # None => Held(v, x) - Held(f, x) = Moved(v, r) - Moved(f, r)
        /\ r \in DOMAIN v /\ x \notin DOMAIN v => Moved(v, r) = Moved(f, r)
    BY <2>1, <2>5 DEF Even, r
  <2>7. \/ /\ Born(f, v, x) = {} /\ Died(f, v, x) = {}
           /\ (r \in DOMAIN v /\ Adopts(v, r)) <=> (r \in DOMAIN v /\ Adopts(f, r))
        \/ \E j \in Typed : /\ Born(f, v, x) = {} /\ Died(f, v, x) = {j}
                            /\ r \in DOMAIN v /\ Adopts(v, r)
                            /\ ~(r \in DOMAIN v /\ Adopts(f, r))
        \/ \E j \in Typed : /\ Born(f, v, x) = {j} /\ Died(f, v, x) = {}
                            /\ ~(r \in DOMAIN v /\ Adopts(v, r))
                            /\ r \in DOMAIN v /\ Adopts(f, r)
    BY <2>1, <2>3, <2>5 DEF Even, r
  <2>8. QED
    BY <2>6, <2>7 DEF Even, r
<1>5. Even(f, v, o, h)
  <2>1. /\ h \in DOMAIN v /\ key \in DOMAIN v
        /\ Held(v, h) = Held(w, h) /\ Moved(v, key) = Moved(w, key)
        /\ Adopts(v, key) <=> Adopts(w, key)
    BY <1>1 DEF Held, Moved, Adopts
  <2>2. \A y \in Outflows : <<y, h>> \in DOMAIN v => y = o
    <3>1. \A y \in Outflows : <<y, h>> \in DOMAIN e => y = o
      BY DEF AllEven, Even
    <3>2. ASSUME NEW y \in Outflows, <<y, h>> \in DOMAIN w PROVE y = o
      <4>1. <<y, h>> \in Arrivals
        BY LegKeys
      <4>2. <<y, h>> = key
        BY <1>2, <3>2, <4>1, Kinds
      <4>3. QED
        BY <4>2
    <3>3. QED
      BY <1>1, <3>1, <3>2
  <2>3. \A i \in Typed \cap DOMAIN e : HoldingOf[i] = h => f[i] # None /\ e[i] # None
    BY TransferReviewAssumption
  <2>4. Born(f, v, h) = {}
    BY <1>1, <1>2, <1>3, <2>3 DEF Born
  <2>5. Died(f, v, h) = {d} \cap Typed
    <3>1. \A i \in Typed \cap DOMAIN v : HoldingOf[i] = h /\ f[i] # None /\ v[i] = None => i = d
      BY <1>1, <1>3, <2>3
    <3>2. d \in Typed => /\ d \in DOMAIN v /\ v[d] = None /\ f[d] # None /\ HoldingOf[d] = h
      BY <1>1, <1>2, <1>3, TransferReviewAssumption
    <3>3. QED
      BY <3>1, <3>2 DEF Died
  <2>6. \/ Died(f, v, h) = {} /\ d = None
        \/ Died(f, v, h) = {d} /\ d \in Typed /\ d # None
    BY <1>2, <2>5, TransferReviewAssumption
  <2> HIDE DEF key
  <2>7. /\ h \in DOMAIN v /\ v[h] # None => Held(v, h) - Held(f, h) = Moved(v, key) - Moved(f, key)
        /\ h \in DOMAIN v => key \in DOMAIN v
        /\ key \in DOMAIN v /\ h \notin DOMAIN v => Moved(v, key) = Moved(f, key)
    BY <2>1 DEF key
  <2>8. \/ /\ Born(f, v, h) = {} /\ Died(f, v, h) = {}
           /\ (key \in DOMAIN v /\ Adopts(v, key)) <=> (key \in DOMAIN v /\ Adopts(f, key))
        \/ \E j \in Typed : /\ Born(f, v, h) = {} /\ Died(f, v, h) = {j}
                            /\ key \in DOMAIN v /\ Adopts(v, key)
                            /\ ~(key \in DOMAIN v /\ Adopts(f, key))
        \/ \E j \in Typed : /\ Born(f, v, h) = {j} /\ Died(f, v, h) = {}
                            /\ ~(key \in DOMAIN v /\ Adopts(v, key))
                            /\ key \in DOMAIN v /\ Adopts(f, key)
    BY <2>1, <2>4, <2>6 DEF key
  <2>9. QED
    BY <2>2, <2>7, <2>8 DEF Even, key
<1>6. \A i \in Typed \cap DOMAIN v : (f[i] = None <=> v[i] = None) \/ HoldingOf[i] \in Holdings
  <2>1. \A i \in Typed \cap DOMAIN e : (f[i] = None <=> e[i] = None) \/ HoldingOf[i] \in Holdings
    BY DEF AllEven
  <2>2. QED
    BY <1>1, <1>2, <1>3, <2>1
<1>7. QED
  BY <1>4, <1>5, <1>6 DEF AllEven, v

\* The rooms of two accounts have no holding in common.
LEMMA Rooms ==
  /\ \A a \in Accounts : \A h \in Room[a] : h \in Holdings
  /\ \A a, b \in Accounts : a # b => Room[a] \cap Room[b] = {}
BY TransferReviewAssumption DEF Holdings

LEMMA LandsBalances ==
  ASSUME WInv, IInv', BInv, NEW s \in Sessions, task[s].at = "arrived",
         Goto(s, Onward(Remains(task[s]))), db' = db, raced' = raced, stale' = stale,
         NEW h \in Room[task[s].account], NEW d \in Typed \cup {None},
         d # None => HoldingOf[d] = h /\ d = task[s].adopts,
         NEW w, DOMAIN w = {h, <<task[s].row, h>>} \cup ({d} \ {None}), d # None => w[d] = None,
         own' = [own EXCEPT ![s] = w ++ own[s]],
         Marks(<<task[s].row, h>>, w[<<task[s].row, h>>]),
         ~raced /\ stale[s] = {} =>
           /\ Held(w, h) - Held(db, h) =
                Moved(w, <<task[s].row, h>>) - Moved(db, <<task[s].row, h>>)
           /\ Adopts(w, <<task[s].row, h>>) <=> d # None
           /\ ~Adopts(db, <<task[s].row, h>>)
  PROVE  BInv'
<1> DEFINE u == task[s]
           e == own[s]
           t == Onward(Remains(u))
           v == w ++ e
           key == <<u.row, h>>
<1>1. u \in ArrivedType /\ u.account \in DOMAIN u.into
  BY OwnRows DEF TaskOK
<1>2. u.row \in Outflows /\ u.account \in Accounts /\ u.into \in Quantities
  BY <1>1 DEF ArrivedType
<1>3. h \in Holdings /\ key \in Arrivals
  BY <1>2, Rooms DEF Arrivals
<1>4. /\ t.row = u.row /\ t.at \in {"claim", "arrive", "stamp"} /\ t.at \in ResolveAt
      /\ DOMAIN t.into = DOMAIN u.into \ {u.account}
  <2> DEFINE b == Remains(u)
  <2>1. b \in BareType
    BY <1>1, RemainsTyped
  <2>2. b.row = u.row /\ DOMAIN b.into = DOMAIN u.into \ {u.account}
    BY DEF Remains
  <2> HIDE DEF b
  <2>3. QED
    BY <2>1, <2>2, OnwardIs DEF b
<1>5. u.at \in ResolveAt
  BY DEF ResolveAt
<1>6. /\ AllMarked(e)
      /\ ~raced /\ stale[s] = {} =>
           /\ AllEven(db, e, u.row) /\ Ahead(e, u)
           /\ \A i \in Inflows \cap DOMAIN e :
                /\ db[i] # None
                /\ e[i] = None => i \in Typed /\ HoldingOf[i] \in DOMAIN e
  BY <1>5, OwnSettled
<1>7. ASSUME ~raced, stale[s] = {}, d # None PROVE db[d] # None
  <2>1. AnswerStands(db, e, read[s], u)
    BY <1>7, OwnRows
  <2>2. Sees(s)[d] # None
    BY <1>5, <1>7, <2>1 DEF AnswerStands, Unlinked, Sees
  <2>3. d \in Inflows /\ d \in Keys
    BY <1>7, LegKeys, TransferReviewAssumption
  <2>4. CASE d \in DOMAIN e
    BY <1>6, <1>7, <2>3, <2>4
  <2>5. CASE d \notin DOMAIN e
    BY <2>2, <2>3, <2>5, OwnRows
  <2>6. QED
    BY <2>4, <2>5
<1>8. /\ own' = [own EXCEPT ![s] = v] /\ Goto(s, t)
      /\ Marks(key, w[key])
      /\ DOMAIN w = {h, key} \cup ({d} \ {None})
  OBVIOUS
<1>9. /\ DOMAIN v = DOMAIN w \cup DOMAIN e
      /\ \A k \in DOMAIN w : v[k] = w[k]
      /\ \A k \in DOMAIN e : k \notin DOMAIN w => v[k] = e[k]
  BY OverBoth
<1>10. d # None => d \in Inflows
  BY TransferReviewAssumption
<1>11. ~raced /\ stale[s] = {} =>
         /\ Held(w, h) - Held(db, h) = Moved(w, key) - Moved(db, key)
         /\ Adopts(w, key) <=> d # None
         /\ ~Adopts(db, key)
  OBVIOUS
<1> DEFINE o == u.row
<1>12. o \in Outflows /\ key = <<o, h>>
  BY <1>2
<1> HIDE DEF u, e, t, v, key, o
<1>13. AllMarked(v)
  <2>1. \A r \in Arrivals : r \in DOMAIN w => r = key
    BY <1>3, <1>8, <1>10, Kinds
  <2>2. QED
    BY <1>6, <1>8, <1>9, <2>1 DEF AllMarked
<1>14. t.at # "arrived" /\ Landing(t)
  BY <1>4 DEF Landing
<1>15. ASSUME ~raced, stale[s] = {} PROVE Settled(db, v, t)
  <2>1. h \notin DOMAIN e /\ key \notin DOMAIN e
    BY <1>1, <1>6, <1>15 DEF Ahead, u, key
  <2>2. AllEven(db, v, o)
    <3> DEFINE f == db
    <3>1. /\ AllEven(f, e, o) /\ h \notin DOMAIN e /\ <<o, h>> \notin DOMAIN e
          /\ \A i \in Inflows \cap DOMAIN e :
               /\ f[i] # None
               /\ e[i] = None => i \in Typed /\ HoldingOf[i] \in DOMAIN e
          /\ Held(w, h) - Held(f, h) = Moved(w, <<o, h>>) - Moved(f, <<o, h>>)
          /\ Adopts(w, <<o, h>>) <=> d # None
          /\ ~Adopts(f, <<o, h>>)
          /\ d # None => HoldingOf[d] = h /\ f[d] # None
          /\ DOMAIN w = {h, <<o, h>>} \cup ({d} \ {None})
          /\ d # None => w[d] = None
      BY <1>6, <1>7, <1>8, <1>11, <1>12, <1>15, <2>1 DEF o
    <3> HIDE DEF f
    <3>2. AllEven(f, w ++ e, o)
      BY <1>3, <1>12, <3>1, LandingIsEven
    <3>3. QED
      BY <3>2 DEF f, v
  <2>3. Ahead(v, t)
    <3> SUFFICES ASSUME NEW a \in DOMAIN t.into, NEW x \in Room[a]
                 PROVE  x \notin DOMAIN v /\ <<t.row, x>> \notin DOMAIN v
      BY DEF Ahead
    <3>1. a \in DOMAIN u.into /\ a # u.account /\ a \in Accounts
      BY <1>2, <1>4, QuantitiesFacts
    <3>2. x \in Holdings /\ <<t.row, x>> \in Arrivals
      BY <1>2, <1>4, <3>1, Rooms DEF Arrivals
    <3>3. x # h
      BY <1>2, <3>1, Rooms DEF u
    <3>4. x \notin DOMAIN w /\ <<t.row, x>> \notin DOMAIN w
      <4>1. <<t.row, x>> # key
        BY <3>3 DEF key
      <4>2. QED
        BY <1>3, <1>8, <1>10, <3>2, <3>3, <4>1, Kinds
    <3>5. x \notin DOMAIN e /\ <<t.row, x>> \notin DOMAIN e
      BY <1>4, <1>6, <1>15, <3>1 DEF Ahead
    <3>6. QED
      BY <1>9, <3>4, <3>5
  <2>4. \A i \in Inflows \cap DOMAIN v : v[i] = None => i \in Typed /\ HoldingOf[i] \in DOMAIN v
    <3>1. \A i \in Inflows : i \in DOMAIN w => i = d /\ d # None
      BY <1>3, <1>8, Kinds
    <3>2. h \in DOMAIN v /\ (d # None => HoldingOf[d] = h)
      BY <1>8, <1>9
    <3>3. QED
      BY <1>6, <1>9, <1>15, <3>1, <3>2
  <2>5. t.row = o
    BY <1>4 DEF o
  <2>6. QED
    BY <1>4, <2>2, <2>3, <2>4, <2>5, AnswerSettles
<1>16. QED
  BY <1>8, <1>13, <1>14, <1>15, GoesOnBalanced

LEMMA ArriveInHoldingBalances ==
  ASSUME WInv, IInv', BInv, NEW s \in Sessions, ArriveInHolding(s)
  PROVE  BInv'
<1> DEFINE u == task[s]
           h == u.holding
           d == u.adopts
           qty == u.into[u.account]
           key == <<u.row, h>>
           old == Sees(s)[key]
           adopted == IF d = None THEN <<>> ELSE Just(d, None)
           state == IF d # None THEN Sees(s)[h]
                    ELSE [Sees(s)[h] EXCEPT !.balance = MovedBalance(s, key, qty), !.touched = TRUE]
           arrival == IF old = None
                      THEN [qty |-> qty, group |-> u.group, opened |-> FALSE,
                            moved |-> d = None, adopts |-> d]
                      ELSE [old EXCEPT !.qty = qty, !.group = u.group]
           landed == Just(h, state) ++ Just(key, arrival)
           w == landed ++ adopted
<1>1. u \in ArrivedType /\ u.account \in DOMAIN u.into /\ h # None /\ u.at = "arrived"
  BY OwnRows DEF ArriveInHolding, TaskOK
<1>2. /\ u.row \in Outflows /\ h \in Holdings /\ d \in Typed \cup {None}
      /\ u.into \in Quantities
  BY <1>1 DEF ArrivedType
<1>3. key \in Arrivals /\ key \in Keys /\ h \in Keys /\ qty \in Nat
  BY <1>1, <1>2, LegKeys, QuantitiesFacts
<1>4. Sees(s)[h] \in HoldingType /\ old \in ArrivalType \cup {None}
  BY <1>2, <1>3, SeesAll DEF ArriveInHolding, WInv
<1>5. Landing(u)
  BY DEF BInv, AllMarks
<1>6. h \in Room[u.account] /\ (d # None => HoldingOf[d] = h)
  BY <1>1, <1>5 DEF Landing
<1>7. Marks(key, arrival)
  <2>1. old # None => Marks(key, old)
    BY <1>3, SeesMarked
  <2>2. CASE old = None
    BY <1>2, <1>6, <2>2 DEF Marks
  <2>3. CASE old # None
    <3>1. /\ arrival.opened = old.opened /\ arrival.moved = old.moved
          /\ arrival.adopts = old.adopts
      BY <1>4, <2>3 DEF ArrivalType
    <3> HIDE DEF arrival, old
    <3>2. QED
      BY <2>1, <2>3, <3>1 DEF Marks
  <2>4. QED
    BY <2>2, <2>3
<1>8. /\ Sees(s)[h] # None /\ state # None /\ arrival # None
      /\ old = None => arrival.qty = qty /\ (arrival.moved <=> d = None) /\ arrival.adopts = d
      /\ d # None => state = Sees(s)[h]
      /\ d = None /\ old = None => /\ state.balance = Sees(s)[h].balance + qty
                                   /\ state.stated = Sees(s)[h].stated
                                   /\ state.left = Sees(s)[h].left
      /\ old = None => ~arrival.opened
  <2>1. /\ MovedBalance(s, key, qty) \in Int
        /\ old = None => MovedBalance(s, key, qty) = Sees(s)[h].balance + qty
    BY <1>3, <1>4, MovedBalanceIs
  <2>2. state \in HoldingType
    BY <1>4, <2>1 DEF HoldingType
  <2>3. arrival # None
    <3>1. arrival \in [qty : Nat, group : Group, opened : BOOLEAN,
                       moved : BOOLEAN, adopts : Typed \cup {None}]
      BY <1>1, <1>2, <1>3, <1>4 DEF ArrivalType, ArrivedType, Group
    <3>2. QED
      BY <3>1, NotNone DEF ArrivalType, Group
  <2>4. d = None /\ old = None => /\ state.balance = Sees(s)[h].balance + qty
                                  /\ state.stated = Sees(s)[h].stated
                                  /\ state.left = Sees(s)[h].left
    BY <1>4, <2>1 DEF HoldingType
  <2>5. QED
    BY <1>4, <2>2, <2>3, <2>4, NotNone
<1>9. /\ DOMAIN adopted = {d} \ {None}
      /\ d # None => adopted[d] = None
  <2>1. CASE d = None
    BY <2>1, EmptyDomain
  <2>2. CASE d # None
    <3> HIDE DEF d
    <3>1. DOMAIN Just(d, None) = {d} /\ Just(d, None)[d] = None
      BY JustOne
    <3>2. QED
      BY <2>2, <3>1
  <2>3. QED
    BY <2>1, <2>2
<1>10. /\ own' = [own EXCEPT ![s] = w ++ own[s]]
       /\ db' = db /\ raced' = raced /\ stale' = stale
       /\ Goto(s, Onward(Remains(u)))
  BY DEF ArriveInHolding, Remains, Write
<1>11. h # key /\ (d # None => d # h /\ d # key)
  BY <1>2, <1>3, Kinds, TransferReviewAssumption
<1>12. ASSUME ~raced, stale[s] = {}
       PROVE  /\ Sees(s)[h] = db[h] /\ old = None /\ db[key] = None
  <2>1. Ahead(own[s], u)
    <3>1. u.at \in ResolveAt
      BY <1>1 DEF ResolveAt
    <3>2. QED
      BY <1>12, <3>1, OwnSettled
  <2>2. h \notin DOMAIN own[s] /\ key \notin DOMAIN own[s]
    BY <1>1, <1>6, <2>1 DEF Ahead
  <2>3. Sees(s)[h] = db[h] /\ old = db[key]
    BY <1>3, <2>2, OwnRows
  <2>4. db[u.row].review = None
    <3>1. AnswerStands(db, own[s], read[s], u)
      BY <1>12, OwnRows
    <3>2. u.at \in ResolveAt
      BY <1>1 DEF ResolveAt
    <3>3. QED
      BY <3>1, <3>2 DEF AnswerStands, Pending
  <2>5. db[key] = None
    <3>1. Answered(db)
      BY <1>12 DEF WInv, Unraced, Whole
    <3>2. None \notin {"internal", "split"}
      BY TransferReviewAssumption DEF Reviews
    <3>3. QED
      BY <1>2, <2>4, <3>1, <3>2 DEF Answered
  <2>6. QED
    BY <2>3, <2>5
<1> HIDE DEF state, arrival, adopted, old, h, d, key, qty, landed, w
<1>13. /\ DOMAIN landed = {h, key} /\ landed[h] = state /\ landed[key] = arrival
  <2>1. landed = Just(h, state) ++ Just(key, arrival)
    BY DEF landed
  <2>2. QED
    BY <1>11, <2>1 DEF ++, Just
<1>14. /\ DOMAIN w = DOMAIN landed \cup DOMAIN adopted
       /\ \A k \in DOMAIN landed : w[k] = landed[k]
       /\ \A k \in DOMAIN adopted : k \notin DOMAIN landed => w[k] = adopted[k]
  BY OverBoth DEF w
<1>15. /\ DOMAIN w = {h, key} \cup ({d} \ {None})
       /\ w[h] = state /\ w[key] = arrival
       /\ d # None => w[d] = None
  BY <1>9, <1>11, <1>13, <1>14
<1>16. ~raced /\ stale[s] = {} =>
         /\ Held(w, h) - Held(db, h) = Moved(w, key) - Moved(db, key)
         /\ Adopts(w, key) <=> d # None
         /\ ~Adopts(db, key)
  <2> SUFFICES ASSUME ~raced, stale[s] = {}
               PROVE  /\ Held(w, h) - Held(db, h) = Moved(w, key) - Moved(db, key)
                      /\ Adopts(w, key) <=> d # None
                      /\ ~Adopts(db, key)
    OBVIOUS
  <2>1. Sees(s)[h] = db[h] /\ old = None /\ db[key] = None
    BY <1>12
  <2>2. Moved(db, key) = 0 /\ ~Adopts(db, key) /\ (Adopts(w, key) <=> d # None)
    BY <1>8, <1>15, <2>1 DEF Moved, Adopts
  <2>3. /\ Held(w, h) = state.balance - state.stated - state.left
        /\ Held(db, h) = Sees(s)[h].balance - Sees(s)[h].stated - Sees(s)[h].left
    BY <1>8, <1>15, <2>1 DEF Held
  <2>4. Moved(w, key) = IF d = None THEN qty ELSE 0
    BY <1>8, <1>15, <2>1 DEF Moved
  <2>5. Sees(s)[h].balance \in Int /\ Sees(s)[h].stated \in Int /\ Sees(s)[h].left \in Int
    BY <1>4 DEF HoldingType
  <2>6. CASE d = None
    BY <1>3, <1>8, <2>1, <2>2, <2>3, <2>4, <2>5, <2>6
  <2>7. CASE d # None
    BY <1>8, <2>2, <2>3, <2>4, <2>5, <2>7
  <2>8. QED
    BY <2>2, <2>6, <2>7
<1>17. /\ task[s].at = "arrived" /\ Goto(s, Onward(Remains(task[s])))
       /\ h \in Room[task[s].account]
       /\ key = <<task[s].row, h>>
       /\ d # None => HoldingOf[d] = h /\ d = task[s].adopts
       /\ Marks(key, w[key])
  BY <1>1, <1>6, <1>7, <1>10, <1>15 DEF u, d, key
<1> HIDE DEF u
<1>18. /\ Marks(<<task[s].row, h>>, w[<<task[s].row, h>>])
       /\ DOMAIN w = {h, <<task[s].row, h>>} \cup ({d} \ {None})
       /\ ~raced /\ stale[s] = {} =>
            /\ Held(w, h) - Held(db, h) =
                 Moved(w, <<task[s].row, h>>) - Moved(db, <<task[s].row, h>>)
            /\ Adopts(w, <<task[s].row, h>>) <=> d # None
            /\ ~Adopts(db, <<task[s].row, h>>)
  BY <1>15, <1>16, <1>17
<1>19. QED
  BY <1>2, <1>10, <1>15, <1>17, <1>18, LandsBalances

LEMMA ArriveInNewHoldingBalances ==
  ASSUME WInv, IInv', BInv, NEW s \in Sessions, ArriveInNewHolding(s)
  PROVE  BInv'
<1> DEFINE u == task[s]
           qty == u.into[u.account]
           unused == {n \in Room[u.account] : Sees(s)[n] = None /\ Free(s, {n, <<u.row, n>>})}
           h == CHOOSE x \in unused : TRUE
           key == <<u.row, h>>
           state == [balance |-> qty, stated |-> 0, left |-> 0, touched |-> FALSE]
           arrival == [qty |-> qty, group |-> u.group, opened |-> TRUE, moved |-> FALSE,
                       adopts |-> None]
           w == Just(h, state) ++ Just(key, arrival)
<1>1. u \in ArrivedType /\ u.account \in DOMAIN u.into /\ unused # {} /\ u.at = "arrived"
  BY OwnRows DEF ArriveInNewHolding, TaskOK
<1>2. u.row \in Outflows /\ u.account \in Accounts /\ u.group \in Group /\ u.into \in Quantities
  BY <1>1 DEF ArrivedType
<1>3. h \in unused
  BY <1>1
<1>4. h \in Room[u.account] /\ h \in Holdings /\ Sees(s)[h] = None
  BY <1>2, <1>3 DEF Holdings
<1>5. qty \in Nat
  BY <1>1, <1>2, QuantitiesFacts
<1>6. /\ own' = [own EXCEPT ![s] = w ++ own[s]]
      /\ db' = db /\ raced' = raced /\ stale' = stale
      /\ Goto(s, Onward(Remains(u)))
  BY DEF ArriveInNewHolding, Remains, Write
<1>7. state \in HoldingType /\ arrival \in ArrivalType
  BY <1>2, <1>5 DEF HoldingType, ArrivalType, Group
<1>8. /\ state.balance = qty /\ state.stated = 0 /\ state.left = 0 /\ arrival.qty = qty
      /\ arrival.opened /\ ~arrival.moved /\ arrival.adopts = None
  BY <1>5
<1>9. Marks(key, arrival)
  BY <1>8 DEF Marks
<1> HIDE DEF unused, h, u
<1>10. key \in Arrivals /\ key \in Keys /\ h \in Keys
  BY <1>2, <1>4, LegKeys
<1>11. state # None /\ arrival # None /\ h # key
  BY <1>4, <1>7, <1>10, NotNone, Kinds
<1> HIDE DEF state, arrival, key, w
<1>12. DOMAIN w = {h, key} /\ w[h] = state /\ w[key] = arrival
  <2>1. w = Just(h, state) ++ Just(key, arrival)
    BY DEF w
  <2>2. QED
    BY <1>11, <2>1 DEF ++, Just
<1>13. ASSUME ~raced, stale[s] = {} PROVE db[h] = None /\ db[key] = None
  <2>1. Ahead(own[s], u)
    <3>1. u.at \in ResolveAt
      BY <1>1 DEF ResolveAt
    <3>2. QED
      BY <1>13, <3>1, OwnSettled DEF u
  <2>2. h \notin DOMAIN own[s]
    BY <1>1, <1>4, <2>1 DEF Ahead
  <2>3. db[h] = None
    BY <1>4, <1>10, <2>2, OwnRows
  <2>4. HoldingsExist(db)
    BY DEF WInv, Always
  <2>5. QED
    BY <1>2, <1>4, <2>3, <2>4 DEF HoldingsExist, key
<1>14. ~raced /\ stale[s] = {} =>
         /\ Held(w, h) - Held(db, h) = Moved(w, key) - Moved(db, key)
         /\ Adopts(w, key) <=> None # None
         /\ ~Adopts(db, key)
  <2> SUFFICES ASSUME ~raced, stale[s] = {}
               PROVE  /\ Held(w, h) - Held(db, h) = Moved(w, key) - Moved(db, key)
                      /\ ~Adopts(w, key) /\ ~Adopts(db, key)
    OBVIOUS
  <2>1. Held(db, h) = 0 /\ Moved(db, key) = 0 /\ ~Adopts(db, key)
    BY <1>13 DEF Held, Moved, Adopts
  <2>2. Held(w, h) = qty - 0 - 0 /\ Moved(w, key) = qty /\ ~Adopts(w, key)
    BY <1>8, <1>11, <1>12 DEF Held, Moved, Adopts
  <2> HIDE DEF qty
  <2>3. QED
    BY <1>5, <2>1, <2>2
<1>15. /\ task[s].at = "arrived" /\ Goto(s, Onward(Remains(task[s])))
       /\ h \in Room[task[s].account] /\ key = <<task[s].row, h>> /\ Marks(key, w[key])
  BY <1>1, <1>4, <1>6, <1>9, <1>12 DEF u, key
<1> DEFINE d == None
<1>16. /\ Marks(<<task[s].row, h>>, w[<<task[s].row, h>>])
       /\ DOMAIN w = {h, <<task[s].row, h>>} \cup ({d} \ {None})
       /\ d \in Typed \cup {None} /\ d = None
       /\ ~raced /\ stale[s] = {} =>
            /\ Held(w, h) - Held(db, h) =
                 Moved(w, <<task[s].row, h>>) - Moved(db, <<task[s].row, h>>)
            /\ Adopts(w, <<task[s].row, h>>) <=> d # None
            /\ ~Adopts(db, <<task[s].row, h>>)
  BY <1>12, <1>14, <1>15
<1> HIDE DEF d
<1>17. QED
  BY <1>6, <1>15, <1>16, LandsBalances
-----------------------------------------------------------------------------
\* The statements that take an answer back.

LEMMA WithdrawArrivalsBalances ==
  ASSUME WInv, IInv', BInv, NEW s \in Sessions, WithdrawArrivals(s)
  PROVE  BInv'
<1> DEFINE u == task[s]
           gone == ArrivalsIn(s, u.row, u.only)
           withdrawn == [h \in gone |-> Sees(s)[<<u.row, h>>]]
           closes == {h \in gone : withdrawn[h].opened /\ Untouched(s, u.row, h)}
           w == [r \in {u.row} \X gone |-> None]
           v == w ++ own[s]
           t == [at |-> "undo", row |-> u.row, group |-> u.group, by |-> u.by,
                 part |-> u.part, claim |-> u.claim, arrivals |-> withdrawn,
                 closes |-> closes]
<1>1. u \in WithdrawType /\ u.at = "withdraw" /\ u.row \in Outflows /\ u.only \subseteq Holdings
  BY OwnRows DEF WithdrawArrivals, TaskOK, WithdrawType
<1>2. /\ Goto(s, t) /\ own' = [own EXCEPT ![s] = v]
      /\ db' = db /\ raced' = raced /\ stale' = stale
  BY DEF WithdrawArrivals, Write
<1>3. DOMAIN w = {u.row} \X gone /\ \A r \in DOMAIN w : w[r] = None
  OBVIOUS
<1>4. gone \subseteq Holdings
  BY <1>1 DEF ArrivalsIn
<1>5. /\ \A h \in closes : withdrawn[h].opened
      /\ DOMAIN withdrawn = gone
      /\ \A h \in gone : withdrawn[h] = Sees(s)[<<u.row, h>>]
  OBVIOUS
<1>6. t.at = "undo" /\ t.row = u.row /\ t.closes = closes /\ t.arrivals = withdrawn
  OBVIOUS
<1>7. \A o, h : <<o, h>> \in DOMAIN w <=> o = u.row /\ h \in gone
  BY <1>3
<1>8. \A k \in DOMAIN w : k \in Arrivals
  BY <1>1, <1>3, <1>4 DEF Arrivals
<1> HIDE DEF u, gone, withdrawn, closes, w, t
<1>9. \A k \in DOMAIN w : k \notin Inflows /\ k \notin Holdings /\ w[k] = None
  BY <1>3, <1>8, Kinds
<1>10. /\ DOMAIN v = DOMAIN w \cup DOMAIN own[s]
       /\ \A k \in DOMAIN w : v[k] = w[k]
       /\ \A k \in DOMAIN own[s] : k \notin DOMAIN w => v[k] = own[s][k]
  BY OverBoth
<1> HIDE DEF v
<1>11. AllMarked(v)
  <2>1. AllMarked(own[s])
    BY DEF BInv, AllMarks
  <2>2. QED
    BY <1>9, <1>10, <2>1 DEF AllMarked
<1>12. Landing(t)
  BY <1>6 DEF Landing
<1>13. ASSUME ~raced, stale[s] = {} PROVE Settled(db, v, t)
  <2>1. NothingOf(own[s])
    <3>1. Settled(db, own[s], u)
      BY <1>13 DEF BInv, Balanced, u
    <3>2. u.at \notin ResolveAt \cup {"undo", "clear", "part"}
      BY <1>1 DEF ResolveAt
    <3>3. QED
      BY <3>1, <3>2 DEF Settled
  <2>2. DOMAIN v \cap (Inflows \cup Holdings) = {}
    BY <1>9, <1>10, <2>1 DEF NothingOf
  <2>3. \A x \in Outflows, h \in Holdings : <<x, h>> \in DOMAIN v <=> x = t.row /\ h \in DOMAIN t.arrivals
    <3>1. \A x \in Outflows, h \in Holdings : <<x, h>> \notin DOMAIN own[s]
      BY <2>1, LegKeys DEF NothingOf
    <3>2. QED
      BY <1>5, <1>6, <1>7, <1>10, <3>1
  <2>4. ASSUME NEW h \in DOMAIN t.arrivals
        PROVE  v[<<t.row, h>>] = None /\ db[<<t.row, h>>] = t.arrivals[h]
    <3>1. h \in gone /\ h \in Holdings /\ <<u.row, h>> \in Arrivals /\ <<u.row, h>> \in Keys
      BY <1>1, <1>4, <1>5, <1>6, LegKeys
    <3>2. v[<<u.row, h>>] = None
      BY <1>7, <1>9, <1>10, <3>1
    <3>3. Sees(s)[<<u.row, h>>] = db[<<u.row, h>>]
      BY <2>1, <3>1, OwnRows DEF NothingOf
    <3>4. QED
      BY <1>5, <1>6, <3>1, <3>2, <3>3
  <2>5. \A h \in t.closes : t.arrivals[h].opened
    BY <1>5, <1>6
  <2>6. t.at \notin ResolveAt \cup {"clear", "part"} /\ t.at \in ResolveAt \cup {"undo", "clear", "part"}
    BY <1>6 DEF ResolveAt
  <2>7. QED
    BY <2>2, <2>3, <2>4, <2>5, <2>6 DEF Settled
<1>14. QED
  BY <1>2, <1>11, <1>12, <1>13, GoesOnBalanced

\* Of the adopted deposits, one is put back in each holding that had adopted one.
LEMMA PutBackPlaces ==
  ASSUME NEW s, NEW f, \A i \in Adopted(f) : Spare(s, i) # {},
         \A h \in DOMAIN f : f[h].adopts # None => HoldingOf[f[h].adopts] = h
  PROVE  /\ \A x \in DOMAIN PutBack(s, f) : /\ x \in Typed /\ HoldingOf[x] \in DOMAIN f
                                            /\ f[HoldingOf[x]].adopts # None
         /\ \A h \in DOMAIN f : f[h].adopts # None =>
              \E x \in DOMAIN PutBack(s, f) :
                \A y \in DOMAIN PutBack(s, f) : HoldingOf[y] = h <=> y = x
<1> DEFINE again(i) == CHOOSE x \in Spare(s, i) : TRUE
           back == DOMAIN PutBack(s, f)
<1>1. back = {again(i) : i \in Adopted(f)}
  BY DEF PutBack
<1>2. \A i \in Adopted(f) : again(i) \in Typed /\ HoldingOf[again(i)] = HoldingOf[i]
  <2> SUFFICES ASSUME NEW i \in Adopted(f)
               PROVE  again(i) \in Typed /\ HoldingOf[again(i)] = HoldingOf[i]
    OBVIOUS
  <2>1. again(i) \in Spare(s, i)
    OBVIOUS
  <2> HIDE DEF again
  <2>2. QED
    BY <2>1 DEF Spare
<1>3. \A i : i \in Adopted(f) <=> \E h \in DOMAIN f : i = f[h].adopts /\ f[h].adopts # None
  BY DEF Adopted
<1> HIDE DEF again, back
<1>4. ASSUME NEW x \in back
      PROVE  x \in Typed /\ HoldingOf[x] \in DOMAIN f /\ f[HoldingOf[x]].adopts # None
  <2>1. PICK i \in Adopted(f) : x = again(i)
    BY <1>1
  <2>2. PICK h \in DOMAIN f : i = f[h].adopts /\ f[h].adopts # None
    BY <1>3
  <2>3. HoldingOf[x] = h
    BY <1>2, <2>1, <2>2
  <2>4. QED
    BY <1>2, <2>1, <2>2, <2>3
<1>5. ASSUME NEW h \in DOMAIN f, f[h].adopts # None
      PROVE  \E x \in back : \A y \in back : HoldingOf[y] = h <=> y = x
  <2> DEFINE i == f[h].adopts
             x == again(i)
  <2>1. i \in Adopted(f) /\ x \in back /\ HoldingOf[x] = h
    BY <1>1, <1>2, <1>3, <1>5
  <2>2. ASSUME NEW y \in back, HoldingOf[y] = h PROVE y = x
    <3>1. PICK j \in Adopted(f) : y = again(j)
      BY <1>1
    <3>2. PICK k \in DOMAIN f : j = f[k].adopts /\ f[k].adopts # None
      BY <1>3
    <3>3. k = h
      BY <1>2, <2>2, <3>1, <3>2
    <3>4. QED
      BY <3>1, <3>2, <3>3
  <2>3. QED
    BY <2>1, <2>2
<1>6. QED
  BY <1>4, <1>5 DEF back

\* What the arrivals of o in A did is undone: those holdings of A that they
\* opened close, the others get back the amount or the deposit of B.
TakesBack(f, e, w, o, A, closes, B) ==
  LET stays == A \ closes
  IN /\ o \in Outflows /\ A \subseteq Holdings /\ closes \subseteq A /\ B \subseteq Typed
     /\ \A r \in Arrivals : r \notin DOMAIN w
     /\ \A i \in Typed : i \in DOMAIN w <=> i \in B
     /\ \A h \in Holdings : h \in DOMAIN w <=> h \in A
     /\ DOMAIN e \cap (Inflows \cup Holdings) = {}
     /\ \A x \in Outflows, h \in Holdings : <<x, h>> \in DOMAIN e <=> x = o /\ h \in A
     /\ \A h \in A : e[<<o, h>>] = None /\ f[<<o, h>>] # None /\ Marks(<<o, h>>, f[<<o, h>>])
     /\ \A h \in closes : f[<<o, h>>].opened /\ w[h] = None
     /\ \A h \in stays : Held(w, h) - Held(f, h) = 0 - Moved(f, <<o, h>>)
     /\ \A i \in B : /\ f[i] = None /\ w[i] # None /\ HoldingOf[i] \in stays
                     /\ f[<<o, HoldingOf[i]>>].adopts # None
     /\ \A h \in stays : f[<<o, h>>].adopts # None =>
          \E x \in B : \A y \in B : HoldingOf[y] = h <=> y = x

LEMMA TakenBackIsEven ==
  ASSUME NEW f, NEW e, NEW w, NEW o, NEW A, NEW closes, NEW B,
         TakesBack(f, e, w, o, A, closes, B)
  PROVE  AllEven(f, w ++ e, o)
<1> DEFINE v == w ++ e
<1>0. /\ o \in Outflows /\ A \subseteq Holdings /\ closes \subseteq A /\ B \subseteq Typed
      /\ \A r \in Arrivals : r \notin DOMAIN w
      /\ \A i \in Typed : i \in DOMAIN w <=> i \in B
      /\ \A h \in Holdings : h \in DOMAIN w <=> h \in A
      /\ DOMAIN e \cap (Inflows \cup Holdings) = {}
      /\ \A x \in Outflows, h \in Holdings : <<x, h>> \in DOMAIN e <=> x = o /\ h \in A
      /\ \A h \in A : e[<<o, h>>] = None /\ f[<<o, h>>] # None /\ Marks(<<o, h>>, f[<<o, h>>])
      /\ \A h \in closes : f[<<o, h>>].opened /\ w[h] = None
      /\ \A h \in A \ closes : Held(w, h) - Held(f, h) = 0 - Moved(f, <<o, h>>)
      /\ \A i \in B : /\ f[i] = None /\ w[i] # None /\ HoldingOf[i] \in A \ closes
                      /\ f[<<o, HoldingOf[i]>>].adopts # None
      /\ \A h \in A \ closes : f[<<o, h>>].adopts # None =>
           \E x \in B : \A y \in B : HoldingOf[y] = h <=> y = x
  BY DEF TakesBack
<1>1. /\ DOMAIN v = DOMAIN w \cup DOMAIN e
      /\ \A k \in DOMAIN w : v[k] = w[k]
      /\ \A k \in DOMAIN e : k \notin DOMAIN w => v[k] = e[k]
  BY ONLY OverBoth
<1> HIDE DEF v
<1>2. \A i \in Typed : (i \in DOMAIN v <=> i \in B) /\ (i \in B => v[i] # None)
  BY <1>0, <1>1, TransferReviewAssumption
<1>3. ASSUME NEW h \in Holdings PROVE Even(f, v, o, h)
  <2> DEFINE r == <<o, h>>
             born == Born(f, v, h)
             died == Died(f, v, h)
  <2>1. \A x \in Outflows : <<x, h>> \in Arrivals /\ (<<x, h>> \in DOMAIN v <=> x = o /\ h \in A)
    BY <1>0, <1>1, LegKeys
  <2>2. h \in DOMAIN v <=> h \in A
    BY <1>0, <1>1
  <2>3. r \in DOMAIN v <=> h \in A
    BY <1>0, <2>1
  <2>4. h \in A => v[r] = None /\ f[r] # None /\ Marks(r, f[r])
    BY <1>0, <1>1, <2>1
  <2>5. died = {}
    BY <1>0, <1>2 DEF Died
  <2>6. \A i : i \in born <=> i \in B /\ HoldingOf[i] = h
    BY <1>0, <1>2 DEF Born
  <2>7. h \in DOMAIN v /\ v[h] # None => Held(v, h) - Held(f, h) = Moved(v, r) - Moved(f, r)
    <3> SUFFICES ASSUME h \in DOMAIN v, v[h] # None
                 PROVE  Held(v, h) - Held(f, h) = Moved(v, r) - Moved(f, r)
      OBVIOUS
    <3>1. h \in A \ closes
      BY <1>0, <1>1, <2>2
    <3>2. Held(v, h) = Held(w, h)
      BY <1>0, <1>1, <3>1 DEF Held
    <3>3. Moved(v, r) = 0
      BY <1>0, <2>4, <3>1 DEF Moved
    <3>4. QED
      BY <1>0, <3>1, <3>2, <3>3
  <2>8. r \in DOMAIN v /\ h \notin DOMAIN v => Moved(v, r) = Moved(f, r)
    BY <1>0, <2>2, <2>3, <2>4 DEF Moved
  <2>9. /\ ~(r \in DOMAIN v /\ Adopts(v, r))
        /\ (r \in DOMAIN v /\ Adopts(f, r)) <=> h \in A \ closes /\ f[r].adopts # None
    <3>1. h \in closes => f[r].opened /\ f[r].adopts = None
      BY <1>0, <2>4 DEF Marks
    <3>2. QED
      BY <1>0, <2>3, <2>4, <3>1 DEF Adopts
  <2>10. CASE h \in A \ closes /\ f[r].adopts # None
    <3>1. PICK x \in B : \A y \in B : HoldingOf[y] = h <=> y = x
      BY <1>0, <2>10
    <3>2. born = {x} /\ x \in Typed
      BY <1>0, <2>6, <3>1
    <3> HIDE DEF r
    <3>3. QED
      BY <2>1, <2>2, <2>3, <2>5, <2>7, <2>8, <2>9, <2>10, <3>2 DEF Even, r
  <2>11. CASE ~(h \in A \ closes /\ f[r].adopts # None)
    <3>1. born = {}
      BY <1>0, <2>6, <2>11
    <3>2. /\ ~(r \in DOMAIN v /\ Adopts(v, r)) /\ ~(r \in DOMAIN v /\ Adopts(f, r))
          /\ h \in DOMAIN v => r \in DOMAIN v
      BY <1>0, <2>2, <2>3, <2>9, <2>11
    <3> HIDE DEF r, born, died
    <3>3. QED
      BY <2>1, <2>5, <2>7, <2>8, <3>1, <3>2 DEF Even, r, born, died
  <2>12. QED
    BY <2>10, <2>11
<1>4. \A i \in Typed \cap DOMAIN v : HoldingOf[i] \in Holdings
  BY <1>0, <1>2
<1>5. QED
  BY <1>3, <1>4 DEF AllEven, v

LEMMA UndoArrivalsBalances ==
  ASSUME WInv, IInv', BInv, NEW s \in Sessions, UndoArrivals(s)
  PROVE  BInv'
<1> DEFINE u == task[s]
           stays == [h \in DOMAIN u.arrivals \ u.closes |-> u.arrivals[h]]
           there == {h \in DOMAIN stays : Sees(s)[h] # None}
           back == PutBack(s, stays)
           cascade == {r \in Arrivals : r[2] \in u.closes /\ Sees(s)[r] # None}
           closed == [k \in u.closes \cup cascade |-> None]
           moved == [h \in there |-> Unmoved(Sees(s)[h], stays[h])]
           both == closed ++ moved
           w == both ++ back
           v == w ++ own[s]
           t == [at |-> IF u.part THEN "part" ELSE "clear", row |-> u.row,
                 group |-> u.group, by |-> u.by, claim |-> u.claim]
<1>1. u \in UndoType /\ u.closes \subseteq DOMAIN u.arrivals /\ u.at = "undo" /\ u.row \in Outflows
  BY OwnRows DEF UndoArrivals, TaskOK, UndoType
<1>2. t.at \in {"part", "clear"} /\ t.row = u.row
  OBVIOUS
<1>3. /\ DOMAIN u.arrivals \subseteq Holdings
      /\ \A h \in DOMAIN u.arrivals : u.arrivals[h] \in ArrivalType
  BY <1>1 DEF UndoType, Withdrawn
<1>4. /\ own' = [own EXCEPT ![s] = v] /\ Goto(s, t) /\ \A i \in Adopted(stays) : Spare(s, i) # {}
      /\ db' = db /\ raced' = raced /\ stale' = stale
  BY DEF UndoArrivals, Write
<1>5. /\ DOMAIN back \subseteq Inflows
      /\ \A x \in DOMAIN back : Sees(s)[x] = None /\ back[x] = [group |-> None]
  <2>1. /\ DOMAIN PutBack(s, stays) \subseteq Inflows
        /\ \A x \in DOMAIN PutBack(s, stays) :
             Sees(s)[x] = None /\ PutBack(s, stays)[x] = [group |-> None]
    <3>1. \A i \in Adopted(stays) : Spare(s, i) # {}
      BY <1>4
    <3> HIDE DEF stays, u
    <3>2. QED
      BY <3>1, PutBackTyped
  <2>2. QED
    BY <2>1
<1>6. DOMAIN closed = u.closes \cup cascade /\ \A k \in DOMAIN closed : closed[k] = None
  OBVIOUS
<1>7. cascade \subseteq Arrivals /\ u.closes \subseteq Holdings
  BY <1>1, <1>3
<1>8. /\ there \subseteq Holdings /\ there \cap u.closes = {} /\ DOMAIN moved = there
      /\ DOMAIN stays = DOMAIN u.arrivals \ u.closes
      /\ \A h \in DOMAIN stays : stays[h] = u.arrivals[h]
      /\ \A h : h \in there <=> h \in DOMAIN stays /\ Sees(s)[h] # None
  BY <1>3
<1>9. ASSUME NEW h \in there
      PROVE  /\ moved[h] # None /\ Sees(s)[h] # None
             /\ moved[h].balance - moved[h].stated - moved[h].left =
                  (Sees(s)[h].balance - Sees(s)[h].stated - Sees(s)[h].left)
                    - (IF stays[h].moved \/ stays[h].opened THEN stays[h].qty ELSE 0)
             /\ Sees(s)[h].balance - Sees(s)[h].stated - Sees(s)[h].left \in Int
             /\ stays[h].qty \in Nat
  <2>1. stays[h] \in ArrivalType
    BY <1>3
  <2>2. Sees(s)[h] \in HoldingType
    BY <1>3, SeesAll DEF WInv
  <2>3. moved[h] = Unmoved(Sees(s)[h], stays[h])
    OBVIOUS
  <2>4. Sees(s)[h] # None
    OBVIOUS
  <2> HIDE DEF stays, moved, there
  <2>5. /\ moved[h] # None
        /\ moved[h].balance - moved[h].stated - moved[h].left =
             (Sees(s)[h].balance - Sees(s)[h].stated - Sees(s)[h].left)
               - (IF stays[h].moved \/ stays[h].opened THEN stays[h].qty ELSE 0)
    BY <2>1, <2>2, <2>3, UnmovedIs, NotNone
  <2>6. /\ Sees(s)[h].balance - Sees(s)[h].stated - Sees(s)[h].left \in Int
        /\ stays[h].qty \in Nat
    BY <2>1, <2>2 DEF HoldingType, ArrivalType
  <2>7. QED
    BY <2>4, <2>5, <2>6
<1> HIDE DEF u, closed, moved, back, cascade, there, stays, t, both, w
<1>10. /\ DOMAIN both = DOMAIN closed \cup DOMAIN moved
       /\ \A k \in DOMAIN closed : both[k] = closed[k]
       /\ \A k \in DOMAIN moved : k \notin DOMAIN closed => both[k] = moved[k]
  BY OverBoth DEF both
<1>11. /\ DOMAIN w = DOMAIN both \cup DOMAIN back
       /\ \A k \in DOMAIN both : w[k] = both[k]
       /\ \A k \in DOMAIN back : k \notin DOMAIN both => w[k] = back[k]
  BY OverBoth DEF w
<1>12. /\ DOMAIN w = u.closes \cup cascade \cup there \cup DOMAIN back
       /\ \A k \in u.closes \cup cascade : w[k] = None
  BY <1>6, <1>8, <1>10, <1>11
<1>13. \A k \in DOMAIN w : k \in Arrivals => k \in cascade
  BY <1>5, <1>7, <1>8, <1>12, Kinds
<1>14. \A h \in there : w[h] = moved[h]
  BY <1>6, <1>7, <1>8, <1>10, <1>11, Kinds
<1>15. \A x \in DOMAIN back : w[x] = back[x]
  BY <1>5, <1>6, <1>7, <1>8, <1>10, <1>11, Kinds
<1>16. AllMarked(v)
  <2>1. AllMarked(own[s])
    BY DEF BInv, AllMarks
  <2>2. /\ DOMAIN v = DOMAIN w \cup DOMAIN own[s]
        /\ \A k \in DOMAIN w : v[k] = w[k]
        /\ \A k \in DOMAIN own[s] : k \notin DOMAIN w => v[k] = own[s][k]
    BY OverBoth
  <2> HIDE DEF v
  <2>3. QED
    BY <1>12, <1>13, <2>1, <2>2 DEF AllMarked
<1>17. Landing(t)
  BY <1>2 DEF Landing
<1>18. ASSUME ~raced, stale[s] = {} PROVE Settled(db, v, t)
  <2> DEFINE f == db
             e == own[s]
             o == u.row
             A == DOMAIN u.arrivals
             closes == u.closes
             B == DOMAIN back
  <2>1. cascade = {}
    <3>1. WithdrawalStands(f, e, read[s], u)
      BY <1>18, OwnRows DEF u
    <3>2. \A x \in Outflows, h \in u.closes : Sees(s)[<<x, h>>] = None
      BY <1>1, <3>1 DEF WithdrawalStands, WithdrawAt, Sees
    <3>3. QED
      BY <3>2, LegKeys DEF cascade
  <2>2. /\ DOMAIN e \cap (Inflows \cup Holdings) = {}
        /\ \A x \in Outflows, h \in Holdings : <<x, h>> \in DOMAIN e <=> x = o /\ h \in A
        /\ \A h \in A : e[<<o, h>>] = None /\ f[<<o, h>>] = u.arrivals[h]
        /\ \A h \in closes : u.arrivals[h].opened
    <3>1. Settled(f, e, u)
      BY <1>18 DEF BInv, Balanced, u
    <3>2. QED
      BY <1>1, <3>1 DEF Settled
  <2>3. \A h \in A : /\ f[<<o, h>>] # None /\ Marks(<<o, h>>, f[<<o, h>>])
                     /\ f[h] # None /\ Sees(s)[h] = f[h] /\ h \in Holdings
                     /\ f[<<o, h>>].adopts # None => HoldingOf[f[<<o, h>>].adopts] = h
    <3> SUFFICES ASSUME NEW h \in A
                 PROVE  /\ f[<<o, h>>] # None /\ Marks(<<o, h>>, f[<<o, h>>])
                        /\ f[h] # None /\ Sees(s)[h] = f[h] /\ h \in Holdings
                        /\ f[<<o, h>>].adopts # None => HoldingOf[f[<<o, h>>].adopts] = h
      OBVIOUS
    <3>1. h \in Holdings /\ <<o, h>> \in Arrivals /\ <<o, h>> \in Keys /\ h \in Keys
      BY <1>1, <1>3, LegKeys
    <3>2. f[<<o, h>>] # None
      BY <1>3, <2>2, NotNone
    <3>3. Marks(<<o, h>>, f[<<o, h>>])
      <4>1. AllMarked(f) /\ DOMAIN f = Keys
        BY SeesTyped DEF BInv, AllMarks
      <4>2. QED
        BY <3>1, <3>2, <4>1 DEF AllMarked
    <3>4. f[h] # None
      BY <1>1, <3>1, <3>2 DEF WInv, Always, HoldingsExist
    <3>5. Sees(s)[h] = f[h]
      BY <2>2, <3>1, OwnRows
    <3>6. f[<<o, h>>].adopts # None => HoldingOf[f[<<o, h>>].adopts] = h
      <4> DEFINE a == f[<<o, h>>]
      <4>1. a.adopts # None => HoldingOf[a.adopts] = <<o, h>>[2]
        BY <3>3 DEF Marks
      <4>2. QED
        BY <4>1
    <3>7. QED
      BY <3>1, <3>2, <3>3, <3>4, <3>5, <3>6
  <2>4. there = A \ closes
    <3>1. DOMAIN stays = A \ closes /\ \A h : h \in there <=> h \in DOMAIN stays /\ Sees(s)[h] # None
      BY <1>8
    <3>2. \A h \in A : Sees(s)[h] # None
      BY <2>3
    <3> HIDE DEF A, closes, f
    <3>3. QED
      BY ONLY <3>1, <3>2
  <2>5. \A h \in there : Held(w, h) - Held(f, h) = 0 - Moved(f, <<o, h>>)
    <3> SUFFICES ASSUME NEW h \in there
                 PROVE  Held(w, h) - Held(f, h) = 0 - Moved(f, <<o, h>>)
      OBVIOUS
    <3> DEFINE m == IF stays[h].moved \/ stays[h].opened THEN stays[h].qty ELSE 0
               was == Sees(s)[h].balance - Sees(s)[h].stated - Sees(s)[h].left
    <3>1. h \in A /\ stays[h] = f[<<o, h>>]
      BY <1>8, <2>2
    <3>2. w[h] = moved[h] /\ Sees(s)[h] = f[h] /\ f[h] # None /\ w[h] # None /\ f[<<o, h>>] # None
      BY <1>9, <1>14, <2>3, <3>1
    <3>3. Held(w, h) = was - m /\ was \in Int /\ m \in Int
      BY <1>9, <3>2 DEF Held
    <3>4. Held(f, h) = was
      BY <3>2 DEF Held
    <3>5. Moved(f, <<o, h>>) = m
      BY <3>1, <3>2 DEF Moved
    <3> HIDE DEF m, was
    <3>6. QED
      BY <3>3, <3>4, <3>5
  <2>6. /\ \A x \in B : x \in Typed /\ HoldingOf[x] \in A \ closes
                        /\ f[<<o, HoldingOf[x]>>].adopts # None
        /\ \A h \in A \ closes : f[<<o, h>>].adopts # None =>
             \E x \in B : \A y \in B : HoldingOf[y] = h <=> y = x
    <3>1. \A i \in Adopted(stays) : Spare(s, i) # {}
      BY <1>4
    <3>2. DOMAIN stays = A \ closes /\ \A h \in A \ closes : stays[h] = f[<<o, h>>]
      BY <1>8, <2>2
    <3>3. \A h \in DOMAIN stays : stays[h].adopts # None => HoldingOf[stays[h].adopts] = h
      BY <2>3, <3>2
    <3>4. /\ \A x \in B : /\ x \in Typed /\ HoldingOf[x] \in DOMAIN stays
                          /\ stays[HoldingOf[x]].adopts # None
          /\ \A h \in DOMAIN stays : stays[h].adopts # None =>
               \E x \in B : \A y \in B : HoldingOf[y] = h <=> y = x
      BY <3>1, <3>3, PutBackPlaces DEF back
    <3>5. QED
      BY <3>2, <3>4
  <2>7. \A x \in B : f[x] = None /\ w[x] # None
    <3> SUFFICES ASSUME NEW x \in B PROVE f[x] = None /\ w[x] # None
      OBVIOUS
    <3>1. x \in Inflows /\ x \in Keys /\ Sees(s)[x] = None /\ w[x] = [group |-> None]
      BY <1>5, <1>15, LegKeys
    <3>2. f[x] = None
      BY <2>2, <3>1, OwnRows
    <3>3. [group |-> None] \in InflowType
      BY DEF InflowType
    <3>4. QED
      BY <3>1, <3>2, <3>3, NotNone
  <2>8. /\ \A r \in Arrivals : r \notin DOMAIN w
        /\ \A i \in Typed : i \in DOMAIN w <=> i \in B
        /\ \A h \in Holdings : h \in DOMAIN w <=> h \in A
    <3>1. \A r \in Arrivals : r \notin DOMAIN w
      BY <1>13, <2>1
    <3>2. \A i \in Typed : i \in DOMAIN w <=> i \in B
      BY <1>7, <1>8, <1>12, <2>1, Kinds, TransferReviewAssumption
    <3>3. \A h \in Holdings : h \in DOMAIN w <=> h \in A
      BY <1>1, <1>5, <1>12, <2>1, <2>4, Kinds
    <3>4. QED
      BY <3>1, <3>2, <3>3
  <2>9. /\ o \in Outflows /\ A \in SUBSET Holdings /\ closes \in SUBSET A /\ B \in SUBSET Typed
        /\ \A h \in closes : f[<<o, h>>].opened /\ w[h] = None
    BY <1>1, <1>3, <1>12, <2>2, <2>6
  <2> HIDE DEF f, e, o, A, closes, B
  <2>10. AllEven(f, w ++ e, o)
    <3>1. \A h \in A : /\ e[<<o, h>>] = None /\ f[<<o, h>>] # None
                       /\ Marks(<<o, h>>, f[<<o, h>>])
      BY <2>2, <2>3
    <3>2. \A i \in B : /\ f[i] = None /\ w[i] # None /\ HoldingOf[i] \in A \ closes
                       /\ f[<<o, HoldingOf[i]>>].adopts # None
      BY <2>6, <2>7
    <3>3. /\ \A h \in closes : f[<<o, h>>].opened
          /\ \A h \in closes : w[h] = None
          /\ \A h \in A \ closes : Held(w, h) - Held(f, h) = 0 - Moved(f, <<o, h>>)
      BY <2>4, <2>5, <2>9
    <3>4. TakesBack(f, e, w, o, A, closes, B)
      BY ONLY <2>2, <2>4, <2>6, <2>8, <2>9, <3>1, <3>2, <3>3 DEF TakesBack
    <3>5. QED
      BY ONLY <3>4, TakenBackIsEven
  <2>11. AllEven(db, v, t.row)
    BY <1>2, <2>10 DEF f, e, o
  <2>12. t.at \notin ResolveAt /\ t.at # "undo" /\ t.at \in {"clear", "part"}
    BY <1>2 DEF ResolveAt
  <2>13. QED
    BY <2>11, <2>12 DEF Settled
<1> HIDE DEF v
<1>19. QED
  BY <1>4, <1>16, <1>17, <1>18, GoesOnBalanced
-----------------------------------------------------------------------------
\* The invariant.

LEMMA InitBInv == Init => BInv
<1> SUFFICES ASSUME Init PROVE BInv
  OBVIOUS
<1> DEFINE outs == [o \in Outflows |-> [group |-> None, review |-> None, by |-> None]]
           ins == [i \in Inflows |-> IF i \in Recorded THEN [group |-> None] ELSE None]
           arrived == [r \in Arrivals |-> None]
           held == [h \in Holdings |-> IF Opening[h] = None THEN None
                                       ELSE [balance |-> Opening[h], stated |-> Opening[h],
                                             left |-> 0, touched |-> TRUE]]
           two == outs ++ ins
           three == two ++ arrived
           f == db
<1>1. /\ DOMAIN outs = Outflows /\ DOMAIN ins = Inflows /\ DOMAIN arrived = Arrivals
      /\ DOMAIN held = Holdings
      /\ \A i \in Inflows : ins[i] = IF i \in Recorded THEN [group |-> None] ELSE None
      /\ \A r \in Arrivals : arrived[r] = None
      /\ \A h \in Holdings : held[h] # None => /\ held[h].balance = held[h].stated
                                              /\ held[h].left = 0
  OBVIOUS
<1>2. f = three ++ held
  BY DEF Init
<1>3. [group |-> None] # None
  <2>1. [group |-> None] \in InflowType
    BY DEF InflowType
  <2>2. QED
    BY <2>1, NotNone
<1> HIDE DEF outs, ins, arrived, held, f
<1>4. /\ DOMAIN two = Outflows \cup Inflows
      /\ \A i \in Inflows : two[i] = ins[i]
  BY <1>1, TransferReviewAssumption DEF ++
<1> HIDE DEF two
<1>5. /\ DOMAIN three = Outflows \cup Inflows \cup Arrivals
      /\ \A i \in Inflows : three[i] = ins[i]
      /\ \A r \in Arrivals : three[r] = None
  BY <1>1, <1>4, TransferReviewAssumption DEF ++
<1> HIDE DEF three
<1>6. /\ \A i \in Inflows : f[i] = ins[i]
      /\ \A r \in Arrivals : f[r] = None
      /\ \A h \in Holdings : f[h] = held[h]
  <2>1. \A k \in DOMAIN three : f[k] = three[k]
    BY <1>2, OverFirst
  <2>2. \A h \in Holdings : h \notin DOMAIN three
    BY <1>5, Kinds
  <2>3. \A h \in Holdings : f[h] = held[h]
    BY <1>1, <1>2, <2>2, OverSecond
  <2>4. QED
    BY <1>5, <2>1, <2>3
<1>7. AddUp(f)
  <2> SUFFICES ASSUME NEW h \in Holdings, f[h] # None
               PROVE  f[h].balance =
                        f[h].stated + f[h].left + MapThenSumSet(LAMBDA r : f[r].qty, Counted(f, h))
    BY DEF AddUp
  <2>1. ArrivalsTyped(f)
    BY <1>6 DEF ArrivalsTyped
  <2>2. IInv
    BY InitIInv
  <2>3. f[h] \in HoldingType \cup {None}
    BY <2>2, LegKeys DEF IInv, RowsTyped, RowsOK, RowOK, Shape, f
  <2>4. HoldingsExist(f)
    BY <1>6, LegKeys DEF HoldingsExist
  <2>5. \A x \in Holdings : f[x] \in HoldingType \cup {None}
    BY <2>2, LegKeys DEF IInv, RowsTyped, RowsOK, RowOK, Shape, f
  <2>6. ASSUME NEW x \in Holdings PROVE Held(f, x) = Sum(Weights(f, x), ArrivalsAt(x))
    <3> DEFINE S == ArrivalsAt(x)
               e == Weights(f, x)
    <3>1. IsFiniteSet(S) /\ \A r \in S : e[r] = Moved(f, r) /\ e[r] \in Int
      BY <2>1, ArrivalsAtIs, CountedIs
    <3>2. \A r \in S : Moved(f, r) = 0
      BY <1>6, ArrivalsAtIs DEF Moved
    <3>3. {} \in SUBSET S /\ \A r \in S \ {} : e[r] = 0
      BY <3>1, <3>2
    <3>4. Held(f, x) = 0
      <4>1. f[x] # None => f[x].balance = f[x].stated /\ f[x].left = 0 /\ f[x].balance \in Int
        BY <1>1, <1>6, <2>5, HeldInt
      <4>2. QED
        BY <4>1 DEF Held
    <3> HIDE DEF S, e
    <3>5. Sum(e, {}) = Sum(e, S)
      BY <3>1, <3>3, SumWithout
    <3>6. QED
      BY <3>4, <3>5, SumEmpty DEF S, e
  <2>7. AddUp(f)
    BY <2>1, <2>4, <2>5, <2>6, AddUpIs
  <2>8. QED
    BY <2>7 DEF AddUp
<1>8. AreKept(f)
  <2> SUFFICES ASSUME NEW h
               PROVE  Cardinality(TypedAt({i \in Typed : f[i] # None}, h)) + Cardinality(KeptAt(f, h))
                        = Cardinality(TypedAt(Typed \cap Recorded, h))
    BY DEF AreKept
  <2>1. {i \in Typed : f[i] # None} = Typed \cap Recorded
    BY <1>1, <1>3, <1>6, TransferReviewAssumption
  <2>2. KeptAt(f, h) = {}
    BY <1>6 DEF KeptAt
  <2>3. Cardinality({}) = 0
    BY FS_EmptySet
  <2> DEFINE T == TypedAt(Typed \cap Recorded, h)
  <2>4. Cardinality(T) \in Int
    <3>1. T \subseteq Typed /\ IsFiniteSet(Typed)
      BY Finite DEF TypedAt
    <3> HIDE DEF T
    <3>2. IsFiniteSet(T)
      BY <3>1, FS_Subset
    <3>3. QED
      BY <3>2, FS_CardinalityType
  <2> HIDE DEF T
  <2>5. Cardinality(T) + 0 = Cardinality(T)
    BY <2>4
  <2>6. QED
    BY <2>1, <2>2, <2>3, <2>5 DEF T
<1>9. \A s \in Sessions : own[s] = <<>> /\ task[s] = Idle
  BY DEF Init
<1>10. \A s \in Sessions : /\ AllMarked(own[s]) /\ Landing(task[s])
                           /\ Settled(f, own[s], task[s])
  <2>1. Still(Idle)
    BY DEF Still, Idle, ResolveAt
  <2>2. Settled(f, <<>>, Idle) /\ Landing(Idle) /\ AllMarked(<<>>)
    BY <2>1, NothingMarked, StillSettles
  <2>3. QED
    BY <1>9, <2>2
<1>11. AllMarked(f)
  BY <1>6 DEF AllMarked
<1>12. QED
  BY <1>7, <1>8, <1>10, <1>11 DEF BInv, AllMarks, Balanced, f

LEMMA StepBalances == ASSUME WInv, WInv', BInv, [Next]_vars PROVE BInv'
<1>1. IInv'
  BY DEF WInv
<1>2. ASSUME NEW s \in Sessions, Call(s) PROVE BInv'
  BY <1>1, <1>2, ResolveBalances, ReopenBalances, ResolvePartBalances, UnlinkPairBalances,
     BulkResolveBalances, LinkTransferPairsBalances DEF Call
<1>3. ASSUME NEW s \in Sessions, Statement(s) PROVE BInv'
  BY <1>1, <1>3, ClaimLooksBalances, ClaimWritesBalances, GiveBackClaimsBalances,
     ArriveLooksBalances, ArriveInHoldingBalances, ArriveInNewHoldingBalances, StampBalances,
     WithdrawArrivalsBalances, UndoArrivalsBalances, ClearAnswerBalances, ClaimPartBalances,
     UnlinkWritesBalances, BulkWritesBalances, MarksLookBalances, MarksWriteBalances,
     LinkPairBalances DEF Statement
<1>4. CASE UNCHANGED vars
  <2>1. AllMarks'
    BY <1>4 DEF vars, BInv, AllMarks
  <2>2. Balanced'
    BY <1>4 DEF vars, BInv, Balanced
  <2>3. QED
    BY <2>1, <2>2 DEF BInv
<1>5. QED
  BY <1>1, <1>2, <1>3, <1>4, RollbackBalances, EditHoldingBalances DEF Next

LEMMA BalanceInvariance == Spec => []BInv
<1>1. BInv /\ WInv /\ WInv' /\ [Next]_vars => BInv'
  BY StepBalances
<1>2. QED
  BY <1>1, InitBInv, WholeInvariance, PTL DEF Spec

-----------------------------------------------------------------------------
\* While no call has committed on a stale row, a balance is what its owner
\* stated and the arrivals that are there, those that moved it and the one it was
\* opened at (moveUnobservedAnchor, writeInflow, TransferDestinationOpener,
\* withdrawArrivals, UpdateHoldingUseCase): nothing is added twice, and a reopen
\* takes off what its answer had added, but for the amount that opened a holding
\* which another answer has used since: that amount stays, counted in left.
THEOREM AnchorsAddUpHolds == Spec => []AnchorsAddUp
<1>1. BInv => AnchorsAddUp
  BY DEF BInv, Balanced, AddUp, Counted, AnchorsAddUp, Row
<1>2. QED
  BY <1>1, BalanceInvariance, PTL

\* While no call has committed on a stale row, every deposit a person typed is
\* in the ledger or kept on one arrival (writeInflow's adoption, withdrawArrivals'
\* re-insert): none is lost, and none is counted twice.
THEOREM DepositsAreKeptHolds == Spec => []DepositsAreKept
<1>1. BInv => DepositsAreKept
  BY DEF BInv, Balanced, AreKept, TypedAt, KeptAt, DepositsAreKept, Row
<1>2. QED
  BY <1>1, BalanceInvariance, PTL
=============================================================================
