--------------------------- MODULE TransferReview ---------------------------
(***************************************************************************)
(* The transfer review: what a person, a rule and the nightly matcher      *)
(* write about outflows, as transactions of one READ COMMITTED database.   *)
(*                                                                         *)
(* db is what has been committed: the user's outflows [group, review, by], *)
(* the deposits that may be their arrivals [group], the arrivals an answer *)
(* wrote, under their unique key <<outflow, holding>>, and the holdings    *)
(* [balance, stated, left, touched]: stated and left are history, what the *)
(* owner stated and what withdrawn openings left.  A row that does not     *)
(* exist is None.  A session is one connection running one call.  own[s]   *)
(* is what its transaction has written, which is also what it has locked:  *)
(* a write to a row another session has written waits.                     *)
(***************************************************************************)
EXTENDS Integers, Sequences, FiniteSetsExt

CONSTANTS
  Sessions,
  Outflows,   \* one token's unpaired departures
  Inflows,    \* ids of deposits
  Recorded,   \* the deposits in the ledger at the start
  Typed,      \* those a person types; the others come from a feed
  Marked,     \* outflows to a destination with an always_a_disposal rule
  Size,       \* the amount of an outflow or an inflow
  HoldingOf,  \* the holding of an outflow or an inflow
  Close,      \* <<outflow, inflow>> within the matcher's window
  Accounts,
  Room,       \* per account: the holdings it has or can be given
  Answers,    \* per outflow: the answers people give, [review, claims, into]
  Opening,    \* per holding: its balance at the start, or None
  Groups,     \* ids for transfer groups, enough for MaxCalls
  MaxCalls, MaxEdits,
  None

\* TLC's @@ and :>, in words the provers know.
f ++ g == [k \in DOMAIN f \cup DOMAIN g |-> IF k \in DOMAIN f THEN f[k] ELSE g[k]]
Just(k, v) == [x \in {k} |-> v]

Holdings == UNION {Room[a] : a \in Accounts}
Arrivals == Outflows \X Holdings
Legs == Outflows \cup Inflows \cup Arrivals

Bulk == {"left_control", "untracked"}
Reviews == Bulk \cup {"paired", "internal", "split"}

ASSUME TransferReviewAssumption ==
  /\ Typed \subseteq Inflows /\ Recorded \subseteq Inflows /\ Marked \subseteq Outflows
  /\ Close \subseteq Outflows \X Inflows
  /\ Outflows \cap (Inflows \cup Arrivals \cup Holdings) = {}
  /\ Inflows \cap (Arrivals \cup Holdings) = {} /\ Arrivals \cap Holdings = {}
  /\ None \notin Sessions \cup Outflows \cup Inflows \cup Holdings \cup Groups
  /\ None \notin Reviews \cup {"user", "rule"}
  /\ IsFiniteSet(Outflows) /\ IsFiniteSet(Typed)
  /\ \A a, b \in Accounts : a # b => Room[a] \cap Room[b] = {}
  /\ \A h \in Holdings : Opening[h] \in Nat \cup {None}
  /\ \A o \in Outflows : \A a \in Answers[o] :
       /\ \E D \in SUBSET Accounts :
            a \in [review : Reviews, claims : Seq(Inflows), into : [D -> Nat]]
       /\ a.review \in Bulk => a.claims = <<>> /\ DOMAIN a.into = {}
       /\ a.review = "paired" => a.claims # <<>> /\ DOMAIN a.into = {}
       /\ a.review = "internal" => \E d \in Accounts : a.into = Just(d, Size[o])

VARIABLES
  db,     \* committed rows
  own,    \* per session: rows its transaction has written, and so locked
  read,   \* history, per session: the rows its transaction goes by
  stale,  \* history, per session: those of them another session has changed
  task,   \* per session: the call it is in, and its next statement
  calls, edits,  \* how many more there may be
  raced   \* history: a transaction has committed on a stale row

vars == <<db, own, read, stale, task, calls, edits, raced>>

Idle == [at |-> "idle"]
Start == [at |-> "marks"]   \* applyDisposalMarks, to follow

Init ==
  /\ db = [o \in Outflows |-> [group |-> None, review |-> None, by |-> None]]
       ++ [i \in Inflows |-> IF i \in Recorded THEN [group |-> None] ELSE None]
       ++ [r \in Arrivals |-> None]
       ++ [h \in Holdings |-> IF Opening[h] = None THEN None
                              ELSE [balance |-> Opening[h], stated |-> Opening[h],
                                    left |-> 0, touched |-> TRUE]]
  /\ own = [s \in Sessions |-> <<>>]
  /\ read = [s \in Sessions |-> {}]
  /\ stale = [s \in Sessions |-> {}]
  /\ task = [s \in Sessions |-> Idle]
  /\ calls = MaxCalls
  /\ edits = MaxEdits
  /\ raced = FALSE

-----------------------------------------------------------------------------
(* Transactions.                                                           *)

\* What a statement of session s reads: its own writes and what is committed.
Sees(s) == own[s] ++ db

\* No other session has a lock on a row of K.
Free(s, K) == \A x \in Sessions \ {s} : DOMAIN own[x] \cap K = {}

\* The rows K are among those session s goes by.
Note(s, K) == read' = [read EXCEPT ![s] = @ \cup K]

\* What of a row a call goes by: a balance is read again under its lock.
Fact(f, k) == IF k \in Holdings /\ f[k] # None THEN f[k].touched ELSE f[k]

\* Session s commits new; what the others went by may now be stale.
Publish(s, new, kept) ==
  LET changed == {k \in DOMAIN new : Fact(new, k) # Fact(db, k)}
  IN /\ db' = new ++ db
     /\ stale' = [x \in Sessions |-> IF x = s THEN kept
                                     ELSE stale[x] \cup (changed \cap read[x])]

Write(s, w) == own' = [own EXCEPT ![s] = w ++ @]

Goto(s, t) == task' = [task EXCEPT ![s] = t]

Commit(s, w, next) ==
  LET new == w ++ own[s]
  IN /\ Publish(s, new, {})
     /\ raced' = (raced \/ (DOMAIN new # {} /\ stale[s] # {}))
     /\ own' = [own EXCEPT ![s] = <<>>]
     /\ read' = [read EXCEPT ![s] = {}]
     /\ Goto(s, next)
     /\ UNCHANGED <<calls, edits>>

\* Mutant: the rows stay locked.
RollbackKeepsLocks(s) ==
  /\ task[s] # Idle
  /\ Goto(s, Idle)
  /\ UNCHANGED <<db, own, read, stale, calls, edits, raced>>

\* A refusal that is thrown, a crash, a deadlock's victim, a broken key.
Rollback(s) ==
  /\ task[s] # Idle
  /\ own' = [own EXCEPT ![s] = <<>>]
  /\ read' = [read EXCEPT ![s] = {}]
  /\ stale' = [stale EXCEPT ![s] = {}]
  /\ Goto(s, Idle)
  /\ UNCHANGED <<db, calls, edits, raced>>

Begin(s, t, K) ==
  /\ task[s] = Idle
  /\ calls > 0
  /\ calls' = calls - 1
  /\ Goto(s, t)
  /\ Note(s, K)
  /\ UNCHANGED <<db, own, stale, edits, raced>>

-----------------------------------------------------------------------------
(* Rows.                                                                   *)

\* pendingPredicate.
Pending(r) == r.group = None /\ r.review = None

\* Mutant: who took the answer back does not matter.
RuleWritableAgain(r) == Pending(r)

\* ruleWritablePredicate.
RuleWritable(r) == Pending(r) /\ r.by = None

InGroup(f, g) == {k \in Legs : f[k] # None /\ f[k].group = g}

ReleaseTransferGroup(f, g) ==
  IF g = None THEN <<>> ELSE [k \in InGroup(f, g) |-> [f[k] EXCEPT !.group = None]]

\* crypto.randomUUID: an id nobody has.
Unused ==
  LET held(f) == {f[k].group : k \in {j \in DOMAIN f \cap Legs : f[j] # None}}
      named == {task[s].group : s \in {x \in Sessions : "group" \in DOMAIN task[x]}}
  IN Groups \ (held(db) \cup named \cup UNION {held(own[s]) : s \in Sessions})

FreshGroup == CHOOSE g \in Unused : TRUE

PlaceOf(k) == IF k \in Arrivals THEN k[2] ELSE HoldingOf[k]

TwoArrivalsOnOneHolding(f, g) ==
  \E x, y \in InGroup(f, g) \ Outflows : x # y /\ PlaceOf(x) = PlaceOf(y)

-----------------------------------------------------------------------------
(* resolve and resolveSplit: the pending row is read, the arrivals are     *)
(* claimed or written one by one, the answer is stamped and committed.     *)

Onward(t) == [t EXCEPT !.at = CASE t.claims # <<>> -> "claim"
                               [] t.claims = <<>> /\ DOMAIN t.into # {} -> "arrive"
                               [] OTHER -> "stamp"]

Resolve(s, o) ==
  /\ Pending(db[o])
  /\ Unused # {}
  /\ \E a \in Answers[o] :
       LET links == a.claims # <<>> \/ DOMAIN a.into # {}
           t == [at |-> "", row |-> o, review |-> a.review, claims |-> a.claims,
                 into |-> a.into, set |-> Len(a.claims) > 1,
                 group |-> IF links THEN FreshGroup ELSE None]
       IN Begin(s, Onward(t), {o})

\* claimInflow, its SELECT.  A deposit that cannot be claimed ends the call: one
\* part of several gives back the parts claimed before it, the rest is thrown.
Claimable(s, o, i) ==
  LET r == Sees(s)[i]
  IN r \in [group : {None}] /\ HoldingOf[i] # HoldingOf[o]

ClaimLooks(s) ==
  LET t == task[s]
      i == Head(t.claims)
      claimable == Claimable(s, t.row, i)
  IN /\ t.at = "claim"
     /\ claimable \/ t.set
     /\ Goto(s, [t EXCEPT !.at = IF claimable THEN "claimed" ELSE "giveBack"])
     /\ Note(s, {i})
     /\ UNCHANGED <<db, own, stale, calls, edits, raced>>

\* claimInflow, its UPDATE by id: a row deleted since is not written.
ClaimWrites(s) ==
  LET t == task[s]
      i == Head(t.claims)
  IN /\ t.at = "claimed"
     /\ Free(s, {i})
     /\ Write(s, IF Sees(s)[i] = None THEN <<>>
                 ELSE Just(i, [Sees(s)[i] EXCEPT !.group = t.group]))
     /\ Goto(s, Onward([t EXCEPT !.claims = Tail(@)]))
     /\ UNCHANGED <<db, read, stale, calls, edits, raced>>

\* Mutant: the parts claimed before the one that is gone stay linked.
KeepClaims(s) == task[s].at = "giveBack" /\ Commit(s, <<>>, Idle)

GiveBackClaims(s) ==
  LET released == ReleaseTransferGroup(Sees(s), task[s].group)
  IN /\ task[s].at = "giveBack"
     /\ Free(s, DOMAIN released)
     /\ Commit(s, released, Idle)

\* The one typed deposit of this amount near the outflow that nothing claims.
TypedDeposit(s, o, h, qty) ==
  LET found == {i \in Typed : /\ HoldingOf[i] = h /\ Size[i] = qty
                              /\ <<o, i>> \in Close
                              /\ Sees(s)[i] # None /\ Sees(s)[i].group = None}
  IN IF \E i \in found : found = {i} THEN CHOOSE i \in found : TRUE ELSE None

\* writeInflow, what it reads: the destination and the deposit to adopt.
ArriveLooks(s) ==
  LET t == task[s]
  IN /\ t.at = "arrive"
     /\ \E a \in DOMAIN t.into :
          LET existing == {h \in Room[a] : Sees(s)[h] # None /\ h # HoldingOf[t.row]}
          IN \E h \in IF existing = {} THEN {None} ELSE existing :
               /\ Goto(s, [at |-> "arrived", row |-> t.row, review |-> t.review,
                           claims |-> <<>>, into |-> t.into, set |-> t.set,
                           group |-> t.group, account |-> a, holding |-> h,
                           adopts |-> TypedDeposit(s, t.row, h, t.into[a])])
               /\ Note(s, Room[a] \cup {i \in Typed : HoldingOf[i] = h})
     /\ UNCHANGED <<db, own, stale, calls, edits, raced>>

\* Mutant: the amount is added to what the owner stated last.
MovedFromStated(s, key, qty) == Sees(s)[key[2]].stated + qty

\* moveUnobservedAnchor: the balance standing under the lock, less an arrival
\* that is there under the key, and the amount.
MovedBalance(s, key, qty) ==
  Sees(s)[key[2]].balance - (IF Sees(s)[key] = None THEN 0 ELSE Sees(s)[key].qty) + qty

\* writeInflow into a holding that is there.  Where the person's own deposit
\* is adopted, the balance already has it.  Where an arrival already has the
\* key, the later amount and group win and the first writer's marks stay.
ArriveInHolding(s) ==
  LET t == task[s]
      h == t.holding
      qty == t.into[t.account]
      key == <<t.row, h>>
      old == Sees(s)[key]
      adopted == IF t.adopts = None THEN <<>> ELSE Just(t.adopts, None)
  IN /\ t.at = "arrived"
     /\ h # None
     /\ Free(s, {h, key} \cup DOMAIN adopted)
     /\ Sees(s)[h] # None
     /\ Write(s, Just(h, IF t.adopts # None THEN Sees(s)[h]
                         ELSE [Sees(s)[h] EXCEPT !.balance = MovedBalance(s, key, qty),
                                                 !.touched = TRUE])
              ++ Just(key, IF old = None
                           THEN [qty |-> qty, group |-> t.group, opened |-> FALSE,
                                 moved |-> t.adopts = None, adopts |-> t.adopts]
                           ELSE [old EXCEPT !.qty = qty, !.group = t.group])
              ++ adopted)
     /\ Goto(s, Onward([at |-> "", row |-> t.row, review |-> t.review, claims |-> <<>>,
                       into |-> [a \in DOMAIN t.into \ {t.account} |-> t.into[a]],
                       set |-> t.set, group |-> t.group]))
     /\ UNCHANGED <<db, read, stale, calls, edits, raced>>

\* TransferDestinationOpener.open: a new holding, opened at the amount, which is
\* the money that moved in and nothing its owner stated.
ArriveInNewHolding(s) ==
  LET t == task[s]
      qty == t.into[t.account]
      unused == {n \in Room[t.account] : Sees(s)[n] = None /\ Free(s, {n, <<t.row, n>>})}
      n == CHOOSE x \in unused : TRUE
  IN /\ t.at = "arrived"
     /\ t.holding = None
     /\ unused # {}
     /\ Write(s, Just(n, [balance |-> qty, stated |-> 0, left |-> 0, touched |-> FALSE])
              ++ Just(<<t.row, n>>, [qty |-> qty, group |-> t.group, opened |-> TRUE,
                                     moved |-> FALSE, adopts |-> None]))
     /\ Goto(s, Onward([at |-> "", row |-> t.row, review |-> t.review, claims |-> <<>>,
                       into |-> [a \in DOMAIN t.into \ {t.account} |-> t.into[a]],
                       set |-> t.set, group |-> t.group]))
     /\ UNCHANGED <<db, read, stale, calls, edits, raced>>

\* The last statement: UPDATE by id, and the commit.
Stamp(s) ==
  LET t == task[s]
      row == Sees(s)[t.row]
  IN /\ t.at = "stamp"
     /\ Free(s, {t.row})
     /\ t.review = "split" /\ t.group # None => ~TwoArrivalsOnOneHolding(Sees(s), t.group)
     /\ Commit(s, Just(t.row, [group |-> IF t.group = None THEN row.group ELSE t.group,
                               review |-> t.review, by |-> "user"]), Idle)

-----------------------------------------------------------------------------
(* reopen: the answer is taken back, with everything it wrote.             *)

Reopen(s, o) ==
  /\ db[o].review # None
  /\ Begin(s, [at |-> "withdraw", row |-> o, only |-> Holdings, group |-> db[o].group,
               by |-> IF db[o].by = "rule" THEN "user" ELSE None,
               part |-> FALSE, claim |-> None], {o})

\* resolvePart, of an outflow that went to several holdings: under its row's
\* lock the arrival in one of them is withdrawn; a deposit may take its place.
\* A part that a deposit has taken the place of still counts as one of several
\* (severalHoldings), and so, more than in the code, does a deposit that was
\* paired into one of the rooms.
ResolvePart(s, o) ==
  LET into == {h \in Holdings : db[<<o, h>>] # None}
      deposits == InGroup(db, db[o].group) \cap Inflows
      arrived == {HoldingOf[i] : i \in deposits} \cap Holdings
  IN /\ task[s] = Idle
     /\ calls > 0
     /\ Free(s, {o})
     /\ db[o].review = "split" /\ db[o].group # None
     /\ \E h \in into, i \in Inflows \cup {None} :
          /\ (into \cup arrived) \ {h} # {}
          /\ Goto(s, [at |-> "withdraw", row |-> o, only |-> {h}, group |-> db[o].group,
                      by |-> "user", part |-> TRUE, claim |-> i])
     /\ calls' = calls - 1
     /\ Write(s, Just(o, db[o]))
     /\ Note(s, ({o} \X into) \cup deposits)
     /\ UNCHANGED <<db, stale, edits, raced>>

\* Mutant: asked before the arrivals of o are deleted, which count as a use.
UntouchedYet(s, o, h) ==
  /\ ~Sees(s)[h].touched
  /\ \A p \in Outflows : Sees(s)[<<p, h>>] = None
  /\ \A i \in Inflows : HoldingOf[i] = h => Sees(s)[i] = None

\* holdingIsUntouched, once the arrivals of o are deleted.
Untouched(s, o, h) ==
  /\ ~Sees(s)[h].touched
  /\ \A p \in Outflows \ {o} : Sees(s)[<<p, h>>] = None
  /\ \A i \in Inflows : HoldingOf[i] = h => Sees(s)[i] = None

\* Mutant: the DELETE is left out.
NoArrivals(s, o, H) == {}

ArrivalsIn(s, o, H) == {h \in H : Sees(s)[<<o, h>>] # None}

\* withdrawArrivals, the DELETE and the question which holdings go too.
WithdrawArrivals(s) ==
  LET t == task[s]
      gone == ArrivalsIn(s, t.row, t.only)
      withdrawn == [h \in gone |-> Sees(s)[<<t.row, h>>]]
  IN /\ t.at = "withdraw"
     /\ Free(s, {t.row} \X gone)
     /\ Write(s, [r \in {t.row} \X gone |-> None])
     /\ Note(s, (Outflows \X gone) \cup gone)
     /\ Goto(s, [at |-> "undo", row |-> t.row, group |-> t.group, by |-> t.by,
                 part |-> t.part, claim |-> t.claim, arrivals |-> withdrawn,
                 closes |-> {h \in gone : withdrawn[h].opened /\ Untouched(s, t.row, h)}])
     /\ UNCHANGED <<db, stale, calls, edits, raced>>

\* Ids under which an adopted deposit may be inserted again: same facts, a new id.
Spare(s, i) == {x \in Typed \ {i} : /\ HoldingOf[x] = HoldingOf[i]
                                     /\ Size[x] = Size[i]
                                     /\ Sees(s)[x] = None}

\* Mutant: the arrival takes the adopted deposit with it.
PutBackNothing(s, arrivals) == <<>>

Adopted(arrivals) == {arrivals[h].adopts : h \in DOMAIN arrivals} \ {None}

PutBack(s, arrivals) ==
  LET again(i) == CHOOSE x \in Spare(s, i) : TRUE
  IN [x \in {again(i) : i \in Adopted(arrivals)} |-> [group |-> None]]

\* A holding that stays: the balance an arrival moved moves back; the amount it
\* was opened at stays.
Unmoved(row, a) ==
  IF a.moved THEN [row EXCEPT !.balance = @ - a.qty, !.touched = TRUE]
  ELSE IF a.opened THEN [row EXCEPT !.left = @ + a.qty]
  ELSE row

\* withdrawArrivals, what each arrival did to its holding: the holding it
\* opened is deleted, with whatever a foreign key hangs on it, unless it has been
\* used since; the balance it moved moves back; the deposit it adopted is put
\* back.
UndoArrivals(s) ==
  LET t == task[s]
      stays == [h \in DOMAIN t.arrivals \ t.closes |-> t.arrivals[h]]
      there == {h \in DOMAIN stays : Sees(s)[h] # None}
      back == PutBack(s, stays)
      cascade == {r \in Arrivals : r[2] \in t.closes /\ Sees(s)[r] # None}
  IN /\ t.at = "undo"
     /\ \A i \in Adopted(stays) : Spare(s, i) # {}
     /\ Free(s, DOMAIN t.arrivals \cup cascade \cup DOMAIN back)
     /\ Write(s, [k \in t.closes \cup cascade |-> None]
              ++ [h \in there |-> Unmoved(Sees(s)[h], stays[h])]
              ++ back)
     /\ Goto(s, [at |-> IF t.part THEN "part" ELSE "clear", row |-> t.row,
                 group |-> t.group, by |-> t.by, claim |-> t.claim])
     /\ UNCHANGED <<db, read, stale, calls, edits, raced>>

\* clearAnswer and releaseTransferGroup.
ClearAnswer(s) ==
  LET t == task[s]
      released == ReleaseTransferGroup(Sees(s), t.group)
      row == (released ++ Sees(s))[t.row]
  IN /\ t.at = "clear"
     /\ Free(s, {t.row} \cup DOMAIN released)
     /\ Commit(s, Just(t.row, [row EXCEPT !.review = None, !.by = t.by]) ++ released, Start)

\* resolvePart's claim, guarded, and its last UPDATE.
ClaimPart(s) ==
  LET t == task[s]
      linked == IF t.claim = None THEN <<>> ELSE Just(t.claim, [group |-> t.group])
  IN /\ t.at = "part"
     /\ Free(s, DOMAIN linked)
     /\ \A i \in DOMAIN linked : Sees(s)[i] = [group |-> None]
     /\ ~TwoArrivalsOnOneHolding(linked ++ Sees(s), t.group)
     /\ Commit(s, linked, Idle)

\* unlinkPair: only a group no person answered for.
UnlinkPair(s, o) ==
  LET legs == InGroup(db, db[o].group)
  IN /\ db[o].group # None
     /\ \A k \in legs \cap Outflows : db[k].review = None
     /\ Begin(s, [at |-> "unlink", group |-> db[o].group], legs)

UnlinkWrites(s) ==
  LET released == ReleaseTransferGroup(Sees(s), task[s].group)
  IN /\ task[s].at = "unlink"
     /\ Free(s, DOMAIN released)
     /\ Commit(s, released, Start)

-----------------------------------------------------------------------------
(* One answer for many rows, and a rule's answers.                         *)

\* Mutant: a linked row is answered too.
BulkEligibleLinked(o) == db[o].review \in Bulk \cup {None}

\* bulkClassify.
BulkEligible(o) ==
  /\ db[o].group = None
  /\ \A h \in Holdings : db[<<o, h>>] = None
  /\ db[o].review \in Bulk \cup {None}

\* bulkResolve: every row may be answered, or none is; None undoes.
BulkResolve(s) ==
  \E R \in SUBSET Outflows \ {{}}, d \in Bulk \cup {None} :
    /\ \A o \in R : BulkEligible(o)
    /\ Begin(s, [at |-> "bulk", rows |-> R, review |-> d], R \cup (R \X Holdings))

BulkWrites(s) ==
  LET t == task[s]
  IN /\ t.at = "bulk"
     /\ Free(s, t.rows)
     /\ Commit(s, [o \in t.rows |-> [Sees(s)[o] EXCEPT !.review = t.review,
                     !.by = IF t.review = None THEN None ELSE "user"]], Start)

\* applyDisposalMarks, what it reads.  The UPDATE asks RuleWritable again.
MarksLook(s) ==
  LET rows == {o \in Marked : RuleWritable(db[o]) /\ BulkEligible(o)}
  IN /\ task[s].at = "marks"
     /\ Goto(s, IF rows = {} THEN Idle ELSE [at |-> "mark", rows |-> rows])
     /\ Note(s, rows \cup (rows \X Holdings))
     /\ UNCHANGED <<db, own, stale, calls, edits, raced>>

MarksWrite(s) ==
  LET rows == {o \in task[s].rows : RuleWritable(Sees(s)[o])}
  IN /\ task[s].at = "mark"
     /\ Free(s, rows)
     /\ Commit(s, [o \in rows |-> [group |-> None, review |-> "left_control",
                                   by |-> "rule"]], Idle)

-----------------------------------------------------------------------------
(* LinkTransferPairsUseCase.execute, then the marks: the nightly sweep.    *)

LinkTransferPairs(s) ==
  LET outs == {o \in Outflows : Pending(db[o])}
      ins == {i \in Inflows \ Typed : db[i] # None /\ db[i].group = None}
  IN Begin(s, IF outs = {} THEN Start ELSE [at |-> "match", rows |-> outs, among |-> ins],
           outs \cup ins)

Viable(o, among) == {i \in among : /\ <<o, i>> \in Close /\ Size[i] = Size[o]
                                   /\ HoldingOf[i] # HoldingOf[o]}

\* Mutant: the rows are linked as they were listed.
StillThere(pair) == \A k \in pair : db[k] # None

StillFree(pair) == \A k \in pair : db[k] # None /\ db[k].group = None

\* One pair, in a transaction of its own: both rows are still in no group, or
\* neither is linked.
LinkPair(s) ==
  LET t == task[s]
  IN /\ t.at = "match"
     /\ \E o \in t.rows :
          LET viable == Viable(o, t.among)
              pair == {o} \cup viable
              links == Cardinality(viable) = 1 /\ StillFree(pair)
              g == FreshGroup
          IN /\ links => Free(s, pair) /\ Unused # {}
             /\ Publish(s, IF links THEN [k \in pair |-> [db[k] EXCEPT !.group = g]]
                           ELSE <<>>, IF t.rows = {o} THEN {} ELSE stale[s])
             /\ raced' = (raced \/ (links /\ pair \cap stale[s] # {}))
             /\ Goto(s, IF t.rows = {o} THEN Start ELSE [t EXCEPT !.rows = @ \ {o}])
             /\ read' = [read EXCEPT ![s] = IF t.rows = {o} THEN {} ELSE @]
     /\ UNCHANGED <<own, calls, edits>>

\* UpdateHoldingUseCase.execute: a person states one unit more.
EditHolding(h) ==
  /\ edits > 0
  /\ db[h] # None
  /\ \A s \in Sessions : h \notin DOMAIN own[s]
  /\ Publish(None, Just(h, [balance |-> db[h].balance + 1, stated |-> db[h].stated + 1,
                            left |-> db[h].left, touched |-> TRUE]), {})
  /\ edits' = edits - 1
  /\ UNCHANGED <<own, read, task, calls, raced>>

-----------------------------------------------------------------------------
Call(s) ==
  \/ \E o \in Outflows : \/ Resolve(s, o)
                         \/ Reopen(s, o)
                         \/ ResolvePart(s, o)
                         \/ UnlinkPair(s, o)
  \/ BulkResolve(s)
  \/ LinkTransferPairs(s)

Statement(s) ==
  \/ ClaimLooks(s) \/ ClaimWrites(s) \/ GiveBackClaims(s)
  \/ ArriveLooks(s) \/ ArriveInHolding(s) \/ ArriveInNewHolding(s)
  \/ Stamp(s)
  \/ WithdrawArrivals(s) \/ UndoArrivals(s) \/ ClearAnswer(s) \/ ClaimPart(s)
  \/ UnlinkWrites(s) \/ BulkWrites(s)
  \/ MarksLook(s) \/ MarksWrite(s)
  \/ LinkPair(s)

Next ==
  \/ \E s \in Sessions : Call(s) \/ Statement(s) \/ Rollback(s)
  \/ \E h \in Holdings : EditHolding(h)

Spec == Init /\ [][Next]_vars

-----------------------------------------------------------------------------
Row(k) == db[k] # None

Linked(g) == {k \in Legs : Row(k) /\ db[k].group = g}

OutflowType == [group : Groups \cup {None}, review : Reviews \cup {None},
                by : {None, "user", "rule"}]
InflowType == [group : Groups \cup {None}]
ArrivalType == [qty : Nat, group : Groups \cup {None}, opened : BOOLEAN,
                moved : BOOLEAN, adopts : Typed \cup {None}]
HoldingType == [balance : Int, stated : Nat, left : Nat, touched : BOOLEAN]

ASSUME NoneIsNoRow == None \notin OutflowType \cup InflowType \cup ArrivalType \cup HoldingType

\* The rows have their types, and a session between calls holds no lock.
TypeOK ==
  /\ \A o \in Outflows : db[o] \in OutflowType
  /\ \A i \in Inflows : Row(i) => db[i] \in InflowType
  /\ \A r \in Arrivals : Row(r) => db[r] \in ArrivalType
  /\ \A h \in Holdings : Row(h) => db[h] \in HoldingType
  /\ \A s \in Sessions : task[s] = Idle => own[s] = <<>>

\* A transfer group never has two departures.  While no transaction has gone
\* by a stale row it is whole: one departure, something that arrived, and no
\* two parts of a split in one holding.  A half-applied link would leave cost
\* basis with lots that wait for a partner (comments on resolve and on
\* claimInflowSet).
GroupsAreWhole ==
  \A g \in Groups :
    /\ Cardinality(Linked(g) \cap Outflows) <= 1
    /\ (~raced /\ Linked(g) # {}) =>
         /\ Linked(g) \cap Outflows # {}
         /\ Linked(g) \ Outflows # {}
         /\ (\E o \in Linked(g) \cap Outflows : db[o].review = "split") =>
              ~TwoArrivalsOnOneHolding(db, g)

\* An arrival an answer wrote is in a holding that exists, and, while no
\* transaction has gone by a stale row, beside the answer it belongs to: no
\* sequence of answers, reopens, parts and links leaves one behind to be
\* counted a second time (withdrawArrivals, unlinkPair).
ArrivalsAreAnswered ==
  \A r \in Arrivals : Row(r) =>
    /\ Row(r[2])
    /\ ~raced => /\ db[r[1]].review \in {"internal", "split"}
                 /\ db[r[1]].group = db[r].group
                 /\ db[r].group # None

\* While no transaction has gone by a stale row, an answer that the money left
\* stands on no linked row, where it would book nothing (SC-382), and an answer
\* that names one arrival has its link.  (A split may have none: its parts may
\* all have left.)
AnswersAndLinksAgree ==
  ~raced => \A o \in Outflows :
    /\ db[o].review \in Bulk => db[o].group = None
    /\ db[o].review \in {"paired", "internal"} => db[o].group # None

\* While no transaction has gone by a stale row, a balance is what its owner
\* stated and the arrivals that are there, those that moved it and the one it was
\* opened at: a reopen takes the money back (SC-856), with one exception.  The
\* amount a holding was opened at stays when the answer that opened it is
\* withdrawn after another has used the holding (db[h].left), whatever the comment
\* on withdrawArrivals says of a deleted arrival that leaves its money behind
\* (SC-631).
AnchorsAddUp ==
  ~raced => \A h \in Holdings : Row(h) =>
    db[h].balance = db[h].stated + db[h].left
      + MapThenSumSet(LAMBDA r : db[r].qty,
                      {r \in Arrivals : /\ r[2] = h /\ Row(r)
                                        /\ db[r].moved \/ db[r].opened})

\* A withdrawn opening leaves money behind only in a holding that something else
\* has used: an owner's statement, another departure, or entries of its own.  In
\* every other the money goes with the holding, whatever has raced (SC-856).
OnlyUsedHoldingsKeepMoney ==
  \A h \in Holdings : Row(h) /\ db[h].left # 0 =>
    db[h].touched \/ \E i \in Inflows : HoldingOf[i] = h

\* While no transaction has gone by a stale row, a deposit a person typed is in
\* the ledger or kept on exactly one arrival, from where a reopen puts it back
\* (SC-1474).
DepositsAreKept ==
  ~raced => \A h \in {HoldingOf[i] : i \in Typed} :
    LET typed(S) == Cardinality({i \in S : HoldingOf[i] = h})
        kept == {r \in Arrivals : r[2] = h /\ Row(r) /\ db[r].adopts # None}
    IN typed({i \in Typed : Row(i)}) + Cardinality(kept) = typed(Typed \cap Recorded)

\* A rule answers only a row nobody has linked, answered or taken back from a
\* rule before, however calls overlap (ruleWritablePredicate, SC-380).
RulesNeverOverrule ==
  [][\A o \in Outflows :
       (db'[o].by = "rule" /\ db[o].by # "rule")
         => db[o] = [group |-> None, review |-> None, by |-> None]]_vars

\* The matcher takes no row out of a group, however old the list it works from
\* (the write re-asserts that both rows are free).
LinksAreNotStolen ==
  [][\A s \in Sessions, k \in Legs :
       (task[s].at = "match" /\ task'[s] # task[s] /\ Row(k) /\ db[k].group # None)
         => db'[k] = db[k]]_vars
=============================================================================
