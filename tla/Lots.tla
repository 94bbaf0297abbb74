-------------------------------- MODULE Lots --------------------------------
(***************************************************************************)
(* The cost-basis walk: CostBasisService.walkPool folds the ledger of the  *)
(* holdings that transfers connect into open lots, realized gains and one  *)
(* record per lot a disposal consumed.                                     *)
(*                                                                         *)
(* A row is [id, at, kind, h, qty, worth, group, answer, split].  kind is  *)
(* the branch the walk takes: "buy" stands for every arrival that has no   *)
(* kind of its own here, "opening" is the drift row that says what the     *)
(* holding held before its first record, "sell" stands for a swap_out too, *)
(* "fee" leaves at a loss, "commission" is paid by the holding of its own  *)
(* trade, "settle_fee" by another, "loss" is a derivative's, and "skipped" *)
(* is a row no branch takes, such as a fall answered growth.               *)
(* worth is the row's value in base currency with its trade fee, or None   *)
(* when no price answers for it.                                           *)
(***************************************************************************)
EXTENDS LotMatching

CONSTANTS
  Holdings,
  TokenOf,             \* the token a holding holds
  Base,                \* the base currency's token
  Groups,              \* transfer groups: the links between legs
  Vocabularies,        \* what ledgers are made of: [words, length, last,
                       \* repeat]
  EarlyArrivalWindow,  \* how far ahead of its departure an arrival is deferred
  None

ASSUME LotsAssumption ==
  /\ DOMAIN TokenOf = Holdings
  /\ EarlyArrivalWindow \in Nat
  /\ \A v \in Vocabularies : /\ v.length \in Nat /\ v.last \in Nat
                             /\ \A w \in v.words :
                                  /\ DOMAIN w = {"kind", "h", "qty", "worth", "group",
                                                 "answer", "split"}
                                  /\ w.qty \in Int \ {0}
                                  /\ w.kind # "correction" => w.qty > 0
                                  /\ w.h \in Holdings /\ w.group \in Groups \cup {None}
                                  /\ w.split \in Seq([decision : STRING, qty : Nat \ {0}])

VARIABLES
  method,     \* "fifo" or "uk_section_104"
  rows,       \* the ledger, in the order it is walked
  plan,       \* what the identification rules claimed before the walk
  pos, part,  \* the row the walk has come to, and its share
  lots,       \* the open lots of all holdings, in the order they entered
  shorts,     \* per holding: what was spent beyond its lots, [qty, value]
  pending,    \* per group: lots that left and wait for their arrival
  unresolved, \* per group: the exits that are open until the arrival
  typos,      \* per holding: units that corrections added without a price
  realized,   \* per holding: the realized gain
  matches,    \* the records of the disposals
  paid,       \* history: what all arrivals with a worth of their own cost
  writtenOff, \* history: cost that left without a gain, less cost assumed
  gone        \* history, per group: cost of waiting lots realized at the end

vars == <<method, rows, plan, pos, part, lots, shorts, pending, unresolved, typos,
          realized, matches, paid, writtenOff, gone>>

-----------------------------------------------------------------------------
\* The order of the walk.

AcquireKinds == {"buy", "opening", "settle_in", "transfer_in"}
SellKinds == {"sell", "settle_out"}
NeutralKinds == {"withdraw", "transfer_out"}
FeeKinds == {"fee", "commission", "loss"}
SettlementKinds == {"settle_in", "settle_out", "settle_fee"}

Linked(t) == t.group # None
LinkedArrival(t) == t.kind = "transfer_in" /\ Linked(t)

\* compareLedgerEvents: at one instant what leaves comes first.
Rank(t) == IF t.kind \in {"sell"} \cup NeutralKinds THEN 0 ELSE 1
Earlier(t, u) ==
  \/ t.at < u.at
  \/ t.at = u.at /\ Rank(t) < Rank(u)
  \/ t.at = u.at /\ Rank(t) = Rank(u) /\ t.id < u.id

SortLedgerEvents(ledger) ==
  Pick(ledger, DOMAIN ledger, LAMBDA i, j : Earlier(ledger[i], ledger[j]))

\* At one instant on one holding, the rows at the places among keep those places
\* and swap what stands in them, the rows of first ahead.
FirstWithinInstant(s, among, first) ==
  LET Peers(i) == {j \in among : s[j].at = s[i].at /\ s[j].h = s[i].h}
      Ahead(i, j) == \/ i \in first /\ j \notin first
                     \/ (i \in first <=> j \in first) /\ i < j
  IN  [i \in DOMAIN s |->
         IF i \notin among THEN s[i]
         ELSE Pick(s, Peers(i), Ahead)[Cardinality({j \in Peers(i) : j <= i})]]

\* The opening comes before whatever shares its instant.
OpeningsFirst(s) ==
  FirstWithinInstant(s, DOMAIN s, {i \in DOMAIN s : s[i].kind = "opening"})

\* Transfer legs without a link: the arrival comes before the departure.
UnlinkedArrivalsFirst(s) ==
  FirstWithinInstant(s, {i \in DOMAIN s : s[i].kind \in {"transfer_in", "transfer_out"} /\ ~Linked(s[i])},
                     {i \in DOMAIN s : s[i].kind = "transfer_in"})

\* Mutant: the arrivals stay where the clock put them.
WalkAsStamped(s) == s

\* A linked arrival stamped shortly before its departure is walked right after
\* it, unless another row of its holding lies between.
DeferEarlyArrivals(s) ==
  LET Departures(g) == {i \in DOMAIN s : s[i].kind \in NeutralKinds /\ s[i].group = g}
      Deferred(i) ==
        /\ LinkedArrival(s[i])
        /\ Departures(s[i].group) # {}
        /\ LET d == Max(Departures(s[i].group))
           IN  /\ i < d
               /\ s[d].at - s[i].at <= EarlyArrivalWindow
               /\ \A j \in (i + 1)..(d - 1) : s[j].h # s[i].h
      Place(i) == IF Deferred(i) THEN Max(Departures(s[i].group)) ELSE i
  IN  Pick(s, DOMAIN s, LAMBDA i, j :
             \/ Place(i) < Place(j)
             \/ Place(i) = Place(j) /\ (IF Deferred(i) = Deferred(j) THEN i < j ELSE Deferred(j)))

Ordered(ledger) ==
  DeferEarlyArrivals(UnlinkedArrivalsFirst(OpeningsFirst(SortLedgerEvents(ledger))))

-----------------------------------------------------------------------------
\* What the rows say.

Value(t) == IF t.worth = None THEN 0 ELSE t.worth

\* The worth of qty units of the row.
WorthOf(t, qty) == Rounded(Value(t) * qty, t.qty)

\* outflowPortions: an unsplit row is one share; the row has the last word on
\* how much left, the split on what became of it.
Action(t, decision) ==
  CASE decision \in {"paired", "internal"} -> "carry"
    [] decision = "left_control" -> "realize"
    [] decision = "fee" -> "fee"
    [] OTHER -> "hold"

\* What the parts of a split before the k-th one ask for: every part has units,
\* so those that begin before the row is used up are the first ones.
AskedBefore(t, k) == MapThenSumSet(LAMBDA j : t.split[j].qty, 1..(k - 1))

OutflowPortions(t) ==
  LET begun == {k \in DOMAIN t.split : AskedBefore(t, k) < t.qty}
      shares == [k \in 1..Cardinality(begun) |->
                   [qty |-> Min({t.split[k].qty, t.qty - AskedBefore(t, k)}),
                    action |-> Action(t, t.split[k].decision)]]
      rest == t.qty - AskedBefore(t, Len(t.split) + 1)
  IN  IF t.answer # "split"
      THEN <<[qty |-> t.qty, action |-> IF Linked(t) THEN "carry" ELSE Action(t, t.answer)]>>
      ELSE IF rest > 0 THEN Append(shares, [qty |-> rest, action |-> "hold"]) ELSE shares

\* isPlannableAcquisition and section104Inputs: what the rules may match.
Plannable(t) == t.kind \in AcquireKinds /\ ~LinkedArrival(t)

Acquisitions(s) == SelectSeq(s, Plannable)

Disposals(s) ==
  LET Of(t) == [k \in DOMAIN OutflowPortions(t) |->
                  [key |-> <<t.id, k>>, h |-> t.h, at |-> t.at,
                   qty |-> OutflowPortions(t)[k].qty, action |-> OutflowPortions(t)[k].action]]
      All(t) == CASE t.kind \in SellKinds ->
                       <<[key |-> <<t.id, 1>>, h |-> t.h, at |-> t.at, qty |-> t.qty]>>
                  [] t.kind \in NeutralKinds /\ ~Linked(t) ->
                       SelectSeq(Of(t), LAMBDA d : d.action = "realize")
                  [] OTHER -> <<>>
  IN  FlattenSeq([i \in DOMAIN s |-> All(s[i])])

PlanFor(m, s) ==
  IF m = "fifo" THEN <<>> ELSE PlanSection104Matches(Acquisitions(s), Disposals(s))

\* Every ledger of so many rows, stamped in their order; an instant may be
\* shared.
Stamped(f, at) ==
  [i \in DOMAIN f |-> [x \in DOMAIN f[i] \cup {"id", "at"} |->
                         IF x = "id" THEN i ELSE IF x = "at" THEN at[i] ELSE f[i][x]]]
Stamps(n, last) == {at \in [1..n -> 0..last] : \A i \in 1..(n - 1) : at[i] <= at[i + 1]}

Init ==
  /\ method \in {"fifo", "uk_section_104"}
  /\ \E v \in Vocabularies :
       \E f \in [1..v.length -> v.words], at \in Stamps(v.length, v.last) :
         /\ ~v.repeat => IsInjective(f)
         /\ rows = Stamped(f, at)
  /\ plan = <<>>
  /\ pos = 0 /\ part = 1
  /\ lots = <<>> /\ matches = <<>>
  /\ shorts = [h \in Holdings |-> <<>>]
  /\ pending = [g \in Groups |-> None]
  /\ unresolved = [g \in Groups |-> <<>>]
  /\ typos = [h \in Holdings |-> 0]
  /\ realized = [h \in Holdings |-> 0]
  /\ paid = 0 /\ writtenOff = 0
  /\ gone = [g \in Groups |-> 0]

-----------------------------------------------------------------------------
\* What a row takes out of the pool.

Shortable(h) == \E i \in DOMAIN rows : rows[i].h = h /\ rows[i].kind \in SettlementKinds

\* poolDrawFor
Draw(h, want) ==
  IF method = "fifo" THEN DrawOldestFirst(lots, h, want) ELSE DrawPooled(lots, h, want)

\* Base cash beyond its lots leaves at par.
AtPar(h, want, taken, at) ==
  IF TokenOf[h] = Base /\ Units(taken) < want
  THEN Append(taken, [qty |-> want - Units(taken), cost |-> want - Units(taken),
                      date |-> at, h |-> h])
  ELSE taken

\* matchedFromPlan: the acquisitions the rules gave this disposal, then the
\* pool for the rest.
MatchedFromPlan(t, k, want) ==
  LET claims == Pick(plan, {c \in DOMAIN plan : plan[c].key = <<t.id, k>>}, <)
      Row(c) == CHOOSE i \in DOMAIN rows : rows[i].id = c.acq
      slices == [i \in DOMAIN claims |->
                   LET a == rows[Row(claims[i])]
                   IN  [qty |-> claims[i].qty, cost |-> WorthOf(a, claims[i].qty),
                        date |-> a.at, h |-> t.h]]
      pool == Draw(t.h, want - Units(slices))
  IN  [taken |-> slices \o pool.taken, left |-> pool.left]

\* n units of a disposal of qty: their part of the proceeds, if it was valued.
DisposalRecord(t, qty, proceeds, outcome, n, cost, date) ==
  LET share == IF proceeds = None THEN None ELSE Rounded(proceeds * n, qty)
  IN  [tx |-> t.id, h |-> t.h, qty |-> n, acquired |-> date, proceeds |-> share,
       gain |-> IF share = None THEN None ELSE share - cost, outcome |-> outcome]

\* Mutant: the part of a disposal no lot answers for has no record.
RecordLotsOnly(t, qty, proceeds, taken, outcome) ==
  [i \in DOMAIN taken |-> DisposalRecord(t, qty, proceeds, outcome,
                                         taken[i].qty, taken[i].cost, taken[i].date)]

\* recordDisposal: one record per lot consumed, and one without a date for what
\* no lot answers for.
RecordDisposal(t, qty, proceeds, taken, outcome) ==
  LET short == qty - Units(taken)
  IN  [i \in DOMAIN taken |-> DisposalRecord(t, qty, proceeds, outcome,
                                             taken[i].qty, taken[i].cost, taken[i].date)]
        \o (IF short > 0
            THEN <<DisposalRecord(t, qty, proceeds, outcome, short, 0, None)>> ELSE <<>>)

Record(t, qty, proceeds, taken, outcome) ==
  matches' = matches \o RecordDisposal(t, qty, proceeds, taken, outcome)

AddRealized(h, amount) == realized' = [realized EXCEPT ![h] = @ + amount]

\* openShort: cash that settles trades may go below zero.
OpenShort(h, qty, value) ==
  shorts' = IF Shortable(h) /\ qty > 0
            THEN [shorts EXCEPT ![h] = Append(@, [qty |-> qty, value |-> value])] ELSE shorts

At(kinds) == pos \in DOMAIN rows /\ rows[pos].kind \in kinds
NextRow == pos' = pos + 1 /\ part' = 1
Ledger == <<method, rows, plan>>
History == <<paid, writtenOff, gone>>

\* The rows are put in order, and the rules matched, before the walk.
Begin ==
  /\ pos = 0
  /\ rows' = Ordered(rows)
  /\ plan' = PlanFor(method, rows')
  /\ NextRow
  /\ UNCHANGED <<method, lots, shorts, pending, unresolved, typos, realized, matches, History>>

-----------------------------------------------------------------------------
\* Rows that are neither an arrival nor a disposal.

\* A fall answered growth moves no lot, nor does a row of a kind the walk does
\* not know or a fee that came in.
Skip ==
  /\ At({"skipped"})
  /\ NextRow
  /\ UNCHANGED <<Ledger, lots, shorts, pending, unresolved, typos, realized, matches, History>>

\* A correction up opens no lot.
CorrectUp ==
  /\ At({"correction"}) /\ rows[pos].qty > 0
  /\ typos' = [typos EXCEPT ![rows[pos].h] = @ + rows[pos].qty]
  /\ NextRow
  /\ UNCHANGED <<Ledger, lots, shorts, pending, unresolved, realized, matches, History>>

\* A correction down undoes those first; the rest leaves at the average cost,
\* under either method.
CorrectDown ==
  /\ At({"correction"}) /\ rows[pos].qty < 0
  /\ LET h == rows[pos].h
         netted == Min({typos[h], -rows[pos].qty})
         drawn == DrawPooled(lots, h, -rows[pos].qty - netted)
     IN  /\ typos' = [typos EXCEPT ![h] = @ - netted]
         /\ lots' = drawn.left
         /\ writtenOff' = writtenOff + Costs(drawn.taken)
  /\ NextRow
  /\ UNCHANGED <<Ledger, shorts, pending, unresolved, realized, matches, paid, gone>>

\* An unexplained fall leaves at the pool's cost and realizes nothing.
DriftOut ==
  /\ At({"drift_out"})
  /\ \E t \in {rows[pos]} : \E popped \in {Draw(t.h, t.qty)} :
       LET short == t.qty - Units(popped.taken)
           value == IF t.worth # None /\ Shortable(t.h) /\ short > 0 THEN WorthOf(t, short) ELSE 0
       IN  /\ lots' = popped.left
           /\ IF t.worth = None THEN UNCHANGED shorts ELSE OpenShort(t.h, short, value)
           /\ writtenOff' = writtenOff + Costs(popped.taken) + value
  /\ NextRow
  /\ UNCHANGED <<Ledger, pending, unresolved, typos, realized, matches, paid, gone>>

-----------------------------------------------------------------------------
\* Arrivals.

\* carriesAcross: lots do not cross from one token to another.
CarriesAcross(buffered, h) ==
  \A i \in DOMAIN buffered : TokenOf[buffered[i].h] = TokenOf[h]

Inherits(t) ==
  /\ LinkedArrival(t)
  /\ pending[t.group] # None
  /\ CarriesAcross(pending[t.group], t.h)

LaterArrivals(g) ==
  {i \in DOMAIN rows : i > pos /\ LinkedArrival(rows[i]) /\ rows[i].group = g}

\* shareOf: what arrived of the buffer, pro rata over its lots; the first of
\* the largest takes what rounding left.
ShareOf(buffered, arrived, h) ==
  LET Share(i) == Rounded(buffered[i].qty * arrived, Units(buffered))
      largest == CHOOSE i \in DOMAIN buffered : \A j \in DOMAIN buffered :
                   \/ buffered[j].qty < buffered[i].qty
                   \/ buffered[j].qty = buffered[i].qty /\ i <= j
      Qty(i) == IF i = largest
                THEN arrived - MapThenSumSet(Share, DOMAIN buffered \ {largest}) ELSE Share(i)
      Cost(i) == IF buffered[i].qty = 0 THEN 0
                 ELSE Rounded(buffered[i].cost * Qty(i), buffered[i].qty)
  IN  [taken |-> [i \in DOMAIN buffered |->
                    [buffered[i] EXCEPT !.qty = Qty(i), !.cost = Cost(i), !.h = h]],
       left  |-> [i \in DOMAIN buffered |->
                    [buffered[i] EXCEPT !.qty = @ - Qty(i), !.cost = @ - Cost(i)]]]

\* Mutant: the lots arrive as they left.
RehomeAsSent(buffered, arrived, h) ==
  [i \in DOMAIN buffered |-> [buffered[i] EXCEPT !.h = h]]

\* rehome: scaled to the units that arrived, at the cost of those that left;
\* the last lot takes what rounding left.
Rehome(buffered, arrived, h) ==
  LET sent == Units(buffered)
      Scaled(i) == Rounded(buffered[i].qty * arrived, sent)
      Qty(i) == IF sent <= 0 THEN buffered[i].qty
                ELSE IF i = Len(buffered) THEN arrived - MapThenSumSet(Scaled, 1..(i - 1))
                ELSE Scaled(i)
  IN  [i \in DOMAIN buffered |-> [buffered[i] EXCEPT !.qty = Qty(i), !.h = h]]

\* One of several arrivals takes its share of the lots that wait.
InheritShare ==
  /\ At({"transfer_in"}) /\ Inherits(rows[pos])
  /\ LET t == rows[pos]
         share == ShareOf(pending[t.group], t.qty, t.h)
     IN  /\ LaterArrivals(t.group) # {} /\ Units(pending[t.group]) > t.qty
         /\ lots' = lots \o share.taken
         /\ pending' = [pending EXCEPT ![t.group] = share.left]
  /\ NextRow
  /\ UNCHANGED <<Ledger, shorts, unresolved, typos, realized, matches, History>>

\* The last one takes them all, and the exits are closed.
InheritAll ==
  /\ At({"transfer_in"}) /\ Inherits(rows[pos])
  /\ LET t == rows[pos]
     IN  /\ LaterArrivals(t.group) = {} \/ Units(pending[t.group]) <= t.qty
         /\ lots' = lots \o Rehome(pending[t.group], t.qty, t.h)
         /\ pending' = [pending EXCEPT ![t.group] = None]
         /\ unresolved' = [unresolved EXCEPT ![t.group] = <<>>]
  /\ NextRow
  /\ UNCHANGED <<Ledger, shorts, typos, realized, matches, History>>

\* closeShorts: qty units that cost cost close the shorts, oldest first; what is
\* left of both opens a lot, and the difference is realized.
CloseShorts(open, qty, cost) ==
  LET Ahead(i) == MapThenSumSet(LAMBDA j : open[j].qty, 1..(i - 1))
      Take(i) == Max({0, Min({open[i].qty, qty - Ahead(i)})})
      Worth(i) == Rounded(open[i].value * Take(i), open[i].qty)
      Price(i) == Rounded(cost * Take(i), qty)
      rest == [i \in DOMAIN open |-> [qty |-> open[i].qty - Take(i),
                                      value |-> open[i].value - Worth(i)]]
  IN  [qty |-> qty - SumOver(Take, open),
       cost |-> cost - SumOver(LAMBDA i : IF Take(i) > 0 THEN Price(i) ELSE 0, open),
       gain |-> SumOver(LAMBDA i : IF Take(i) > 0 THEN Worth(i) - Price(i) ELSE 0, open),
       open |-> Pick(rest, {i \in DOMAIN rest : rest[i].qty > 0}, <)]

\* The units come in at their worth: they close shorts, and the rest is a lot.
TakeIn(t, qty) ==
  LET rest == CloseShorts(shorts[t.h], qty, WorthOf(t, qty))
  IN  /\ shorts' = [shorts EXCEPT ![t.h] = rest.open]
      /\ AddRealized(t.h, rest.gain)
      /\ lots' = IF rest.qty > 0
                 THEN Append(lots, [qty |-> rest.qty, cost |-> rest.cost, date |-> t.at,
                                    h |-> t.h])
                 ELSE lots

\* Mutant: the units that a disposal has claimed reach the pool as well.
AllUnits(t) == t.qty

\* The units that a disposal has claimed never reach the pool.
PoolUnits(t) == t.qty - ClaimedOf(plan, t.id)

\* Any other arrival is an acquisition at its own worth.
Acquire ==
  /\ At(AcquireKinds) /\ ~Inherits(rows[pos])
  /\ TakeIn(rows[pos], PoolUnits(rows[pos]))
  /\ paid' = paid + Value(rows[pos])
  /\ NextRow
  /\ UNCHANGED <<Ledger, pending, unresolved, typos, matches, writtenOff, gone>>

-----------------------------------------------------------------------------
\* Disposals and fees.

Outcome(proceeds) == IF proceeds = None THEN "unpriced" ELSE "realized"

\* What the share of a row is worth, if a price answers for it.
Proceeds(t, qty) == IF t.worth = None THEN None ELSE WorthOf(t, qty)

\* A sale, or the cash a trade spent.  Without a price the lots leave and
\* nothing is realized; beyond its lots, cash that settles trades goes short.
Sell ==
  /\ At(SellKinds \cup {"settle_fee"})
  /\ \E t \in {rows[pos]} : \E matched \in {MatchedFromPlan(t, 1, t.qty)} :
     \E popped \in {AtPar(t.h, t.qty, matched.taken, t.at)} :
       LET proceeds == Proceeds(t, t.qty)
           short == t.qty - Units(popped)
           value == WorthOf(t, short)
           shorted == IF Shortable(t.h) /\ short > 0 THEN value ELSE 0
       IN  /\ lots' = matched.left
           /\ Record(t, t.qty, proceeds, popped, Outcome(proceeds))
           /\ IF proceeds = None
              THEN /\ writtenOff' = writtenOff + Costs(matched.taken)
                   /\ UNCHANGED <<shorts, realized>>
              ELSE /\ OpenShort(t.h, short, value)
                   /\ AddRealized(t.h, proceeds - shorted - Costs(popped))
                   /\ writtenOff' = writtenOff - (Units(popped) - Units(matched.taken))
  /\ NextRow
  /\ UNCHANGED <<Ledger, pending, unresolved, typos, paid, gone>>

\* keepCostOnLots: pro rata over the open lots of the holding.
KeepCostOnLots(ls, h, cost) ==
  LET own == Owned(ls, h)
      units == MapThenSumSet(LAMBDA i : ls[i].qty, own)
      Share(i) == Rounded(cost * ls[i].qty, units)
      Kept(i) == IF i = Max(own) THEN cost - MapThenSumSet(Share, own \ {i}) ELSE Share(i)
  IN  [i \in DOMAIN ls |-> IF i \in own THEN [ls[i] EXCEPT !.cost = @ + Kept(i)] ELSE ls[i]]

\* A fee leaves at no proceeds, and its cost is a loss; a commission's cost
\* stays on the lots left, if there are any and they are not base cash.
PayFee ==
  /\ At(FeeKinds)
  /\ \E t \in {rows[pos]} : \E drawn \in {Draw(t.h, t.qty)} :
     \E popped \in {AtPar(t.h, t.qty, drawn.taken, t.at)} :
       LET kept == /\ t.kind = "commission" /\ TokenOf[t.h] # Base
                   /\ Owned(drawn.left, t.h) # {} \/ Costs(popped) = 0
       IN  /\ lots' = IF kept THEN KeepCostOnLots(drawn.left, t.h, Costs(popped))
                      ELSE drawn.left
           /\ IF kept THEN UNCHANGED realized ELSE AddRealized(t.h, -Costs(popped))
           /\ Record(t, t.qty, None, popped, IF t.kind = "loss" THEN "derivative_loss" ELSE "fee")
           /\ writtenOff' = writtenOff - (Units(popped) - Units(drawn.taken))
  /\ NextRow
  /\ UNCHANGED <<Ledger, shorts, pending, unresolved, typos, paid, gone>>

-----------------------------------------------------------------------------
\* The shares of an outflow, one after the other.

Share == OutflowPortions(rows[pos])[part]

AtShare(action) == At(NeutralKinds) /\ Share.action = action

NextShare ==
  IF part = Len(OutflowPortions(rows[pos])) THEN NextRow ELSE part' = part + 1 /\ pos' = pos

\* The lots that wait for the group's arrival, and taken after them.
Buffer(g, taken) ==
  pending' = [pending EXCEPT ![g] = IF @ = None THEN taken ELSE @ \o taken]

\* Between the reader's own accounts: the lots wait for the arrival.
Carry ==
  /\ AtShare("carry") /\ Linked(rows[pos])
  /\ \E t \in {rows[pos]} : \E popped \in {Draw(t.h, Share.qty)} :
         /\ lots' = popped.left
         /\ Buffer(t.group, popped.taken)
         /\ unresolved' = [unresolved EXCEPT ![t.group] =
              Append(@, [row |-> pos, part |-> part, popped |-> popped.taken])]
  /\ NextShare
  /\ UNCHANGED <<Ledger, shorts, typos, realized, matches, History>>

\* A charge: its cost joins the lots that wait, or it is a loss.
FeeShare ==
  /\ AtShare("fee")
  /\ \E t \in {rows[pos]} : \E popped \in {Draw(t.h, Share.qty)} :
         /\ lots' = popped.left
         /\ Record(t, Share.qty, None, popped.taken, "fee")
         /\ IF Linked(t) THEN Buffer(t.group, popped.taken) /\ UNCHANGED realized
            ELSE AddRealized(t.h, -Costs(popped.taken)) /\ UNCHANGED pending
  /\ NextShare
  /\ UNCHANGED <<Ledger, shorts, unresolved, typos, History>>

\* It left the reader's control: a disposal, matched like a sale.
RealizeShare ==
  /\ AtShare("realize")
  /\ \E t \in {rows[pos]} : \E matched \in {MatchedFromPlan(t, part, Share.qty)} :
     \E popped \in {AtPar(t.h, Share.qty, matched.taken, t.at)} :
       LET proceeds == Proceeds(t, Share.qty)
       IN  /\ lots' = matched.left
           /\ Record(t, Share.qty, proceeds, popped, Outcome(proceeds))
           /\ IF proceeds = None
              THEN writtenOff' = writtenOff + Costs(matched.taken) /\ UNCHANGED realized
              ELSE /\ AddRealized(t.h, proceeds - Costs(popped))
                   /\ writtenOff' = writtenOff - (Units(popped) - Units(matched.taken))
  /\ NextShare
  /\ UNCHANGED <<Ledger, shorts, pending, unresolved, typos, paid, gone>>

\* Unanswered, still held elsewhere, or a pairing without a link: the lots
\* leave and nothing is realized.
HoldShare ==
  /\ \/ AtShare("hold")
     \/ AtShare("carry") /\ ~Linked(rows[pos])
  /\ \E t \in {rows[pos]} : \E popped \in {Draw(t.h, Share.qty)} :
         /\ lots' = popped.left
         /\ Record(t, Share.qty, None, popped.taken,
                   IF Share.action = "carry" THEN "awaiting_pair" ELSE "held")
         /\ writtenOff' = writtenOff + Costs(popped.taken)
  /\ NextShare
  /\ UNCHANGED <<Ledger, shorts, pending, unresolved, typos, realized, paid, gone>>

-----------------------------------------------------------------------------
\* The end of the walk: the exits whose arrival never came.

Settle(g) ==
  /\ pos > Len(rows) /\ unresolved[g] # <<>>
  /\ LET exit == Head(unresolved[g])
         t == rows[exit.row]
         qty == OutflowPortions(t)[exit.part].qty
         sold == Len(OutflowPortions(t)) = 1 /\ t.answer = "left_control"
         proceeds == Proceeds(t, qty)
         popped == AtPar(t.h, qty, exit.popped, t.at)
     IN  IF sold
         THEN /\ Record(t, qty, proceeds, popped, Outcome(proceeds))
              /\ IF proceeds = None THEN UNCHANGED <<realized, writtenOff, gone>>
                 ELSE /\ AddRealized(t.h, proceeds - Costs(popped))
                      /\ writtenOff' = writtenOff - (Units(popped) - Units(exit.popped))
                      /\ gone' = [gone EXCEPT ![g] = @ + Costs(exit.popped)]
         ELSE /\ Record(t, qty, None, exit.popped, "awaiting_pair")
              /\ UNCHANGED <<realized, writtenOff, gone>>
  /\ unresolved' = [unresolved EXCEPT ![g] = Tail(@)]
  /\ UNCHANGED <<Ledger, pos, part, lots, shorts, pending, typos, paid>>

Next ==
  \/ Begin
  \/ Skip \/ CorrectUp \/ CorrectDown \/ DriftOut
  \/ InheritShare \/ InheritAll \/ Acquire
  \/ Sell \/ PayFee
  \/ Carry \/ FeeShare \/ RealizeShare \/ HoldShare
  \/ \E g \in Groups : Settle(g)

Spec == Init /\ [][Next]_vars

-----------------------------------------------------------------------------
Total(f) == MapThenSumSet(LAMBDA x : f[x], DOMAIN f)

Waiting(g) == IF pending[g] = None THEN <<>> ELSE pending[g]

Done == pos > Len(rows) /\ \A g \in Groups : unresolved[g] = <<>>

TypeOK ==
  /\ pos \in 0..(Len(rows) + 1)
  /\ part \in 1..(IF At(NeutralKinds) THEN Len(OutflowPortions(rows[pos])) ELSE 1)
  /\ \A i \in DOMAIN lots :
       lots[i].h \in Holdings /\ lots[i].qty > 0 /\ lots[i].cost >= 0 /\ lots[i].date \in Nat
  /\ \A h \in Holdings : /\ typos[h] >= 0
                         /\ \A i \in DOMAIN shorts[h] : shorts[h][i].qty > 0
  /\ \A g \in Groups : \A i \in DOMAIN Waiting(g) : Waiting(g)[i].qty >= 0
  /\ \A i \in DOMAIN matches : matches[i].qty > 0

\* Arrivals of one group into holdings of two tokens: nobody's transfer.
Mixed(g) ==
  \E i, j \in DOMAIN rows :
    /\ rows[i].group = g /\ rows[j].group = g
    /\ TokenOf[rows[i].h] # TokenOf[rows[j].h]

\* Money is neither lost nor made: when the walk is over the realized gains are
\* the proceeds, less what the arrivals cost, plus the cost that is still on
\* lots, open or waiting, and the cost that was written off.  What is realized
\* at the end of the walk was waiting until then.
MoneyIsConserved ==
  Done /\ (\A g \in Groups : ~Mixed(g)) =>
    /\ \A g \in Groups : gone[g] <= Costs(Waiting(g))
    /\ Total(realized) + paid =
         SumOver(LAMBDA i : IF matches[i].proceeds = None THEN 0 ELSE matches[i].proceeds, matches)
         + Costs(lots)
         + MapThenSumSet(LAMBDA g : Costs(Waiting(g)) - gone[g], Groups)
         - MapThenSumSet(LAMBDA h : SumOver(LAMBDA i : shorts[h][i].value, shorts[h]), Holdings)
         + writtenOff

\* What a row does to the balance of its holding.
Signed(t) == IF t.kind \in AcquireKinds \cup {"correction"} THEN t.qty ELSE -t.qty
Balance(h, n) ==
  MapThenSumSet(LAMBDA i : IF rows[i].h = h THEN Signed(rows[i]) ELSE 0, 1..n)

\* Rows that change a balance and not, or not as much, the lots.
BesideLots == {"correction", "skipped"}

\* The open lots are the balance: where no holding was ever overdrawn or
\* corrected and the walk skips no row, each ends with exactly the units its rows
\* add up to.
BalancesAgree ==
  Done /\ (\A h \in Holdings, n \in DOMAIN rows :
             Balance(h, n) >= 0 /\ rows[n].kind \notin BesideLots)
  => \A h \in Holdings :
       MapThenSumSet(LAMBDA i : lots[i].qty, Owned(lots, h)) = Balance(h, Len(rows))

\* The records explain the figure: on a holding that never goes short and pays
\* no fee out of its units, the gains add up to the realized gain.
GainsAddUp ==
  \A h \in Holdings :
    \/ \E i \in DOMAIN rows : /\ rows[i].h = h
                              /\ \/ rows[i].kind \in FeeKinds \cup SettlementKinds
                                 \/ \E k \in DOMAIN OutflowPortions(rows[i]) :
                                      OutflowPortions(rows[i])[k].action = "fee"
    \/ realized[h] = SumOver(LAMBDA i : IF matches[i].h = h /\ matches[i].gain # None
                                        THEN matches[i].gain ELSE 0, matches)

\* First in, first out, across transfers too: a disposal or a fee never takes a
\* lot while an older one of the holding stays.
OldestFirst ==
  [][method = "fifo" /\ pos \in DOMAIN rows =>
       \A k \in (Len(matches) + 1)..Len(matches') :
         matches'[k].acquired # None =>
           \A i \in Owned(lots', matches'[k].h) : lots'[i].date >= matches'[k].acquired]_vars

\* Section 104 as the statute has it, whatever order the rules are applied in:
\* no unit is claimed twice; a disposal goes to its own day first; what it has
\* left goes to the earliest acquisitions of the days after, until one of the
\* two runs out.
PlanIsLawful ==
  \A acqs \in {Acquisitions(rows)}, disposals \in {Disposals(rows)} :
  LET ClaimedBetween(d, a) ==
        SumOver(LAMBDA k : IF plan[k].key = d.key /\ plan[k].acq = a.id THEN plan[k].qty ELSE 0,
                plan)
      Days(d, a) == TaxDay(a.at) - TaxDay(d.at)
      Reach(d) == {i \in DOMAIN acqs : acqs[i].h = d.h /\ Days(d, acqs[i]) \in 1..BedAndBreakfastDays}
      SameDays(d) == {i \in DOMAIN acqs : acqs[i].h = d.h /\ Days(d, acqs[i]) = 0}
      OnItsDay(d) == MapThenSumSet(LAMBDA i : ClaimedBetween(d, acqs[i]), SameDays(d))
      TakenOnItsDay(a) ==
        SumOver(LAMBDA n : IF disposals[n].h = a.h /\ Days(disposals[n], a) = 0
                           THEN ClaimedBetween(disposals[n], a) ELSE 0, disposals)
  IN  method = "uk_section_104" /\ pos = 1 /\ part = 1 =>
        /\ \A i \in DOMAIN acqs : Unclaimed(plan, acqs[i]) >= 0
        /\ \A n \in DOMAIN disposals :
             LET d == disposals[n]
             IN  /\ Unmatched(plan, d) >= 0
                 /\ ClaimedBy(plan, d.key) =
                      MapThenSumSet(LAMBDA i : ClaimedBetween(d, acqs[i]), SameDays(d) \cup Reach(d))
                 /\ OnItsDay(d) < d.qty =>
                      \A i \in SameDays(d) : TakenOnItsDay(acqs[i]) = acqs[i].qty
                 /\ Unmatched(plan, d) > 0 =>
                      \A i \in Reach(d) : Unclaimed(plan, acqs[i]) = 0
                 /\ \A i, j \in Reach(d) :
                      i < j /\ ClaimedBetween(d, acqs[j]) > 0 => Unclaimed(plan, acqs[i]) = 0

\* Row n is the opening of the holding of row i, stamped with it.
OpenedWith(n, i) ==
  rows[n].kind = "opening" /\ rows[n].h = rows[i].h /\ rows[n].at = rows[i].at

\* Lots that leave for an account of the reader's own arrive there: of a group
\* with one departure nothing is left waiting once an arrival of the same token
\* was stamped with it or after it.  An arrival that was stamped shortly before
\* it, or with it where the departure has made way for the opening of its
\* holding, needs to be alone on its own holding until then: else it stays ahead
\* of the departure, and the lots wait for ever.
LinkedLotsArrive ==
  Done => \A i, j \in DOMAIN rows :
    LET d == rows[i]
        a == rows[j]
    IN  /\ d.kind \in NeutralKinds /\ LinkedArrival(a) /\ d.group = a.group
        /\ d.answer # "split" /\ ~Mixed(a.group)
        /\ \A n \in DOMAIN rows \ {i} : rows[n].group = d.group => LinkedArrival(rows[n])
        /\ a.at < d.at \/ (a.at = d.at /\ \E n \in DOMAIN rows : OpenedWith(n, i)) =>
             /\ d.at - a.at <= EarlyArrivalWindow
             /\ \A n \in DOMAIN rows \ {j} : rows[n].h = a.h => rows[n].at \notin a.at..d.at
        => Waiting(a.group) = <<>>
=============================================================================
