----------------------------- MODULE LotMatching -----------------------------
(***************************************************************************)
(* Which acquisitions a disposal is matched with: the draws from the open  *)
(* lots of a holding, and the identification rules of Section 104 that are *)
(* decided for the whole ledger before the walk.                           *)
(*                                                                         *)
(* A Decimal is an integer count of its last digit: a division rounds to   *)
(* the nearest one, as decimal.js does at its 28 digits.                   *)
(***************************************************************************)
EXTENDS Integers, FiniteSets, FiniteSetsExt, SequencesExt

CONSTANTS
  InstantsPerDay,     \* instants of one tax day
  BedAndBreakfastDays \* days after a disposal that rule 2 reaches over

ASSUME CalendarAssumption ==
  /\ InstantsPerDay \in Nat \ {0}
  /\ BedAndBreakfastDays \in Nat

\* a / b to the nearest integer, a half away from zero for a >= 0.
Rounded(a, b) == (2 * a + b) \div (2 * b)

\* The sum of F over the places of a sequence.
SumOver(F(_), seq) == MapThenSumSet(F, DOMAIN seq)

Units(ls) == SumOver(LAMBDA i : ls[i].qty, ls)
Costs(ls) == SumOver(LAMBDA i : ls[i].cost, ls)

TaxDay(at) == at \div InstantsPerDay

-----------------------------------------------------------------------------
\* The draws.  A lot is [qty, cost, date, h]; a draw returns what it took and
\* what is left of all the lots, in their order.

Owned(ls, h) == {i \in DOMAIN ls : ls[i].h = h}

\* What stands in s at the places in S, in the order Before.
Pick(s, S, Before(_, _)) ==
  [k \in 1..Cardinality(S) |->
     s[CHOOSE i \in S : Cardinality({j \in S : Before(j, i)}) = k - 1]]

\* Takes want units of h's lots, the first ones in the order Before; the last
\* lot reached is split.
DrawInOrder(ls, h, want, Before(_, _)) ==
  LET Ahead(i) == MapThenSumSet(LAMBDA j : ls[j].qty, {j \in Owned(ls, h) : Before(j, i)})
      reached == {i \in Owned(ls, h) : Ahead(i) < want}
      Take(i) == Min({ls[i].qty, want - Ahead(i)})
      Cost(i) == IF Take(i) = ls[i].qty THEN ls[i].cost
                 ELSE Rounded(ls[i].cost * Take(i), ls[i].qty)
      parts == [i \in DOMAIN ls |->
                  IF i \in reached THEN [ls[i] EXCEPT !.qty = Take(i), !.cost = Cost(i)]
                  ELSE ls[i]]
      rests == [i \in DOMAIN ls |->
                  IF i \in reached THEN [ls[i] EXCEPT !.qty = @ - Take(i), !.cost = @ - Cost(i)]
                  ELSE ls[i]]
      kept == {i \in DOMAIN ls : i \notin reached \/ Take(i) < ls[i].qty}
  IN  [taken |-> Pick(parts, reached, Before), left |-> Pick(rests, kept, <)]

\* Mutant: the lots leave in the order they stand in the pool.
DrawFirstInPool(ls, h, want) == DrawInOrder(ls, h, want, <)

\* drawOldestFirst: by acquisition date, by place in the pool between equals.
DrawOldestFirst(ls, h, want) ==
  DrawInOrder(ls, h, want,
    LAMBDA i, j : ls[i].date < ls[j].date \/ (ls[i].date = ls[j].date /\ i < j))

\* drawPooled: pro rata over every lot, at the average cost; the last slice
\* takes what rounding left.
DrawPooled(ls, h, want) ==
  LET own == Owned(ls, h)
      units == MapThenSumSet(LAMBDA i : ls[i].qty, own)
      Share(part, i) ==
        LET F(j) == Rounded(part[j] * want, units)
            whole == MapThenSumSet(LAMBDA j : part[j], own)
        IN  IF i = Max(own) THEN Rounded(whole * want, units) - MapThenSumSet(F, own \ {i})
            ELSE F(i)
      Qty(i) == Share([j \in own |-> ls[j].qty], i)
      Cost(i) == Share([j \in own |-> ls[j].cost], i)
      parts == [i \in DOMAIN ls |->
                  IF i \in own THEN [ls[i] EXCEPT !.qty = Qty(i), !.cost = Cost(i)] ELSE ls[i]]
      rests == [i \in DOMAIN ls |->
                  IF i \in own THEN [ls[i] EXCEPT !.qty = @ - Qty(i), !.cost = @ - Cost(i)]
                  ELSE ls[i]]
  IN  IF want <= 0 \/ own = {} \/ units <= 0 THEN [taken |-> <<>>, left |-> ls]
      ELSE IF want >= units
      THEN [taken |-> Pick(ls, own, <), left |-> Pick(ls, DOMAIN ls \ own, <)]
      ELSE [taken |-> Pick(parts, own, <),
            left  |-> Pick(rests, {i \in DOMAIN ls : i \in own => rests[i].qty > 0}, <)]

-----------------------------------------------------------------------------
\* The identification rules.  acqs are [id, h, at, qty], disposals are
\* [key, h, at, qty], both in ledger order; a plan is the sequence of claims
\* [key, acq, qty] in the order they were made.

ClaimedOf(plan, id) ==
  SumOver(LAMBDA k : IF plan[k].acq = id THEN plan[k].qty ELSE 0, plan)
ClaimedBy(plan, key) ==
  SumOver(LAMBDA k : IF plan[k].key = key THEN plan[k].qty ELSE 0, plan)

Claim(plan, d, a, qty) ==
  IF qty <= 0 THEN plan ELSE Append(plan, [key |-> d.key, acq |-> a.id, qty |-> qty])

Unmatched(plan, d) == d.qty - ClaimedBy(plan, d.key)
Unclaimed(plan, a) == a.qty - ClaimedOf(plan, a.id)

\* Rule 1: pro rata over what that day's acquisitions have left.
SameDay(acqs, plan, d) ==
  LET bucket == SelectSeq(acqs, LAMBDA a : /\ a.h = d.h
                                           /\ TaxDay(a.at) = TaxDay(d.at)
                                           /\ Unclaimed(plan, a) > 0)
      available == SumOver(LAMBDA i : Unclaimed(plan, bucket[i]), bucket)
      take == Min({Unmatched(plan, d), available})
      Share(i) == Rounded(Unclaimed(plan, bucket[i]) * take, available)
      Rest == take - MapThenSumSet(Share, 1..(Len(bucket) - 1))
  IN  IF take <= 0 THEN plan
      ELSE FoldLeft(LAMBDA p, i :
                      Claim(p, d, bucket[i], IF i = Len(bucket) THEN Rest ELSE Share(i)),
                    plan, [i \in DOMAIN bucket |-> i])

\* Rule 2: the days after, earliest acquisition first.
DaysAfter(acqs, plan, d) ==
  FoldLeft(LAMBDA p, a :
             IF a.h = d.h /\ TaxDay(a.at) - TaxDay(d.at) \in 1..BedAndBreakfastDays
             THEN Claim(p, d, a, Min({Unmatched(p, d), Unclaimed(p, a)})) ELSE p,
           plan, acqs)

\* Mutant: one pass, in disposal order.
OnePass(acqs, disposals) ==
  FoldLeft(LAMBDA p, d : DaysAfter(acqs, SameDay(acqs, p, d), d), <<>>, disposals)

\* Rule 1 for every disposal, and then rule 2 for every disposal.
PlanSection104Matches(acqs, disposals) ==
  FoldLeft(LAMBDA p, d : DaysAfter(acqs, p, d),
           FoldLeft(LAMBDA p, d : SameDay(acqs, p, d), <<>>, disposals),
           disposals)
=============================================================================
