------------------------------- MODULE MCLots -------------------------------
(***************************************************************************)
(* Bounds for TLC: every ledger of three to five rows out of eight small   *)
(* vocabularies, under both methods.  Quantities are in tenths, so that a  *)
(* share is off by a small part of itself; two instants make a day, and    *)
(* both windows are one.                                                   *)
(***************************************************************************)
EXTENDS Lots, TLC

CONSTANTS here, there, cash, purse, coin, dollar, euro, g1

MCHoldings == {here, there, cash, purse}
Tokens == (here :> coin) @@ (there :> coin) @@ (cash :> euro) @@ (purse :> dollar)

R(kind, h, qty, price) ==
  [kind |-> kind, h |-> h, qty |-> qty, worth |-> IF price = None THEN None ELSE price * qty,
   group |-> None, answer |-> "none", split |-> <<>>]
Link(r) == [r EXCEPT !.group = g1]
Answer(r, a) == [r EXCEPT !.answer = a]
Split(r, parts) == [r EXCEPT !.answer = "split", !.split = parts]

\* Purchases and sales of one coin.
Trades ==
  {R("buy", here, 120, 2), R("buy", here, 240, 5), R("sell", here, 240, 7),
   Answer(R("transfer_out", here, 120, 4), "left_control")}

Out240 == R("transfer_out", here, 240, 4)
In(h, qty) == Link(R("transfer_in", h, qty, 4))

\* Coins on the way from here to there: whole, in parts, with a fee.
Moves ==
  {R("buy", here, 240, 2), R("buy", here, 100, 5), R("sell", there, 240, 6),
   Link(Out240),
   Link(Split(Out240, <<[decision |-> "paired", qty |-> 180], [decision |-> "fee", qty |-> 60]>>)),
   In(there, 70), In(there, 240)}

\* Two lots that leave together and arrive in two parts.
Parts ==
  {R("buy", here, 240, 2), R("buy", here, 100, 5), Link(Out240), In(there, 70), In(there, 160),
   R("sell", there, 240, 6)}

\* A chain long enough for old lots to come behind newer ones.
Chain ==
  {R("buy", here, 240, 2), R("buy", there, 120, 5), R("sell", there, 240, 6), Link(Out240),
   In(there, 240)}

\* What an outflow can be answered with, and arrivals that do not fit it.
Answers ==
  {R("buy", here, 240, 2), R("sell", here, 120, None), Out240, Answer(Out240, "fee"), Answer(Out240, "untracked"),
   Link(Answer(Out240, "left_control")),
   Split(Out240, <<[decision |-> "paired", qty |-> 300]>>),
   Split(Out240, <<[decision |-> "fee", qty |-> 60], [decision |-> "left_control", qty |-> 60]>>),
   Link(Split(Out240, <<[decision |-> "internal", qty |-> 120],
                       [decision |-> "left_control", qty |-> 60]>>)),
   R("withdraw", here, 240, 4), In(there, 240), In(cash, 240), R("transfer_in", here, 240, 4)}

\* A departure that makes way for the opening of its holding.
Openings ==
  {R("opening", here, 240, 2), R("opening", there, 120, 3), R("buy", there, 120, 5),
   Link(Out240), In(there, 240), R("sell", there, 120, 6)}

\* Cash that settles trades, and what a holding loses without a trade.
Cash ==
  {R("settle_in", cash, 240, 1), R("settle_out", cash, 360, 1), R("settle_fee", cash, 120, 1),
   R("fee", cash, 60, 1), R("commission", cash, 60, 1), R("loss", cash, 60, 1),
   R("drift_out", cash, 120, 1), R("skipped", cash, 60, None), R("correction", cash, 120, None),
   R("correction", cash, -180, None), R("buy", cash, 240, 3)}

\* The base currency, which leaves at par.
Dollars ==
  {R("settle_in", purse, 240, 1), R("settle_out", purse, 360, 1), R("fee", purse, 300, 1),
   R("commission", purse, 60, 1), Answer(R("transfer_out", purse, 300, 1), "left_control"),
   Link(Answer(R("transfer_out", purse, 300, 1), "left_control"))}

Of(words, length, last, repeat) ==
  [words |-> words, length |-> length, last |-> last, repeat |-> repeat]

MCVocabularies ==
  {Of(Trades, 4, 4, TRUE), Of(Moves, 4, 1, TRUE), Of(Chain, 5, 2, FALSE),
   Of(Parts, 5, 1, FALSE), Of(Answers, 3, 1, TRUE), Of(Cash, 3, 1, TRUE),
   Of(Openings, 5, 1, FALSE), Of(Dollars, 3, 1, TRUE)}
=============================================================================
