-------------------------- MODULE MCTransferReview --------------------------
(***************************************************************************)
(* Two sessions over two departures of one token.  o1, of two units, may   *)
(* be two deposits, one typed by hand, or arrivals in accounts A (with a   *)
(* holding) and N (without one).  o2, of one unit, may be i1, and goes to  *)
(* a destination marked as always a disposal.  t2 is the id under which    *)
(* the typed deposit t1 comes back when an arrival that took it is undone. *)
(***************************************************************************)
EXTENDS TransferReview, TLC

CONSTANTS s1, s2, o1, o2, i1, i2, t1, t2, home, spot, safe, vaultA, vaultB, A, N

MCSize == o1 :> 2 @@ o2 :> 1 @@ i1 :> 1 @@ i2 :> 1 @@ t1 :> 2 @@ t2 :> 2

MCHoldingOf ==
  o1 :> home @@ o2 :> home @@ i1 :> spot @@ i2 :> spot @@ t1 :> safe @@ t2 :> safe

MCClose == {<<o2, i1>>, <<o1, t1>>, <<o1, t2>>}

MCRoom == A :> {safe} @@ N :> {vaultA, vaultB}

MCOpening == safe :> 5 @@ vaultA :> None @@ vaultB :> None

Left(r) == [review |-> r, claims |-> <<>>, into |-> <<>>]

MCAnswers ==
  o1 :> {Left("left_control"), Left("split"),
         [review |-> "paired", claims |-> <<i2, i1>>, into |-> <<>>],
         [review |-> "paired", claims |-> <<t1>>, into |-> <<>>],
         [review |-> "internal", claims |-> <<>>, into |-> A :> 2],
         [review |-> "internal", claims |-> <<>>, into |-> N :> 2],
         [review |-> "split", claims |-> <<i2>>, into |-> N :> 1],
         [review |-> "split", claims |-> <<>>, into |-> A :> 1 @@ N :> 1]}
  @@ o2 :> {Left("untracked"),
            [review |-> "paired", claims |-> <<i1>>, into |-> <<>>],
            [review |-> "internal", claims |-> <<>>, into |-> A :> 1],
            [review |-> "internal", claims |-> <<>>, into |-> N :> 1]}

Symmetric == Permutations(Sessions) \cup Permutations({vaultA, vaultB})
=============================================================================
