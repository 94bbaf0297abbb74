----------------------------- MODULE Lots_proofs ------------------------------
(***************************************************************************)
(* Three theorems about the walk of a pool, for every ledger and every     *)
(* value of the constants.                                                 *)
(*                                                                         *)
(* LinkedLotsArriveHolds: lots that leave for an account of the reader's   *)
(* own arrive there, under both methods.  The walk takes the departure     *)
(* before such an arrival, because of the clock, or of the rank at one     *)
(* instant, or of the deferral of early arrivals; an opening pushes a      *)
(* departure back, and nothing forward (OthersStepBack, DepartureFirst).   *)
(* Whatever a row draws, the lots that wait are still lots of the          *)
(* departure's token (DrawnFrom, SharedLots).  And from the departure to   *)
(* its last arrival, Underway says what waits and that an arrival is still *)
(* to come: CInv.                                                          *)
(*                                                                         *)
(* OldestFirstHolds: first in, first out takes the oldest lots of the      *)
(* holding.  What a lot gives is decided by the units of the older ones    *)
(* ahead of it (AheadGrows, OldestGo): Walk.                               *)
(*                                                                         *)
(* BalancesAgreeHolds: first in, first out leaves each holding with what   *)
(* its rows add up to.  In the middle of the walk it owns the balance of   *)
(* the rows gone by, less the shares already taken of the row it is at,    *)
(* nothing is short, and what waits for an arrival has units: AgreedAt,    *)
(* and with the walk's own facts Balanced.                                 *)
(***************************************************************************)
EXTENDS Lots, Sums_proofs, FunctionTheorems, SequenceTheorems

USE DEF NeutralKinds

-----------------------------------------------------------------------------
(* What Pick puts where.  An order is a function here, from each of S to     *)
(* the set of those before it, so that a lemma can be cited about it.       *)

Orders(R, S) ==
  /\ \A i \in S : R[i] \subseteq S /\ i \notin R[i]
  /\ \A i, j \in S : i = j \/ i \in R[j] \/ j \in R[i]
  /\ \A i, j \in S : i \in R[j] => R[i] \subseteq R[j]

Place(R, i) == Cardinality(R[i]) + 1

\* A place is one of the places there are.
LEMMA PlaceType ==
  ASSUME NEW S, IsFiniteSet(S), NEW R, Orders(R, S), NEW i \in S
  PROVE  /\ Place(R, i) \in 1..Cardinality(S)
         /\ IsFiniteSet(R[i]) /\ Cardinality(R[i]) \in Nat
<1>1. R[i] \in SUBSET S /\ R[i] # S
  BY DEF Orders
<1>2. /\ IsFiniteSet(R[i]) /\ Cardinality(R[i]) <= Cardinality(S)
      /\ Cardinality(S) # Cardinality(R[i])
  BY <1>1, FS_Subset
<1>3. Cardinality(S) \in Nat /\ Cardinality(R[i]) \in Nat
  BY <1>2, FS_CardinalityType
<1>4. QED
  BY <1>2, <1>3 DEF Place

\* Who is before another has the lower place.
LEMMA PlaceGrows ==
  ASSUME NEW S, IsFiniteSet(S), NEW R, Orders(R, S), NEW i \in S, NEW j \in S, i \in R[j]
  PROVE  Place(R, i) < Place(R, j)
<1>1. R[i] \in SUBSET R[j] /\ R[i] # R[j]
  BY DEF Orders
<1>2. IsFiniteSet(R[j]) /\ Cardinality(R[i]) \in Nat /\ Cardinality(R[j]) \in Nat
  BY PlaceType
<1>3. Cardinality(R[i]) <= Cardinality(R[j]) /\ Cardinality(R[i]) # Cardinality(R[j])
  BY <1>1, <1>2, FS_Subset
<1>4. QED
  BY <1>2, <1>3 DEF Place

\* Every place is taken, and by one only.
LEMMA PlacesTaken ==
  ASSUME NEW S, IsFiniteSet(S), NEW R, Orders(R, S)
  PROVE  /\ \A i, j \in S : Place(R, i) = Place(R, j) => i = j
         /\ \A k \in 1..Cardinality(S) : \E i \in S : Place(R, i) = k
<1> DEFINE f == [i \in S |-> Place(R, i)]
<1>1. Cardinality(S) \in Nat
  BY FS_CardinalityType
<1>2. IsFiniteSet(1..Cardinality(S)) /\ Cardinality(1..Cardinality(S)) = Cardinality(S)
  BY <1>1, FS_Interval
<1>3. \A i, j \in S : Place(R, i) = Place(R, j) => i = j
  <2> SUFFICES ASSUME NEW i \in S, NEW j \in S, i # j PROVE Place(R, i) # Place(R, j)
    OBVIOUS
  <2>1. i \in R[j] \/ j \in R[i]
    BY DEF Orders
  <2>2. Place(R, i) \in Nat /\ Place(R, j) \in Nat
    BY <1>1, PlaceType
  <2>3. i \in R[j] => Place(R, i) < Place(R, j)
    BY PlaceGrows
  <2>4. j \in R[i] => Place(R, j) < Place(R, i)
    BY PlaceGrows
  <2>5. QED
    BY <2>1, <2>2, <2>3, <2>4
<1>4. f \in [S -> 1..Cardinality(S)]
  BY PlaceType
<1>5. f \in Injection(S, 1..Cardinality(S))
  <2>1. \A i, j \in S : f[i] = f[j] => i = j
    BY <1>3
  <2> HIDE DEF f
  <2>2. QED
    BY <1>4, <2>1, Fun_IsInj
<1>6. f \in Surjection(S, 1..Cardinality(S))
  <2> HIDE DEF f
  <2>1. QED
    BY <1>2, <1>5, FS_Injection
<1>7. \A k \in 1..Cardinality(S) : \E i \in S : f[i] = k
  BY <1>6 DEF Surjection
<1>8. QED
  BY <1>3, <1>7

\* Numbers in their own order.
Lower(P) == [i \in P |-> {j \in P : j < i}]

LEMMA LowerOrders ==
  ASSUME NEW P, P \subseteq Int
  PROVE  Orders(Lower(P), P)
<1>1. \A i, j \in P : i \in Lower(P)[j] <=> i < j
  BY DEF Lower
<1>2. \A i \in P : Lower(P)[i] \subseteq P /\ i \in Int
  BY DEF Lower
<1>3. \A i, j \in P : i \in Lower(P)[j] => Lower(P)[i] \subseteq Lower(P)[j]
  BY <1>1, <1>2
<1>4. QED
  BY <1>1, <1>2, <1>3 DEF Orders

\* p is what Pick makes of s: a place for each of S, in the order R.
Picked(p, s, S, R) ==
  /\ DOMAIN p = 1..Cardinality(S)
  /\ p = [k \in 1..Cardinality(S) |-> p[k]]
  /\ \A k \in DOMAIN p : \E i \in S : Place(R, i) = k /\ p[k] = s[i]
  /\ \A i \in S : Place(R, i) \in DOMAIN p /\ p[Place(R, i)] = s[i]

\* It is enough that every place holds the one whose place it is.
LEMMA PickIs ==
  ASSUME NEW s, NEW S, IsFiniteSet(S), NEW R, Orders(R, S), NEW p,
         p = [k \in 1..Cardinality(S) |-> p[k]],
         \A k \in 1..Cardinality(S) : \E i \in S : Place(R, i) = k /\ p[k] = s[i]
  PROVE  Picked(p, s, S, R)
<1>1. DOMAIN p = 1..Cardinality(S)
  OBVIOUS
<1>2. \A i \in S : Place(R, i) \in DOMAIN p /\ p[Place(R, i)] = s[i]
  <2> TAKE i \in S
  <2>1. Place(R, i) \in DOMAIN p
    BY <1>1, PlaceType
  <2>2. PICK j \in S : Place(R, j) = Place(R, i) /\ p[Place(R, i)] = s[j]
    BY <1>1, <2>1
  <2>3. j = i
    BY <2>2, PlacesTaken
  <2>4. QED
    BY <2>1, <2>2, <2>3
<1>3. QED
  BY <1>1, <1>2 DEF Picked

-----------------------------------------------------------------------------
(* The order of the walk.                                                   *)

\* What can be put in order: rows with a stamp and a name of their own.
Stampable(s) ==
  /\ DOMAIN s = 1..Cardinality(DOMAIN s) /\ IsFiniteSet(DOMAIN s)
  /\ \A i \in DOMAIN s : s[i].at \in Int /\ s[i].id \in Int
  /\ \A i, j \in DOMAIN s : s[i].id = s[j].id => i = j

Before(s) == [i \in DOMAIN s |-> {j \in DOMAIN s : Earlier(s[j], s[i])}]

\* The clock, the rank and the id put any ledger in one order.
LEMMA BeforeOrders ==
  ASSUME NEW s, Stampable(s)
  PROVE  Orders(Before(s), DOMAIN s)
<1>1. \A i, j \in DOMAIN s : i \in Before(s)[j] <=> Earlier(s[i], s[j])
  BY DEF Before
<1>2. \A i \in DOMAIN s : s[i].at \in Int /\ s[i].id \in Int /\ Rank(s[i]) \in Int
  BY DEF Stampable, Rank
<1>3. \A i, j \in DOMAIN s : s[i].id = s[j].id => i = j
  BY DEF Stampable
<1>4. \A i \in DOMAIN s : ~ Earlier(s[i], s[i])
  BY <1>2 DEF Earlier
<1>5. \A i, j \in DOMAIN s : i = j \/ Earlier(s[i], s[j]) \/ Earlier(s[j], s[i])
  BY <1>2, <1>3 DEF Earlier
<1>6. \A i, j, k \in DOMAIN s :
        Earlier(s[i], s[j]) /\ Earlier(s[j], s[k]) => Earlier(s[i], s[k])
  BY <1>2 DEF Earlier
<1>7. \A i \in DOMAIN s : Before(s)[i] \subseteq DOMAIN s
  BY DEF Before
<1>8. \A i, j \in DOMAIN s : i \in Before(s)[j] => Before(s)[i] \subseteq Before(s)[j]
  BY <1>1, <1>6, <1>7
<1>9. QED
  BY <1>1, <1>4, <1>5, <1>7, <1>8 DEF Orders

\* SortLedgerEvents picks by that order.
LEMMA SortPicks ==
  ASSUME NEW s, Stampable(s)
  PROVE  Picked(SortLedgerEvents(s), s, DOMAIN s, Before(s))
<1> DEFINE D == DOMAIN s
           R == Before(s)
           p == SortLedgerEvents(s)
<1>1. IsFiniteSet(D) /\ Orders(R, D)
  BY BeforeOrders DEF Stampable
<1>2. p = [k \in 1..Cardinality(D) |->
             s[CHOOSE i \in D : Cardinality({j \in D : Earlier(s[j], s[i])}) = k - 1]]
  BY DEF SortLedgerEvents, Pick
<1>3. \A i \in D : {j \in D : Earlier(s[j], s[i])} = R[i]
  BY DEF Before
<1>4. \A k \in 1..Cardinality(D) : \E i \in D : Place(R, i) = k /\ p[k] = s[i]
  <2> TAKE k \in 1..Cardinality(D)
  <2>1. PICK i \in D : Place(R, i) = k
    BY <1>1, PlacesTaken
  <2>2. Cardinality(D) \in Nat /\ \A j \in D : Cardinality(R[j]) \in Nat
    BY <1>1, PlaceType, FS_CardinalityType
  <2> DEFINE c == CHOOSE l \in D : Cardinality({j \in D : Earlier(s[j], s[l])}) = k - 1
  <2>3. Cardinality({j \in D : Earlier(s[j], s[i])}) = k - 1
    <3>1. Cardinality(R[i]) = k - 1
      BY <2>1, <2>2 DEF Place
    <3>2. {j \in D : Earlier(s[j], s[i])} = R[i]
      BY <1>3
    <3>3. QED
      BY <3>1, <3>2
  <2>4. c \in D /\ Cardinality({j \in D : Earlier(s[j], s[c])}) = k - 1
    BY <2>3
  <2>5. p[k] = s[c]
    BY <1>2
  <2> HIDE DEF c, p, R
  <2>6. Cardinality(R[c]) = k - 1
    BY <1>3, <2>4
  <2>7. Place(R, c) = k
    BY <2>2, <2>4, <2>6 DEF Place
  <2>8. QED
    BY <2>4, <2>5, <2>7
<1>5. p = [k \in 1..Cardinality(D) |-> p[k]]
  BY <1>2
<1> HIDE DEF p
<1>6. Picked(p, s, D, R)
  BY <1>1, <1>4, <1>5, PickIs
<1>7. QED
  BY <1>6 DEF p

\* By the clock, and what leaves first.
Sorted(s) ==
  \A k, l \in DOMAIN s : k < l => /\ s[k].at <= s[l].at
                                  /\ s[k].at = s[l].at => Rank(s[k]) <= Rank(s[l])

\* s is made of rows of the other.
MadeOf(s, ledger) ==
  /\ DOMAIN s = DOMAIN ledger
  /\ \A k \in DOMAIN s : \E i \in DOMAIN ledger : s[k] = ledger[i]

\* Sorted by the clock and the rank, and no row is changed.
LEMMA SortSorts ==
  ASSUME NEW ledger, Stampable(ledger)
  PROVE  Sorted(SortLedgerEvents(ledger)) /\ MadeOf(SortLedgerEvents(ledger), ledger)
<1> DEFINE D == DOMAIN ledger
           R == Before(ledger)
           s == SortLedgerEvents(ledger)
<1>1. IsFiniteSet(D) /\ Orders(R, D) /\ D = 1..Cardinality(D) /\ Cardinality(D) \in Nat
  BY BeforeOrders, FS_CardinalityType DEF Stampable
<1>2. Picked(s, ledger, D, R)
  BY SortPicks
<1> HIDE DEF s, R
<1>3. MadeOf(s, ledger)
  BY <1>1, <1>2 DEF Picked, MadeOf
<1>4. Sorted(s)
  <2> SUFFICES ASSUME NEW k \in DOMAIN s, NEW l \in DOMAIN s, k < l
               PROVE  /\ s[k].at <= s[l].at
                      /\ s[k].at = s[l].at => Rank(s[k]) <= Rank(s[l])
    BY DEF Sorted
  <2>1. PICK i \in D : Place(R, i) = k /\ s[k] = ledger[i]
    BY <1>2 DEF Picked
  <2>2. PICK j \in D : Place(R, j) = l /\ s[l] = ledger[j]
    BY <1>2 DEF Picked
  <2>3. k \in Int /\ l \in Int
    BY <1>1, <1>2 DEF Picked
  <2>4. i \in R[j]
    <3>1. i # j
      BY <2>1, <2>2, <2>3
    <3>2. ~ (j \in R[i])
      BY <1>1, <2>1, <2>2, <2>3, PlaceGrows
    <3>3. QED
      BY <1>1, <3>1, <3>2 DEF Orders
  <2>5. Earlier(ledger[i], ledger[j])
    BY <2>4 DEF R, Before
  <2>6. /\ ledger[i].at \in Int /\ ledger[j].at \in Int
        /\ Rank(ledger[i]) \in Int /\ Rank(ledger[j]) \in Int
    BY DEF Stampable, Rank
  <2>7. QED
    BY <2>1, <2>2, <2>5, <2>6 DEF Earlier
<1>5. QED
  BY <1>3, <1>4 DEF s

\* Whom a row may swap with, and how those of first come ahead of the others.
Peers(s, among, i) == {j \in among : s[j].at = s[i].at /\ s[j].h = s[i].h}
ComesFirst(first, i, j) == \/ i \in first /\ j \notin first
                           \/ (i \in first <=> j \in first) /\ i < j
FirstOf(first, P) == [i \in P |-> {j \in P : ComesFirst(first, j, i)}]

\* Some rows first is an order.
LEMMA FirstOrders ==
  ASSUME NEW P, P \subseteq Int, NEW first
  PROVE  Orders(FirstOf(first, P), P)
<1>1. \A i, j \in P : i \in FirstOf(first, P)[j] <=> ComesFirst(first, i, j)
  BY DEF FirstOf
<1>2. \A i \in P : FirstOf(first, P)[i] \subseteq P
  BY DEF FirstOf
<1>3. \A i \in P : i \in Int
  OBVIOUS
<1>4. \A i \in P : ~ ComesFirst(first, i, i)
  BY <1>3 DEF ComesFirst
<1>5. \A i, j \in P : i = j \/ ComesFirst(first, i, j) \/ ComesFirst(first, j, i)
  BY <1>3 DEF ComesFirst
<1>6. \A i, j, k \in P : ComesFirst(first, i, j) /\ ComesFirst(first, j, k) => ComesFirst(first, i, k)
  BY <1>3 DEF ComesFirst
<1>7. \A i, j \in P : i \in FirstOf(first, P)[j] => FirstOf(first, P)[i] \subseteq FirstOf(first, P)[j]
  BY <1>1, <1>2, <1>6
<1>8. QED
  BY <1>1, <1>2, <1>4, <1>5, <1>7 DEF Orders

\* How many of P stand up to one of them.
LEMMA CountUpTo ==
  ASSUME NEW P, IsFiniteSet(P), P \subseteq Int, NEW i \in P
  PROVE  Cardinality({j \in P : j <= i}) = Place(Lower(P), i)
<1> DEFINE L == {j \in P : j < i}
<1>1. Lower(P)[i] = L
  BY DEF Lower
<1>2. {j \in P : j <= i} = L \cup {i} /\ i \notin L
  <2>1. \A j \in P : (j <= i <=> j < i \/ j = i) /\ ~ (i < i)
    OBVIOUS
  <2>2. QED
    BY <2>1
<1>3. IsFiniteSet(L)
  BY FS_Subset
<1> HIDE DEF L
<1>4. Cardinality(L \cup {i}) = Cardinality(L) + 1
  BY <1>2, <1>3, FS_AddElement
<1>5. QED
  BY <1>1, <1>2, <1>4 DEF Place

\* The place of i among its peers holds the peer that comes so far in the order.
LEMMA SwapsTo ==
  ASSUME NEW s, IsFiniteSet(DOMAIN s), DOMAIN s \subseteq Int,
         NEW among, among \subseteq DOMAIN s, NEW first, NEW i \in among
  PROVE  LET P == Peers(s, among, i)
         IN  \E q \in P : /\ Place(FirstOf(first, P), q) = Place(Lower(P), i)
                          /\ FirstWithinInstant(s, among, first)[i] = s[q]
<1> DEFINE P == Peers(s, among, i)
           R == FirstOf(first, P)
           n == Cardinality({j \in P : j <= i})
           c == CHOOSE l \in P : Cardinality({j \in P : ComesFirst(first, j, l)}) = n - 1
<1>1. IsFiniteSet(P) /\ P \subseteq Int /\ i \in P
  BY FS_Subset DEF Peers
<1>2. Orders(R, P) /\ Orders(Lower(P), P)
  BY <1>1, FirstOrders, LowerOrders
<1>3. n = Place(Lower(P), i) /\ n \in 1..Cardinality(P)
  <2> DEFINE L == Lower(P)
  <2>1. IsFiniteSet(P) /\ P \subseteq Int /\ i \in P /\ Orders(L, P)
    BY <1>1, <1>2
  <2> HIDE DEF P
  <2>2. n = Place(L, i)
    BY <1>1, CountUpTo
  <2> HIDE DEF L, n
  <2>3. Place(L, i) \in 1..Cardinality(P)
    BY ONLY <2>1, PlaceType
  <2>4. QED
    BY <2>2, <2>3 DEF L
<1>4. FirstWithinInstant(s, among, first)[i] =
        [k \in 1..Cardinality(P) |->
           s[CHOOSE l \in P : Cardinality({j \in P : ComesFirst(first, j, l)}) = k - 1]][n]
  BY DEF FirstWithinInstant, Pick, Peers, ComesFirst
<1>5. FirstWithinInstant(s, among, first)[i] = s[c]
  BY <1>3, <1>4
<1>6. \A l \in P : {j \in P : ComesFirst(first, j, l)} = R[l]
  BY DEF FirstOf
<1> HIDE DEF n, R, P
<1>7. PICK l \in P : Place(R, l) = n
  <2>1. IsFiniteSet(P) /\ Orders(R, P)
    BY <1>1, <1>2
  <2>2. \A k \in 1..Cardinality(P) : \E l \in P : Place(R, l) = k
    BY ONLY <2>1, PlacesTaken
  <2>3. QED
    BY <1>3, <2>2
<1>8. \A k \in P : Cardinality(R[k]) \in Nat
  BY <1>1, <1>2, PlaceType
<1>9. Cardinality(R[l]) = n - 1
  BY <1>7, <1>8 DEF Place
<1>10. Cardinality({j \in P : ComesFirst(first, j, l)}) = n - 1
  BY <1>6, <1>9
<1>11. c \in P /\ Cardinality({j \in P : ComesFirst(first, j, c)}) = n - 1
  BY <1>10
<1> HIDE DEF c
<1>12. Cardinality(R[c]) = n - 1
  BY <1>6, <1>11
<1>13. Place(R, c) = n
  BY <1>3, <1>8, <1>11, <1>12 DEF Place
<1>14. QED
  BY <1>3, <1>5, <1>11, <1>13 DEF P, R

\* Every row is still at its instant and on its holding, a row that is not among
\* those that swap has not moved, and no row is lost.
LEMMA SwapKeeps ==
  ASSUME NEW s, IsFiniteSet(DOMAIN s), DOMAIN s \subseteq Int,
         NEW among, among \subseteq DOMAIN s, NEW first,
         NEW u, u = FirstWithinInstant(s, among, first)
  PROVE  /\ MadeOf(u, s)
         /\ \A k \in DOMAIN s : /\ u[k].at = s[k].at /\ u[k].h = s[k].h
                                /\ k \notin among => u[k] = s[k]
                                /\ k \in among => \E q \in among : u[k] = s[q]
         /\ \A q \in DOMAIN s : \E k \in DOMAIN s : u[k] = s[q]
<1>1. DOMAIN u = DOMAIN s
  BY DEF FirstWithinInstant
<1>2. \A k \in among : \E q \in Peers(s, among, k) : u[k] = s[q]
  BY SwapsTo
<1>3. \A k \in DOMAIN s : k \notin among => u[k] = s[k]
  BY DEF FirstWithinInstant
<1>4. \A q \in among : \E k \in DOMAIN s : u[k] = s[q]
  <2> TAKE q \in among
  <2> DEFINE P == Peers(s, among, q)
             R == FirstOf(first, P)
  <2>1. IsFiniteSet(P) /\ P \subseteq Int /\ q \in P
    BY FS_Subset DEF Peers
  <2>2. Orders(R, P) /\ Orders(Lower(P), P)
    BY <2>1, FirstOrders, LowerOrders
  <2>3. \A k \in P : k \in among /\ Peers(s, among, k) = P
    BY DEF Peers
  <2>4. \A k \in P : \E l \in P : Place(R, l) = Place(Lower(P), k) /\ u[k] = s[l]
    <3> SUFFICES ASSUME NEW k \in P
                 PROVE  \E l \in P : Place(R, l) = Place(Lower(P), k) /\ u[k] = s[l]
      OBVIOUS
    <3>1. k \in among /\ Peers(s, among, k) = P
      BY <2>3
    <3> HIDE DEF P
    <3>2. \E l \in Peers(s, among, k) :
            /\ Place(FirstOf(first, Peers(s, among, k)), l) = Place(Lower(Peers(s, among, k)), k)
            /\ FirstWithinInstant(s, among, first)[k] = s[l]
      BY <3>1, SwapsTo
    <3>3. QED
      BY <3>1, <3>2
  <2> HIDE DEF P, R
  <2>5. Place(R, q) \in 1..Cardinality(P)
    BY <2>1, <2>2, PlaceType
  <2>6. PICK k \in P : Place(Lower(P), k) = Place(R, q)
    <3> DEFINE L == Lower(P)
    <3>1. IsFiniteSet(P) /\ Orders(L, P)
      BY <2>1, <2>2
    <3> HIDE DEF L
    <3>2. \A n \in 1..Cardinality(P) : \E k \in P : Place(L, k) = n
      BY ONLY <3>1, PlacesTaken
    <3>3. QED
      BY <2>5, <3>2 DEF L
  <2>7. PICK l \in P : Place(R, l) = Place(R, q) /\ u[k] = s[l]
    BY <2>4, <2>6
  <2>8. l = q
    BY <2>1, <2>2, <2>7, PlacesTaken
  <2>9. QED
    BY <2>3, <2>7, <2>8
<1>5. \A k \in DOMAIN s : \E q \in DOMAIN s :
        /\ u[k] = s[q] /\ s[q].at = s[k].at /\ s[q].h = s[k].h
        /\ k \in among => q \in among
  BY <1>2, <1>3 DEF Peers
<1>6. \A q \in DOMAIN s : \E k \in DOMAIN s : u[k] = s[q]
  BY <1>3, <1>4
<1>7. QED
  BY <1>1, <1>3, <1>5, <1>6 DEF MadeOf

\* What comes first pushes the others back, never forward, and where nothing
\* comes first nothing moves.
LEMMA OthersStepBack ==
  ASSUME NEW s, IsFiniteSet(DOMAIN s), DOMAIN s \subseteq Int,
         NEW first, NEW i \in DOMAIN s, NEW u, u = FirstWithinInstant(s, DOMAIN s, first)
  PROVE  \E q \in DOMAIN s : /\ u[i] = s[q] /\ s[q].at = s[i].at /\ s[q].h = s[i].h
                             /\ q \notin first => q <= i
                             /\ Peers(s, DOMAIN s, i) \cap first = {} => q = i
<1> DEFINE P == Peers(s, DOMAIN s, i)
           R == FirstOf(first, P)
<1>1. IsFiniteSet(P) /\ P \subseteq Int /\ i \in P
  BY FS_Subset DEF Peers
<1>2. Orders(R, P) /\ Orders(Lower(P), P)
  BY <1>1, FirstOrders, LowerOrders
<1>3. PICK q \in P : Place(R, q) = Place(Lower(P), i) /\ u[i] = s[q]
  BY SwapsTo
<1>4. q \in DOMAIN s /\ s[q].at = s[i].at /\ s[q].h = s[i].h
  BY DEF Peers
<1> HIDE DEF P
<1>5. q \notin first => q <= i
  <2> SUFFICES ASSUME q \notin first, i < q PROVE FALSE
    BY <1>1, <1>3
  <2>1. Lower(P)[q] \subseteq R[q]
    <3>1. \A j \in P : j < q => ComesFirst(first, j, q)
      BY DEF ComesFirst
    <3>2. QED
      BY <3>1 DEF Lower, FirstOf, R
  <2>2. IsFiniteSet(R[q]) /\ Cardinality(R[q]) \in Nat /\ Cardinality(Lower(P)[q]) \in Nat
    BY <1>1, <1>2, PlaceType
  <2>3. Cardinality(Lower(P)[q]) <= Cardinality(R[q])
    BY <2>1, <2>2, FS_Subset
  <2>4. i \in Lower(P)[q]
    BY <1>1 DEF Lower
  <2>5. Place(Lower(P), i) < Place(Lower(P), q)
    BY <1>1, <1>2, <2>4, PlaceGrows
  <2>6. QED
    BY <1>3, <2>2, <2>3, <2>5 DEF Place
<1>6. P \cap first = {} => q = i
  <2> SUFFICES ASSUME P \cap first = {} PROVE q = i
    OBVIOUS
  <2>1. \A j \in P : ComesFirst(first, j, q) <=> j < q
    BY DEF ComesFirst
  <2>2. R[q] = Lower(P)[q]
    BY <2>1 DEF Lower, FirstOf, R
  <2>3. Place(Lower(P), q) = Place(Lower(P), i)
    BY <1>3, <2>2 DEF Place
  <2>4. QED
    BY <1>1, <1>2, <2>3, PlacesTaken
<1>7. QED
  BY <1>3, <1>4, <1>5, <1>6 DEF P

\* An opening goes ahead on its holding: what it pushes aside steps back, and
\* without one nothing moves.
LEMMA OpeningsKeep ==
  ASSUME NEW s, NEW n \in Nat, DOMAIN s = 1..n
  PROVE  LET o == OpeningsFirst(s)
         IN  /\ MadeOf(o, s)
             /\ \A k \in 1..n : o[k].at = s[k].at /\ o[k].h = s[k].h
             /\ \A l \in 1..n : \E k \in 1..n : o[k] = s[l]
             /\ \A k \in 1..n : \E l \in 1..n :
                  /\ o[k] = s[l] /\ s[l].at = s[k].at /\ s[l].h = s[k].h
                  /\ s[l].kind # "opening" => l <= k
                  /\ (\A m \in 1..n : s[m].h = s[k].h /\ s[m].at = s[k].at
                                        => s[m].kind # "opening") => l = k
<1> DEFINE first == {i \in DOMAIN s : s[i].kind = "opening"}
           o == FirstWithinInstant(s, DOMAIN s, first)
<1>1. IsFiniteSet(DOMAIN s) /\ DOMAIN s \subseteq Int
  BY FS_Interval
<1>2. o = OpeningsFirst(s)
  BY DEF OpeningsFirst
<1> HIDE DEF o
<1>3. /\ MadeOf(o, s)
      /\ \A k \in DOMAIN s : o[k].at = s[k].at /\ o[k].h = s[k].h
      /\ \A l \in DOMAIN s : \E k \in DOMAIN s : o[k] = s[l]
  <2> HIDE DEF first
  <2> DEFINE all == DOMAIN s
  <2>1. all \subseteq DOMAIN s /\ IsFiniteSet(DOMAIN s) /\ DOMAIN s \subseteq Int
    BY <1>1
  <2>2. o = FirstWithinInstant(s, all, first)
    BY DEF o
  <2> HIDE DEF all
  <2>3. /\ MadeOf(o, s)
        /\ \A k \in DOMAIN s : /\ o[k].at = s[k].at /\ o[k].h = s[k].h
                               /\ k \notin all => o[k] = s[k]
                               /\ k \in all => \E q \in all : o[k] = s[q]
    BY ONLY <2>1, <2>2, SwapKeeps
  <2>4. ASSUME NEW l \in DOMAIN s
        PROVE  \E k \in DOMAIN s : o[k] = s[l]
    BY ONLY <2>1, <2>2, <2>4, SwapKeeps
  <2>5. QED
    BY ONLY <2>3, <2>4
<1>4. ASSUME NEW k \in 1..n
      PROVE  \E l \in 1..n :
                  /\ o[k] = s[l] /\ s[l].at = s[k].at /\ s[l].h = s[k].h
                  /\ s[l].kind # "opening" => l <= k
                  /\ (\A m \in 1..n : s[m].h = s[k].h /\ s[m].at = s[k].at
                                        => s[m].kind # "opening") => l = k
  <2> HIDE DEF first
  <2>1. PICK l \in DOMAIN s : /\ o[k] = s[l] /\ s[l].at = s[k].at /\ s[l].h = s[k].h
                              /\ l \notin first => l <= k
                              /\ Peers(s, DOMAIN s, k) \cap first = {} => l = k
    <3>1. IsFiniteSet(DOMAIN s) /\ DOMAIN s \subseteq Int /\ k \in DOMAIN s
      BY <1>1, <1>4
    <3>2. o = FirstWithinInstant(s, DOMAIN s, first)
      BY DEF o
    <3>3. QED
      BY ONLY <3>1, <3>2, OthersStepBack
  <2>2. (\A m \in 1..n : s[m].h = s[k].h /\ s[m].at = s[k].at => s[m].kind # "opening")
          => Peers(s, DOMAIN s, k) \cap first = {}
    BY DEF Peers, first
  <2>3. QED
    BY <2>1, <2>2 DEF first
<1>5. QED
  BY <1>2, <1>3, <1>4

\* Unlinked legs swap among themselves: linked rows and openings stay.
LEMMA LegsKeep ==
  ASSUME NEW s, NEW n \in Nat, DOMAIN s = 1..n
  PROVE  LET u == UnlinkedArrivalsFirst(s)
         IN  /\ MadeOf(u, s)
             /\ \A k \in 1..n : /\ u[k].at = s[k].at /\ u[k].h = s[k].h
                                /\ Linked(u[k]) => u[k] = s[k]
                                /\ s[k].kind = "opening" => u[k] = s[k]
<1> DEFINE legs == {i \in DOMAIN s : s[i].kind \in {"transfer_in", "transfer_out"} /\ ~Linked(s[i])}
           first == {i \in DOMAIN s : s[i].kind = "transfer_in"}
           u == FirstWithinInstant(s, legs, first)
<1>1. IsFiniteSet(DOMAIN s) /\ DOMAIN s \subseteq Int /\ legs \subseteq DOMAIN s
  BY FS_Interval
<1>2. u = UnlinkedArrivalsFirst(s)
  BY DEF UnlinkedArrivalsFirst
<1>3. /\ MadeOf(u, s)
      /\ \A k \in DOMAIN s : /\ u[k].at = s[k].at /\ u[k].h = s[k].h
                             /\ k \notin legs => u[k] = s[k]
                             /\ k \in legs => \E q \in legs : u[k] = s[q]
  <2> HIDE DEF first, legs
  <2>1. u = FirstWithinInstant(s, legs, first)
    OBVIOUS
  <2> HIDE DEF u
  <2>2. QED
    BY ONLY <1>1, <2>1, SwapKeeps
<1> HIDE DEF u
<1>4. \A k \in legs : ~ Linked(u[k]) /\ s[k].kind # "opening"
  BY <1>3
<1>5. QED
  BY <1>2, <1>3, <1>4

\* What deferEarlyArrivals puts behind what.
Departures(s, g) == {i \in DOMAIN s : s[i].kind \in NeutralKinds /\ s[i].group = g}
Deferred(s, i) ==
  /\ LinkedArrival(s[i])
  /\ Departures(s, s[i].group) # {}
  /\ LET d == Max(Departures(s, s[i].group))
     IN  /\ i < d
         /\ s[d].at - s[i].at <= EarlyArrivalWindow
         /\ \A j \in (i + 1)..(d - 1) : s[j].h # s[i].h
Slot(s, i) == IF Deferred(s, i) THEN Max(Departures(s, s[i].group)) ELSE i
Walked(s, i, j) ==
  \/ Slot(s, i) < Slot(s, j)
  \/ Slot(s, i) = Slot(s, j) /\ (IF Deferred(s, i) = Deferred(s, j) THEN i < j ELSE Deferred(s, j))
WalkedBefore(s) == [i \in DOMAIN s |-> {j \in DOMAIN s : Walked(s, j, i)}]

\* A bounded set of numbers that is not empty has a greatest.
LEMMA GreatestOf ==
  ASSUME NEW n \in Nat, NEW T, T \subseteq 1..n, T # {}
  PROVE  Max(T) \in T /\ \A m \in T : m <= Max(T)
<1> DEFINE U == {n - m : m \in T}
<1>1. U \subseteq Nat /\ U # {}
  <2>1. \A m \in T : n - m \in Nat
    OBVIOUS
  <2>2. QED
    BY <2>1
<1>2. PICK a \in U : \A b \in U : a <= b
  BY <1>1, LeastOf
<1>3. PICK x \in T : a = n - x
  BY <1>2
<1>4. \A m \in T : x >= m
  <2> TAKE m \in T
  <2>1. a <= n - m
    BY <1>2
  <2>2. QED
    BY <1>3, <2>1
<1>5. Max(T) \in T /\ \A m \in T : Max(T) >= m
  BY <1>4 DEF Max
<1>6. QED
  BY <1>5

\* The slots put any rows in one order, deferred arrivals behind their departure.
LEMMA WalkedOrders ==
  ASSUME NEW s, NEW n \in Nat, DOMAIN s = 1..n
  PROVE  Orders(WalkedBefore(s), DOMAIN s)
<1> DEFINE D == DOMAIN s
           R == WalkedBefore(s)
<1>1. \A i \in D : Slot(s, i) \in Int /\ i \in Int /\ Deferred(s, i) \in BOOLEAN
  <2> TAKE i \in D
  <2>1. i \in Int /\ Deferred(s, i) \in BOOLEAN
    BY DEF Deferred, LinkedArrival
  <2>2. CASE Deferred(s, i)
    <3>1. Departures(s, s[i].group) \subseteq 1..n /\ Departures(s, s[i].group) # {}
      BY <2>2 DEF Deferred, Departures
    <3>2. Max(Departures(s, s[i].group)) \in 1..n
      BY <3>1, GreatestOf
    <3>3. QED
      BY <2>1, <2>2, <3>2 DEF Slot
  <2>3. QED
    BY <2>1, <2>2 DEF Slot
<1>2. \A i, j \in D : i \in R[j] <=> Walked(s, i, j)
  BY DEF WalkedBefore
<1>3. \A i \in D : R[i] \subseteq D
  BY DEF WalkedBefore
<1> HIDE DEF R, D
<1>4. \A i \in D : ~ Walked(s, i, i)
  BY <1>1 DEF Walked
<1>5. \A i, j \in D : i = j \/ Walked(s, i, j) \/ Walked(s, j, i)
  BY <1>1 DEF Walked
<1>6. \A i, j, k \in D : Walked(s, i, j) /\ Walked(s, j, k) => Walked(s, i, k)
  BY <1>1 DEF Walked
<1>7. \A i, j \in D : i \in R[j] => R[i] \subseteq R[j]
  BY <1>2, <1>3, <1>6
<1>8. Orders(R, D)
  BY <1>2, <1>3, <1>4, <1>5, <1>7 DEF Orders
<1>9. QED
  BY <1>8 DEF R, D

\* DeferEarlyArrivals picks by that order.
LEMMA DeferPicks ==
  ASSUME NEW s, NEW n \in Nat, DOMAIN s = 1..n
  PROVE  Picked(DeferEarlyArrivals(s), s, DOMAIN s, WalkedBefore(s))
<1> DEFINE D == DOMAIN s
           R == WalkedBefore(s)
           p == DeferEarlyArrivals(s)
<1>1. IsFiniteSet(D) /\ Orders(R, D)
  BY WalkedOrders, FS_Interval
<1>2. p = [k \in 1..Cardinality(D) |->
             s[CHOOSE i \in D : Cardinality({j \in D : Walked(s, j, i)}) = k - 1]]
  BY DEF DeferEarlyArrivals, Pick, Walked, Slot, Deferred, Departures
<1>3. \A i \in D : {j \in D : Walked(s, j, i)} = R[i]
  BY DEF WalkedBefore
<1>4. \A k \in 1..Cardinality(D) : \E i \in D : Place(R, i) = k /\ p[k] = s[i]
  <2> TAKE k \in 1..Cardinality(D)
  <2>1. PICK i \in D : Place(R, i) = k
    BY <1>1, PlacesTaken
  <2>2. Cardinality(D) \in Nat /\ \A j \in D : Cardinality(R[j]) \in Nat
    BY <1>1, PlaceType, FS_CardinalityType
  <2> DEFINE c == CHOOSE l \in D : Cardinality({j \in D : Walked(s, j, l)}) = k - 1
  <2>3. Cardinality({j \in D : Walked(s, j, i)}) = k - 1
    <3>1. Cardinality(R[i]) = k - 1
      BY <2>1, <2>2 DEF Place
    <3>2. {j \in D : Walked(s, j, i)} = R[i]
      BY <1>3
    <3>3. QED
      BY <3>1, <3>2
  <2>4. c \in D /\ Cardinality({j \in D : Walked(s, j, c)}) = k - 1
    BY <2>3
  <2>5. p[k] = s[c]
    BY <1>2
  <2> HIDE DEF c, p, R
  <2>6. Cardinality(R[c]) = k - 1
    BY <1>3, <2>4
  <2>7. Place(R, c) = k
    BY <2>2, <2>4, <2>6 DEF Place
  <2>8. QED
    BY <2>4, <2>5, <2>7
<1>5. p = [k \in 1..Cardinality(D) |-> p[k]]
  BY <1>2
<1> HIDE DEF p
<1>6. Picked(p, s, D, R)
  BY <1>1, <1>4, <1>5, PickIs
<1>7. QED
  BY <1>6 DEF p

OpensWith(s, n, i) == s[n].kind = "opening" /\ s[n].h = s[i].h /\ s[n].at = s[i].at

\* Row i of s is the one departure of its group, unsplit; row j arrives in that
\* group, after it, with it where no opening gets between them, or shortly before
\* with nothing else on its holding.
OneWay(s, i, j) ==
  LET d == s[i]
      a == s[j]
  IN  /\ d.kind \in NeutralKinds /\ LinkedArrival(a) /\ d.group = a.group
      /\ d.answer # "split"
      /\ \A n \in DOMAIN s \ {i} : s[n].group = d.group => LinkedArrival(s[n])
      /\ a.at < d.at \/ (a.at = d.at /\ \E n \in DOMAIN s : OpensWith(s, n, i)) =>
           /\ d.at - a.at <= EarlyArrivalWindow
           /\ \A n \in DOMAIN s \ {j} : s[n].h = a.h => s[n].at \notin a.at..d.at

\* The walk takes the departure first.
LEMMA DepartureFirst ==
  ASSUME NEW ledger, Stampable(ledger),
         NEW i \in DOMAIN Ordered(ledger), NEW j \in DOMAIN Ordered(ledger),
         OneWay(Ordered(ledger), i, j)
  PROVE  i < j
<1> DEFINE s == SortLedgerEvents(ledger)
           o == OpeningsFirst(s)
           u == UnlinkedArrivalsFirst(o)
           r == DeferEarlyArrivals(u)
           D == DOMAIN u
           R == WalkedBefore(u)
           n == Cardinality(DOMAIN ledger)
<1>1. n \in Nat /\ DOMAIN ledger = 1..n /\ IsFiniteSet(1..n)
  BY FS_CardinalityType DEF Stampable
<1>2. Sorted(s) /\ MadeOf(s, ledger)
  BY SortSorts
<1> HIDE DEF s
<1>3. DOMAIN s = 1..n /\ \A k \in 1..n : s[k].at \in Int
  BY <1>1, <1>2 DEF MadeOf, Stampable
<1>o. /\ MadeOf(o, s)
      /\ \A k \in 1..n : /\ o[k].at = s[k].at /\ o[k].h = s[k].h
      /\ \A l \in 1..n : \E k \in 1..n : o[k] = s[l]
      /\ \A k \in 1..n : \E l \in 1..n :
           /\ o[k] = s[l] /\ s[l].at = s[k].at /\ s[l].h = s[k].h
           /\ s[l].kind # "opening" => l <= k
           /\ (\A m \in 1..n : s[m].h = s[k].h /\ s[m].at = s[k].at => s[m].kind # "opening")
                => l = k
  BY <1>1, <1>3, OpeningsKeep
<1> HIDE DEF o
<1>O. DOMAIN o = 1..n
  BY <1>3, <1>o DEF MadeOf
<1>u. /\ MadeOf(u, o)
      /\ \A k \in 1..n : /\ u[k].at = o[k].at /\ u[k].h = o[k].h
                         /\ Linked(u[k]) => u[k] = o[k]
                         /\ o[k].kind = "opening" => u[k] = o[k]
  BY <1>1, <1>O, LegsKeep
<1> HIDE DEF u
<1>4. \A k \in 1..n : u[k].at = s[k].at /\ u[k].h = s[k].h
  BY <1>o, <1>u
<1>5. D = 1..n
  BY <1>O, <1>u DEF MadeOf
<1>6. Picked(r, u, D, R) /\ Orders(R, D)
  BY <1>1, <1>5, DeferPicks, WalkedOrders
<1>7. r = Ordered(ledger)
  BY DEF Ordered, s, o, u
<1> HIDE DEF r, R, D
<1>8. i \in DOMAIN r /\ j \in DOMAIN r /\ OneWay(r, i, j)
  BY <1>7
<1>9. PICK p \in D : Place(R, p) = i /\ r[i] = u[p]
  BY <1>6, <1>8 DEF Picked
<1>10. PICK q \in D : Place(R, q) = j /\ r[j] = u[q]
  BY <1>6, <1>8 DEF Picked
<1> DEFINE d == u[p]
           a == u[q]
<1>11. /\ d.kind \in NeutralKinds /\ LinkedArrival(a) /\ d.group = a.group
       /\ \A m \in DOMAIN r \ {i} : r[m].group = d.group => LinkedArrival(r[m])
       /\ a.at < d.at \/ (a.at = d.at /\ \E m \in DOMAIN r : OpensWith(r, m, i)) =>
            /\ d.at - a.at <= EarlyArrivalWindow
            /\ \A m \in DOMAIN r \ {j} : r[m].h = a.h => r[m].at \notin a.at..d.at
  BY <1>8, <1>9, <1>10 DEF OneWay
<1>12. \A m \in D : Place(R, m) \in DOMAIN r /\ r[Place(R, m)] = u[m]
  BY <1>6 DEF Picked
<1>13. \A m, l \in D : Place(R, m) = Place(R, l) => m = l
  BY <1>1, <1>5, <1>6, PlacesTaken
<1>14. /\ p \in 1..n /\ q \in 1..n /\ d = o[p] /\ a = o[q] /\ p # q
       /\ d.at = s[p].at /\ a.at = s[q].at /\ d.h = s[p].h /\ a.h = s[q].h
       /\ d.at \in Int /\ a.at \in Int
  <2>1. p \in 1..n /\ q \in 1..n /\ Linked(d) /\ Linked(a) /\ d.kind # a.kind
    BY <1>5, <1>11 DEF LinkedArrival, Linked
  <2>2. QED
    BY <1>3, <1>4, <1>u, <2>1
<1>15. Departures(u, d.group) = {p}
  <2>1. p \in Departures(u, d.group)
    BY <1>11 DEF Departures, D
  <2>2. ASSUME NEW m \in Departures(u, d.group) PROVE m = p
    <3>1. m \in D /\ u[m].kind \in NeutralKinds /\ u[m].group = d.group
      BY <2>2 DEF Departures, D
    <3>2. Place(R, m) = i
      BY <1>11, <1>12, <3>1 DEF LinkedArrival
    <3>3. QED
      BY <1>9, <1>13, <3>1, <3>2
  <2>3. QED
    BY <2>1, <2>2
<1>16. Max({p}) = p
  BY <1>14 DEF Max
<1>17. ~ Deferred(u, p) /\ Slot(u, p) = p
  BY <1>11 DEF Deferred, LinkedArrival, Slot
\* Where nothing of its holding lies between, an arrival before its departure is
\* deferred.
<1>e. ASSUME q < p, d.at - a.at <= EarlyArrivalWindow,
             \A m \in DOMAIN r \ {j} : r[m].h = a.h => r[m].at \notin a.at..d.at
      PROVE  Walked(u, p, q)
  <2>1. \A m \in (q + 1)..(p - 1) : u[m].h # a.h
    <3> SUFFICES ASSUME NEW m \in (q + 1)..(p - 1), u[m].h = a.h PROVE FALSE
      OBVIOUS
    <3>1. m \in 1..n /\ q < m /\ m < p
      BY <1>1, <1>14
    <3>2. a.at <= u[m].at /\ u[m].at <= d.at /\ u[m].at \in Int
      BY <1>2, <1>3, <1>4, <1>14, <3>1 DEF Sorted
    <3>3. Place(R, m) \in DOMAIN r \ {j} /\ r[Place(R, m)] = u[m]
      BY <1>5, <1>10, <1>12, <1>13, <1>14, <3>1
    <3>4. u[m].at \in a.at..d.at
      BY <1>14, <3>2
    <3>5. QED
      BY <1>e, <3>3, <3>4
  <2>2. Deferred(u, q)
    BY <1>11, <1>15, <1>16, <1>e, <2>1 DEF Deferred
  <2>3. Slot(u, q) = p
    BY <1>11, <1>15, <1>16, <2>2 DEF Slot
  <2>4. QED
    BY <1>17, <2>2, <2>3 DEF Walked
<1>f. ASSUME p < q
      PROVE  Walked(u, p, q)
  <2>1. ~ Deferred(u, q)
    <3>1. Max(Departures(u, u[q].group)) = p
      BY <1>11, <1>15, <1>16
    <3>2. Deferred(u, q) => q < Max(Departures(u, u[q].group))
      BY DEF Deferred
    <3>3. QED
      BY <1>14, <1>f, <3>1, <3>2
  <2>2. QED
    BY <1>17, <1>f, <2>1 DEF Walked, Slot
<1>18. Walked(u, p, q)
  <2>1. CASE a.at < d.at
    <3>1. q < p
      BY <1>2, <1>3, <1>14, <2>1 DEF Sorted
    <3>2. QED
      BY <1>11, <1>e, <2>1, <3>1
  <2>2. CASE d.at < a.at
    <3>1. p < q
      BY <1>2, <1>3, <1>14, <2>2 DEF Sorted
    <3>2. QED
      BY <1>f, <3>1
  <2>3. CASE a.at = d.at /\ \E m \in DOMAIN r : OpensWith(r, m, i)
    <3>1. QED
      BY <1>11, <1>14, <1>e, <1>f, <2>3
  <2>4. CASE a.at = d.at /\ ~ \E m \in DOMAIN r : OpensWith(r, m, i)
    <3>1. \A l \in 1..n : s[l].h = s[p].h /\ s[l].at = s[p].at => s[l].kind # "opening"
      <4> SUFFICES ASSUME NEW l \in 1..n, s[l].h = s[p].h, s[l].at = s[p].at, s[l].kind = "opening"
                   PROVE  FALSE
        OBVIOUS
      <4>1. PICK k \in 1..n : o[k] = s[l]
        BY <1>o
      <4>2. u[k] = s[l]
        BY <1>u, <4>1
      <4>3. Place(R, k) \in DOMAIN r /\ r[Place(R, k)] = s[l]
        BY <1>5, <1>12, <4>2
      <4>4. OpensWith(r, Place(R, k), i)
        BY <1>9, <1>14, <4>3 DEF OpensWith
      <4>5. QED
        BY <2>4, <4>3, <4>4
    <3>2. d = s[p]
      BY <1>14, <1>o, <3>1
    <3>3. PICK l \in 1..n : /\ a = s[l] /\ s[l].at = s[q].at
                            /\ s[l].kind # "opening" => l <= q
      BY <1>14, <1>o
    <3>4. Rank(d) = 0 /\ Rank(a) = 1 /\ a.kind # "opening"
      BY <1>11 DEF Rank, LinkedArrival
    <3>5. ~ (l < p) /\ l # p
      BY <1>2, <1>3, <1>14, <2>4, <3>2, <3>3, <3>4 DEF Sorted
    <3>6. p < q
      BY <1>14, <3>3, <3>4, <3>5
    <3>7. QED
      BY <1>f, <3>6
  <2>5. QED
    BY <1>14, <2>1, <2>2, <2>3, <2>4
<1>19. p \in R[q]
  BY <1>18 DEF R, D, WalkedBefore
<1>20. QED
  BY <1>1, <1>5, <1>6, <1>9, <1>10, <1>19, PlaceGrows

-----------------------------------------------------------------------------
(* The lots a draw takes and leaves.                                        *)

LotOf(q, c, d, h) == [qty |-> q, cost |-> c, date |-> d, h |-> h]
IsLot(l) == l = LotOf(l.qty, l.cost, l.date, l.h) /\ l.date \in Int

\* What the fields of a lot are.
LEMMA LotFields ==
  ASSUME NEW l, IsLot(l)
  PROVE  l = [x \in {"qty", "cost", "date", "h"} |-> l[x]]
BY DEF IsLot, LotOf

Cut(l, a, b) == [l EXCEPT !.qty = a, !.cost = b]
Less(l, a, b) == [l EXCEPT !.qty = @ - a, !.cost = @ - b]
Dear(l, b) == [l EXCEPT !.cost = @ + b]
Move(l, a, e) == [l EXCEPT !.qty = a, !.h = e]
CutMove(l, a, b, e) == [l EXCEPT !.qty = a, !.cost = b, !.h = e]

\* What each change of a lot leaves.
LEMMA LotChanges ==
  ASSUME NEW l, IsLot(l), NEW a, NEW b, NEW e
  PROVE  /\ Cut(l, a, b) = LotOf(a, b, l.date, l.h)
         /\ Less(l, a, b) = LotOf(l.qty - a, l.cost - b, l.date, l.h)
         /\ Dear(l, b) = LotOf(l.qty, l.cost + b, l.date, l.h)
         /\ Move(l, a, e) = LotOf(a, l.cost, l.date, e)
         /\ CutMove(l, a, b, e) = LotOf(a, b, l.date, e)
<1> DEFINE F == {"qty", "cost", "date", "h"}
<1>1. l = [x \in F |-> l[x]]
  BY LotFields
<1>2. Cut(l, a, b) = [x \in F |-> IF x = "qty" THEN a ELSE IF x = "cost" THEN b ELSE l[x]]
  BY <1>1 DEF Cut
<1>3. Less(l, a, b) =
        [x \in F |-> IF x = "qty" THEN l.qty - a ELSE IF x = "cost" THEN l.cost - b ELSE l[x]]
  BY <1>1 DEF Less
<1>4. Dear(l, b) = [x \in F |-> IF x = "cost" THEN l.cost + b ELSE l[x]]
  BY <1>1 DEF Dear
<1>5. Move(l, a, e) = [x \in F |-> IF x = "qty" THEN a ELSE IF x = "h" THEN e ELSE l[x]]
  BY <1>1 DEF Move
<1>6. CutMove(l, a, b, e) =
        [x \in F |-> IF x = "qty" THEN a ELSE IF x = "cost" THEN b ELSE IF x = "h" THEN e ELSE l[x]]
  BY <1>1 DEF CutMove
<1>7. QED
  BY <1>2, <1>3, <1>4, <1>5, <1>6 DEF LotOf

\* A lot of any units, cost and holding is one.
LEMMA LotIs ==
  ASSUME NEW q, NEW c, NEW d \in Int, NEW h
  PROVE  LET l == LotOf(q, c, d, h) IN IsLot(l) /\ l.h = h /\ l.date = d /\ l.qty = q
BY DEF LotOf, IsLot

IsLots(ls) ==
  /\ \E n \in Nat : ls = [k \in 1..n |-> ls[k]]
  /\ \A k \in DOMAIN ls : IsLot(ls[k])

\* By their date, and in the order they stand in.
Older(ls, i, j) == ls[i].date < ls[j].date \/ (ls[i].date = ls[j].date /\ i < j)
OlderOf(ls, P) == [i \in P |-> {j \in P : Older(ls, j, i)}]

\* Lots in the order of their dates.
LEMMA OlderOrders ==
  ASSUME NEW ls, NEW P, P \subseteq Int, \A i \in P : ls[i].date \in Int
  PROVE  Orders(OlderOf(ls, P), P)
<1>1. \A i, j \in P : i \in OlderOf(ls, P)[j] <=> Older(ls, i, j)
  BY DEF OlderOf
<1>2. \A i \in P : OlderOf(ls, P)[i] \subseteq P /\ i \in Int /\ ls[i].date \in Int
  BY DEF OlderOf
<1>3. \A i \in P : ~ Older(ls, i, i)
  BY <1>2 DEF Older
<1>4. \A i, j \in P : i = j \/ Older(ls, i, j) \/ Older(ls, j, i)
  BY <1>2 DEF Older
<1>5. \A i, j, k \in P : Older(ls, i, j) /\ Older(ls, j, k) => Older(ls, i, k)
  <2> SUFFICES ASSUME NEW i \in P, NEW j \in P, NEW k \in P, Older(ls, i, j), Older(ls, j, k)
               PROVE  Older(ls, i, k)
    OBVIOUS
  <2>1. ls[i].date \in Int /\ ls[j].date \in Int /\ ls[k].date \in Int
    BY <1>2
  <2>2. i \in Int /\ j \in Int /\ k \in Int
    BY <1>2
  <2>3. QED
    BY <2>1, <2>2 DEF Older
<1>6. \A i, j \in P : i \in OlderOf(ls, P)[j] => OlderOf(ls, P)[i] \subseteq OlderOf(ls, P)[j]
  BY <1>1, <1>2, <1>5
<1>7. QED
  BY <1>1, <1>2, <1>3, <1>4, <1>6 DEF Orders

LowerPick(s, P) ==
  [k \in 1..Cardinality(P) |-> s[CHOOSE i \in P : Cardinality({j \in P : j < i}) = k - 1]]
OlderPick(ls, s, P) ==
  [k \in 1..Cardinality(P) |-> s[CHOOSE i \in P : Cardinality({j \in P : Older(ls, j, i)}) = k - 1]]

\* What a draw that keeps the order picks.
LEMMA LowerPicks ==
  ASSUME NEW s, NEW P, P \subseteq Int, IsFiniteSet(P)
  PROVE  Picked(LowerPick(s, P), s, P, Lower(P))
<1> DEFINE R == Lower(P)
           p == LowerPick(s, P)
<1>1. Orders(R, P)
  BY LowerOrders
<1>2. \A i \in P : {j \in P : j < i} = R[i]
  BY DEF Lower
<1>3. p = [k \in 1..Cardinality(P) |-> p[k]]
  BY DEF LowerPick
<1>4. \A k \in 1..Cardinality(P) : \E i \in P : Place(R, i) = k
  <2> HIDE DEF R, p
  <2>1. IsFiniteSet(P)
    OBVIOUS
  <2>2. QED
    BY ONLY <1>1, <2>1, PlacesTaken
<1>5. \A k \in 1..Cardinality(P) : \E i \in P : Place(R, i) = k /\ p[k] = s[i]
  <2> TAKE k \in 1..Cardinality(P)
  <2> DEFINE c == CHOOSE i \in P : Cardinality({j \in P : j < i}) = k - 1
  <2>1. p[k] = s[c]
    BY DEF LowerPick
  <2> HIDE DEF R, p
  <2>2. Cardinality(P) \in Nat /\ \A j \in P : Cardinality(R[j]) \in Nat
    BY <1>1, PlaceType, FS_CardinalityType
  <2>3. PICK i \in P : Place(R, i) = k
    BY <1>4
  <2>4. Cardinality(R[i]) = k - 1
    BY <2>2, <2>3 DEF Place
  <2>5. {j \in P : j < i} = R[i]
    BY <1>2
  <2>6. c \in P /\ Cardinality({j \in P : j < c}) = k - 1
    BY <2>4, <2>5
  <2> HIDE DEF c
  <2>7. Cardinality(R[c]) = k - 1
    BY <1>2, <2>6
  <2>8. Place(R, c) = k
    BY <2>2, <2>6, <2>7 DEF Place
  <2>9. QED
    BY <2>1, <2>6, <2>8
<1> HIDE DEF R, p
<1>6. Picked(p, s, P, R)
  BY <1>1, <1>3, <1>5, PickIs
<1>7. QED
  BY <1>6 DEF p, R

\* What a draw that takes the oldest first picks.
LEMMA OlderPicks ==
  ASSUME NEW ls, NEW s, NEW P, P \subseteq Int, IsFiniteSet(P), \A i \in P : ls[i].date \in Int
  PROVE  Picked(OlderPick(ls, s, P), s, P, OlderOf(ls, P))
<1> DEFINE R == OlderOf(ls, P)
           p == OlderPick(ls, s, P)
<1>1. Orders(R, P)
  BY OlderOrders
<1>2. \A i \in P : {j \in P : Older(ls, j, i)} = R[i]
  BY DEF OlderOf
<1>3. p = [k \in 1..Cardinality(P) |-> p[k]]
  BY DEF OlderPick
<1>4. \A k \in 1..Cardinality(P) : \E i \in P : Place(R, i) = k
  <2> HIDE DEF R, p
  <2>1. IsFiniteSet(P)
    OBVIOUS
  <2>2. QED
    BY ONLY <1>1, <2>1, PlacesTaken
<1>5. \A k \in 1..Cardinality(P) : \E i \in P : Place(R, i) = k /\ p[k] = s[i]
  <2> TAKE k \in 1..Cardinality(P)
  <2> DEFINE c == CHOOSE i \in P : Cardinality({j \in P : Older(ls, j, i)}) = k - 1
  <2>1. p[k] = s[c]
    BY DEF OlderPick
  <2> HIDE DEF R, p
  <2>2. Cardinality(P) \in Nat /\ \A j \in P : Cardinality(R[j]) \in Nat
    BY <1>1, PlaceType, FS_CardinalityType
  <2>3. PICK i \in P : Place(R, i) = k
    BY <1>4
  <2>4. Cardinality(R[i]) = k - 1
    BY <2>2, <2>3 DEF Place
  <2>5. {j \in P : Older(ls, j, i)} = R[i]
    BY <1>2
  <2>6. c \in P /\ Cardinality({j \in P : Older(ls, j, c)}) = k - 1
    BY <2>4, <2>5
  <2> HIDE DEF c
  <2>7. Cardinality(R[c]) = k - 1
    BY <1>2, <2>6
  <2>8. Place(R, c) = k
    BY <2>2, <2>6, <2>7 DEF Place
  <2>9. QED
    BY <2>1, <2>6, <2>8
<1> HIDE DEF R, p
<1>6. Picked(p, s, P, R)
  BY <1>1, <1>3, <1>5, PickIs
<1>7. QED
  BY <1>6 DEF p, R

\* DrawInOrder, oldest first, one name for each of its parts.
AheadOf(ls, h, i) == MapThenSumSet(LAMBDA j : ls[j].qty, {j \in Owned(ls, h) : Older(ls, j, i)})
Reached(ls, h, want) == {i \in Owned(ls, h) : AheadOf(ls, h, i) < want}
TakeOf(ls, h, want, i) == Min({ls[i].qty, want - AheadOf(ls, h, i)})
CostOf(ls, h, want, i) ==
  IF TakeOf(ls, h, want, i) = ls[i].qty THEN ls[i].cost
  ELSE Rounded(ls[i].cost * TakeOf(ls, h, want, i), ls[i].qty)
PartsOf(ls, h, want) ==
  [i \in DOMAIN ls |->
     IF i \in Reached(ls, h, want)
     THEN Cut(ls[i], TakeOf(ls, h, want, i), CostOf(ls, h, want, i)) ELSE ls[i]]
RestsOf(ls, h, want) ==
  [i \in DOMAIN ls |->
     IF i \in Reached(ls, h, want)
     THEN Less(ls[i], TakeOf(ls, h, want, i), CostOf(ls, h, want, i))
     ELSE ls[i]]
KeptOf(ls, h, want) ==
  {i \in DOMAIN ls : i \notin Reached(ls, h, want) \/ TakeOf(ls, h, want, i) < ls[i].qty}

\* DrawOldestFirst in those terms.
LEMMA OldestDraw ==
  ASSUME NEW ls, NEW h, NEW want
  PROVE  DrawOldestFirst(ls, h, want) =
           [taken |-> OlderPick(ls, PartsOf(ls, h, want), Reached(ls, h, want)),
            left  |-> LowerPick(RestsOf(ls, h, want), KeptOf(ls, h, want))]
BY DEF DrawOldestFirst, DrawInOrder, Pick, OlderPick, LowerPick, PartsOf, RestsOf, KeptOf,
       CostOf, TakeOf, Reached, AheadOf, Older, Cut, Less

\* DrawPooled likewise.
PoolQtys(ls, h) == MapThenSumSet(LAMBDA i : ls[i].qty, Owned(ls, h))
PoolShare(ls, h, want, of, i) ==
  LET own == Owned(ls, h)
      F(j) == Rounded(of[j] * want, PoolQtys(ls, h))
      whole == MapThenSumSet(LAMBDA j : of[j], own)
  IN  IF i = Max(own)
      THEN Rounded(whole * want, PoolQtys(ls, h)) - MapThenSumSet(F, own \ {i}) ELSE F(i)
PoolQty(ls, h, want, i) == PoolShare(ls, h, want, [j \in Owned(ls, h) |-> ls[j].qty], i)
PoolCost(ls, h, want, i) == PoolShare(ls, h, want, [j \in Owned(ls, h) |-> ls[j].cost], i)
PoolParts(ls, h, want) ==
  [i \in DOMAIN ls |->
     IF i \in Owned(ls, h)
     THEN Cut(ls[i], PoolQty(ls, h, want, i), PoolCost(ls, h, want, i)) ELSE ls[i]]
PoolRests(ls, h, want) ==
  [i \in DOMAIN ls |->
     IF i \in Owned(ls, h)
     THEN Less(ls[i], PoolQty(ls, h, want, i), PoolCost(ls, h, want, i)) ELSE ls[i]]
PoolKept(ls, h, want) ==
  {i \in DOMAIN ls : i \in Owned(ls, h) => PoolRests(ls, h, want)[i].qty > 0}

\* DrawPooled in those terms.
LEMMA PooledDraw ==
  ASSUME NEW ls, NEW h, NEW want
  PROVE  \/ DrawPooled(ls, h, want) = [taken |-> <<>>, left |-> ls]
         \/ DrawPooled(ls, h, want) =
              [taken |-> LowerPick(ls, Owned(ls, h)),
               left  |-> LowerPick(ls, DOMAIN ls \ Owned(ls, h))]
         \/ DrawPooled(ls, h, want) =
              [taken |-> LowerPick(PoolParts(ls, h, want), Owned(ls, h)),
               left  |-> LowerPick(PoolRests(ls, h, want), PoolKept(ls, h, want))]
BY DEF DrawPooled, Pick, LowerPick, PoolParts, PoolRests, PoolKept, PoolQty, PoolCost,
       PoolShare, PoolQtys, Cut, Less

\* A sequence is made of its members.
LEMMA LotSeq ==
  ASSUME NEW ls, IsLots(ls)
  PROVE  /\ ls \in Seq({ls[k] : k \in DOMAIN ls})
         /\ Len(ls) \in Nat /\ DOMAIN ls = 1..Len(ls) /\ IsFiniteSet(DOMAIN ls)
<1>1. PICK n \in Nat : ls = [k \in 1..n |-> ls[k]]
  BY DEF IsLots
<1> DEFINE S == {ls[k] : k \in DOMAIN ls}
<1>2. DOMAIN ls = 1..n /\ ls \in [1..n -> S]
  BY <1>1
<1> HIDE DEF S
<1>3. ls \in Seq(S)
  BY <1>2, SeqDef
<1>4. Len(ls) \in Nat /\ DOMAIN ls = 1..Len(ls)
  BY <1>3, LenProperties
<1>5. IsFiniteSet(1..Len(ls))
  BY <1>4, FS_Interval
<1>6. QED
  BY <1>3, <1>4, <1>5 DEF S

\* Lots behind lots are lots.
LEMMA JoinLots ==
  ASSUME NEW s, NEW t, IsLots(s), IsLots(t)
  PROVE  /\ IsLots(s \o t)
         /\ \A k \in DOMAIN (s \o t) : \/ \E i \in DOMAIN s : (s \o t)[k] = s[i]
                                       \/ \E i \in DOMAIN t : (s \o t)[k] = t[i]
<1> DEFINE A == {s[k] : k \in DOMAIN s}
           B == {t[k] : k \in DOMAIN t}
           S == A \cup B
           u == s \o t
<1>1. s \in Seq(A) /\ t \in Seq(B)
  BY LotSeq
<1>2. s \in Seq(S) /\ t \in Seq(S)
  <2> HIDE DEF A, B
  <2>1. QED
    BY <1>1, SeqMonotonic
<1>3. /\ Len(s) \in Nat /\ DOMAIN s = 1..Len(s)
      /\ Len(t) \in Nat /\ DOMAIN t = 1..Len(t)
  BY LotSeq
<1>4. /\ u \in Seq(S) /\ Len(u) = Len(s) + Len(t)
      /\ \A i \in 1..(Len(s) + Len(t)) : u[i] = IF i <= Len(s) THEN s[i] ELSE t[i - Len(s)]
  <2> HIDE DEF S, A, B
  <2>1. QED
    BY <1>2, ConcatProperties
<1> HIDE DEF u
<1>5. DOMAIN u = 1..(Len(s) + Len(t)) /\ u = [k \in 1..(Len(s) + Len(t)) |-> u[k]]
  <2> HIDE DEF S, A, B
  <2>1. u \in [1..Len(u) -> S] /\ DOMAIN u = 1..Len(u)
    BY <1>4, LenProperties
  <2>2. QED
    BY <1>4, <2>1
<1>6. \A k \in DOMAIN u : \/ \E i \in DOMAIN s : u[k] = s[i]
                          \/ \E i \in DOMAIN t : u[k] = t[i]
  <2> TAKE k \in DOMAIN u
  <2>1. k \in 1..(Len(s) + Len(t))
    BY <1>5
  <2>2. CASE k <= Len(s)
    BY <1>3, <1>4, <2>1, <2>2
  <2>3. CASE ~ (k <= Len(s))
    <3>1. k - Len(s) \in DOMAIN t
      BY <1>3, <2>1, <2>3
    <3>2. u[k] = t[k - Len(s)]
      BY <1>4, <2>1, <2>3
    <3>3. QED
      BY <3>1, <3>2
  <2>4. QED
    BY <2>2, <2>3
<1>7. Len(s) + Len(t) \in Nat
  BY <1>3
<1>8. \A k \in DOMAIN u : IsLot(u[k])
  BY <1>6 DEF IsLots
<1>9. IsLots(u)
  BY <1>5, <1>7, <1>8 DEF IsLots
<1>10. QED
  BY <1>6, <1>9 DEF u

\* One lot is a sequence of lots.
LEMMA OneLot ==
  ASSUME NEW l, IsLot(l)
  PROVE  IsLots(<<l>>)
<1>1. <<l>> = [k \in 1..1 |-> <<l>>[k]] /\ \A k \in DOMAIN <<l>> : <<l>>[k] = l
  OBVIOUS
<1>2. QED
  BY <1>1 DEF IsLots

\* A lot may come in behind lots.
LEMMA AppendLot ==
  ASSUME NEW ls, IsLots(ls), NEW l, IsLot(l)
  PROVE  IsLots(Append(ls, l))
<1> DEFINE A == {ls[k] : k \in DOMAIN ls}
           S == A \cup {l}
<1>1. ls \in Seq(A)
  BY LotSeq
<1>2. ls \in Seq(S) /\ l \in S
  <2> HIDE DEF A
  <2>1. QED
    BY <1>1, SeqMonotonic
<1>3. Append(ls, l) = ls \o <<l>>
  <2> HIDE DEF S
  <2>1. QED
    BY <1>2, AppendIsConcat
<1>4. QED
  BY <1>3, OneLot, JoinLots

\* No lots are lots.
LEMMA NoLots == IsLots(<<>>)
<1>1. <<>> = [k \in 1..0 |-> <<>>[k]] /\ DOMAIN <<>> = {}
  OBVIOUS
<1>2. QED
  BY <1>1 DEF IsLots

\* Lots that are picked are lots, and of the holding they are picked from.
LEMMA PickedLots ==
  ASSUME NEW p, NEW s, NEW S, NEW R, Picked(p, s, S, R), IsFiniteSet(S),
         \A i \in S : IsLot(s[i])
  PROVE  IsLots(p) /\ \A k \in DOMAIN p : \E i \in S : p[k] = s[i]
<1>1. Cardinality(S) \in Nat
  BY FS_CardinalityType
<1>2. \A k \in DOMAIN p : \E i \in S : p[k] = s[i]
  BY DEF Picked
<1>3. p = [k \in 1..Cardinality(S) |-> p[k]]
  BY DEF Picked
<1>4. QED
  BY <1>1, <1>2, <1>3 DEF IsLots

\* What a draw takes are lots of its holding; what it leaves are lots.
DrawnFrom(d, h) ==
  IsLots(d.taken) /\ IsLots(d.left) /\ \A k \in DOMAIN d.taken : d.taken[k].h = h

\* However a lot is cut, it stays a lot of its holding.
LEMMA StaysLot ==
  ASSUME NEW l, IsLot(l), NEW a, NEW b
  PROVE  /\ IsLot(Cut(l, a, b)) /\ Cut(l, a, b).h = l.h
         /\ IsLot(Less(l, a, b)) /\ Less(l, a, b).h = l.h
         /\ IsLot(Dear(l, b)) /\ Dear(l, b).h = l.h
<1>1. l.date \in Int
  BY DEF IsLot
<1>2. \A q, c : IsLot(LotOf(q, c, l.date, l.h)) /\ LotOf(q, c, l.date, l.h).h = l.h
  BY <1>1, LotIs
<1>3. /\ Cut(l, a, b) = LotOf(a, b, l.date, l.h)
      /\ Less(l, a, b) = LotOf(l.qty - a, l.cost - b, l.date, l.h)
      /\ Dear(l, b) = LotOf(l.qty, l.cost + b, l.date, l.h)
  BY LotChanges
<1>4. QED
  BY <1>2, <1>3

\* First in, first out takes lots of the holding, and leaves lots.
LEMMA OldestLots ==
  ASSUME NEW ls, IsLots(ls), NEW h, NEW want
  PROVE  DrawnFrom(DrawOldestFirst(ls, h, want), h)
<1> DEFINE P == Reached(ls, h, want)
           K == KeptOf(ls, h, want)
           f == PartsOf(ls, h, want)
           g == RestsOf(ls, h, want)
           t == OlderPick(ls, f, P)
           l == LowerPick(g, K)
<1>1. DOMAIN ls \subseteq Int /\ IsFiniteSet(DOMAIN ls) /\ \A i \in DOMAIN ls : IsLot(ls[i])
  <2>1. DOMAIN ls = 1..Len(ls) /\ Len(ls) \in Nat /\ IsFiniteSet(DOMAIN ls)
    BY LotSeq
  <2>2. \A i \in DOMAIN ls : IsLot(ls[i])
    BY DEF IsLots
  <2>3. QED
    BY <2>1, <2>2
<1>2. P \subseteq DOMAIN ls /\ K \subseteq DOMAIN ls /\ \A i \in P : ls[i].h = h
  BY DEF Reached, Owned, KeptOf
<1>3. IsFiniteSet(P) /\ IsFiniteSet(K) /\ P \subseteq Int /\ K \subseteq Int
  BY <1>1, <1>2, FS_Subset
<1>4. \A i \in DOMAIN ls : /\ IsLot(f[i]) /\ f[i].h = ls[i].h
                           /\ IsLot(g[i]) /\ g[i].h = ls[i].h
  <2> TAKE i \in DOMAIN ls
  <2>1. IsLot(ls[i])
    BY <1>1
  <2>2. f[i] = ls[i] \/ \E a, b : f[i] = Cut(ls[i], a, b)
    BY DEF PartsOf
  <2>3. g[i] = ls[i] \/ \E a, b : g[i] = Less(ls[i], a, b)
    BY DEF RestsOf
  <2> HIDE DEF f, g
  <2>4. QED
    BY <2>1, <2>2, <2>3, StaysLot
<1>5. \A i \in P : ls[i].date \in Int
  BY <1>1, <1>2 DEF IsLot
<1> HIDE DEF f, g, P, K
<1>6. Picked(t, f, P, OlderOf(ls, P))
  BY <1>3, <1>5, OlderPicks
<1>7. Picked(l, g, K, Lower(K))
  BY <1>3, LowerPicks
<1> HIDE DEF t, l
<1>8. IsLots(t) /\ \A k \in DOMAIN t : \E i \in P : t[k] = f[i]
  <2>1. IsFiniteSet(P) /\ \A i \in P : IsLot(f[i])
    BY <1>2, <1>3, <1>4
  <2>2. QED
    BY ONLY <1>6, <2>1, PickedLots
<1>9. IsLots(l)
  <2>1. IsFiniteSet(K) /\ \A i \in K : IsLot(g[i])
    BY <1>2, <1>3, <1>4
  <2>2. QED
    BY ONLY <1>7, <2>1, PickedLots
<1>10. \A k \in DOMAIN t : t[k].h = h
  BY <1>2, <1>4, <1>8
<1>11. DrawOldestFirst(ls, h, want) = [taken |-> t, left |-> l]
  BY OldestDraw DEF t, l, f, g, P, K
<1>12. QED
  BY <1>8, <1>9, <1>10, <1>11 DEF DrawnFrom

\* The pool takes lots of the holding, and leaves lots.
LEMMA PooledLots ==
  ASSUME NEW ls, IsLots(ls), NEW h, NEW want
  PROVE  DrawnFrom(DrawPooled(ls, h, want), h)
<1> DEFINE P == Owned(ls, h)
           O == DOMAIN ls \ P
           K == PoolKept(ls, h, want)
           f == PoolParts(ls, h, want)
           g == PoolRests(ls, h, want)
<1>1. DOMAIN ls \subseteq Int /\ IsFiniteSet(DOMAIN ls) /\ \A i \in DOMAIN ls : IsLot(ls[i])
  <2>1. DOMAIN ls = 1..Len(ls) /\ Len(ls) \in Nat /\ IsFiniteSet(DOMAIN ls)
    BY LotSeq
  <2>2. \A i \in DOMAIN ls : IsLot(ls[i])
    BY DEF IsLots
  <2>3. QED
    BY <2>1, <2>2
<1>2. P \subseteq DOMAIN ls /\ K \subseteq DOMAIN ls /\ \A i \in P : ls[i].h = h
  BY DEF Owned, PoolKept
<1>3. /\ IsFiniteSet(P) /\ IsFiniteSet(K) /\ IsFiniteSet(O)
      /\ P \subseteq Int /\ K \subseteq Int /\ O \subseteq Int
  <2> HIDE DEF P, K
  <2>1. QED
    BY <1>1, <1>2, FS_Subset
<1>4. \A i \in DOMAIN ls : /\ IsLot(f[i]) /\ f[i].h = ls[i].h
                           /\ IsLot(g[i]) /\ g[i].h = ls[i].h
  <2> TAKE i \in DOMAIN ls
  <2>1. IsLot(ls[i])
    BY <1>1
  <2>2. f[i] = ls[i] \/ \E a, b : f[i] = Cut(ls[i], a, b)
    BY DEF PoolParts
  <2>3. g[i] = ls[i] \/ \E a, b : g[i] = Less(ls[i], a, b)
    BY DEF PoolRests
  <2> HIDE DEF f, g
  <2>4. QED
    BY <2>1, <2>2, <2>3, StaysLot
<1> HIDE DEF f, g, P, K
<1>5. \A s : (\A i \in P : IsLot(s[i]) /\ s[i].h = h) =>
         IsLots(LowerPick(s, P)) /\ \A k \in DOMAIN LowerPick(s, P) : LowerPick(s, P)[k].h = h
  <2> SUFFICES ASSUME NEW s, \A i \in P : IsLot(s[i]) /\ s[i].h = h
               PROVE  IsLots(LowerPick(s, P)) /\ \A k \in DOMAIN LowerPick(s, P) : LowerPick(s, P)[k].h = h
    OBVIOUS
  <2>1. Picked(LowerPick(s, P), s, P, Lower(P))
    BY <1>3, LowerPicks
  <2>2. IsFiniteSet(P) /\ \A i \in P : IsLot(s[i])
    BY <1>3
  <2>3. IsLots(LowerPick(s, P)) /\ \A k \in DOMAIN LowerPick(s, P) : \E i \in P : LowerPick(s, P)[k] = s[i]
    BY ONLY <2>1, <2>2, PickedLots
  <2>4. QED
    BY <2>3
<1>6. ASSUME NEW S, S \subseteq DOMAIN ls, NEW s, \A i \in DOMAIN ls : IsLot(s[i])
      PROVE  IsLots(LowerPick(s, S))
  <2>1. IsFiniteSet(S) /\ S \subseteq Int /\ \A i \in S : IsLot(s[i])
    BY <1>1, <1>6, FS_Subset
  <2>2. Picked(LowerPick(s, S), s, S, Lower(S))
    BY <2>1, LowerPicks
  <2>3. QED
    BY ONLY <2>1, <2>2, PickedLots
<1>7. CASE DrawPooled(ls, h, want) = [taken |-> <<>>, left |-> ls]
  BY <1>7, NoLots DEF DrawnFrom
<1>8. CASE DrawPooled(ls, h, want) = [taken |-> LowerPick(ls, P), left |-> LowerPick(ls, O)]
  <2>1. IsLots(LowerPick(ls, O))
    BY <1>1, <1>6
  <2>2. IsLots(LowerPick(ls, P)) /\ \A k \in DOMAIN LowerPick(ls, P) : LowerPick(ls, P)[k].h = h
    BY <1>1, <1>2, <1>5
  <2>3. QED
    BY <1>8, <2>1, <2>2 DEF DrawnFrom
<1>9. CASE DrawPooled(ls, h, want) = [taken |-> LowerPick(f, P), left |-> LowerPick(g, K)]
  <2>1. IsLots(LowerPick(g, K))
    BY <1>2, <1>4, <1>6
  <2>2. IsLots(LowerPick(f, P)) /\ \A k \in DOMAIN LowerPick(f, P) : LowerPick(f, P)[k].h = h
    BY <1>2, <1>4, <1>5
  <2>3. QED
    BY <1>9, <2>1, <2>2 DEF DrawnFrom
<1>10. QED
  BY <1>7, <1>8, <1>9, PooledDraw DEF f, g, P, K

-----------------------------------------------------------------------------
(* What the operations do to the lots.                                      *)

IsSeq(s) == \E n \in Nat : s = [k \in 1..n |-> s[k]]

\* The length of a sequence, and its places.
LEMMA SeqIs ==
  ASSUME NEW s, IsSeq(s)
  PROVE  /\ Len(s) \in Nat /\ DOMAIN s = 1..Len(s)
         /\ Cardinality(DOMAIN s) = Len(s) /\ IsFiniteSet(DOMAIN s)
<1>1. PICK n \in Nat : s = [k \in 1..n |-> s[k]]
  BY DEF IsSeq
<1> DEFINE S == {s[k] : k \in DOMAIN s}
<1>2. DOMAIN s = 1..n /\ s \in [1..n -> S]
  BY <1>1
<1> HIDE DEF S
<1>3. s \in Seq(S)
  BY <1>2, SeqDef
<1>4. Len(s) \in Nat /\ DOMAIN s = 1..Len(s)
  BY <1>3, LenProperties
<1>5. IsFiniteSet(1..n) /\ Cardinality(1..n) = n
  BY FS_Interval
<1>6. Len(s) = n
  BY <1>2, <1>3, LenProperties
<1>7. QED
  BY <1>2, <1>4, <1>5, <1>6

\* Either method takes lots of the holding, and leaves lots.
LEMMA DrawLots ==
  ASSUME IsLots(lots), NEW h, NEW want
  PROVE  DrawnFrom(Draw(h, want), h)
BY OldestLots, PooledLots DEF Draw

\* A disposal that the rules matched leaves lots.
LEMMA MatchedLots ==
  ASSUME IsLots(lots), NEW t, NEW k, NEW want
  PROVE  IsLots(MatchedFromPlan(t, k, want).left)
<1>1. \E n : MatchedFromPlan(t, k, want).left = Draw(t.h, n).left
  BY DEF MatchedFromPlan
<1>2. QED
  BY <1>1, DrawLots DEF DrawnFrom

\* A lot for each lot are lots.
LEMMA FromEach ==
  ASSUME NEW ls, IsLots(ls), NEW s, s = [k \in DOMAIN ls |-> s[k]],
         \A k \in DOMAIN ls : IsLot(s[k])
  PROVE  IsLots(s)
<1>1. PICK n \in Nat : ls = [k \in 1..n |-> ls[k]]
  BY DEF IsLots
<1>2. DOMAIN ls = 1..n
  BY <1>1
<1>3. s = [k \in 1..n |-> s[k]] /\ DOMAIN s = DOMAIN ls
  BY <1>2
<1>4. QED
  BY <1>3 DEF IsLots

\* A commission that stays on the lots leaves lots.
LEMMA CostlierLots ==
  ASSUME NEW ls, IsLots(ls), NEW h, NEW cost
  PROVE  IsLots(KeepCostOnLots(ls, h, cost))
<1> DEFINE s == KeepCostOnLots(ls, h, cost)
<1>1. s = [k \in DOMAIN ls |-> s[k]]
  BY DEF KeepCostOnLots
<1>2. ASSUME NEW k \in DOMAIN ls PROVE IsLot(s[k])
  <2>1. s[k] = ls[k] \/ \E b : s[k] = Dear(ls[k], b)
    BY DEF KeepCostOnLots, Dear
  <2>2. IsLot(ls[k])
    BY DEF IsLots
  <2> HIDE DEF s
  <2>3. QED
    BY <2>1, <2>2, StaysLot
<1> HIDE DEF s
<1>3. IsLots(s)
  BY <1>1, <1>2, FromEach
<1>4. QED
  BY <1>3 DEF s

\* A lot that moves is a lot.
LEMMA MovesLot ==
  ASSUME NEW l, IsLot(l), NEW a, NEW b, NEW h
  PROVE  IsLot(Move(l, a, h)) /\ IsLot(CutMove(l, a, b, h))
<1>1. l.date \in Int
  BY DEF IsLot
<1>2. \A q, c : IsLot(LotOf(q, c, l.date, h))
  BY <1>1, LotIs
<1>3. Move(l, a, h) = LotOf(a, l.cost, l.date, h) /\ CutMove(l, a, b, h) = LotOf(a, b, l.date, h)
  BY LotChanges
<1>4. QED
  BY <1>2, <1>3

\* What arrives of all that waits are lots.
LEMMA RehomedLots ==
  ASSUME NEW ls, IsLots(ls), NEW arrived, NEW h
  PROVE  IsLots(Rehome(ls, arrived, h))
<1> DEFINE s == Rehome(ls, arrived, h)
<1>1. s = [k \in DOMAIN ls |-> s[k]]
  BY DEF Rehome
<1>2. ASSUME NEW k \in DOMAIN ls PROVE IsLot(s[k])
  <2>1. \E a : s[k] = Move(ls[k], a, h)
    BY DEF Rehome, Move
  <2>2. IsLot(ls[k])
    BY DEF IsLots
  <2> HIDE DEF s
  <2>3. QED
    BY <2>1, <2>2, MovesLot
<1> HIDE DEF s
<1>3. IsLots(s)
  BY <1>1, <1>2, FromEach
<1>4. QED
  BY <1>3 DEF s

\* Of the lots that wait, each gives a part and keeps its holding.
LEMMA SharedLots ==
  ASSUME NEW ls, IsLots(ls), NEW arrived, NEW h
  PROVE  LET s == ShareOf(ls, arrived, h)
         IN  /\ IsLots(s.taken) /\ IsLots(s.left)
             /\ DOMAIN s.left = DOMAIN ls
             /\ \A k \in DOMAIN ls : s.left[k].h = ls[k].h
<1> DEFINE t == ShareOf(ls, arrived, h).taken
           l == ShareOf(ls, arrived, h).left
<1>1. t = [k \in DOMAIN ls |-> t[k]] /\ l = [k \in DOMAIN ls |-> l[k]]
  BY DEF ShareOf
<1>2. ASSUME NEW k \in DOMAIN ls
      PROVE  IsLot(t[k]) /\ IsLot(l[k]) /\ l[k].h = ls[k].h
  <2>1. \E a, b : t[k] = CutMove(ls[k], a, b, h)
    BY DEF ShareOf, CutMove
  <2>2. \E a, b : l[k] = Less(ls[k], a, b)
    BY DEF ShareOf, Less
  <2>3. IsLot(ls[k])
    BY DEF IsLots
  <2> HIDE DEF t, l
  <2>4. QED
    BY <2>1, <2>2, <2>3, MovesLot, StaysLot
<1> HIDE DEF t, l
<1>3. IsLots(t) /\ IsLots(l)
  BY <1>1, <1>2, FromEach
<1>4. DOMAIN l = DOMAIN ls
  BY <1>1
<1>5. QED
  BY <1>2, <1>3, <1>4 DEF t, l

-----------------------------------------------------------------------------
(* The lots of a transfer arrive.                                           *)

RowsOK(s) ==
  /\ IsSeq(s)
  /\ \A k \in DOMAIN s : s[k].at \in Int /\ s[k].group \in Groups \cup {None}

\* The group of departure i: nothing waits before it; afterwards, what waits is
\* of its token, and an arrival is still to come.
Underway(i) ==
  LET g == rows[i].group
  IN  /\ pos <= i => pending[g] = None
      /\ pos = i => part = 1
      /\ pos > i /\ pending[g] # None /\ ~ Mixed(g) =>
           /\ \E n \in DOMAIN rows : n >= pos /\ LinkedArrival(rows[n]) /\ rows[n].group = g
           /\ \A k \in DOMAIN pending[g] : TokenOf[pending[g][k].h] = TokenOf[rows[i].h]

Shape ==
  /\ pos \in Nat /\ part \in Nat
  /\ RowsOK(rows)
  /\ DOMAIN pending = Groups
  /\ IsLots(lots)
  /\ \A g \in Groups : pending[g] # None => IsLots(pending[g])

Carried ==
  /\ pos = 0 => Stampable(rows) /\ \A g \in Groups : pending[g] = None
  /\ pos > 0 => \A i, j \in DOMAIN rows : OneWay(rows, i, j) => i < j /\ Underway(i)

CInv == Shape /\ Carried

\* A row of such a group is its departure, or arrives.
LEMMA OneWayRow ==
  ASSUME NEW i \in DOMAIN rows, NEW j \in DOMAIN rows, OneWay(rows, i, j), RowsOK(rows)
  PROVE  /\ rows[i].kind \in NeutralKinds /\ Linked(rows[i]) /\ ~ LinkedArrival(rows[i])
         /\ rows[i].group \in Groups
         /\ OutflowPortions(rows[i]) = <<[qty |-> rows[i].qty, action |-> "carry"]>>
         /\ LinkedArrival(rows[j]) /\ rows[j].group = rows[i].group
         /\ \A n \in DOMAIN rows : rows[n].group = rows[i].group /\ n # i => LinkedArrival(rows[n])
<1>1. /\ rows[i].kind \in NeutralKinds /\ LinkedArrival(rows[j])
      /\ rows[j].group = rows[i].group /\ rows[i].answer # "split"
      /\ \A n \in DOMAIN rows \ {i} : rows[n].group = rows[i].group => LinkedArrival(rows[n])
  BY DEF OneWay
<1>2. Linked(rows[i]) /\ ~ LinkedArrival(rows[i])
  BY <1>1 DEF LinkedArrival, Linked
<1>3. rows[i].group \in Groups
  BY <1>2 DEF RowsOK, Linked
<1>4. OutflowPortions(rows[i]) = <<[qty |-> rows[i].qty, action |-> "carry"]>>
  BY <1>1, <1>2 DEF OutflowPortions
<1>5. QED
  BY <1>1, <1>2, <1>3, <1>4

\* What the walk passes is none of the group's.
LEMMA GroupPasses ==
  ASSUME NEW i \in DOMAIN rows, RowsOK(rows), pos \in DOMAIN rows, Underway(i), rows' = rows,
         pending'[rows[i].group] = pending[rows[i].group],
         pos' \in {pos, pos + 1}, pos' = pos + 1 => part' = 1,
         pos # i, ~ (LinkedArrival(rows[pos]) /\ rows[pos].group = rows[i].group)
  PROVE  Underway(i)'
<1> DEFINE g == rows[i].group
<1>1. DOMAIN rows = 1..Len(rows) /\ Len(rows) \in Nat
  BY SeqIs DEF RowsOK
<1>2. pos \in Int /\ i \in Int
  BY <1>1
<1>3. (pos' <= i => pos <= i) /\ (pos' > i => pos > i) /\ (pos' = i => part' = 1)
  BY <1>2
<1>4. ASSUME NEW n \in DOMAIN rows, n >= pos, LinkedArrival(rows[n]), rows[n].group = g
      PROVE  n >= pos'
  <2>1. n # pos /\ n \in Int
    BY <1>1, <1>4
  <2>2. QED
    BY <1>2, <1>4, <2>1
<1>5. Mixed(g)' = Mixed(g)
  BY DEF Mixed
<1>6. QED
  BY <1>3, <1>4, <1>5 DEF Underway

\* Where the walk is.
LEMMA PosIs ==
  ASSUME CInv, pos \in DOMAIN rows
  PROVE  /\ pos \in Nat /\ part \in Nat /\ pos > 0 /\ RowsOK(rows) /\ DOMAIN rows \subseteq Int
         /\ \A i, j \in DOMAIN rows : OneWay(rows, i, j) => i < j /\ Underway(i)
<1>1. pos \in Nat /\ part \in Nat /\ RowsOK(rows)
  BY DEF CInv, Shape
<1>2. DOMAIN rows = 1..Len(rows) /\ Len(rows) \in Nat
  BY <1>1, SeqIs DEF RowsOK
<1>3. pos > 0 /\ DOMAIN rows \subseteq Int
  BY <1>2
<1>4. QED
  BY <1>1, <1>3 DEF CInv, Carried

\* A row of none of such groups moves nobody's transfer.
LEMMA Passes ==
  ASSUME CInv, pos \in DOMAIN rows, UNCHANGED <<rows, pending>>, IsLots(lots'),
         pos' \in {pos, pos + 1}, part' \in Nat, pos' = pos + 1 => part' = 1,
         \A i, j \in DOMAIN rows : OneWay(rows, i, j) => pos # i,
         ~ LinkedArrival(rows[pos])
  PROVE  CInv'
<1>1. /\ pos \in Nat /\ pos > 0 /\ RowsOK(rows)
      /\ \A i, j \in DOMAIN rows : OneWay(rows, i, j) => i < j /\ Underway(i)
  BY PosIs
<1>2. Shape'
  BY <1>1 DEF CInv, Shape, RowsOK, IsSeq
<1>3. ASSUME NEW i \in DOMAIN rows, NEW j \in DOMAIN rows, OneWay(rows, i, j)
      PROVE  i < j /\ Underway(i)'
  BY <1>1, <1>3, GroupPasses
<1>4. Carried'
  <2>1. pos' > 0 /\ pos' # 0
    BY <1>1
  <2>2. QED
    BY <1>3, <2>1 DEF Carried, OneWay
<1>5. QED
  BY <1>2, <1>4 DEF CInv

\* Any other row.
LEMMA PassesRow ==
  ASSUME CInv, pos \in DOMAIN rows, UNCHANGED <<rows, pending>>, IsLots(lots'), NextRow,
         rows[pos].kind \notin {"transfer_in"} \cup NeutralKinds
  PROVE  CInv'
<1>1. RowsOK(rows) /\ pos \in Nat
  BY DEF CInv, Shape
<1>2. \A i, j \in DOMAIN rows : OneWay(rows, i, j) => pos # i
  BY <1>1, OneWayRow
<1>3. ~ LinkedArrival(rows[pos])
  BY DEF LinkedArrival
<1>4. pos' \in {pos, pos + 1} /\ part' \in Nat /\ (pos' = pos + 1 => part' = 1)
  BY DEF NextRow
<1>5. QED
  BY <1>2, <1>3, <1>4, Passes

\* The next share is of this row or of the next.
LEMMA ShareMoves ==
  ASSUME CInv, NextShare
  PROVE  pos' \in {pos, pos + 1} /\ part' \in Nat /\ (pos' = pos + 1 => part' = 1)
<1>1. pos \in Nat /\ part \in Nat
  BY DEF CInv, Shape
<1>2. QED
  BY <1>1 DEF NextShare, NextRow

\* And a share that carries nothing.
LEMMA PassesShare ==
  ASSUME CInv, At(NeutralKinds), UNCHANGED <<rows, pending>>, IsLots(lots'), NextShare,
         ~ (Linked(rows[pos]) /\ Share.action = "carry")
  PROVE  CInv'
<1>1. RowsOK(rows) /\ pos \in Nat /\ pos \in DOMAIN rows /\ rows[pos].kind \in NeutralKinds
  BY DEF CInv, Shape, At
<1>2. ASSUME NEW i \in DOMAIN rows, NEW j \in DOMAIN rows, OneWay(rows, i, j) PROVE pos # i
  <2> SUFFICES ASSUME pos = i PROVE FALSE
    OBVIOUS
  <2>1. Linked(rows[i]) /\ OutflowPortions(rows[i]) = <<[qty |-> rows[i].qty, action |-> "carry"]>>
    BY <1>1, <1>2, OneWayRow
  <2>2. part = 1
    <3>1. i < j /\ Underway(i)
      BY <1>1, <1>2, SeqIs DEF CInv, Carried, RowsOK
    <3>2. QED
      BY <3>1 DEF Underway
  <2>3. Share.action = "carry"
    BY <2>1, <2>2 DEF Share
  <2>4. QED
    BY <2>1, <2>3
<1>3. ~ LinkedArrival(rows[pos])
  BY <1>1 DEF LinkedArrival
<1>4. pos' \in {pos, pos + 1} /\ part' \in Nat /\ (pos' = pos + 1 => part' = 1)
  BY ShareMoves
<1>5. QED
  BY <1>1, <1>2, <1>3, <1>4, Passes

\* What a step has to show of its row's group, and what of every other.
LEMMA GroupsHold ==
  ASSUME CInv, pos \in DOMAIN rows, rows' = rows, Shape', pos' \in {pos, pos + 1},
         \A i, j \in DOMAIN rows : OneWay(rows, i, j) => Underway(i)'
  PROVE  CInv'
<1>1. /\ pos \in Nat /\ pos > 0
      /\ \A i, j \in DOMAIN rows : OneWay(rows, i, j) => i < j
  BY PosIs
<1>2. pos' > 0 /\ pos' # 0
  BY <1>1
<1>3. QED
  BY <1>1, <1>2 DEF CInv, Carried, OneWay

\* Lots that wait come in behind others that do.
LEMMA BufferShape ==
  ASSUME Shape, NEW g \in Groups, NEW taken, IsLots(taken), Buffer(g, taken)
  PROVE  /\ DOMAIN pending' = Groups
         /\ \A x \in Groups : x # g => pending'[x] = pending[x]
         /\ pending[g] = None => pending'[g] = taken
         /\ \A x \in Groups : pending'[x] # None => IsLots(pending'[x])
<1>1. /\ DOMAIN pending' = Groups
      /\ \A x \in Groups : x # g => pending'[x] = pending[x]
      /\ pending'[g] = IF pending[g] = None THEN taken ELSE pending[g] \o taken
  BY DEF Buffer, Shape
<1>2. pending[g] # None => IsLots(pending[g] \o taken)
  BY JoinLots DEF Shape
<1>3. QED
  BY <1>1, <1>2 DEF Shape

\* The departure: its lots wait, and their arrival is still to come.
LEMMA CarryCarries == ASSUME CInv, Carry PROVE CInv'
<1> DEFINE t == rows[pos]
           popped == Draw(t.h, Share.qty)
<1>1. /\ pos \in DOMAIN rows /\ t.kind \in NeutralKinds /\ Linked(t)
      /\ rows' = rows /\ lots' = popped.left /\ Buffer(t.group, popped.taken) /\ NextShare
  BY DEF Carry, AtShare, At, Ledger
<1>2. /\ pos \in Nat /\ part \in Nat /\ RowsOK(rows) /\ DOMAIN rows \subseteq Int /\ Shape
      /\ \A i, j \in DOMAIN rows : OneWay(rows, i, j) => i < j /\ Underway(i)
  BY <1>1, PosIs DEF CInv
<1>3. DrawnFrom(popped, t.h)
  BY <1>2, DrawLots DEF Shape
<1> HIDE DEF popped
<1>4. t.group \in Groups
  BY <1>1, <1>2 DEF RowsOK, Linked
<1>5. pos' \in {pos, pos + 1} /\ part' \in Nat /\ (pos' = pos + 1 => part' = 1)
  BY <1>1, ShareMoves
<1>6. /\ DOMAIN pending' = Groups
      /\ \A x \in Groups : x # t.group => pending'[x] = pending[x]
      /\ pending[t.group] = None => pending'[t.group] = popped.taken
      /\ \A x \in Groups : pending'[x] # None => IsLots(pending'[x])
  BY <1>1, <1>2, <1>3, <1>4, BufferShape DEF DrawnFrom
<1>7. Shape'
  BY <1>1, <1>2, <1>3, <1>5, <1>6 DEF Shape, DrawnFrom, RowsOK, IsSeq
<1>8. ASSUME NEW i \in DOMAIN rows, NEW j \in DOMAIN rows, OneWay(rows, i, j)
      PROVE  Underway(i)'
  <2> DEFINE g == rows[i].group
  <2>1. /\ g \in Groups /\ LinkedArrival(rows[j]) /\ rows[j].group = g
        /\ OutflowPortions(rows[i]) = <<[qty |-> rows[i].qty, action |-> "carry"]>>
        /\ \A n \in DOMAIN rows : rows[n].group = g /\ n # i => LinkedArrival(rows[n])
        /\ i < j /\ Underway(i)
    BY <1>2, <1>8, OneWayRow
  <2>2. CASE pos = i
    <3>1. pending[g] = None /\ part = 1
      BY <1>2, <2>1, <2>2 DEF Underway
    <3>2. pos' = i + 1
      BY <1>1, <2>1, <2>2, <3>1 DEF NextShare, NextRow
    <3>3. pending'[g] = popped.taken /\ \A k \in DOMAIN popped.taken : popped.taken[k].h = rows[i].h
      BY <1>3, <1>6, <2>2, <3>1 DEF DrawnFrom
    <3>4. j \in DOMAIN rows /\ j >= pos' /\ i \in Int
      BY <1>2, <2>1, <3>2
    <3>5. QED
      BY <1>1, <2>1, <3>2, <3>3, <3>4 DEF Underway
  <2>3. CASE pos # i
    <3>1. t.group # g
      BY <1>1, <2>1, <2>3 DEF LinkedArrival
    <3>2. pending'[g] = pending[g]
      BY <1>6, <2>1, <3>1
    <3>3. QED
      BY <1>1, <1>2, <1>5, <2>1, <2>3, <3>1, <3>2, GroupPasses
  <2>4. QED
    BY <2>2, <2>3
<1>9. QED
  BY <1>1, <1>5, <1>7, <1>8, GroupsHold

\* A charge that joins the lots that wait is a share of a split row.
LEMMA FeeCarries == ASSUME CInv, FeeShare PROVE CInv'
<1> DEFINE t == rows[pos]
           popped == Draw(t.h, Share.qty)
<1>1. /\ pos \in DOMAIN rows /\ t.kind \in NeutralKinds /\ Share.action = "fee"
      /\ At(NeutralKinds)
      /\ rows' = rows /\ lots' = popped.left /\ NextShare
      /\ Linked(t) => Buffer(t.group, popped.taken)
      /\ ~ Linked(t) => pending' = pending
  BY DEF FeeShare, AtShare, At, Ledger
<1>2. /\ pos \in Nat /\ part \in Nat /\ RowsOK(rows) /\ DOMAIN rows \subseteq Int /\ Shape
      /\ \A i, j \in DOMAIN rows : OneWay(rows, i, j) => i < j /\ Underway(i)
  BY <1>1, PosIs DEF CInv
<1>3. DrawnFrom(popped, t.h)
  BY <1>2, DrawLots DEF Shape
<1> HIDE DEF popped
<1>4. IsLots(lots')
  BY <1>1, <1>3 DEF DrawnFrom
<1>5. CASE ~ Linked(t)
  BY <1>1, <1>4, <1>5, PassesShare
<1>6. CASE Linked(t)
  <2>1. t.group \in Groups
    BY <1>2, <1>1, <1>6 DEF RowsOK, Linked
  <2>2. pos' \in {pos, pos + 1} /\ part' \in Nat /\ (pos' = pos + 1 => part' = 1)
    BY <1>1, ShareMoves
  <2>3. /\ DOMAIN pending' = Groups
        /\ \A x \in Groups : x # t.group => pending'[x] = pending[x]
        /\ \A x \in Groups : pending'[x] # None => IsLots(pending'[x])
    BY <1>1, <1>2, <1>3, <1>6, <2>1, BufferShape DEF DrawnFrom
  <2>4. Shape'
    BY <1>1, <1>2, <1>4, <2>2, <2>3 DEF Shape, RowsOK, IsSeq
  <2>5. ASSUME NEW i \in DOMAIN rows, NEW j \in DOMAIN rows, OneWay(rows, i, j)
        PROVE  Underway(i)'
    <3> DEFINE g == rows[i].group
    <3>1. /\ g \in Groups
          /\ OutflowPortions(rows[i]) = <<[qty |-> rows[i].qty, action |-> "carry"]>>
          /\ \A n \in DOMAIN rows : rows[n].group = g /\ n # i => LinkedArrival(rows[n])
          /\ Underway(i)
      BY <1>2, <2>5, OneWayRow
    <3>2. pos # i
      <4> SUFFICES ASSUME pos = i PROVE FALSE
        OBVIOUS
      <4>1. part = 1
        BY <3>1 DEF Underway
      <4>2. QED
        BY <1>1, <3>1, <4>1 DEF Share
    <3>3. t.group # g
      BY <1>1, <3>1, <3>2 DEF LinkedArrival
    <3>4. pending'[g] = pending[g]
      BY <2>3, <3>1, <3>3
    <3>5. QED
      BY <1>1, <1>2, <2>2, <3>1, <3>2, <3>3, <3>4, GroupPasses
  <2>6. QED
    BY <1>1, <2>2, <2>4, <2>5, GroupsHold
<1>7. QED
  BY <1>5, <1>6

\* An arrival is of no departure's row, and what it may take up.
LEMMA ArrivalIs ==
  ASSUME CInv, At({"transfer_in"})
  PROVE  /\ pos \in DOMAIN rows /\ rows[pos].kind = "transfer_in"
         /\ pos \in Nat /\ part \in Nat /\ RowsOK(rows) /\ DOMAIN rows \subseteq Int /\ Shape
         /\ Linked(rows[pos]) => rows[pos].group \in Groups
         /\ \A i, j \in DOMAIN rows : OneWay(rows, i, j) =>
              i < j /\ Underway(i) /\ pos # i /\ rows[i].group \in Groups
<1>1. /\ pos \in DOMAIN rows /\ rows[pos].kind = "transfer_in"
  BY DEF At
<1>2. /\ pos \in Nat /\ part \in Nat /\ RowsOK(rows) /\ DOMAIN rows \subseteq Int /\ Shape
      /\ \A i, j \in DOMAIN rows : OneWay(rows, i, j) => i < j /\ Underway(i)
  BY <1>1, PosIs DEF CInv
<1>3. Linked(rows[pos]) => rows[pos].group \in Groups
  BY <1>1, <1>2 DEF RowsOK, Linked
<1>4. ASSUME NEW i \in DOMAIN rows, NEW j \in DOMAIN rows, OneWay(rows, i, j)
      PROVE  pos # i /\ rows[i].group \in Groups
  BY <1>1, <1>2, <1>4, OneWayRow
<1>5. QED
  BY <1>1, <1>2, <1>3, <1>4

\* One of several arrivals leaves lots of the same token, and a later arrival.
LEMMA SharesArrive == ASSUME CInv, InheritShare PROVE CInv'
<1> DEFINE t == rows[pos]
           g == t.group
           share == ShareOf(pending[g], t.qty, t.h)
<1>1. /\ At({"transfer_in"}) /\ LinkedArrival(t) /\ Linked(t) /\ pending[g] # None
      /\ LaterArrivals(g) # {}
      /\ lots' = lots \o share.taken /\ pending' = [pending EXCEPT ![g] = share.left]
      /\ rows' = rows /\ pos' = pos + 1 /\ part' = 1
  BY DEF InheritShare, Inherits, LinkedArrival, NextRow, Ledger
<1>2. /\ pos \in DOMAIN rows
      /\ pos \in Nat /\ part \in Nat /\ RowsOK(rows) /\ DOMAIN rows \subseteq Int /\ Shape
      /\ g \in Groups
      /\ \A i, j \in DOMAIN rows : OneWay(rows, i, j) =>
           i < j /\ Underway(i) /\ pos # i /\ rows[i].group \in Groups
  BY <1>1, ArrivalIs
<1>3. IsLots(pending[g]) /\ IsLots(lots)
  BY <1>1, <1>2 DEF Shape
<1>4. /\ IsLots(share.taken) /\ IsLots(share.left)
      /\ DOMAIN share.left = DOMAIN pending[g]
      /\ \A k \in DOMAIN pending[g] : share.left[k].h = pending[g][k].h
  BY <1>3, SharedLots
<1> HIDE DEF share
<1>5. IsLots(lots')
  BY <1>1, <1>3, <1>4, JoinLots
<1>6. /\ DOMAIN pending' = Groups /\ pending'[g] = share.left
      /\ \A x \in Groups : x # g => pending'[x] = pending[x]
  BY <1>1, <1>2 DEF Shape
<1>7. Shape'
  BY <1>1, <1>2, <1>4, <1>5, <1>6 DEF Shape, RowsOK, IsSeq
<1>8. ASSUME NEW i \in DOMAIN rows, NEW j \in DOMAIN rows, OneWay(rows, i, j)
      PROVE  Underway(i)'
  <2>1. Underway(i) /\ pos # i /\ rows[i].group \in Groups /\ i \in Int
    BY <1>2, <1>8
  <2>2. CASE g = rows[i].group
    <3>1. pos > i
      BY <1>1, <1>2, <2>1, <2>2 DEF Underway
    <3>2. PICK n \in LaterArrivals(g) : TRUE
      BY <1>1
    <3>3. n \in DOMAIN rows /\ n >= pos + 1 /\ LinkedArrival(rows[n]) /\ rows[n].group = g
      BY <1>2, <3>2 DEF LaterArrivals
    <3>4. ~ Mixed(g) => \A k \in DOMAIN pending[g] : TokenOf[pending[g][k].h] = TokenOf[rows[i].h]
      BY <1>1, <2>1, <2>2, <3>1 DEF Underway
    <3>5. ~ Mixed(g) => \A k \in DOMAIN pending'[g] : TokenOf[pending'[g][k].h] = TokenOf[rows[i].h]
      BY <1>4, <1>6, <3>4
    <3>6. Mixed(rows[i].group)' = Mixed(rows[i].group)
      BY <1>1 DEF Mixed
    <3>7. ~ (pos' <= i) /\ pos' # i
      <4>1. pos' = pos + 1 /\ pos \in Int /\ i \in Int
        BY <1>1, <1>2, <2>1
      <4>2. QED
        BY ONLY <3>1, <4>1
    <3>8. \E m \in DOMAIN rows : m >= pos' /\ LinkedArrival(rows[m]) /\ rows[m].group = g
      BY <1>1, <3>3
    <3>9. QED
      BY <1>1, <2>2, <3>5, <3>6, <3>7, <3>8 DEF Underway
  <2>3. CASE g # rows[i].group
    <3>1. pending'[rows[i].group] = pending[rows[i].group]
      BY <1>6, <2>1, <2>3
    <3>2. QED
      BY <1>1, <1>2, <2>1, <2>3, <3>1, GroupPasses
  <2>4. QED
    BY <2>2, <2>3
<1>9. QED
  BY <1>1, <1>2, <1>7, <1>8, GroupsHold

\* The last arrival leaves nothing.
LEMMA AllArrive == ASSUME CInv, InheritAll PROVE CInv'
<1> DEFINE t == rows[pos]
           g == t.group
<1>1. /\ At({"transfer_in"}) /\ LinkedArrival(t) /\ Linked(t) /\ pending[g] # None
      /\ lots' = lots \o Rehome(pending[g], t.qty, t.h)
      /\ pending' = [pending EXCEPT ![g] = None]
      /\ rows' = rows /\ pos' = pos + 1 /\ part' = 1
  BY DEF InheritAll, Inherits, LinkedArrival, NextRow, Ledger
<1>2. /\ pos \in DOMAIN rows
      /\ pos \in Nat /\ part \in Nat /\ RowsOK(rows) /\ DOMAIN rows \subseteq Int /\ Shape
      /\ g \in Groups
      /\ \A i, j \in DOMAIN rows : OneWay(rows, i, j) =>
           i < j /\ Underway(i) /\ pos # i /\ rows[i].group \in Groups
  BY <1>1, ArrivalIs
<1>3. IsLots(pending[g]) /\ IsLots(lots)
  BY <1>1, <1>2 DEF Shape
<1>4. IsLots(lots')
  BY <1>1, <1>3, RehomedLots, JoinLots
<1>5. /\ DOMAIN pending' = Groups /\ pending'[g] = None
      /\ \A x \in Groups : x # g => pending'[x] = pending[x]
  BY <1>1, <1>2 DEF Shape
<1>6. Shape'
  BY <1>1, <1>2, <1>4, <1>5 DEF Shape, RowsOK, IsSeq
<1>7. ASSUME NEW i \in DOMAIN rows, NEW j \in DOMAIN rows, OneWay(rows, i, j)
      PROVE  Underway(i)'
  <2>1. Underway(i) /\ pos # i /\ rows[i].group \in Groups /\ i \in Int
    BY <1>2, <1>7
  <2>2. CASE g = rows[i].group
    BY <1>1, <1>5, <2>2 DEF Underway
  <2>3. CASE g # rows[i].group
    <3>1. pending'[rows[i].group] = pending[rows[i].group]
      BY <1>5, <2>1, <2>3
    <3>2. QED
      BY <1>1, <1>2, <2>1, <2>3, <3>1, GroupPasses
  <2>4. QED
    BY <2>2, <2>3
<1>8. QED
  BY <1>1, <1>2, <1>6, <1>7, GroupsHold

\* An arrival that takes nothing up has nothing of its group's waiting.
LEMMA AcquirePasses == ASSUME CInv, Acquire PROVE CInv'
<1> DEFINE t == rows[pos]
<1>1. /\ pos \in DOMAIN rows /\ t.kind \in AcquireKinds /\ ~ Inherits(t)
      /\ TakeIn(t, PoolUnits(t))
      /\ rows' = rows /\ pending' = pending /\ NextRow
  BY DEF Acquire, At, Ledger
<1>2. /\ pos \in Nat /\ part \in Nat /\ RowsOK(rows) /\ DOMAIN rows \subseteq Int /\ Shape
      /\ \A i, j \in DOMAIN rows : OneWay(rows, i, j) => i < j /\ Underway(i)
  BY <1>1, PosIs DEF CInv
<1>3. IsLots(lots')
  <2>1. \/ lots' = lots
        \/ \E q, c : lots' = Append(lots, LotOf(q, c, t.at, t.h))
    BY <1>1 DEF TakeIn, LotOf
  <2>2. t.at \in Int
    BY <1>1, <1>2 DEF RowsOK
  <2>3. \A q, c : IsLot(LotOf(q, c, t.at, t.h))
    BY <2>2, LotIs
  <2>4. IsLots(lots)
    BY <1>2 DEF Shape
  <2>5. QED
    BY <2>1, <2>3, <2>4, AppendLot
<1>4. Shape'
  BY <1>1, <1>2, <1>3 DEF Shape, RowsOK, IsSeq, NextRow
<1>5. ASSUME NEW i \in DOMAIN rows, NEW j \in DOMAIN rows, OneWay(rows, i, j)
      PROVE  Underway(i)'
  <2> DEFINE g == rows[i].group
  <2>1. Underway(i) /\ i \in Int /\ g \in Groups /\ rows[i].kind \in NeutralKinds
    BY <1>2, <1>5, OneWayRow
  <2>2. pos # i
    BY <1>1, <2>1 DEF AcquireKinds
  <2>3. CASE LinkedArrival(t) /\ t.group = g
    <3>1. CASE pos < i
      BY <1>1, <1>2, <2>1, <3>1 DEF Underway, NextRow
    <3>2. CASE pos > i
      <4>1. pending[g] # None => Mixed(g)
        <5> SUFFICES ASSUME pending[g] # None, ~ Mixed(g) PROVE FALSE
          OBVIOUS
        <5>1. \A k \in DOMAIN pending[g] : TokenOf[pending[g][k].h] = TokenOf[rows[i].h]
          BY <2>1, <3>2 DEF Underway
        <5>2. TokenOf[rows[i].h] = TokenOf[t.h]
          BY <1>1, <2>3 DEF Mixed
        <5>3. QED
          BY <1>1, <2>3, <5>1, <5>2 DEF Inherits, CarriesAcross
      <4>2. Mixed(g)' = Mixed(g)
        BY <1>1 DEF Mixed
      <4>3. ~ (pos' <= i) /\ pos' # i
        BY <1>1, <1>2, <2>1, <3>2 DEF NextRow
      <4>4. QED
        BY <1>1, <4>1, <4>2, <4>3 DEF Underway
    <3>3. QED
      BY <1>2, <2>1, <2>2, <3>1, <3>2
  <2>4. CASE ~ (LinkedArrival(t) /\ t.group = g)
    <3>1. pos' \in {pos, pos + 1} /\ part' = 1
      BY <1>1 DEF NextRow
    <3>2. QED
      BY <1>1, <1>2, <2>1, <2>2, <2>4, <3>1, GroupPasses
  <2>5. QED
    BY <2>3, <2>4
<1>6. QED
  BY <1>1, <1>4, <1>5, GroupsHold DEF NextRow

\* Putting the ledger in order leaves its rows as they are.
LEMMA OrderKeeps ==
  ASSUME NEW ledger, Stampable(ledger)
  PROVE  /\ IsSeq(Ordered(ledger))
         /\ \A k \in DOMAIN Ordered(ledger) : \E i \in DOMAIN ledger : Ordered(ledger)[k] = ledger[i]
<1> DEFINE s == SortLedgerEvents(ledger)
           o == OpeningsFirst(s)
           u == UnlinkedArrivalsFirst(o)
           r == DeferEarlyArrivals(u)
           n == Cardinality(DOMAIN ledger)
<1>1. n \in Nat /\ DOMAIN ledger = 1..n /\ IsFiniteSet(1..n)
  BY FS_CardinalityType DEF Stampable
<1>2. MadeOf(s, ledger)
  BY SortSorts
<1> HIDE DEF s
<1>3. DOMAIN s = 1..n
  BY <1>1, <1>2 DEF MadeOf
<1>o. MadeOf(o, s)
  BY <1>1, <1>3, OpeningsKeep
<1> HIDE DEF o
<1>O. DOMAIN o = 1..n
  BY <1>3, <1>o DEF MadeOf
<1>4. MadeOf(u, o)
  BY <1>1, <1>O, LegsKeep
<1> HIDE DEF u
<1>5. DOMAIN u = 1..n /\ Cardinality(DOMAIN u) = n
  BY <1>1, <1>O, <1>4, FS_Interval DEF MadeOf
<1>6. Picked(r, u, DOMAIN u, WalkedBefore(u))
  BY <1>1, <1>5, DeferPicks
<1>7. r = Ordered(ledger)
  BY DEF Ordered, s, o, u
<1> HIDE DEF r
<1>8. IsSeq(r)
  BY <1>1, <1>5, <1>6 DEF Picked, IsSeq
<1>9. ASSUME NEW k \in DOMAIN r PROVE \E i \in DOMAIN ledger : r[k] = ledger[i]
  <2>1. PICK p \in DOMAIN u : r[k] = u[p]
    BY <1>6, <1>9 DEF Picked
  <2>a. PICK l \in DOMAIN o : u[p] = o[l]
    BY <1>4, <2>1 DEF MadeOf
  <2>2. PICK q \in DOMAIN s : o[l] = s[q]
    BY <1>o, <2>a DEF MadeOf
  <2>3. PICK i \in DOMAIN ledger : s[q] = ledger[i]
    BY <1>2, <2>2 DEF MadeOf
  <2>4. QED
    BY <2>1, <2>a, <2>2, <2>3
<1>10. QED
  BY <1>7, <1>8, <1>9

\* No ledger has lots that wait.
LEMMA InitCarries == Init => CInv
<1> SUFFICES ASSUME Init PROVE CInv
  OBVIOUS
<1>1. PICK v \in Vocabularies : \E f \in [1..v.length -> v.words], at \in Stamps(v.length, v.last) :
        rows = Stamped(f, at)
  BY DEF Init
<1> DEFINE n == v.length
<1>2. PICK f \in [1..n -> v.words] : \E at \in Stamps(n, v.last) : rows = Stamped(f, at)
  BY <1>1
<1>3. PICK at \in Stamps(n, v.last) : rows = Stamped(f, at)
  BY <1>2
<1>4. /\ n \in Nat /\ v.last \in Nat
      /\ \A w \in v.words : /\ DOMAIN w = {"kind", "h", "qty", "worth", "group", "answer", "split"}
                            /\ w.group \in Groups \cup {None}
  BY LotsAssumption
<1>5. /\ rows = [i \in 1..n |-> rows[i]] /\ DOMAIN rows = 1..n
  BY <1>2, <1>3 DEF Stamped
<1>6. ASSUME NEW i \in 1..n
      PROVE  rows[i].id = i /\ rows[i].at \in Int /\ rows[i].group \in Groups \cup {None}
  <2>1. f[i] \in v.words /\ at[i] \in 0..v.last
    BY <1>2, <1>3, <1>6 DEF Stamps
  <2>2. rows[i] = [x \in DOMAIN f[i] \cup {"id", "at"} |->
                     IF x = "id" THEN i ELSE IF x = "at" THEN at[i] ELSE f[i][x]]
    BY <1>2, <1>3, <1>6 DEF Stamped
  <2>3. rows[i].id = i /\ rows[i].at = at[i]
    BY <2>2
  <2>4. rows[i].group = f[i].group
    BY <1>4, <2>1, <2>2
  <2>5. QED
    BY <1>4, <2>1, <2>3, <2>4
<1>7. IsFiniteSet(1..n) /\ Cardinality(1..n) = n
  BY <1>4, FS_Interval
<1>8. RowsOK(rows)
  BY <1>4, <1>5, <1>6 DEF RowsOK, IsSeq
<1>9. Stampable(rows)
  <2>1. DOMAIN rows = 1..Cardinality(DOMAIN rows) /\ IsFiniteSet(DOMAIN rows)
    BY <1>5, <1>7
  <2>2. \A i \in DOMAIN rows : rows[i].id = i /\ rows[i].at \in Int
    BY <1>5, <1>6
  <2>3. DOMAIN rows \subseteq Int
    BY <1>4, <1>5
  <2> HIDE DEF n
  <2>4. \A i \in DOMAIN rows : rows[i].id \in Int
    BY <2>2, <2>3
  <2>5. QED
    BY <2>1, <2>2, <2>4 DEF Stampable
<1>10. IsLots(lots) /\ pos = 0 /\ part = 1 /\ pending = [g \in Groups |-> None]
  BY NoLots DEF Init
<1>11. QED
  BY <1>8, <1>9, <1>10 DEF CInv, Shape, Carried

\* The walk's order takes every such departure first.
LEMMA BeginCarries == ASSUME CInv, Begin PROVE CInv'
<1>1. /\ pos = 0 /\ rows' = Ordered(rows) /\ pos' = 1 /\ part' = 1
      /\ lots' = lots /\ pending' = pending
      /\ Shape /\ Stampable(rows) /\ \A g \in Groups : pending[g] = None
  BY DEF Begin, NextRow, CInv, Carried
<1>2. /\ IsSeq(rows')
      /\ \A k \in DOMAIN rows' : \E i \in DOMAIN rows : rows'[k] = rows[i]
  BY <1>1, OrderKeeps
<1>3. RowsOK(rows')
  BY <1>1, <1>2 DEF Shape, RowsOK
<1>4. Shape'
  BY <1>1, <1>3 DEF Shape
<1>5. ASSUME NEW i \in DOMAIN rows', NEW j \in DOMAIN rows', OneWay(rows', i, j)
      PROVE  i < j /\ Underway(i)'
  <2>1. i < j
    BY <1>1, <1>5, DepartureFirst
  <2>2. rows'[i].group \in Groups
    BY <1>3, <1>5 DEF RowsOK, OneWay, LinkedArrival, Linked
  <2>3. pending'[rows'[i].group] = None
    BY <1>1, <2>2
  <2>4. QED
    BY <1>1, <2>1, <2>3 DEF Underway
<1>6. Carried'
  BY <1>1, <1>5 DEF Carried
<1>7. QED
  BY <1>4, <1>6 DEF CInv

\* At the end of the walk nothing moves any more.
LEMMA SettleKeeps == ASSUME CInv, NEW g \in Groups, Settle(g) PROVE CInv'
<1>1. rows' = rows /\ pos' = pos /\ part' = part /\ lots' = lots /\ pending' = pending
  BY DEF Settle, Ledger
<1>2. \A i : Underway(i)' = Underway(i)
  BY <1>1 DEF Underway, Mixed
<1>3. QED
  BY <1>1, <1>2 DEF CInv, Shape, Carried

\* Rows that are no transfer.
LEMMA RowsPass ==
  ASSUME CInv, Skip \/ CorrectUp \/ CorrectDown \/ DriftOut \/ Sell \/ PayFee
  PROVE  CInv'
<1>1. IsLots(lots)
  BY DEF CInv, Shape
<1>2. CASE Skip \/ CorrectUp
  <2>1. /\ pos \in DOMAIN rows /\ rows[pos].kind \in {"skipped", "correction"}
        /\ rows' = rows /\ pending' = pending /\ NextRow /\ lots' = lots
    BY <1>2 DEF Skip, CorrectUp, At, Ledger
  <2>2. QED
    BY <1>1, <2>1, PassesRow
<1>3. CASE CorrectDown
  <2>1. /\ pos \in DOMAIN rows /\ rows[pos].kind = "correction"
        /\ rows' = rows /\ pending' = pending /\ NextRow
    BY <1>3 DEF CorrectDown, At, Ledger
  <2>2. \E h, want : lots' = DrawPooled(lots, h, want).left
    BY <1>3 DEF CorrectDown
  <2>3. IsLots(lots')
    BY <1>1, <2>2, PooledLots DEF DrawnFrom
  <2>4. QED
    BY <2>1, <2>3, PassesRow
<1>4. CASE DriftOut
  <2>1. /\ pos \in DOMAIN rows /\ rows[pos].kind = "drift_out"
        /\ rows' = rows /\ pending' = pending /\ NextRow
    BY <1>4 DEF DriftOut, At, Ledger
  <2>2. \E h, want : lots' = Draw(h, want).left
    BY <1>4 DEF DriftOut
  <2>3. IsLots(lots')
    BY <1>1, <2>2, DrawLots DEF DrawnFrom
  <2>4. QED
    BY <2>1, <2>3, PassesRow
<1>5. CASE Sell
  <2>1. /\ pos \in DOMAIN rows /\ rows[pos].kind \in SellKinds \cup {"settle_fee"}
        /\ rows' = rows /\ pending' = pending /\ NextRow
    BY <1>5 DEF Sell, At, Ledger
  <2>2. rows[pos].kind \notin {"transfer_in"} \cup NeutralKinds
    BY <2>1 DEF SellKinds
  <2>3. \E t, k, want : lots' = MatchedFromPlan(t, k, want).left
    BY <1>5 DEF Sell
  <2>4. IsLots(lots')
    BY <1>1, <2>3, MatchedLots
  <2>5. QED
    BY <2>1, <2>2, <2>4, PassesRow
<1>6. CASE PayFee
  <2>1. /\ pos \in DOMAIN rows /\ rows[pos].kind \in FeeKinds
        /\ rows' = rows /\ pending' = pending /\ NextRow
    BY <1>6 DEF PayFee, At, Ledger
  <2>2. rows[pos].kind \notin {"transfer_in"} \cup NeutralKinds
    BY <2>1 DEF FeeKinds
  <2>3. \E h, want, cost : \/ lots' = Draw(h, want).left
                           \/ lots' = KeepCostOnLots(Draw(h, want).left, h, cost)
    BY <1>6 DEF PayFee
  <2>4. \A h, want : IsLots(Draw(h, want).left)
    BY <1>1, DrawLots DEF DrawnFrom
  <2>5. IsLots(lots')
    BY <2>3, <2>4, CostlierLots
  <2>6. QED
    BY <2>1, <2>2, <2>5, PassesRow
<1>7. QED
  BY <1>2, <1>3, <1>4, <1>5, <1>6

\* Shares that carry nothing.
LEMMA SharesPass == ASSUME CInv, RealizeShare \/ HoldShare PROVE CInv'
<1>1. IsLots(lots)
  BY DEF CInv, Shape
<1>2. CASE RealizeShare
  <2>1. /\ At(NeutralKinds) /\ Share.action = "realize"
        /\ rows' = rows /\ pending' = pending /\ NextShare
    BY <1>2 DEF RealizeShare, AtShare, Ledger
  <2>2. \E t, k, want : lots' = MatchedFromPlan(t, k, want).left
    BY <1>2 DEF RealizeShare
  <2>3. IsLots(lots')
    BY <1>1, <2>2, MatchedLots
  <2>4. QED
    BY <2>1, <2>3, PassesShare
<1>3. CASE HoldShare
  <2>1. /\ At(NeutralKinds) /\ ~ (Linked(rows[pos]) /\ Share.action = "carry")
        /\ rows' = rows /\ pending' = pending /\ NextShare
    BY <1>3 DEF HoldShare, AtShare, Ledger
  <2>2. \E h, want : lots' = Draw(h, want).left
    BY <1>3 DEF HoldShare
  <2>3. IsLots(lots')
    BY <1>1, <2>2, DrawLots DEF DrawnFrom
  <2>4. QED
    BY <2>1, <2>3, PassesShare
<1>4. QED
  BY <1>2, <1>3

\* The invariant that carries the theorem.
LEMMA CInvHolds == Spec => []CInv
<1>1. Init => CInv
  BY InitCarries
<1>2. CInv /\ [Next]_vars => CInv'
  <2> SUFFICES ASSUME CInv, [Next]_vars PROVE CInv'
    OBVIOUS
  <2>1. CASE UNCHANGED vars
    <3>1. rows' = rows /\ pos' = pos /\ part' = part /\ lots' = lots /\ pending' = pending
      BY <2>1 DEF vars
    <3>2. \A i : Underway(i)' = Underway(i)
      BY <3>1 DEF Underway, Mixed
    <3>3. QED
      BY <3>1, <3>2 DEF CInv, Shape, Carried
  <2>2. CASE Begin
    BY <2>2, BeginCarries
  <2>3. CASE Skip \/ CorrectUp \/ CorrectDown \/ DriftOut \/ Sell \/ PayFee
    BY <2>3, RowsPass
  <2>4. CASE InheritShare
    BY <2>4, SharesArrive
  <2>5. CASE InheritAll
    BY <2>5, AllArrive
  <2>6. CASE Acquire
    BY <2>6, AcquirePasses
  <2>7. CASE Carry
    BY <2>7, CarryCarries
  <2>8. CASE FeeShare
    BY <2>8, FeeCarries
  <2>9. CASE RealizeShare \/ HoldShare
    BY <2>9, SharesPass
  <2>10. CASE \E g \in Groups : Settle(g)
    BY <2>10, SettleKeeps
  <2>11. QED
    BY <2>1, <2>2, <2>3, <2>4, <2>5, <2>6, <2>7, <2>8, <2>9, <2>10 DEF Next
<1>3. QED
  BY <1>1, <1>2, PTL DEF Spec

\* CostBasisService.walkPool: lots that a transfer takes out of a holding arrive
\* in the reader's other holding.  Of a group with one departure nothing is left
\* waiting at the end once an arrival of the same token was stamped after it, or
\* shortly before with nothing else on its holding; where an opening shares the
\* departure's instant and holding, an arrival at that instant must be alone on its
\* own.  For every ledger, whatever the other rows are, under both methods.
THEOREM LinkedLotsArriveHolds == Spec => []LinkedLotsArrive
<1>1. CInv => LinkedLotsArrive
  <2> SUFFICES ASSUME CInv, Done, NEW i \in DOMAIN rows, NEW j \in DOMAIN rows,
                      OneWay(rows, i, j), ~ Mixed(rows[j].group)
               PROVE  Waiting(rows[j].group) = <<>>
    BY DEF LinkedLotsArrive, OneWay, OpensWith, OpenedWith
  <2>1. RowsOK(rows) /\ pos \in Nat
    BY DEF CInv, Shape
  <2>2. DOMAIN rows = 1..Len(rows) /\ Len(rows) \in Nat
    BY <2>1, SeqIs DEF RowsOK
  <2>3. pos > Len(rows)
    BY DEF Done
  <2>4. pos > 0 /\ pos > i /\ \A n \in DOMAIN rows : ~ (n >= pos)
    BY <2>1, <2>2, <2>3
  <2>5. Underway(i)
    BY <2>4 DEF CInv, Carried
  <2>6. rows[i].group = rows[j].group
    BY DEF OneWay
  <2>7. pending[rows[j].group] = None
    BY <2>4, <2>5, <2>6 DEF Underway
  <2>8. QED
    BY <2>7 DEF Waiting
<1>2. QED
  BY <1>1, CInvHolds, PTL

-----------------------------------------------------------------------------
(* How much a draw takes, and from which lots.                              *)

Qtys(ls) == [k \in DOMAIN ls |-> ls[k].qty]

\* The first and the last in an order.
LEMMA Ends ==
  ASSUME NEW S, IsFiniteSet(S), S # {}, NEW R, Orders(R, S)
  PROVE  /\ \E m \in S : \A j \in S : j # m => m \in R[j]
         /\ \E m \in S : \A j \in S : j # m => j \in R[m]
<1> DEFINE n == Cardinality(S)
<1>1. n \in Nat /\ n # 0
  BY FS_CardinalityType, FS_EmptySet
<1>2. \A i \in S : Place(R, i) \in 1..n
  BY PlaceType
<1>3. \A k \in 1..n : \E i \in S : Place(R, i) = k
  BY PlacesTaken
<1>4. \A i, j \in S : i \in R[j] => Place(R, i) < Place(R, j)
  BY PlaceGrows
<1> HIDE DEF n
<1>5. PICK m \in S : Place(R, m) = 1
  BY <1>1, <1>3
<1>6. PICK l \in S : Place(R, l) = n
  BY <1>1, <1>3
<1>7. \A j \in S : j # m => m \in R[j]
  <2> TAKE j \in S
  <2>1. ~ (j \in R[m])
    BY <1>1, <1>2, <1>4, <1>5
  <2>2. QED
    BY <2>1 DEF Orders
<1>8. \A j \in S : j # l => j \in R[l]
  <2> TAKE j \in S
  <2>1. ~ (l \in R[j])
    BY <1>1, <1>2, <1>4, <1>6
  <2>2. QED
    BY <2>1 DEF Orders
<1>9. QED
  BY <1>7, <1>8

\* Lots whose units are natural numbers.
Whole(ls) == IsLots(ls) /\ \A k \in DOMAIN ls : ls[k].qty \in Nat

\* Lots with no less than nothing each, and those of one holding.
LEMMA WholeIs ==
  ASSUME NEW ls, Whole(ls), NEW h
  PROVE  /\ IsFiniteSet(DOMAIN ls) /\ DOMAIN ls \subseteq Int
         /\ Owned(ls, h) \subseteq DOMAIN ls /\ IsFiniteSet(Owned(ls, h))
         /\ \A i \in DOMAIN ls : /\ ls[i].qty \in Nat /\ ls[i].date \in Int /\ IsLot(ls[i])
                                 /\ Qtys(ls)[i] = ls[i].qty
<1>1. /\ DOMAIN ls = 1..Len(ls) /\ Len(ls) \in Nat /\ IsFiniteSet(DOMAIN ls)
      /\ Owned(ls, h) \subseteq DOMAIN ls
  BY LotSeq DEF Whole, Owned
<1>2. IsFiniteSet(Owned(ls, h)) /\ DOMAIN ls \subseteq Int
  BY <1>1, FS_Subset
<1>3. \A i \in DOMAIN ls : IsLot(ls[i])
  BY DEF Whole, IsLots
<1>4. \A i \in DOMAIN ls : ls[i].qty \in Nat /\ ls[i].date \in Int /\ Qtys(ls)[i] = ls[i].qty
  BY <1>3 DEF Whole, IsLot, Qtys
<1>5. QED
  BY <1>1, <1>2, <1>3, <1>4

\* What is older than a lot comes before all of it.
OlderThan(ls, h, i) == {j \in Owned(ls, h) : Older(ls, j, i)}

\* What is ahead of a lot is the sum of the older ones of its holding.
LEMMA AheadIs ==
  ASSUME NEW ls, Whole(ls), NEW h, NEW i \in Owned(ls, h)
  PROVE  /\ AheadOf(ls, h, i) = Sum(Qtys(ls), OlderThan(ls, h, i))
         /\ AheadOf(ls, h, i) \in Nat
         /\ OlderThan(ls, h, i) \subseteq DOMAIN ls /\ IsFiniteSet(OlderThan(ls, h, i))
<1> DEFINE O == OlderThan(ls, h, i)
<1>1. /\ O \subseteq Owned(ls, h) /\ IsFiniteSet(Owned(ls, h)) /\ Owned(ls, h) \subseteq DOMAIN ls
      /\ \A j \in DOMAIN ls : Qtys(ls)[j] = ls[j].qty /\ ls[j].qty \in Nat
  BY WholeIs DEF OlderThan
<1>2. AheadOf(ls, h, i) = MapThenSumSet(LAMBDA j : ls[j].qty, O)
  BY DEF AheadOf, OlderThan
<1> HIDE DEF O
<1>3. IsFiniteSet(O) /\ O \subseteq DOMAIN ls
  BY <1>1, FS_Subset
<1>4. MapThenSumSet(LAMBDA j : ls[j].qty, O) = Sum([j \in O |-> ls[j].qty], O)
  BY <1>3, QtySum
<1>5. Sum([j \in O |-> ls[j].qty], O) = Sum(Qtys(ls), O)
  <2> DEFINE e == [j \in O |-> ls[j].qty]
  <2>1. \A j \in O : e[j] = Qtys(ls)[j]
    BY <1>1, <1>3
  <2> HIDE DEF e
  <2>2. Sum(e, O) = Sum(Qtys(ls), O)
    BY <1>3, <2>1, SumSame
  <2>3. QED
    BY <2>2 DEF e
<1>6. Sum(Qtys(ls), O) \in Nat
  BY <1>1, <1>3, SumNat
<1>7. QED
  BY <1>2, <1>3, <1>4, <1>5, <1>6 DEF O

\* A lot has all of an older one of its holding ahead of it.
LEMMA AheadGrows ==
  ASSUME NEW ls, Whole(ls), NEW h, NEW i \in Owned(ls, h), NEW j \in Owned(ls, h), Older(ls, i, j)
  PROVE  AheadOf(ls, h, i) + ls[i].qty <= AheadOf(ls, h, j)
<1> DEFINE I == OlderThan(ls, h, i)
           J == OlderThan(ls, h, j)
           f == Qtys(ls)
<1>1. /\ AheadOf(ls, h, i) = Sum(f, I) /\ AheadOf(ls, h, j) = Sum(f, J)
      /\ J \subseteq DOMAIN ls /\ IsFiniteSet(I) /\ IsFiniteSet(J)
  BY AheadIs
<1>2. /\ Owned(ls, h) \subseteq DOMAIN ls /\ DOMAIN ls \subseteq Int
      /\ \A k \in DOMAIN ls : f[k] = ls[k].qty /\ ls[k].qty \in Nat /\ ls[k].date \in Int
  BY WholeIs
<1> HIDE DEF f
<1>3. \A k \in I : k \in J
  <2> TAKE k \in I
  <2>1. k \in Owned(ls, h) /\ Older(ls, k, i) /\ ls[k].date \in Int /\ ls[i].date \in Int
        /\ ls[j].date \in Int /\ k \in Int /\ i \in Int /\ j \in Int
    BY <1>2 DEF OlderThan
  <2>2. Older(ls, k, j)
    BY ONLY <2>1, Older(ls, i, j) DEF Older
  <2>3. QED
    BY <2>1, <2>2 DEF OlderThan
<1>4. i \in J /\ i \notin I
  BY <1>2 DEF OlderThan, Older
<1>5. I \cup {i} \in SUBSET J
  BY <1>3, <1>4
<1>6. \A k \in J : f[k] \in Nat
  BY <1>1, <1>2
<1> HIDE DEF I, J
<1>7. Sum(f, I \cup {i}) = f[i] + Sum(f, I)
  <2>1. \A y \in I \cup {i} : f[y] \in Int
    BY <1>5, <1>6
  <2>2. QED
    BY <1>1, <1>4, <2>1, SumMore
<1>8. Sum(f, I \cup {i}) <= Sum(f, J)
  BY <1>1, <1>5, <1>6, SumSub
<1>9. AheadOf(ls, h, i) \in Nat /\ AheadOf(ls, h, j) \in Nat
  BY AheadIs
<1>10. f[i] = ls[i].qty /\ ls[i].qty \in Nat
  BY <1>2
<1>11. QED
  BY <1>1, <1>7, <1>8, <1>9, <1>10

\* Of what is older than a lot the draw reaches, it takes all.
LEMMA TakesOlder ==
  ASSUME NEW ls, Whole(ls), NEW h, NEW want \in Int,
         NEW i \in Owned(ls, h), NEW j \in Reached(ls, h, want), Older(ls, i, j)
  PROVE  i \in Reached(ls, h, want) /\ TakeOf(ls, h, want, i) = ls[i].qty
<1>1. j \in Owned(ls, h) /\ AheadOf(ls, h, j) < want
  BY DEF Reached
<1>2. AheadOf(ls, h, i) + ls[i].qty <= AheadOf(ls, h, j)
  BY <1>1, AheadGrows
<1>3. AheadOf(ls, h, i) \in Nat /\ AheadOf(ls, h, j) \in Nat /\ ls[i].qty \in Nat
  BY <1>1, AheadIs, WholeIs
<1>4. AheadOf(ls, h, i) < want /\ ls[i].qty < want - AheadOf(ls, h, i)
  BY <1>1, <1>2, <1>3
<1>5. QED
  BY <1>3, <1>4 DEF Reached, TakeOf, Min

\* No lot stays that is older than one the draw has reached.
LEMMA OldestGoFirst ==
  ASSUME NEW ls, Whole(ls), NEW h, NEW want \in Int,
         NEW i \in Reached(ls, h, want), NEW j \in Owned(ls, h), j \in KeptOf(ls, h, want)
  PROVE  ls[j].date >= ls[i].date
<1>1. i \in Owned(ls, h)
  BY DEF Reached
<1>2. ls[i].date \in Int /\ ls[j].date \in Int /\ ls[j].qty \in Nat
  BY <1>1, WholeIs
<1>3. CASE Older(ls, j, i)
  <2>1. j \in Reached(ls, h, want) /\ TakeOf(ls, h, want, j) = ls[j].qty
    BY <1>3, TakesOlder
  <2>2. QED
    BY <1>2, <2>1 DEF KeptOf
<1>4. CASE ~ Older(ls, j, i)
  BY <1>2, <1>4 DEF Older
<1>5. QED
  BY <1>3, <1>4

\* The lesser of two.
LEMMA MinOf ==
  ASSUME NEW a \in Int, NEW b \in Int
  PROVE  Min({a, b}) = IF a <= b THEN a ELSE b
BY DEF Min

\* Sums are of the places, whatever stands in them.
LEMMA UnitsAre ==
  ASSUME NEW s, IsSeq(s)
  PROVE  Units(s) = Sum(Qtys(s), DOMAIN s)
<1>1. IsFiniteSet(DOMAIN s)
  BY SeqIs
<1>2. Units(s) = MapThenSumSet(LAMBDA i : s[i].qty, DOMAIN s)
  BY DEF Units, SumOver
<1>3. MapThenSumSet(LAMBDA i : s[i].qty, DOMAIN s) = Sum([i \in DOMAIN s |-> s[i].qty], DOMAIN s)
  BY <1>1, QtySum
<1>4. QED
  BY <1>2, <1>3 DEF Qtys

\* What a draw is asked to take, lot by lot.
Takes(ls, h, want) == [i \in Reached(ls, h, want) |-> TakeOf(ls, h, want, i)]

\* Together it is all the holding has, or what was asked for; and then all
\* the holding has went.
LEMMA TakesAddUp ==
  ASSUME NEW ls, Whole(ls), NEW h, NEW want \in Int, want > 0
  PROVE  LET own == Owned(ls, h)
             T == Sum(Takes(ls, h, want), Reached(ls, h, want))
             all == Sum(Qtys(ls), own)
         IN  /\ T \in Int /\ all \in Int
             /\ T = IF all <= want THEN all ELSE want
             /\ all < want => /\ Reached(ls, h, want) = own
                              /\ \A i \in own : TakeOf(ls, h, want, i) = ls[i].qty
<1> DEFINE own == Owned(ls, h)
           R == Reached(ls, h, want)
           f == Qtys(ls)
           e == Takes(ls, h, want)
<1>1. /\ IsFiniteSet(DOMAIN ls) /\ DOMAIN ls \subseteq Int
      /\ own \subseteq DOMAIN ls /\ IsFiniteSet(own)
      /\ \A i \in DOMAIN ls : ls[i].qty \in Nat /\ ls[i].date \in Int /\ f[i] = ls[i].qty
  BY WholeIs
<1>2. /\ R \subseteq own /\ \A i \in own : i \in R <=> AheadOf(ls, h, i) < want
  BY DEF Reached
<1>3. \A i \in own : AheadOf(ls, h, i) = Sum(f, OlderThan(ls, h, i)) /\ AheadOf(ls, h, i) \in Nat
                     /\ IsFiniteSet(OlderThan(ls, h, i))
  BY AheadIs
<1>4. \A i \in R : e[i] = TakeOf(ls, h, want, i)
  BY DEF Takes
<1>5. \A i \in own : TakeOf(ls, h, want, i) = IF ls[i].qty <= want - AheadOf(ls, h, i) THEN ls[i].qty
                                              ELSE want - AheadOf(ls, h, i)
  BY <1>1, <1>3, MinOf DEF TakeOf
<1>6. \A i \in own, j \in R : Older(ls, i, j) => i \in R /\ e[i] = ls[i].qty
  BY <1>4, TakesOlder
<1>7. \A S \in SUBSET own : OlderOf(ls, S) = [i \in S |-> {j \in S : Older(ls, j, i)}]
                            /\ IsFiniteSet(S) /\ Orders(OlderOf(ls, S), S)
  <2> TAKE S \in SUBSET own
  <2>1. S \subseteq Int /\ \A i \in S : ls[i].date \in Int
    BY <1>1
  <2>2. IsFiniteSet(S)
    BY <1>1, FS_Subset
  <2>3. QED
    BY <2>1, <2>2, OlderOrders DEF OlderOf
<1> HIDE DEF own, R, f, e
<1>8. \A S \in SUBSET own : Sum(f, S) \in Nat
  <2> TAKE S \in SUBSET own
  <2>1. IsFiniteSet(S) /\ \A i \in S : f[i] \in Nat
    BY <1>1, <1>7
  <2>2. QED
    BY <2>1, SumNat
<1>9. CASE R = {}
  <2>1. own = {}
    <3> SUFFICES ASSUME own # {} PROVE FALSE
      OBVIOUS
    <3>0. own \in SUBSET own
      OBVIOUS
    <3>1. PICK u \in own : \A j \in own : j # u => u \in OlderOf(ls, own)[j]
      BY <3>0, <1>7, Ends
    <3>2. \A j \in own : ~ Older(ls, j, u)
      BY <1>1, <1>7, <3>0, <3>1 DEF Older
    <3>3. OlderThan(ls, h, u) = {}
      BY <3>2 DEF OlderThan, own
    <3>4. AheadOf(ls, h, u) = 0
      BY <1>3, <3>3, SumEmpty
    <3>5. QED
      BY <1>2, <1>9, <3>4
  <2>2. Sum(e, {}) = 0 /\ Sum(f, {}) = 0
    BY SumEmpty
  <2>3. QED
    BY <1>9, <2>1, <2>2 DEF own, R, e, f
<1>10. CASE R # {}
  <2>0. R \in SUBSET own
    BY <1>2
  <2>1. PICK m \in R : \A j \in R : j # m => j \in OlderOf(ls, R)[m]
    BY <1>7, <1>10, <2>0, Ends
  <2>2. \A j \in R : j # m => Older(ls, j, m)
    BY <1>7, <2>0, <2>1
  <2>3. m \in own /\ ~ Older(ls, m, m)
    BY <1>1, <2>0 DEF Older
  <2> DEFINE O == OlderThan(ls, h, m)
  <2>4. O = R \ {m}
    BY <1>6, <2>0, <2>1, <2>2, <2>3 DEF OlderThan, own
  <2>5. IsFiniteSet(R) /\ IsFiniteSet(O) /\ O \in SUBSET own /\ m \notin O
    BY <1>3, <1>7, <2>0, <2>3, <2>4
  <2>6. AheadOf(ls, h, m) = Sum(f, O) /\ AheadOf(ls, h, m) \in Nat /\ AheadOf(ls, h, m) < want
    BY <1>2, <1>3, <2>1, <2>3
  <2>7. \A i \in O : e[i] = f[i] /\ f[i] \in Nat
    BY <1>1, <1>6, <2>2, <2>4, <2>5
  <2> HIDE DEF O
  <2>8. Sum(e, O) = Sum(f, O)
    BY <2>5, <2>7, SumSame
  <2>9. e[m] = (IF f[m] <= want - Sum(f, O) THEN f[m] ELSE want - Sum(f, O))
        /\ f[m] \in Nat /\ e[m] \in Int
    BY <1>1, <1>4, <1>5, <2>1, <2>3, <2>6
  <2>10. Sum(e, R) = e[m] + Sum(e, O)
    <3>1. R = O \cup {m}
      BY <2>1, <2>4
    <3>2. \A y \in O \cup {m} : e[y] \in Int
      BY <2>7, <2>9
    <3>3. QED
      BY <2>5, <3>1, <3>2, SumMore
  <2>11. Sum(f, R) = f[m] + Sum(f, O)
    <3>1. R = O \cup {m}
      BY <2>1, <2>4
    <3>2. \A y \in O \cup {m} : f[y] \in Int
      BY <2>7, <2>9
    <3>3. QED
      BY <2>5, <3>1, <3>2, SumMore
  <2>13. Sum(f, R) \in Nat /\ Sum(f, own) \in Nat /\ Sum(f, O) \in Nat
    BY <1>8, <2>0, <2>5, <1>1
  <2>14. Sum(f, R) <= Sum(f, own)
    <3>1. IsFiniteSet(own) /\ \A i \in own : f[i] \in Nat
      BY <1>1
    <3>2. QED
      BY <2>0, <3>1, SumSub
  <2>15. CASE R = own
    <3>1. Sum(f, own) < want => e[m] = f[m] /\ \A i \in own : e[i] = f[i]
      BY <2>4, <2>7, <2>9, <2>11, <2>13, <2>15
    <3>2. \A i \in own : f[i] = ls[i].qty /\ e[i] = TakeOf(ls, h, want, i)
      BY <1>1, <1>4, <2>15
    <3>3. QED
      BY <2>8, <2>9, <2>10, <2>11, <2>13, <2>15, <3>1, <3>2 DEF own, R, e, f
  <2>16. CASE R # own
    <3> DEFINE U == own \ R
    <3>0. U \in SUBSET own /\ U # {}
      BY <2>0, <2>16
    <3>1. PICK u \in U : \A j \in U : j # u => u \in OlderOf(ls, U)[j]
      BY <1>7, <3>0, Ends
    <3>2. \A j \in U : ~ Older(ls, j, u)
      BY <1>1, <1>7, <3>0, <3>1 DEF Older
    <3>3. OlderThan(ls, h, u) \in SUBSET R
      BY <3>2 DEF OlderThan, own
    <3>4. Sum(f, OlderThan(ls, h, u)) <= Sum(f, R)
      <4>1. \A i \in R : f[i] \in Nat
        BY <1>1, <2>0
      <4>2. QED
        BY <2>5, <3>3, <4>1, SumSub
    <3>5. u \in own /\ ~ (AheadOf(ls, h, u) < want) /\ AheadOf(ls, h, u) \in Nat
          /\ AheadOf(ls, h, u) = Sum(f, OlderThan(ls, h, u))
      BY <1>2, <1>3, <3>1
    <3>6. want <= Sum(f, R)
      BY <2>13, <3>4, <3>5
    <3>7. Sum(e, R) = want
      BY <2>8, <2>9, <2>10, <2>11, <2>13, <3>6
    <3>8. QED
      BY <2>13, <2>14, <3>6, <3>7 DEF own, R, e, f
  <2>17. QED
    BY <2>15, <2>16
<1>11. QED
  BY <1>9, <1>10

\* The units of a holding's lots.
OwnUnits(ls, h) == Sum(Qtys(ls), Owned(ls, h))

\* However a lot is cut, its date stays.
LEMMA KeepsDate ==
  ASSUME NEW l, IsLot(l), NEW a, NEW b
  PROVE  /\ Cut(l, a, b).date = l.date /\ Cut(l, a, b).qty = a
         /\ Less(l, a, b).date = l.date /\ Less(l, a, b).qty = l.qty - a
         /\ Dear(l, b).date = l.date /\ Dear(l, b).qty = l.qty
<1>1. l.date \in Int
  BY DEF IsLot
<1>2. \A q, c : LotOf(q, c, l.date, l.h).date = l.date /\ LotOf(q, c, l.date, l.h).qty = q
  BY DEF LotOf
<1>3. /\ Cut(l, a, b) = LotOf(a, b, l.date, l.h)
      /\ Less(l, a, b) = LotOf(l.qty - a, l.cost - b, l.date, l.h)
      /\ Dear(l, b) = LotOf(l.qty, l.cost + b, l.date, l.h)
  BY LotChanges
<1>4. QED
  BY <1>2, <1>3

\* First in, first out: what the draw takes and what it leaves, lot by lot.
LEMMA OldestParts ==
  ASSUME NEW ls, Whole(ls), NEW h, NEW want
  PROVE  LET P == Reached(ls, h, want)
             K == KeptOf(ls, h, want)
             t == DrawOldestFirst(ls, h, want).taken
             l == DrawOldestFirst(ls, h, want).left
         IN  /\ IsFiniteSet(P) /\ IsFiniteSet(K) /\ P \subseteq DOMAIN ls /\ K \subseteq DOMAIN ls
             /\ Orders(OlderOf(ls, P), P) /\ Orders(Lower(K), K)
             /\ Picked(t, PartsOf(ls, h, want), P, OlderOf(ls, P))
             /\ Picked(l, RestsOf(ls, h, want), K, Lower(K))
             /\ \A i \in P : /\ PartsOf(ls, h, want)[i].date = ls[i].date
                             /\ PartsOf(ls, h, want)[i].qty = TakeOf(ls, h, want, i)
             /\ \A i \in DOMAIN ls : /\ RestsOf(ls, h, want)[i].date = ls[i].date
                                     /\ RestsOf(ls, h, want)[i].h = ls[i].h
                                     /\ RestsOf(ls, h, want)[i].qty =
                                          IF i \in P THEN ls[i].qty - TakeOf(ls, h, want, i)
                                          ELSE ls[i].qty
<1> DEFINE P == Reached(ls, h, want)
           K == KeptOf(ls, h, want)
           f == PartsOf(ls, h, want)
           g == RestsOf(ls, h, want)
           t == OlderPick(ls, f, P)
           l == LowerPick(g, K)
<1>1. DOMAIN ls \subseteq Int /\ IsFiniteSet(DOMAIN ls) /\ \A i \in DOMAIN ls : IsLot(ls[i])
  BY WholeIs
<1>2. P \subseteq DOMAIN ls /\ K \subseteq DOMAIN ls
  BY DEF Reached, Owned, KeptOf
<1>3. IsFiniteSet(P) /\ IsFiniteSet(K) /\ P \subseteq Int /\ K \subseteq Int
  BY <1>1, <1>2, FS_Subset
<1>4. \A i \in DOMAIN ls :
        /\ i \in P => f[i].date = ls[i].date /\ f[i].qty = TakeOf(ls, h, want, i)
        /\ g[i].date = ls[i].date /\ g[i].h = ls[i].h
        /\ g[i].qty = IF i \in P THEN ls[i].qty - TakeOf(ls, h, want, i) ELSE ls[i].qty
  <2> TAKE i \in DOMAIN ls
  <2>1. IsLot(ls[i])
    BY <1>1
  <2>2. i \in P => \E b : f[i] = Cut(ls[i], TakeOf(ls, h, want, i), b)
    BY DEF PartsOf
  <2>3. IF i \in P THEN \E b : g[i] = Less(ls[i], TakeOf(ls, h, want, i), b) ELSE g[i] = ls[i]
    BY DEF RestsOf
  <2> HIDE DEF f, g, P
  <2>4. QED
    BY <2>1, <2>2, <2>3, StaysLot, KeepsDate
<1>5. \A i \in P : ls[i].date \in Int
  BY <1>1, <1>2 DEF IsLot
<1>6. DrawOldestFirst(ls, h, want) = [taken |-> t, left |-> l]
  BY OldestDraw
<1> HIDE DEF f, g, P, K
<1>7. Picked(t, f, P, OlderOf(ls, P)) /\ Orders(OlderOf(ls, P), P)
  BY <1>3, <1>5, OlderPicks, OlderOrders
<1>8. Picked(l, g, K, Lower(K)) /\ Orders(Lower(K), K)
  BY <1>3, LowerPicks, LowerOrders
<1> HIDE DEF t, l
<1>9. DrawOldestFirst(ls, h, want).taken = t /\ DrawOldestFirst(ls, h, want).left = l
  BY <1>6
<1>10. QED
  BY <1>2, <1>3, <1>4, <1>7, <1>8, <1>9 DEF f, g, P, K

\* The units of a pick are those of what it picks.
LEMMA PickUnits ==
  ASSUME NEW p, NEW s, NEW S, NEW R, Picked(p, s, S, R), IsFiniteSet(S), Orders(R, S),
         NEW e, \A i \in S : e[i] = s[i].qty /\ e[i] \in Int
  PROVE  IsSeq(p) /\ Units(p) = Sum(e, S)
<1> DEFINE b == [i \in S |-> Place(R, i)]
           g == Qtys(p)
<1>1. Cardinality(S) \in Nat /\ p = [k \in 1..Cardinality(S) |-> p[k]]
      /\ DOMAIN p = 1..Cardinality(S)
  BY FS_CardinalityType DEF Picked
<1>2. IsSeq(p)
  BY <1>1 DEF IsSeq
<1>3. \A i \in S : g[b[i]] = e[i]
  BY DEF Picked, Qtys
<1>4. \A i, j \in S : b[i] = b[j] => i = j
  BY PlacesTaken
<1>5. {b[i] : i \in S} = DOMAIN p
  BY DEF Picked
<1> HIDE DEF b, g
<1>6. Sum(g, {b[i] : i \in S}) = Sum(e, S)
  BY <1>3, <1>4, SumNamed
<1>7. QED
  BY <1>2, <1>5, <1>6, UnitsAre DEF g

\* First in, first out: nothing older stays behind than what went, the units
\* are those asked for or all there are, and if they are too few nothing stays.
LEMMA OldestGo ==
  ASSUME NEW ls, Whole(ls), NEW h, NEW want \in Int
  PROVE  LET t == DrawOldestFirst(ls, h, want).taken
             l == DrawOldestFirst(ls, h, want).left
         IN  /\ IsSeq(t)
             /\ \A k \in DOMAIN t, i \in Owned(l, h) : l[i].date >= t[k].date
             /\ Units(t) \in Int /\ OwnUnits(ls, h) \in Nat
             /\ Units(t) = IF want <= 0 THEN 0
                           ELSE IF OwnUnits(ls, h) <= want THEN OwnUnits(ls, h) ELSE want
             /\ Units(t) < want => Owned(l, h) = {}
<1> DEFINE P == Reached(ls, h, want)
           K == KeptOf(ls, h, want)
           t == DrawOldestFirst(ls, h, want).taken
           l == DrawOldestFirst(ls, h, want).left
           f == PartsOf(ls, h, want)
           g == RestsOf(ls, h, want)
           e == Takes(ls, h, want)
           own == Owned(ls, h)
<1>1. /\ IsFiniteSet(P) /\ IsFiniteSet(K) /\ P \subseteq DOMAIN ls /\ K \subseteq DOMAIN ls
      /\ Orders(OlderOf(ls, P), P) /\ Orders(Lower(K), K)
      /\ Picked(t, f, P, OlderOf(ls, P)) /\ Picked(l, g, K, Lower(K))
      /\ \A i \in P : f[i].date = ls[i].date /\ f[i].qty = TakeOf(ls, h, want, i)
      /\ \A i \in DOMAIN ls : g[i].date = ls[i].date /\ g[i].h = ls[i].h
  BY OldestParts
<1>2. /\ IsFiniteSet(own) /\ own \subseteq DOMAIN ls
      /\ \A i \in DOMAIN ls : ls[i].qty \in Nat /\ ls[i].date \in Int /\ Qtys(ls)[i] = ls[i].qty
  BY WholeIs
<1>3. P \subseteq own /\ \A i \in own : i \in P <=> AheadOf(ls, h, i) < want
  BY DEF Reached
<1>4. \A i \in own : AheadOf(ls, h, i) \in Nat
  BY AheadIs
<1>5. \A i \in P : e[i] = TakeOf(ls, h, want, i) /\ e[i] \in Int
  <2> TAKE i \in P
  <2>1. e[i] = TakeOf(ls, h, want, i) /\ i \in own
    BY <1>3 DEF Takes
  <2>2. ls[i].qty \in Int /\ want - AheadOf(ls, h, i) \in Int
    BY <1>2, <1>4, <2>1
  <2>3. TakeOf(ls, h, want, i) \in Int
    BY <2>2, MinOf DEF TakeOf
  <2>4. QED
    BY <2>1, <2>3
<1>6. \A i \in P, j \in own : j \in K => ls[j].date >= ls[i].date
  BY OldestGoFirst
<1>7. \A i \in Owned(l, h) : \E j \in K : l[i].date = ls[j].date /\ j \in own
  <2> TAKE i \in Owned(l, h)
  <2>1. i \in DOMAIN l /\ l[i].h = h
    BY DEF Owned
  <2> HIDE DEF l, K, g
  <2>2. PICK j \in K : l[i] = g[j]
    BY <1>1, <2>1 DEF Picked
  <2>3. j \in own
    BY <1>1, <2>1, <2>2 DEF Owned
  <2>4. QED
    BY <1>1, <2>2, <2>3
<1> HIDE DEF t, l, f, g, P, K, e
<1>8. IsSeq(t) /\ Units(t) = Sum(e, P)
  <2>1. \A i \in P : e[i] = f[i].qty /\ e[i] \in Int
    BY <1>1, <1>5
  <2>2. QED
    BY <1>1, <2>1, PickUnits
<1>9. \A k \in DOMAIN t : \E i \in P : t[k].date = ls[i].date
  BY <1>1 DEF Picked
<1>10. \A k \in DOMAIN t, i \in Owned(l, h) : l[i].date >= t[k].date
  BY <1>6, <1>7, <1>9
<1>11. OwnUnits(ls, h) \in Nat
  BY <1>2, SumNat DEF OwnUnits
<1>12. CASE want <= 0
  <2>1. P = {}
    <3> SUFFICES ASSUME NEW i \in P PROVE FALSE
      OBVIOUS
    <3>1. i \in own /\ AheadOf(ls, h, i) < want /\ AheadOf(ls, h, i) \in Nat
      BY <1>3, <1>4
    <3>2. QED
      BY <1>12, <3>1
  <2>2. Units(t) = 0
    BY <1>8, <2>1, SumEmpty
  <2>3. QED
    BY <1>8, <1>10, <1>11, <1>12, <2>2 DEF t, l
<1>13. CASE want > 0
  <2>1. /\ Sum(e, P) \in Int
        /\ Sum(e, P) = IF OwnUnits(ls, h) <= want THEN OwnUnits(ls, h) ELSE want
        /\ OwnUnits(ls, h) < want => P = own /\ \A i \in own : TakeOf(ls, h, want, i) = ls[i].qty
    BY <1>13, TakesAddUp DEF OwnUnits, e, P
  <2>2. Units(t) < want => Owned(l, h) = {}
    <3> SUFFICES ASSUME Units(t) < want, NEW i \in Owned(l, h) PROVE FALSE
      OBVIOUS
    <3>1. OwnUnits(ls, h) < want
      BY <1>8, <1>11, <1>13, <2>1
    <3>2. PICK j \in K : j \in own
      BY <1>7
    <3>3. j \in P /\ TakeOf(ls, h, want, j) = ls[j].qty /\ ls[j].qty \in Nat
      BY <1>2, <2>1, <3>1, <3>2
    <3>4. j \notin P \/ TakeOf(ls, h, want, j) < ls[j].qty
      BY <3>2 DEF K, P, KeptOf
    <3>5. QED
      BY <3>3, <3>4
  <2>3. ~ (want <= 0)
    BY <1>13
  <2>4. QED
    BY <1>8, <1>10, <1>11, <2>1, <2>2, <2>3 DEF t, l
<1>14. QED
  BY <1>12, <1>13

SplitSound(t) == t.split \in Seq([decision : STRING, qty : Nat \ {0}])

\* The parts of a split before one ask for less than those before a later one.
LEMMA AskedGrows ==
  ASSUME NEW t, SplitSound(t)
  PROVE  /\ Len(t.split) \in Nat /\ DOMAIN t.split = 1..Len(t.split)
         /\ \A k \in DOMAIN t.split : t.split[k].qty \in Nat /\ t.split[k].qty > 0
         /\ AskedBefore(t, 1) = 0
         /\ \A k \in 1..(Len(t.split) + 1) : AskedBefore(t, k) \in Nat
         /\ \A k \in 1..Len(t.split) : AskedBefore(t, k + 1) = AskedBefore(t, k) + t.split[k].qty
         /\ \A j, k \in 1..(Len(t.split) + 1) : j <= k => AskedBefore(t, j) <= AskedBefore(t, k)
<1> DEFINE s == t.split
           n == Len(s)
           f == Qtys(s)
<1>1. n \in Nat /\ DOMAIN s = 1..n /\ \A k \in 1..n : s[k].qty \in Nat /\ s[k].qty > 0
  <2>1. n \in Nat /\ DOMAIN s = 1..n /\ \A k \in 1..n : s[k] \in [decision : STRING, qty : Nat \ {0}]
    BY LenProperties, ElementOfSeq DEF SplitSound
  <2>2. QED
    BY <2>1
<1>2. \A k \in 1..n : f[k] = s[k].qty
  BY <1>1 DEF Qtys
<1>3. \A k : AskedBefore(t, k) = MapThenSumSet(LAMBDA j : s[j].qty, 1..(k - 1))
  BY DEF AskedBefore
<1> HIDE DEF s, n, f
<1>4. \A k \in 1..(n + 1) : AskedBefore(t, k) = Sum(f, 1..(k - 1)) /\ 1..(k - 1) \in SUBSET (1..n)
                            /\ IsFiniteSet(1..(k - 1))
  <2> TAKE k \in 1..(n + 1)
  <2>0. k \in Int /\ k - 1 \in Int /\ 1 \in Int
    BY <1>1
  <2>1. IsFiniteSet(1..(k - 1))
    BY <2>0, FS_Interval
  <2>2. MapThenSumSet(LAMBDA j : s[j].qty, 1..(k - 1)) = Sum([j \in 1..(k - 1) |-> s[j].qty], 1..(k - 1))
    BY <2>1, QtySum
  <2> DEFINE e == [j \in 1..(k - 1) |-> s[j].qty]
  <2>3. \A j \in 1..(k - 1) : e[j] = f[j]
    BY <1>1, <1>2
  <2> HIDE DEF e
  <2>4. Sum(e, 1..(k - 1)) = Sum(f, 1..(k - 1))
    BY <2>1, <2>3, SumSame
  <2>5. AskedBefore(t, k) = Sum(f, 1..(k - 1))
    BY <1>3, <2>2, <2>4 DEF e
  <2>6. 1..(k - 1) \in SUBSET (1..n)
    BY <1>1
  <2>7. QED
    BY <2>1, <2>5, <2>6
<1>5. IsFiniteSet(1..n) /\ \A k \in 1..n : f[k] \in Nat
  <2>1. n \in Int /\ 1 \in Int
    BY <1>1
  <2>2. IsFiniteSet(1..n)
    BY <2>1, FS_Interval
  <2>3. \A k \in 1..n : f[k] \in Nat
    BY <1>1, <1>2
  <2>4. QED
    BY <2>2, <2>3
<1>6. \A k \in 1..(n + 1) : AskedBefore(t, k) \in Nat
  <2> TAKE k \in 1..(n + 1)
  <2>1. \A j \in 1..(k - 1) : f[j] \in Nat
    BY <1>4, <1>5
  <2>2. QED
    BY <1>4, <2>1, SumNat
<1>7. AskedBefore(t, 1) = 0
  <2>1. 1..(1 - 1) = {} /\ 1 \in 1..(n + 1)
    BY <1>1
  <2>2. QED
    BY <1>4, <2>1, SumEmpty
<1>8. \A k \in 1..n : AskedBefore(t, k + 1) = AskedBefore(t, k) + s[k].qty
  <2> TAKE k \in 1..n
  <2> DEFINE S == 1..(k - 1)
  <2>1. k \in 1..(n + 1) /\ k + 1 \in 1..(n + 1) /\ 1..((k + 1) - 1) = S \cup {k} /\ k \notin S
    BY <1>1
  <2>2. IsFiniteSet(S) /\ \A y \in S \cup {k} : f[y] \in Int
    <3>1. IsFiniteSet(S)
      BY <1>4, <2>1
    <3>2. 1..((k + 1) - 1) \in SUBSET (1..n)
      BY <1>4, <2>1
    <3>3. QED
      BY <1>5, <2>1, <3>1, <3>2
  <2>3. AskedBefore(t, k) = Sum(f, S)
    BY <1>4, <2>1
  <2> HIDE DEF S
  <2>4. Sum(f, S \cup {k}) = f[k] + Sum(f, S)
    BY <2>1, <2>2, SumMore
  <2>5. AskedBefore(t, k) \in Nat /\ f[k] \in Nat
    BY <1>5, <1>6, <2>1
  <2>6. AskedBefore(t, k + 1) = Sum(f, S \cup {k})
    BY <1>4, <2>1
  <2>7. f[k] = s[k].qty
    BY <1>2
  <2>8. QED
    BY <2>3, <2>4, <2>5, <2>6, <2>7
<1>9. \A j, k \in 1..(n + 1) : j <= k => AskedBefore(t, j) <= AskedBefore(t, k)
  <2> SUFFICES ASSUME NEW j \in 1..(n + 1), NEW k \in 1..(n + 1), j <= k
               PROVE  AskedBefore(t, j) <= AskedBefore(t, k)
    OBVIOUS
  <2>1. 1..(j - 1) \in SUBSET (1..(k - 1))
    BY <1>1
  <2>2. \A i \in 1..(k - 1) : f[i] \in Nat
    BY <1>4, <1>5
  <2>3. Sum(f, 1..(j - 1)) <= Sum(f, 1..(k - 1))
    BY <1>4, <2>1, <2>2, SumSub
  <2>4. QED
    BY <1>4, <2>3
<1>10. QED
  BY <1>1, <1>6, <1>7, <1>8, <1>9 DEF s, n

\* What has left of a row before its k-th share.
LeftBefore(t, k) == IF t.answer # "split" THEN 0 ELSE AskedBefore(t, k)

RowSound(t) ==
  /\ t.qty \in Int /\ (t.kind # "correction" => t.qty > 0)
  /\ t.h \in Holdings /\ SplitSound(t)

\* The shares of an outflow are what left, one after the other.
LEMMA PortionsAre ==
  ASSUME NEW t, RowSound(t), t.kind \in NeutralKinds
  PROVE  LET p == OutflowPortions(t)
         IN  /\ IsSeq(p) /\ Len(p) \in Nat /\ Len(p) >= 1 /\ DOMAIN p = 1..Len(p)
             /\ LeftBefore(t, 1) = 0
             /\ \A k \in 1..Len(p) :
                  /\ LeftBefore(t, k) \in Nat /\ p[k].qty \in Int /\ p[k].qty > 0
                  /\ p[k].qty = (IF k = Len(p) THEN t.qty ELSE LeftBefore(t, k + 1)) - LeftBefore(t, k)
<1>0. t.qty \in Int /\ t.qty > 0 /\ SplitSound(t)
  BY DEF RowSound
<1>1. CASE t.answer # "split"
  <2>1. \E a : OutflowPortions(t) = <<[qty |-> t.qty, action |-> a]>>
    BY <1>1 DEF OutflowPortions
  <2>2. PICK a : OutflowPortions(t) = <<[qty |-> t.qty, action |-> a]>>
    BY <2>1
  <2>3. \A l : IsSeq(<<l>>) /\ Len(<<l>>) = 1 /\ <<l>>[1] = l /\ DOMAIN <<l>> = 1..1
    <3> TAKE l
    <3>1. <<l>> = [k \in 1..1 |-> <<l>>[k]]
      OBVIOUS
    <3>2. QED
      BY <3>1 DEF IsSeq
  <2>4. QED
    BY <1>0, <1>1, <2>2, <2>3 DEF LeftBefore
<1>2. CASE t.answer = "split"
  <2> DEFINE s == t.split
             L == Len(s)
             A(k) == AskedBefore(t, k)
             begun == {k \in DOMAIN s : AskedBefore(t, k) < t.qty}
             n == Cardinality(begun)
             shares == [k \in 1..n |-> [qty |-> Min({s[k].qty, t.qty - A(k)}),
                                        action |-> Action(t, s[k].decision)]]
             rest == t.qty - A(L + 1)
  <2>1. /\ L \in Nat /\ DOMAIN s = 1..L /\ A(1) = 0
        /\ \A k \in 1..L : s[k].qty \in Nat /\ s[k].qty > 0 /\ A(k + 1) = A(k) + s[k].qty
        /\ \A k \in 1..(L + 1) : A(k) \in Nat
        /\ \A j, k \in 1..(L + 1) : j <= k => A(j) <= A(k)
    BY <1>0, AskedGrows
  <2>2. OutflowPortions(t) = IF rest > 0 THEN Append(shares, [qty |-> rest, action |-> "hold"])
                             ELSE shares
    BY <1>2 DEF OutflowPortions
  <2>3. \A k : LeftBefore(t, k) = A(k)
    BY <1>2 DEF LeftBefore
  <2>4. \A k \in 1..L : k \in begun <=> A(k) < t.qty
    BY <2>1
  <2>5. \A k \in 1..n : shares[k].qty = Min({s[k].qty, t.qty - A(k)})
    OBVIOUS
  <2>6. shares = [k \in 1..n |-> shares[k]]
    OBVIOUS
  <2>7. begun \subseteq 1..L
    BY <2>1
  <2> HIDE DEF begun, shares, A, s
  <2>8. n \in Nat /\ n <= L /\ begun = 1..n
    <3>1. CASE begun = {}
      <4>1. n = 0
        BY <3>1, FS_EmptySet
      <4>2. QED
        BY <2>1, <3>1, <4>1
    <3>2. CASE begun # {}
      <4>0. IsFiniteSet(begun)
        <5>0. L \in Int /\ 1 \in Int
          BY <2>1
        <5>1. IsFiniteSet(1..L)
          BY <5>0, FS_Interval
        <5>2. QED
          BY <2>7, <5>1, FS_Subset
      <4>1. PICK m \in begun : \A k \in begun : k <= m
        BY <2>1, <2>7, <3>2, GreatestOf
      <4>2. m \in 1..L /\ A(m) < t.qty
        BY <2>4, <2>7, <4>1
      <4>3. \A k \in 1..m : k \in begun
        <5> TAKE k \in 1..m
        <5>1. k \in 1..L /\ k \in 1..(L + 1) /\ m \in 1..(L + 1) /\ k <= m
          BY <2>1, <4>2
        <5>2. A(k) <= A(m) /\ A(k) \in Nat /\ A(m) \in Nat
          BY <2>1, <5>1
        <5>3. A(k) < t.qty
          BY <1>0, <4>2, <5>2
        <5>4. QED
          BY <2>4, <5>1, <5>3
      <4>4. begun = 1..m
        <5>1. \A k \in begun : k \in 1..L /\ k <= m
          BY <2>7, <4>1
        <5>2. m \in Int /\ L \in Int
          BY <2>1, <4>2
        <5>3. \A k \in begun : k \in 1..m
          BY <5>1, <5>2
        <5>4. QED
          BY <4>3, <5>3
      <4>5. n = m
        BY <2>1, <4>2, <4>4, FS_Interval
      <4>6. QED
        BY <2>1, <4>2, <4>4, <4>5
    <3>3. QED
      BY <3>1, <3>2
  <2>9. \A k \in 1..n : shares[k].qty = IF s[k].qty <= t.qty - A(k) THEN s[k].qty ELSE t.qty - A(k)
    <3> TAKE k \in 1..n
    <3>1. s[k].qty \in Int /\ t.qty - A(k) \in Int
      BY <1>0, <2>1, <2>8
    <3>2. QED
      BY <2>5, <3>1, MinOf
  <2>10. IsSeq(shares) /\ Len(shares) = n /\ DOMAIN shares = 1..n
    <3>1. IsSeq(shares) /\ DOMAIN shares = 1..n
      BY <2>6, <2>8 DEF IsSeq
    <3>2. QED
      BY <2>8, <3>1, SeqIs
  <2> HIDE DEF n, L
  <2>11. CASE rest > 0
    <3>1. A(L + 1) < t.qty /\ A(L + 1) \in Nat
      BY <1>0, <2>1, <2>11
    <3>2. n = L
      <4>1. L # 0 => A(L) <= A(L + 1) /\ A(L) \in Nat
        BY <2>1
      <4>2. L # 0 => L \in begun
        BY <1>0, <2>1, <2>4, <3>1, <4>1
      <4>3. QED
        BY <2>1, <2>8, <4>2
    <3>3. \A k \in 1..n : shares[k].qty = A(k + 1) - A(k) /\ shares[k].qty > 0
      <4> TAKE k \in 1..n
      <4>1. A(k + 1) <= A(L + 1) /\ A(k + 1) = A(k) + s[k].qty /\ A(k) \in Nat
            /\ s[k].qty \in Nat /\ s[k].qty > 0
        BY <2>1, <3>2
      <4>2. QED
        BY <1>0, <2>9, <3>1, <4>1
    <3> DEFINE p == Append(shares, [qty |-> rest, action |-> "hold"])
               e == [qty |-> rest, action |-> "hold"]
    <3>4. /\ p = [k \in 1..(n + 1) |-> p[k]] /\ DOMAIN p = 1..(n + 1)
          /\ \A k \in 1..n : p[k] = shares[k]
          /\ p[n + 1] = e
      <4> DEFINE V == {shares[k] : k \in 1..n} \cup {e}
      <4>1. shares \in [1..n -> V]
        BY <2>6
      <4>2. e \in V
        OBVIOUS
      <4> HIDE DEF V, e
      <4>3. shares \in Seq(V)
        BY <2>8, <4>1, SeqDef
      <4>4. /\ Append(shares, e) \in Seq(V) /\ Len(Append(shares, e)) = n + 1
            /\ \A k \in 1..n : Append(shares, e)[k] = shares[k]
            /\ Append(shares, e)[n + 1] = e
        BY <2>8, <2>10, <4>2, <4>3, AppendProperties
      <4>5. Append(shares, e) \in [1..(n + 1) -> V]
        BY <4>4, LenProperties
      <4>6. QED
        BY <4>4, <4>5 DEF e
    <3> HIDE DEF p
    <3>5. OutflowPortions(t) = p
      BY <2>2, <2>11 DEF p
    <3>6. IsSeq(p) /\ Len(p) = n + 1
      <4>1. n + 1 \in Nat
        BY <2>8
      <4>2. IsSeq(p)
        BY <3>4, <4>1 DEF IsSeq
      <4>3. QED
        BY <2>8, <3>4, <4>2, SeqIs
    <3>7. p[n + 1].qty = t.qty - A(n + 1) /\ p[n + 1].qty > 0
      BY <2>11, <3>2, <3>4
    <3>8. \A k \in 1..(n + 1) :
            /\ A(k) \in Nat /\ p[k].qty \in Int /\ p[k].qty > 0
            /\ p[k].qty = (IF k = n + 1 THEN t.qty ELSE A(k + 1)) - A(k)
      <4> TAKE k \in 1..(n + 1)
      <4>1. A(k) \in Nat /\ (k # n + 1 => k \in 1..n)
        BY <2>1, <2>8, <3>2
      <4>2. CASE k = n + 1
        BY <1>0, <3>7, <4>1, <4>2
      <4>3. CASE k # n + 1
        <5>1. p[k] = shares[k] /\ shares[k].qty = A(k + 1) - A(k) /\ shares[k].qty > 0
          BY <3>3, <3>4, <4>1, <4>3
        <5>2. A(k + 1) \in Nat
          BY <2>1, <3>2, <4>1, <4>3
        <5>3. QED
          BY <4>1, <4>3, <5>1, <5>2
      <4>4. QED
        BY <4>2, <4>3
    <3>9. n + 1 \in Nat /\ n + 1 >= 1
      BY <2>8
    <3>10. QED
      BY <2>1, <2>3, <3>4, <3>5, <3>6, <3>8, <3>9
  <2>12. CASE ~ (rest > 0)
    <3>1. A(L + 1) >= t.qty /\ A(L + 1) \in Nat
      BY <1>0, <2>1, <2>12
    <3>2. L >= 1
      BY <1>0, <2>1, <3>1
    <3>3. n >= 1
      <4>1. 1 \in begun
        BY <1>0, <2>1, <2>4, <3>2
      <4>2. QED
        BY <2>8, <4>1
    <3>4. A(n + 1) >= t.qty
      <4>1. CASE n = L
        BY <3>1, <4>1
      <4>2. CASE n # L
        <5>1. n + 1 \in 1..L /\ n + 1 \notin begun /\ n + 1 \in 1..(L + 1)
          BY <2>1, <2>8, <4>2
        <5>2. A(n + 1) \in Nat /\ ~ (A(n + 1) < t.qty)
          BY <2>1, <2>4, <5>1
        <5>3. QED
          BY <1>0, <5>2
      <4>3. QED
        BY <4>1, <4>2
    <3>5. \A k \in 1..n : /\ shares[k].qty = (IF k = n THEN t.qty ELSE A(k + 1)) - A(k)
                          /\ shares[k].qty > 0
      <4> TAKE k \in 1..n
      <4>1. /\ A(k + 1) = A(k) + s[k].qty /\ A(k) \in Nat /\ A(k + 1) \in Nat
            /\ s[k].qty \in Nat /\ s[k].qty > 0 /\ k \in begun /\ k \in 1..L
        <5>1. k \in 1..L /\ k \in begun /\ k \in 1..(L + 1) /\ k + 1 \in 1..(L + 1)
          BY <2>1, <2>8
        <5>2. QED
          BY <2>1, <5>1
      <4>2. A(k) < t.qty
        BY <2>4, <4>1
      <4>3. k # n => k + 1 \in begun /\ k + 1 \in 1..L
        <5> SUFFICES ASSUME k # n PROVE k + 1 \in begun /\ k + 1 \in 1..L
          OBVIOUS
        <5>1. k + 1 \in 1..n
          BY <2>8
        <5>2. QED
          BY <2>1, <2>7, <2>8, <5>1
      <4>4. k # n => A(k + 1) < t.qty
        BY <2>4, <4>3
      <4>5. k # n => s[k].qty <= t.qty - A(k)
        BY <1>0, <4>1, <4>4
      <4>6. k = n => ~ (s[k].qty < t.qty - A(k))
        <5> SUFFICES ASSUME k = n PROVE ~ (s[k].qty < t.qty - A(k))
          OBVIOUS
        <5>1. A(k + 1) >= t.qty
          BY <3>4
        <5>2. QED
          BY <1>0, <4>1, <5>1
      <4>7. shares[k].qty = IF s[k].qty <= t.qty - A(k) THEN s[k].qty ELSE t.qty - A(k)
        BY <2>9
      <4>8. CASE k = n
        BY <1>0, <4>1, <4>2, <4>6, <4>7, <4>8
      <4>9. CASE k # n
        BY <1>0, <4>1, <4>2, <4>5, <4>7, <4>9
      <4>10. QED
        BY <4>8, <4>9
    <3>6. OutflowPortions(t) = shares
      BY <2>2, <2>12
    <3>7. \A k \in 1..n : A(k) \in Nat /\ shares[k].qty \in Int
      <4> TAKE k \in 1..n
      <4>1. k \in 1..(L + 1) /\ k + 1 \in 1..(L + 1)
        BY <2>1, <2>8
      <4>2. A(k) \in Nat /\ A(k + 1) \in Nat
        BY <2>1, <4>1
      <4>3. QED
        BY <1>0, <3>5, <4>2
    <3>8. QED
      BY <2>1, <2>3, <2>8, <2>10, <3>3, <3>5, <3>6, <3>7
  <2>13. QED
    BY <2>11, <2>12
<1>3. QED
  BY <1>1, <1>2

\* One sequence behind another.
LEMMA JoinSeqs ==
  ASSUME NEW s, NEW t, IsSeq(s), IsSeq(t)
  PROVE  /\ IsSeq(s \o t) /\ Len(s \o t) = Len(s) + Len(t)
         /\ \A k \in 1..Len(s) : (s \o t)[k] = s[k]
         /\ \A k \in 1..Len(t) : (s \o t)[Len(s) + k] = t[k]
         /\ \A k \in DOMAIN (s \o t) : k > Len(s) => k - Len(s) \in DOMAIN t
                                                     /\ (s \o t)[k] = t[k - Len(s)]
<1> DEFINE V == {s[k] : k \in DOMAIN s} \cup {t[k] : k \in DOMAIN t}
           u == s \o t
<1>1. /\ Len(s) \in Nat /\ DOMAIN s = 1..Len(s) /\ Len(t) \in Nat /\ DOMAIN t = 1..Len(t)
  BY SeqIs
<1>2. s = [k \in 1..Len(s) |-> s[k]] /\ t = [k \in 1..Len(t) |-> t[k]]
  BY <1>1 DEF IsSeq
<1>3. s \in [1..Len(s) -> V] /\ t \in [1..Len(t) -> V]
  BY <1>1, <1>2
<1> HIDE DEF V
<1>4. s \in Seq(V) /\ t \in Seq(V)
  BY <1>1, <1>3, SeqDef
<1>5. /\ u \in Seq(V) /\ Len(u) = Len(s) + Len(t)
      /\ \A k \in 1..(Len(s) + Len(t)) : u[k] = IF k <= Len(s) THEN s[k] ELSE t[k - Len(s)]
  BY <1>4, ConcatProperties
<1> HIDE DEF u
<1>6. u \in [1..Len(u) -> V] /\ DOMAIN u = 1..Len(u)
  BY <1>5, LenProperties
<1>7. Len(u) \in Nat /\ u = [k \in 1..Len(u) |-> u[k]]
  BY <1>1, <1>5, <1>6
<1>8. IsSeq(u)
  BY <1>7 DEF IsSeq
<1>9. \A k \in 1..Len(s) : u[k] = s[k]
  BY <1>1, <1>5
<1>10. \A k \in 1..Len(t) : u[Len(s) + k] = t[k]
  <2> TAKE k \in 1..Len(t)
  <2>1. Len(s) + k \in 1..(Len(s) + Len(t)) /\ ~ (Len(s) + k <= Len(s)) /\ (Len(s) + k) - Len(s) = k
    BY <1>1
  <2>2. QED
    BY <1>5, <2>1
<1>11. \A k \in DOMAIN u : k > Len(s) => k - Len(s) \in DOMAIN t /\ u[k] = t[k - Len(s)]
  <2> SUFFICES ASSUME NEW k \in DOMAIN u, k > Len(s)
               PROVE  k - Len(s) \in DOMAIN t /\ u[k] = t[k - Len(s)]
    OBVIOUS
  <2>1. k \in 1..(Len(s) + Len(t)) /\ ~ (k <= Len(s)) /\ k - Len(s) \in 1..Len(t)
    BY <1>1, <1>5, <1>6
  <2>2. QED
    BY <1>1, <1>5, <2>1
<1>12. QED
  BY <1>5, <1>8, <1>9, <1>10, <1>11 DEF u

\* One element makes a sequence.
LEMMA SeqOne ==
  ASSUME NEW e
  PROVE  IsSeq(<<e>>) /\ Len(<<e>>) = 1 /\ <<e>>[1] = e /\ DOMAIN <<e>> = 1..1
<1>1. <<e>> = [k \in 1..1 |-> <<e>>[k]]
  OBVIOUS
<1>2. QED
  BY <1>1 DEF IsSeq

\* So does none.
LEMMA SeqNone == IsSeq(<<>>) /\ Len(<<>>) = 0 /\ DOMAIN <<>> = {}
<1>1. <<>> = [k \in 1..0 |-> <<>>[k]] /\ DOMAIN <<>> = {}
  OBVIOUS
<1>2. QED
  BY <1>1 DEF IsSeq

\* To append is to put a sequence of one behind.
LEMMA SeqMore ==
  ASSUME NEW s, IsSeq(s), NEW e
  PROVE  Append(s, e) = s \o <<e>>
<1> DEFINE V == {s[k] : k \in DOMAIN s} \cup {e}
<1>1. Len(s) \in Nat /\ DOMAIN s = 1..Len(s)
  BY SeqIs
<1>2. s = [k \in 1..Len(s) |-> s[k]]
  BY <1>1 DEF IsSeq
<1>3. s \in [1..Len(s) -> V] /\ e \in V
  BY <1>1, <1>2
<1> HIDE DEF V
<1>4. s \in Seq(V)
  BY <1>1, <1>3, SeqDef
<1>5. QED
  BY <1>3, <1>4, AppendIsConcat

\* A sequence of what stands at each place of another.
LEMMA SeqEach ==
  ASSUME NEW s, IsSeq(s), NEW f, f = [k \in DOMAIN s |-> f[k]]
  PROVE  IsSeq(f) /\ DOMAIN f = DOMAIN s /\ Len(f) = Len(s)
<1>1. Len(s) \in Nat /\ DOMAIN s = 1..Len(s)
  BY SeqIs
<1>2. DOMAIN f = DOMAIN s /\ f = [k \in 1..Len(s) |-> f[k]]
  BY <1>1
<1>3. IsSeq(f)
  BY <1>1, <1>2 DEF IsSeq
<1>4. Cardinality(DOMAIN f) = Len(f) /\ Cardinality(DOMAIN s) = Len(s)
  BY <1>3, SeqIs
<1>5. QED
  BY <1>2, <1>3, <1>4

\* Nothing is picked from nothing.
LEMMA PickNone == ASSUME NEW s PROVE LowerPick(s, {}) = <<>>
<1>1. Cardinality({}) = 0
  BY FS_EmptySet
<1>2. QED
  BY <1>1 DEF LowerPick

\* First in, first out matches no disposal beforehand: it draws.
LEMMA MatchedOldest ==
  ASSUME method = "fifo", plan = <<>>, Whole(lots), NEW t, NEW k, NEW want \in Int
  PROVE  MatchedFromPlan(t, k, want) = DrawOldestFirst(lots, t.h, want)
<1> DEFINE key == <<t.id, k>>
           claims == LowerPick(plan, {c \in DOMAIN plan : plan[c].key = key})
           Row(c) == CHOOSE i \in DOMAIN rows : rows[i].id = c.acq
           slices == [i \in DOMAIN claims |->
                        LET a == rows[Row(claims[i])]
                        IN  [qty |-> claims[i].qty, cost |-> WorthOf(a, claims[i].qty),
                             date |-> a.at, h |-> t.h]]
           d == DrawOldestFirst(lots, t.h, want - Units(slices))
<1>1. {c \in DOMAIN plan : plan[c].key = key} = {}
  BY SeqNone
<1>2. claims = <<>>
  BY <1>1, PickNone
<1>3. slices = <<>>
  <2>1. DOMAIN claims = {}
    BY <1>2, SeqNone
  <2> HIDE DEF claims
  <2>2. QED
    BY <2>1
<1>4. MatchedFromPlan(t, k, want) = [taken |-> slices \o d.taken, left |-> d.left]
  BY DEF MatchedFromPlan, Draw, Pick, LowerPick
<1> HIDE DEF slices
<1>5. Units(slices) = 0
  <2>1. Units(<<>>) = Sum(Qtys(<<>>), {})
    BY SeqNone, UnitsAre
  <2>2. QED
    BY <1>3, <2>1, SumEmpty
<1>6. want - Units(slices) = want
  BY <1>5
<1>7. d = DrawOldestFirst(lots, t.h, want)
  BY <1>6
<1> HIDE DEF d
<1>8. \E x, y : d = [taken |-> x, left |-> y]
  BY <1>7, OldestDraw
<1>9. IsSeq(d.taken)
  BY <1>7, OldestGo
<1>10. slices \o d.taken = d.taken
  <2> DEFINE V == {d.taken[i] : i \in DOMAIN d.taken}
  <2>1. d.taken \in Seq(V)
    <3>1. Len(d.taken) \in Nat /\ DOMAIN d.taken = 1..Len(d.taken)
      BY <1>9, SeqIs
    <3>2. d.taken = [i \in 1..Len(d.taken) |-> d.taken[i]]
      BY <1>9, <3>1 DEF IsSeq
    <3>3. d.taken \in [1..Len(d.taken) -> V]
      BY <3>1, <3>2
    <3> HIDE DEF V
    <3>4. QED
      BY <3>1, <3>3, SeqDef
  <2> HIDE DEF V
  <2>2. QED
    BY <1>3, <2>1, ConcatEmptySeq
<1>11. QED
  BY <1>4, <1>7, <1>8, <1>10

\* One more behind a sequence.
LEMMA SeqAppend ==
  ASSUME NEW s, IsSeq(s), NEW e
  PROVE  /\ IsSeq(Append(s, e)) /\ Len(Append(s, e)) = Len(s) + 1
         /\ \A k \in DOMAIN s : Append(s, e)[k] = s[k]
         /\ Append(s, e)[Len(s) + 1] = e
         /\ DOMAIN Append(s, e) = 1..(Len(s) + 1)
<1> DEFINE o == <<e>>
           u == s \o o
<1>1. IsSeq(o) /\ Len(o) = 1 /\ o[1] = e
  BY SeqOne
<1>2. Append(s, e) = u
  BY SeqMore
<1>3. Len(s) \in Nat /\ DOMAIN s = 1..Len(s)
  BY SeqIs
<1> HIDE DEF o
<1>4. /\ IsSeq(u) /\ Len(u) = Len(s) + Len(o)
      /\ \A k \in 1..Len(s) : u[k] = s[k]
      /\ \A k \in 1..Len(o) : u[Len(s) + k] = o[k]
  <2>1. IsSeq(o)
    BY <1>1
  <2>2. QED
    BY ONLY <2>1, IsSeq(s), JoinSeqs
<1> HIDE DEF u
<1>5. u[Len(s) + 1] = e /\ Len(u) = Len(s) + 1
  <2>1. 1 \in 1..Len(o)
    BY <1>1
  <2>2. u[Len(s) + 1] = o[1]
    BY <1>4, <2>1
  <2>3. QED
    BY <1>1, <1>4, <2>2
<1>6. DOMAIN u = 1..(Len(s) + 1)
  <2>1. DOMAIN u = 1..Len(u)
    BY <1>4, SeqIs
  <2>2. QED
    BY <1>5, <2>1
<1>7. QED
  BY <1>2, <1>3, <1>4, <1>5, <1>6

\* The records of a disposal: of the lots it took, and of what no lot answers
\* for, which has no date.
LEMMA RecordIs ==
  ASSUME NEW t, NEW qty, NEW proceeds, NEW taken, NEW outcome, IsSeq(taken)
  PROVE  LET r == RecordDisposal(t, qty, proceeds, taken, outcome)
         IN  /\ IsSeq(r)
             /\ \A k \in DOMAIN r :
                  /\ r[k].h = t.h
                  /\ r[k].acquired = None \/ \E i \in DOMAIN taken : r[k].acquired = taken[i].date
<1> DEFINE f == [i \in DOMAIN taken |-> DisposalRecord(t, qty, proceeds, outcome,
                                            taken[i].qty, taken[i].cost, taken[i].date)]
           n == qty - Units(taken)
           e == DisposalRecord(t, qty, proceeds, outcome, n, 0, None)
           z == IF n > 0 THEN <<e>> ELSE <<>>
           r == f \o z
<1>1. RecordDisposal(t, qty, proceeds, taken, outcome) = r
  BY DEF RecordDisposal
<1>2. \A c, d, m : /\ DisposalRecord(t, qty, proceeds, outcome, m, c, d).h = t.h
                   /\ DisposalRecord(t, qty, proceeds, outcome, m, c, d).acquired = d
  BY DEF DisposalRecord
<1>3. \A i \in DOMAIN taken : f[i].h = t.h /\ f[i].acquired = taken[i].date
  BY <1>2
<1>4. e.h = t.h /\ e.acquired = None
  BY <1>2
<1>5. f = [i \in DOMAIN taken |-> f[i]]
  OBVIOUS
<1> HIDE DEF f, e, n
<1>6. IsSeq(f) /\ DOMAIN f = DOMAIN taken /\ Len(f) \in Nat /\ DOMAIN f = 1..Len(f)
  <2>1. IsSeq(f) /\ DOMAIN f = DOMAIN taken
    BY <1>5, SeqEach
  <2>2. QED
    BY <2>1, SeqIs
<1>7. IsSeq(z) /\ \A k \in DOMAIN z : z[k] = e
  <2>1. CASE n > 0
    BY <2>1, SeqOne
  <2>2. CASE ~ (n > 0)
    BY <2>2, SeqNone
  <2>3. QED
    BY <2>1, <2>2
<1> HIDE DEF z
<1>8. /\ IsSeq(r) /\ \A k \in 1..Len(f) : r[k] = f[k]
      /\ \A k \in DOMAIN r : k > Len(f) => k - Len(f) \in DOMAIN z /\ r[k] = z[k - Len(f)]
  BY <1>6, <1>7, JoinSeqs
<1> HIDE DEF r
<1>9. ASSUME NEW k \in DOMAIN r
      PROVE  /\ r[k].h = t.h
             /\ r[k].acquired = None \/ \E i \in DOMAIN taken : r[k].acquired = taken[i].date
  <2>1. Len(r) \in Nat /\ DOMAIN r = 1..Len(r)
    BY <1>8, SeqIs
  <2>2. CASE k <= Len(f)
    <3>1. k \in 1..Len(f)
      BY <1>6, <1>9, <2>1, <2>2
    <3>2. QED
      BY <1>3, <1>6, <1>8, <3>1
  <2>3. CASE k > Len(f)
    <3>1. r[k] = e
      BY <1>7, <1>8, <1>9, <2>3
    <3>2. QED
      BY <1>4, <3>1
  <2>4. QED
    BY <1>6, <1>9, <2>1, <2>2, <2>3
<1>10. QED
  BY <1>1, <1>8, <1>9

\* Base cash that leaves at par comes in behind the lots, if they are too few.
LEMMA AtParIs ==
  ASSUME NEW h, NEW want, NEW taken, IsSeq(taken), NEW at
  PROVE  LET p == AtPar(h, want, taken, at)
         IN  /\ IsSeq(p)
             /\ \A k \in DOMAIN p : \/ Units(taken) < want
                                    \/ \E i \in DOMAIN taken : p[k] = taken[i]
<1>1. CASE TokenOf[h] = Base /\ Units(taken) < want
  BY <1>1, SeqAppend DEF AtPar
<1>2. CASE ~ (TokenOf[h] = Base /\ Units(taken) < want)
  BY <1>2 DEF AtPar
<1>3. QED
  BY <1>1, <1>2

\* No lot of the disposal's holding that stays is older than one it took.
OldestOf(taken, left, h) ==
  \A k \in DOMAIN taken, i \in Owned(left, h) : left[i].date >= taken[k].date

\* The records a step adds say so.
Oldest(old, new, left) ==
  \A k \in (Len(old) + 1)..Len(new) :
    new[k].acquired # None => \A i \in Owned(left, new[k].h) : left[i].date >= new[k].acquired

\* A disposal recorded of the oldest lots adds matches with the oldest only.
LEMMA AddsOldest ==
  ASSUME NEW ms, IsSeq(ms), NEW left, NEW t, NEW qty, NEW proceeds, NEW taken, NEW outcome,
         IsSeq(taken), OldestOf(taken, left, t.h)
  PROVE  LET new == ms \o RecordDisposal(t, qty, proceeds, taken, outcome)
         IN  IsSeq(new) /\ Oldest(ms, new, left)
<1> DEFINE r == RecordDisposal(t, qty, proceeds, taken, outcome)
           new == ms \o r
<1>1. /\ IsSeq(r)
      /\ \A k \in DOMAIN r :
           /\ r[k].h = t.h
           /\ r[k].acquired = None \/ \E i \in DOMAIN taken : r[k].acquired = taken[i].date
  BY RecordIs
<1> HIDE DEF r
<1>2. /\ IsSeq(new)
      /\ \A k \in DOMAIN new : k > Len(ms) => k - Len(ms) \in DOMAIN r /\ new[k] = r[k - Len(ms)]
  BY <1>1, JoinSeqs
<1>3. Len(ms) \in Nat
  BY SeqIs
<1> HIDE DEF new
<1>4. Len(new) \in Nat /\ DOMAIN new = 1..Len(new)
  BY <1>2, SeqIs
<1>5. ASSUME NEW k \in (Len(ms) + 1)..Len(new), new[k].acquired # None,
             NEW i \in Owned(left, new[k].h)
      PROVE  left[i].date >= new[k].acquired
  <2>1. k \in DOMAIN new /\ k > Len(ms)
    BY <1>3, <1>4, <1>5
  <2>2. k - Len(ms) \in DOMAIN r /\ new[k] = r[k - Len(ms)]
    BY <1>2, <2>1
  <2>3. new[k].h = t.h /\ \E j \in DOMAIN taken : new[k].acquired = taken[j].date
    BY <1>1, <1>5, <2>2
  <2>4. QED
    BY <1>5, <2>3 DEF OldestOf
<1>6. Oldest(ms, new, left)
  BY <1>5 DEF Oldest
<1>7. QED
  BY <1>2, <1>6 DEF new, r

\* First in, first out, and base cash at par.
LEMMA OldestAtPar ==
  ASSUME NEW ls, Whole(ls), NEW h, NEW want \in Int, NEW at
  PROVE  LET d == DrawOldestFirst(ls, h, want)
         IN  /\ IsSeq(d.taken) /\ OldestOf(d.taken, d.left, h)
             /\ IsSeq(AtPar(h, want, d.taken, at))
             /\ OldestOf(AtPar(h, want, d.taken, at), d.left, h)
<1> DEFINE d == DrawOldestFirst(ls, h, want)
           t == d.taken
           l == d.left
           p == AtPar(h, want, t, at)
<1>1. /\ IsSeq(t) /\ \A k \in DOMAIN t, i \in Owned(l, h) : l[i].date >= t[k].date
      /\ Units(t) < want => Owned(l, h) = {}
  BY OldestGo
<1> HIDE DEF d
<1>2. IsSeq(p) /\ \A k \in DOMAIN p : \/ Units(t) < want
                                      \/ \E i \in DOMAIN t : p[k] = t[i]
  BY <1>1, AtParIs
<1> HIDE DEF p
<1>3. OldestOf(p, l, h)
  BY <1>1, <1>2 DEF OldestOf
<1>4. OldestOf(t, l, h)
  BY <1>1 DEF OldestOf
<1>5. QED
  BY <1>1, <1>2, <1>3, <1>4 DEF d, p

\* The cost that a commission adds changes no date and no units.
LEMMA CostlierKeeps ==
  ASSUME NEW ls, IsLots(ls), NEW h, NEW cost
  PROVE  LET s == KeepCostOnLots(ls, h, cost)
         IN  /\ DOMAIN s = DOMAIN ls
             /\ \A i \in DOMAIN ls : s[i].date = ls[i].date /\ s[i].h = ls[i].h /\ s[i].qty = ls[i].qty
             /\ \A e : Owned(s, e) = Owned(ls, e)
<1> DEFINE s == KeepCostOnLots(ls, h, cost)
<1>1. DOMAIN s = DOMAIN ls
  BY DEF KeepCostOnLots
<1>2. ASSUME NEW k \in DOMAIN ls
      PROVE  s[k].date = ls[k].date /\ s[k].h = ls[k].h /\ s[k].qty = ls[k].qty
  <2>1. s[k] = ls[k] \/ \E b : s[k] = Dear(ls[k], b)
    BY DEF KeepCostOnLots, Dear
  <2>2. IsLot(ls[k])
    BY DEF IsLots
  <2> HIDE DEF s
  <2>3. QED
    BY <2>1, <2>2, StaysLot, KeepsDate
<1> HIDE DEF s
<1>3. \A e : Owned(s, e) = Owned(ls, e)
  BY <1>1, <1>2 DEF Owned
<1>4. QED
  BY <1>1, <1>2, <1>3 DEF s

\* What the walk keeps, beside the lots: the rows say what they must, the walk
\* is at a share the row has, and first in, first out plans nothing.
Walk ==
  /\ CInv
  /\ \A i \in DOMAIN rows : RowSound(rows[i])
  /\ At(NeutralKinds) => part \in DOMAIN OutflowPortions(rows[pos])
  /\ method = "fifo" => plan = <<>>
  /\ method = "fifo" /\ pos <= Len(rows) => IsSeq(matches)

\* The share the walk is at.
LEMMA ShareIs ==
  ASSUME Walk, At(NeutralKinds)
  PROVE  /\ pos \in DOMAIN rows /\ RowSound(rows[pos]) /\ rows[pos].kind \in NeutralKinds
         /\ Share.qty \in Int /\ Share.qty > 0
<1>1. pos \in DOMAIN rows /\ RowSound(rows[pos]) /\ rows[pos].kind \in NeutralKinds
      /\ part \in DOMAIN OutflowPortions(rows[pos])
  BY DEF Walk, At
<1>2. QED
  BY <1>1, PortionsAre DEF Share

\* It is a share the row has, and after it another or the next row.
LEMMA NextShareIs ==
  ASSUME Walk, At(NeutralKinds), rows' = rows, NextShare
  PROVE  (At(NeutralKinds) => part \in DOMAIN OutflowPortions(rows[pos]))'
<1> DEFINE p == OutflowPortions(rows[pos])
<1>1. /\ RowSound(rows[pos]) /\ rows[pos].kind \in NeutralKinds
      /\ part \in DOMAIN p /\ \A i \in DOMAIN rows : RowSound(rows[i])
  BY DEF Walk, At
<1>2. Len(p) \in Nat /\ DOMAIN p = 1..Len(p)
  BY <1>1, PortionsAre
<1>3. CASE part = Len(p)
  <2>1. pos' = pos + 1 /\ part' = 1
    BY <1>3 DEF NextShare, NextRow
  <2>2. \A i \in DOMAIN rows : rows[i].kind \in NeutralKinds =>
          1 \in DOMAIN OutflowPortions(rows[i])
    BY <1>1, PortionsAre
  <2>3. QED
    BY <2>1, <2>2 DEF At
<1>4. CASE part # Len(p)
  <2>1. pos' = pos /\ part' = part + 1
    BY <1>4 DEF NextShare
  <2>2. part + 1 \in DOMAIN p
    BY <1>1, <1>2, <1>4
  <2>3. QED
    BY <2>1, <2>2 DEF At
<1>5. QED
  BY <1>3, <1>4

\* The next row is at its first share.
LEMMA NextRowIs ==
  ASSUME \A i \in DOMAIN rows' : RowSound(rows'[i]), NextRow
  PROVE  (At(NeutralKinds) => part \in DOMAIN OutflowPortions(rows[pos]))'
<1>1. \A i \in DOMAIN rows' : rows'[i].kind \in NeutralKinds =>
        1 \in DOMAIN OutflowPortions(rows'[i])
  BY PortionsAre
<1>2. QED
  BY <1>1 DEF At, NextRow

\* A ledger is made of rows that say what they must.
LEMMA InitWalk == Init => Walk
<1> SUFFICES ASSUME Init PROVE Walk
  OBVIOUS
<1>1. PICK v \in Vocabularies : \E f \in [1..v.length -> v.words], at \in Stamps(v.length, v.last) :
        rows = Stamped(f, at)
  BY DEF Init
<1> DEFINE n == v.length
<1>2. PICK f \in [1..n -> v.words] : \E at \in Stamps(n, v.last) : rows = Stamped(f, at)
  BY <1>1
<1>3. PICK at \in Stamps(n, v.last) : rows = Stamped(f, at)
  BY <1>2
<1>4. \A w \in v.words : /\ DOMAIN w = {"kind", "h", "qty", "worth", "group", "answer", "split"}
                         /\ w.qty \in Int \ {0} /\ (w.kind # "correction" => w.qty > 0)
                         /\ w.h \in Holdings
                         /\ w.split \in Seq([decision : STRING, qty : Nat \ {0}])
  BY LotsAssumption
<1>5. DOMAIN rows = 1..n
  BY <1>2, <1>3 DEF Stamped
<1>6. ASSUME NEW i \in DOMAIN rows PROVE RowSound(rows[i])
  <2>1. f[i] \in v.words
    BY <1>2, <1>5, <1>6
  <2>2. rows[i] = [x \in DOMAIN f[i] \cup {"id", "at"} |->
                     IF x = "id" THEN i ELSE IF x = "at" THEN at[i] ELSE f[i][x]]
    BY <1>2, <1>3, <1>5, <1>6 DEF Stamped
  <2>3. DOMAIN f[i] = {"kind", "h", "qty", "worth", "group", "answer", "split"}
    BY <1>4, <2>1
  <2>4. rows[i].qty = f[i].qty /\ rows[i].kind = f[i].kind /\ rows[i].h = f[i].h
        /\ rows[i].split = f[i].split
    BY <2>2, <2>3
  <2>5. QED
    BY <1>4, <2>1, <2>4 DEF RowSound, SplitSound
<1>7. CInv
  BY InitCarries
<1>8. pos = 0 /\ plan = <<>> /\ matches = <<>>
  BY DEF Init
<1>9. IsSeq(matches) /\ 0 \notin DOMAIN rows
  <2>1. n \in Nat
    BY LotsAssumption
  <2>2. IsSeq(matches)
    BY <1>8, SeqNone
  <2>3. QED
    BY <1>5, <2>1, <2>2
<1>10. QED
  BY <1>6, <1>7, <1>8, <1>9 DEF Walk, At

\* The order of the walk moves rows and changes none.
LEMMA BeginWalk == ASSUME Walk, Begin, CInv' PROVE Walk'
<1>1. /\ pos = 0 /\ rows' = Ordered(rows) /\ NextRow /\ method' = method /\ matches' = matches
      /\ plan' = PlanFor(method, rows')
  BY DEF Begin
<1>2. Stampable(rows)
  BY <1>1 DEF Walk, CInv, Carried
<1>3. \A k \in DOMAIN rows' : \E i \in DOMAIN rows : rows'[k] = rows[i]
  BY <1>1, <1>2, OrderKeeps
<1>4. \A k \in DOMAIN rows' : RowSound(rows'[k])
  BY <1>3 DEF Walk
<1>5. method = "fifo" => plan' = <<>>
  BY <1>1 DEF PlanFor
<1>6. method = "fifo" => IsSeq(matches)
  <2>1. IsSeq(rows)
    BY DEF Walk, CInv, Shape, RowsOK
  <2>2. 0 <= Len(rows)
    BY <2>1, SeqIs
  <2>3. QED
    BY <1>1, <2>2 DEF Walk
<1>7. (At(NeutralKinds) => part \in DOMAIN OutflowPortions(rows[pos]))'
  BY <1>1, <1>4, NextRowIs
<1>8. QED
  BY <1>1, <1>4, <1>5, <1>6, <1>7 DEF Walk

\* What a step keeps, and what its records say.
Goes ==
  /\ Walk'
  /\ method = "fifo" /\ pos \in DOMAIN rows => Oldest(matches, matches', lots')

\* On a row of the ledger it is enough to look at the records.
LEMMA WalksOn ==
  ASSUME Walk, CInv', UNCHANGED <<method, rows, plan>>, pos \in DOMAIN rows,
         NextRow \/ (At(NeutralKinds) /\ NextShare),
         method = "fifo" /\ IsSeq(matches) /\ plan = <<>> =>
           IsSeq(matches') /\ Oldest(matches, matches', lots')
  PROVE  Goes
<1>1. IsSeq(rows) /\ \A i \in DOMAIN rows : RowSound(rows[i])
  BY DEF Walk, CInv, Shape, RowsOK
<1>2. pos <= Len(rows)
  BY <1>1, SeqIs
<1>3. method = "fifo" => IsSeq(matches) /\ plan = <<>>
  BY <1>2 DEF Walk
<1>4. (At(NeutralKinds) => part \in DOMAIN OutflowPortions(rows[pos]))'
  BY <1>1, NextRowIs, NextShareIs
<1>5. QED
  BY <1>1, <1>3, <1>4 DEF Goes, Walk

\* No record, nothing to say.
LEMMA QuietWalk ==
  ASSUME Walk, CInv', UNCHANGED <<method, rows, plan, matches>>, pos \in DOMAIN rows,
         NextRow \/ (At(NeutralKinds) /\ NextShare)
  PROVE  Goes
<1>1. IsSeq(matches) => Oldest(matches, matches', lots')
  <2> SUFFICES ASSUME IsSeq(matches) PROVE Oldest(matches, matches, lots')
    OBVIOUS
  <2>1. Len(matches) \in Nat
    BY SeqIs
  <2>2. QED
    BY <2>1 DEF Oldest
<1>2. QED
  BY <1>1, WalksOn

\* Rows and shares without a record.
LEMMA QuietRows ==
  ASSUME Walk, CInv',
         Skip \/ CorrectUp \/ CorrectDown \/ DriftOut \/ InheritShare \/ InheritAll \/ Acquire \/ Carry
  PROVE  Goes
<1>1. pos \in DOMAIN rows
  BY DEF Skip, CorrectUp, CorrectDown, DriftOut, InheritShare, InheritAll, Acquire, Carry, AtShare, At
<1>2. UNCHANGED <<method, rows, plan, matches>>
  BY DEF Skip, CorrectUp, CorrectDown, DriftOut, InheritShare, InheritAll, Acquire, Carry, Ledger
<1>3. NextRow \/ (At(NeutralKinds) /\ NextShare)
  BY DEF Skip, CorrectUp, CorrectDown, DriftOut, InheritShare, InheritAll, Acquire, Carry, AtShare
<1>4. QED
  BY <1>1, <1>2, <1>3, QuietWalk

\* A sale: the oldest lots, and base cash at par.
LEMMA SellGoes == ASSUME Walk, Whole(lots), CInv', Sell PROVE Goes
<1>1. /\ pos \in DOMAIN rows /\ NextRow /\ UNCHANGED <<method, rows, plan>>
      /\ rows[pos].kind \in SellKinds \cup {"settle_fee"}
  BY DEF Sell, At, Ledger
<1>2. rows[pos].qty \in Int
  BY <1>1 DEF Walk, RowSound
<1>3. ASSUME method = "fifo", IsSeq(matches), plan = <<>>
      PROVE  IsSeq(matches') /\ Oldest(matches, matches', lots')
  <2> DEFINE t == rows[pos]
             d == DrawOldestFirst(lots, t.h, t.qty)
             p == AtPar(t.h, t.qty, d.taken, t.at)
  <2>1. MatchedFromPlan(t, 1, t.qty) = d
    BY <1>2, <1>3, MatchedOldest
  <2>2. \E proceeds, outcome :
          lots' = d.left /\ matches' = matches \o RecordDisposal(t, t.qty, proceeds, p, outcome)
    BY <2>1 DEF Sell, Record
  <2>3. IsSeq(p) /\ OldestOf(p, d.left, t.h)
    BY <1>2, OldestAtPar
  <2> HIDE DEF t, d, p
  <2>4. QED
    BY <1>3, <2>2, <2>3, AddsOldest
<1>4. QED
  BY <1>1, <1>3, WalksOn

\* A fee, and a commission whose cost stays.
LEMMA FeeGoes == ASSUME Walk, Whole(lots), CInv', PayFee PROVE Goes
<1>1. /\ pos \in DOMAIN rows /\ NextRow /\ UNCHANGED <<method, rows, plan>>
  BY DEF PayFee, At, Ledger
<1>2. rows[pos].qty \in Int
  <2>1. RowSound(rows[pos])
    BY <1>1 DEF Walk
  <2>2. QED
    BY <2>1 DEF RowSound
<1>3. ASSUME method = "fifo", IsSeq(matches), plan = <<>>
      PROVE  IsSeq(matches') /\ Oldest(matches, matches', lots')
  <2> DEFINE t == rows[pos]
             d == DrawOldestFirst(lots, t.h, t.qty)
             p == AtPar(t.h, t.qty, d.taken, t.at)
             k == KeepCostOnLots(d.left, t.h, Costs(p))
  <2>1. Draw(t.h, t.qty) = d
    BY <1>3 DEF Draw
  <2>2. /\ lots' = k \/ lots' = d.left
        /\ \E outcome : matches' = matches \o RecordDisposal(t, t.qty, None, p, outcome)
    BY <2>1 DEF PayFee, Record
  <2>3. IsSeq(p) /\ OldestOf(p, d.left, t.h)
    BY <1>2, OldestAtPar
  <2>4. IsLots(d.left)
    BY OldestLots DEF DrawnFrom, Whole
  <2>5. /\ DOMAIN k = DOMAIN d.left /\ Owned(k, t.h) = Owned(d.left, t.h)
        /\ \A i \in DOMAIN d.left : k[i].date = d.left[i].date
    BY <2>4, CostlierKeeps
  <2> HIDE DEF d, p, k
  <2>6. OldestOf(p, lots', t.h)
    BY <2>2, <2>3, <2>5 DEF OldestOf, Owned
  <2> HIDE DEF t
  <2>7. QED
    BY <1>3, <2>2, <2>3, <2>6, AddsOldest
<1>4. QED
  BY <1>1, <1>3, WalksOn

\* The shares of an outflow that leave a record.
LEMMA SharesGo ==
  ASSUME Walk, Whole(lots), CInv', FeeShare \/ RealizeShare \/ HoldShare
  PROVE  Goes
<1>1. /\ At(NeutralKinds) /\ NextShare /\ UNCHANGED <<method, rows, plan>>
  BY DEF FeeShare, RealizeShare, HoldShare, AtShare, Ledger
<1>2. Share.qty \in Int /\ pos \in DOMAIN rows
  BY <1>1, ShareIs
<1>3. ASSUME method = "fifo", IsSeq(matches), plan = <<>>
      PROVE  IsSeq(matches') /\ Oldest(matches, matches', lots')
  <2> DEFINE t == rows[pos]
             d == DrawOldestFirst(lots, t.h, Share.qty)
             p == AtPar(t.h, Share.qty, d.taken, t.at)
  <2>1. Draw(t.h, Share.qty) = d /\ MatchedFromPlan(t, part, Share.qty) = d
    BY <1>2, <1>3, MatchedOldest DEF Draw
  <2>2. /\ IsSeq(p) /\ OldestOf(p, d.left, t.h)
        /\ IsSeq(d.taken) /\ OldestOf(d.taken, d.left, t.h)
    BY <1>2, OldestAtPar
  <2>3. /\ lots' = d.left
        /\ \E proceeds, outcome :
             \/ matches' = matches \o RecordDisposal(t, Share.qty, proceeds, p, outcome)
             \/ matches' = matches \o RecordDisposal(t, Share.qty, proceeds, d.taken, outcome)
    <3>1. CASE FeeShare
      BY <2>1, <3>1 DEF FeeShare, Record
    <3>2. CASE RealizeShare
      BY <2>1, <3>2 DEF RealizeShare, Record
    <3>3. CASE HoldShare
      BY <2>1, <3>3 DEF HoldShare, Record
    <3>4. QED
      BY <3>1, <3>2, <3>3
  <2> HIDE DEF t, d, p
  <2>4. QED
    BY <1>3, <2>2, <2>3, AddsOldest
<1>4. QED
  BY <1>1, <1>2, <1>3, WalksOn

\* After the walk only the exits are settled.
LEMMA SettleGoes == ASSUME Walk, CInv', NEW g \in Groups, Settle(g) PROVE Goes
<1>1. pos > Len(rows) /\ UNCHANGED <<method, rows, plan, pos, part>>
  BY DEF Settle, Ledger
<1>2. IsSeq(rows) /\ pos \in Nat
  BY DEF Walk, CInv, Shape, RowsOK
<1>3. pos \notin DOMAIN rows /\ ~ (pos <= Len(rows))
  BY <1>1, <1>2, SeqIs
<1>4. QED
  BY <1>1, <1>3 DEF Goes, Walk, At

\* Whatever the step, the walk goes on and what it matches is the oldest.
LEMMA StepGoes == ASSUME Walk, Whole(lots), CInv', [Next]_vars PROVE Goes
<1>1. CASE UNCHANGED vars
  <2>1. UNCHANGED <<method, rows, plan, pos, part, lots, matches>>
    BY <1>1 DEF vars
  <2>2. method = "fifo" /\ pos \in DOMAIN rows => Oldest(matches, matches, lots)
    <3> SUFFICES ASSUME method = "fifo", pos \in DOMAIN rows PROVE Oldest(matches, matches, lots)
      OBVIOUS
    <3>1. IsSeq(rows)
      BY DEF Walk, CInv, Shape, RowsOK
    <3>2. IsSeq(matches)
      BY <3>1, SeqIs DEF Walk
    <3>3. Len(matches) \in Nat
      BY <3>2, SeqIs
    <3>4. QED
      BY <3>3 DEF Oldest
  <2>3. QED
    BY <2>1, <2>2 DEF Goes, Walk, At
<1>2. CASE Begin
  <2>1. pos = 0 /\ IsSeq(rows)
    BY <1>2 DEF Begin, Walk, CInv, Shape, RowsOK
  <2>2. pos \notin DOMAIN rows
    BY <2>1, SeqIs
  <2>3. QED
    BY <1>2, <2>2, BeginWalk DEF Goes
<1>3. CASE Skip \/ CorrectUp \/ CorrectDown \/ DriftOut \/ InheritShare \/ InheritAll \/ Acquire \/ Carry
  BY <1>3, QuietRows
<1>4. CASE Sell
  BY <1>4, SellGoes
<1>5. CASE PayFee
  BY <1>5, FeeGoes
<1>6. CASE FeeShare \/ RealizeShare \/ HoldShare
  BY <1>6, SharesGo
<1>7. CASE \E g \in Groups : Settle(g)
  BY <1>7, SettleGoes
<1>8. QED
  BY <1>1, <1>2, <1>3, <1>4, <1>5, <1>6, <1>7 DEF Next

\* Rounding left no lot with less than nothing.
NoneBelowZero == \A i \in DOMAIN lots : lots[i].qty \in Nat

\* So it does from the first row to the last.
LEMMA WalkHolds == Spec /\ []NoneBelowZero => [](CInv /\ Walk)
<1>1. Init => Walk
  BY InitWalk
<1>2. CInv /\ CInv' /\ NoneBelowZero /\ Walk /\ [Next]_vars => Walk'
  BY StepGoes DEF Goes, Whole, NoneBelowZero, CInv, Shape
<1>3. QED
  BY <1>1, <1>2, CInvHolds, PTL DEF Spec

\* CostBasisService.walkPool, first in, first out: a disposal or a fee never
\* takes a lot while an older one of its holding stays, across transfers too,
\* for every ledger in which rounding leaves no lot with less than nothing.
THEOREM OldestFirstHolds == Spec /\ []NoneBelowZero => OldestFirst
<1>1. CInv /\ CInv' /\ NoneBelowZero /\ Walk /\ [Next]_vars =>
        [method = "fifo" /\ pos \in DOMAIN rows =>
           \A k \in (Len(matches) + 1)..Len(matches') :
             matches'[k].acquired # None =>
               \A i \in Owned(lots', matches'[k].h) : lots'[i].date >= matches'[k].acquired]_vars
  BY StepGoes DEF Goes, Whole, NoneBelowZero, CInv, Shape, Oldest
<1>2. QED
  BY <1>1, WalkHolds, PTL DEF Spec, OldestFirst

\* The units of a holding among the lots that are picked.
LEMMA PickOwn ==
  ASSUME NEW p, NEW s, NEW S, NEW R, Picked(p, s, S, R), IsFiniteSet(S), Orders(R, S),
         NEW e, \A i \in S : e[i] = s[i].qty /\ e[i] \in Int, NEW h
  PROVE  OwnUnits(p, h) = Sum(e, {i \in S : s[i].h = h})
<1> DEFINE T == {i \in S : s[i].h = h}
           b == [i \in S |-> Place(R, i)]
           g == Qtys(p)
<1>1. IsFiniteSet(T) /\ T \subseteq S
  BY FS_Subset
<1>2. \A i \in S : b[i] \in DOMAIN p /\ p[b[i]] = s[i] /\ g[b[i]] = e[i]
  BY DEF Picked, Qtys
<1>3. \A i, j \in S : b[i] = b[j] => i = j
  BY PlacesTaken
<1>4. {b[i] : i \in T} = Owned(p, h)
  <2>1. \A k \in Owned(p, h) : \E i \in T : k = b[i]
    <3> TAKE k \in Owned(p, h)
    <3>1. k \in DOMAIN p /\ p[k].h = h
      BY DEF Owned
    <3>2. PICK i \in S : Place(R, i) = k /\ p[k] = s[i]
      BY <3>1 DEF Picked
    <3>3. QED
      BY <3>1, <3>2
  <2>2. \A i \in T : b[i] \in Owned(p, h)
    <3> HIDE DEF b
    <3>1. QED
      BY <1>2 DEF Owned
  <2>3. QED
    BY <2>1, <2>2
<1> HIDE DEF b, g, T
<1>5. Sum(g, {b[i] : i \in T}) = Sum(e, T)
  <2>1. /\ \A i \in T : e[i] \in Int /\ g[b[i]] = e[i]
        /\ \A i, j \in T : b[i] = b[j] => i = j
    BY <1>1, <1>2, <1>3
  <2>2. QED
    BY <1>1, <2>1, SumNamed
<1>6. QED
  BY <1>4, <1>5 DEF OwnUnits, g, T

\* First in, first out: what the draw takes the holding no longer has, and no
\* other holding notices.
LEMMA OldestLeaves ==
  ASSUME NEW ls, Whole(ls), NEW h, NEW want \in Int
  PROVE  LET d == DrawOldestFirst(ls, h, want)
         IN  /\ OwnUnits(d.left, h) = OwnUnits(ls, h) - Units(d.taken)
             /\ \A e : e # h => OwnUnits(d.left, e) = OwnUnits(ls, e)
             /\ \A k \in DOMAIN d.taken : d.taken[k].qty \in Int
<1> DEFINE P == Reached(ls, h, want)
           K == KeptOf(ls, h, want)
           t == DrawOldestFirst(ls, h, want).taken
           l == DrawOldestFirst(ls, h, want).left
           f == PartsOf(ls, h, want)
           g == RestsOf(ls, h, want)
           q == Qtys(ls)
           gq == [i \in DOMAIN ls |-> g[i].qty]
           own == Owned(ls, h)
           T == [i \in own |-> IF i \in P THEN TakeOf(ls, h, want, i) ELSE 0]
           tk == Takes(ls, h, want)
<1>1. /\ IsFiniteSet(P) /\ IsFiniteSet(K) /\ P \subseteq DOMAIN ls /\ K \subseteq DOMAIN ls
      /\ Orders(OlderOf(ls, P), P) /\ Orders(Lower(K), K)
      /\ Picked(t, f, P, OlderOf(ls, P)) /\ Picked(l, g, K, Lower(K))
      /\ \A i \in P : f[i].qty = TakeOf(ls, h, want, i)
      /\ \A i \in DOMAIN ls : /\ g[i].h = ls[i].h
                              /\ g[i].qty = IF i \in P THEN ls[i].qty - TakeOf(ls, h, want, i)
                                            ELSE ls[i].qty
  BY OldestParts
<1>2. /\ IsFiniteSet(DOMAIN ls) /\ IsFiniteSet(own) /\ own \subseteq DOMAIN ls
      /\ \A i \in DOMAIN ls : ls[i].qty \in Nat /\ q[i] = ls[i].qty
      /\ \A e : Owned(ls, e) = {i \in DOMAIN ls : ls[i].h = e}
  BY WholeIs DEF Owned
<1>3. /\ P \subseteq own
      /\ \A i \in DOMAIN ls : i \in K <=> i \notin P \/ TakeOf(ls, h, want, i) < ls[i].qty
  BY DEF Reached, KeptOf
<1>4. \A i \in P : TakeOf(ls, h, want, i) \in Int /\ TakeOf(ls, h, want, i) <= ls[i].qty
                   /\ tk[i] = TakeOf(ls, h, want, i)
  <2> TAKE i \in P
  <2>1. i \in own /\ tk[i] = TakeOf(ls, h, want, i)
    BY <1>3 DEF Takes
  <2>2. AheadOf(ls, h, i) \in Nat /\ ls[i].qty \in Nat
    BY <1>2, <2>1, AheadIs
  <2>3. TakeOf(ls, h, want, i) = IF ls[i].qty <= want - AheadOf(ls, h, i) THEN ls[i].qty
                                 ELSE want - AheadOf(ls, h, i)
    BY <2>2, MinOf DEF TakeOf
  <2>4. QED
    BY <2>1, <2>2, <2>3
<1>5. \A i \in own : T[i] = IF i \in P THEN TakeOf(ls, h, want, i) ELSE 0
  OBVIOUS
<1>6. \A i \in DOMAIN ls : gq[i] = g[i].qty /\ gq[i] \in Int
  BY <1>1, <1>2, <1>4
<1> HIDE DEF t, l, f, g, P, K, T, gq, q, tk
<1>7. \A e : OwnUnits(l, e) = Sum(gq, {i \in K : g[i].h = e})
  <2> TAKE e
  <2>1. \A i \in K : gq[i] = g[i].qty /\ gq[i] \in Int
    BY <1>1, <1>6
  <2>2. QED
    BY <1>1, <2>1, PickOwn
<1>8. ASSUME NEW e, e # h PROVE OwnUnits(l, e) = OwnUnits(ls, e)
  <2> DEFINE S == Owned(ls, e)
  <2>1. \A i \in S : i \in DOMAIN ls /\ i \notin P
    BY <1>2, <1>3, <1>8
  <2>2. {i \in K : g[i].h = e} = S
    BY <1>1, <1>2, <1>3, <2>1
  <2>3. \A i \in S : gq[i] = q[i]
    BY <1>1, <1>2, <1>6, <2>1
  <2>4. IsFiniteSet(S)
    BY <1>2, WholeIs
  <2> HIDE DEF S
  <2>5. Sum(gq, S) = Sum(q, S)
    BY <2>3, <2>4, SumSame
  <2>6. QED
    BY <1>7, <2>2, <2>5 DEF OwnUnits, S, q
<1>9. OwnUnits(l, h) = OwnUnits(ls, h) - Units(t)
  <2> DEFINE S == {i \in K : g[i].h = h}
  <2>1. S \in SUBSET own /\ \A i \in own \ S : gq[i] = 0
    <3>1. S \in SUBSET own
      BY <1>1, <1>2
    <3>2. \A i \in own \ S : i \in DOMAIN ls /\ i \notin K
      BY <1>1, <1>2
    <3>3. \A i \in own \ S : i \in P /\ ~ (TakeOf(ls, h, want, i) < ls[i].qty)
      BY <1>3, <3>2
    <3>4. \A i \in own \ S : gq[i] = 0
      BY <1>1, <1>2, <1>4, <1>6, <3>2, <3>3
    <3>5. QED
      BY <3>1, <3>4
  <2> HIDE DEF S
  <2>2. Sum(gq, S) = Sum(gq, own)
    BY <1>2, <1>6, <2>1, SumWithout
  <2>3. Sum(q, own) = Sum(gq, own) + Sum(T, own)
    <3>1. \A i \in own : gq[i] \in Int /\ T[i] \in Int /\ q[i] = gq[i] + T[i]
      BY <1>1, <1>2, <1>4, <1>5, <1>6
    <3>2. QED
      BY <1>2, <3>1, SumPlus
  <2>4. Sum(T, P) = Sum(T, own)
    <3>1. P \in SUBSET own /\ (\A i \in own : T[i] \in Int) /\ (\A i \in own \ P : T[i] = 0)
      BY <1>3, <1>4, <1>5
    <3>2. QED
      BY <1>2, <3>1, SumWithout
  <2>5. Sum(T, P) = Sum(tk, P)
    <3>1. \A i \in P : T[i] = tk[i]
      BY <1>3, <1>4, <1>5
    <3>2. QED
      BY <1>1, <3>1, SumSame
  <2>6. Units(t) = Sum(tk, P)
    <3>1. \A i \in P : tk[i] = f[i].qty /\ tk[i] \in Int
      BY <1>1, <1>4
    <3>2. QED
      BY <1>1, <3>1, PickUnits
  <2>7. Sum(gq, own) \in Int /\ Sum(T, own) \in Int
    <3>1. (\A i \in own : gq[i] \in Int) /\ (\A i \in own : T[i] \in Int)
      BY <1>2, <1>4, <1>5, <1>6
    <3>2. QED
      BY <1>2, <3>1, SumInt
  <2>8. QED
    BY <1>7, <2>2, <2>3, <2>4, <2>5, <2>6, <2>7 DEF OwnUnits, S, q
<1>10. \A k \in DOMAIN t : t[k].qty \in Int
  BY <1>1, <1>4 DEF Picked
<1>11. QED
  BY <1>8, <1>9, <1>10 DEF t, l

\* No share is more than what the shares before it leave.
LEMMA SharesFit ==
  ASSUME NEW t, RowSound(t), t.kind \in NeutralKinds
  PROVE  \A k \in DOMAIN OutflowPortions(t) :
           LeftBefore(t, k) + OutflowPortions(t)[k].qty <= t.qty
<1> DEFINE p == OutflowPortions(t)
           n == Len(p)
           bad == {k \in 1..n : ~ (LeftBefore(t, k) + p[k].qty <= t.qty)}
<1>1. /\ n \in Nat /\ DOMAIN p = 1..n /\ t.qty \in Int
      /\ \A k \in 1..n : /\ LeftBefore(t, k) \in Nat /\ p[k].qty \in Int /\ p[k].qty > 0
                         /\ p[k].qty = (IF k = n THEN t.qty ELSE LeftBefore(t, k + 1)) - LeftBefore(t, k)
  BY PortionsAre DEF RowSound
<1> HIDE DEF p, n
<1>2. SUFFICES ASSUME bad # {} PROVE FALSE
  BY <1>1 DEF p
<1>3. PICK m \in bad : \A k \in bad : k <= m
  <2>1. bad \subseteq 1..n
    OBVIOUS
  <2> HIDE DEF bad
  <2>2. QED
    BY <1>1, <1>2, <2>1, GreatestOf
<1>4. m \in 1..n /\ ~ (LeftBefore(t, m) + p[m].qty <= t.qty)
  BY <1>3
<1>5. m # n
  BY <1>1, <1>4
<1>6. m + 1 \in 1..n
  BY <1>1, <1>4, <1>5
<1>7. ~ (LeftBefore(t, m + 1) + p[m + 1].qty <= t.qty)
  <2>1. LeftBefore(t, m + 1) = LeftBefore(t, m) + p[m].qty
    <3>1. /\ LeftBefore(t, m) \in Nat /\ LeftBefore(t, m + 1) \in Nat
          /\ p[m].qty = LeftBefore(t, m + 1) - LeftBefore(t, m)
      BY <1>1, <1>4, <1>5, <1>6
    <3>2. QED
      BY ONLY <3>1
  <2>2. p[m + 1].qty \in Int /\ p[m + 1].qty > 0 /\ LeftBefore(t, m + 1) \in Nat
    BY <1>1, <1>6
  <2>3. ~ (LeftBefore(t, m + 1) <= t.qty) /\ t.qty \in Int
    BY <1>1, <1>4, <2>1
  <2>4. QED
    BY ONLY <2>2, <2>3
<1>8. m + 1 \in bad /\ m \in Int
  BY <1>4, <1>6, <1>7
<1>9. m + 1 <= m
  <2> HIDE DEF bad
  <2>1. QED
    BY <1>3, <1>8
<1>10. QED
  BY <1>8, <1>9

\* A sum over some places of one sequence and some of the one behind it.
LEMMA JoinSum ==
  ASSUME NEW s, NEW t, IsSeq(s), IsSeq(t),
         \A k \in DOMAIN s : s[k].qty \in Int, \A k \in DOMAIN t : t[k].qty \in Int,
         NEW S \in SUBSET DOMAIN s, NEW T \in SUBSET DOMAIN t
  PROVE  LET R == {k \in DOMAIN (s \o t) : IF k <= Len(s) THEN k \in S ELSE k - Len(s) \in T}
         IN  Sum(Qtys(s \o t), R) = Sum(Qtys(s), S) + Sum(Qtys(t), T)
<1> DEFINE u == s \o t
           n == Len(s)
           R == {k \in DOMAIN u : IF k <= n THEN k \in S ELSE k - n \in T}
           b == [k \in T |-> n + k]
           B == {b[k] : k \in T}
           f == Qtys(u)
           a == Qtys(s)
           c == Qtys(t)
<1>1. /\ n \in Nat /\ DOMAIN s = 1..n /\ Len(t) \in Nat /\ DOMAIN t = 1..Len(t)
      /\ IsFiniteSet(DOMAIN s) /\ IsFiniteSet(DOMAIN t)
  BY SeqIs
<1>2. /\ IsSeq(u) /\ Len(u) = n + Len(t)
      /\ \A k \in 1..n : u[k] = s[k]
      /\ \A k \in 1..Len(t) : u[n + k] = t[k]
  BY JoinSeqs
<1> HIDE DEF u, n
<1>3. DOMAIN u = 1..(n + Len(t)) /\ IsFiniteSet(DOMAIN u)
  BY <1>2, SeqIs
<1>4. \A k \in S : k \in 1..n /\ k \in DOMAIN u /\ k <= n
  BY <1>1, <1>3
<1>5. \A k \in T : k \in 1..Len(t) /\ n + k \in DOMAIN u /\ ~ (n + k <= n) /\ (n + k) - n = k
  BY <1>1, <1>3
<1>6. /\ \A k \in S : f[k] = a[k] /\ a[k] \in Int
      /\ \A k \in T : f[b[k]] = c[k] /\ c[k] \in Int
  <2>1. \A k \in S : f[k] = u[k].qty /\ a[k] = s[k].qty
    BY <1>4 DEF Qtys
  <2>2. \A k \in T : f[n + k] = u[n + k].qty /\ c[k] = t[k].qty
    BY <1>5 DEF Qtys
  <2>3. QED
    BY <1>2, <1>4, <1>5, <2>1, <2>2
<1>7. R \subseteq S \cup B /\ S \cup B \subseteq R /\ R \ S = B
  <2>1. \A k \in R : k \in S \/ k \in B
    <3> TAKE k \in R
    <3>1. CASE k <= n
      BY <3>1
    <3>2. CASE ~ (k <= n)
      <4>1. k - n \in T /\ k \in Int
        BY <1>3, <3>2
      <4>2. b[k - n] = k
        BY <1>1, <4>1
      <4>3. QED
        BY <4>1, <4>2
    <3>3. QED
      BY <3>1, <3>2
  <2>2. \A k \in B : k \in R /\ k \notin S
    <3> TAKE k \in B
    <3>1. PICK x \in T : k = n + x
      OBVIOUS
    <3>2. k \in DOMAIN u /\ ~ (k <= n) /\ k - n \in T
      BY <1>5, <3>1
    <3>3. QED
      BY <1>4, <3>2
  <2>3. \A k \in S : k \in R
    BY <1>4
  <2> HIDE DEF R, B
  <2>4. QED
    BY <2>1, <2>2, <2>3
<1>8. IsFiniteSet(R) /\ IsFiniteSet(S) /\ IsFiniteSet(T)
  BY <1>1, <1>3, FS_Subset
<1>9. \A k \in R : f[k] \in Int
  <2>1. \A k \in B : \E x \in T : k = b[x]
    OBVIOUS
  <2> HIDE DEF R, B, b, f, a, c
  <2>2. QED
    BY <1>6, <1>7, <2>1
<1>10. Sum(f, R) = Sum(f, S) + Sum(f, B)
  <2> HIDE DEF R, B, f
  <2>1. Sum(f, R) = Sum(f, S) + Sum(f, R \ S)
    BY <1>7, <1>8, <1>9, SumParts
  <2>2. QED
    BY <1>7, <2>1
<1>11. Sum(f, S) = Sum(a, S)
  <2> HIDE DEF f, a
  <2>1. QED
    BY <1>6, <1>8, SumSame
<1>12. Sum(f, B) = Sum(c, T)
  <2>1. \A x, y \in T : b[x] = b[y] => x = y
    BY <1>1, <1>5
  <2> HIDE DEF f, c, b
  <2>2. QED
    BY <1>6, <1>8, <2>1, SumNamed
<1>13. QED
  BY <1>10, <1>11, <1>12 DEF u, n

\* Lots behind lots: the units of a holding, and of all.
LEMMA JoinUnits ==
  ASSUME NEW s, NEW t, IsSeq(s), IsSeq(t),
         \A k \in DOMAIN s : s[k].qty \in Int, \A k \in DOMAIN t : t[k].qty \in Int
  PROVE  /\ \A h : OwnUnits(s \o t, h) = OwnUnits(s, h) + OwnUnits(t, h)
         /\ Units(s \o t) = Units(s) + Units(t)
         /\ \A k \in DOMAIN (s \o t) : (s \o t)[k].qty \in Int
<1> DEFINE u == s \o t
           n == Len(s)
           R(S, T) == {k \in DOMAIN u : IF k <= n THEN k \in S ELSE k - n \in T}
<1>1. /\ n \in Nat /\ DOMAIN s = 1..n /\ Len(t) \in Nat /\ DOMAIN t = 1..Len(t)
  BY SeqIs
<1>2. /\ IsSeq(u) /\ Len(u) = n + Len(t)
      /\ \A k \in 1..n : u[k] = s[k]
      /\ \A k \in DOMAIN u : k > n => k - n \in DOMAIN t /\ u[k] = t[k - n]
  BY JoinSeqs
<1>3. \A S \in SUBSET DOMAIN s, T \in SUBSET DOMAIN t :
        Sum(Qtys(u), R(S, T)) = Sum(Qtys(s), S) + Sum(Qtys(t), T)
  BY JoinSum
<1> HIDE DEF u, n
<1>4. DOMAIN u = 1..(n + Len(t))
  BY <1>2, SeqIs
<1>5. \A k \in DOMAIN u : IF k <= n THEN k \in DOMAIN s /\ u[k] = s[k]
                          ELSE k - n \in DOMAIN t /\ u[k] = t[k - n]
  <2> TAKE k \in DOMAIN u
  <2>1. k \in Int /\ k >= 1
    BY <1>1, <1>4
  <2>2. QED
    BY <1>1, <1>2, <2>1
<1>6. ASSUME NEW h PROVE OwnUnits(u, h) = OwnUnits(s, h) + OwnUnits(t, h)
  <2>1. Owned(s, h) \in SUBSET DOMAIN s /\ Owned(t, h) \in SUBSET DOMAIN t
    BY DEF Owned
  <2>2. R(Owned(s, h), Owned(t, h)) = Owned(u, h)
    BY <1>5 DEF Owned
  <2> HIDE DEF R
  <2>3. QED
    BY <1>3, <2>1, <2>2 DEF OwnUnits
<1>7. Units(u) = Units(s) + Units(t)
  <2>1. R(DOMAIN s, DOMAIN t) = DOMAIN u
    BY <1>5
  <2> HIDE DEF R
  <2>2. QED
    BY <1>2, <1>3, <2>1, UnitsAre
<1>8. \A k \in DOMAIN u : u[k].qty \in Int
  BY <1>5
<1>9. QED
  BY <1>6, <1>7, <1>8 DEF u

\* The units of lots that are all of one holding.
LEMMA OneOwner ==
  ASSUME NEW s, IsSeq(s), \A k \in DOMAIN s : s[k].qty \in Int,
         NEW h, \A k \in DOMAIN s : s[k].h = h
  PROVE  \A e : OwnUnits(s, e) = IF e = h THEN Units(s) ELSE 0
<1> TAKE e
<1>1. CASE e = h
  <2>1. Owned(s, e) = DOMAIN s
    BY <1>1 DEF Owned
  <2>2. QED
    BY <1>1, <2>1, UnitsAre DEF OwnUnits
<1>2. CASE e # h
  <2>1. Owned(s, e) = {}
    BY <1>2 DEF Owned
  <2>2. QED
    BY <1>2, <2>1, SumEmpty DEF OwnUnits
<1>3. QED
  BY <1>1, <1>2

\* Rounding gives whole units.
LEMMA RoundedInt ==
  ASSUME NEW a \in Int, NEW b \in Int, b > 0
  PROVE  Rounded(a, b) \in Int
<1> DEFINE x == 2 * a + b
           y == 2 * b
<1>1. x \in Int /\ y \in Int /\ y > 0
  OBVIOUS
<1> HIDE DEF x, y
<1>2. x \div y \in Int
  BY <1>1
<1>3. QED
  BY <1>2 DEF Rounded, x, y

\* What a lot's units are of n when all are u.
PartOf(ls, n, u) == [i \in DOMAIN ls |-> Rounded(ls[i].qty * n, u)]

\* The sum of such parts.
LEMMA PartSum ==
  ASSUME NEW ls, NEW n, NEW u, NEW S, IsFiniteSet(S), S \subseteq DOMAIN ls
  PROVE  MapThenSumSet(LAMBDA i : Rounded(ls[i].qty * n, u), S) = Sum(PartOf(ls, n, u), S)
<1> DEFINE e == PartOf(ls, n, u)
           Adds0(i) == i = [s \in SUBSET S |-> IF s = {} THEN 0
                              ELSE Rounded(ls[AnyOf(s)].qty * n, u) + i[s \ {AnyOf(s)}]]
           it == CHOOSE i : Adds0(i)
<1>1. PICK g : Sums(g, e, S)
  BY SumsExist
<1>2. \A i : Adds0(i) <=> Sums(i, e, S)
  <2>1. \A s \in SUBSET S : s # {} => Rounded(ls[AnyOf(s)].qty * n, u) = e[AnyOf(s)]
    <3> TAKE s \in SUBSET S
    <3>1. s # {} => AnyOf(s) \in DOMAIN ls
      BY AnyIs
    <3>2. QED
      BY <3>1 DEF PartOf
  <2> HIDE DEF e
  <2>2. QED
    BY <2>1 DEF Sums
<1>3. Adds0(it)
  <2> HIDE DEF e, Adds0
  <2>1. Adds0(g)
    BY <1>1, <1>2
  <2>2. QED
    BY <2>1
<1>4. MapThenSumSet(LAMBDA i : Rounded(ls[i].qty * n, u), S) = it[S]
  BY DEF MapThenSumSet, MapThenFoldSet, AnyOf
<1> HIDE DEF it, e, Adds0
<1>5. it[S] = Sum(e, S)
  <2>1. Sums(it, e, S)
    BY <1>2, <1>3
  <2>2. QED
    BY <2>1, SumIs
<1>6. QED
  BY <1>4, <1>5 DEF e

\* ShareOf by name: the lot that takes the rest, and each one's units and cost.
Largest(ls) ==
  CHOOSE i \in DOMAIN ls : \A j \in DOMAIN ls :
    \/ ls[j].qty < ls[i].qty
    \/ ls[j].qty = ls[i].qty /\ i <= j
ShareQty(ls, n, i) ==
  IF i = Largest(ls)
  THEN n - MapThenSumSet(LAMBDA j : Rounded(ls[j].qty * n, Units(ls)), DOMAIN ls \ {Largest(ls)})
  ELSE Rounded(ls[i].qty * n, Units(ls))
ShareCost(ls, n, i) ==
  IF ls[i].qty = 0 THEN 0 ELSE Rounded(ls[i].cost * ShareQty(ls, n, i), ls[i].qty)

\* ShareOf and Rehome, with a name for what each lot gives.
LEMMA ShareNamed ==
  ASSUME NEW ls, NEW n, NEW h
  PROVE  ShareOf(ls, n, h) =
           [taken |-> [i \in DOMAIN ls |->
                         CutMove(ls[i], ShareQty(ls, n, i), ShareCost(ls, n, i), h)],
            left  |-> [i \in DOMAIN ls |->
                         Less(ls[i], ShareQty(ls, n, i), ShareCost(ls, n, i))]]
BY DEF ShareOf, ShareQty, ShareCost, Largest, CutMove, Less

\* Rehome by name.
HomeQty(ls, n, i) ==
  IF Units(ls) <= 0 THEN ls[i].qty
  ELSE IF i = Len(ls)
       THEN n - MapThenSumSet(LAMBDA j : Rounded(ls[j].qty * n, Units(ls)), 1..(i - 1))
       ELSE Rounded(ls[i].qty * n, Units(ls))

\* What Rehome leaves of each lot.
LEMMA HomeNamed ==
  ASSUME NEW ls, NEW n, NEW h
  PROVE  Rehome(ls, n, h) = [i \in DOMAIN ls |-> Move(ls[i], HomeQty(ls, n, i), h)]
BY DEF Rehome, HomeQty, Move

\* The first of the largest lots.
LEMMA LargestIs ==
  ASSUME NEW ls, IsLots(ls), \A k \in DOMAIN ls : ls[k].qty \in Int, DOMAIN ls # {}
  PROVE  Largest(ls) \in DOMAIN ls
<1> DEFINE D == DOMAIN ls
           R == [i \in D |-> {j \in D : \/ ls[i].qty < ls[j].qty
                                        \/ ls[i].qty = ls[j].qty /\ j < i}]
<1>1. IsFiniteSet(D) /\ D \subseteq Int
  <2>1. IsSeq(ls)
    BY DEF IsLots, IsSeq
  <2>2. QED
    BY <2>1, SeqIs
<1>2. Orders(R, D)
  <2>1. \A i \in D : R[i] \subseteq D /\ i \notin R[i]
    BY <1>1
  <2>2. \A i, j \in D : i = j \/ i \in R[j] \/ j \in R[i]
    BY <1>1
  <2>3. \A i, j \in D : i \in R[j] => R[i] \subseteq R[j]
    BY <1>1
  <2> HIDE DEF R, D
  <2>4. QED
    BY <2>1, <2>2, <2>3 DEF Orders
<1>3. PICK m \in D : \A j \in D : j # m => m \in R[j]
  <2> HIDE DEF R
  <2>1. QED
    BY <1>1, <1>2, Ends
<1>4. \A j \in D : \/ ls[j].qty < ls[m].qty
                   \/ ls[j].qty = ls[m].qty /\ m <= j
  BY <1>1, <1>3
<1>5. QED
  BY <1>4 DEF Largest

\* Amounts that are parts by rounding, and in one place what that leaves of n.
LEMMA RestAddsUp ==
  ASSUME NEW D, IsFiniteSet(D), NEW x \in D, NEW n \in Int,
         NEW e, \A i \in D : e[i] \in Int,
         NEW q, \A i \in D : q[i] = IF i = x THEN n - Sum(e, D \ {x}) ELSE e[i]
  PROVE  Sum(q, D) = n /\ \A i \in D : q[i] \in Int
<1>1. IsFiniteSet(D \ {x}) /\ \A i \in D \ {x} : e[i] \in Int /\ q[i] = e[i]
  BY FS_RemoveElement
<1>2. Sum(e, D \ {x}) \in Int
  BY <1>1, SumInt
<1>3. Sum(q, D \ {x}) = Sum(e, D \ {x})
  BY <1>1, SumSame
<1>4. \A i \in D : q[i] \in Int
  BY <1>2
<1>5. Sum(q, D) = q[x] + Sum(q, D \ {x})
  BY <1>4, SumLess
<1>6. q[x] = n - Sum(e, D \ {x}) /\ n \in Int
  OBVIOUS
<1>7. QED
  <2>1. Sum(q, D) = n
    BY ONLY <1>2, <1>3, <1>5, <1>6
  <2>2. QED
    BY <1>4, <2>1

\* Of lots that have units every part is of whole units.
LEMMA PartsInt ==
  ASSUME NEW ls, IsLots(ls), \A k \in DOMAIN ls : ls[k].qty \in Int, Units(ls) > 0, NEW n \in Int
  PROVE  /\ Units(ls) \in Int /\ DOMAIN ls # {} /\ IsFiniteSet(DOMAIN ls) /\ IsSeq(ls)
         /\ \A i \in DOMAIN ls : /\ PartOf(ls, n, Units(ls))[i] \in Int
                                 /\ PartOf(ls, n, Units(ls))[i] = Rounded(ls[i].qty * n, Units(ls))
<1>1. IsSeq(ls)
  BY DEF IsLots, IsSeq
<1>2. IsFiniteSet(DOMAIN ls) /\ Units(ls) = Sum(Qtys(ls), DOMAIN ls)
  BY <1>1, SeqIs, UnitsAre
<1>3. Units(ls) \in Int
  <2>1. \A i \in DOMAIN ls : Qtys(ls)[i] \in Int
    BY DEF Qtys
  <2>2. QED
    BY <1>2, <2>1, SumInt
<1>4. DOMAIN ls # {}
  BY <1>2, SumEmpty
<1>5. \A i \in DOMAIN ls : PartOf(ls, n, Units(ls))[i] = Rounded(ls[i].qty * n, Units(ls))
  BY DEF PartOf
<1>6. \A i \in DOMAIN ls : Rounded(ls[i].qty * n, Units(ls)) \in Int
  <2> TAKE i \in DOMAIN ls
  <2>1. ls[i].qty * n \in Int
    OBVIOUS
  <2>2. QED
    BY <1>3, <2>1, RoundedInt
<1>7. QED
  BY <1>1, <1>2, <1>3, <1>4, <1>5, <1>6

\* Whatever rounding does to the lots, what arrives is what the arrival says,
\* and the rest waits.
LEMMA ShareUnits ==
  ASSUME NEW ls, IsLots(ls), \A k \in DOMAIN ls : ls[k].qty \in Int, Units(ls) > 0,
         NEW n \in Int, NEW h
  PROVE  LET s == ShareOf(ls, n, h)
         IN  /\ Units(s.taken) = n /\ Units(s.left) = Units(ls) - n
             /\ \A k \in DOMAIN s.taken : s.taken[k].qty \in Int /\ s.taken[k].h = h
             /\ \A k \in DOMAIN s.left : s.left[k].qty \in Int
<1> DEFINE D == DOMAIN ls
           u == Units(ls)
           x == Largest(ls)
           e == PartOf(ls, n, u)
           q == [i \in D |-> ShareQty(ls, n, i)]
           t == ShareOf(ls, n, h).taken
           l == ShareOf(ls, n, h).left
           r == [i \in D |-> ls[i].qty - q[i]]
<1>1. /\ u \in Int /\ IsFiniteSet(D) /\ D # {} /\ IsSeq(ls)
      /\ \A i \in D : e[i] \in Int /\ e[i] = Rounded(ls[i].qty * n, u)
  BY PartsInt
<1>2. x \in D
  BY <1>1, LargestIs
<1>3. \A i \in D : q[i] = IF i = x THEN n - Sum(e, D \ {x}) ELSE e[i]
  <2>1. IsFiniteSet(D \ {x})
    BY <1>1, FS_RemoveElement
  <2>2. MapThenSumSet(LAMBDA j : Rounded(ls[j].qty * n, Units(ls)), D \ {x}) = Sum(e, D \ {x})
    BY <2>1, PartSum
  <2>3. QED
    BY <1>1, <2>2 DEF ShareQty
<1>4. Sum(q, D) = n /\ \A i \in D : q[i] \in Int
  <2> HIDE DEF q, e, x, D
  <2>1. QED
    BY <1>1, <1>2, <1>3, RestAddsUp
<1>5. /\ t = [i \in D |-> CutMove(ls[i], ShareQty(ls, n, i), ShareCost(ls, n, i), h)]
      /\ l = [i \in D |-> Less(ls[i], ShareQty(ls, n, i), ShareCost(ls, n, i))]
  BY ShareNamed
<1>6. \A i \in D : /\ t[i].qty = q[i] /\ t[i].h = h
                   /\ l[i].qty = ls[i].qty - q[i]
  <2> TAKE i \in D
  <2>1. IsLot(ls[i]) /\ ls[i].date \in Int
    BY DEF IsLots, IsLot
  <2>2. \A a, b : /\ CutMove(ls[i], a, b, h) = LotOf(a, b, ls[i].date, h)
                  /\ Less(ls[i], a, b) = LotOf(ls[i].qty - a, ls[i].cost - b, ls[i].date, ls[i].h)
    BY <2>1, LotChanges
  <2>3. \A a, b : /\ CutMove(ls[i], a, b, h).qty = a /\ CutMove(ls[i], a, b, h).h = h
                  /\ Less(ls[i], a, b).qty = ls[i].qty - a
    BY <2>2 DEF LotOf
  <2>4. QED
    BY <1>5, <2>3
<1>7. DOMAIN t = D /\ DOMAIN l = D /\ t = [i \in D |-> t[i]] /\ l = [i \in D |-> l[i]]
  BY <1>5
<1> HIDE DEF t, l, q, e, x
<1>8. IsSeq(t) /\ IsSeq(l)
  BY <1>1, <1>7, SeqEach
<1>9. Units(t) = n
  <2>1. Units(t) = Sum(Qtys(t), D)
    BY <1>7, <1>8, UnitsAre
  <2>2. \A i \in D : Qtys(t)[i] = q[i]
    BY <1>6, <1>7 DEF Qtys
  <2>3. QED
    BY <1>1, <1>4, <2>1, <2>2, SumSame
<1>10. Units(l) = u - n
  <2>1. Units(l) = Sum(Qtys(l), D) /\ u = Sum(Qtys(ls), D)
    BY <1>1, <1>7, <1>8, UnitsAre
  <2>2. \A i \in D : /\ Qtys(l)[i] \in Int /\ q[i] \in Int
                     /\ Qtys(ls)[i] = Qtys(l)[i] + q[i]
    BY <1>4, <1>6, <1>7 DEF Qtys
  <2>3. Sum(Qtys(ls), D) = Sum(Qtys(l), D) + Sum(q, D)
    BY <1>1, <2>2, SumPlus
  <2>4. Sum(Qtys(l), D) \in Int
    BY <1>1, <2>2, SumInt
  <2> HIDE DEF u
  <2>5. QED
    BY <1>4, <2>1, <2>3, <2>4
<1>11. QED
  BY <1>4, <1>6, <1>7, <1>9, <1>10 DEF t, l

\* The last arrival brings what it says, however much left.
LEMMA HomeUnits ==
  ASSUME NEW ls, IsLots(ls), \A k \in DOMAIN ls : ls[k].qty \in Int, Units(ls) > 0,
         NEW n \in Int, NEW h
  PROVE  LET s == Rehome(ls, n, h)
         IN  Units(s) = n /\ \A k \in DOMAIN s : s[k].qty \in Int /\ s[k].h = h
<1> DEFINE D == DOMAIN ls
           u == Units(ls)
           x == Len(ls)
           e == PartOf(ls, n, u)
           q == [i \in D |-> HomeQty(ls, n, i)]
           t == Rehome(ls, n, h)
<1>1. /\ u \in Int /\ IsFiniteSet(D) /\ D # {} /\ IsSeq(ls)
      /\ \A i \in D : e[i] \in Int /\ e[i] = Rounded(ls[i].qty * n, u)
  BY PartsInt
<1>2. x \in Nat /\ D = 1..x /\ x \in D
  BY <1>1, SeqIs
<1>3. \A i \in D : q[i] = IF i = x THEN n - Sum(e, D \ {x}) ELSE e[i]
  <2>1. IsFiniteSet(D \ {x}) /\ 1..(x - 1) = D \ {x} /\ D \ {x} \subseteq D
    <3>1. IsFiniteSet(D \ {x})
      <4> HIDE DEF D, x
      <4>1. QED
        BY <1>1, FS_RemoveElement
    <3>2. 1..(x - 1) = D \ {x}
      <4> HIDE DEF D, x
      <4>1. QED
        BY <1>2
    <3>3. QED
      BY <3>1, <3>2
  <2>2. MapThenSumSet(LAMBDA j : Rounded(ls[j].qty * n, Units(ls)), 1..(x - 1)) = Sum(e, D \ {x})
    BY <2>1, PartSum
  <2>3. ~ (Units(ls) <= 0)
    BY <1>1
  <2>4. QED
    BY <1>1, <2>2, <2>3 DEF HomeQty
<1>4. Sum(q, D) = n /\ \A i \in D : q[i] \in Int
  <2> HIDE DEF q, e, x, D
  <2>1. x \in D
    BY <1>2
  <2>2. QED
    BY <1>1, <1>3, <2>1, RestAddsUp
<1>5. t = [i \in D |-> Move(ls[i], HomeQty(ls, n, i), h)]
  BY HomeNamed
<1>6. \A i \in D : t[i].qty = q[i] /\ t[i].h = h
  <2> TAKE i \in D
  <2>1. IsLot(ls[i]) /\ ls[i].date \in Int
    BY DEF IsLots, IsLot
  <2>2. \A a, b : /\ Move(ls[i], a, h) = LotOf(a, ls[i].cost, ls[i].date, h)
                  /\ CutMove(ls[i], a, b, h) = LotOf(a, b, ls[i].date, h)
    BY <2>1, LotChanges
  <2>3. \A a : Move(ls[i], a, h).qty = a /\ Move(ls[i], a, h).h = h
    BY <2>2 DEF LotOf
  <2>4. QED
    BY <1>5, <2>3
<1>7. DOMAIN t = D /\ t = [i \in D |-> t[i]]
  BY <1>5
<1> HIDE DEF t, q, e, x
<1>8. IsSeq(t)
  BY <1>1, <1>7, SeqEach
<1>9. Units(t) = n
  <2>1. Units(t) = Sum(Qtys(t), D)
    BY <1>7, <1>8, UnitsAre
  <2>2. \A i \in D : Qtys(t)[i] = q[i]
    BY <1>6, <1>7 DEF Qtys
  <2>3. QED
    BY <1>1, <1>4, <2>1, <2>2, SumSame
<1>10. QED
  BY <1>4, <1>6, <1>7, <1>9 DEF t

-----------------------------------------------------------------------------
(* The balances of the holdings.                                            *)

\* What the rows of s do to a holding, and its balance after n of them.
Changes(s, h) == [i \in DOMAIN s |-> IF s[i].h = h THEN Signed(s[i]) ELSE 0]
BalanceAt(s, h, n) == Sum(Changes(s, h), 1..n)

RowsSound(s) == IsSeq(s) /\ \A i \in DOMAIN s : RowSound(s[i])

\* Row by row.
LEMMA BalanceGrows ==
  ASSUME NEW s, RowsSound(s), NEW h
  PROVE  /\ BalanceAt(s, h, 0) = 0
         /\ \A n \in DOMAIN s : /\ n \in Nat /\ n - 1 \in Nat /\ n <= Len(s)
                                /\ BalanceAt(s, h, n) \in Int /\ BalanceAt(s, h, n - 1) \in Int
                                /\ BalanceAt(s, h, n) = BalanceAt(s, h, n - 1)
                                     + (IF s[n].h = h THEN Signed(s[n]) ELSE 0)
<1> DEFINE f == Changes(s, h)
<1>1. Len(s) \in Nat /\ DOMAIN s = 1..Len(s) /\ IsFiniteSet(DOMAIN s)
  BY SeqIs DEF RowsSound
<1>2. \A i \in DOMAIN s : /\ f[i] \in Int
                          /\ f[i] = IF s[i].h = h THEN Signed(s[i]) ELSE 0
  <2> TAKE i \in DOMAIN s
  <2>1. s[i].qty \in Int
    BY DEF RowsSound, RowSound
  <2>2. Signed(s[i]) \in Int
    BY <2>1 DEF Signed
  <2>3. QED
    BY <2>2 DEF Changes
<1> HIDE DEF f
<1>3. Sum(f, 1..0) = 0
  <2>1. 1..0 = {}
    OBVIOUS
  <2>2. QED
    BY <2>1, SumEmpty
<1>4. ASSUME NEW n \in DOMAIN s
      PROVE  /\ n \in Nat /\ n - 1 \in Nat /\ n <= Len(s)
             /\ Sum(f, 1..n) \in Int /\ Sum(f, 1..(n - 1)) \in Int
             /\ Sum(f, 1..n) = Sum(f, 1..(n - 1)) + f[n]
  <2>1. n \in Nat /\ n - 1 \in Nat /\ n <= Len(s)
    BY <1>1
  <2>2. 1..(n - 1) \cup {n} = 1..n /\ n \notin 1..(n - 1)
    BY <2>1
  <2>3. 1..(n - 1) \subseteq DOMAIN s /\ 1..n \subseteq DOMAIN s
    BY <1>1, <2>1
  <2>4. IsFiniteSet(1..(n - 1)) /\ IsFiniteSet(1..n)
    BY <1>1, <2>3, FS_Subset
  <2>5. (\A y \in 1..(n - 1) \cup {n} : f[y] \in Int) /\ f[n] \in Int
        /\ \A y \in 1..(n - 1) : f[y] \in Int
    BY <1>2, <2>2, <2>3
  <2>6. Sum(f, 1..(n - 1) \cup {n}) = f[n] + Sum(f, 1..(n - 1))
    BY <2>2, <2>4, <2>5, SumMore
  <2>7. Sum(f, 1..(n - 1)) \in Int
    BY <2>4, <2>5, SumInt
  <2>8. Sum(f, 1..n) = f[n] + Sum(f, 1..(n - 1))
    BY <2>2, <2>6
  <2>9. f[n] \in Int
    BY <2>5
  <2>10. Sum(f, 1..n) \in Int /\ Sum(f, 1..n) = Sum(f, 1..(n - 1)) + f[n]
    BY ONLY <2>7, <2>8, <2>9
  <2>11. QED
    BY <2>1, <2>7, <2>10
<1>5. QED
  BY <1>2, <1>3, <1>4 DEF BalanceAt, f

\* Balance is that sum.
LEMMA BalanceIs ==
  ASSUME RowsSound(rows), NEW h, NEW n \in 0..Len(rows)
  PROVE  Balance(h, n) = BalanceAt(rows, h, n)
<1> DEFINE S == 1..n
           e == Changes(rows, h)
           F(i) == IF rows[i].h = h THEN Signed(rows[i]) ELSE 0
           Adds0(i) == i = [s \in SUBSET S |-> IF s = {} THEN 0
                              ELSE F(AnyOf(s)) + i[s \ {AnyOf(s)}]]
           it == CHOOSE i : Adds0(i)
<1>0. IsFiniteSet(S) /\ S \subseteq DOMAIN rows
  <2>1. Len(rows) \in Nat /\ DOMAIN rows = 1..Len(rows) /\ IsFiniteSet(DOMAIN rows)
    BY SeqIs DEF RowsSound
  <2>2. S \subseteq DOMAIN rows
    BY <2>1
  <2>3. QED
    BY <2>1, <2>2, FS_Subset
<1> HIDE DEF S
<1>1. PICK g : Sums(g, e, S)
  BY <1>0, SumsExist
<1>2. \A i : Adds0(i) <=> Sums(i, e, S)
  <2>1. \A s \in SUBSET S : s # {} => F(AnyOf(s)) = e[AnyOf(s)]
    <3> TAKE s \in SUBSET S
    <3>1. s # {} => AnyOf(s) \in DOMAIN rows
      BY <1>0, AnyIs
    <3>2. QED
      BY <3>1 DEF Changes
  <2> HIDE DEF e, F
  <2>2. QED
    BY <2>1 DEF Sums
<1>3. Adds0(it)
  <2> HIDE DEF e, Adds0
  <2>1. Adds0(g)
    BY <1>1, <1>2
  <2>2. QED
    BY <2>1
<1>4. Balance(h, n) = it[S]
  BY DEF Balance, MapThenSumSet, MapThenFoldSet, AnyOf, S
<1> HIDE DEF it, e, Adds0
<1>5. it[S] = Sum(e, S)
  <2>1. Sums(it, e, S)
    BY <1>2, <1>3
  <2>2. QED
    BY <1>0, <2>1, SumIs
<1>6. QED
  BY <1>4, <1>5 DEF e, S, BalanceAt

\* What an arrival closes where nothing is short: nothing.
ShortTake(open, qty, i) ==
  Max({0, Min({open[i].qty, qty - MapThenSumSet(LAMBDA j : open[j].qty, 1..(i - 1))})})

\* Where no short is open an arrival closes none.
LEMMA ClosesNothing ==
  ASSUME NEW qty \in Int, NEW cost
  PROVE  CloseShorts(<<>>, qty, cost).qty = qty /\ CloseShorts(<<>>, qty, cost).open = <<>>
<1> DEFINE F(i) == ShortTake(<<>>, qty, i)
           Adds0(i) == i = [s \in SUBSET {} |-> IF s = {} THEN 0
                              ELSE F(AnyOf(s)) + i[s \ {AnyOf(s)}]]
           it == CHOOSE i : Adds0(i)
           c == CloseShorts(<<>>, qty, cost)
<1>1. DOMAIN <<>> = {}
  BY SeqNone
<1>2. c.qty = qty - MapThenSumSet(LAMBDA i : ShortTake(<<>>, qty, i), DOMAIN <<>>)
  BY DEF CloseShorts, ShortTake, SumOver
<1>3. MapThenSumSet(LAMBDA i : ShortTake(<<>>, qty, i), {}) = it[{}]
  BY DEF MapThenSumSet, MapThenFoldSet, AnyOf
<1>4. Adds0(it)
  <2> HIDE DEF F
  <2>1. Adds0([s \in SUBSET {} |-> 0])
    OBVIOUS
  <2> HIDE DEF Adds0
  <2>2. QED
    BY <2>1
<1>5. it[{}] = 0
  <2> HIDE DEF F, it
  <2>1. QED
    BY <1>4
<1>6. c.qty = qty
  BY <1>1, <1>2, <1>3, <1>5
<1> DEFINE rest == [i \in DOMAIN <<>> |->
                      [qty |-> <<>>[i].qty - ShortTake(<<>>, qty, i),
                       value |-> <<>>[i].value - Rounded(<<>>[i].value * ShortTake(<<>>, qty, i),
                                                         <<>>[i].qty)]]
<1>7. c.open = LowerPick(rest, {i \in DOMAIN rest : rest[i].qty > 0})
  BY DEF CloseShorts, ShortTake, Pick, LowerPick
<1>8. c.open = <<>>
  <2>1. DOMAIN rest = {}
    BY <1>1
  <2>2. {i \in DOMAIN rest : rest[i].qty > 0} = {}
    BY <2>1
  <2> HIDE DEF c, rest
  <2>3. QED
    BY <1>7, <2>2, PickNone
<1>9. QED
  BY <1>6, <1>8

\* A ledger that overdraws no holding and corrects none.
Lawful(s) == \A h \in Holdings, n \in DOMAIN s : BalanceAt(s, h, n) >= 0 /\ s[n].kind \notin BesideLots

\* What waits for an arrival has units.
Waits(pe) ==
  \A g \in Groups : pe[g] # None => /\ Units(pe[g]) > 0
                                    /\ \A k \in DOMAIN pe[g] : pe[g][k].qty \in Int

\* What the shares before the k-th one of row p took from the holding.
SoFar(s, p, k, h) ==
  IF p \in DOMAIN s /\ s[p].kind \in NeutralKinds /\ s[p].h = h THEN LeftBefore(s[p], k) ELSE 0

\* The walk at share k of row p: the lots are the balance.
AgreedAt(s, p, k, ls, sh, pe) ==
  /\ p \in 1..(Len(s) + 1)
  /\ sh = [h \in Holdings |-> <<>>]
  /\ Waits(pe)
  /\ \A h \in Holdings : OwnUnits(ls, h) = BalanceAt(s, h, p - 1) - SoFar(s, p, k, h)

\* At the first share of a row nothing of it is gone.
LEMMA NothingYet ==
  ASSUME NEW s, RowsSound(s), NEW p, NEW h
  PROVE  SoFar(s, p, 1, h) = 0
<1> SUFFICES ASSUME p \in DOMAIN s, s[p].kind \in NeutralKinds PROVE LeftBefore(s[p], 1) = 0
  BY DEF SoFar
<1>1. RowSound(s[p])
  BY DEF RowsSound
<1>2. QED
  BY <1>1, PortionsAre

\* A row that changes its holding's lots by what it says.
LEMMA RowAgrees ==
  ASSUME NEW s, RowsSound(s), NEW p \in DOMAIN s, s[p].kind \notin NeutralKinds,
         NEW k, NEW ls, NEW sh, NEW pe, AgreedAt(s, p, k, ls, sh, pe),
         NEW new, NEW wait, Waits(wait),
         \A h \in Holdings : OwnUnits(new, h) = OwnUnits(ls, h)
                               + (IF s[p].h = h THEN Signed(s[p]) ELSE 0)
  PROVE  AgreedAt(s, p + 1, 1, new, sh, wait)
<1>1. Len(s) \in Nat /\ DOMAIN s = 1..Len(s)
  BY SeqIs DEF RowsSound
<1>2. p + 1 \in 1..(Len(s) + 1) /\ (p + 1) - 1 = p
  BY <1>1
<1>3. ASSUME NEW h \in Holdings
      PROVE  OwnUnits(new, h) = BalanceAt(s, h, p) - SoFar(s, p + 1, 1, h)
  <2>1. SoFar(s, p, k, h) = 0 /\ SoFar(s, p + 1, 1, h) = 0
    BY NothingYet DEF SoFar
  <2>2. /\ BalanceAt(s, h, p) \in Int /\ BalanceAt(s, h, p - 1) \in Int
        /\ BalanceAt(s, h, p) = BalanceAt(s, h, p - 1) + (IF s[p].h = h THEN Signed(s[p]) ELSE 0)
    BY BalanceGrows
  <2>3. OwnUnits(ls, h) = BalanceAt(s, h, p - 1)
    BY <2>1, <2>2 DEF AgreedAt
  <2>4. OwnUnits(new, h) = BalanceAt(s, h, p)
    BY <2>2, <2>3
  <2>5. QED
    BY <2>1, <2>2, <2>4
<1>4. QED
  BY <1>2, <1>3 DEF AgreedAt

\* A share of an outflow that takes what it says.
LEMMA ShareAgrees ==
  ASSUME NEW s, RowsSound(s), NEW p \in DOMAIN s, s[p].kind \in NeutralKinds,
         NEW k \in DOMAIN OutflowPortions(s[p]),
         NEW ls, NEW sh, NEW pe, AgreedAt(s, p, k, ls, sh, pe),
         NEW new, NEW wait, Waits(wait),
         \A h \in Holdings : OwnUnits(new, h) = OwnUnits(ls, h)
                               - (IF s[p].h = h THEN OutflowPortions(s[p])[k].qty ELSE 0),
         NEW p2, NEW k2,
         IF k = Len(OutflowPortions(s[p])) THEN p2 = p + 1 /\ k2 = 1 ELSE p2 = p /\ k2 = k + 1
  PROVE  AgreedAt(s, p2, k2, new, sh, wait)
<1> DEFINE t == s[p]
           n == Len(OutflowPortions(t))
           q == OutflowPortions(t)[k].qty
<1>1. Len(s) \in Nat /\ DOMAIN s = 1..Len(s)
  BY SeqIs DEF RowsSound
<1>2. p + 1 \in 1..(Len(s) + 1) /\ (p + 1) - 1 = p /\ p \in 1..(Len(s) + 1)
  BY <1>1
<1>3. RowSound(t) /\ t.qty \in Int
  BY DEF RowsSound, RowSound
<1>4. /\ n \in Nat /\ k \in 1..n
      /\ \A j \in 1..n : LeftBefore(t, j) \in Nat
      /\ q \in Int /\ q = (IF k = n THEN t.qty ELSE LeftBefore(t, k + 1)) - LeftBefore(t, k)
  BY <1>3, PortionsAre
<1>5. Signed(t) = - t.qty
  BY DEF Signed, AcquireKinds
<1>6. ASSUME NEW h \in Holdings
      PROVE  OwnUnits(new, h) = BalanceAt(s, h, p2 - 1) - SoFar(s, p2, k2, h)
  <2>1. /\ BalanceAt(s, h, p) \in Int /\ BalanceAt(s, h, p - 1) \in Int
        /\ BalanceAt(s, h, p) = BalanceAt(s, h, p - 1) + (IF t.h = h THEN Signed(t) ELSE 0)
    BY BalanceGrows
  <2>2. OwnUnits(ls, h) = BalanceAt(s, h, p - 1) - (IF t.h = h THEN LeftBefore(t, k) ELSE 0)
    BY DEF AgreedAt, SoFar
  <2>3. OwnUnits(new, h) = OwnUnits(ls, h) - (IF t.h = h THEN q ELSE 0)
    OBVIOUS
  <2>4. LeftBefore(t, k) \in Nat
    BY <1>4
  <2> HIDE DEF t, q, n
  <2>5. CASE k = n
    <3>1. p2 - 1 = p /\ SoFar(s, p2, k2, h) = 0
      BY <1>2, <2>5, NothingYet DEF n, t
    <3>2. q = t.qty - LeftBefore(t, k)
      BY <1>4, <2>5
    <3>3. CASE t.h = h
      <4>1. /\ OwnUnits(new, h) = OwnUnits(ls, h) - q
            /\ OwnUnits(ls, h) = BalanceAt(s, h, p - 1) - LeftBefore(t, k)
            /\ BalanceAt(s, h, p) = BalanceAt(s, h, p - 1) + (- t.qty)
        BY <1>5, <2>1, <2>2, <2>3, <3>3
      <4>2. BalanceAt(s, h, p - 1) \in Int /\ t.qty \in Int
        BY <1>3, <2>1
      <4>3. OwnUnits(new, h) = BalanceAt(s, h, p)
        BY ONLY <2>4, <3>2, <4>1, <4>2
      <4>4. BalanceAt(s, h, p) \in Int
        BY <2>1
      <4>5. QED
        BY <3>1, <4>3, <4>4
    <3>4. CASE t.h # h
      <4>1. /\ OwnUnits(new, h) = OwnUnits(ls, h) - 0
            /\ OwnUnits(ls, h) = BalanceAt(s, h, p - 1) - 0
            /\ BalanceAt(s, h, p) = BalanceAt(s, h, p - 1) + 0
        BY <2>1, <2>2, <2>3, <3>4
      <4>2. BalanceAt(s, h, p - 1) \in Int
        BY <2>1
      <4>3. OwnUnits(new, h) = BalanceAt(s, h, p) - 0
        BY ONLY <4>1, <4>2
      <4>4. QED
        BY <3>1, <4>3
    <3>5. QED
      BY <3>3, <3>4
  <2>6. CASE k # n
    <3>1. p2 = p /\ k2 = k + 1
      BY <2>6 DEF n, t
    <3>2. q = LeftBefore(t, k + 1) - LeftBefore(t, k) /\ LeftBefore(t, k + 1) \in Nat
      BY <1>4, <2>6
    <3>3. SoFar(s, p2, k2, h) = IF t.h = h THEN LeftBefore(t, k + 1) ELSE 0
      BY <3>1 DEF SoFar, t
    <3>4. CASE t.h = h
      <4>1. /\ OwnUnits(new, h) = OwnUnits(ls, h) - q
            /\ OwnUnits(ls, h) = BalanceAt(s, h, p - 1) - LeftBefore(t, k)
        BY <2>2, <2>3, <3>4
      <4>2. BalanceAt(s, h, p - 1) \in Int
        BY <2>1
      <4>3. OwnUnits(new, h) = BalanceAt(s, h, p - 1) - LeftBefore(t, k + 1)
        BY ONLY <2>4, <3>2, <4>1, <4>2
      <4>4. QED
        BY <3>1, <3>3, <3>4, <4>3
    <3>5. CASE t.h # h
      <4>1. /\ OwnUnits(new, h) = OwnUnits(ls, h) - 0
            /\ OwnUnits(ls, h) = BalanceAt(s, h, p - 1) - 0
        BY <2>2, <2>3, <3>5
      <4>2. BalanceAt(s, h, p - 1) \in Int
        BY <2>1
      <4>3. OwnUnits(new, h) = BalanceAt(s, h, p - 1) - 0
        BY ONLY <4>1, <4>2
      <4>4. QED
        BY <3>1, <3>3, <3>5, <4>3
    <3>6. QED
      BY <3>4, <3>5
  <2>7. QED
    BY <2>5, <2>6
<1>7. p2 \in 1..(Len(s) + 1)
  BY <1>2
<1>8. QED
  BY <1>6, <1>7 DEF AgreedAt

\* A draw of no more than there is takes just that, of no other holding.
LEMMA DrawsAll ==
  ASSUME NEW ls, Whole(ls), NEW h, NEW want \in Int, want > 0, want <= OwnUnits(ls, h), NEW at
  PROVE  LET d == DrawOldestFirst(ls, h, want)
         IN  /\ Units(d.taken) = want /\ IsLots(d.taken) /\ IsLots(d.left)
             /\ AtPar(h, want, d.taken, at) = d.taken
             /\ \A k \in DOMAIN d.taken : d.taken[k].qty \in Int
             /\ \A e : OwnUnits(d.left, e) = OwnUnits(ls, e) - (IF h = e THEN want ELSE 0)
<1> DEFINE d == DrawOldestFirst(ls, h, want)
<1>1. Units(d.taken) = want
  <2>1. /\ OwnUnits(ls, h) \in Nat
        /\ Units(d.taken) = IF want <= 0 THEN 0
                            ELSE IF OwnUnits(ls, h) <= want THEN OwnUnits(ls, h) ELSE want
    BY OldestGo
  <2> HIDE DEF d
  <2>2. QED
    BY <2>1
<1>2. /\ OwnUnits(d.left, h) = OwnUnits(ls, h) - Units(d.taken)
      /\ \A e : e # h => OwnUnits(d.left, e) = OwnUnits(ls, e)
      /\ \A k \in DOMAIN d.taken : d.taken[k].qty \in Int
  BY OldestLeaves
<1>3. IsLots(d.taken) /\ IsLots(d.left)
  BY OldestLots DEF Whole, DrawnFrom
<1>4. ~ (Units(d.taken) < want)
  BY <1>1
<1>5. AtPar(h, want, d.taken, at) = d.taken
  BY <1>4 DEF AtPar
<1> HIDE DEF d
<1>6. \A e : OwnUnits(ls, e) \in Int
  <2> TAKE e
  <2>1. IsFiniteSet(Owned(ls, e)) /\ \A i \in Owned(ls, e) : Qtys(ls)[i] \in Int
    BY WholeIs
  <2>2. QED
    BY <2>1, SumInt DEF OwnUnits
<1>7. \A e : OwnUnits(d.left, e) = OwnUnits(ls, e) - (IF h = e THEN want ELSE 0)
  <2> TAKE e
  <2>1. OwnUnits(ls, e) \in Int
    BY <1>6
  <2>2. CASE e = h
    BY <1>1, <1>2, <2>2
  <2>3. CASE e # h
    BY <1>2, <2>1, <2>3
  <2>4. QED
    BY <2>2, <2>3
<1>8. QED
  BY <1>1, <1>2, <1>3, <1>5, <1>7 DEF d

\* An outflow in a lawful ledger finds what it takes.
LEMMA RowFinds ==
  ASSUME NEW s, RowsSound(s), Lawful(s), NEW p \in DOMAIN s, s[p].kind \notin NeutralKinds,
         s[p].kind \notin AcquireKinds,
         NEW k, NEW ls, NEW sh, NEW pe, AgreedAt(s, p, k, ls, sh, pe)
  PROVE  /\ s[p].h \in Holdings /\ s[p].qty \in Int /\ s[p].qty > 0
         /\ s[p].qty <= OwnUnits(ls, s[p].h) /\ Signed(s[p]) = - s[p].qty
<1> DEFINE t == s[p]
<1>1. t.kind # "correction" /\ t.h \in Holdings /\ t.qty \in Int /\ t.qty > 0
  <2>1. RowSound(t)
    BY DEF RowsSound
  <2>2. t.h \in Holdings /\ t.qty \in Int /\ (t.kind # "correction" => t.qty > 0)
    BY <2>1 DEF RowSound
  <2>3. t.kind # "correction"
    BY <2>2 DEF Lawful, BesideLots
  <2>4. QED
    BY <2>2, <2>3
<1>2. Signed(t) = - t.qty
  BY <1>1 DEF Signed
<1>3. /\ BalanceAt(s, t.h, p) \in Int /\ BalanceAt(s, t.h, p - 1) \in Int
      /\ BalanceAt(s, t.h, p) = BalanceAt(s, t.h, p - 1) + Signed(t)
  BY BalanceGrows
<1>4. BalanceAt(s, t.h, p) >= 0
  BY <1>1 DEF Lawful
<1>5. OwnUnits(ls, t.h) = BalanceAt(s, t.h, p - 1) - 0
  BY <1>1 DEF AgreedAt, SoFar
<1> HIDE DEF t
<1>6. t.qty <= OwnUnits(ls, t.h)
  BY ONLY <1>1, <1>2, <1>3, <1>4, <1>5
<1>7. QED
  BY <1>1, <1>2, <1>6 DEF t

\* So does each share of one.
LEMMA ShareFinds ==
  ASSUME NEW s, RowsSound(s), Lawful(s), NEW p \in DOMAIN s, s[p].kind \in NeutralKinds,
         NEW k \in DOMAIN OutflowPortions(s[p]),
         NEW ls, NEW sh, NEW pe, AgreedAt(s, p, k, ls, sh, pe)
  PROVE  LET q == OutflowPortions(s[p])[k].qty
         IN  /\ s[p].h \in Holdings /\ q \in Int /\ q > 0 /\ q <= OwnUnits(ls, s[p].h)
<1> DEFINE t == s[p]
           q == OutflowPortions(t)[k].qty
<1>1. RowSound(t) /\ t.h \in Holdings /\ t.qty \in Int
  BY DEF RowsSound, RowSound
<1>2. Signed(t) = - t.qty
  BY DEF Signed, AcquireKinds
<1>3. /\ LeftBefore(t, k) \in Nat /\ q \in Int /\ q > 0 /\ LeftBefore(t, k) + q <= t.qty
  BY <1>1, PortionsAre, SharesFit
<1>4. /\ BalanceAt(s, t.h, p) \in Int /\ BalanceAt(s, t.h, p - 1) \in Int
      /\ BalanceAt(s, t.h, p) = BalanceAt(s, t.h, p - 1) + Signed(t)
  BY BalanceGrows
<1>5. BalanceAt(s, t.h, p) >= 0
  BY <1>1 DEF Lawful
<1>6. OwnUnits(ls, t.h) = BalanceAt(s, t.h, p - 1) - LeftBefore(t, k)
  BY <1>1 DEF AgreedAt, SoFar
<1> HIDE DEF t, q
<1>7. q <= OwnUnits(ls, t.h)
  BY ONLY <1>1, <1>2, <1>3, <1>4, <1>5, <1>6
<1>8. QED
  BY <1>1, <1>3, <1>7 DEF t, q

\* The units of one lot.
LEMMA OneUnits ==
  ASSUME NEW l, l.qty \in Int
  PROVE  Units(<<l>>) = l.qty
<1> DEFINE f == Qtys(<<l>>)
<1>1. /\ IsSeq(<<l>>) /\ DOMAIN <<l>> = 1..1 /\ <<l>>[1] = l
  BY SeqOne
<1>2. 1..1 = {1} /\ IsFiniteSet({1})
  BY FS_Singleton
<1>3. Units(<<l>>) = Sum(f, {1})
  BY <1>1, <1>2, UnitsAre
<1>4. f[1] = l.qty
  BY <1>1 DEF Qtys
<1> HIDE DEF f
<1>5. Sum(f, {1}) = f[1] + Sum(f, {1} \ {1})
  BY <1>2, <1>4, SumLess
<1>6. {1} \ {1} = {}
  OBVIOUS
<1>7. Sum(f, {}) = 0
  BY SumEmpty
<1>8. QED
  BY <1>3, <1>4, <1>5, <1>6, <1>7

\* Lots of one holding that come in behind the others.
LEMMA ComesIn ==
  ASSUME NEW ls, Whole(ls), NEW new, IsSeq(new), NEW h,
         \A k \in DOMAIN new : new[k].qty \in Int /\ new[k].h = h, NEW n \in Int, Units(new) = n
  PROVE  \A e : OwnUnits(ls \o new, e) = OwnUnits(ls, e) + (IF h = e THEN n ELSE 0)
<1> TAKE e
<1>1. IsSeq(ls) /\ \A k \in DOMAIN ls : ls[k].qty \in Int
  BY DEF Whole, IsLots, IsSeq
<1>2. OwnUnits(ls \o new, e) = OwnUnits(ls, e) + OwnUnits(new, e)
  BY <1>1, JoinUnits
<1>3. OwnUnits(new, e) = IF e = h THEN Units(new) ELSE 0
  BY OneOwner
<1>4. QED
  BY <1>2, <1>3

\* No plan claims nothing.
LEMMA NothingClaimed == ASSUME NEW id PROVE ClaimedOf(<<>>, id) = 0
<1> DEFINE F(k) == IF <<>>[k].acq = id THEN <<>>[k].qty ELSE 0
           Adds0(i) == i = [s \in SUBSET {} |-> IF s = {} THEN 0
                              ELSE F(AnyOf(s)) + i[s \ {AnyOf(s)}]]
           it == CHOOSE i : Adds0(i)
<1>1. DOMAIN <<>> = {}
  BY SeqNone
<1>2. ClaimedOf(<<>>, id) = it[{}]
  BY <1>1 DEF ClaimedOf, SumOver, MapThenSumSet, MapThenFoldSet, AnyOf
<1>3. Adds0(it)
  <2> HIDE DEF F
  <2>1. Adds0([s \in SUBSET {} |-> 0])
    OBVIOUS
  <2> HIDE DEF Adds0
  <2>2. QED
    BY <2>1
<1>4. it[{}] = 0
  <2> HIDE DEF F, it
  <2>1. QED
    BY <1>3
<1>5. QED
  BY <1>2, <1>4

\* What waits, when one group's lots are others.
LEMMA WaitsOn ==
  ASSUME NEW pe, Waits(pe), DOMAIN pe = Groups, NEW g \in Groups, NEW new,
         new # None => Units(new) > 0 /\ \A k \in DOMAIN new : new[k].qty \in Int
  PROVE  Waits([pe EXCEPT ![g] = new])
BY DEF Waits

\* What waits, when lots join it.
LEMMA Buffers ==
  ASSUME NEW pe, Waits(pe), DOMAIN pe = Groups, NEW g \in Groups,
         pe[g] # None => IsLots(pe[g]),
         NEW taken, IsLots(taken), \A k \in DOMAIN taken : taken[k].qty \in Int, Units(taken) \in Int,
         Units(taken) > 0
  PROVE  Waits([pe EXCEPT ![g] = IF @ = None THEN taken ELSE @ \o taken])
<1>1. CASE pe[g] = None
  <2>1. Waits([pe EXCEPT ![g] = taken])
    BY WaitsOn
  <2>2. [pe EXCEPT ![g] = IF @ = None THEN taken ELSE @ \o taken] = [pe EXCEPT ![g] = taken]
    BY <1>1
  <2>3. QED
    BY <2>1, <2>2
<1>2. CASE pe[g] # None
  <2> DEFINE old == pe[g]
             all == old \o taken
  <2>1. IsLots(old) /\ Units(old) > 0 /\ \A k \in DOMAIN old : old[k].qty \in Int
    BY <1>2 DEF Waits
  <2>2. IsSeq(old) /\ IsSeq(taken)
    BY <2>1 DEF IsLots, IsSeq
  <2>3. Units(all) = Units(old) + Units(taken) /\ \A k \in DOMAIN all : all[k].qty \in Int
    BY <2>1, <2>2, JoinUnits
  <2>4. Units(old) \in Int
    <3>1. 0 \in Int
      OBVIOUS
    <3>2. QED
      BY <2>1, <3>1, PartsInt
  <2>5. [pe EXCEPT ![g] = IF @ = None THEN taken ELSE @ \o taken] = [pe EXCEPT ![g] = all]
    BY <1>2
  <2> HIDE DEF all, old
  <2>6. Units(all) > 0
    BY <2>1, <2>3, <2>4
  <2>7. Waits([pe EXCEPT ![g] = all])
    BY <2>3, <2>6, WaitsOn
  <2>8. QED
    BY <2>5, <2>7
<1>3. QED
  BY <1>1, <1>2

\* The walk in the middle of a lawful ledger, first in, first out.
Runs ==
  /\ Walk /\ Whole(lots) /\ method = "fifo" /\ Lawful(rows)
  /\ AgreedAt(rows, pos, part, lots, shorts, pending)

RunsOn == AgreedAt(rows', pos', part', lots', shorts', pending')

\* What that says.
LEMMA RunsIs ==
  ASSUME Runs
  PROVE  /\ RowsSound(rows) /\ Lawful(rows) /\ plan = <<>> /\ Whole(lots) /\ IsSeq(lots)
         /\ DOMAIN pending = Groups /\ Waits(pending)
         /\ \A g \in Groups : pending[g] # None => IsLots(pending[g])
         /\ shorts = [h \in Holdings |-> <<>>]
         /\ AgreedAt(rows, pos, part, lots, shorts, pending)
         /\ \A i \in DOMAIN rows : rows[i].group # None => rows[i].group \in Groups
BY DEF Runs, Walk, CInv, Shape, RowsOK, RowsSound, AgreedAt, Whole, IsLots, IsSeq

\* A row that takes its units from the lots, and touches nothing else.
LEMMA TakesRow ==
  ASSUME Runs, pos \in DOMAIN rows, rows[pos].kind \notin NeutralKinds,
         rows[pos].kind \notin AcquireKinds,
         NextRow, rows' = rows, shorts' = shorts, pending' = pending,
         LET d == DrawOldestFirst(lots, rows[pos].h, rows[pos].qty)
         IN  \A e : OwnUnits(lots', e) = OwnUnits(d.left, e)
  PROVE  RunsOn
<1> DEFINE t == rows[pos]
           d == DrawOldestFirst(lots, t.h, t.qty)
<1>1. /\ t.h \in Holdings /\ t.qty \in Int /\ t.qty > 0
      /\ t.qty <= OwnUnits(lots, t.h) /\ Signed(t) = - t.qty
  BY RunsIs, RowFinds
<1>2. /\ AtPar(t.h, t.qty, d.taken, t.at) = d.taken
      /\ \A e : OwnUnits(d.left, e) = OwnUnits(lots, e) - (IF t.h = e THEN t.qty ELSE 0)
  <2>1. Whole(lots) /\ t.qty \in Int /\ t.qty > 0 /\ t.qty <= OwnUnits(lots, t.h)
    BY <1>1, RunsIs
  <2> HIDE DEF t
  <2>2. QED
    BY ONLY <2>1, DrawsAll
<1>3. \A e : OwnUnits(lots, e) \in Int
  <2> TAKE e
  <2>1. IsFiniteSet(Owned(lots, e)) /\ \A i \in Owned(lots, e) : Qtys(lots)[i] \in Int
    BY RunsIs, WholeIs
  <2>2. QED
    BY <2>1, SumInt DEF OwnUnits
<1> HIDE DEF d
<1>4. \A e \in Holdings : OwnUnits(lots', e) = OwnUnits(lots, e)
                                              + (IF t.h = e THEN Signed(t) ELSE 0)
  <2> TAKE e \in Holdings
  <2>1. OwnUnits(lots', e) = OwnUnits(lots, e) - (IF t.h = e THEN t.qty ELSE 0)
    BY <1>2 DEF d
  <2> HIDE DEF t
  <2>2. OwnUnits(lots, e) \in Int /\ t.qty \in Int /\ Signed(t) = - t.qty
    BY <1>1, <1>3
  <2>3. QED
    BY ONLY <2>1, <2>2
<1>5. AgreedAt(rows, pos + 1, 1, lots', shorts, pending)
  BY <1>4, RunsIs, RowAgrees
<1>6. QED
  BY <1>5 DEF RunsOn, NextRow

\* A share of an outflow likewise.
LEMMA TakesShare ==
  ASSUME Runs, At(NeutralKinds), NextShare, rows' = rows, shorts' = shorts, Waits(pending'),
         lots' = DrawOldestFirst(lots, rows[pos].h, Share.qty).left
  PROVE  RunsOn
<1> DEFINE t == rows[pos]
           d == DrawOldestFirst(lots, t.h, Share.qty)
<1>1. /\ pos \in DOMAIN rows /\ t.kind \in NeutralKinds /\ part \in DOMAIN OutflowPortions(t)
      /\ Share = OutflowPortions(t)[part]
  BY DEF Runs, Walk, At, Share
<1>2. Share.qty \in Int /\ Share.qty > 0 /\ Share.qty <= OwnUnits(lots, t.h)
  BY <1>1, RunsIs, ShareFinds
<1>3. /\ AtPar(t.h, Share.qty, d.taken, t.at) = d.taken
      /\ \A e : OwnUnits(d.left, e) = OwnUnits(lots, e) - (IF t.h = e THEN Share.qty ELSE 0)
  <2>1. Whole(lots) /\ Share.qty \in Int /\ Share.qty > 0 /\ Share.qty <= OwnUnits(lots, t.h)
    BY <1>2, RunsIs
  <2> HIDE DEF t
  <2>2. ASSUME NEW w \in Int, w > 0, w <= OwnUnits(lots, t.h)
        PROVE  LET c == DrawOldestFirst(lots, t.h, w)
               IN  /\ AtPar(t.h, w, c.taken, t.at) = c.taken
                   /\ \A e : OwnUnits(c.left, e) = OwnUnits(lots, e) - (IF t.h = e THEN w ELSE 0)
    BY ONLY <2>1, <2>2, DrawsAll
  <2>3. QED
    BY <2>1, <2>2
<1>4. IF part = Len(OutflowPortions(t)) THEN pos' = pos + 1 /\ part' = 1
      ELSE pos' = pos /\ part' = part + 1
  BY DEF NextShare, NextRow
<1>5. \A e \in Holdings : OwnUnits(lots', e) = OwnUnits(lots, e)
                            - (IF t.h = e THEN OutflowPortions(t)[part].qty ELSE 0)
  BY <1>1, <1>3
<1>6. AgreedAt(rows, pos', part', lots', shorts, pending')
  BY <1>1, <1>4, <1>5, RunsIs, ShareAgrees
<1>7. QED
  BY <1>6 DEF RunsOn

\* What a share draws.
LEMMA ShareDraws ==
  ASSUME Runs, At(NeutralKinds)
  PROVE  LET t == rows[pos]
             d == DrawOldestFirst(lots, t.h, Share.qty)
         IN  /\ Draw(t.h, Share.qty) = d /\ MatchedFromPlan(t, part, Share.qty) = d
             /\ IsLots(d.taken) /\ Units(d.taken) \in Int /\ Units(d.taken) > 0
             /\ \A k \in DOMAIN d.taken : d.taken[k].qty \in Int
<1> DEFINE t == rows[pos]
           d == DrawOldestFirst(lots, t.h, Share.qty)
<1>1. /\ pos \in DOMAIN rows /\ t.kind \in NeutralKinds /\ part \in DOMAIN OutflowPortions(t)
      /\ Share = OutflowPortions(t)[part]
  BY DEF Runs, Walk, At, Share
<1>2. Share.qty \in Int /\ Share.qty > 0 /\ Share.qty <= OwnUnits(lots, t.h)
  BY <1>1, RunsIs, ShareFinds
<1>3. /\ Units(d.taken) = Share.qty /\ IsLots(d.taken)
      /\ \A k \in DOMAIN d.taken : d.taken[k].qty \in Int
  BY <1>2, RunsIs, DrawsAll
<1>4. Draw(t.h, Share.qty) = d /\ MatchedFromPlan(t, part, Share.qty) = d
  BY <1>2, RunsIs, MatchedOldest DEF Draw, Runs
<1>5. QED
  BY <1>2, <1>3, <1>4

\* The shares of an outflow.
LEMMA SharesRun == ASSUME Runs, Carry \/ FeeShare \/ RealizeShare \/ HoldShare PROVE RunsOn
<1> DEFINE t == rows[pos]
           d == DrawOldestFirst(lots, t.h, Share.qty)
<1>1. At(NeutralKinds) /\ NextShare /\ rows' = rows /\ shorts' = shorts
  BY DEF Carry, FeeShare, RealizeShare, HoldShare, AtShare, Ledger
<1>2. /\ Draw(t.h, Share.qty) = d /\ MatchedFromPlan(t, part, Share.qty) = d
      /\ IsLots(d.taken) /\ Units(d.taken) \in Int /\ Units(d.taken) > 0
      /\ \A k \in DOMAIN d.taken : d.taken[k].qty \in Int
  BY <1>1, ShareDraws
<1>3. lots' = d.left
  BY <1>2 DEF Carry, FeeShare, RealizeShare, HoldShare
<1>4. pending' = pending \/ (Linked(t) /\ Buffer(t.group, d.taken))
  BY <1>2 DEF Carry, FeeShare, RealizeShare, HoldShare
<1>5. Waits(pending')
  <2>1. CASE pending' = pending
    BY <2>1, RunsIs
  <2>2. CASE Linked(t) /\ Buffer(t.group, d.taken)
    <3> DEFINE g == t.group
    <3>1. g \in Groups
      BY <1>1, <2>2, RunsIs DEF Linked, At
    <3> HIDE DEF d
    <3>2. pending' = [pending EXCEPT ![g] = IF @ = None THEN d.taken ELSE @ \o d.taken]
      BY <2>2 DEF Buffer
    <3> HIDE DEF g
    <3>3. Waits([pending EXCEPT ![g] = IF @ = None THEN d.taken ELSE @ \o d.taken])
      BY <1>2, <3>1, RunsIs, Buffers
    <3>4. QED
      BY <3>2, <3>3
  <2>3. QED
    BY <1>4, <2>1, <2>2
<1>6. QED
  BY <1>1, <1>3, <1>5, TakesShare

\* A row's draw is all there is to it: nothing goes short.
LEMMA RowDraws ==
  ASSUME Runs, pos \in DOMAIN rows, rows[pos].kind \notin NeutralKinds,
         rows[pos].kind \notin AcquireKinds
  PROVE  LET t == rows[pos]
             d == DrawOldestFirst(lots, t.h, t.qty)
         IN  /\ Draw(t.h, t.qty) = d /\ MatchedFromPlan(t, 1, t.qty) = d
             /\ AtPar(t.h, t.qty, d.taken, t.at) = d.taken
             /\ Units(d.taken) = t.qty /\ IsLots(d.left) /\ t.qty \in Int
<1> DEFINE t == rows[pos]
           d == DrawOldestFirst(lots, t.h, t.qty)
<1>1. /\ t.h \in Holdings /\ t.qty \in Int /\ t.qty > 0 /\ t.qty <= OwnUnits(lots, t.h)
  BY RunsIs, RowFinds
<1>2. /\ AtPar(t.h, t.qty, d.taken, t.at) = d.taken /\ Units(d.taken) = t.qty /\ IsLots(d.left)
  <2>1. Whole(lots)
    BY RunsIs
  <2> HIDE DEF t
  <2>2. QED
    BY ONLY <1>1, <2>1, DrawsAll
<1>3. Draw(t.h, t.qty) = d /\ MatchedFromPlan(t, 1, t.qty) = d
  BY <1>1, RunsIs, MatchedOldest DEF Draw, Runs
<1>4. QED
  BY <1>1, <1>2, <1>3

\* Nothing short opens no short.
LEMMA NoneShort ==
  ASSUME NEW h, NEW qty \in Int, NEW value, OpenShort(h, qty - qty, value)
  PROVE  shorts' = shorts
BY DEF OpenShort

\* Falls, sales and fees.
LEMMA OutRowsRun == ASSUME Runs, DriftOut \/ Sell \/ PayFee PROVE RunsOn
<1> DEFINE t == rows[pos]
           d == DrawOldestFirst(lots, t.h, t.qty)
<1>1. /\ pos \in DOMAIN rows /\ t.kind \notin NeutralKinds /\ t.kind \notin AcquireKinds
      /\ NextRow /\ rows' = rows /\ pending' = pending
  BY DEF DriftOut, Sell, PayFee, At, SellKinds, FeeKinds, AcquireKinds, Ledger
<1>2. /\ Draw(t.h, t.qty) = d /\ MatchedFromPlan(t, 1, t.qty) = d
      /\ AtPar(t.h, t.qty, d.taken, t.at) = d.taken
      /\ Units(d.taken) = t.qty /\ IsLots(d.left) /\ t.qty \in Int
  BY <1>1, RowDraws
<1>3. shorts' = shorts /\ \A e : OwnUnits(lots', e) = OwnUnits(d.left, e)
  <2> HIDE DEF d
  <2>1. CASE DriftOut
    <3>1. /\ lots' = d.left
          /\ shorts' = shorts \/ \E value : OpenShort(t.h, t.qty - Units(d.taken), value)
      BY <1>2, <2>1 DEF DriftOut
    <3>2. QED
      BY <1>2, <3>1, NoneShort
  <2>2. CASE Sell
    <3>1. /\ lots' = d.left
          /\ shorts' = shorts \/ \E value : OpenShort(t.h, t.qty - Units(d.taken), value)
      BY <1>2, <2>2 DEF Sell
    <3>2. QED
      BY <1>2, <3>1, NoneShort
  <2>3. CASE PayFee
    <3>1. /\ lots' = d.left \/ \E cost : lots' = KeepCostOnLots(d.left, t.h, cost)
          /\ shorts' = shorts
      BY <1>2, <2>3 DEF PayFee
    <3>2. ASSUME NEW cost, NEW e
          PROVE  OwnUnits(KeepCostOnLots(d.left, t.h, cost), e) = OwnUnits(d.left, e)
      <4> DEFINE k == KeepCostOnLots(d.left, t.h, cost)
                 l == d.left
      <4>1. /\ DOMAIN k = DOMAIN l /\ Owned(k, e) = Owned(l, e)
            /\ \A i \in DOMAIN l : k[i].qty = l[i].qty
        BY <1>2, CostlierKeeps
      <4>2. IsFiniteSet(Owned(l, e)) /\ Owned(l, e) \subseteq DOMAIN l
        <5>1. IsSeq(l)
          BY <1>2 DEF IsLots, IsSeq
        <5>2. IsFiniteSet(DOMAIN l) /\ Owned(l, e) \subseteq DOMAIN l
          BY <5>1, SeqIs DEF Owned
        <5>3. QED
          BY <5>2, FS_Subset
      <4> HIDE DEF k, l
      <4>3. \A i \in Owned(l, e) : Qtys(k)[i] = Qtys(l)[i]
        BY <4>1, <4>2 DEF Qtys
      <4>4. Sum(Qtys(k), Owned(l, e)) = Sum(Qtys(l), Owned(l, e))
        BY <4>2, <4>3, SumSame
      <4>5. QED
        BY <4>1, <4>4 DEF OwnUnits, k, l
    <3>3. QED
      BY <3>1, <3>2
  <2>4. QED
    BY <2>1, <2>2, <2>3
<1>4. QED
  BY <1>1, <1>3, TakesRow

\* A row whose units come in.
LEMMA BringsRow ==
  ASSUME Runs, pos \in DOMAIN rows, rows[pos].kind \in AcquireKinds,
         NextRow, rows' = rows, shorts' = shorts, Waits(pending'),
         NEW new, IsSeq(new), lots' = lots \o new, Units(new) = rows[pos].qty,
         \A k \in DOMAIN new : new[k].qty \in Int /\ new[k].h = rows[pos].h
  PROVE  RunsOn
<1> DEFINE t == rows[pos]
<1>1. t.qty \in Int /\ Signed(t) = t.qty /\ t.kind \notin NeutralKinds
  <2>1. RowSound(t)
    BY RunsIs DEF RowsSound
  <2>2. QED
    BY <2>1 DEF RowSound, Signed, AcquireKinds
<1>2. \A e : OwnUnits(lots', e) = OwnUnits(lots, e) + (IF t.h = e THEN t.qty ELSE 0)
  <2>1. /\ Whole(lots) /\ IsSeq(new) /\ t.qty \in Int /\ Units(new) = t.qty
        /\ \A k \in DOMAIN new : new[k].qty \in Int /\ new[k].h = t.h
    BY <1>1, RunsIs
  <2> HIDE DEF t
  <2>2. \A e : OwnUnits(lots \o new, e) = OwnUnits(lots, e) + (IF t.h = e THEN t.qty ELSE 0)
    BY ONLY <2>1, ComesIn
  <2>3. QED
    BY <2>2
<1>3. AgreedAt(rows, pos + 1, 1, lots', shorts, pending')
  BY <1>1, <1>2, RunsIs, RowAgrees
<1>4. QED
  BY <1>3 DEF RunsOn, NextRow

\* An arrival that takes up what waits: its own units, and the rest waits on.
LEMMA InheritsRun == ASSUME Runs, InheritShare \/ InheritAll PROVE RunsOn
<1> DEFINE t == rows[pos]
           g == t.group
           b == pending[g]
           s == ShareOf(b, t.qty, t.h)
           r == Rehome(b, t.qty, t.h)
<1>1. /\ pos \in DOMAIN rows /\ t.kind \in AcquireKinds /\ g # None /\ b # None
      /\ NextRow /\ rows' = rows /\ shorts' = shorts
  BY DEF InheritShare, InheritAll, At, Inherits, LinkedArrival, Linked, Ledger, AcquireKinds
<1>2. /\ g \in Groups /\ IsLots(b) /\ Units(b) > 0 /\ (\A k \in DOMAIN b : b[k].qty \in Int)
      /\ Waits(pending) /\ DOMAIN pending = Groups
  BY <1>1, RunsIs DEF Waits
<1>3. t.qty \in Int /\ 0 \in Int
  BY <1>1, RunsIs DEF RowsSound, RowSound
<1>4. CASE InheritShare
  <2>1. /\ lots' = lots \o s.taken /\ pending' = [pending EXCEPT ![g] = s.left]
        /\ Units(b) > t.qty
    BY <1>4 DEF InheritShare
  <2>2. /\ Units(s.taken) = t.qty /\ Units(s.left) = Units(b) - t.qty
        /\ \A k \in DOMAIN s.taken : s.taken[k].qty \in Int /\ s.taken[k].h = t.h
        /\ \A k \in DOMAIN s.left : s.left[k].qty \in Int
    <3> HIDE DEF t, b
    <3>1. QED
      BY <1>2, <1>3, ShareUnits
  <2>3. IsSeq(s.taken)
    <3>1. IsLots(s.taken)
      <4> HIDE DEF b, t
      <4>1. QED
        BY <1>2, SharedLots
    <3>2. QED
      BY <3>1 DEF IsLots, IsSeq
  <2>4. Units(b) \in Int
    <3> HIDE DEF b
    <3>1. QED
      BY <1>2, <1>3, PartsInt
  <2> HIDE DEF s, b
  <2>5. Units(s.left) > 0
    <3> HIDE DEF t
    <3>1. QED
      BY <1>3, <2>1, <2>2, <2>4
  <2>6. Waits([pending EXCEPT ![g] = s.left])
    <3> HIDE DEF g
    <3>1. QED
      BY <1>2, <2>2, <2>5, WaitsOn
  <2>7. QED
    BY <1>1, <2>1, <2>2, <2>3, <2>6, BringsRow
<1>5. CASE InheritAll
  <2>1. lots' = lots \o r /\ pending' = [pending EXCEPT ![g] = None]
    BY <1>5 DEF InheritAll
  <2>2. Units(r) = t.qty /\ \A k \in DOMAIN r : r[k].qty \in Int /\ r[k].h = t.h
    <3> HIDE DEF t, b
    <3>1. QED
      BY <1>2, <1>3, HomeUnits
  <2>3. IsSeq(r)
    <3>1. IsLots(r)
      <4> HIDE DEF b, t
      <4>1. QED
        BY <1>2, RehomedLots
    <3>2. QED
      BY <3>1 DEF IsLots, IsSeq
  <2>4. Waits([pending EXCEPT ![g] = None])
    <3> HIDE DEF g
    <3>1. QED
      BY <1>2, WaitsOn
  <2> HIDE DEF r
  <2>5. QED
    BY <1>1, <2>1, <2>2, <2>3, <2>4, BringsRow
<1>6. QED
  BY <1>4, <1>5

\* Any other arrival opens a lot of its units.
LEMMA AcquireRuns == ASSUME Runs, Acquire PROVE RunsOn
<1> DEFINE t == rows[pos]
           c == CloseShorts(<<>>, t.qty, WorthOf(t, t.qty))
           l == [qty |-> c.qty, cost |-> c.cost, date |-> t.at, h |-> t.h]
<1>1. /\ pos \in DOMAIN rows /\ t.kind \in AcquireKinds /\ NextRow /\ rows' = rows
      /\ pending' = pending /\ TakeIn(t, PoolUnits(t))
  BY DEF Acquire, At, Ledger
<1>2. t.qty \in Int /\ t.qty > 0 /\ t.h \in Holdings
  BY <1>1, RunsIs DEF RowsSound, RowSound, AcquireKinds
<1>3. PoolUnits(t) = t.qty
  <2>1. ClaimedOf(plan, t.id) = 0
    BY RunsIs, NothingClaimed
  <2>2. QED
    BY <1>2, <2>1 DEF PoolUnits
<1>4. shorts[t.h] = <<>> /\ shorts = [h \in Holdings |-> <<>>]
  BY <1>2, RunsIs
<1>5. c.qty = t.qty /\ c.open = <<>>
  BY <1>2, ClosesNothing
<1>6. shorts' = [shorts EXCEPT ![t.h] = c.open]
      /\ lots' = IF c.qty > 0 THEN Append(lots, l) ELSE lots
  BY <1>1, <1>3, <1>4 DEF TakeIn
<1> HIDE DEF c
<1>7. shorts' = shorts
  BY <1>4, <1>5, <1>6
<1>8. l.qty = t.qty /\ l.h = t.h
  BY <1>5
<1> HIDE DEF l
<1>9. lots' = lots \o <<l>>
  BY <1>2, <1>5, <1>6, RunsIs, SeqMore
<1>10. /\ IsSeq(<<l>>) /\ Units(<<l>>) = t.qty
       /\ \A k \in DOMAIN <<l>> : <<l>>[k] = l
  <2>1. IsSeq(<<l>>)
    BY SeqOne
  <2>2. \A k \in DOMAIN <<l>> : <<l>>[k] = l
    OBVIOUS
  <2>3. QED
    BY <1>2, <1>8, <2>1, <2>2, OneUnits
<1>11. \A k \in DOMAIN <<l>> : <<l>>[k].qty \in Int /\ <<l>>[k].h = t.h
  BY <1>2, <1>8, <1>10
<1>12. QED
  BY <1>1, <1>7, <1>9, <1>10, <1>11, RunsIs, BringsRow

\* Before the walk nothing is open; during it, and after, first in, first out
\* on a lawful ledger has the lots agree with the balances.
Balanced ==
  /\ pos = 0 => /\ lots = <<>> /\ shorts = [h \in Holdings |-> <<>>]
                /\ \A g \in Groups : pending[g] = None
  /\ method = "fifo" /\ pos # 0 /\ Lawful(rows) =>
       AgreedAt(rows, pos, part, lots, shorts, pending)

\* The walk begins with no lots and no balances.
LEMMA BeginAgrees ==
  ASSUME Walk', pos = 0, Balanced, Begin
  PROVE  Balanced'
<1>1. /\ pos' = 1 /\ part' = 1 /\ lots' = <<>> /\ shorts' = [h \in Holdings |-> <<>>]
      /\ \A g \in Groups : pending'[g] = None
  BY DEF Begin, NextRow, Balanced
<1>2. RowsSound(rows')
  BY DEF Walk, CInv, Shape, RowsOK, RowsSound
<1>3. Len(rows') \in Nat
  BY <1>2, SeqIs DEF RowsSound
<1>4. \A h : OwnUnits(<<>>, h) = 0
  <2> TAKE h
  <2>1. Owned(<<>>, h) = {}
    BY SeqNone DEF Owned
  <2>2. QED
    BY <2>1, SumEmpty DEF OwnUnits
<1>5. ASSUME NEW h \in Holdings
      PROVE  OwnUnits(lots', h) = BalanceAt(rows', h, pos' - 1) - SoFar(rows', pos', part', h)
  <2>1. BalanceAt(rows', h, 0) = 0
    BY <1>2, BalanceGrows
  <2>2. SoFar(rows', 1, 1, h) = 0
    BY <1>2, NothingYet
  <2>3. OwnUnits(lots', h) = 0 /\ pos' - 1 = 0
    BY <1>1, <1>4
  <2>4. QED
    BY <1>1, <2>1, <2>2, <2>3
<1>6. pos' \in 1..(Len(rows') + 1)
  BY <1>1, <1>3
<1>7. Waits(pending')
  BY <1>1 DEF Waits
<1>8. AgreedAt(rows', pos', part', lots', shorts', pending')
  BY <1>1, <1>5, <1>6, <1>7 DEF AgreedAt
<1>9. QED
  BY <1>1, <1>8 DEF Balanced

\* Every step keeps the agreement.
LEMMA StepAgrees ==
  ASSUME Walk, Walk', NoneBelowZero, Balanced, [Next]_vars
  PROVE  Balanced'
<1>1. /\ IsSeq(rows) /\ Len(rows) \in Nat /\ DOMAIN rows = 1..Len(rows) /\ pos \in Nat
      /\ Whole(lots)
  <2>1. IsSeq(rows) /\ pos \in Nat /\ IsLots(lots)
    BY DEF Walk, CInv, Shape, RowsOK
  <2>2. QED
    BY <2>1, SeqIs DEF Whole, NoneBelowZero
<1>2. CASE UNCHANGED vars
  <2>1. UNCHANGED <<method, rows, pos, part, lots, shorts, pending>>
    BY <1>2 DEF vars
  <2>2. QED
    BY <2>1 DEF Balanced
<1>3. CASE Begin
  BY <1>3, BeginAgrees DEF Begin
<1>4. CASE \E g \in Groups : Settle(g)
  <2>1. pos > Len(rows) /\ UNCHANGED <<method, rows, pos, part, lots, shorts, pending>>
    BY <1>4 DEF Settle, Ledger
  <2>2. QED
    BY <2>1 DEF Balanced
<1>5. ASSUME pos \in DOMAIN rows, pos' # 0, method' = method, rows' = rows, Runs => RunsOn
      PROVE  Balanced'
  <2>1. SUFFICES ASSUME method = "fifo", Lawful(rows)
                 PROVE  AgreedAt(rows', pos', part', lots', shorts', pending')
    BY <1>5 DEF Balanced
  <2>2. pos # 0
    BY <1>1, <1>5
  <2>3. Runs
    BY <1>1, <2>1, <2>2 DEF Balanced, Runs
  <2>4. QED
    BY <1>5, <2>3 DEF RunsOn
<1>6. CASE Skip \/ CorrectUp \/ CorrectDown \/ DriftOut \/ InheritShare \/ InheritAll \/ Acquire
           \/ Sell \/ PayFee \/ Carry \/ FeeShare \/ RealizeShare \/ HoldShare
  <2>1. pos \in DOMAIN rows /\ method' = method /\ rows' = rows
    BY <1>6 DEF Skip, CorrectUp, CorrectDown, DriftOut, InheritShare, InheritAll, Acquire, Sell, PayFee,
                Carry, FeeShare, RealizeShare, HoldShare, AtShare, At, Ledger
  <2>2. NextRow \/ NextShare
    BY <1>6 DEF Skip, CorrectUp, CorrectDown, DriftOut, InheritShare, InheritAll, Acquire, Sell, PayFee,
                Carry, FeeShare, RealizeShare, HoldShare
  <2>3. pos' # 0
    <3>1. pos' = pos + 1 \/ pos' = pos
      BY <2>2 DEF NextRow, NextShare
    <3>2. QED
      BY <1>1, <2>1, <3>1
  <2>4. Runs => RunsOn
    <3>1. CASE Skip \/ CorrectUp \/ CorrectDown
      <4>1. rows[pos].kind \in BesideLots
        BY <3>1 DEF Skip, CorrectUp, CorrectDown, At, BesideLots
      <4>2. rows[pos].h \in Holdings
        <5>1. RowSound(rows[pos])
          BY <2>1 DEF Walk
        <5>2. QED
          BY <5>1 DEF RowSound
      <4>3. ~ Lawful(rows)
        BY <2>1, <4>1, <4>2 DEF Lawful
      <4>4. QED
        BY <4>3 DEF Runs
    <3>2. CASE DriftOut \/ Sell \/ PayFee
      BY <3>2, OutRowsRun
    <3>3. CASE InheritShare \/ InheritAll
      BY <3>3, InheritsRun
    <3>4. CASE Acquire
      BY <3>4, AcquireRuns
    <3>5. CASE Carry \/ FeeShare \/ RealizeShare \/ HoldShare
      BY <3>5, SharesRun
    <3>6. QED
      BY <1>6, <3>1, <3>2, <3>3, <3>4, <3>5
  <2>5. QED
    BY <1>5, <2>1, <2>3, <2>4
<1>7. QED
  BY <1>2, <1>3, <1>4, <1>6 DEF Next

\* What the agreement says at the end of the walk.
LEMMA AgreesAtLast == ASSUME Walk, Balanced, method = "fifo" PROVE BalancesAgree
<1>1. /\ RowsSound(rows) /\ pos \in Nat /\ IsLots(lots)
  BY DEF Walk, CInv, Shape, RowsOK, RowsSound
<1>2. Len(rows) \in Nat /\ DOMAIN rows = 1..Len(rows)
  BY <1>1, SeqIs DEF RowsSound
<1>3. \A h \in Holdings, n \in 0..Len(rows) : Balance(h, n) = BalanceAt(rows, h, n)
  BY <1>1, BalanceIs
<1>4. SUFFICES ASSUME pos > Len(rows),
                      \A h \in Holdings, n \in DOMAIN rows :
                        Balance(h, n) >= 0 /\ rows[n].kind \notin BesideLots,
                      NEW h \in Holdings
               PROVE  MapThenSumSet(LAMBDA i : lots[i].qty, Owned(lots, h)) = Balance(h, Len(rows))
  BY DEF BalancesAgree, Done
<1>5. Lawful(rows)
  <2>1. \A n \in DOMAIN rows : n \in 0..Len(rows)
    BY <1>2
  <2>2. QED
    BY <1>3, <1>4, <2>1 DEF Lawful
<1>6. AgreedAt(rows, pos, part, lots, shorts, pending)
  <2>1. pos # 0
    BY <1>1, <1>2, <1>4
  <2>2. QED
    BY <1>5, <2>1 DEF Balanced
<1>7. pos \in 1..(Len(rows) + 1)
  BY <1>6 DEF AgreedAt
<1>8. pos - 1 = Len(rows) /\ pos \notin DOMAIN rows
  BY <1>2, <1>4, <1>7
<1>9. OwnUnits(lots, h) = BalanceAt(rows, h, Len(rows)) - 0
  BY <1>6, <1>8 DEF AgreedAt, SoFar
<1>10. BalanceAt(rows, h, Len(rows)) \in Int
  <2>1. CASE Len(rows) = 0
    BY <1>1, <2>1, BalanceGrows
  <2>2. CASE Len(rows) # 0
    <3>1. Len(rows) \in DOMAIN rows
      BY <1>2, <2>2
    <3>2. QED
      BY <1>1, <3>1, BalanceGrows
  <2>3. QED
    BY <2>1, <2>2
<1>11. MapThenSumSet(LAMBDA i : lots[i].qty, Owned(lots, h)) = OwnUnits(lots, h)
  <2>1. IsSeq(lots)
    BY <1>1 DEF IsLots, IsSeq
  <2>2. IsFiniteSet(Owned(lots, h)) /\ Owned(lots, h) \subseteq DOMAIN lots
    <3>1. IsFiniteSet(DOMAIN lots) /\ Owned(lots, h) \subseteq DOMAIN lots
      BY <2>1, SeqIs DEF Owned
    <3>2. QED
      BY <3>1, FS_Subset
  <2> DEFINE e == [i \in Owned(lots, h) |-> lots[i].qty]
  <2>3. MapThenSumSet(LAMBDA i : lots[i].qty, Owned(lots, h)) = Sum(e, Owned(lots, h))
    BY <2>2, QtySum
  <2>4. \A i \in Owned(lots, h) : e[i] = Qtys(lots)[i]
    BY <2>2 DEF Qtys
  <2> HIDE DEF e
  <2>5. Sum(e, Owned(lots, h)) = Sum(Qtys(lots), Owned(lots, h))
    BY <2>2, <2>4, SumSame
  <2>6. QED
    BY <2>3, <2>5 DEF OwnUnits
<1>12. Balance(h, Len(rows)) = BalanceAt(rows, h, Len(rows))
  <2>1. Len(rows) \in 0..Len(rows)
    BY <1>2
  <2>2. QED
    BY <1>3, <2>1
<1>13. QED
  BY <1>9, <1>10, <1>11, <1>12

\* CostBasisService.walkPool, first in, first out: where no holding was ever
\* overdrawn or corrected, each ends with exactly the units its rows add up to,
\* for every ledger in which rounding leaves no lot with less than nothing.
THEOREM BalancesAgreeHolds ==
  Spec /\ []NoneBelowZero => [](method = "fifo" => BalancesAgree)
<1>1. Init => Balanced
  BY DEF Init, Balanced
<1>2. Walk /\ Walk' /\ NoneBelowZero /\ Balanced /\ [Next]_vars => Balanced'
  BY StepAgrees
<1>3. Walk /\ Balanced => (method = "fifo" => BalancesAgree)
  BY AgreesAtLast
<1>4. QED
  BY <1>1, <1>2, <1>3, WalkHolds, PTL DEF Spec
==============================================================================
