----------------------------- MODULE Sums_proofs -----------------------------
(***************************************************************************)
(* Sums over finite sets: what MapThenSumSet returns, when one element is  *)
(* added, changed or taken away, and when the elements are counted in      *)
(* another order, in parts or under other names.  The function is a value  *)
(* here, so that a lemma can be cited about it.  The proofs about the      *)
(* transfer review and about the lots rest on these.                       *)
(***************************************************************************)
EXTENDS Integers, FiniteSets, FiniteSetsExt, TLAPS, FiniteSetTheorems, WellFoundedInduction

Sum(f, S) == MapThenSumSet(LAMBDA x : f[x], S)

AnyOf(s) == CHOOSE x \in s : TRUE

\* g is the sum of f over each of S's subsets, element by element.
Sums(g, f, S) ==
  g = [s \in SUBSET S |-> IF s = {} THEN 0 ELSE f[AnyOf(s)] + g[s \ {AnyOf(s)}]]

\* The element chosen is one of the set.
LEMMA AnyIs == ASSUME NEW s, s # {} PROVE AnyOf(s) \in s
BY DEF AnyOf

\* The numbers are well founded.
LEMMA LessOnNat == IsWellFoundedOn({ss \in Nat \X Nat : ss[1] < ss[2]}, Nat)
BY NatLessThanWellFounded DEF OpToRel

\* A set of numbers has a least one.
LEMMA LeastOf ==
  ASSUME NEW T, T \subseteq Nat, T # {}
  PROVE  \E n \in T : \A m \in T : n <= m
<1> DEFINE less == {ss \in Nat \X Nat : ss[1] < ss[2]}
<1>1. IsWellFoundedOn(less, Nat)
  BY LessOnNat
<1> HIDE DEF less
<1>2. PICK n \in T : \A m \in T : ~ (<<m, n>> \in less)
  BY <1>1, WFMin
<1>3. ASSUME NEW m \in T PROVE n <= m
  <2>1. n \in Nat /\ m \in Nat /\ <<m, n>> \notin less
    BY <1>2
  <2>2. QED
    BY <2>1 DEF less
<1>4. QED
  BY <1>3

\* The same, over the subsets of at most n elements.
AddsUpTo(g, f, S, n) ==
  \A s \in SUBSET S : Cardinality(s) <= n =>
    g[s] = IF s = {} THEN 0 ELSE f[AnyOf(s)] + g[s \ {AnyOf(s)}]

\* What every subset of a finite set is, and what is left without one element.
LEMMA Smaller ==
  ASSUME NEW S, IsFiniteSet(S)
  PROVE  /\ Cardinality(S) \in Nat
         /\ \A s \in SUBSET S : /\ IsFiniteSet(s) /\ Cardinality(s) \in Nat
                               /\ Cardinality(s) <= Cardinality(S)
         /\ \A s \in SUBSET S : s # {} => /\ AnyOf(s) \in s /\ s \ {AnyOf(s)} \in SUBSET S
                                         /\ Cardinality(s \ {AnyOf(s)}) = Cardinality(s) - 1
                                         /\ Cardinality(s) # 0
<1>1. /\ Cardinality(S) \in Nat
      /\ \A s \in SUBSET S : /\ IsFiniteSet(s) /\ Cardinality(s) \in Nat
                            /\ Cardinality(s) <= Cardinality(S)
  BY FS_Subset, FS_CardinalityType
<1>2. QED
  BY <1>1, AnyIs, FS_RemoveElement, FS_EmptySet

\* There is such a function for every size, by the least size without one.
LEMMA SumsUpTo ==
  ASSUME NEW f, NEW S, IsFiniteSet(S)
  PROVE  \A n \in Nat : \E g : AddsUpTo(g, f, S, n)
<1> DEFINE bad == {m \in Nat : ~ \E g : AddsUpTo(g, f, S, m)}
<1>1. SUFFICES ASSUME bad # {} PROVE FALSE
  OBVIOUS
<1>2. PICK m \in bad : \A k \in bad : m <= k
  <2>1. bad \subseteq Nat
    OBVIOUS
  <2> HIDE DEF bad
  <2>2. QED
    BY <1>1, <2>1, LeastOf
<1>3. m \in Nat /\ ~ \E g : AddsUpTo(g, f, S, m)
  BY <1>2
<1>4. m # 0 => \E g : AddsUpTo(g, f, S, m - 1)
  <2>1. m # 0 => m - 1 \in Nat /\ ~ (m <= m - 1)
    BY <1>3
  <2>2. m # 0 => m - 1 \notin bad
    <3> HIDE DEF bad
    <3>1. QED
      BY <2>1, <1>2
  <2>3. QED
    BY <2>1, <2>2
<1>5. \E g : m # 0 => AddsUpTo(g, f, S, m - 1)
  BY <1>4
<1>6. PICK g : m # 0 => AddsUpTo(g, f, S, m - 1)
  BY <1>5
<1> DEFINE e == [s \in SUBSET S |-> IF s = {} THEN 0 ELSE f[AnyOf(s)] + g[s \ {AnyOf(s)}]]
<1> HIDE DEF bad
<1>7. AddsUpTo(e, f, S, m)
  <2> SUFFICES ASSUME NEW s \in SUBSET S, Cardinality(s) <= m
               PROVE  e[s] = IF s = {} THEN 0 ELSE f[AnyOf(s)] + e[s \ {AnyOf(s)}]
    BY DEF AddsUpTo
  <2>1. CASE s = {}
    BY <2>1
  <2>2. CASE s # {}
    <3> DEFINE r == s \ {AnyOf(s)}
    <3>1. r \in SUBSET S /\ Cardinality(r) <= m - 1 /\ m # 0
      BY <1>3, <2>2, Smaller
    <3>2. g[r] = IF r = {} THEN 0 ELSE f[AnyOf(r)] + g[r \ {AnyOf(r)}]
      BY <1>6, <3>1 DEF AddsUpTo
    <3>3. e[s] = f[AnyOf(s)] + g[r]
      BY <2>2
    <3>4. e[r] = IF r = {} THEN 0 ELSE f[AnyOf(r)] + g[r \ {AnyOf(r)}]
      BY <3>1
    <3>5. QED
      BY <2>2, <3>2, <3>3, <3>4
  <2>3. QED
    BY <2>1, <2>2
<1>8. QED
  BY <1>3, <1>7

\* So there is one that adds over all subsets.
LEMMA SumsExist ==
  ASSUME NEW f, NEW S, IsFiniteSet(S)
  PROVE  \E g : Sums(g, f, S)
<1> DEFINE n == Cardinality(S)
<1>1. PICK g : AddsUpTo(g, f, S, n)
  <2>1. n \in Nat
    BY Smaller
  <2> HIDE DEF n
  <2>2. QED
    BY <2>1, SumsUpTo
<1> DEFINE e == [s \in SUBSET S |-> g[s]]
<1>2. \A s \in SUBSET S : s \ {AnyOf(s)} \in SUBSET S /\ Cardinality(s) <= n
  BY Smaller
<1>3. e = [s \in SUBSET S |-> IF s = {} THEN 0 ELSE f[AnyOf(s)] + e[s \ {AnyOf(s)}]]
  BY <1>1, <1>2 DEF AddsUpTo
<1>4. QED
  BY <1>3 DEF Sums

\* And it depends on nothing but f's values: two of them agree on what both add.
LEMMA SumsAgree ==
  ASSUME NEW f, NEW e, NEW S, NEW T, IsFiniteSet(S), IsFiniteSet(T),
         NEW g, NEW k, Sums(g, f, S), Sums(k, e, T),
         \A x \in S \cap T : f[x] = e[x]
  PROVE  \A s \in SUBSET (S \cap T) : g[s] = k[s]
<1> DEFINE U == S \cap T
           bad == {n \in Nat : \E s \in SUBSET U : Cardinality(s) = n /\ g[s] # k[s]}
<1>1. \A s \in SUBSET U : IsFiniteSet(s) /\ Cardinality(s) \in Nat
  BY FS_Subset, FS_CardinalityType
<1>2. \A s \in SUBSET U : s # {} => /\ AnyOf(s) \in s /\ s \ {AnyOf(s)} \in SUBSET U
                                    /\ Cardinality(s \ {AnyOf(s)}) = Cardinality(s) - 1
  BY <1>1, AnyIs, FS_RemoveElement
<1>3. SUFFICES ASSUME bad # {} PROVE FALSE
  BY <1>1
<1>4. PICK m \in bad : \A n \in bad : m <= n
  <2>1. bad \subseteq Nat
    OBVIOUS
  <2> HIDE DEF bad
  <2>2. QED
    BY <1>3, <2>1, LeastOf
<1>5. PICK s \in SUBSET U : Cardinality(s) = m /\ g[s] # k[s]
  BY <1>4
<1>6. /\ g[s] = IF s = {} THEN 0 ELSE f[AnyOf(s)] + g[s \ {AnyOf(s)}]
      /\ k[s] = IF s = {} THEN 0 ELSE e[AnyOf(s)] + k[s \ {AnyOf(s)}]
  BY DEF Sums
<1>7. s # {}
  BY <1>5, <1>6
<1>8. g[s \ {AnyOf(s)}] = k[s \ {AnyOf(s)}]
  <2>1. s \ {AnyOf(s)} \in SUBSET U /\ Cardinality(s \ {AnyOf(s)}) = m - 1 /\ m \in Nat
    BY <1>2, <1>5, <1>7
  <2>2. m - 1 \notin bad
    BY <1>4, <2>1
  <2>3. Cardinality(s \ {AnyOf(s)}) \in Nat
    BY <1>1, <2>1
  <2>4. QED
    BY <2>1, <2>2, <2>3
<1>9. f[AnyOf(s)] = e[AnyOf(s)]
  BY <1>2, <1>7
<1>10. QED
  BY <1>5, <1>6, <1>7, <1>8, <1>9

\* The sum, by any function that adds element by element.
LEMMA SumIs ==
  ASSUME NEW f, NEW S, IsFiniteSet(S), NEW g, Sums(g, f, S)
  PROVE  \A T \in SUBSET S : Sum(f, T) = g[T]
<1> SUFFICES ASSUME NEW T \in SUBSET S PROVE Sum(f, T) = g[T]
  OBVIOUS
<1> DEFINE it == CHOOSE i : Sums(i, f, T)
<1>1. IsFiniteSet(T)
  BY FS_Subset
<1>2. Sums(it, f, T)
  BY <1>1, SumsExist
<1>3. Sum(f, T) = it[T]
  BY DEF Sum, MapThenSumSet, MapThenFoldSet, Sums, AnyOf
<1> HIDE DEF it
<1>4. it[T] = g[T]
  BY <1>1, <1>2, SumsAgree
<1>5. QED
  BY <1>3, <1>4

-----------------------------------------------------------------------------
\* What a sum is.

\* Element by element.
LEMMA SumAny ==
  ASSUME NEW f, NEW S, IsFiniteSet(S)
  PROVE  /\ Sum(f, {}) = 0
         /\ S # {} => Sum(f, S) = f[AnyOf(S)] + Sum(f, S \ {AnyOf(S)})
<1>1. PICK g : Sums(g, f, S)
  BY SumsExist
<1>2. Sum(f, {}) = g[{}] /\ Sum(f, S) = g[S] /\ Sum(f, S \ {AnyOf(S)}) = g[S \ {AnyOf(S)}]
  BY <1>1, SumIs
<1>3. g[{}] = 0 /\ (S # {} => g[S] = f[AnyOf(S)] + g[S \ {AnyOf(S)}])
  BY <1>1 DEF Sums
<1>4. QED
  BY <1>2, <1>3

\* Of nothing the sum is 0.
LEMMA SumEmpty == ASSUME NEW f PROVE Sum(f, {}) = 0
BY SumAny, FS_EmptySet

\* It depends on what f gives the elements.
LEMMA SumSame ==
  ASSUME NEW f, NEW e, NEW S, IsFiniteSet(S), \A x \in S : f[x] = e[x]
  PROVE  Sum(f, S) = Sum(e, S)
<1>1. PICK g : Sums(g, f, S)
  BY SumsExist
<1>2. PICK k : Sums(k, e, S)
  BY SumsExist
<1>3. g[S] = k[S]
  <2>1. \A s \in SUBSET (S \cap S) : g[s] = k[s]
    BY <1>1, <1>2, SumsAgree
  <2>2. QED
    BY <2>1
<1>4. QED
  BY <1>1, <1>2, <1>3, SumIs

\* The sum of integers is one.
LEMMA SumInt ==
  ASSUME NEW f, NEW S, IsFiniteSet(S), \A x \in S : f[x] \in Int
  PROVE  Sum(f, S) \in Int
<1> DEFINE bad == {n \in Nat : \E s \in SUBSET S : Cardinality(s) = n /\ Sum(f, s) \notin Int}
<1>1. SUFFICES ASSUME bad # {} PROVE FALSE
  BY Smaller
<1>2. PICK m \in bad : \A n \in bad : m <= n
  <2>1. bad \subseteq Nat
    OBVIOUS
  <2> HIDE DEF bad
  <2>2. QED
    BY <1>1, <2>1, LeastOf
<1>3. PICK s \in SUBSET S : Cardinality(s) = m /\ Sum(f, s) \notin Int
  BY <1>2
<1> DEFINE r == s \ {AnyOf(s)}
<1>4. s # {}
  BY <1>3, SumEmpty
<1>5. /\ r \in SUBSET S /\ Cardinality(r) = m - 1 /\ m \in Nat /\ Cardinality(r) \in Nat
      /\ AnyOf(s) \in S /\ IsFiniteSet(s)
  BY <1>3, <1>4, Smaller
<1>6. Sum(f, r) \in Int
  <2>1. m - 1 \notin bad
    BY <1>2, <1>5
  <2>2. QED
    BY <2>1, <1>5
<1>7. Sum(f, s) = f[AnyOf(s)] + Sum(f, r)
  BY <1>4, <1>5, SumAny
<1>8. QED
  BY <1>3, <1>5, <1>6, <1>7

\* Whichever element is counted first.
LEMMA SumLess ==
  ASSUME NEW f, NEW S, IsFiniteSet(S), \A x \in S : f[x] \in Int, NEW x \in S
  PROVE  Sum(f, S) = f[x] + Sum(f, S \ {x})
<1> DEFINE Wrong(s) == \E y \in s : Sum(f, s) # f[y] + Sum(f, s \ {y})
           bad == {n \in Nat : \E s \in SUBSET S : Cardinality(s) = n /\ Wrong(s)}
<1>1. SUFFICES ASSUME bad # {} PROVE FALSE
  BY Smaller
<1>2. PICK m \in bad : \A n \in bad : m <= n
  <2>1. bad \subseteq Nat
    OBVIOUS
  <2> HIDE DEF bad
  <2>2. QED
    BY <1>1, <2>1, LeastOf
<1>3. PICK s \in SUBSET S : Cardinality(s) = m /\ Wrong(s)
  BY <1>2
<1>4. PICK y \in s : Sum(f, s) # f[y] + Sum(f, s \ {y})
  BY <1>3
<1> DEFINE c == AnyOf(s)
           both == (s \ {c}) \ {y}
<1>5. /\ m \in Nat /\ s # {} /\ c \in s /\ IsFiniteSet(s)
      /\ Sum(f, s) = f[c] + Sum(f, s \ {c})
  BY <1>2, <1>3, <1>4, Smaller, SumAny
<1>6. y # c
  BY <1>4, <1>5
<1>7. \A z \in {c, y} : /\ s \ {z} \in SUBSET S /\ IsFiniteSet(s \ {z})
                        /\ Cardinality(s \ {z}) = m - 1 /\ m - 1 \in Nat
  BY <1>3, <1>5, Smaller, FS_RemoveElement
<1>8. \A z \in {c, y} : ~ Wrong(s \ {z})
  <2>1. m - 1 \notin bad
    BY <1>2, <1>5, <1>7
  <2>2. QED
    BY <2>1, <1>7
<1>9. both = (s \ {y}) \ {c}
  OBVIOUS
<1>10. Sum(f, s \ {c}) = f[y] + Sum(f, both)
  BY <1>4, <1>6, <1>8
<1>11. Sum(f, s \ {y}) = f[c] + Sum(f, both)
  <2>1. c \in s \ {y}
    BY <1>5, <1>6
  <2>2. Sum(f, s \ {y}) = f[c] + Sum(f, (s \ {y}) \ {c})
    BY <2>1, <1>8
  <2>3. QED
    BY <2>2, <1>9
<1>12. f[c] \in Int /\ f[y] \in Int /\ Sum(f, both) \in Int
  <2>1. IsFiniteSet(both) /\ both \subseteq S
    BY <1>5, Smaller, FS_Subset
  <2> HIDE DEF both
  <2>2. QED
    BY <2>1, <1>5, SumInt
<1> HIDE DEF both, c
<1>13. QED
  BY <1>4, <1>5, <1>10, <1>11, <1>12

\* One element more.
LEMMA SumMore ==
  ASSUME NEW f, NEW S, IsFiniteSet(S), NEW x, x \notin S, \A y \in S \cup {x} : f[y] \in Int
  PROVE  Sum(f, S \cup {x}) = f[x] + Sum(f, S)
<1>1. IsFiniteSet(S \cup {x}) /\ (S \cup {x}) \ {x} = S /\ x \in S \cup {x}
  BY FS_AddElement
<1> DEFINE T == S \cup {x}
<1> HIDE DEF T
<1>2. Sum(f, T) = f[x] + Sum(f, T \ {x})
  BY <1>1, SumLess DEF T
<1>3. QED
  BY <1>1, <1>2 DEF T

\* Where two functions differ at one element only, so do their sums.
LEMMA SumChange ==
  ASSUME NEW f, NEW e, NEW S, IsFiniteSet(S), \A y \in S : f[y] \in Int /\ e[y] \in Int,
         NEW x \in S, \A y \in S \ {x} : f[y] = e[y]
  PROVE  Sum(e, S) = Sum(f, S) + (e[x] - f[x])
<1> DEFINE R == S \ {x}
<1>1. IsFiniteSet(R) /\ \A y \in R : f[y] \in Int /\ f[y] = e[y]
  BY FS_RemoveElement
<1>2. Sum(f, S) = f[x] + Sum(f, R) /\ Sum(e, S) = e[x] + Sum(e, R)
  BY SumLess
<1> HIDE DEF R
<1>3. Sum(e, R) = Sum(f, R) /\ Sum(f, R) \in Int
  BY <1>1, SumSame, SumInt
<1>4. QED
  BY <1>2, <1>3

\* What counts for nothing may be left out.
LEMMA SumWithout ==
  ASSUME NEW f, NEW S, IsFiniteSet(S), \A y \in S : f[y] \in Int,
         NEW T \in SUBSET S, \A y \in S \ T : f[y] = 0
  PROVE  Sum(f, T) = Sum(f, S)
<1> DEFINE bad == {n \in Nat : \E s \in SUBSET S :
                    Cardinality(s) = n /\ Sum(f, s \cap T) # Sum(f, s)}
<1>1. SUFFICES ASSUME bad # {} PROVE FALSE
  <2>1. SUFFICES ASSUME Sum(f, T) # Sum(f, S) PROVE bad # {}
    OBVIOUS
  <2>2. S \cap T = T
    OBVIOUS
  <2>3. Sum(f, S \cap T) # Sum(f, S) /\ S \in SUBSET S /\ Cardinality(S) \in Nat
    BY <2>1, <2>2, Smaller
  <2>4. Cardinality(S) \in bad
    BY <2>3
  <2>5. QED
    BY <2>4
<1>2. PICK m \in bad : \A n \in bad : m <= n
  <2>1. bad \subseteq Nat
    OBVIOUS
  <2> HIDE DEF bad
  <2>2. QED
    BY <1>1, <2>1, LeastOf
<1>3. PICK s \in SUBSET S : Cardinality(s) = m /\ Sum(f, s \cap T) # Sum(f, s)
  BY <1>2
<1>4. s # {}
  <2>1. {} \cap T = {}
    OBVIOUS
  <2>2. QED
    BY <1>3, <2>1
<1> DEFINE c == AnyOf(s)
           r == s \ {c}
<1>5. /\ r \in SUBSET S /\ Cardinality(r) = m - 1 /\ m - 1 \in Nat
      /\ c \in s /\ c \in S /\ IsFiniteSet(s)
  BY <1>3, <1>4, Smaller
<1>6. Sum(f, r \cap T) = Sum(f, r)
  <2>1. m - 1 \notin bad
    <3>1. m \in Nat /\ m - 1 \in Nat
      BY <1>2, <1>5
    <3> HIDE DEF bad, r, c
    <3>2. QED
      BY <3>1, <1>2
  <2>2. QED
    BY <2>1, <1>5
<1>7. /\ Sum(f, s) = f[c] + Sum(f, r) /\ Sum(f, r) \in Int
      /\ IsFiniteSet(s \cap T) /\ IsFiniteSet(r)
  <2>1. IsFiniteSet(r) /\ IsFiniteSet(s \cap T)
    BY <1>5, FS_Subset
  <2>2. Sum(f, s) = f[c] + Sum(f, r)
    BY <1>5, SumLess
  <2> HIDE DEF r
  <2>3. Sum(f, r) \in Int
    BY <2>1, <1>5, SumInt
  <2>4. QED
    BY <2>1, <2>2, <2>3
<1>8. CASE c \in T
  <2>1. (s \cap T) \ {c} = r \cap T /\ c \in s \cap T
    BY <1>5, <1>8
  <2> DEFINE st == s \cap T
  <2>2. Sum(f, st) = f[c] + Sum(f, st \ {c})
    <3>1. \A y \in st : f[y] \in Int
      OBVIOUS
    <3>2. IsFiniteSet(st) /\ c \in st
      BY <2>1, <1>7
    <3> HIDE DEF st, c
    <3>3. QED
      BY <3>1, <3>2, SumLess
  <2>3. QED
    BY <2>1, <2>2, <1>3, <1>6, <1>7
<1>9. CASE c \notin T
  <2>1. s \cap T = r \cap T
    BY <1>9
  <2>2. f[c] = 0
    BY <1>5, <1>9
  <2>3. QED
    BY <2>1, <2>2, <1>3, <1>6, <1>7
<1>10. QED
  BY <1>8, <1>9

\* The sum of natural numbers is one.
LEMMA SumNat ==
  ASSUME NEW f, NEW S, IsFiniteSet(S), \A x \in S : f[x] \in Nat
  PROVE  Sum(f, S) \in Nat
<1> DEFINE bad == {n \in Nat : \E s \in SUBSET S : Cardinality(s) = n /\ Sum(f, s) \notin Nat}
<1>1. SUFFICES ASSUME bad # {} PROVE FALSE
  BY Smaller
<1>2. PICK m \in bad : \A n \in bad : m <= n
  <2>1. bad \subseteq Nat
    OBVIOUS
  <2> HIDE DEF bad
  <2>2. QED
    BY <1>1, <2>1, LeastOf
<1>3. PICK s \in SUBSET S : Cardinality(s) = m /\ Sum(f, s) \notin Nat
  BY <1>2
<1> DEFINE r == s \ {AnyOf(s)}
<1>4. s # {}
  BY <1>3, SumEmpty
<1>5. /\ r \in SUBSET S /\ Cardinality(r) = m - 1 /\ m \in Nat /\ Cardinality(r) \in Nat
      /\ AnyOf(s) \in S /\ IsFiniteSet(s)
  BY <1>3, <1>4, Smaller
<1>6. Sum(f, r) \in Nat
  <2>1. m - 1 \notin bad
    BY <1>2, <1>5
  <2>2. QED
    BY <2>1, <1>5
<1>7. Sum(f, s) = f[AnyOf(s)] + Sum(f, r)
  BY <1>4, <1>5, SumAny
<1>8. QED
  BY <1>3, <1>5, <1>6, <1>7

\* However the elements are named.
LEMMA SumNamed ==
  ASSUME NEW f, NEW S, IsFiniteSet(S), \A x \in S : f[x] \in Int,
         NEW g, NEW b, \A x \in S : g[b[x]] = f[x],
         \A x, y \in S : b[x] = b[y] => x = y
  PROVE  Sum(g, {b[x] : x \in S}) = Sum(f, S)
<1> DEFINE Image(s) == {b[x] : x \in s}
           bad == {n \in Nat : \E s \in SUBSET S :
                     Cardinality(s) = n /\ Sum(g, Image(s)) # Sum(f, s)}
<1>1. SUFFICES ASSUME bad # {} PROVE FALSE
  BY Smaller
<1>2. PICK m \in bad : \A n \in bad : m <= n
  <2>1. bad \subseteq Nat
    OBVIOUS
  <2> HIDE DEF bad
  <2>2. QED
    BY <1>1, <2>1, LeastOf
<1>3. PICK s \in SUBSET S : Cardinality(s) = m /\ Sum(g, Image(s)) # Sum(f, s)
  BY <1>2
<1>4. s # {}
  <2>1. Image({}) = {}
    OBVIOUS
  <2>2. QED
    BY <1>3, <2>1, SumEmpty
<1> DEFINE c == AnyOf(s)
           r == s \ {c}
<1>5. /\ r \in SUBSET S /\ Cardinality(r) = m - 1 /\ m - 1 \in Nat
      /\ c \in s /\ c \in S /\ IsFiniteSet(s) /\ IsFiniteSet(r)
  BY <1>3, <1>4, Smaller
<1>6. Sum(g, Image(r)) = Sum(f, r)
  <2>1. m \in Nat /\ ~ (m <= m - 1)
    BY <1>5, <1>2
  <2>2. m - 1 \notin bad
    <3> HIDE DEF bad
    <3>1. QED
      BY <2>1, <1>2
  <2>3. QED
    BY <2>2, <1>5
<1>7. Sum(f, s) = f[c] + Sum(f, r)
  BY <1>4, <1>5, SumAny
<1>8. /\ Image(s) = Image(r) \cup {b[c]} /\ b[c] \notin Image(r)
      /\ IsFiniteSet(Image(r))
      /\ \A y \in Image(r) \cup {b[c]} : g[y] \in Int
  <2>1. Image(s) = Image(r) \cup {b[c]} /\ b[c] \notin Image(r)
    BY <1>5
  <2>2. IsFiniteSet(Image(r))
    <3> DEFINE im == [x \in r |-> b[x]]
    <3>1. Range(im) = Image(r) /\ im \in Surjection(r, Image(r))
      BY DEF Range, Surjection
    <3>2. QED
      BY <1>5, <3>1, FS_Surjection
  <2>3. QED
    BY <1>5, <2>1, <2>2
<1>9. Sum(g, Image(r) \cup {b[c]}) = g[b[c]] + Sum(g, Image(r))
  <2> HIDE DEF Image, r, c
  <2>1. QED
    BY <1>8, SumMore
<1>10. QED
  BY <1>3, <1>5, <1>6, <1>7, <1>8, <1>9

\* In two parts.
LEMMA SumParts ==
  ASSUME NEW f, NEW S, IsFiniteSet(S), \A x \in S : f[x] \in Int, NEW T \in SUBSET S
  PROVE  Sum(f, S) = Sum(f, T) + Sum(f, S \ T)
<1> DEFINE bad == {n \in Nat : \E s \in SUBSET S :
                    Cardinality(s) = n /\ Sum(f, s) # Sum(f, s \cap T) + Sum(f, s \ T)}
<1>1. SUFFICES ASSUME bad # {} PROVE FALSE
  <2>1. SUFFICES ASSUME Sum(f, S) # Sum(f, T) + Sum(f, S \ T) PROVE bad # {}
    OBVIOUS
  <2>2. S \cap T = T
    OBVIOUS
  <2>3. S \in SUBSET S /\ Cardinality(S) \in Nat
    BY Smaller
  <2>4. Cardinality(S) \in bad
    BY <2>1, <2>2, <2>3
  <2>5. QED
    BY <2>4
<1>2. PICK m \in bad : \A n \in bad : m <= n
  <2>1. bad \subseteq Nat
    OBVIOUS
  <2> HIDE DEF bad
  <2>2. QED
    BY <1>1, <2>1, LeastOf
<1>3. PICK s \in SUBSET S : Cardinality(s) = m /\ Sum(f, s) # Sum(f, s \cap T) + Sum(f, s \ T)
  BY <1>2
<1>4. s # {}
  <2> SUFFICES ASSUME s = {} PROVE FALSE
    OBVIOUS
  <2>1. s \cap T = {} /\ s \ T = {}
    OBVIOUS
  <2>2. Sum(f, {}) = 0
    BY SumEmpty
  <2>3. Sum(f, s \cap T) = 0 /\ Sum(f, s \ T) = 0 /\ Sum(f, s) = 0
    BY <2>1, <2>2
  <2>4. QED
    BY <1>3, <2>3
<1> DEFINE c == AnyOf(s)
           r == s \ {c}
<1>5. /\ r \in SUBSET S /\ Cardinality(r) = m - 1 /\ m - 1 \in Nat
      /\ c \in s /\ c \in S /\ IsFiniteSet(s) /\ IsFiniteSet(r)
  BY <1>3, <1>4, Smaller
<1>6. Sum(f, r) = Sum(f, r \cap T) + Sum(f, r \ T)
  <2>1. m \in Nat /\ ~ (m <= m - 1)
    BY <1>5, <1>2
  <2>2. m - 1 \notin bad
    <3> HIDE DEF bad
    <3>1. QED
      BY <2>1, <1>2
  <2>3. QED
    BY <2>2, <1>5
<1>7. Sum(f, s) = f[c] + Sum(f, r)
  BY <1>4, <1>5, SumAny
<1>8. /\ IsFiniteSet(r \cap T) /\ IsFiniteSet(r \ T)
      /\ Sum(f, r \cap T) \in Int /\ Sum(f, r \ T) \in Int /\ f[c] \in Int
  <2> HIDE DEF r, c
  <2>1. IsFiniteSet(r \cap T) /\ IsFiniteSet(r \ T)
    BY <1>5, FS_Subset
  <2>2. \A x \in r : f[x] \in Int
    BY <1>5
  <2> DEFINE A == r \cap T
             B == r \ T
  <2>3. (\A x \in A : f[x] \in Int) /\ (\A x \in B : f[x] \in Int)
    BY <2>2
  <2> HIDE DEF A, B
  <2>4. Sum(f, A) \in Int /\ Sum(f, B) \in Int
    BY <2>1, <2>3, SumInt DEF A, B
  <2>5. QED
    BY <1>5, <2>1, <2>4 DEF A, B
<1>9. CASE c \in T
  <2> DEFINE A == r \cap T
  <2>1. s \cap T = A \cup {c} /\ s \ T = r \ T /\ c \notin A /\ \A y \in A \cup {c} : f[y] \in Int
    BY <1>5, <1>9
  <2>2. Sum(f, A \cup {c}) = f[c] + Sum(f, A)
    <3> HIDE DEF A, c
    <3>1. QED
        BY <1>8, <2>1, SumMore DEF A
  <2>3. Sum(f, s \cap T) = f[c] + Sum(f, r \cap T) /\ Sum(f, s \ T) = Sum(f, r \ T)
    BY <2>1, <2>2
  <2>4. Sum(f, s) = Sum(f, s \cap T) + Sum(f, s \ T)
    <3> HIDE DEF r, c
    <3>1. QED
      BY <1>6, <1>7, <1>8, <2>3
  <2>5. QED
    BY <1>3, <2>4
<1>10. CASE c \notin T
  <2> DEFINE B == r \ T
  <2>1. s \cap T = r \cap T /\ s \ T = B \cup {c} /\ c \notin B /\ \A y \in B \cup {c} : f[y] \in Int
    BY <1>5, <1>10
  <2>2. Sum(f, B \cup {c}) = f[c] + Sum(f, B)
    <3> HIDE DEF B, c
    <3>1. QED
        BY <1>8, <2>1, SumMore DEF B
  <2>3. Sum(f, s \ T) = f[c] + Sum(f, r \ T) /\ Sum(f, s \cap T) = Sum(f, r \cap T)
    BY <2>1, <2>2
  <2>4. Sum(f, s) = Sum(f, s \cap T) + Sum(f, s \ T)
    <3> HIDE DEF r, c
    <3>1. QED
      BY <1>6, <1>7, <1>8, <2>3
  <2>5. QED
    BY <1>3, <2>4
<1>11. QED
  BY <1>9, <1>10

\* Less where there is less to add.
LEMMA SumSub ==
  ASSUME NEW f, NEW S, IsFiniteSet(S), \A x \in S : f[x] \in Nat, NEW T \in SUBSET S
  PROVE  Sum(f, T) <= Sum(f, S)
<1>1. IsFiniteSet(S \ T) /\ IsFiniteSet(T)
  BY FS_Subset
<1>2. Sum(f, T) \in Nat /\ Sum(f, S \ T) \in Nat
  <2>1. \A x \in S \ T : f[x] \in Nat
    OBVIOUS
  <2> DEFINE B == S \ T
  <2> HIDE DEF B
  <2>2. Sum(f, B) \in Nat
    BY <1>1, <2>1, SumNat DEF B
  <2>3. QED
    BY <1>1, <2>2, SumNat DEF B
<1>3. Sum(f, S) = Sum(f, T) + Sum(f, S \ T)
  BY SumParts
<1>4. QED
  BY <1>2, <1>3

\* Sums of sums.
LEMMA SumPlus ==
  ASSUME NEW f, NEW a, NEW b, NEW S, IsFiniteSet(S),
         \A x \in S : a[x] \in Int /\ b[x] \in Int /\ f[x] = a[x] + b[x]
  PROVE  Sum(f, S) = Sum(a, S) + Sum(b, S)
<1> DEFINE bad == {n \in Nat : \E s \in SUBSET S :
                    Cardinality(s) = n /\ Sum(f, s) # Sum(a, s) + Sum(b, s)}
<1>1. SUFFICES ASSUME bad # {} PROVE FALSE
  BY Smaller
<1>2. PICK m \in bad : \A n \in bad : m <= n
  <2>1. bad \subseteq Nat
    OBVIOUS
  <2> HIDE DEF bad
  <2>2. QED
    BY <1>1, <2>1, LeastOf
<1>3. PICK s \in SUBSET S : Cardinality(s) = m /\ Sum(f, s) # Sum(a, s) + Sum(b, s)
  BY <1>2
<1>4. s # {}
  <2> SUFFICES ASSUME s = {} PROVE FALSE
    OBVIOUS
  <2>1. Sum(f, {}) = 0 /\ Sum(a, {}) = 0 /\ Sum(b, {}) = 0
    BY SumEmpty
  <2>2. Sum(f, s) = 0 /\ Sum(a, s) = 0 /\ Sum(b, s) = 0
    BY <2>1
  <2>3. QED
    BY <1>3, <2>2
<1> DEFINE c == AnyOf(s)
           r == s \ {c}
<1>5. /\ r \in SUBSET S /\ Cardinality(r) = m - 1 /\ m - 1 \in Nat
      /\ c \in s /\ c \in S /\ IsFiniteSet(s) /\ IsFiniteSet(r)
  <2>1. s \in SUBSET S /\ s # {} /\ IsFiniteSet(S) /\ Cardinality(s) = m
    BY <1>3, <1>4
  <2>2. QED
    BY ONLY <2>1, Smaller DEF AnyOf
<1>6. Sum(f, r) = Sum(a, r) + Sum(b, r)
  <2>1. m \in Nat /\ ~ (m <= m - 1)
    BY <1>5, <1>2
  <2>2. m - 1 \notin bad
    <3> HIDE DEF bad
    <3>1. QED
      BY <2>1, <1>2
  <2>3. QED
    BY <2>2, <1>5
<1>7. /\ Sum(f, s) = f[c] + Sum(f, r) /\ Sum(a, s) = a[c] + Sum(a, r)
      /\ Sum(b, s) = b[c] + Sum(b, r)
  BY <1>4, <1>5, SumAny
<1>8. Sum(a, r) \in Int /\ Sum(b, r) \in Int
  <2>1. (\A x \in r : a[x] \in Int) /\ (\A x \in r : b[x] \in Int)
    BY <1>5
  <2> HIDE DEF r, c
  <2>2. QED
    BY <1>5, <2>1, SumInt
<1>9. a[c] \in Int /\ b[c] \in Int /\ f[c] = a[c] + b[c]
  BY <1>5
<1> HIDE DEF r, c
<1>10. QED
  BY <1>3, <1>6, <1>7, <1>8, <1>9

\* A sum over some records is a sum of their amounts.
LEMMA QtySum ==
  ASSUME NEW f, NEW S, IsFiniteSet(S)
  PROVE  MapThenSumSet(LAMBDA r : f[r].qty, S) = Sum([r \in S |-> f[r].qty], S)
<1> DEFINE e == [r \in S |-> f[r].qty]
           Adds0(i) == i = [s \in SUBSET S |-> IF s = {} THEN 0
                                               ELSE f[AnyOf(s)].qty + i[s \ {AnyOf(s)}]]
           it == CHOOSE i : Adds0(i)
<1>1. PICK g : Sums(g, e, S)
  BY SumsExist
<1>2. \A i : Adds0(i) <=> Sums(i, e, S)
  <2>1. \A s \in SUBSET S : s # {} => f[AnyOf(s)].qty = e[AnyOf(s)]
    BY AnyIs
  <2> HIDE DEF e
  <2>2. QED
    BY <2>1 DEF Sums
<1>3. Adds0(it)
  <2> HIDE DEF e, Adds0
  <2>1. Adds0(g)
    BY <1>1, <1>2
  <2>2. QED
    BY <2>1
<1>4. MapThenSumSet(LAMBDA r : f[r].qty, S) = it[S]
  BY DEF MapThenSumSet, MapThenFoldSet, AnyOf
<1> HIDE DEF it, e, Adds0
<1>5. it[S] = Sum(e, S)
  <2>1. Sums(it, e, S)
    BY <1>2, <1>3
  <2>2. QED
    BY <2>1, SumIs
<1>6. QED
  BY <1>4, <1>5 DEF e
==============================================================================
