----------------------------- MODULE Sums_proofs -----------------------------
(***************************************************************************)
(* Facts about sums.  The induction principle of the library takes an      *)
(* operator as a parameter; the least-element principle below says the     *)
(* same of sets and is used by minimal counterexample.                     *)
(***************************************************************************)
EXTENDS Sums, NaturalsInduction, WellFoundedInduction, FiniteSetTheorems, TLAPS

\* A non-empty set of natural numbers has a least element.
LEMMA LeastNat ==
  ASSUME NEW S \in SUBSET Nat, S # {}
  PROVE  \E m \in S : \A k \in S : m <= k
<1>1. \E m \in S : \A k \in S : ~ (<<k, m>> \in OpToRel(<, Nat))
  BY NatLessThanWellFounded, WFMin, Zenon
<1>2. \A k, m \in Nat : k < m => <<k, m>> \in OpToRel(<, Nat)
  BY Zenon DEF OpToRel
<1>3. PICK m \in S : \A k \in S : ~ (k < m)
  BY <1>1, <1>2, Zenon
<1> QED
  BY <1>3

\* f tabulates the partial sums of v up to n.
Tabulates(f, v, n) == f = [k \in 0..n |-> IF k = 0 THEN 0 ELSE f[k - 1] + v[k]]

\* A table of partial sums exists for every n.
LEMMA TableExists ==
  ASSUME NEW v, NEW n \in Nat
  PROVE  \E f : Tabulates(f, v, n)
<1> DEFINE S == {m \in Nat : ~ \E f : Tabulates(f, v, m)}
<1>1. SUFFICES ASSUME S # {} PROVE FALSE
  OBVIOUS
<1>2. PICK m \in S : \A k \in S : m <= k
  BY <1>1, LeastNat
<1>3. CASE m = 0
  <2> DEFINE f == [k \in 0..0 |-> 0]
  <2>1. Tabulates(f, v, 0)
    BY DEF Tabulates
  <2> QED BY <1>3, <2>1
<1>4. CASE m # 0
  <2>1. m - 1 \in Nat /\ m - 1 \notin S
    BY <1>2, <1>4
  <2>2. PICK f : Tabulates(f, v, m - 1)
    BY <2>1
  <2> DEFINE g == [k \in 0..m |-> IF k = m THEN f[m - 1] + v[m] ELSE f[k]]
  <2>3. \A k \in 0..m : g[k] = IF k = 0 THEN 0 ELSE g[k - 1] + v[k]
    BY <2>1, <2>2, <1>4 DEF Tabulates
  <2>4. Tabulates(g, v, m)
    BY <2>3 DEF Tabulates
  <2> QED BY <2>4
<1> QED BY <1>3, <1>4

\* SumTo reads its result off such a table.
LEMMA SumToTable ==
  ASSUME NEW v, NEW n \in Nat
  PROVE  \E f : Tabulates(f, v, n) /\ SumTo(v, n) = f[n]
<1> DEFINE f == CHOOSE g : Tabulates(g, v, n)
<1>1. Tabulates(f, v, n)
  BY TableExists, Zenon
<1>2. SumTo(v, n) = f[n]
  BY Zenon DEF SumTo, Tabulates
<1> QED BY <1>1, <1>2

\* A sum of natural numbers is a natural number.
LEMMA SumToNat ==
  ASSUME NEW n \in Nat, NEW v, \A k \in 1..n : v[k] \in Nat
  PROVE  SumTo(v, n) \in Nat
<1>1. PICK f : Tabulates(f, v, n) /\ SumTo(v, n) = f[n]
  BY SumToTable
<1> DEFINE S == {m \in Nat : m <= n /\ f[m] \notin Nat}
<1>2. S = {}
  <2>1. SUFFICES ASSUME S # {} PROVE FALSE
    OBVIOUS
  <2>2. PICK m \in S : \A k \in S : m <= k
    BY <2>1, LeastNat
  <2>3. m # 0
    BY <1>1 DEF Tabulates
  <2>4. f[m - 1] \in Nat
    BY <2>2, <2>3
  <2>5. f[m] = f[m - 1] + v[m] /\ v[m] \in Nat
    BY <1>1, <2>3 DEF Tabulates
  <2> QED BY <2>2, <2>4, <2>5
<1> QED BY <1>1, <1>2

\* Induction, with a set in the place of the predicate.
LEMMA SetInduction ==
  ASSUME NEW S \in SUBSET Nat, 0 \in S, \A m \in S : m + 1 \in S
  PROVE  \A m \in Nat : m \in S
<1>1. SUFFICES ASSUME Nat \ S # {} PROVE FALSE
  OBVIOUS
<1>2. PICK m \in Nat \ S : \A k \in Nat \ S : m <= k
  <2> DEFINE T == Nat \ S
  <2>1. T \in SUBSET Nat /\ T # {}
    BY <1>1
  <2> HIDE DEF T
  <2>2. \E m \in T : \A k \in T : m <= k
    BY <2>1, LeastNat
  <2> QED BY <2>2 DEF T
<1>3. m # 0
  BY <1>2
<1>4. m - 1 \in Nat /\ m - 1 \in S
  BY <1>2, <1>3
<1> QED
  BY <1>2, <1>4

\* The two equations of SumTo.
LEMMA SumToZero ==
  ASSUME NEW v
  PROVE  SumTo(v, 0) = 0
<1>1. PICK f : Tabulates(f, v, 0) /\ SumTo(v, 0) = f[0]
  BY SumToTable
<1> QED BY <1>1 DEF Tabulates

LEMMA SumToNext ==
  ASSUME NEW v, NEW n \in Nat
  PROVE  SumTo(v, n + 1) = SumTo(v, n) + v[n + 1]
<1>1. PICK f : Tabulates(f, v, n) /\ SumTo(v, n) = f[n]
  BY SumToTable
<1>2. PICK g : Tabulates(g, v, n + 1) /\ SumTo(v, n + 1) = g[n + 1]
  BY SumToTable
<1> DEFINE S == {m \in Nat : m <= n => f[m] = g[m]}
<1>3. \A m \in Nat : m \in S
  <2>1. 0 \in S
    BY <1>1, <1>2 DEF Tabulates
  <2>2. ASSUME NEW m \in S, m + 1 <= n PROVE f[m + 1] = g[m + 1]
    <3>1. f[m] = g[m]
      BY <2>2
    <3>2. f[m + 1] = f[(m + 1) - 1] + v[m + 1] /\ g[m + 1] = g[(m + 1) - 1] + v[m + 1]
      BY <1>1, <1>2, <2>2 DEF Tabulates
    <3> QED BY <3>1, <3>2
  <2>3. \A m \in S : m + 1 \in S
    BY <2>2
  <2> HIDE DEF S
  <2> QED BY <2>1, <2>3, SetInduction DEF S
<1>4. f[n] = g[n]
  BY <1>3
<1>5. g[n + 1] = g[(n + 1) - 1] + v[n + 1]
  BY <1>2 DEF Tabulates
<1> QED BY <1>1, <1>2, <1>4, <1>5

\* A sum of integers is an integer.
LEMMA SumToInt ==
  ASSUME NEW n \in Nat, NEW v, \A k \in 1..n : v[k] \in Int
  PROVE  SumTo(v, n) \in Int
<1> DEFINE S == {m \in Nat : m <= n => SumTo(v, m) \in Int}
<1>1. 0 \in S
  BY SumToZero
<1>2. ASSUME NEW m \in S, m + 1 <= n PROVE SumTo(v, m + 1) \in Int
  <2>1. SumTo(v, m) \in Int /\ v[m + 1] \in Int
    BY <1>2
  <2> QED BY <2>1, SumToNext
<1>3. \A m \in S : m + 1 \in S
  BY <1>2
<1>4. \A m \in Nat : m \in S
  <2> HIDE DEF S
  <2> QED BY <1>1, <1>3, SetInduction DEF S
<1> QED BY <1>4

\* The sum of a sum, term by term.
LEMMA SumToAdd ==
  ASSUME NEW n \in Nat, NEW u, NEW v, NEW w,
         \A k \in 1..n : u[k] \in Int /\ v[k] \in Int /\ w[k] = u[k] + v[k]
  PROVE  SumTo(w, n) = SumTo(u, n) + SumTo(v, n)
<1> DEFINE S == {m \in Nat : m <= n => SumTo(w, m) = SumTo(u, m) + SumTo(v, m)}
<1>1. 0 \in S
  BY SumToZero
<1>2. ASSUME NEW m \in S, m + 1 <= n
      PROVE  SumTo(w, m + 1) = SumTo(u, m + 1) + SumTo(v, m + 1)
  <2>1. /\ SumTo(w, m) = SumTo(u, m) + SumTo(v, m)
        /\ u[m + 1] \in Int /\ v[m + 1] \in Int /\ w[m + 1] = u[m + 1] + v[m + 1]
    BY <1>2
  <2>2. SumTo(u, m) \in Int /\ SumTo(v, m) \in Int
    BY <1>2, SumToInt
  <2>3. /\ SumTo(u, m + 1) = SumTo(u, m) + u[m + 1]
        /\ SumTo(v, m + 1) = SumTo(v, m) + v[m + 1]
        /\ SumTo(w, m + 1) = SumTo(w, m) + w[m + 1]
    BY SumToNext
  <2> QED BY <2>1, <2>2, <2>3
<1>3. \A m \in S : m + 1 \in S
  BY <1>2
<1>4. \A m \in Nat : m \in S
  <2> HIDE DEF S
  <2> QED BY <1>1, <1>3, SetInduction DEF S
<1> QED BY <1>4

\* Equal terms, equal sums.
LEMMA SumToSame ==
  ASSUME NEW n \in Nat, NEW u, NEW v, \A k \in 1..n : u[k] = v[k]
  PROVE  SumTo(u, n) = SumTo(v, n)
<1> DEFINE S == {m \in Nat : m <= n => SumTo(u, m) = SumTo(v, m)}
<1>1. 0 \in S
  BY SumToZero
<1>2. ASSUME NEW m \in S, m + 1 <= n PROVE SumTo(u, m + 1) = SumTo(v, m + 1)
  <2>1. SumTo(u, m) = SumTo(v, m) /\ u[m + 1] = v[m + 1]
    BY <1>2
  <2>2. /\ SumTo(u, m + 1) = SumTo(u, m) + u[m + 1]
        /\ SumTo(v, m + 1) = SumTo(v, m) + v[m + 1]
    BY SumToNext
  <2> QED BY <2>1, <2>2
<1>3. \A m \in S : m + 1 \in S
  BY <1>2
<1>4. \A m \in Nat : m \in S
  <2> HIDE DEF S
  <2> QED BY <1>1, <1>3, SetInduction DEF S
<1> QED BY <1>4

\* A common factor.
LEMMA SumToScale ==
  ASSUME NEW n \in Nat, NEW c \in Int, NEW u, NEW w,
         \A k \in 1..n : u[k] \in Int /\ w[k] = u[k] * c
  PROVE  SumTo(w, n) = SumTo(u, n) * c
<1> DEFINE S == {m \in Nat : m <= n => SumTo(w, m) = SumTo(u, m) * c}
<1>1. 0 \in S
  BY SumToZero
<1>2. ASSUME NEW m \in S, m + 1 <= n PROVE SumTo(w, m + 1) = SumTo(u, m + 1) * c
  <2>1. /\ SumTo(w, m) = SumTo(u, m) * c
        /\ u[m + 1] \in Int /\ w[m + 1] = u[m + 1] * c
    BY <1>2
  <2>2. SumTo(u, m) \in Int
    BY <1>2, SumToInt
  <2>3. /\ SumTo(u, m + 1) = SumTo(u, m) + u[m + 1]
        /\ SumTo(w, m + 1) = SumTo(w, m) + w[m + 1]
    BY SumToNext
  <2>4. \A a, b \in Int : (a + b) * c = a * c + b * c
    OBVIOUS
  <2> QED BY <2>1, <2>2, <2>3, <2>4
<1>3. \A m \in S : m + 1 \in S
  BY <1>2
<1>4. \A m \in Nat : m \in S
  <2> HIDE DEF S
  <2> QED BY <1>1, <1>3, SetInduction DEF S
<1> QED BY <1>4

\* Larger terms, larger sum.
LEMMA SumToMonotone ==
  ASSUME NEW n \in Nat, NEW u, NEW v,
         \A k \in 1..n : u[k] \in Int /\ v[k] \in Int /\ u[k] <= v[k]
  PROVE  SumTo(u, n) <= SumTo(v, n)
<1> DEFINE d == [k \in 1..n |-> v[k] - u[k]]
<1>1. \A k \in 1..n : d[k] \in Nat /\ d[k] \in Int /\ v[k] = u[k] + d[k]
  OBVIOUS
<1> HIDE DEF d
<1>2. SumTo(d, n) \in Nat
  BY <1>1, SumToNat
<1>3. SumTo(v, n) = SumTo(u, n) + SumTo(d, n)
  BY <1>1, SumToAdd
<1>4. SumTo(u, n) \in Int
  BY SumToInt
<1> QED BY <1>2, <1>3, <1>4

\* A sum of zeros.
LEMMA SumToNothing ==
  ASSUME NEW n \in Nat, NEW v, \A k \in 1..n : v[k] = 0
  PROVE  SumTo(v, n) = 0
<1> DEFINE S == {m \in Nat : m <= n => SumTo(v, m) = 0}
<1>1. 0 \in S
  BY SumToZero
<1>2. ASSUME NEW m \in S, m + 1 <= n PROVE SumTo(v, m + 1) = 0
  BY <1>2, SumToNext
<1>3. \A m \in S : m + 1 \in S
  BY <1>2
<1>4. \A m \in Nat : m \in S
  <2> HIDE DEF S
  <2> QED BY <1>1, <1>3, SetInduction DEF S
<1> QED BY <1>4

\* A sum with one term that is not zero.
LEMMA SumToOne ==
  ASSUME NEW n \in Nat, NEW v, NEW j \in 1..n, v[j] \in Int,
         \A k \in 1..n : k # j => v[k] = 0
  PROVE  SumTo(v, n) = v[j]
<1> DEFINE S == {m \in Nat : m <= n => SumTo(v, m) = IF m < j THEN 0 ELSE v[j]}
<1>1. 0 \in S
  BY SumToZero
<1>2. ASSUME NEW m \in S, m + 1 <= n
      PROVE  SumTo(v, m + 1) = IF m + 1 < j THEN 0 ELSE v[j]
  <2>1. SumTo(v, m) = (IF m < j THEN 0 ELSE v[j]) /\ SumTo(v, m + 1) = SumTo(v, m) + v[m + 1]
    BY <1>2, SumToNext
  <2>2. CASE m + 1 = j
    BY <2>1, <2>2
  <2>3. CASE m + 1 # j
    <3>1. v[m + 1] = 0
      BY <1>2, <2>3
    <3> QED BY <2>1, <2>3, <3>1
  <2> QED BY <2>2, <2>3
<1>3. \A m \in S : m + 1 \in S
  BY <1>2
<1>4. \A m \in Nat : m \in S
  <2> HIDE DEF S
  <2> QED BY <1>1, <1>3, SetInduction DEF S
<1> QED BY <1>4

\* A sum whose terms differ in one place only.
LEMMA SumToChange ==
  ASSUME NEW n \in Nat, NEW u, NEW v, NEW j \in 1..n, NEW d \in Int,
         \A k \in 1..n : u[k] \in Int,
         \A k \in 1..n : k # j => v[k] = u[k],
         v[j] = u[j] + d
  PROVE  SumTo(v, n) = SumTo(u, n) + d
<1> DEFINE w == [k \in 1..n |-> IF k = j THEN d ELSE 0]
<1>1. /\ \A k \in 1..n : w[k] \in Int /\ v[k] = u[k] + w[k]
      /\ w[j] = d /\ \A k \in 1..n : k # j => w[k] = 0
  OBVIOUS
<1> HIDE DEF w
<1>2. SumTo(w, n) = d
  BY <1>1, SumToOne
<1> QED BY <1>1, <1>2, SumToAdd

\* The members of T up to m.
UpTo(T, m) == {k \in T : k <= m}

LEMMA UpToNext ==
  ASSUME NEW T \in SUBSET Nat, NEW m \in Nat
  PROVE  /\ m + 1 \in T => UpTo(T, m + 1) = UpTo(T, m) \cup {m + 1}
         /\ m + 1 \notin T => UpTo(T, m + 1) = UpTo(T, m)
         /\ m + 1 \notin UpTo(T, m)
<1>1. \A k \in T : k \in Nat /\ (k <= m + 1 <=> k <= m \/ k = m + 1)
  OBVIOUS
<1>2. ~ (m + 1 <= m)
  OBVIOUS
<1> QED BY <1>1, <1>2 DEF UpTo

\* Counting: the sum of the indicator of a set is its cardinality.
LEMMA SumToCounts ==
  ASSUME NEW n \in Nat, NEW T \in SUBSET (1..n), NEW v,
         \A k \in 1..n : v[k] = IF k \in T THEN 1 ELSE 0
  PROVE  SumTo(v, n) = Cardinality(T)
<1>1. \A k \in T : k \in Nat /\ k >= 1 /\ k <= n
  OBVIOUS
<1> DEFINE S == {m \in Nat : m <= n => IsFiniteSet(UpTo(T, m)) /\ SumTo(v, m) = Cardinality(UpTo(T, m))}
<1>2. 0 \in S
  <2>1. \A k \in T : ~ (k <= 0)
    BY <1>1
  <2>2. UpTo(T, 0) = {}
    BY <2>1 DEF UpTo
  <2> QED BY <2>2, SumToZero, FS_EmptySet
<1>3. ASSUME NEW m \in S, m + 1 <= n PROVE m + 1 \in S
  <2>1. m \in Nat /\ IsFiniteSet(UpTo(T, m)) /\ SumTo(v, m) = Cardinality(UpTo(T, m))
    BY <1>3
  <2>2. SumTo(v, m + 1) = SumTo(v, m) + v[m + 1] /\ v[m + 1] = IF m + 1 \in T THEN 1 ELSE 0
    BY <1>3, <2>1, SumToNext
  <2>3. Cardinality(UpTo(T, m)) \in Nat
    BY <2>1, FS_CardinalityType
  <2>4. CASE m + 1 \in T
    <3>1. UpTo(T, m + 1) = UpTo(T, m) \cup {m + 1} /\ m + 1 \notin UpTo(T, m)
      BY <1>1, <2>1, <2>4, UpToNext
    <3>2. IsFiniteSet(UpTo(T, m + 1)) /\ Cardinality(UpTo(T, m + 1)) = Cardinality(UpTo(T, m)) + 1
      BY <2>1, <3>1, FS_AddElement
    <3> QED BY <2>1, <2>2, <2>3, <2>4, <3>2
  <2>5. CASE m + 1 \notin T
    <3>1. UpTo(T, m + 1) = UpTo(T, m)
      BY <1>1, <2>1, <2>5, UpToNext
    <3> QED BY <2>1, <2>2, <2>3, <2>5, <3>1
  <2> QED BY <2>4, <2>5
<1>4. \A m \in S : m + 1 \in S
  BY <1>3
<1>5. \A m \in Nat : m \in S
  <2> HIDE DEF S
  <2> QED BY <1>2, <1>4, SetInduction DEF S
<1>6. UpTo(T, n) = T
  BY <1>1 DEF UpTo
<1> QED BY <1>5, <1>6

\* A sum whose values are 0 from some index on stops there.
LEMMA SumToTail ==
  ASSUME NEW n \in Nat, NEW m \in Nat, m <= n, NEW v, NEW w,
         \A k \in 1..m : v[k] \in Int /\ w[k] = v[k],
         \A k \in (m + 1)..n : w[k] = 0
  PROVE  SumTo(w, n) = SumTo(v, m)
<1> DEFINE S == {d \in Nat : m + d <= n => SumTo(w, m + d) = SumTo(v, m)}
<1>1. SumTo(v, m) \in Int
  BY SumToInt
<1>2. 0 \in S
  <2>1. SumTo(w, m) = SumTo(v, m)
    BY SumToSame
  <2> QED
    BY <2>1
<1>3. ASSUME NEW d \in S, m + (d + 1) <= n PROVE SumTo(w, m + (d + 1)) = SumTo(v, m)
  <2>1. d \in Nat /\ m + d \in Nat /\ m + (d + 1) = (m + d) + 1
    OBVIOUS
  <2>2. SumTo(w, m + d) = SumTo(v, m) /\ w[(m + d) + 1] = 0
    BY <1>3, <2>1
  <2>3. SumTo(w, (m + d) + 1) = SumTo(w, m + d) + w[(m + d) + 1]
    BY <2>1, SumToNext
  <2> QED
    BY <1>1, <2>1, <2>2, <2>3
<1>4. \A d \in S : d + 1 \in S
  BY <1>3
<1>5. n - m \in S
  <2> HIDE DEF S
  <2>1. \A d \in Nat : d \in S
    <3>1. S \in SUBSET Nat
      BY DEF S
    <3> QED
      BY <1>2, <1>4, <3>1, SetInduction
  <2> QED
    BY <2>1
<1> QED
  BY <1>5

-----------------------------------------------------------------------------
(***************************************************************************)
(* Facts about SumOver, for finite sets.                                   *)
(***************************************************************************)
\* The element the fold takes out of a set.
Taken(T) == CHOOSE x \in T : TRUE

LEMMA TakenIn ==
  ASSUME NEW T, T # {}
  PROVE  Taken(T) \in T
BY DEF Taken

\* h folds f over T in the way of MapThenFoldSet.
FoldsAt(h, f, T) == h[T] = IF T = {} THEN 0 ELSE f[Taken(T)] + h[T \ {Taken(T)}]

\* A fold over the subsets of S.
Folding(h, f, S) ==
  h = [T \in SUBSET S |-> IF T = {} THEN 0 ELSE f[Taken(T)] + h[T \ {Taken(T)}]]

\* A subset of a finite set, and what it loses with an element.
LEMMA SmallerSet ==
  ASSUME NEW S, IsFiniteSet(S), NEW T \in SUBSET S
  PROVE  /\ IsFiniteSet(T) /\ Cardinality(T) \in Nat
         /\ Cardinality(T) = 0 <=> T = {}
         /\ \A x \in T : Cardinality(T \ {x}) = Cardinality(T) - 1
<1>1. IsFiniteSet(T)
  BY FS_Subset
<1> QED
  BY <1>1, FS_CardinalityType, FS_EmptySet, FS_RemoveElement

\* What is true of the empty set, and of a set when it is of the smaller ones, is
\* true of every finite set.
LEMMA FiniteInduction ==
  ASSUME NEW S, IsFiniteSet(S), NEW P \in SUBSET (SUBSET S),
         \A T \in SUBSET S : (\A x \in T : T \ {x} \in P) => T \in P
  PROVE  \A T \in SUBSET S : T \in P
<1> DEFINE N == {n \in Nat : \A T \in SUBSET S : Cardinality(T) = n => T \in P}
<1>1. 0 \in N
  BY SmallerSet
<1>2. ASSUME NEW n \in N PROVE n + 1 \in N
  <2> SUFFICES ASSUME NEW T \in SUBSET S, Cardinality(T) = n + 1 PROVE T \in P
    OBVIOUS
  <2>1. \A x \in T : T \ {x} \in SUBSET S /\ Cardinality(T \ {x}) = n
    BY SmallerSet
  <2> QED
    BY <2>1
<1>3. \A n \in Nat : n \in N
  <2>1. N \in SUBSET Nat
    OBVIOUS
  <2> HIDE DEF N
  <2> QED
    BY <1>1, <1>2, <2>1, SetInduction
<1>4. \A T \in SUBSET S : Cardinality(T) \in Nat
  BY SmallerSet
<1> QED
  BY <1>3, <1>4

\* A fold exists.
LEMMA FoldingExists ==
  ASSUME NEW S, IsFiniteSet(S), NEW f
  PROVE  \E h : Folding(h, f, S)
<1> DEFINE FoldsUpTo(h, n) == \A T \in SUBSET S : Cardinality(T) <= n => FoldsAt(h, f, T)
           N == {n \in Nat : \E h : FoldsUpTo(h, n)}
<1>1. 0 \in N
  <2> DEFINE h == [T \in SUBSET S |-> 0]
  <2>1. FoldsUpTo(h, 0)
    BY SmallerSet DEF FoldsAt
  <2> QED
    BY <2>1
<1>2. ASSUME NEW n \in N PROVE n + 1 \in N
  <2>1. PICK h : FoldsUpTo(h, n)
    OBVIOUS
  <2> DEFINE g == [T \in SUBSET S |-> IF Cardinality(T) <= n THEN h[T]
                                      ELSE f[Taken(T)] + h[T \ {Taken(T)}]]
  <2>2. ASSUME NEW T \in SUBSET S, Cardinality(T) <= n + 1 PROVE FoldsAt(g, f, T)
    <3>1. CASE T = {}
      <4>1. Cardinality(T) = 0 /\ n \in Nat
        BY <3>1, SmallerSet
      <4>2. g[T] = h[T]
        BY <4>1
      <4>3. h[T] = 0
        BY <2>1, <3>1, <4>1 DEF FoldsAt
      <4> QED
        BY <3>1, <4>2, <4>3 DEF FoldsAt
    <3>2. CASE T # {}
      <4>1. Taken(T) \in T /\ T \ {Taken(T)} \in SUBSET S
        BY <3>2, TakenIn
      <4>2. Cardinality(T \ {Taken(T)}) = Cardinality(T) - 1 /\ Cardinality(T) \in Nat
        BY <4>1, SmallerSet
      <4>3. g[T \ {Taken(T)}] = h[T \ {Taken(T)}]
        BY <2>2, <4>1, <4>2
      <4>4. g[T] = f[Taken(T)] + h[T \ {Taken(T)}]
        BY <2>1, <3>2 DEF FoldsAt
      <4> QED
        BY <3>2, <4>3, <4>4 DEF FoldsAt
    <3> QED
      BY <3>1, <3>2
  <2> HIDE DEF g
  <2>3. FoldsUpTo(g, n + 1)
    BY <2>2
  <2> QED
    BY <2>3
<1>3. Cardinality(S) \in N
  <2>1. N \in SUBSET Nat /\ Cardinality(S) \in Nat
    BY SmallerSet
  <2> HIDE DEF N
  <2> QED
    BY <1>1, <1>2, <2>1, SetInduction
<1>4. PICK h : FoldsUpTo(h, Cardinality(S))
  BY <1>3
<1> DEFINE g == [T \in SUBSET S |-> h[T]]
<1>5. \A T \in SUBSET S : FoldsAt(h, f, T)
  BY <1>4, FS_Subset
<1>6. \A T \in SUBSET S : g[T] = IF T = {} THEN 0 ELSE f[Taken(T)] + g[T \ {Taken(T)}]
  BY <1>5, TakenIn DEF FoldsAt
<1>7. Folding(g, f, S)
  BY <1>6 DEF Folding
<1> QED
  BY <1>7

\* SumOver reads its result off such a fold.
LEMMA SumOverFolding ==
  ASSUME NEW S, IsFiniteSet(S), NEW f
  PROVE  \E h : Folding(h, f, S) /\ SumOver(f, S) = h[S]
<1> DEFINE h == CHOOSE g : Folding(g, f, S)
<1>1. Folding(h, f, S)
  BY FoldingExists, Zenon
<1>2. SumOver(f, S) = h[S]
  BY Zenon DEF SumOver, MapThenFoldSet, Folding, Taken
<1> QED
  BY <1>1, <1>2

\* Folds over a set and over a part of it agree on the part.
LEMMA FoldingsAgree ==
  ASSUME NEW S, IsFiniteSet(S), NEW T \in SUBSET S, NEW f, NEW h, NEW g,
         Folding(h, f, S), Folding(g, f, T)
  PROVE  h[T] = g[T]
<1> DEFINE P == {U \in SUBSET T : h[U] = g[U]}
<1>1. ASSUME NEW U \in SUBSET T, \A x \in U : U \ {x} \in P PROVE U \in P
  <2>1. /\ h[U] = IF U = {} THEN 0 ELSE f[Taken(U)] + h[U \ {Taken(U)}]
        /\ g[U] = IF U = {} THEN 0 ELSE f[Taken(U)] + g[U \ {Taken(U)}]
    BY DEF Folding
  <2> QED
    BY <1>1, <2>1, TakenIn
<1>2. P \in SUBSET (SUBSET T) /\ IsFiniteSet(T)
  BY FS_Subset
<1>3. T \in P
  <2> HIDE DEF P
  <2> QED
    BY <1>1, <1>2, FiniteInduction
<1> QED
  BY <1>3

\* A fold of integers is an integer.
LEMMA FoldingInt ==
  ASSUME NEW S, IsFiniteSet(S), NEW f, \A x \in S : f[x] \in Int, NEW h, Folding(h, f, S)
  PROVE  \A T \in SUBSET S : h[T] \in Int
<1> DEFINE P == {T \in SUBSET S : h[T] \in Int}
<1>1. ASSUME NEW T \in SUBSET S, \A x \in T : T \ {x} \in P PROVE T \in P
  <2>1. h[T] = IF T = {} THEN 0 ELSE f[Taken(T)] + h[T \ {Taken(T)}]
    BY DEF Folding
  <2>2. T # {} => f[Taken(T)] \in Int /\ h[T \ {Taken(T)}] \in Int
    BY <1>1, TakenIn
  <2> QED
    BY <2>1, <2>2
<1>2. P \in SUBSET (SUBSET S)
  OBVIOUS
<1>3. \A T \in SUBSET S : T \in P
  <2> HIDE DEF P
  <2> QED
    BY <1>1, <1>2, FiniteInduction
<1> QED
  BY <1>3

\* It does not matter in which order elements are taken.
LEMMA FoldingTakesAny ==
  ASSUME NEW S, IsFiniteSet(S), NEW f, \A x \in S : f[x] \in Int, NEW h, Folding(h, f, S)
  PROVE  \A x \in S : h[S] = f[x] + h[S \ {x}]
<1> DEFINE P == {T \in SUBSET S : \A x \in T : h[T] = f[x] + h[T \ {x}]}
<1>1. ASSUME NEW T \in SUBSET S, \A x \in T : T \ {x} \in P PROVE T \in P
  <2> SUFFICES ASSUME NEW x \in T PROVE h[T] = f[x] + h[T \ {x}]
    OBVIOUS
  <2> DEFINE y == Taken(T)
  <2>1. y \in T /\ h[T] = f[y] + h[T \ {y}]
    BY TakenIn DEF Folding
  <2> HIDE DEF y
  <2>2. CASE x # y
    <3>1. x \in T \ {y} /\ y \in T \ {x} /\ T \ {x} \in P /\ T \ {y} \in P
      BY <1>1, <2>1, <2>2
    <3>2. h[T \ {y}] = f[x] + h[(T \ {y}) \ {x}] /\ h[T \ {x}] = f[y] + h[(T \ {x}) \ {y}]
      BY <3>1
    <3>3. (T \ {y}) \ {x} = (T \ {x}) \ {y} /\ (T \ {x}) \ {y} \in SUBSET S
      OBVIOUS
    <3>4. f[x] \in Int /\ f[y] \in Int /\ h[(T \ {x}) \ {y}] \in Int
      BY <2>1, <3>3, FoldingInt
    <3>5. h[(T \ {y}) \ {x}] = h[(T \ {x}) \ {y}]
      BY <3>3
    <3> QED
      BY <2>1, <3>2, <3>4, <3>5, SMT
  <2> QED
    BY <2>1, <2>2
<1>2. P \in SUBSET (SUBSET S)
  OBVIOUS
<1>3. S \in P
  <2> HIDE DEF P
  <2> QED
    BY <1>1, <1>2, FiniteInduction
<1> QED
  BY <1>3

\* The sum over the empty set.
LEMMA SumOverEmpty ==
  ASSUME NEW f
  PROVE  SumOver(f, {}) = 0
<1>1. PICK h : Folding(h, f, {}) /\ SumOver(f, {}) = h[{}]
  BY SumOverFolding, FS_EmptySet
<1> QED
  BY <1>1 DEF Folding

\* A sum of integers is an integer.
LEMMA SumOverInt ==
  ASSUME NEW S, IsFiniteSet(S), NEW f, \A x \in S : f[x] \in Int
  PROVE  SumOver(f, S) \in Int
<1>1. PICK h : Folding(h, f, S) /\ SumOver(f, S) = h[S]
  BY SumOverFolding
<1> QED
  BY <1>1, FoldingInt

\* Any element can be taken out of a sum.
LEMMA SumOverWithout ==
  ASSUME NEW S, IsFiniteSet(S), NEW f, \A x \in S : f[x] \in Int, NEW j \in S
  PROVE  SumOver(f, S) = f[j] + SumOver(f, S \ {j})
<1>1. PICK h : Folding(h, f, S) /\ SumOver(f, S) = h[S]
  BY SumOverFolding
<1>2. IsFiniteSet(S \ {j}) /\ S \ {j} \in SUBSET S
  BY FS_Subset
<1>3. PICK g : Folding(g, f, S \ {j}) /\ SumOver(f, S \ {j}) = g[S \ {j}]
  BY <1>2, SumOverFolding
<1>4. h[S \ {j}] = g[S \ {j}]
  BY <1>1, <1>2, <1>3, FoldingsAgree
<1>5. h[S] = f[j] + h[S \ {j}]
  BY <1>1, FoldingTakesAny
<1> QED
  BY <1>1, <1>3, <1>4, <1>5

\* Only the values at the elements count.
LEMMA SumOverSame ==
  ASSUME NEW S, IsFiniteSet(S), NEW f, NEW g, \A x \in S : f[x] \in Int /\ g[x] = f[x]
  PROVE  SumOver(g, S) = SumOver(f, S)
<1> DEFINE P == {T \in SUBSET S : SumOver(g, T) = SumOver(f, T)}
<1>1. ASSUME NEW T \in SUBSET S, \A x \in T : T \ {x} \in P PROVE T \in P
  <2>1. CASE T = {}
    BY <2>1, SumOverEmpty
  <2>2. ASSUME NEW x \in T PROVE T \in P
    <3>1. IsFiniteSet(T) /\ \A y \in T : f[y] \in Int /\ g[y] \in Int
      BY FS_Subset
    <3>2. SumOver(f, T) = f[x] + SumOver(f, T \ {x}) /\ SumOver(g, T) = g[x] + SumOver(g, T \ {x})
      BY <2>2, <3>1, SumOverWithout
    <3>3. SumOver(g, T \ {x}) = SumOver(f, T \ {x}) /\ g[x] = f[x]
      BY <1>1, <2>2
    <3>4. SumOver(g, T) = SumOver(f, T)
      BY <3>2, <3>3
    <3> QED
      BY <3>4
  <2> QED
    BY <2>1, <2>2
<1>2. P \in SUBSET (SUBSET S)
  OBVIOUS
<1>3. S \in P
  <2> HIDE DEF P
  <2> QED
    BY <1>1, <1>2, FiniteInduction
<1> QED
  BY <1>3

\* A sum grows with its terms.
LEMMA SumOverMonotone ==
  ASSUME NEW S, IsFiniteSet(S), NEW f, NEW g,
         \A x \in S : f[x] \in Int /\ g[x] \in Int /\ f[x] <= g[x]
  PROVE  SumOver(f, S) <= SumOver(g, S)
<1> DEFINE P == {T \in SUBSET S : SumOver(f, T) <= SumOver(g, T)}
<1>1. ASSUME NEW T \in SUBSET S, \A x \in T : T \ {x} \in P PROVE T \in P
  <2>1. CASE T = {}
    BY <2>1, SumOverEmpty
  <2>2. ASSUME NEW x \in T PROVE T \in P
    <3>1. /\ IsFiniteSet(T) /\ IsFiniteSet(T \ {x})
          /\ \A y \in T : f[y] \in Int /\ g[y] \in Int
      BY FS_Subset
    <3>2. SumOver(f, T) = f[x] + SumOver(f, T \ {x}) /\ SumOver(g, T) = g[x] + SumOver(g, T \ {x})
      BY <2>2, <3>1, SumOverWithout
    <3>3. SumOver(f, T \ {x}) <= SumOver(g, T \ {x}) /\ f[x] <= g[x]
      BY <1>1, <2>2
    <3>4. /\ SumOver(f, T \ {x}) \in Int /\ SumOver(g, T \ {x}) \in Int
          /\ f[x] \in Int /\ g[x] \in Int
      BY <2>2, <3>1, SumOverInt
    <3>5. SumOver(f, T) <= SumOver(g, T)
      BY <3>2, <3>3, <3>4
    <3> QED
      BY <3>5
  <2> QED
    BY <2>1, <2>2
<1>2. P \in SUBSET (SUBSET S)
  OBVIOUS
<1>3. S \in P
  <2> HIDE DEF P
  <2> QED
    BY <1>1, <1>2, FiniteInduction
<1> QED
  BY <1>3

\* A sum of nothing but zeros.
LEMMA SumOverZero ==
  ASSUME NEW S, IsFiniteSet(S), NEW f, \A x \in S : f[x] = 0
  PROVE  SumOver(f, S) = 0
<1> DEFINE P == {T \in SUBSET S : SumOver(f, T) = 0}
<1>1. ASSUME NEW T \in SUBSET S, \A x \in T : T \ {x} \in P PROVE T \in P
  <2>1. CASE T = {}
    BY <2>1, SumOverEmpty
  <2>2. ASSUME NEW x \in T PROVE T \in P
    <3>1. IsFiniteSet(T) /\ \A y \in T : f[y] \in Int
      BY FS_Subset
    <3>2. SumOver(f, T) = f[x] + SumOver(f, T \ {x})
      BY <2>2, <3>1, SumOverWithout
    <3>3. SumOver(f, T \ {x}) = 0 /\ f[x] = 0
      BY <1>1, <2>2
    <3>4. SumOver(f, T) = 0
      BY <3>2, <3>3
    <3> QED
      BY <3>4
  <2> QED
    BY <2>1, <2>2
<1>2. P \in SUBSET (SUBSET S)
  OBVIOUS
<1>3. S \in P
  <2> HIDE DEF P
  <2> QED
    BY <1>1, <1>2, FiniteInduction
<1> QED
  BY <1>3

\* A sum of natural numbers is a natural number.
LEMMA SumOverNat ==
  ASSUME NEW S, IsFiniteSet(S), NEW f, \A x \in S : f[x] \in Nat
  PROVE  SumOver(f, S) \in Nat
<1> DEFINE z == [x \in S |-> 0]
<1>1. SumOver(z, S) = 0
  BY SumOverZero
<1>2. SumOver(z, S) <= SumOver(f, S)
  BY SumOverMonotone
<1>3. SumOver(f, S) \in Int
  BY SumOverInt
<1> QED
  BY <1>1, <1>2, <1>3

\* One term changes.
LEMMA SumOverChange ==
  ASSUME NEW S, IsFiniteSet(S), NEW f, NEW g, NEW j \in S,
         \A x \in S : f[x] \in Int /\ g[x] \in Int,
         \A x \in S : x # j => g[x] = f[x]
  PROVE  SumOver(g, S) = SumOver(f, S) + g[j] - f[j]
<1>1. IsFiniteSet(S \ {j})
  BY FS_Subset
<1>2. SumOver(g, S \ {j}) = SumOver(f, S \ {j}) /\ SumOver(f, S \ {j}) \in Int
  BY <1>1, SumOverSame, SumOverInt
<1>3. SumOver(f, S) = f[j] + SumOver(f, S \ {j}) /\ SumOver(g, S) = g[j] + SumOver(g, S \ {j})
  BY SumOverWithout
<1>4. f[j] \in Int /\ g[j] \in Int
  OBVIOUS
<1> QED
  BY <1>2, <1>3, <1>4

\* A sum whose terms are at most c, and nothing outside T.
LEMMA SumOverBounded ==
  ASSUME NEW S, IsFiniteSet(S), NEW T, NEW c \in Nat, NEW f,
         \A x \in S : f[x] \in Int /\ f[x] <= c,
         \A x \in S : x \notin T => f[x] = 0
  PROVE  SumOver(f, S) <= c * Cardinality(S \cap T)
<1> DEFINE P == {U \in SUBSET S : SumOver(f, U) <= c * Cardinality(U \cap T)}
<1>1. ASSUME NEW U \in SUBSET S, \A x \in U : U \ {x} \in P PROVE U \in P
  <2>1. CASE U = {}
    <3>1. U \cap T = {} /\ Cardinality({}) = 0 /\ SumOver(f, U) = 0
      BY <2>1, FS_EmptySet, SumOverEmpty
    <3>2. SumOver(f, U) <= c * Cardinality(U \cap T)
      BY <3>1
    <3> QED
      BY <3>2
  <2>2. ASSUME NEW x \in U PROVE U \in P
    <3> DEFINE V == U \ {x}
               n == Cardinality(V \cap T)
    <3>1. IsFiniteSet(U) /\ IsFiniteSet(V) /\ IsFiniteSet(V \cap T)
      BY FS_Subset
    <3>2. n \in Nat
      BY <3>1, FS_CardinalityType
    <3>3. SumOver(f, U) = f[x] + SumOver(f, V)
      <4>1. \A y \in U : f[y] \in Int
        OBVIOUS
      <4> QED
        BY <3>1, <4>1, SumOverWithout
    <3>4. SumOver(f, V) \in Int
      <4>1. \A y \in V : f[y] \in Int
        OBVIOUS
      <4> QED
        BY <3>1, <4>1, SumOverInt
    <3>5. SumOver(f, V) <= c * n
      BY <1>1
    <3>6. f[x] \in Int /\ f[x] <= c /\ (x \notin T => f[x] = 0)
      OBVIOUS
    <3>7. CASE x \in T
      <4>1. U \cap T = (V \cap T) \cup {x} /\ x \notin V \cap T
        BY <3>7
      <4>2. Cardinality(U \cap T) = n + 1
        <5> HIDE DEF V
        <5> QED
          BY <3>1, <4>1, FS_AddElement
      <4>3. c * (n + 1) = c * n + c /\ c * n \in Int
        <5> HIDE DEF n
        <5> QED
          BY <3>2
      <4> HIDE DEF n, V
      <4>4. SumOver(f, U) <= c * (n + 1)
        BY <3>3, <3>4, <3>5, <3>6, <4>3
      <4> QED
        BY <4>2, <4>4
    <3>8. CASE x \notin T
      <4>1. U \cap T = V \cap T
        BY <3>8
      <4>2. SumOver(f, U) = SumOver(f, V)
        <5> HIDE DEF V
        <5> QED
          BY <3>3, <3>4, <3>6, <3>8
      <4> QED
        BY <3>5, <4>1, <4>2
    <3> QED
      BY <3>7, <3>8
  <2> QED
    BY <2>1, <2>2
<1>2. P \in SUBSET (SUBSET S)
  OBVIOUS
<1>3. S \in P
  <2> HIDE DEF P
  <2> QED
    BY <1>1, <1>2, FiniteInduction
<1> QED
  BY <1>3

=============================================================================
