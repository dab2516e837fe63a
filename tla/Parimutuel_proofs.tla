-------------------------- MODULE Parimutuel_proofs --------------------------
(***************************************************************************)
(* Facts about the parimutuel arithmetic, for books of any size, stakes    *)
(* and rake: amounts stay natural, and settleParimutuel pays out, with the *)
(* rake, exactly what was staked.                                          *)
(***************************************************************************)
EXTENDS Parimutuel, Sums_proofs

(***************************************************************************)
(* Part 1: ranks.  In a finite set that R orders strictly and totally, as  *)
(* many members have a rank below u as there are numbers below u.          *)
(***************************************************************************)
StrictOrder(R, W) ==
  /\ \A i \in W : <<i, i>> \notin R
  /\ \A i, j, k \in W : <<i, j>> \in R /\ <<j, k>> \in R => <<i, k>> \in R
  /\ \A i, j \in W : i # j => <<i, j>> \in R \/ <<j, i>> \in R

Below(R, W, i) == {j \in W : <<j, i>> \in R}

\* A member that comes before another has the lower rank.
LEMMA RankGrows ==
  ASSUME NEW W, IsFiniteSet(W), NEW R, StrictOrder(R, W),
         NEW i \in W, NEW j \in W, <<i, j>> \in R
  PROVE  Cardinality(Below(R, W, i)) < Cardinality(Below(R, W, j))
<1>1. /\ IsFiniteSet(Below(R, W, i)) /\ IsFiniteSet(Below(R, W, j))
      /\ Cardinality(Below(R, W, i)) \in Nat /\ Cardinality(Below(R, W, j)) \in Nat
  BY FS_Subset, FS_CardinalityType DEF Below
<1>2. Below(R, W, i) \cup {i} \in SUBSET Below(R, W, j) /\ i \notin Below(R, W, i)
  BY DEF Below, StrictOrder
<1>3. Cardinality(Below(R, W, i) \cup {i}) = Cardinality(Below(R, W, i)) + 1
  BY <1>1, <1>2, FS_AddElement
<1>4. Cardinality(Below(R, W, i) \cup {i}) <= Cardinality(Below(R, W, j))
  BY <1>1, <1>2, FS_Subset
<1> QED
  BY <1>1, <1>3, <1>4

\* No two members have the same rank, and no rank reaches the size of the set.
LEMMA RankIsInjective ==
  ASSUME NEW W, IsFiniteSet(W), NEW R, StrictOrder(R, W)
  PROVE  [i \in W |-> Cardinality(Below(R, W, i))] \in Injection(W, 0..(Cardinality(W) - 1))
<1> DEFINE rank == [i \in W |-> Cardinality(Below(R, W, i))]
<1>1. Cardinality(W) \in Nat
  BY FS_CardinalityType
<1>2. ASSUME NEW i \in W PROVE rank[i] \in 0..(Cardinality(W) - 1)
  <2>1. Below(R, W, i) \in SUBSET (W \ {i})
    BY DEF Below, StrictOrder
  <2>2. IsFiniteSet(W \ {i}) /\ Cardinality(W \ {i}) = Cardinality(W) - 1
    BY FS_RemoveElement
  <2>3. IsFiniteSet(Below(R, W, i)) /\ Cardinality(Below(R, W, i)) <= Cardinality(W) - 1
    BY <2>1, <2>2, FS_Subset
  <2>4. Cardinality(Below(R, W, i)) \in Nat
    BY <2>3, FS_CardinalityType
  <2> QED
    BY <1>1, <2>3, <2>4
<1>3. ASSUME NEW i \in W, NEW j \in W, rank[i] = rank[j] PROVE i = j
  <2>1. CASE <<i, j>> \in R
    BY <1>1, <1>2, <1>3, <2>1, RankGrows
  <2>2. CASE <<j, i>> \in R
    BY <1>1, <1>2, <1>3, <2>2, RankGrows
  <2> QED
    BY <2>1, <2>2 DEF StrictOrder
<1> HIDE DEF rank
<1>4. rank \in [W -> 0..(Cardinality(W) - 1)]
  BY <1>2 DEF rank
<1>5. rank \in Injection(W, 0..(Cardinality(W) - 1))
  BY <1>3, <1>4 DEF Injection, IsInjective
<1> QED
  BY <1>5 DEF rank

\* As many members have a rank below u as there are numbers below u.
LEMMA RanksBelow ==
  ASSUME NEW W, IsFiniteSet(W), NEW R, StrictOrder(R, W),
         NEW u \in Nat, u <= Cardinality(W)
  PROVE  Cardinality({i \in W : Cardinality(Below(R, W, i)) < u}) = u
<1> DEFINE n == Cardinality(W)
           rank == [i \in W |-> Cardinality(Below(R, W, i))]
           L == {i \in W : Cardinality(Below(R, W, i)) < u}
           f == [i \in L |-> rank[i]]
<1>1. n \in Nat
  BY FS_CardinalityType
<1>2. rank \in Injection(W, 0..(n - 1))
  BY RankIsInjective
<1>3. L = {i \in W : rank[i] < u}
  OBVIOUS
<1> HIDE DEF n, rank
<1>4. IsFiniteSet(0..(n - 1)) /\ Cardinality(0..(n - 1)) = n
  <2>1. n - 1 \in Int /\ 0 \in Int
    BY <1>1
  <2>2. /\ IsFiniteSet(0..(n - 1))
        /\ Cardinality(0..(n - 1)) = IF 0 > n - 1 THEN 0 ELSE (n - 1) - 0 + 1
    BY <2>1, FS_Interval
  <2> QED
    BY <1>1, <2>2
<1>5. rank \in Surjection(W, 0..(n - 1))
  BY <1>2, <1>4, FS_Injection DEF n
<1>6. f \in Bijection(L, 0..(u - 1))
  <2>1. \A i \in L : f[i] \in 0..(u - 1)
    BY <1>1, <1>2, <1>3 DEF Injection
  <2>2. \A i, j \in L : f[i] = f[j] => i = j
    BY <1>2 DEF Injection, IsInjective
  <2>3. ASSUME NEW m \in 0..(u - 1) PROVE \E i \in L : f[i] = m
    <3>1. m \in 0..(n - 1)
      BY <1>1 DEF n
    <3>2. PICK i \in W : rank[i] = m
      BY <1>5, <3>1 DEF Surjection
    <3> QED
      BY <1>3, <3>2
  <2> HIDE DEF L, f
  <2>4. f \in [L -> 0..(u - 1)]
    BY <2>1 DEF f
  <2> QED
    BY <2>2, <2>3, <2>4 DEF Bijection, Injection, Surjection, IsInjective
<1>7. IsFiniteSet(L)
  BY FS_Subset
<1> HIDE DEF L, f
<1>8. Cardinality(0..(u - 1)) = Cardinality(L)
  BY <1>6, <1>7, FS_Bijection DEF ExistsBijection
<1>9. Cardinality(0..(u - 1)) = u
  BY FS_Interval
<1> QED
  BY <1>8, <1>9 DEF L

-----------------------------------------------------------------------------
(***************************************************************************)
(* Part 2: the arithmetic stays within the natural numbers.                *)
(***************************************************************************)
USE MaxEntriesAssumption

\* Products of natural numbers are natural numbers.
LEMMA ProductNat ==
  ASSUME NEW a \in Nat, NEW b \in Nat
  PROVE  a * b \in Nat
OBVIOUS

\* The BigInt division of allocatePrizePool and calculateRakeAmount.
LEMMA QuotientNat ==
  ASSUME NEW a \in Nat, NEW b \in Nat, b > 0
  PROVE  a \div b \in Nat
OBVIOUS

\* Quotient and remainder.
LEMMA DivisionSplits ==
  ASSUME NEW a \in Nat, NEW b \in Nat, b > 0
  PROVE  /\ a \div b \in Nat /\ a % b \in Nat
         /\ a = (a \div b) * b + (a % b)
         /\ a % b < b
OBVIOUS

\* A product with a positive number is negative, zero or positive as the other factor is.
LEMMA FactorBounds ==
  ASSUME NEW x \in Int, NEW y \in Int, NEW c \in Nat, c > 0
  PROVE  /\ x * c <= y * c => x <= y
         /\ x * c = y * c => x = y
         /\ x * c < y * c => x < y
OBVIOUS

\* A book of entries: stakes are natural numbers, times can be compared.
IsBook(book) ==
  /\ DOMAIN book \subseteq EntryIds
  /\ \A i \in DOMAIN book : /\ book[i].amount \in Nat
                            /\ book[i].placedAt \in Int
                            /\ book[i].side \in Sides

\* The stakes of any set of entries add up to a natural number.
LEMMA StakedNat ==
  ASSUME NEW book, IsBook(book), NEW S
  PROVE  Staked(book, S) \in Nat
<1> DEFINE v == [i \in EntryIds |-> IF i \in S \cap DOMAIN book THEN book[i].amount ELSE 0]
<1>1. \A k \in 1..MaxEntries : v[k] \in Nat
  BY DEF IsBook, EntryIds
<1> HIDE DEF v
<1>2. SumTo(v, MaxEntries) \in Nat
  BY <1>1, SumToNat
<1> QED
  BY <1>2 DEF Staked, v

\* The rake is never more than the losing pool it is taken from.
LEMMA RakeWithinPool ==
  ASSUME NEW pool \in Nat, NEW bps \in 0..RakeDenominatorBps
  PROVE  /\ CalculateRakeAmount(pool, bps) \in Nat
         /\ CalculateRakeAmount(pool, bps) <= pool
<1> DEFINE p == pool * bps
<1>1. bps \in Nat /\ bps <= 10000
  BY DEF RakeDenominatorBps
<1>2. p \in Nat /\ p <= pool * 10000
  BY <1>1
<1> HIDE DEF p
<1>3. p \div 10000 \in Nat /\ p \div 10000 <= pool
  BY <1>2
<1> QED
  BY <1>3 DEF CalculateRakeAmount, RakeDenominatorBps, p

-----------------------------------------------------------------------------
(***************************************************************************)
(* Part 3: allocatePrizePool gives away the prize pool, all of it and no   *)
(* more.                                                                   *)
(***************************************************************************)
\* What is left of a stake's exact share when the floor is taken off.
LEMMA ShareSplits ==
  ASSUME NEW book, IsBook(book), NEW i \in DOMAIN book,
         NEW winPool \in Nat, winPool > 0, NEW prizePool \in Nat
  PROVE  /\ BaseWinnings(book, i, winPool, prizePool) \in Nat
         /\ Remainder(book, i, winPool, prizePool) \in Nat
         /\ Remainder(book, i, winPool, prizePool) < winPool
         /\ book[i].amount * prizePool = BaseWinnings(book, i, winPool, prizePool) * winPool
                                           + Remainder(book, i, winPool, prizePool)
<1>1. book[i].amount * prizePool \in Nat
  BY ProductNat DEF IsBook
<1> QED
  BY <1>1, DivisionSplits DEF BaseWinnings, Remainder

\* The winners whose share is not a whole number of units.
Fractional(book, winners, winPool, prizePool) ==
  {i \in winners : Remainder(book, i, winPool, prizePool) > 0}

\* The floors leave over no more units than there are shares that are not whole.
LEMMA LeftOver ==
  ASSUME NEW book, IsBook(book), NEW winners, winners \subseteq DOMAIN book,
         Staked(book, winners) > 0, NEW prizePool \in Nat
  PROVE  LET winPool == Staked(book, winners)
             left == prizePool
                       - SumTo([i \in EntryIds |-> IF i \in winners
                                  THEN BaseWinnings(book, i, winPool, prizePool) ELSE 0],
                               MaxEntries)
         IN  /\ left \in Nat
             /\ left <= Cardinality(Fractional(book, winners, winPool, prizePool))
             /\ left <= Cardinality(winners)
<1> DEFINE winPool == Staked(book, winners)
           stake == [i \in EntryIds |-> IF i \in winners \cap DOMAIN book
                                        THEN book[i].amount ELSE 0]
           base  == [i \in EntryIds |-> IF i \in winners
                       THEN BaseWinnings(book, i, winPool, prizePool) ELSE 0]
           rem   == [i \in EntryIds |-> IF i \in winners
                       THEN Remainder(book, i, winPool, prizePool) ELSE 0]
           some  == Fractional(book, winners, winPool, prizePool)
           one   == [i \in EntryIds |-> IF i \in some THEN 1 ELSE 0]
           share == [i \in EntryIds |-> stake[i] * prizePool]
           floor == [i \in EntryIds |-> base[i] * winPool]
           whole == [i \in EntryIds |-> one[i] * winPool]
           left  == prizePool - SumTo(base, MaxEntries)
           R     == SumTo(rem, MaxEntries)
<1>1. winPool \in Nat /\ winPool > 0 /\ winPool = SumTo(stake, MaxEntries)
  BY StakedNat DEF Staked
<1> HIDE DEF winPool
<1>2. \A i \in winners : /\ i \in EntryIds /\ i \in DOMAIN book /\ book[i].amount \in Nat
                         /\ BaseWinnings(book, i, winPool, prizePool) \in Nat
                         /\ Remainder(book, i, winPool, prizePool) \in Nat
                         /\ Remainder(book, i, winPool, prizePool) < winPool
                         /\ book[i].amount * prizePool
                              = BaseWinnings(book, i, winPool, prizePool) * winPool
                                  + Remainder(book, i, winPool, prizePool)
  BY <1>1, ShareSplits DEF IsBook
<1>3. \A k \in 1..MaxEntries : /\ stake[k] \in Nat /\ base[k] \in Nat /\ rem[k] \in Nat
                               /\ one[k] \in Nat
                               /\ stake[k] * prizePool = base[k] * winPool + rem[k]
                               /\ rem[k] <= one[k] * winPool
                               /\ one[k] = IF k \in some THEN 1 ELSE 0
  BY <1>1, <1>2 DEF EntryIds, Fractional
<1> HIDE DEF stake, base, rem, one, some
<1>4. \A k \in 1..MaxEntries : /\ share[k] = stake[k] * prizePool
                               /\ floor[k] = base[k] * winPool
                               /\ whole[k] = one[k] * winPool
  BY DEF EntryIds
<1>5. \A k \in 1..MaxEntries : /\ share[k] \in Int /\ floor[k] \in Int /\ whole[k] \in Int
                               /\ share[k] = floor[k] + rem[k] /\ rem[k] <= whole[k]
  <2> HIDE DEF share, floor, whole
  <2> TAKE k \in 1..MaxEntries
  <2>1. base[k] * winPool \in Nat /\ one[k] * winPool \in Nat /\ rem[k] \in Nat
    BY <1>1, <1>3, ProductNat
  <2> QED
    BY <1>3, <1>4, <2>1
<1> HIDE DEF share, floor, whole
<1>6. SumTo(share, MaxEntries) = winPool * prizePool
  <2>1. prizePool \in Int /\ \A k \in 1..MaxEntries : stake[k] \in Int /\ share[k] = stake[k] * prizePool
    BY <1>3, <1>4
  <2> QED
    BY <1>1, <2>1, SumToScale
<1>7. SumTo(floor, MaxEntries) = SumTo(base, MaxEntries) * winPool
  <2>1. winPool \in Int /\ \A k \in 1..MaxEntries : base[k] \in Int /\ floor[k] = base[k] * winPool
    BY <1>1, <1>3, <1>4
  <2> QED
    BY <2>1, SumToScale
<1>8. SumTo(whole, MaxEntries) = Cardinality(some) * winPool
  <2>1. some \in SUBSET (1..MaxEntries)
    BY <1>2 DEF EntryIds, some, Fractional
  <2>2. SumTo(one, MaxEntries) = Cardinality(some)
    BY <1>3, <2>1, SumToCounts
  <2>3. winPool \in Int /\ \A k \in 1..MaxEntries : one[k] \in Int /\ whole[k] = one[k] * winPool
    BY <1>1, <1>3, <1>4
  <2>4. SumTo(whole, MaxEntries) = SumTo(one, MaxEntries) * winPool
    BY <2>3, SumToScale
  <2> QED
    BY <2>2, <2>4
<1>9. SumTo(share, MaxEntries) = SumTo(floor, MaxEntries) + R
  BY <1>3, <1>5, SumToAdd
<1>10. R <= SumTo(whole, MaxEntries) /\ R \in Nat
  BY <1>3, <1>5, SumToMonotone, SumToNat
<1>11. SumTo(base, MaxEntries) \in Nat
  BY <1>3, SumToNat
<1>12. /\ Cardinality(winners) \in Nat /\ Cardinality(some) \in Nat
       /\ Cardinality(some) <= Cardinality(winners)
  <2>1. IsFiniteSet(1..MaxEntries) /\ winners \in SUBSET (1..MaxEntries)
    BY <1>2, FS_Interval DEF EntryIds
  <2>2. IsFiniteSet(winners) /\ some \in SUBSET winners
    BY <2>1, FS_Subset DEF some, Fractional
  <2> QED
    BY <2>2, FS_Subset, FS_CardinalityType
<1> HIDE DEF R
<1>13. left \in Int /\ left * winPool = R
  BY <1>1, <1>6, <1>7, <1>9, <1>10, <1>11
<1> HIDE DEF left
<1>14. 0 * winPool <= left * winPool /\ left * winPool <= Cardinality(some) * winPool
  BY <1>1, <1>8, <1>10, <1>13
<1>15. 0 <= left /\ left <= Cardinality(some)
  BY <1>1, <1>12, <1>13, <1>14, FactorBounds
<1>16. left \in Nat /\ left <= Cardinality(winners)
  BY <1>12, <1>13, <1>15
<1> QED
  BY <1>15, <1>16 DEF left, base, winPool, some

\* compareRemainderDrafts is a strict total order on the winners.
LEMMA RemainderOrder ==
  ASSUME NEW book, IsBook(book), NEW winners, winners \subseteq DOMAIN book,
         NEW winPool \in Nat, winPool > 0, NEW prizePool \in Nat
  PROVE  StrictOrder({p \in winners \X winners :
                        RemainderBefore(book, p[1], p[2], winPool, prizePool)}, winners)
<1> DEFINE r == [i \in winners |-> Remainder(book, i, winPool, prizePool)]
           t == [i \in winners |-> book[i].placedAt]
           R == {p \in winners \X winners :
                   RemainderBefore(book, p[1], p[2], winPool, prizePool)}
<1>1. \A i \in winners : i \in Int /\ r[i] \in Int /\ t[i] \in Int
  BY ShareSplits DEF IsBook, EntryIds
<1>2. \A i, j \in winners :
        <<i, j>> \in R <=> (\/ r[i] > r[j]
                            \/ r[i] = r[j] /\ t[i] < t[j]
                            \/ r[i] = r[j] /\ t[i] = t[j] /\ i < j)
  BY DEF RemainderBefore
<1> HIDE DEF R, r, t
<1>3. \A i \in winners : <<i, i>> \notin R
  BY <1>1, <1>2
<1>4. ASSUME NEW i \in winners, NEW j \in winners, NEW k \in winners,
             <<i, j>> \in R, <<j, k>> \in R
      PROVE  <<i, k>> \in R
  BY <1>1, <1>2, <1>4
<1>5. ASSUME NEW i \in winners, NEW j \in winners, i # j
      PROVE  <<i, j>> \in R \/ <<j, i>> \in R
  BY <1>1, <1>2, <1>5
<1> QED
  BY <1>3, <1>4, <1>5 DEF StrictOrder, R

\* Every winner gets the floor of its share or one unit more, nobody else anything.
LEMMA WinningsNat ==
  ASSUME NEW book, IsBook(book), NEW winners, winners \subseteq DOMAIN book,
         NEW winPool \in Nat, winPool > 0, NEW prizePool \in Nat
  PROVE  LET a == AllocatePrizePool(book, winners, winPool, prizePool)
         IN  /\ DOMAIN a = winners
             /\ \A i \in winners : /\ a[i] \in Nat
                                   /\ \/ a[i] = BaseWinnings(book, i, winPool, prizePool)
                                      \/ a[i] = BaseWinnings(book, i, winPool, prizePool) + 1
<1>1. \A i \in winners : BaseWinnings(book, i, winPool, prizePool) \in Nat
  BY ShareSplits
<1> QED
  BY <1>1 DEF AllocatePrizePool

\* The winnings add up to the prize pool, whatever the roundings were.
LEMMA AllocationConserves ==
  ASSUME NEW book, IsBook(book), NEW winners, winners \subseteq DOMAIN book,
         Staked(book, winners) > 0, NEW prizePool \in Nat
  PROVE  SumTo([i \in EntryIds |-> IF i \in winners
                  THEN AllocatePrizePool(book, winners, Staked(book, winners), prizePool)[i]
                  ELSE 0], MaxEntries) = prizePool
<1> DEFINE winPool == Staked(book, winners)
           R == {p \in winners \X winners :
                   RemainderBefore(book, p[1], p[2], winPool, prizePool)}
           base  == [i \in EntryIds |-> IF i \in winners
                       THEN BaseWinnings(book, i, winPool, prizePool) ELSE 0]
           left  == prizePool - SumTo(base, MaxEntries)
           first == {i \in winners : Cardinality(Below(R, winners, i)) < left}
           one   == [i \in EntryIds |-> IF i \in first THEN 1 ELSE 0]
           a     == AllocatePrizePool(book, winners, winPool, prizePool)
           paid  == [i \in EntryIds |-> IF i \in winners THEN a[i] ELSE 0]
<1>1. winPool \in Nat /\ winPool > 0
  BY StakedNat
<1>2. left \in Nat /\ left <= Cardinality(winners)
  BY LeftOver
<1>3. StrictOrder(R, winners)
  BY <1>1, RemainderOrder
<1>4. IsFiniteSet(winners) /\ winners \in SUBSET (1..MaxEntries)
  <2>1. IsFiniteSet(1..MaxEntries) /\ winners \in SUBSET (1..MaxEntries)
    BY FS_Interval DEF IsBook, EntryIds
  <2> QED
    BY <2>1, FS_Subset
<1>5. \A i \in winners : Below(R, winners, i)
                           = {j \in winners : RemainderBefore(book, j, i, winPool, prizePool)}
  BY DEF Below
<1>6. \A i \in winners : BaseWinnings(book, i, winPool, prizePool) \in Nat
  BY <1>1, ShareSplits
<1> HIDE DEF winPool, R
<1>7. a = [i \in winners |-> IF i \in first
                             THEN BaseWinnings(book, i, winPool, prizePool) + 1
                             ELSE BaseWinnings(book, i, winPool, prizePool)]
  BY <1>5 DEF AllocatePrizePool
<1> HIDE DEF left, a
<1>8. Cardinality(first) = left
  BY <1>2, <1>3, <1>4, RanksBelow
<1>9. first \subseteq winners
  OBVIOUS
<1> HIDE DEF first
<1>10. \A k \in 1..MaxEntries : /\ base[k] \in Nat /\ one[k] \in Nat /\ paid[k] = base[k] + one[k]
                                /\ one[k] = IF k \in first THEN 1 ELSE 0
  BY <1>6, <1>7, <1>9 DEF EntryIds
<1> HIDE DEF base, one, paid
<1>11. SumTo(paid, MaxEntries) = SumTo(base, MaxEntries) + SumTo(one, MaxEntries)
  BY <1>10, SumToAdd
<1>12. SumTo(one, MaxEntries) = left
  BY <1>4, <1>8, <1>9, <1>10, SumToCounts
<1>13. SumTo(base, MaxEntries) \in Nat
  BY <1>10, SumToNat
<1>14. SumTo(paid, MaxEntries) = prizePool
  BY <1>11, <1>12, <1>13 DEF left
<1> QED
  BY <1>14 DEF paid, a, winPool

\* A unit is never given to a winner whose share is whole.
LEMMA NoUnitForWholeShare ==
  ASSUME NEW book, IsBook(book), NEW winners, winners \subseteq DOMAIN book,
         Staked(book, winners) > 0, NEW prizePool \in Nat, NEW i \in winners,
         Remainder(book, i, Staked(book, winners), prizePool) = 0
  PROVE  AllocatePrizePool(book, winners, Staked(book, winners), prizePool)[i]
           = BaseWinnings(book, i, Staked(book, winners), prizePool)
<1> DEFINE winPool == Staked(book, winners)
           some  == Fractional(book, winners, winPool, prizePool)
           ahead == {j \in winners : RemainderBefore(book, j, i, winPool, prizePool)}
           left  == prizePool
                       - SumTo([k \in EntryIds |-> IF k \in winners
                                  THEN BaseWinnings(book, k, winPool, prizePool) ELSE 0],
                               MaxEntries)
<1>1. left \in Nat /\ left <= Cardinality(some)
  BY LeftOver
<1>2. winPool \in Nat /\ winPool > 0
  BY StakedNat
<1>3. some \in SUBSET ahead /\ ahead \in SUBSET winners
  BY DEF Fractional, RemainderBefore
<1>4. IsFiniteSet(ahead)
  <2>1. IsFiniteSet(1..MaxEntries) /\ ahead \in SUBSET (1..MaxEntries)
    BY FS_Interval DEF IsBook, EntryIds
  <2> QED
    BY <2>1, FS_Subset
<1>5. /\ Cardinality(some) <= Cardinality(ahead)
      /\ Cardinality(some) \in Nat /\ Cardinality(ahead) \in Nat
  BY <1>3, <1>4, FS_Subset, FS_CardinalityType
<1>6. AllocatePrizePool(book, winners, winPool, prizePool)[i]
        = IF Cardinality(ahead) < left THEN BaseWinnings(book, i, winPool, prizePool) + 1
          ELSE BaseWinnings(book, i, winPool, prizePool)
  BY DEF AllocatePrizePool
<1> HIDE DEF left, ahead, some, winPool
<1>7. ~ (Cardinality(ahead) < left)
  BY <1>1, <1>5
<1> QED
  BY <1>6, <1>7 DEF winPool

\* Of two winners with the same floor, the one that comes first wins no less.
LEMMA FirstWinsNoLess ==
  ASSUME NEW book, IsBook(book), NEW winners, winners \subseteq DOMAIN book,
         Staked(book, winners) > 0, NEW prizePool \in Nat, NEW i \in winners, NEW j \in winners,
         RemainderBefore(book, i, j, Staked(book, winners), prizePool),
         BaseWinnings(book, i, Staked(book, winners), prizePool)
           = BaseWinnings(book, j, Staked(book, winners), prizePool)
  PROVE  AllocatePrizePool(book, winners, Staked(book, winners), prizePool)[i]
           >= AllocatePrizePool(book, winners, Staked(book, winners), prizePool)[j]
<1> DEFINE winPool == Staked(book, winners)
           R == {p \in winners \X winners :
                   RemainderBefore(book, p[1], p[2], winPool, prizePool)}
           b == BaseWinnings(book, i, winPool, prizePool)
           left  == prizePool
                       - SumTo([k \in EntryIds |-> IF k \in winners
                                  THEN BaseWinnings(book, k, winPool, prizePool) ELSE 0],
                               MaxEntries)
           a == AllocatePrizePool(book, winners, winPool, prizePool)
<1>1. winPool \in Nat /\ winPool > 0
  BY StakedNat
<1>2. left \in Nat
  BY LeftOver
<1>3. StrictOrder(R, winners)
  BY <1>1, RemainderOrder
<1>4. IsFiniteSet(winners)
  <2>1. IsFiniteSet(1..MaxEntries) /\ winners \in SUBSET (1..MaxEntries)
    BY FS_Interval DEF IsBook, EntryIds
  <2> QED
    BY <2>1, FS_Subset
<1>5. \A k \in winners : Below(R, winners, k)
                           = {l \in winners : RemainderBefore(book, l, k, winPool, prizePool)}
  BY DEF Below
<1>6. <<i, j>> \in R
  OBVIOUS
<1>7. b \in Nat
  BY <1>1, ShareSplits
<1> HIDE DEF R, winPool
<1>8. /\ a[i] = IF Cardinality(Below(R, winners, i)) < left THEN b + 1 ELSE b
      /\ a[j] = IF Cardinality(Below(R, winners, j)) < left THEN b + 1 ELSE b
  BY <1>5 DEF AllocatePrizePool, winPool
<1> HIDE DEF left, b, a
<1>9. Cardinality(Below(R, winners, i)) < Cardinality(Below(R, winners, j))
  BY <1>3, <1>4, <1>6, RankGrows
<1>10. /\ Cardinality(Below(R, winners, i)) \in Nat
       /\ Cardinality(Below(R, winners, j)) \in Nat
  BY <1>4, FS_Subset, FS_CardinalityType DEF Below
<1> QED
  BY <1>2, <1>7, <1>8, <1>9, <1>10 DEF a, winPool

-----------------------------------------------------------------------------
(***************************************************************************)
(* Part 4: settleParimutuel.                                               *)
(***************************************************************************)
\* The other side of the other side.
LEMMA SidesOpposed ==
  ASSUME NEW side \in Sides
  PROVE  /\ OtherSide(side) \in Sides /\ OtherSide(side) # side
         /\ \A s \in Sides : s = side \/ s = OtherSide(side)
BY DEF Sides, OtherSide

\* Every entry is on one of the two sides: the pools add up to what was staked.
LEMMA PoolsAddUp ==
  ASSUME NEW book, IsBook(book), NEW side \in Sides
  PROVE  Staked(book, DOMAIN book) = Staked(book, EntriesOn(book, side))
                                       + Staked(book, EntriesOn(book, OtherSide(side)))
<1> DEFINE on(S) == [i \in EntryIds |-> IF i \in S \cap DOMAIN book THEN book[i].amount ELSE 0]
           all  == on(DOMAIN book)
           this == on(EntriesOn(book, side))
           that == on(EntriesOn(book, OtherSide(side)))
<1>1. \A k \in 1..MaxEntries : this[k] \in Int /\ that[k] \in Int /\ all[k] = this[k] + that[k]
  BY SidesOpposed DEF IsBook, EntriesOn, EntryIds
<1> HIDE DEF all, this, that
<1>2. SumTo(all, MaxEntries) = SumTo(this, MaxEntries) + SumTo(that, MaxEntries)
  BY <1>1, SumToAdd
<1> QED
  BY <1>2 DEF Staked, all, this, that

\* What settleParimutuel returns when somebody has won.
LEMMA SettlementFields ==
  ASSUME NEW book, IsBook(book), NEW outcome \in Sides, NEW bps \in 0..RakeDenominatorBps,
         SettleParimutuel(book, outcome, bps).kind = "settled"
  PROVE  LET r        == SettleParimutuel(book, outcome, bps)
             winners  == EntriesOn(book, outcome)
             winPool  == Staked(book, winners)
             losePool == Staked(book, EntriesOn(book, OtherSide(outcome)))
         IN  /\ winners \subseteq DOMAIN book /\ losePool \in Nat
             /\ winPool \in Nat /\ winPool > 0
             /\ r.rakeAmount = CalculateRakeAmount(losePool, bps)
             /\ r.rakeAmount \in Nat /\ losePool - r.rakeAmount \in Nat
             /\ r.totalStaked = winPool + losePool
             /\ r.payouts = [i \in DOMAIN book |->
                  IF i \in winners
                  THEN book[i].amount
                         + AllocatePrizePool(book, winners, winPool, losePool - r.rakeAmount)[i]
                  ELSE 0]
<1> DEFINE winners  == EntriesOn(book, outcome)
           winPool  == Staked(book, winners)
           losePool == Staked(book, EntriesOn(book, OtherSide(outcome)))
           rake     == CalculateRakeAmount(losePool, bps)
<1>1. winPool \in Nat /\ losePool \in Nat
  BY StakedNat
<1>2. rake \in Nat /\ losePool - rake \in Nat
  <2> HIDE DEF losePool
  <2> QED
    BY <1>1, RakeWithinPool
<1>3. winners \subseteq DOMAIN book
  BY DEF EntriesOn
<1>4. /\ CalculatePoolTotals(book)[outcome] = winPool
      /\ CalculatePoolTotals(book)[OtherSide(outcome)] = losePool
  BY SidesOpposed DEF CalculatePoolTotals
<1> HIDE DEF winPool, losePool, winners, rake
<1>5. winPool # 0
  BY <1>4 DEF SettleParimutuel
<1>6. /\ SettleParimutuel(book, outcome, bps).rakeAmount = rake
      /\ SettleParimutuel(book, outcome, bps).totalStaked = winPool + losePool
      /\ SettleParimutuel(book, outcome, bps).payouts = [i \in DOMAIN book |->
           IF i \in winners
           THEN book[i].amount
                  + AllocatePrizePool(book, winners, winPool, losePool - rake)[i]
           ELSE 0]
  BY <1>4, <1>5 DEF SettleParimutuel, rake, winners
<1> QED
  BY <1>1, <1>2, <1>3, <1>5, <1>6 DEF winPool, losePool, winners, rake

\* What settleParimutuel pays and rakes are natural numbers.
LEMMA SettlementNat ==
  ASSUME NEW book, IsBook(book), NEW outcome \in Sides, NEW bps \in 0..RakeDenominatorBps,
         SettleParimutuel(book, outcome, bps).kind = "settled"
  PROVE  /\ SettleParimutuel(book, outcome, bps).rakeAmount \in Nat
         /\ \A i \in DOMAIN book : SettleParimutuel(book, outcome, bps).payouts[i] \in Nat
<1> DEFINE r        == SettleParimutuel(book, outcome, bps)
           winners  == EntriesOn(book, outcome)
           winPool  == Staked(book, winners)
           prize    == Staked(book, EntriesOn(book, OtherSide(outcome))) - r.rakeAmount
           winnings == AllocatePrizePool(book, winners, winPool, prize)
<1>1. /\ winners \subseteq DOMAIN book /\ winPool \in Nat /\ winPool > 0
      /\ r.rakeAmount \in Nat /\ prize \in Nat
      /\ r.payouts = [i \in DOMAIN book |-> IF i \in winners THEN book[i].amount + winnings[i] ELSE 0]
  BY SettlementFields
<1> HIDE DEF r, winners, winPool, prize
<1>2. \A i \in winners : winnings[i] \in Nat
  BY <1>1, WinningsNat
<1> HIDE DEF winnings
<1>3. \A i \in DOMAIN book : r.payouts[i] \in Nat
  BY <1>1, <1>2 DEF IsBook
<1> QED
  BY <1>1, <1>3 DEF r

\* Money is conserved: payouts and rake add up to the stakes.
LEMMA SettlementConserves ==
  ASSUME NEW book, IsBook(book), NEW outcome \in Sides, NEW bps \in 0..RakeDenominatorBps,
         SettleParimutuel(book, outcome, bps).kind = "settled"
  PROVE  LET r == SettleParimutuel(book, outcome, bps)
         IN  /\ SumTo([i \in EntryIds |-> IF i \in DOMAIN book THEN r.payouts[i] ELSE 0],
                      MaxEntries) + r.rakeAmount = Staked(book, DOMAIN book)
             /\ r.totalStaked = Staked(book, DOMAIN book)
<1> DEFINE r        == SettleParimutuel(book, outcome, bps)
           winners  == EntriesOn(book, outcome)
           winPool  == Staked(book, winners)
           losePool == Staked(book, EntriesOn(book, OtherSide(outcome)))
           prize    == losePool - r.rakeAmount
           winnings == AllocatePrizePool(book, winners, winPool, prize)
           paid  == [i \in EntryIds |-> IF i \in DOMAIN book THEN r.payouts[i] ELSE 0]
           stake == [i \in EntryIds |-> IF i \in winners \cap DOMAIN book
                                        THEN book[i].amount ELSE 0]
           won   == [i \in EntryIds |-> IF i \in winners THEN winnings[i] ELSE 0]
<1>1. /\ winners \subseteq DOMAIN book /\ winPool \in Nat /\ winPool > 0 /\ losePool \in Nat
      /\ r.rakeAmount \in Nat /\ prize \in Nat
      /\ r.totalStaked = winPool + losePool
      /\ r.payouts = [i \in DOMAIN book |-> IF i \in winners THEN book[i].amount + winnings[i] ELSE 0]
  BY SettlementFields
<1>2. SumTo(stake, MaxEntries) = winPool
  BY DEF Staked
<1>3. Staked(book, DOMAIN book) = winPool + losePool
  BY PoolsAddUp
<1> HIDE DEF r, prize, losePool, winners
<1>4. SumTo(won, MaxEntries) = prize
  BY <1>1, AllocationConserves
<1>5. \A i \in winners : winnings[i] \in Nat
  BY <1>1, WinningsNat
<1> HIDE DEF winPool, winnings
<1>6. \A k \in 1..MaxEntries : stake[k] \in Int /\ won[k] \in Int /\ paid[k] = stake[k] + won[k]
  BY <1>1, <1>5 DEF IsBook, EntryIds
<1> HIDE DEF stake, won, paid
<1>7. SumTo(paid, MaxEntries) = winPool + prize
  BY <1>2, <1>4, <1>6, SumToAdd
<1>8. SumTo(paid, MaxEntries) + r.rakeAmount = winPool + losePool
  BY <1>1, <1>7 DEF prize
<1> QED
  BY <1>1, <1>3, <1>8 DEF paid, r

-----------------------------------------------------------------------------
(***************************************************************************)
(* Part 5: one entry more.                                                 *)
(***************************************************************************)
\* placed is the book with the new entry e under id.
BookWith(book, placed, id, e) ==
  /\ id \in EntryIds /\ id \notin DOMAIN book
  /\ DOMAIN placed = DOMAIN book \cup {id}
  /\ placed[id] = e
  /\ \A i \in DOMAIN book : placed[i] = book[i]

\* The stakes of a set of entries grow by the new one's if it is in the set.
LEMMA StakedWithEntry ==
  ASSUME NEW book, IsBook(book), NEW placed, NEW id, NEW e, BookWith(book, placed, id, e),
         e.amount \in Nat, NEW S, id \notin S
  PROVE  /\ Staked(placed, S) = Staked(book, S)
         /\ Staked(placed, S \cup {id}) = Staked(book, S) + e.amount
<1> DEFINE u == [i \in EntryIds |-> IF i \in S \cap DOMAIN book THEN book[i].amount ELSE 0]
           v == [i \in EntryIds |-> IF i \in S \cap DOMAIN placed THEN placed[i].amount ELSE 0]
           w == [i \in EntryIds |-> IF i \in (S \cup {id}) \cap DOMAIN placed
                                    THEN placed[i].amount ELSE 0]
<1>1. \A k \in 1..MaxEntries : u[k] = v[k]
  BY DEF BookWith, EntryIds
<1>2. \A k \in 1..MaxEntries : /\ u[k] \in Int
                               /\ w[k] = IF k = id THEN u[k] + e.amount ELSE u[k]
  BY DEF BookWith, EntryIds, IsBook
<1> HIDE DEF u, v, w
<1>3. SumTo(u, MaxEntries) = SumTo(v, MaxEntries)
  BY <1>1, SumToSame
<1>4. id \in 1..MaxEntries /\ e.amount \in Int
  BY DEF BookWith, EntryIds
<1>5. SumTo(w, MaxEntries) = SumTo(u, MaxEntries) + e.amount
  <2> DEFINE d == e.amount
  <2>1. d \in Int /\ w[id] = u[id] + d
    BY <1>2, <1>4
  <2>2. /\ \A k \in 1..MaxEntries : u[k] \in Int
        /\ \A k \in 1..MaxEntries : k # id => w[k] = u[k]
    BY <1>2
  <2> HIDE DEF d
  <2>3. SumTo(w, MaxEntries) = SumTo(u, MaxEntries) + d
    BY <1>4, <2>1, <2>2, SumToChange
  <2> QED
    BY <2>3 DEF d
<1> QED
  BY <1>3, <1>5 DEF Staked, u, v, w

\* The new entry joins its own side's pool and leaves the other alone.
LEMMA EntryJoinsItsSide ==
  ASSUME NEW book, IsBook(book), NEW placed, NEW id, NEW e, BookWith(book, placed, id, e),
         e.amount \in Nat, e.placedAt \in Int, e.side \in Sides
  PROVE  /\ IsBook(placed)
         /\ id \in EntriesOn(placed, e.side)
         /\ placed[id] = e
         /\ Staked(placed, EntriesOn(placed, e.side))
              = Staked(book, EntriesOn(book, e.side)) + e.amount
         /\ Staked(placed, EntriesOn(placed, OtherSide(e.side)))
              = Staked(book, EntriesOn(book, OtherSide(e.side)))
<1>1. IsBook(placed)
  BY DEF IsBook, BookWith
<1>2. /\ EntriesOn(placed, e.side) = EntriesOn(book, e.side) \cup {id}
      /\ EntriesOn(placed, OtherSide(e.side)) = EntriesOn(book, OtherSide(e.side))
  BY SidesOpposed DEF EntriesOn, BookWith
<1>3. id \notin EntriesOn(book, e.side) /\ id \notin EntriesOn(book, OtherSide(e.side))
  BY DEF EntriesOn, BookWith
<1>4. id \in EntriesOn(placed, e.side) /\ placed[id] = e
  BY DEF EntriesOn, BookWith
<1>5. Staked(placed, EntriesOn(book, e.side) \cup {id})
        = Staked(book, EntriesOn(book, e.side)) + e.amount
  BY <1>3, StakedWithEntry
<1>6. Staked(placed, EntriesOn(book, OtherSide(e.side)))
        = Staked(book, EntriesOn(book, OtherSide(e.side)))
  <2> DEFINE T == EntriesOn(book, OtherSide(e.side))
  <2>1. id \notin T
    BY <1>3
  <2> HIDE DEF T
  <2>2. /\ Staked(placed, T) = Staked(book, T)
        /\ Staked(placed, T \cup {id}) = Staked(book, T) + e.amount
    BY <2>1, StakedWithEntry
  <2> QED
    BY <2>2 DEF T
<1> QED
  BY <1>1, <1>2, <1>4, <1>5, <1>6

=============================================================================
