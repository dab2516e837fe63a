------------------------- MODULE DotCastPool_proofs -------------------------
(***************************************************************************)
(* Proofs about DotCastPool and the USDC pool entry protocol around it,    *)
(* for any number of users, entries, polls and gateway requests, any       *)
(* stakes, rake and times.  FlowAssumptions is not used: the proofs about  *)
(* the pool are for either unit.                                           *)
(***************************************************************************)
EXTENDS UsdcPoolFlow, Parimutuel_proofs

USE MaxEntriesAssumption, PoolAssumptions DEF Times, AlarmTimes

(***************************************************************************)
(* Part 1: the functions on snapshots.  A good snapshot is well typed, has *)
(* resolved its entries together, and its totals and balances are what the *)
(* entries say; it has paid nothing unless it is settled.                  *)
(***************************************************************************)
ResolvedTogether(s) ==
  \A i \in DOMAIN s.entries :
    /\ s.entries[i].paid <=> s.status = "settled"
    /\ s.entries[i].refunded <=> s.status = "voided"

UnpaidUnlessSettled(s) ==
  s.status # "settled" => \A i \in DOMAIN s.entries : s.entries[i].payout = 0

StakedBy(s, u) == Staked(s.entries, EntriesOf(s, u))

PoolsMatch(s) == s.pools = CalculatePoolTotals(s.entries)

LockedMatch(s) ==
  \A u \in Users : s.balances[u].locked = IF Terminal(s) THEN 0 ELSE StakedBy(s, u)

AvailableMatch(s) ==
  \A u \in Users :
    s.balances[u].available =
      SeedBalance.available - (IF Unit = "points" THEN StakedBy(s, u) ELSE 0)
        + (IF s.status = "voided" THEN StakedBy(s, u) ELSE Payouts(s, u))

PaidOut(s) ==
  SumTo([i \in EntryIds |->
          IF i \in DOMAIN s.entries THEN s.entries[i].payout ELSE 0], MaxEntries)

RakeMatches(s) ==
  /\ s.status = "settled" => PaidOut(s) + s.houseRake = Staked(s.entries, DOMAIN s.entries)
  /\ s.status # "settled" => s.houseRake = 0

Balanced(s) ==
  UnpaidUnlessSettled(s) /\ PoolsMatch(s) /\ LockedMatch(s) /\ AvailableMatch(s) /\ RakeMatches(s)

Good(s) == IsSnapshot(s) /\ ResolvedTogether(s) /\ Balanced(s)

\* Same wagers, whatever became of them.
SameWagers(s, t) == Wagers(t) = Wagers(s)

\* The entries of a snapshot are a book the arithmetic applies to.
LEMMA EntriesAreABook ==
  ASSUME NEW s, IsSnapshot(s)
  PROVE  IsBook(s.entries)
<1>1. PICK S \in SUBSET EntryIds : s \in SnapshotOver(S)
  BY DEF IsSnapshot
<1>2. DOMAIN s.entries = S /\ \A i \in S : s.entries[i] \in EntryType
  BY <1>1 DEF SnapshotOver
<1>3. \A e \in EntryType : e.amount \in Amounts /\ e.placedAt \in Times /\ e.side \in Sides
  BY DEF EntryType
<1>4. (\A a \in Amounts : a \in Nat) /\ (\A t \in Times : t \in Int)
  OBVIOUS
<1> QED
  BY <1>2, <1>3, <1>4 DEF IsBook

\* What a user has at stake is a natural number.
LEMMA AtStakeNat ==
  ASSUME NEW s, IsSnapshot(s), NEW u
  PROVE  AtStake(s, u) \in Nat
BY EntriesAreABook, StakedNat DEF AtStake

\* An entry with what became of it written down.
Refunded(e) == [e EXCEPT !.paid = FALSE, !.payout = 0, !.refunded = TRUE]
Paid(e, payout) == [e EXCEPT !.paid = TRUE, !.payout = payout, !.refunded = FALSE]

\* f is the same wager as e.
SameWager(e, f) ==
  f.user = e.user /\ f.side = e.side /\ f.amount = e.amount /\ f.placedAt = e.placedAt

\* A refund keeps the wager and marks the entry.
LEMMA RefundedEntry ==
  ASSUME NEW e \in EntryType
  PROVE  /\ Refunded(e) \in EntryType
         /\ ~ Refunded(e).paid /\ Refunded(e).refunded /\ Refunded(e).payout = 0
         /\ SameWager(e, Refunded(e))
<1>1. Refunded(e) \in EntryType /\ SameWager(e, Refunded(e))
  BY DEF Refunded, EntryType, SameWager
<1>2. ~ Refunded(e).paid /\ Refunded(e).refunded /\ Refunded(e).payout = 0
  BY DEF Refunded, EntryType
<1> QED BY <1>1, <1>2

\* A payment keeps the wager and marks the entry.
LEMMA PaidEntry ==
  ASSUME NEW e \in EntryType, NEW payout \in Nat
  PROVE  /\ Paid(e, payout) \in EntryType
         /\ Paid(e, payout).paid /\ ~ Paid(e, payout).refunded /\ Paid(e, payout).payout = payout
         /\ SameWager(e, Paid(e, payout))
<1>1. Paid(e, payout) \in EntryType /\ SameWager(e, Paid(e, payout))
  BY DEF Paid, EntryType, SameWager
<1>2. Paid(e, payout).paid /\ ~ Paid(e, payout).refunded /\ Paid(e, payout).payout = payout
  BY DEF Paid, EntryType
<1> QED BY <1>1, <1>2

\* Two snapshots with the same wagers have the same sums of stakes.
LEMMA SameStakes ==
  ASSUME NEW s, NEW t, IsSnapshot(s), IsSnapshot(t), SameWagers(s, t)
  PROVE  /\ DOMAIN t.entries = DOMAIN s.entries
         /\ \A S : Staked(t.entries, S) = Staked(s.entries, S)
         /\ \A u : EntriesOf(t, u) = EntriesOf(s, u) /\ StakedBy(t, u) = StakedBy(s, u)
         /\ CalculatePoolTotals(t.entries) = CalculatePoolTotals(s.entries)
<1>1. DOMAIN Wagers(s) = DOMAIN s.entries /\ DOMAIN Wagers(t) = DOMAIN t.entries
  BY DEF Wagers
<1>2. DOMAIN t.entries = DOMAIN s.entries
  BY <1>1 DEF SameWagers
<1>3. \A i \in DOMAIN s.entries : SameWager(s.entries[i], t.entries[i])
  <2> TAKE i \in DOMAIN s.entries
  <2>1. Wagers(s)[i] = Wagers(t)[i]
    BY DEF SameWagers
  <2>2. <<s.entries[i].user, s.entries[i].side, s.entries[i].amount, s.entries[i].placedAt>>
          = <<t.entries[i].user, t.entries[i].side, t.entries[i].amount, t.entries[i].placedAt>>
    BY <1>2, <2>1 DEF Wagers
  <2> QED
    BY <2>2 DEF SameWager
<1>4. ASSUME NEW S PROVE Staked(t.entries, S) = Staked(s.entries, S)
  BY <1>2, <1>3 DEF Staked, SameWager
<1>5. \A u : EntriesOf(t, u) = EntriesOf(s, u)
  BY <1>2, <1>3 DEF EntriesOf, SameWager
<1>6. \A u : StakedBy(t, u) = StakedBy(s, u)
  BY <1>4, <1>5 DEF StakedBy
<1>7. \A side : EntriesOn(t.entries, side) = EntriesOn(s.entries, side)
  BY <1>2, <1>3 DEF EntriesOn, SameWager
<1>8. CalculatePoolTotals(t.entries) = CalculatePoolTotals(s.entries)
  BY <1>4, <1>7 DEF CalculatePoolTotals
<1> QED
  BY <1>2, <1>4, <1>5, <1>6, <1>8

\* As long as nothing is refunded, all of a user's entries are at stake.
LEMMA AllAtStake ==
  ASSUME NEW s, ResolvedTogether(s), s.status # "voided", NEW u
  PROVE  AtStake(s, u) = StakedBy(s, u)
<1>1. {i \in EntriesOf(s, u) : ~ s.entries[i].refunded} = EntriesOf(s, u)
  BY DEF ResolvedTogether, EntriesOf
<1> QED
  BY <1>1 DEF AtStake, StakedBy

\* An entry that is not paid adds nothing to the payouts.
LEMMA NoPayouts ==
  ASSUME NEW s, UnpaidUnlessSettled(s), s.status # "settled", NEW u
  PROVE  Payouts(s, u) = 0
<1> DEFINE v == [i \in EntryIds |-> IF i \in EntriesOf(s, u) THEN s.entries[i].payout ELSE 0]
<1>1. \A k \in 1..MaxEntries : v[k] = 0
  BY DEF UnpaidUnlessSettled, EntriesOf, EntryIds
<1> HIDE DEF v
<1>2. SumTo(v, MaxEntries) = 0
  BY <1>1, SumToNothing
<1> QED
  BY <1>2 DEF Payouts, v

\* A sum of natural payouts is a natural number.
LEMMA StakedByNat ==
  ASSUME NEW s, IsSnapshot(s), NEW u
  PROVE  StakedBy(s, u) \in Nat
BY EntriesAreABook, StakedNat DEF StakedBy

\* The seed is a natural number.
LEMMA SeedNat == SeedBalance.available \in Nat /\ SeedBalance.locked = 0
BY DEF SeedBalance

\* Without entries there is nothing to balance.
LEMMA EmptyBalanced ==
  ASSUME NEW s, DOMAIN s.entries = {}, s.status \in {"absent", "open"},
         s.pools = NoSnapshot.pools, s.balances = NoSnapshot.balances, s.houseRake = 0
  PROVE  Balanced(s)
<1>1. ASSUME NEW S PROVE Staked(s.entries, S) = 0
  <2> DEFINE v == [i \in EntryIds |-> IF i \in S \cap DOMAIN s.entries
                                      THEN s.entries[i].amount ELSE 0]
  <2>1. \A k \in 1..MaxEntries : v[k] = 0
    BY DEF EntryIds
  <2> HIDE DEF v
  <2>2. SumTo(v, MaxEntries) = 0
    BY <2>1, SumToNothing
  <2> QED
    BY <2>2 DEF Staked, v
<1>2. UnpaidUnlessSettled(s) /\ RakeMatches(s)
  BY DEF UnpaidUnlessSettled, RakeMatches
<1>3. PoolsMatch(s)
  BY <1>1 DEF PoolsMatch, CalculatePoolTotals, NoSnapshot
<1>4. \A u \in Users : StakedBy(s, u) = 0 /\ Payouts(s, u) = 0 /\ s.balances[u] = SeedBalance
  BY <1>1, <1>2, NoPayouts DEF StakedBy, NoSnapshot
<1>5. LockedMatch(s)
  BY <1>4, SeedNat DEF LockedMatch, Terminal
<1>6. AvailableMatch(s)
  BY <1>4, SeedNat DEF AvailableMatch
<1> QED
  BY <1>2, <1>3, <1>5, <1>6 DEF Balanced

\* A pool that does not exist yet has nothing to resolve.
LEMMA NoSnapshotGood == Good(NoSnapshot)
<1>1. NoSnapshot.entries \in [{} -> EntryType]
  BY DEF NoSnapshot, NoEntries
<1>2. NoSnapshot \in SnapshotOver({})
  BY <1>1 DEF NoSnapshot, NoEntries, SnapshotOver, SeedBalance
<1>3. ResolvedTogether(NoSnapshot)
  BY DEF ResolvedTogether, NoSnapshot, NoEntries
<1>4. Balanced(NoSnapshot)
  <2>1. /\ DOMAIN NoSnapshot.entries = {} /\ NoSnapshot.status = "absent"
        /\ NoSnapshot.houseRake = 0
    BY DEF NoSnapshot, NoEntries
  <2> QED
    BY <2>1, EmptyBalanced
<1> QED
  BY <1>2, <1>3, <1>4 DEF Good, IsSnapshot

\* voidPoolSnapshot refunds every entry and keeps every wager.
LEMMA VoidGood ==
  ASSUME NEW s, Good(s), CanVoid(s),
         NEW reason \in VoidReasons, NEW outcome \in Outcomes \cup {"null"}
  PROVE  /\ Good(VoidPoolSnapshot(s, reason, outcome))
         /\ SameWagers(s, VoidPoolSnapshot(s, reason, outcome))
         /\ VoidPoolSnapshot(s, reason, outcome).status = "voided"
<1> DEFINE t == VoidPoolSnapshot(s, reason, outcome)
<1>1. CASE s.status = "voided"
  BY <1>1 DEF VoidPoolSnapshot, SameWagers
<1>2. CASE s.status # "voided"
  <2> DEFINE es == [i \in DOMAIN s.entries |-> Refunded(s.entries[i])]
             bs == [u \in Users |->
                     [available |-> s.balances[u].available + AtStake(s, u),
                      locked    |-> s.balances[u].locked - AtStake(s, u)]]
  <2>1. PICK S \in SUBSET EntryIds : s \in SnapshotOver(S)
    BY DEF Good, IsSnapshot
  <2>2. \A u \in Users : AtStake(s, u) \in Nat /\ s.balances[u].locked >= AtStake(s, u)
    BY <1>2, AtStakeNat DEF CanVoid, LocksCoverStakes, Good
  <2>3. DOMAIN s.entries = S /\ \A i \in S : s.entries[i] \in EntryType
    BY <2>1 DEF SnapshotOver
  <2>4. bs \in [Users -> [available : Nat, locked : Nat]]
    BY <2>1, <2>2 DEF SnapshotOver
  <2>5. \A i \in S : /\ es[i] \in EntryType /\ SameWager(s.entries[i], es[i])
                     /\ ~ es[i].paid /\ es[i].refunded /\ es[i].payout = 0
    BY <2>3, RefundedEntry
  <2> HIDE DEF bs
  <2>6. t = [s EXCEPT !.status = "voided", !.outcome = outcome, !.entries = es,
                      !.balances = bs, !.voidReason = reason]
    BY <1>2 DEF VoidPoolSnapshot, bs, Refunded
  <2>7. es \in [S -> EntryType] /\ DOMAIN es = S
    BY <2>3, <2>5
  <2> HIDE DEF es, t
  <2>8. /\ t \in SnapshotOver(S) /\ t.status = "voided" /\ t.entries = es
        /\ t.balances = bs /\ t.pools = s.pools /\ t.houseRake = s.houseRake
    BY <2>1, <2>4, <2>6, <2>7 DEF SnapshotOver
  <2>9. ResolvedTogether(t)
    BY <2>5, <2>7, <2>8 DEF ResolvedTogether
  <2>10. SameWagers(s, t)
    BY <2>3, <2>5, <2>7, <2>8 DEF SameWagers, Wagers, SameWager
  <2>11. Balanced(t)
    <3>1. IsSnapshot(t) /\ IsSnapshot(s) /\ s.status # "settled" /\ ~ Terminal(s) /\ Terminal(t)
      BY <1>2, <2>1, <2>8 DEF IsSnapshot, CanVoid, Terminal
    <3>2. UnpaidUnlessSettled(t)
      BY <2>5, <2>7, <2>8 DEF UnpaidUnlessSettled
    <3>3. PoolsMatch(t)
      BY <2>8, <2>10, <3>1, SameStakes DEF Good, Balanced, PoolsMatch
    <3>4. ASSUME NEW u \in Users
          PROVE  /\ t.balances[u].locked = 0
                 /\ t.balances[u].available =
                      SeedBalance.available
                        - (IF Unit = "points" THEN StakedBy(t, u) ELSE 0) + StakedBy(t, u)
      <4>1. /\ t.balances[u].available = s.balances[u].available + AtStake(s, u)
            /\ t.balances[u].locked = s.balances[u].locked - AtStake(s, u)
        BY <2>8 DEF bs
      <4>2. AtStake(s, u) = StakedBy(s, u) /\ StakedBy(t, u) = StakedBy(s, u)
        BY <1>2, <2>10, <3>1, AllAtStake, SameStakes DEF Good
      <4>3. s.balances[u].locked = StakedBy(s, u)
        BY <3>1 DEF Good, Balanced, LockedMatch
      <4>4. Payouts(s, u) = 0
        BY <3>1, NoPayouts DEF Good, Balanced
      <4>5. s.balances[u].available = SeedBalance.available
              - (IF Unit = "points" THEN StakedBy(s, u) ELSE 0) + 0
        BY <1>2, <4>4 DEF Good, Balanced, AvailableMatch
      <4> QED
        BY <3>1, <4>1, <4>2, <4>3, <4>5, StakedByNat, SeedNat
    <3>5. LockedMatch(t) /\ AvailableMatch(t)
      BY <2>8, <3>1, <3>4 DEF LockedMatch, AvailableMatch
    <3>6. RakeMatches(t)
      BY <2>8, <3>1 DEF RakeMatches, Good, Balanced
    <3> QED
      BY <3>2, <3>3, <3>5, <3>6 DEF Balanced
  <2> QED
    BY <2>8, <2>9, <2>10, <2>11 DEF Good, IsSnapshot, t
<1> QED BY <1>1, <1>2

\* A settlement with winners pays every entry and keeps every wager.
LEMMA SettledGood ==
  ASSUME NEW s, Good(s), ~ Terminal(s), LocksCoverStakes(s), NEW outcome \in Sides,
         SettleParimutuel(s.entries, outcome, RakeBps).kind = "settled"
  PROVE  LET t == Settled(s, outcome, SettleParimutuel(s.entries, outcome, RakeBps))
         IN  Good(t) /\ SameWagers(s, t) /\ t.status = "settled"
<1> DEFINE r == SettleParimutuel(s.entries, outcome, RakeBps)
           t == Settled(s, outcome, r)
           es == [i \in DOMAIN s.entries |-> Paid(s.entries[i], r.payouts[i])]
           bs == [u \in Users |->
                   [available |-> s.balances[u].available + PaidTo(s, u, r),
                    locked    |-> s.balances[u].locked - Staked(s.entries, EntriesOf(s, u))]]
<1>1. PICK S \in SUBSET EntryIds : s \in SnapshotOver(S)
  BY DEF Good, IsSnapshot
<1>2. DOMAIN s.entries = S /\ \A i \in S : s.entries[i] \in EntryType
  BY <1>1 DEF SnapshotOver
<1>3. IsBook(s.entries)
  BY EntriesAreABook DEF Good
<1>4. r.rakeAmount \in Nat /\ \A i \in S : r.payouts[i] \in Nat
  BY <1>2, <1>3, SettlementNat
<1> HIDE DEF r
<1>5. \A u \in Users : PaidTo(s, u, r) \in Nat
  <2> TAKE u \in Users
  <2> DEFINE v == [i \in EntryIds |-> IF i \in EntriesOf(s, u) THEN r.payouts[i] ELSE 0]
  <2>1. \A k \in 1..MaxEntries : v[k] \in Nat
    BY <1>2, <1>4 DEF EntriesOf, EntryIds
  <2> HIDE DEF v
  <2>2. SumTo(v, MaxEntries) \in Nat
    BY <2>1, SumToNat
  <2> QED
    BY <2>2 DEF PaidTo, v
<1>6. \A u \in Users : /\ Staked(s.entries, EntriesOf(s, u)) \in Nat
                       /\ s.balances[u].locked >= Staked(s.entries, EntriesOf(s, u))
  <2> TAKE u \in Users
  <2>1. {i \in EntriesOf(s, u) : ~ s.entries[i].refunded} = EntriesOf(s, u)
    BY DEF Good, ResolvedTogether, Terminal, EntriesOf
  <2>2. AtStake(s, u) = Staked(s.entries, EntriesOf(s, u))
    BY <2>1 DEF AtStake
  <2> QED
    BY <1>3, <2>2, StakedNat DEF LocksCoverStakes
<1>7. bs \in [Users -> [available : Nat, locked : Nat]]
  BY <1>1, <1>5, <1>6 DEF SnapshotOver
<1>8. \A i \in S : /\ es[i] \in EntryType /\ SameWager(s.entries[i], es[i])
                   /\ es[i].paid /\ ~ es[i].refunded /\ es[i].payout = r.payouts[i]
  BY <1>2, <1>4, PaidEntry
<1>9. es \in [S -> EntryType] /\ DOMAIN es = S
  BY <1>2, <1>8
<1> DEFINE h == s.houseRake + r.rakeAmount
<1>10. h \in Nat
  BY <1>1, <1>4 DEF SnapshotOver
<1> HIDE DEF bs, h
<1>11. t = [s EXCEPT !.status = "settled", !.outcome = outcome, !.entries = es,
                     !.balances = bs, !.houseRake = h, !.voidReason = "null"]
  BY DEF Settled, bs, h, Paid
<1> HIDE DEF es, t
<1>12. /\ t \in SnapshotOver(S) /\ t.status = "settled" /\ t.entries = es
       /\ t.balances = bs /\ t.pools = s.pools /\ t.houseRake = h
  BY <1>1, <1>7, <1>9, <1>10, <1>11 DEF SnapshotOver, Outcomes
<1>13. ResolvedTogether(t)
  BY <1>8, <1>9, <1>12 DEF ResolvedTogether
<1>14. SameWagers(s, t)
  BY <1>2, <1>8, <1>9, <1>12 DEF SameWagers, Wagers, SameWager
<1>15. Balanced(t)
  <2>1. IsSnapshot(t) /\ IsSnapshot(s) /\ s.status # "settled" /\ s.status # "voided" /\ Terminal(t)
    BY <1>1, <1>12 DEF IsSnapshot, Terminal
  <2>2. UnpaidUnlessSettled(t)
    BY <1>12 DEF UnpaidUnlessSettled
  <2>3. PoolsMatch(t)
    BY <1>12, <1>14, <2>1, SameStakes DEF Good, Balanced, PoolsMatch
  <2>4. \A u \in Users : /\ EntriesOf(t, u) = EntriesOf(s, u) /\ StakedBy(t, u) = StakedBy(s, u)
                         /\ EntriesOf(s, u) \subseteq S
    BY <1>2, <1>14, <2>1, SameStakes DEF EntriesOf
  <2>5. \A u \in Users : Payouts(t, u) = PaidTo(s, u, r)
    BY <1>8, <1>12, <2>4 DEF Payouts, PaidTo
  <2>6. ASSUME NEW u \in Users
        PROVE  /\ t.balances[u].locked = 0
               /\ t.balances[u].available =
                    SeedBalance.available
                      - (IF Unit = "points" THEN StakedBy(t, u) ELSE 0) + Payouts(t, u)
    <3>1. /\ t.balances[u].available = s.balances[u].available + PaidTo(s, u, r)
          /\ t.balances[u].locked = s.balances[u].locked - StakedBy(s, u)
      BY <1>12 DEF bs, StakedBy
    <3>2. s.balances[u].locked = StakedBy(s, u)
      BY DEF Good, Balanced, LockedMatch
    <3>3. Payouts(s, u) = 0
      BY <2>1, NoPayouts DEF Good, Balanced
    <3>4. s.balances[u].available = SeedBalance.available
            - (IF Unit = "points" THEN StakedBy(s, u) ELSE 0) + 0
      BY <2>1, <3>3 DEF Good, Balanced, AvailableMatch
    <3>5. StakedBy(s, u) \in Nat
      BY <2>1, StakedByNat
    <3> QED
      BY <1>5, <2>4, <2>5, <3>1, <3>2, <3>4, <3>5, SeedNat
  <2>7. LockedMatch(t) /\ AvailableMatch(t)
    BY <1>12, <2>1, <2>6 DEF LockedMatch, AvailableMatch
  <2>8. PaidOut(t) + t.houseRake = Staked(t.entries, DOMAIN t.entries)
    <3>1. SumTo([i \in EntryIds |-> IF i \in S THEN r.payouts[i] ELSE 0], MaxEntries)
            + r.rakeAmount = Staked(s.entries, S)
      BY <1>2, <1>3, SettlementConserves DEF r
    <3>2. PaidOut(t) = SumTo([i \in EntryIds |-> IF i \in S THEN r.payouts[i] ELSE 0], MaxEntries)
      BY <1>8, <1>9, <1>12 DEF PaidOut
    <3>3. t.houseRake = r.rakeAmount
      <4>1. s.houseRake = 0
        BY <2>1 DEF Good, Balanced, RakeMatches
      <4> QED
        BY <1>4, <1>12, <4>1 DEF h
    <3>4. Staked(t.entries, DOMAIN t.entries) = Staked(s.entries, S)
      BY <1>2, <1>14, <2>1, SameStakes
    <3> QED
      BY <3>1, <3>2, <3>3, <3>4
  <2>9. RakeMatches(t)
    BY <1>12, <2>8 DEF RakeMatches
  <2> QED
    BY <2>2, <2>3, <2>7, <2>9 DEF Balanced
<1> QED
  BY <1>12, <1>13, <1>14, <1>15 DEF Good, IsSnapshot, t, r

\* A status from which the book may still grow.
Growing(s) == s.status \in {"absent", "open"}

\* settlePoolSnapshot always ends in a terminal snapshot with the same wagers.
LEMMA SettleGood ==
  ASSUME NEW s, Good(s), s.status # "absent", NEW outcome \in Outcomes, CanSettle(s, outcome)
  PROVE  LET t == SettlePoolSnapshot(s, outcome)
         IN  Good(t) /\ SameWagers(s, t) /\ Terminal(t)
<1> DEFINE r == SettleParimutuel(s.entries, outcome, RakeBps)
           t == SettlePoolSnapshot(s, outcome)
<1>1. CASE Terminal(s)
  BY <1>1 DEF SettlePoolSnapshot, SameWagers
<1> SUFFICES ASSUME ~ Terminal(s) PROVE Good(t) /\ SameWagers(s, t) /\ Terminal(t)
  BY <1>1
<1>2. LocksCoverStakes(s) /\ CanVoid(s) /\ s.outcome \in Outcomes \cup {"null"}
  BY DEF CanSettle, CanVoid, Terminal, Good, IsSnapshot, SnapshotOver
<1>3. CASE outcome = "invalid"
  <2>1. t = VoidPoolSnapshot(s, "INVALID_RESOLUTION", "invalid")
    BY <1>3 DEF SettlePoolSnapshot
  <2> QED
    BY <1>2, <2>1, VoidGood DEF Terminal, VoidReasons, Outcomes
<1>4. CASE outcome # "invalid" /\ r.kind = "void_required"
  <2>1. t = VoidPoolSnapshot(s, "NO_WINNING_ENTRIES", s.outcome)
    BY <1>4 DEF SettlePoolSnapshot
  <2> QED
    BY <1>2, <2>1, VoidGood DEF Terminal, VoidReasons, Outcomes
<1>5. CASE outcome # "invalid" /\ r.kind # "void_required"
  <2>1. outcome \in Sides /\ r.kind = "settled"
    BY <1>5 DEF Outcomes, SettleParimutuel
  <2>2. t = Settled(s, outcome, r)
    BY <1>5 DEF SettlePoolSnapshot
  <2> QED
    BY <1>2, <2>1, <2>2, SettledGood DEF Terminal
<1> QED
  BY <1>3, <1>4, <1>5

\* lockSnapshotIfNeeded keeps the wagers and never opens a pool again.
LEMMA LockGood ==
  ASSUME NEW s, Good(s), NEW now, CanLock(s, now)
  PROVE  LET t == LockSnapshotIfNeeded(s, now)
         IN  /\ Good(t) /\ SameWagers(s, t)
             /\ t.status = "absent" <=> s.status = "absent"
             /\ Growing(t) => Growing(s)
<1> DEFINE t == LockSnapshotIfNeeded(s, now)
<1>1. CASE ~ LockDue(s, now)
  BY <1>1 DEF LockSnapshotIfNeeded, SameWagers
<1>2. CASE LockDue(s, now) /\ LockVoidReason(s) # "null"
  <2>1. t = VoidPoolSnapshot(s, LockVoidReason(s), s.outcome)
    BY <1>2 DEF LockSnapshotIfNeeded
  <2>2. LockVoidReason(s) \in VoidReasons /\ s.outcome \in Outcomes \cup {"null"}
    BY <1>2 DEF LockVoidReason, VoidReasons, Good, IsSnapshot, SnapshotOver
  <2>3. CanVoid(s) /\ s.status = "open"
    BY <1>2 DEF CanLock, LockDue
  <2> QED
    BY <2>1, <2>2, <2>3, VoidGood DEF Growing
<1>3. CASE LockDue(s, now) /\ LockVoidReason(s) = "null"
  <2>1. t = [s EXCEPT !.status = "locked"] /\ s.status = "open"
    BY <1>3 DEF LockSnapshotIfNeeded, LockDue
  <2>2. PICK S \in SUBSET EntryIds : s \in SnapshotOver(S)
    BY DEF Good, IsSnapshot
  <2>3. /\ t \in SnapshotOver(S) /\ t.status = "locked" /\ t.entries = s.entries
        /\ t.balances = s.balances /\ t.pools = s.pools /\ t.houseRake = s.houseRake
    BY <2>1, <2>2 DEF SnapshotOver
  <2> HIDE DEF t
  <2>4. ResolvedTogether(t) /\ SameWagers(s, t)
    BY <2>1, <2>3 DEF Good, ResolvedTogether, SameWagers, Wagers
  <2>5. Balanced(t)
    <3>1. \A u : EntriesOf(t, u) = EntriesOf(s, u)
      BY <2>3 DEF EntriesOf
    <3>2. \A u : StakedBy(t, u) = StakedBy(s, u) /\ Payouts(t, u) = Payouts(s, u)
      BY <2>3, <3>1 DEF StakedBy, Payouts
    <3>3. ~ Terminal(s) /\ ~ Terminal(t) /\ Balanced(s)
      BY <2>1, <2>3 DEF Terminal, Good
    <3>4. UnpaidUnlessSettled(t) /\ PoolsMatch(t) /\ RakeMatches(t)
      BY <2>1, <2>3, <3>3 DEF Balanced, UnpaidUnlessSettled, PoolsMatch, RakeMatches
    <3>5. LockedMatch(t) /\ AvailableMatch(t)
      BY <2>1, <2>3, <3>2, <3>3 DEF Balanced, LockedMatch, AvailableMatch
    <3> QED
      BY <3>4, <3>5 DEF Balanced
  <2> QED
    BY <2>1, <2>3, <2>4, <2>5 DEF Good, IsSnapshot, Growing, t
<1> QED
  BY <1>1, <1>2, <1>3

\* lockSnapshotIfNeeded leaves a terminal snapshot alone.
LEMMA LockFinal ==
  ASSUME NEW s, NEW now, Terminal(s)
  PROVE  LockSnapshotIfNeeded(s, now) = s
BY DEF Terminal, LockSnapshotIfNeeded, LockDue

\* Resolving a locked snapshot keeps its wagers and does not open it again.
LEMMA ResolveLockedGood ==
  ASSUME NEW s, Good(s), s.status = "locked", LocksCoverStakes(s),
         NEW resolution \in Resolutions, NEW now, NEW grace
  PROVE  LET t == ResolveLocked(s, resolution, now, grace)
         IN  Good(t) /\ SameWagers(s, t) /\ ~ Growing(t)
<1> DEFINE t == ResolveLocked(s, resolution, now, grace)
<1>1. CanVoid(s) /\ s.outcome \in Outcomes \cup {"null"} /\ "GRACE_TIMEOUT" \in VoidReasons
  BY DEF CanVoid, Good, IsSnapshot, SnapshotOver, VoidReasons
<1>2. CASE t = s
  BY <1>2 DEF SameWagers, Growing
<1>3. CASE t = VoidPoolSnapshot(s, "GRACE_TIMEOUT", s.outcome)
  BY <1>1, <1>3, VoidGood DEF Growing
<1>4. CASE resolution.outcome \in Outcomes /\ t = SettlePoolSnapshot(s, resolution.outcome)
  <2>1. CanSettle(s, resolution.outcome)
    BY DEF CanSettle
  <2> QED
    BY <1>4, <2>1, SettleGood DEF Growing, Terminal
<1> QED
  BY <1>2, <1>3, <1>4 DEF ResolveLocked, Resolutions

\* applyRouterResolution does the same to any snapshot, and nothing to a terminal one.
LEMMA ApplyGood ==
  ASSUME NEW s, Good(s), s.status # "absent", NEW now, NEW grace,
         NEW resolution \in Resolutions, CanApplyResolution(s, now)
  PROVE  LET t == ApplyRouterResolution(s, resolution, now, grace)
         IN  /\ Good(t) /\ SameWagers(s, t)
             /\ Growing(t) => Growing(s)
             /\ Terminal(s) => t = s
<1> DEFINE l == LockSnapshotIfNeeded(s, now)
           t == ApplyRouterResolution(s, resolution, now, grace)
<1>1. CASE Terminal(s)
  <2>1. t = s
    BY <1>1, LockFinal DEF ApplyRouterResolution
  <2> QED
    BY <2>1 DEF SameWagers
<1> SUFFICES ASSUME ~ Terminal(s) PROVE Good(t) /\ SameWagers(s, t) /\ (Growing(t) => Growing(s))
  BY <1>1
<1>2. CanLock(s, now) /\ LocksCoverStakes(s)
  BY DEF CanApplyResolution
<1>3. Good(l) /\ SameWagers(s, l) /\ (Growing(l) => Growing(s))
  BY <1>2, LockGood
<1>4. CASE l.status # "locked"
  BY <1>3, <1>4 DEF ApplyRouterResolution
<1>5. CASE l.status = "locked"
  <2>1. l.entries = s.entries /\ l.balances = s.balances
    <3>1. CASE l = s
      BY <3>1
    <3>2. CASE l = [s EXCEPT !.status = "locked"]
      BY <3>2 DEF Good, IsSnapshot, SnapshotOver
    <3>3. CASE s.status = "open" /\ LockVoidReason(s) # "null" /\ CanVoid(s)
               /\ l = VoidPoolSnapshot(s, LockVoidReason(s), s.outcome)
      <4>1. s.outcome \in Outcomes \cup {"null"} /\ LockVoidReason(s) \in VoidReasons
        BY <3>3 DEF LockVoidReason, VoidReasons, Good, IsSnapshot, SnapshotOver
      <4> QED
        BY <1>5, <3>3, <4>1, VoidGood
    <3> QED
      BY <1>2, <3>1, <3>2, <3>3 DEF LockSnapshotIfNeeded, CanLock, LockDue
  <2> HIDE DEF l
  <2>2. LocksCoverStakes(l)
    BY <1>2, <2>1 DEF LocksCoverStakes, AtStake, EntriesOf
  <2>3. t = ResolveLocked(l, resolution, now, grace)
    BY <1>5 DEF ApplyRouterResolution, l
  <2> QED
    BY <1>3, <1>5, <2>2, <2>3, ResolveLockedGood DEF SameWagers
<1> QED
  BY <1>4, <1>5

\* An accepted entry leaves a good open snapshot good and open.
LEMMA WithEntryGood ==
  ASSUME NEW s, Good(s), s.status = "open", NEW id \in EntryIds, NEW e \in EntryType,
         id \notin DOMAIN s.entries, ~ e.paid, ~ e.refunded, e.payout = 0,
         Unit = "points" => s.balances[e.user].available >= e.amount
  PROVE  Good(WithEntry(s, id, e)) /\ WithEntry(s, id, e).status = "open"
<1> DEFINE b == s.balances[e.user]
           nb == [available |-> IF Unit = "usdc" THEN b.available ELSE b.available - e.amount,
                  locked    |-> b.locked + e.amount]
           ps == [s.pools EXCEPT ![e.side] = @ + e.amount]
           es == [i \in DOMAIN s.entries \cup {id} |-> IF i = id THEN e ELSE s.entries[i]]
           bs == [s.balances EXCEPT ![e.user] = nb]
           t == WithEntry(s, id, e)
<1>1. PICK S \in SUBSET EntryIds : s \in SnapshotOver(S)
  BY DEF Good, IsSnapshot
<1>2. e.user \in Users /\ e.side \in Sides /\ e.amount \in Nat
  BY DEF EntryType
<1>3. /\ DOMAIN s.entries = S /\ \A i \in S : s.entries[i] \in EntryType
      /\ s.balances \in [Users -> [available : Nat, locked : Nat]]
      /\ s.pools \in [Sides -> Nat]
  BY <1>1 DEF SnapshotOver
<1>4. b.available \in Nat /\ b.locked \in Nat
  BY <1>2, <1>3
<1>5. nb \in [available : Nat, locked : Nat]
  BY <1>2, <1>4
<1> HIDE DEF nb
<1>6. bs \in [Users -> [available : Nat, locked : Nat]]
  BY <1>3, <1>5
<1>7. ps \in [Sides -> Nat]
  BY <1>2, <1>3
<1>8. es \in [S \cup {id} -> EntryType] /\ DOMAIN es = S \cup {id}
  BY <1>3
<1>9. t = [s EXCEPT !.pools = ps, !.entries = es, !.balances = bs]
  BY <1>1 DEF WithEntry, nb, SnapshotOver
<1>10. \A i \in S \cup {id} : ~ es[i].paid /\ ~ es[i].refunded
  BY <1>3 DEF Good, ResolvedTogether
<1> HIDE DEF ps, es, bs, t
<1>11. /\ t \in SnapshotOver(S \cup {id}) /\ t.status = "open" /\ t.entries = es
       /\ t.balances = bs /\ t.pools = ps /\ t.houseRake = s.houseRake
  BY <1>1, <1>6, <1>7, <1>8, <1>9 DEF SnapshotOver
<1>12. ResolvedTogether(t)
  BY <1>8, <1>10, <1>11 DEF ResolvedTogether
<1>13. Balanced(t)
  <2>1. IsSnapshot(s) /\ IsSnapshot(t) /\ Balanced(s) /\ ~ Terminal(s) /\ ~ Terminal(t)
    BY <1>11 DEF Good, IsSnapshot, Terminal
  <2>2. IsBook(s.entries) /\ BookWith(s.entries, t.entries, id, e)
    BY <1>3, <1>8, <1>11, <2>1, EntriesAreABook DEF BookWith, es
  <2>3. UnpaidUnlessSettled(t)
    BY <1>3, <1>8, <1>11, <2>1 DEF UnpaidUnlessSettled, Balanced, es
  <2>4. PoolsMatch(t)
    <3>1. e.placedAt \in Int
      BY DEF EntryType
    <3>2. /\ Staked(t.entries, EntriesOn(t.entries, e.side))
               = Staked(s.entries, EntriesOn(s.entries, e.side)) + e.amount
          /\ Staked(t.entries, EntriesOn(t.entries, OtherSide(e.side)))
               = Staked(s.entries, EntriesOn(s.entries, OtherSide(e.side)))
      BY <1>2, <2>2, <3>1, EntryJoinsItsSide
    <3>3. \A side \in Sides : s.pools[side] = Staked(s.entries, EntriesOn(s.entries, side))
      BY <2>1 DEF Balanced, PoolsMatch, CalculatePoolTotals
    <3>4. \A side \in Sides : ps[side] = Staked(t.entries, EntriesOn(t.entries, side))
      BY <1>2, <1>3, <3>2, <3>3, SidesOpposed DEF ps
    <3>5. ps = CalculatePoolTotals(t.entries)
      BY <1>7, <3>4 DEF CalculatePoolTotals
    <3> QED
      BY <1>11, <3>5 DEF PoolsMatch
  <2>5. ASSUME NEW u \in Users
        PROVE  StakedBy(t, u) = IF u = e.user THEN StakedBy(s, u) + e.amount ELSE StakedBy(s, u)
    <3>1. EntriesOf(t, u) = IF u = e.user THEN EntriesOf(s, u) \cup {id} ELSE EntriesOf(s, u)
      BY <2>2 DEF EntriesOf, BookWith
    <3> DEFINE T == EntriesOf(s, u)
    <3>2. id \notin T
      BY DEF EntriesOf
    <3> HIDE DEF T
    <3>3. /\ Staked(t.entries, T) = Staked(s.entries, T)
          /\ Staked(t.entries, T \cup {id}) = Staked(s.entries, T) + e.amount
      BY <1>2, <2>2, <3>2, StakedWithEntry
    <3> QED
      BY <3>1, <3>3 DEF StakedBy, T
  <2>6. \A u \in Users : Payouts(s, u) = 0 /\ Payouts(t, u) = 0 /\ StakedBy(s, u) \in Nat
    BY <1>11, <2>1, <2>3, NoPayouts, StakedByNat DEF Balanced
  <2>7. ASSUME NEW u \in Users
        PROVE  /\ t.balances[u].locked = StakedBy(t, u)
               /\ t.balances[u].available =
                    SeedBalance.available - (IF Unit = "points" THEN StakedBy(t, u) ELSE 0) + 0
    <3>1. /\ s.balances[u].locked = StakedBy(s, u)
          /\ s.balances[u].available =
               SeedBalance.available - (IF Unit = "points" THEN StakedBy(s, u) ELSE 0) + 0
      BY <2>1, <2>6 DEF Balanced, LockedMatch, AvailableMatch
    <3>2. CASE u # e.user
      <4>1. t.balances[u] = s.balances[u]
        BY <1>3, <1>11, <3>2 DEF bs
      <4> QED
        BY <2>5, <3>1, <3>2, <4>1
    <3>3. CASE u = e.user
      <4>1. t.balances[u] = nb
        BY <1>3, <1>11, <3>3 DEF bs
      <4>2. /\ nb.locked = StakedBy(s, u) + e.amount
            /\ nb.available = IF Unit = "usdc" THEN s.balances[u].available
                              ELSE s.balances[u].available - e.amount
        BY <3>1, <3>3 DEF nb
      <4> QED
        BY <1>2, <2>5, <2>6, <3>1, <3>3, <4>1, <4>2, SeedNat
    <3> QED
      BY <3>2, <3>3
  <2>8. LockedMatch(t) /\ AvailableMatch(t)
    BY <1>11, <2>1, <2>6, <2>7 DEF LockedMatch, AvailableMatch
  <2>9. RakeMatches(t)
    BY <1>11, <2>1 DEF RakeMatches, Balanced
  <2> QED
    BY <2>3, <2>4, <2>8, <2>9 DEF Balanced
<1> QED
  BY <1>11, <1>12, <1>13 DEF Good, IsSnapshot, t

-----------------------------------------------------------------------------
(***************************************************************************)
(* Part 2: the steps.  What a step may do to the stored snapshot (a closed *)
(* book stays closed) and to a poll in flight, and the invariant that the  *)
(* two preserve: a poll that still has a locked snapshot to write back     *)
(* holds the very wagers that are stored.                                  *)
(***************************************************************************)
ClosedStep(s, t) == Good(t) /\ (~ Growing(s) => ~ Growing(t) /\ SameWagers(s, t))

FinalStep(s, t) == Terminal(s) => t = s

PollStep(p) ==
  \/ polls'[p] = polls[p]
  \/ polls'[p] = IdlePoll
  \/ \E now \in Times : polls'[p] = [pc |-> "audit", now |-> now, snap |-> snapshot']
  \/ /\ polls[p].snap.status = "locked" /\ polls[p].pc = "audit"
     /\ polls'[p] = [polls[p] EXCEPT !.pc = "fetch"]

\* A poll that had read a locked pool comes back from the router.
LatePoll(p) == polls[p].pc = "fetch" /\ polls[p].snap.status = "locked" /\ polls'[p].pc = "idle"

\* A poll that had read the pool before it was locked ends after its audit record.
StalePoll(p) == polls[p].pc = "audit" /\ polls[p].snap.status # "locked" /\ polls'[p].pc = "idle"

AlarmStep ==
  snapshot'.status = "locked" /\ alarm' = {} /\ (snapshot.status = "locked" => alarm # {}) =>
    \E p \in Polls : StalePoll(p)

PollsHoldTheClosedBook ==
  \A p \in Polls :
    /\ polls[p].pc = "fetch" => polls[p].snap.status = "locked"
    /\ polls[p].pc # "idle" /\ polls[p].snap.status = "locked" =>
         ~ Growing(snapshot) /\ SameWagers(polls[p].snap, snapshot)

\* Nothing has been paid by a pool that is not settled.
NothingPaidEarly == \A s \in HeldSnapshots : UnpaidUnlessSettled(s)

PoolInv ==
  /\ TypeOK /\ EntriesResolvedTogether
  /\ NothingPaidEarly /\ TotalsMatchEntries /\ MoneyConserved
  /\ PollsHoldTheClosedBook

\* The three about money say that every snapshot held is balanced.
LEMMA HeldAreBalanced ==
  NothingPaidEarly /\ TotalsMatchEntries /\ MoneyConserved <=>
    \A s \in HeldSnapshots : Balanced(s)
<1>1. TotalsMatchEntries <=> \A s \in HeldSnapshots : PoolsMatch(s) /\ LockedMatch(s)
  BY DEF TotalsMatchEntries, PoolsMatch, LockedMatch, StakedBy
<1>2. MoneyConserved <=> \A s \in HeldSnapshots : AvailableMatch(s) /\ RakeMatches(s)
  BY DEF MoneyConserved, AvailableMatch, RakeMatches, StakedBy, PaidOut
<1> QED
  BY <1>1, <1>2 DEF NothingPaidEarly, Balanced

\* The stored snapshot and those the polls hold are good ones.
LEMMA HeldAreGood ==
  ASSUME PoolInv
  PROVE  Good(snapshot) /\ \A p \in Polls : Good(polls[p].snap)
<1>1. IsSnapshot(snapshot) /\ \A p \in Polls : IsSnapshot(polls[p].snap)
  BY DEF PoolInv, TypeOK, IsPoll, IsSnapshot
<1>2. Balanced(snapshot) /\ \A p \in Polls : Balanced(polls[p].snap)
  BY HeldAreBalanced DEF PoolInv, HeldSnapshots
<1>3. ResolvedTogether(snapshot) /\ \A p \in Polls : ResolvedTogether(polls[p].snap)
  BY DEF PoolInv, EntriesResolvedTogether, HeldSnapshots, ResolvedTogether
<1> QED
  BY <1>1, <1>2, <1>3 DEF Good

\* An idle poll is a poll.
LEMMA IdlePollTyped == IsPoll(IdlePoll)
<1>1. PICK S \in SUBSET EntryIds : NoSnapshot \in SnapshotOver(S)
  BY NoSnapshotGood DEF Good, IsSnapshot
<1>2. IdlePoll \in [pc : {"idle", "audit", "fetch"}, now : Times, snap : SnapshotOver(S)]
  BY <1>1 DEF IdlePoll
<1> QED
  BY <1>2 DEF IsPoll

\* The fields of a poll have their types.
LEMMA PollFields ==
  ASSUME TypeOK, NEW p \in Polls
  PROVE  polls[p].pc \in {"idle", "audit", "fetch"} /\ polls[p].now \in Times
BY DEF TypeOK, IsPoll

\* The invariant holds before the pool is created.
LEMMA InitPoolInv == Init => PoolInv
<1> SUFFICES ASSUME Init PROVE PoolInv
  OBVIOUS
<1>1. \A p \in Polls : polls[p] = IdlePoll
  BY DEF Init
<1>2. \A p \in Polls : /\ polls[p].pc = "idle" /\ polls[p].now = 0
                       /\ polls[p].snap = NoSnapshot
  BY <1>1 DEF IdlePoll
<1>3. IsSnapshot(NoSnapshot) /\ ResolvedTogether(NoSnapshot) /\ Balanced(NoSnapshot)
  BY NoSnapshotGood DEF Good
<1>4. TypeOK
  BY <1>1, <1>3, IdlePollTyped DEF Init, TypeOK
<1>5. EntriesResolvedTogether
  BY <1>2, <1>3 DEF Init, EntriesResolvedTogether, HeldSnapshots, ResolvedTogether
<1>6. PollsHoldTheClosedBook
  BY <1>2 DEF PollsHoldTheClosedBook
<1>7. NothingPaidEarly /\ TotalsMatchEntries /\ MoneyConserved
  <2>1. \A s \in HeldSnapshots : s = NoSnapshot
    BY <1>2 DEF Init, HeldSnapshots
  <2>2. \A s \in HeldSnapshots : Balanced(s)
    BY <1>3, <2>1
  <2> QED
    BY <2>2, HeldAreBalanced
<1> QED
  BY <1>4, <1>5, <1>6, <1>7 DEF PoolInv

\* The alarm is set to an instant, or not at all.
LEMMA AlarmTyped ==
  ASSUME NEW s, NEW now \in Times, alarm \in SUBSET AlarmTimes, ReconcileResolutionAlarm(s, now)
  PROVE  alarm' \in SUBSET AlarmTimes
BY DEF ReconcileResolutionAlarm, AlarmTime

\* What every step does to the state.
StepFacts ==
  /\ ClosedStep(snapshot, snapshot')
  /\ DOMAIN polls' = Polls /\ \A p \in Polls : PollStep(p)
  /\ alarm' \in SUBSET AlarmTimes /\ clock' \in Times
  /\ FinalStep(snapshot, snapshot') \/ \E p \in Polls : LatePoll(p)
  /\ AlarmStep

\* A snapshot that is stored locked is stored with an alarm.
LEMMA StoredWithAlarm ==
  ASSUME NEW s, NEW now, ReconcileResolutionAlarm(s, now), s.status = "locked"
  PROVE  alarm' # {}
BY DEF ReconcileResolutionAlarm

\* A step that writes nothing keeps a closed book closed.
LEMMA SameSnapshot ==
  ASSUME PoolInv
  PROVE  ClosedStep(snapshot, snapshot)
BY HeldAreGood DEF PoolInv, ClosedStep, SameWagers

\* lockIfNeeded, as the handlers and the polls run it.
LEMMA LockIfNeededStep ==
  ASSUME PoolInv, NEW now \in Times, LockIfNeeded(now)
  PROVE  /\ ClosedStep(snapshot, snapshot') /\ FinalStep(snapshot, snapshot')
         /\ alarm' \in SUBSET AlarmTimes /\ AlarmStep
<1>1. /\ snapshot' = LockSnapshotIfNeeded(snapshot, now) /\ CanLock(snapshot, now)
      /\ ReconcileResolutionAlarm(LockSnapshotIfNeeded(snapshot, now), now)
  BY DEF LockIfNeeded, PersistSnapshot
<1>2. Good(snapshot) /\ alarm \in SUBSET AlarmTimes
  BY HeldAreGood DEF PoolInv, TypeOK
<1>3. ClosedStep(snapshot, snapshot')
  BY <1>1, <1>2, LockGood DEF ClosedStep
<1>4. FinalStep(snapshot, snapshot')
  BY <1>1, LockFinal DEF FinalStep
<1>5. AlarmStep
  BY <1>1, StoredWithAlarm DEF AlarmStep
<1> QED
  BY <1>1, <1>2, <1>3, <1>4, <1>5, AlarmTyped

\* A handler that leaves the polls alone and writes t.
LEMMA HandlerStep ==
  ASSUME PoolInv, NEW t, NEW now \in Times, PersistSnapshot(t, now),
         ClosedStep(snapshot, t), FinalStep(snapshot, t), UNCHANGED <<polls, clock>>
  PROVE  StepFacts
<1>1. snapshot' = t /\ ReconcileResolutionAlarm(t, now)
  BY DEF PersistSnapshot
<1>2. alarm' \in SUBSET AlarmTimes
  BY <1>1, AlarmTyped DEF PoolInv, TypeOK
<1>3. DOMAIN polls' = Polls /\ \A p \in Polls : PollStep(p)
  BY DEF PoolInv, TypeOK, PollStep
<1>4. AlarmStep
  BY <1>1, StoredWithAlarm DEF AlarmStep
<1> QED
  BY <1>1, <1>2, <1>3, <1>4 DEF StepFacts, PoolInv, TypeOK

\* POST /create.
LEMMA CreateStep ==
  ASSUME PoolInv, NEW now \in Times, Create(now)
  PROVE  StepFacts
<1> DEFINE t == [NoSnapshot EXCEPT !.status = "open"]
<1>1. NoSnapshot.entries = NoEntries /\ DOMAIN NoEntries = {}
  BY DEF NoSnapshot, NoEntries
<1>2. PICK S \in SUBSET EntryIds : NoSnapshot \in SnapshotOver(S)
  BY NoSnapshotGood DEF Good, IsSnapshot
<1>3. /\ t \in SnapshotOver(S) /\ t.entries = NoEntries /\ t.status = "open"
      /\ t.pools = NoSnapshot.pools /\ t.balances = NoSnapshot.balances
      /\ t.houseRake = NoSnapshot.houseRake
  BY <1>1, <1>2 DEF SnapshotOver
<1> HIDE DEF t
<1>4. Good(t)
  <2>1. NoSnapshot.houseRake = 0
    BY DEF NoSnapshot
  <2>2. Balanced(t)
    BY <1>1, <1>3, <2>1, EmptyBalanced
  <2> QED
    BY <1>1, <1>3, <2>2 DEF Good, IsSnapshot, ResolvedTogether
<1>5. ClosedStep(snapshot, t) /\ FinalStep(snapshot, t)
  BY <1>4 DEF ClosedStep, FinalStep, Create, Exists, Growing, Terminal
<1> QED
  BY <1>5, HandlerStep DEF Create, t

\* POST /entries.
LEMMA PlaceEntryStep ==
  ASSUME PoolInv, NEW now \in Times, NEW id \in EntryIds, NEW u \in Users,
         NEW side \in Sides, NEW amount \in Amounts, PlaceEntry(id, u, side, amount, now)
  PROVE  StepFacts
<1> DEFINE e == [user |-> u, side |-> side, amount |-> amount, placedAt |-> now,
                 paid |-> FALSE, payout |-> 0, refunded |-> FALSE]
           placed == WithEntry(snapshot, id, e)
           t == LockSnapshotIfNeeded(placed, now)
<1>1. /\ snapshot.status = "open" /\ CanLock(placed, now) /\ id \notin DOMAIN snapshot.entries
      /\ Unit = "points" => snapshot.balances[u].available >= amount
      /\ PersistSnapshot(t, now) /\ UNCHANGED <<polls, clock>>
  BY DEF PlaceEntry, EntryAccepted
<1>2. /\ e \in EntryType /\ e.user = u /\ e.amount = amount /\ e.payout = 0
      /\ ~ e.paid /\ ~ e.refunded
  BY DEF EntryType
<1> HIDE DEF e
<1>3. Good(snapshot)
  BY HeldAreGood DEF PoolInv
<1>4. Good(placed)
  BY <1>1, <1>2, <1>3, WithEntryGood
<1> HIDE DEF placed
<1>5. Good(t)
  BY <1>1, <1>4, LockGood
<1> HIDE DEF t
<1>6. ClosedStep(snapshot, t) /\ FinalStep(snapshot, t)
  BY <1>1, <1>5 DEF ClosedStep, FinalStep, Growing, Terminal
<1> QED
  BY <1>1, <1>6, HandlerStep

\* POST /lock and the reads.
LEMMA LockStep ==
  ASSUME PoolInv, NEW now \in Times, LockIfNeeded(now), UNCHANGED <<polls, clock>>
  PROVE  StepFacts
<1>1. PersistSnapshot(snapshot', now)
  BY DEF LockIfNeeded, PersistSnapshot
<1> QED
  BY <1>1, LockIfNeededStep, HandlerStep

\* POST /settle.
LEMMA SettleStep ==
  ASSUME PoolInv, NEW now \in Times, NEW outcome \in Outcomes, Settle(outcome, now)
  PROVE  StepFacts
<1> DEFINE t == SettlePoolSnapshot(snapshot, outcome)
<1>1. /\ snapshot.status # "absent" /\ CanSettle(snapshot, outcome)
      /\ PersistSnapshot(t, now) /\ UNCHANGED <<polls, clock>>
  BY DEF Settle, Exists
<1>2. Good(snapshot)
  BY HeldAreGood DEF PoolInv
<1>3. Good(t) /\ SameWagers(snapshot, t) /\ Terminal(t)
  BY <1>1, <1>2, SettleGood
<1>4. FinalStep(snapshot, t)
  BY DEF FinalStep, SettlePoolSnapshot
<1> HIDE DEF t
<1>5. ClosedStep(snapshot, t)
  BY <1>3 DEF ClosedStep, Growing, Terminal
<1> QED
  BY <1>1, <1>4, <1>5, HandlerStep

\* POST /void.
LEMMA VoidStep ==
  ASSUME PoolInv, NEW now \in Times, NEW reason \in RequestVoidReasons, Void(reason, now)
  PROVE  StepFacts
<1> DEFINE t == VoidPoolSnapshot(snapshot, reason, snapshot.outcome)
<1>1. /\ CanVoid(snapshot) /\ PersistSnapshot(t, now) /\ UNCHANGED <<polls, clock>>
  BY DEF Void
<1>2. /\ Good(snapshot) /\ reason \in VoidReasons
      /\ snapshot.outcome \in Outcomes \cup {"null"}
  BY HeldAreGood DEF PoolInv, Good, IsSnapshot, SnapshotOver
<1>3. Good(t) /\ SameWagers(snapshot, t) /\ t.status = "voided"
  BY <1>1, <1>2, VoidGood
<1>4. FinalStep(snapshot, t)
  BY <1>1 DEF FinalStep, VoidPoolSnapshot, CanVoid, Terminal
<1> HIDE DEF t
<1>5. ClosedStep(snapshot, t)
  BY <1>3 DEF ClosedStep, Growing
<1> QED
  BY <1>1, <1>4, <1>5, HandlerStep

\* POST /resolution.
LEMMA ApplyResolutionStep ==
  ASSUME PoolInv, NEW now \in Times, NEW resolution \in Resolutions, NEW grace \in Graces,
         ApplyResolution(resolution, now, grace)
  PROVE  StepFacts
<1> DEFINE t == ApplyRouterResolution(snapshot, resolution, now, grace)
<1>1. /\ snapshot.status # "absent" /\ CanApplyResolution(snapshot, now)
      /\ PersistSnapshot(t, now) /\ UNCHANGED <<polls, clock>>
  BY DEF ApplyResolution, Exists
<1>2. Good(snapshot)
  BY HeldAreGood DEF PoolInv
<1>3. /\ Good(t) /\ SameWagers(snapshot, t) /\ (Growing(t) => Growing(snapshot))
      /\ Terminal(snapshot) => t = snapshot
  BY <1>1, <1>2, ApplyGood
<1> HIDE DEF t
<1>4. ClosedStep(snapshot, t) /\ FinalStep(snapshot, t)
  BY <1>3 DEF ClosedStep, FinalStep
<1> QED
  BY <1>1, <1>4, HandlerStep

\* The fields of an idle poll.
LEMMA IdleFields ==
  IdlePoll.pc = "idle" /\ IdlePoll.now = 0 /\ IdlePoll.snap = NoSnapshot
BY DEF IdlePoll

\* The start of a poll, by request or by alarm.
LEMMA PollBeginStep ==
  ASSUME PoolInv, NEW now \in Times, NEW p \in Polls, PollBegin(p, now)
  PROVE  StepFacts
<1>1. LockIfNeeded(now) /\ clock' = clock
  BY DEF PollBegin
<1>2. /\ ClosedStep(snapshot, snapshot') /\ FinalStep(snapshot, snapshot')
      /\ alarm' \in SUBSET AlarmTimes /\ AlarmStep
  BY <1>1, LockIfNeededStep
<1>3. polls' = [polls EXCEPT ![p] = [pc |-> "audit", now |-> now, snap |-> snapshot']]
  BY <1>1 DEF PollBegin, LockIfNeeded, PersistSnapshot
<1>4. DOMAIN polls' = Polls /\ \A q \in Polls : PollStep(q)
  BY <1>3 DEF PollStep, PoolInv, TypeOK
<1> QED
  BY <1>1, <1>2, <1>4 DEF StepFacts, PoolInv, TypeOK

\* The poll goes on to the router, or stops.
LEMMA PollAfterAuditStep ==
  ASSUME PoolInv, NEW p \in Polls, PollAfterAudit(p)
  PROVE  StepFacts
<1>1. ClosedStep(snapshot, snapshot') /\ FinalStep(snapshot, snapshot')
  BY SameSnapshot DEF PollAfterAudit, FinalStep
<1>2. CASE polls[p].snap.status = "locked"
  <2>1. /\ polls[p].pc = "audit" /\ polls' = [polls EXCEPT ![p].pc = "fetch"]
        /\ alarm' = alarm /\ clock' = clock
    BY <1>2 DEF PollAfterAudit
  <2>2. DOMAIN polls' = Polls /\ \A q \in Polls : PollStep(q)
    BY <1>2, <2>1 DEF PollStep, PoolInv, TypeOK
  <2>3. AlarmStep
    BY <2>1 DEF AlarmStep, PollAfterAudit
  <2> QED
    BY <1>1, <2>1, <2>2, <2>3 DEF StepFacts, PoolInv, TypeOK
<1>3. CASE polls[p].snap.status # "locked"
  <2>1. /\ polls' = [polls EXCEPT ![p] = IdlePoll] /\ clock' = clock
        /\ ReconcileResolutionAlarm(polls[p].snap, polls[p].now)
    BY <1>3 DEF PollAfterAudit
  <2>2. alarm' \in SUBSET AlarmTimes
    BY <2>1, AlarmTyped, PollFields DEF PoolInv, TypeOK
  <2>3. DOMAIN polls' = Polls /\ \A q \in Polls : PollStep(q)
    BY <2>1 DEF PollStep, PoolInv, TypeOK
  <2>4. StalePoll(p)
    BY <1>3, <2>1, IdleFields DEF StalePoll, PollAfterAudit, PoolInv, TypeOK
  <2> QED
    BY <1>1, <2>1, <2>2, <2>3, <2>4 DEF StepFacts, AlarmStep, PoolInv, TypeOK
<1> QED
  BY <1>2, <1>3

\* A poll that ends without writing.
LEMMA PollEndsStep ==
  ASSUME PoolInv, NEW p \in Polls, PollFetchFails(p) \/ PollThrows(p)
  PROVE  StepFacts
<1>1. /\ snapshot' = snapshot /\ clock' = clock
      /\ polls' = [polls EXCEPT ![p] = IdlePoll]
  BY DEF PollFetchFails, PollThrows
<1>2. ClosedStep(snapshot, snapshot') /\ FinalStep(snapshot, snapshot')
  BY <1>1, SameSnapshot DEF FinalStep
<1>3. alarm' \in SUBSET AlarmTimes
  BY AlarmTyped, PollFields DEF PollFetchFails, PollThrows, PoolInv, TypeOK
<1>4. DOMAIN polls' = Polls /\ \A q \in Polls : PollStep(q)
  BY <1>1 DEF PollStep, PoolInv, TypeOK
<1>5. AlarmStep
  <2>1. CASE PollFetchFails(p)
    <3>1. polls[p].snap.status = "locked" /\ ReconcileResolutionAlarm(polls[p].snap, polls[p].now)
      BY <2>1 DEF PollFetchFails, PoolInv, PollsHoldTheClosedBook
    <3> QED
      BY <3>1, StoredWithAlarm DEF AlarmStep
  <2>2. CASE PollThrows(p)
    BY <2>2 DEF PollThrows, AlarmStep
  <2> QED
    BY <2>1, <2>2
<1> QED
  BY <1>1, <1>2, <1>3, <1>4, <1>5 DEF StepFacts, PoolInv, TypeOK

\* The late write: what is written back has the wagers that are stored.
LEMMA PollApplyStep ==
  ASSUME PoolInv, NEW p \in Polls, NEW resolution \in Resolutions, PollApply(p, resolution)
  PROVE  StepFacts
<1> DEFINE s == polls[p].snap
           now == polls[p].now
           t == ApplyRouterResolution(s, resolution, now, MaxGrace)
<1>1. /\ polls[p].pc = "fetch" /\ CanApplyResolution(s, now)
      /\ snapshot' = t /\ ReconcileResolutionAlarm(t, now)
      /\ polls' = [polls EXCEPT ![p] = IdlePoll] /\ clock' = clock
  BY DEF PollApply, PersistSnapshot
<1>2. s.status = "locked" /\ ~ Growing(snapshot) /\ SameWagers(s, snapshot)
  BY <1>1 DEF PoolInv, PollsHoldTheClosedBook
<1>3. Good(s)
  BY HeldAreGood DEF PoolInv
<1>4. Good(t) /\ SameWagers(s, t) /\ ~ Growing(t)
  BY <1>1, <1>2, <1>3, ApplyGood DEF Growing
<1>5. now \in Times
  BY PollFields DEF PoolInv
<1> HIDE DEF t, now
<1>6. ClosedStep(snapshot, snapshot')
  BY <1>1, <1>2, <1>4 DEF ClosedStep, SameWagers
<1>7. alarm' \in SUBSET AlarmTimes
  BY <1>1, <1>5, AlarmTyped DEF PoolInv, TypeOK
<1>8. DOMAIN polls' = Polls /\ \A q \in Polls : PollStep(q)
  BY <1>1 DEF PollStep, PoolInv, TypeOK
<1>9. LatePoll(p)
  BY <1>1, <1>2, IdleFields DEF LatePoll, PoolInv, TypeOK
<1>10. AlarmStep
  BY <1>1, StoredWithAlarm DEF AlarmStep
<1> QED
  BY <1>1, <1>6, <1>7, <1>8, <1>9, <1>10 DEF StepFacts, PoolInv, TypeOK

\* Eviction loses the polls and nothing else.
LEMMA EvictStep ==
  ASSUME PoolInv, Evict
  PROVE  StepFacts
<1>1. ClosedStep(snapshot, snapshot') /\ FinalStep(snapshot, snapshot')
  BY SameSnapshot DEF Evict, FinalStep
<1>2. DOMAIN polls' = Polls /\ \A q \in Polls : PollStep(q)
  BY DEF Evict, PollStep
<1>3. AlarmStep
  BY DEF Evict, AlarmStep
<1> QED
  BY <1>1, <1>2, <1>3 DEF Evict, StepFacts, PoolInv, TypeOK

\* Time passes, or nothing happens.
LEMMA TickStep ==
  ASSUME PoolInv, Tick \/ UNCHANGED vars
  PROVE  StepFacts
<1>1. /\ snapshot' = snapshot /\ polls' = polls
      /\ alarm' \in SUBSET AlarmTimes /\ (alarm # {} => alarm' # {}) /\ clock' \in Times
  <2>1. CASE Tick /\ clock < Horizon
    <3>1. /\ snapshot' = snapshot /\ polls' = polls /\ alarm' = alarm
          /\ clock' = clock + 1
      BY <2>1 DEF Tick
    <3>2. alarm \in SUBSET AlarmTimes /\ clock \in Times
      BY DEF PoolInv, TypeOK
    <3>3. clock + 1 \in Times
      BY <2>1, <3>2
    <3> QED
      BY <3>1, <3>2, <3>3
  <2>2. CASE Tick /\ ~ (clock < Horizon)
    <3>1. PICK t \in alarm : t > Horizon /\ alarm' = {t - 1}
      BY <2>2 DEF Tick
    <3>2. t - 1 \in AlarmTimes
      BY <3>1 DEF PoolInv, TypeOK
    <3> QED
      BY <2>2, <3>1, <3>2 DEF Tick, PoolInv, TypeOK
  <2>3. CASE UNCHANGED vars
    BY <2>3 DEF vars, PoolInv, TypeOK
  <2> QED
    BY <2>1, <2>2, <2>3
<1>2. ClosedStep(snapshot, snapshot') /\ FinalStep(snapshot, snapshot')
  BY <1>1, SameSnapshot DEF FinalStep
<1>3. DOMAIN polls' = Polls /\ \A q \in Polls : PollStep(q)
  BY <1>1 DEF PollStep, PoolInv, TypeOK
<1>4. AlarmStep
  BY <1>1 DEF AlarmStep
<1> QED
  BY <1>1, <1>2, <1>3, <1>4 DEF StepFacts, PoolInv, TypeOK

\* Every step is one of the above.
LEMMA EveryStep ==
  ASSUME PoolInv, [Next]_vars
  PROVE  StepFacts
<1>1. CASE Tick \/ UNCHANGED vars
  BY <1>1, TickStep
<1>2. CASE Read
  BY <1>2, LockStep DEF Read, PoolInv, TypeOK
<1>3. CASE AlarmFires
  BY <1>3, PollBeginStep DEF AlarmFires, Polls, PoolInv, TypeOK
<1>4. CASE Evict
  BY <1>4, EvictStep
<1>5. ASSUME NEW now \in Times, Create(now) \/ Lock(now) PROVE StepFacts
  BY <1>5, CreateStep, LockStep DEF Lock
<1>6. ASSUME NEW now \in Times, NEW id \in EntryIds, NEW u \in Users, NEW side \in Sides,
             NEW amount \in Amounts, PlaceEntry(id, u, side, amount, now)
      PROVE  StepFacts
  BY <1>6, PlaceEntryStep
<1>7. ASSUME NEW now \in Times, NEW outcome \in Outcomes, Settle(outcome, now)
      PROVE  StepFacts
  BY <1>7, SettleStep
<1>8. ASSUME NEW now \in Times, NEW reason \in RequestVoidReasons, Void(reason, now)
      PROVE  StepFacts
  BY <1>8, VoidStep
<1>9. ASSUME NEW now \in Times, NEW resolution \in Resolutions, NEW grace \in Graces,
             ApplyResolution(resolution, now, grace)
      PROVE  StepFacts
  BY <1>9, ApplyResolutionStep
<1>10. ASSUME NEW now \in Times, NEW p \in Requests, PollRequest(p, now) PROVE StepFacts
  BY <1>10, PollBeginStep DEF PollRequest, Polls
<1>11. ASSUME NEW p \in Polls, PollAfterAudit(p) \/ PollFetchFails(p) \/ PollThrows(p)
       PROVE  StepFacts
  BY <1>11, PollAfterAuditStep, PollEndsStep
<1>12. ASSUME NEW p \in Polls, NEW resolution \in Resolutions, PollApply(p, resolution)
       PROVE  StepFacts
  BY <1>12, PollApplyStep
<1> QED
  BY <1>1, <1>2, <1>3, <1>4, <1>5, <1>6, <1>7, <1>8, <1>9, <1>10, <1>11, <1>12, Zenon DEF Next

\* The invariant is preserved.
LEMMA NextPoolInv ==
  ASSUME PoolInv, [Next]_vars
  PROVE  PoolInv'
<1>1. StepFacts
  BY EveryStep
<1>2. Good(snapshot) /\ Good(snapshot') /\ \A p \in Polls : Good(polls[p].snap)
  BY <1>1, HeldAreGood DEF StepFacts, ClosedStep, PoolInv
<1>3. \A p \in Polls : IsPoll(polls'[p]) /\ Good(polls'[p].snap)
  <2> TAKE p \in Polls
  <2>1. CASE polls'[p] = polls[p]
    BY <1>2, <2>1 DEF PoolInv, TypeOK
  <2>2. CASE polls'[p] = IdlePoll
    BY <2>2, IdlePollTyped, IdleFields, NoSnapshotGood
  <2>3. ASSUME NEW now \in Times,
               polls'[p] = [pc |-> "audit", now |-> now, snap |-> snapshot']
        PROVE  IsPoll(polls'[p]) /\ Good(polls'[p].snap)
    <3>1. PICK S \in SUBSET EntryIds : snapshot' \in SnapshotOver(S)
      BY <1>2 DEF Good, IsSnapshot
    <3>2. polls'[p] \in [pc : {"idle", "audit", "fetch"}, now : Times, snap : SnapshotOver(S)]
      BY <2>3, <3>1
    <3> QED
      BY <1>2, <2>3, <3>2 DEF IsPoll
  <2>4. CASE polls'[p] = [polls[p] EXCEPT !.pc = "fetch"]
    <3>1. PICK S \in SUBSET EntryIds :
            polls[p] \in [pc : {"idle", "audit", "fetch"}, now : Times, snap : SnapshotOver(S)]
      BY DEF PoolInv, TypeOK, IsPoll
    <3>2. /\ polls'[p] \in [pc : {"idle", "audit", "fetch"}, now : Times, snap : SnapshotOver(S)]
          /\ polls'[p].snap = polls[p].snap
      BY <2>4, <3>1
    <3> QED
      BY <1>2, <3>2 DEF IsPoll
  <2>5. PollStep(p)
    BY <1>1 DEF StepFacts
  <2> QED
    BY <2>1, <2>2, <2>3, <2>4, <2>5 DEF PollStep
<1>4. TypeOK'
  BY <1>1, <1>2, <1>3 DEF TypeOK, Good, StepFacts
<1>5. EntriesResolvedTogether'
  BY <1>2, <1>3 DEF EntriesResolvedTogether, HeldSnapshots, Good, ResolvedTogether
<1>7. (NothingPaidEarly /\ TotalsMatchEntries /\ MoneyConserved)'
  <2>1. Balanced(snapshot') /\ \A p \in Polls : Balanced(polls'[p].snap)
    BY <1>2, <1>3 DEF Good
  <2>2. \A s \in HeldSnapshots' : Balanced(s)
    BY <2>1 DEF HeldSnapshots
  <2>3. (NothingPaidEarly /\ TotalsMatchEntries /\ MoneyConserved <=>
           \A s \in HeldSnapshots : Balanced(s))'
    BY HeldAreBalanced, PTL
  <2>4. (\A s \in HeldSnapshots : Balanced(s))'
    BY <2>2
  <2> QED
    BY <2>3, <2>4
<1>6. PollsHoldTheClosedBook'
  <2> SUFFICES ASSUME NEW p \in Polls
               PROVE  /\ polls'[p].pc = "fetch" => polls'[p].snap.status = "locked"
                      /\ polls'[p].pc # "idle" /\ polls'[p].snap.status = "locked" =>
                           ~ Growing(snapshot') /\ SameWagers(polls'[p].snap, snapshot')
    BY DEF PollsHoldTheClosedBook, Growing, SameWagers, Wagers
  <2>1. CASE polls'[p] = IdlePoll
    BY <2>1, IdleFields
  <2>2. ASSUME NEW now \in Times,
               polls'[p] = [pc |-> "audit", now |-> now, snap |-> snapshot']
        PROVE  /\ polls'[p].pc = "audit"
               /\ polls'[p].snap.status = "locked" =>
                    ~ Growing(snapshot') /\ SameWagers(polls'[p].snap, snapshot')
    BY <2>2 DEF Growing, SameWagers
  <2>3. CASE polls'[p] = polls[p]
    BY <1>1, <2>3 DEF PoolInv, PollsHoldTheClosedBook, StepFacts, ClosedStep, SameWagers
  <2>4. CASE /\ polls[p].snap.status = "locked" /\ polls[p].pc = "audit"
             /\ polls'[p] = [polls[p] EXCEPT !.pc = "fetch"]
    <3>1. polls'[p].pc = "fetch" /\ polls'[p].snap = polls[p].snap
      BY <2>4 DEF PoolInv, TypeOK, IsPoll
    <3> QED
      BY <1>1, <2>4, <3>1
         DEF PoolInv, PollsHoldTheClosedBook, StepFacts, ClosedStep, SameWagers
  <2>5. PollStep(p)
    BY <1>1 DEF StepFacts
  <2> QED
    BY <2>1, <2>2, <2>3, <2>4, <2>5 DEF PollStep
<1> QED
  BY <1>4, <1>5, <1>6, <1>7 DEF PoolInv

\* The invariant holds for ever.
LEMMA PoolInvHolds == Spec => []PoolInv
<1>1. PoolInv /\ [Next]_vars => PoolInv'
  BY NextPoolInv
<1> QED
  BY <1>1, InitPoolInv, PTL DEF Spec

-----------------------------------------------------------------------------
(***************************************************************************)
(* The stored snapshot, the alarm, the clock and every poll in flight keep *)
(* their types; in particular no balance, pool total or payout of          *)
(* PoolSettlement.ts ever becomes negative.                                *)
(***************************************************************************)
THEOREM PoolStaysTyped == Spec => []TypeOK
BY PoolInvHolds, PTL DEF PoolInv

(***************************************************************************)
(* settlePoolSnapshot and voidPoolSnapshot resolve all entries of a pool   *)
(* together, once and in one way, in the stored snapshot and in every      *)
(* snapshot a poll will write back.                                        *)
(***************************************************************************)
THEOREM EntriesAreResolvedTogether == Spec => []EntriesResolvedTogether
BY PoolInvHolds, PTL DEF PoolInv

(***************************************************************************)
(* No handler of DotCastPoolDO.ts, however late a poll comes back from the *)
(* router, adds, drops or changes a wager once the pool has left "open",   *)
(* or opens it again.                                                      *)
(***************************************************************************)
THEOREM ClosedBookStaysClosed == Spec => BookClosed
<1>1. PoolInv /\ [Next]_vars =>
        [snapshot.status \notin {"absent", "open"} =>
           Wagers(snapshot') = Wagers(snapshot) /\ snapshot'.status # "open"]_vars
  BY EveryStep DEF StepFacts, ClosedStep, Growing, SameWagers
<1> QED
  BY <1>1, PoolInvHolds, PTL DEF Spec, BookClosed

(***************************************************************************)
(* The one way out of a terminal state is pollRouterResolution applying    *)
(* the router's answer to the locked snapshot it read before its fetch.    *)
(***************************************************************************)
THEOREM OnlyLatePollsLeaveTerminal == Spec => TerminalLeftOnlyByLatePoll
<1>1. PoolInv /\ [Next]_vars =>
        [Terminal(snapshot) /\ snapshot' # snapshot =>
           \E p \in Polls : /\ polls[p].pc = "fetch" /\ polls[p].snap.status = "locked"
                            /\ polls'[p].pc = "idle"]_vars
  BY EveryStep DEF StepFacts, FinalStep, LatePoll
<1> QED
  BY <1>1, PoolInvHolds, PTL DEF Spec, TerminalLeftOnlyByLatePoll

(***************************************************************************)
(* A locked pool loses its alarm only to a pollRouterResolution that had   *)
(* read the pool before it was locked and deletes the alarm afterwards.    *)
(***************************************************************************)
THEOREM OnlyStalePollsLoseTheAlarm == Spec => AlarmLostOnlyToStalePoll
<1>1. PoolInv /\ [Next]_vars =>
        [snapshot'.status = "locked" /\ alarm' = {} /\ (snapshot.status = "locked" => alarm # {}) =>
           \E p \in Polls : /\ polls[p].pc = "audit" /\ polls[p].snap.status # "locked"
                            /\ polls'[p].pc = "idle"]_vars
  BY EveryStep DEF StepFacts, AlarmStep, StalePoll
<1> QED
  BY <1>1, PoolInvHolds, PTL DEF Spec, AlarmLostOnlyToStalePoll

(***************************************************************************)
(* The running totals of placeEntry, settlePoolSnapshot and                *)
(* voidPoolSnapshot always agree with the book of entries: each pool is    *)
(* the sum of its stakes, each locked balance what the user has at stake.  *)
(***************************************************************************)
THEOREM TotalsAlwaysMatchEntries == Spec => []TotalsMatchEntries
BY PoolInvHolds, PTL DEF PoolInv

(***************************************************************************)
(* No sequence of entries, locks, settlements, voids and late polls makes  *)
(* or loses money: every balance is the seed less the stakes plus what was *)
(* paid or refunded, and a settled pool has paid out, with the rake,       *)
(* exactly what was staked.                                                *)
(***************************************************************************)
THEOREM PoolConservesMoney == Spec => []MoneyConserved
BY PoolInvHolds, PTL DEF PoolInv

-----------------------------------------------------------------------------
(***************************************************************************)
(* Part 3: UsdcPoolFlow.  Every entry of the book has its funding lock, and *)
(* locks are paid what the pool says.                                      *)
(***************************************************************************)
LockStatuses == {"locked", "released", "settled", "refunded"}
LockType == [status : LockStatuses, user : Users, amount : Amounts, payout : Nat]

RequestType == [pc : {"place", "release"}, id : EntryIds, user : Users, side : Sides,
                amount : Amounts, now : Times]

(***************************************************************************)
(* The types of what this module adds to the pool.                         *)
(***************************************************************************)
FlowTypeOK ==
  /\ DOMAIN locks = EntryIds
  /\ \A i \in EntryIds : locks[i].status = "none" \/ locks[i] \in LockType
  /\ DOMAIN gateways = Gateways
  /\ \A g \in Gateways : gateways[g].pc \in {"idle", "reserve"} \/ gateways[g] \in RequestType

\* The lock of entry i is that of this user and amount.
LockFor(i, user, amount) ==
  locks[i].status # "none" /\ locks[i].user = user /\ locks[i].amount = amount

\* A request that has reserved has a lock.
RequestsHaveLocks ==
  \A g \in Gateways :
    gateways[g].pc \in {"place", "release"} =>
      LockFor(gateways[g].id, gateways[g].user, gateways[g].amount)

\* A reconciliation works on a terminal snapshot, the stored one if none was replaced.
SettlersHoldThePool ==
  \A s \in settlers : Good(s) /\ Terminal(s) /\ (~ overwritten => s = snapshot)

FlowInv ==
  /\ PoolInv /\ FlowTypeOK /\ RequestsHaveLocks /\ SettlersHoldThePool
  /\ EveryEntryHasItsLock /\ LocksPaidAsThePoolSays

-----------------------------------------------------------------------------
(***************************************************************************)
(* What the pool does to its book.                                         *)
(***************************************************************************)
\* Every wager of t is one of s.
NoNewWagers(s, t) ==
  \A i \in DOMAIN t.entries : i \in DOMAIN s.entries /\ SameWager(s.entries[i], t.entries[i])

LEMMA SameWagersNoNew ==
  ASSUME NEW s, NEW t, SameWagers(s, t)
  PROVE  NoNewWagers(s, t)
<1>1. DOMAIN Wagers(s) = DOMAIN s.entries /\ DOMAIN Wagers(t) = DOMAIN t.entries
  BY DEF Wagers
<1>2. DOMAIN t.entries = DOMAIN s.entries
  BY <1>1 DEF SameWagers
<1>3. \A i \in DOMAIN s.entries : SameWager(s.entries[i], t.entries[i])
  <2> TAKE i \in DOMAIN s.entries
  <2>1. Wagers(s)[i] = Wagers(t)[i]
    BY DEF SameWagers
  <2>2. <<s.entries[i].user, s.entries[i].side, s.entries[i].amount, s.entries[i].placedAt>>
          = <<t.entries[i].user, t.entries[i].side, t.entries[i].amount, t.entries[i].placedAt>>
    BY <1>2, <2>1 DEF Wagers
  <2> QED
    BY <2>2 DEF SameWager
<1> QED
  BY <1>2, <1>3 DEF NoNewWagers

\* Locking a pool that is due brings no wager into the book.
LEMMA LockingKeepsWagers ==
  ASSUME PoolInv, NEW now, LockIfNeeded(now)
  PROVE  NoNewWagers(snapshot, snapshot')
<1>1. snapshot' = LockSnapshotIfNeeded(snapshot, now) /\ CanLock(snapshot, now)
  BY DEF LockIfNeeded, PersistSnapshot
<1>2. SameWagers(snapshot, LockSnapshotIfNeeded(snapshot, now))
  BY <1>1, HeldAreGood, LockGood
<1> QED
  BY <1>1, <1>2, SameWagersNoNew

\* No request of the pool object but an entry brings a wager into the book.
LEMMA StoresKeepWagers ==
  ASSUME PoolInv, PoolStores
  PROVE  NoNewWagers(snapshot, snapshot')
<1>1. Good(snapshot) /\ \A p \in Polls : Good(polls[p].snap)
  BY HeldAreGood
<1>2. ASSUME NEW now, LockIfNeeded(now) PROVE NoNewWagers(snapshot, snapshot')
  BY <1>2, LockingKeepsWagers
<1>3. ASSUME NEW now, Create(now) PROVE NoNewWagers(snapshot, snapshot')
  <2>1. DOMAIN snapshot'.entries = {}
    BY <1>3 DEF Create, PersistSnapshot, NoSnapshot, NoEntries
  <2> QED
    BY <2>1 DEF NoNewWagers
<1>4. ASSUME NEW now, NEW outcome \in Outcomes, Settle(outcome, now)
      PROVE  NoNewWagers(snapshot, snapshot')
  <2>1. /\ snapshot' = SettlePoolSnapshot(snapshot, outcome)
        /\ CanSettle(snapshot, outcome) /\ snapshot.status # "absent"
    BY <1>4 DEF Settle, PersistSnapshot, Exists
  <2>2. SameWagers(snapshot, SettlePoolSnapshot(snapshot, outcome))
    BY <1>1, <2>1, SettleGood
  <2> QED
    BY <2>1, <2>2, SameWagersNoNew
<1>5. ASSUME NEW now, NEW reason \in RequestVoidReasons, Void(reason, now)
      PROVE  NoNewWagers(snapshot, snapshot')
  <2>1. /\ snapshot' = VoidPoolSnapshot(snapshot, reason, snapshot.outcome)
        /\ CanVoid(snapshot) /\ reason \in VoidReasons
        /\ snapshot.outcome \in Outcomes \cup {"null"}
    BY <1>1, <1>5 DEF Void, PersistSnapshot, Good, IsSnapshot, SnapshotOver
  <2>2. SameWagers(snapshot, VoidPoolSnapshot(snapshot, reason, snapshot.outcome))
    BY <1>1, <2>1, VoidGood
  <2> QED
    BY <2>1, <2>2, SameWagersNoNew
<1>6. ASSUME NEW now, NEW resolution \in Resolutions, NEW grace,
             ApplyResolution(resolution, now, grace)
      PROVE  NoNewWagers(snapshot, snapshot')
  <2>1. /\ snapshot' = ApplyRouterResolution(snapshot, resolution, now, grace)
        /\ CanApplyResolution(snapshot, now) /\ snapshot.status # "absent"
    BY <1>6 DEF ApplyResolution, PersistSnapshot, Exists
  <2>2. SameWagers(snapshot, ApplyRouterResolution(snapshot, resolution, now, grace))
    BY <1>1, <2>1, ApplyGood
  <2> QED
    BY <2>1, <2>2, SameWagersNoNew
<1>7. ASSUME NEW p \in Polls, NEW resolution \in Resolutions, PollApply(p, resolution)
      PROVE  NoNewWagers(snapshot, snapshot')
  <2>1. /\ snapshot' = ApplyRouterResolution(polls[p].snap, resolution, polls[p].now, MaxGrace)
        /\ CanApplyResolution(polls[p].snap, polls[p].now) /\ polls[p].pc = "fetch"
    BY <1>7 DEF PollApply, PersistSnapshot
  <2>2. polls[p].snap.status = "locked" /\ SameWagers(polls[p].snap, snapshot)
    BY <2>1 DEF PoolInv, PollsHoldTheClosedBook
  <2>3. SameWagers(polls[p].snap, snapshot')
    BY <1>1, <2>1, <2>2, ApplyGood
  <2>4. SameWagers(snapshot, snapshot')
    BY <2>2, <2>3 DEF SameWagers
  <2> QED
    BY <2>4, SameWagersNoNew
<1> QED
  BY <1>2, <1>3, <1>4, <1>5, <1>6, <1>7
     DEF PoolStores, Read, AlarmFires, Lock, PollRequest, PollBegin

\* placeEntry brings in one wager, the one it was asked for.
LEMMA PlacedWagers ==
  ASSUME PoolInv, NEW now \in Times, NEW id \in EntryIds, NEW u \in Users,
         NEW side \in Sides, NEW amount \in Amounts, PlaceEntry(id, u, side, amount, now)
  PROVE  \A i \in DOMAIN snapshot'.entries :
           \/ i = id /\ snapshot'.entries[i].user = u /\ snapshot'.entries[i].amount = amount
           \/ i \in DOMAIN snapshot.entries /\ SameWager(snapshot.entries[i], snapshot'.entries[i])
<1> DEFINE e == [user |-> u, side |-> side, amount |-> amount, placedAt |-> now,
                 paid |-> FALSE, payout |-> 0, refunded |-> FALSE]
           placed == WithEntry(snapshot, id, e)
<1>1. /\ snapshot.status = "open" /\ CanLock(placed, now) /\ id \notin DOMAIN snapshot.entries
      /\ Unit = "points" => snapshot.balances[u].available >= amount
      /\ snapshot' = LockSnapshotIfNeeded(placed, now)
  BY DEF PlaceEntry, EntryAccepted, PersistSnapshot
<1>2. /\ e \in EntryType /\ e.user = u /\ e.amount = amount /\ e.payout = 0
      /\ ~ e.paid /\ ~ e.refunded
  BY DEF EntryType
<1> HIDE DEF e
<1>3. Good(snapshot)
  BY HeldAreGood
<1>4. Good(placed)
  BY <1>1, <1>2, <1>3, WithEntryGood
<1>5. placed.entries = [i \in DOMAIN snapshot.entries \cup {id} |->
                          IF i = id THEN e ELSE snapshot.entries[i]]
  BY <1>3 DEF WithEntry, Good, IsSnapshot, SnapshotOver
<1> HIDE DEF placed
<1>6. SameWagers(placed, snapshot')
  BY <1>1, <1>4, LockGood
<1>7. NoNewWagers(placed, snapshot')
  BY <1>6, SameWagersNoNew
<1> QED
  BY <1>2, <1>5, <1>7 DEF NoNewWagers, SameWager

-----------------------------------------------------------------------------
(***************************************************************************)
(* The steps of the protocol.                                              *)
(***************************************************************************)
\* Nothing is in flight before the pool is created.
LEMMA InitFlowInv == FlowInit => FlowInv
<1> SUFFICES ASSUME FlowInit PROVE FlowInv
  OBVIOUS
<1>1. PoolInv
  BY InitPoolInv DEF FlowInit
<1>2. /\ \A i \in EntryIds : locks[i].status = "none"
      /\ \A g \in Gateways : gateways[g].pc = "idle"
      /\ settlers = {} /\ DOMAIN locks = EntryIds /\ DOMAIN gateways = Gateways
  BY DEF FlowInit, NoLock, IdleGateway
<1>3. DOMAIN snapshot.entries = {}
  BY DEF FlowInit, Init, NoSnapshot, NoEntries
<1>4. FlowTypeOK /\ RequestsHaveLocks /\ SettlersHoldThePool
  BY <1>2 DEF FlowTypeOK, RequestsHaveLocks, SettlersHoldThePool
<1>5. EveryEntryHasItsLock /\ LocksPaidAsThePoolSays
  BY <1>2, <1>3 DEF EveryEntryHasItsLock, LocksPaidAsThePoolSays
<1> QED
  BY <1>1, <1>4, <1>5 DEF FlowInv

\* A request that is asking the pool object carries well typed values.
LEMMA RequestFields ==
  ASSUME FlowTypeOK, NEW g \in Gateways, gateways[g].pc \in {"place", "release"}
  PROVE  /\ gateways[g] \in RequestType
         /\ gateways[g].id \in EntryIds /\ gateways[g].user \in Users
         /\ gateways[g].side \in Sides /\ gateways[g].amount \in Amounts
         /\ gateways[g].now \in Times
<1>1. gateways[g] \in RequestType
  BY DEF FlowTypeOK
<1> QED
  BY <1>1 DEF RequestType

\* To the pool object the protocol is a sequence of its own steps.
LEMMA FlowIsPoolStep ==
  ASSUME FlowTypeOK, [FlowNext]_flowVars
  PROVE  [Next]_vars
<1>1. CASE PoolStores
  BY <1>1 DEF PoolStores, Next
<1>2. CASE PoolMoves
  BY <1>2 DEF PoolMoves, Next
<1>3. ASSUME NEW g \in Gateways, ReadPoolUnit(g) PROVE [Next]_vars
  BY <1>3 DEF ReadPoolUnit, Next
<1>4. ASSUME NEW g \in Gateways, EntryTaken(g) PROVE [Next]_vars
  <2>1. gateways[g].pc = "place"
    BY <1>4 DEF EntryTaken
  <2> QED
    BY <1>4, <2>1, RequestFields DEF EntryTaken, Next
<1>5. ASSUME NEW g \in Gateways, EntryAnswered(g) \/ Release(g) \/ GatewayDies(g)
      PROVE  [Next]_vars
  BY <1>5 DEF EntryAnswered, Release, GatewayDies, vars
<1>6. ASSUME NEW g \in Gateways, NEW id, NEW u, NEW side, NEW amount, NEW now,
             Reserve(g, id, u, side, amount, now)
      PROVE  [Next]_vars
  BY <1>6 DEF Reserve, vars
<1>7. ASSUME NEW s, SettlerStops(s) PROVE [Next]_vars
  BY <1>7 DEF SettlerStops, vars
<1>8. ASSUME NEW s, NEW i, FinalizeLock(s, i) PROVE [Next]_vars
  BY <1>8 DEF FinalizeLock, vars
<1>9. CASE UNCHANGED flowVars
  BY <1>9 DEF flowVars, vars
<1> QED
  BY <1>1, <1>2, <1>3, <1>4, <1>5, <1>6, <1>7, <1>8, <1>9 DEF FlowNext

\* A stored snapshot is handed to its reconciliation.
LEMMA ReconcileStep ==
  ASSUME FlowInv, Reconcile, Good(snapshot'), locks' = locks
  PROVE  SettlersHoldThePool' /\ LocksPaidAsThePoolSays'
<1>1. /\ settlers' = IF Terminal(snapshot') THEN settlers \cup {snapshot'} ELSE settlers
      /\ ~ overwritten' => ~ overwritten /\ (Terminal(snapshot) => snapshot' = snapshot)
  BY DEF Reconcile
<1>2. SettlersHoldThePool'
  BY <1>1 DEF FlowInv, SettlersHoldThePool
<1>3. ASSUME ~ overwritten', NEW i \in EntryIds, locks'[i].status \in {"settled", "refunded"}
      PROVE  /\ i \in DOMAIN snapshot'.entries
             /\ IF locks'[i].status = "refunded"
                THEN snapshot'.status = "voided" /\ locks'[i].payout = snapshot'.entries[i].amount
                ELSE snapshot'.status = "settled" /\ locks'[i].payout = snapshot'.entries[i].payout
  <2>1. /\ i \in DOMAIN snapshot.entries
        /\ IF locks[i].status = "refunded"
           THEN snapshot.status = "voided" /\ locks[i].payout = snapshot.entries[i].amount
           ELSE snapshot.status = "settled" /\ locks[i].payout = snapshot.entries[i].payout
    BY <1>1, <1>3 DEF FlowInv, LocksPaidAsThePoolSays
  <2>2. Terminal(snapshot)
    BY <2>1 DEF Terminal
  <2> QED
    BY <1>1, <1>3, <2>1, <2>2
<1>4. LocksPaidAsThePoolSays'
  BY <1>3 DEF LocksPaidAsThePoolSays
<1> QED
  BY <1>2, <1>4

\* A book without new wagers has its locks still.
LEMMA LocksStillCover ==
  ASSUME EveryEntryHasItsLock, NoNewWagers(snapshot, snapshot'), locks' = locks
  PROVE  EveryEntryHasItsLock'
BY DEF EveryEntryHasItsLock, NoNewWagers, SameWager

\* What is left to show of a step that changes no lock and no stored snapshot.
LEMMA QuietStep ==
  ASSUME FlowInv, snapshot' = snapshot, locks' = locks, settlers' \subseteq settlers,
         overwritten' = overwritten
  PROVE  SettlersHoldThePool' /\ EveryEntryHasItsLock' /\ LocksPaidAsThePoolSays'
<1>1. SettlersHoldThePool'
  BY DEF FlowInv, SettlersHoldThePool
<1>2. EveryEntryHasItsLock'
  BY DEF FlowInv, EveryEntryHasItsLock
<1>3. LocksPaidAsThePoolSays'
  BY DEF FlowInv, LocksPaidAsThePoolSays
<1> QED
  BY <1>1, <1>2, <1>3

\* The gateway's part of the invariant, when one request changes and no lock does.
GatewaySafe(r) ==
  \/ r.pc \in {"idle", "reserve"}
  \/ r \in RequestType /\ LockFor(r.id, r.user, r.amount)

LEMMA GatewayStep ==
  ASSUME FlowInv, NEW g \in Gateways, NEW r, gateways' = [gateways EXCEPT ![g] = r],
         locks' = locks, GatewaySafe(r)
  PROVE  FlowTypeOK' /\ RequestsHaveLocks'
<1>1. FlowTypeOK'
  BY DEF FlowInv, FlowTypeOK, GatewaySafe
<1>2. RequestsHaveLocks'
  BY DEF FlowInv, FlowTypeOK, RequestsHaveLocks, GatewaySafe, LockFor
<1> QED
  BY <1>1, <1>2

\* The requests of the pool object.
LEMMA PoolStoresStep ==
  ASSUME FlowInv, FlowNext, PoolStores
  PROVE  FlowInv'
<1>1. Good(snapshot') /\ PoolInv'
  BY FlowIsPoolStep, NextPoolInv, EveryStep DEF FlowInv, StepFacts, ClosedStep
<1>2. Reconcile /\ locks' = locks /\ gateways' = gateways
  BY DEF PoolStores
<1>3. SettlersHoldThePool' /\ LocksPaidAsThePoolSays'
  BY <1>1, <1>2, ReconcileStep
<1>4. EveryEntryHasItsLock'
  BY <1>2, StoresKeepWagers, LocksStillCover DEF FlowInv
<1>5. FlowTypeOK' /\ RequestsHaveLocks'
  BY <1>2 DEF FlowInv, FlowTypeOK, RequestsHaveLocks, LockFor
<1> QED
  BY <1>1, <1>3, <1>4, <1>5 DEF FlowInv

\* The gateway reads the pool.
LEMMA ReadPoolUnitStep ==
  ASSUME FlowInv, FlowNext, NEW g \in Gateways, ReadPoolUnit(g)
  PROVE  FlowInv'
<1>1. Good(snapshot') /\ PoolInv'
  BY FlowIsPoolStep, NextPoolInv, EveryStep DEF FlowInv, StepFacts, ClosedStep
<1>2. /\ Reconcile /\ locks' = locks /\ Read
      /\ gateways' = [gateways EXCEPT ![g] = [pc |-> "reserve"]]
  BY DEF ReadPoolUnit
<1>3. SettlersHoldThePool' /\ LocksPaidAsThePoolSays'
  BY <1>1, <1>2, ReconcileStep
<1>4. EveryEntryHasItsLock'
  BY <1>2, LockingKeepsWagers, LocksStillCover DEF FlowInv, Read
<1>5. FlowTypeOK' /\ RequestsHaveLocks'
  <2>1. GatewaySafe([pc |-> "reserve"])
    BY DEF GatewaySafe
  <2> QED
    BY <1>2, <2>1, GatewayStep
<1> QED
  BY <1>1, <1>3, <1>4, <1>5 DEF FlowInv

\* A request that has reserved stays safe on its way to releasing.
LEMMA RequestStaysSafe ==
  ASSUME FlowInv, NEW g \in Gateways, gateways[g].pc = "place"
  PROVE  GatewaySafe([gateways[g] EXCEPT !.pc = "release"])
<1>1. gateways[g] \in RequestType
  BY RequestFields DEF FlowInv
<1>2. LockFor(gateways[g].id, gateways[g].user, gateways[g].amount)
  BY DEF FlowInv, RequestsHaveLocks
<1> QED
  BY <1>1, <1>2 DEF GatewaySafe, RequestType

\* The gateway is done with a request.
LEMMA IdleIsSafe == GatewaySafe(IdleGateway)
BY DEF GatewaySafe, IdleGateway

\* The pool object takes the entry of a request, which has a lock.
LEMMA EntryTakenStep ==
  ASSUME FlowInv, FlowNext, NEW g \in Gateways, EntryTaken(g)
  PROVE  FlowInv'
<1> DEFINE r == gateways[g]
<1>1. Good(snapshot') /\ PoolInv'
  BY FlowIsPoolStep, NextPoolInv, EveryStep DEF FlowInv, StepFacts, ClosedStep
<1>2. /\ r.pc = "place" /\ PlaceEntry(r.id, r.user, r.side, r.amount, r.now)
      /\ Reconcile /\ locks' = locks
      /\ \/ gateways' = [gateways EXCEPT ![g] = IdleGateway]
         \/ gateways' = [gateways EXCEPT ![g] = [r EXCEPT !.pc = "release"]]
  BY DEF EntryTaken
<1>3. SettlersHoldThePool' /\ LocksPaidAsThePoolSays'
  BY <1>1, <1>2, ReconcileStep
<1>4. EveryEntryHasItsLock'
  <2>1. LockFor(r.id, r.user, r.amount)
    BY <1>2 DEF FlowInv, RequestsHaveLocks
  <2>2. \A i \in DOMAIN snapshot'.entries :
          \/ i = r.id /\ snapshot'.entries[i].user = r.user /\ snapshot'.entries[i].amount = r.amount
          \/ i \in DOMAIN snapshot.entries /\ SameWager(snapshot.entries[i], snapshot'.entries[i])
    BY <1>2, RequestFields, PlacedWagers DEF FlowInv
  <2>3. EveryEntryHasItsLock
    BY DEF FlowInv
  <2> HIDE DEF r
  <2> QED
    BY <1>2, <2>1, <2>2, <2>3 DEF EveryEntryHasItsLock, LockFor, SameWager
<1>5. FlowTypeOK' /\ RequestsHaveLocks'
  BY <1>2, IdleIsSafe, RequestStaysSafe, GatewayStep
<1> QED
  BY <1>1, <1>3, <1>4, <1>5 DEF FlowInv

\* The steps that change neither the stored snapshot nor a lock.
LEMMA QuietSteps ==
  ASSUME FlowInv, [FlowNext]_flowVars,
         \/ PoolMoves \/ UNCHANGED flowVars
         \/ \E g \in Gateways : EntryAnswered(g) \/ GatewayDies(g)
         \/ \E s \in settlers : SettlerStops(s)
  PROVE  FlowInv'
<1>1. PoolInv'
  BY FlowIsPoolStep, NextPoolInv DEF FlowInv
<1>2. /\ snapshot' = snapshot /\ locks' = locks
      /\ settlers' \subseteq settlers /\ overwritten' = overwritten
  BY DEF PoolMoves, flowVars, EntryAnswered, GatewayDies, SettlerStops,
         Tick, Evict, PollAfterAudit, PollFetchFails, PollThrows
<1>3. SettlersHoldThePool' /\ EveryEntryHasItsLock' /\ LocksPaidAsThePoolSays'
  BY <1>2, QuietStep
<1>4. FlowTypeOK' /\ RequestsHaveLocks'
  <2>1. CASE gateways' = gateways
    BY <1>2, <2>1 DEF FlowInv, FlowTypeOK, RequestsHaveLocks, LockFor
  <2>2. ASSUME NEW g \in Gateways, EntryAnswered(g) PROVE FlowTypeOK' /\ RequestsHaveLocks'
    <3>1. /\ gateways[g].pc = "place"
          /\ \/ gateways' = [gateways EXCEPT ![g] = IdleGateway]
             \/ gateways' = [gateways EXCEPT ![g] = [gateways[g] EXCEPT !.pc = "release"]]
      BY <2>2 DEF EntryAnswered
    <3> QED
      BY <1>2, <3>1, IdleIsSafe, RequestStaysSafe, GatewayStep
  <2>3. ASSUME NEW g \in Gateways, GatewayDies(g) PROVE FlowTypeOK' /\ RequestsHaveLocks'
    BY <1>2, <2>3, IdleIsSafe, GatewayStep DEF GatewayDies
  <2> QED
    BY <2>1, <2>2, <2>3 DEF PoolMoves, flowVars, SettlerStops
<1> QED
  BY <1>1, <1>3, <1>4 DEF FlowInv

-----------------------------------------------------------------------------
(***************************************************************************)
(* The steps on locks.                                                     *)
(***************************************************************************)
\* A lock row, once there, stays that of its user and amount.
RowsKept ==
  \A i \in EntryIds :
    locks[i].status # "none" =>
      /\ locks'[i].status # "none"
      /\ locks'[i].user = locks[i].user /\ locks'[i].amount = locks[i].amount

\* What follows from that.
LEMMA RowsKeptStep ==
  ASSUME FlowInv, RowsKept, UNCHANGED <<snapshot, settlers, overwritten>>
  PROVE  /\ SettlersHoldThePool' /\ EveryEntryHasItsLock'
         /\ \A g \in Gateways : gateways'[g] = gateways[g] =>
              (gateways[g].pc \in {"place", "release"} =>
                 LockFor(gateways[g].id, gateways[g].user, gateways[g].amount)')
<1>1. SettlersHoldThePool'
  BY DEF FlowInv, SettlersHoldThePool
<1>2. DOMAIN snapshot.entries \subseteq EntryIds
  BY DEF FlowInv, PoolInv, TypeOK, IsSnapshot, SnapshotOver
<1>3. EveryEntryHasItsLock'
  BY <1>2 DEF FlowInv, EveryEntryHasItsLock, RowsKept
<1>4. ASSUME NEW g \in Gateways, gateways'[g] = gateways[g], gateways[g].pc \in {"place", "release"}
      PROVE  LockFor(gateways[g].id, gateways[g].user, gateways[g].amount)'
  <2>1. gateways[g].id \in EntryIds
    BY <1>4, RequestFields DEF FlowInv
  <2>2. LockFor(gateways[g].id, gateways[g].user, gateways[g].amount)
    BY <1>4 DEF FlowInv, RequestsHaveLocks
  <2> QED
    BY <1>4, <2>1, <2>2 DEF RowsKept, LockFor
<1> QED
  BY <1>1, <1>3, <1>4

\* A reservation inserts a row, or finds the request's own.
LEMMA ReserveStep ==
  ASSUME FlowInv, [FlowNext]_flowVars, NEW g \in Gateways, NEW id \in EntryIds, NEW u \in Users,
         NEW side \in Sides, NEW amount \in Amounts, NEW now \in Times,
         Reserve(g, id, u, side, amount, now)
  PROVE  FlowInv'
<1> DEFINE row == [status |-> "locked", user |-> u, amount |-> amount, payout |-> 0]
           r == [pc |-> "place", id |-> id, user |-> u, side |-> side,
                 amount |-> amount, now |-> now]
<1>1. PoolInv'
  BY FlowIsPoolStep, NextPoolInv DEF FlowInv
<1>2. /\ UNCHANGED <<snapshot, settlers, overwritten>>
      /\ gateways' = [gateways EXCEPT ![g] = r]
      /\ \/ locks[id].status = "none" /\ locks' = [locks EXCEPT ![id] = row]
         \/ LockFor(id, u, amount) /\ locks' = locks
  BY DEF Reserve, LockFor
<1>3. row \in LockType /\ row.status = "locked" /\ row.user = u /\ row.amount = amount
  BY DEF LockType, LockStatuses
<1>4. r \in RequestType /\ r.pc = "place" /\ r.id = id /\ r.user = u /\ r.amount = amount
  BY DEF RequestType
<1> HIDE DEF row, r
<1>5. /\ DOMAIN locks = EntryIds /\ DOMAIN gateways = Gateways
      /\ \A i \in EntryIds : locks[i].status = "none" \/ locks[i] \in LockType
      /\ \A h \in Gateways : gateways[h].pc \in {"idle", "reserve"} \/ gateways[h] \in RequestType
  BY DEF FlowInv, FlowTypeOK
<1>6. RowsKept
  BY <1>2, <1>5 DEF RowsKept
<1>7. LockFor(id, u, amount)'
  BY <1>2, <1>3, <1>5 DEF LockFor
<1>8. FlowTypeOK'
  BY <1>2, <1>3, <1>4, <1>5 DEF FlowTypeOK
<1>9. RequestsHaveLocks'
  <2> SUFFICES ASSUME NEW h \in Gateways, gateways'[h].pc \in {"place", "release"}
               PROVE  LockFor(gateways[h].id, gateways[h].user, gateways[h].amount)'
    BY DEF RequestsHaveLocks
  <2>1. CASE h = g
    BY <1>2, <1>4, <1>5, <1>7, <2>1 DEF LockFor
  <2>2. CASE h # g
    BY <1>2, <1>5, <1>6, <2>2, RowsKeptStep
  <2> QED
    BY <2>1, <2>2
<1>10. LocksPaidAsThePoolSays'
  <2>1. \A i \in EntryIds : locks'[i].status \in {"settled", "refunded"} => locks'[i] = locks[i]
    BY <1>2, <1>3, <1>5
  <2>2. LocksPaidAsThePoolSays
    BY DEF FlowInv
  <2> QED
    BY <1>2, <2>1, <2>2 DEF LocksPaidAsThePoolSays
<1> QED
  BY <1>1, <1>2, <1>6, <1>8, <1>9, <1>10, RowsKeptStep DEF FlowInv

\* What is left to show when lock i goes from "locked" to another status.
LEMMA LockClosesStep ==
  ASSUME FlowInv, NEW i \in EntryIds, NEW status \in LockStatuses, NEW payout \in Nat,
         locks[i].status = "locked",
         locks' = [locks EXCEPT ![i] = [locks[i] EXCEPT !.status = status, !.payout = payout]],
         UNCHANGED <<snapshot, settlers, overwritten>>
  PROVE  /\ RowsKept /\ SettlersHoldThePool' /\ EveryEntryHasItsLock'
         /\ DOMAIN locks' = EntryIds
         /\ \A j \in EntryIds : locks'[j].status = "none" \/ locks'[j] \in LockType
         /\ locks'[i].status = status /\ locks'[i].payout = payout
         /\ \A j \in EntryIds : j # i => locks'[j] = locks[j]
<1>1. /\ DOMAIN locks = EntryIds
      /\ \A j \in EntryIds : locks[j].status = "none" \/ locks[j] \in LockType
  BY DEF FlowInv, FlowTypeOK
<1>2. locks[i] \in LockType
  BY <1>1
<1>3. /\ locks'[i] \in LockType
      /\ locks'[i].user = locks[i].user /\ locks'[i].amount = locks[i].amount
      /\ locks'[i].status = status /\ locks'[i].payout = payout
  BY <1>1, <1>2 DEF LockType
<1>4. DOMAIN locks' = EntryIds /\ \A j \in EntryIds : j # i => locks'[j] = locks[j]
  BY <1>1
<1>5. RowsKept
  BY <1>3, <1>4 DEF RowsKept, LockStatuses
<1> QED
  BY <1>1, <1>3, <1>4, <1>5, RowsKeptStep

\* A release closes a lock, or does nothing to it.
LEMMA ReleaseStep ==
  ASSUME FlowInv, [FlowNext]_flowVars, NEW g \in Gateways, Release(g)
  PROVE  FlowInv'
<1> DEFINE id == gateways[g].id
<1>1. PoolInv'
  BY FlowIsPoolStep, NextPoolInv DEF FlowInv
<1>2. /\ UNCHANGED <<snapshot, settlers, overwritten>>
      /\ gateways[g].pc = "release" /\ gateways' = [gateways EXCEPT ![g] = IdleGateway]
      /\ \/ locks' = locks
         \/ locks[id].status = "locked" /\ locks' = [locks EXCEPT ![id].status = "released"]
  BY DEF Release
<1>3. id \in EntryIds
  BY <1>2, RequestFields DEF FlowInv
<1>4. CASE locks' = locks
  <2>1. FlowTypeOK' /\ RequestsHaveLocks'
    BY <1>2, <1>4, IdleIsSafe, GatewayStep
  <2> QED
    BY <1>1, <1>2, <1>4, <2>1, QuietStep DEF FlowInv
<1>5. CASE locks[id].status = "locked" /\ locks' = [locks EXCEPT ![id].status = "released"]
  <2>1. locks[id] \in LockType
    BY <1>3, <1>5 DEF FlowInv, FlowTypeOK
  <2>2. /\ locks[id].payout \in Nat
        /\ [locks[id] EXCEPT !.status = "released"]
             = [locks[id] EXCEPT !.status = "released", !.payout = locks[id].payout]
    BY <2>1 DEF LockType
  <2>3. locks' = [locks EXCEPT ![id] =
                   [locks[id] EXCEPT !.status = "released", !.payout = locks[id].payout]]
    BY <1>5, <2>2
  <2>4. /\ RowsKept /\ SettlersHoldThePool' /\ EveryEntryHasItsLock'
        /\ DOMAIN locks' = EntryIds
        /\ \A j \in EntryIds : locks'[j].status = "none" \/ locks'[j] \in LockType
        /\ locks'[id].status = "released"
        /\ \A j \in EntryIds : j # id => locks'[j] = locks[j]
    BY <1>2, <1>3, <1>5, <2>2, <2>3, LockClosesStep DEF LockStatuses
  <2>5. LocksPaidAsThePoolSays'
    BY <1>2, <2>4 DEF FlowInv, LocksPaidAsThePoolSays
  <2>6. DOMAIN gateways = Gateways
    BY DEF FlowInv, FlowTypeOK
  <2>7. FlowTypeOK'
    BY <1>2, <2>4 DEF FlowInv, FlowTypeOK, IdleGateway
  <2>8. RequestsHaveLocks'
    <3> SUFFICES ASSUME NEW h \in Gateways, gateways'[h].pc \in {"place", "release"}
                 PROVE  LockFor(gateways[h].id, gateways[h].user, gateways[h].amount)'
      BY DEF RequestsHaveLocks
    <3>1. h # g
      BY <1>2, <2>6 DEF IdleGateway
    <3> QED
      BY <1>2, <2>4, <2>6, <3>1, RowsKeptStep
  <2> QED
    BY <1>1, <2>4, <2>5, <2>7, <2>8 DEF FlowInv
<1> QED
  BY <1>2, <1>4, <1>5

\* A reconciliation closes a lock with what its snapshot says.
LEMMA FinalizeLockStep ==
  ASSUME FlowInv, [FlowNext]_flowVars, NEW s \in settlers, NEW i \in DOMAIN s.entries,
         FinalizeLock(s, i)
  PROVE  FlowInv'
<1> DEFINE status == IF s.entries[i].refunded THEN "refunded" ELSE "settled"
           payout == IF s.entries[i].refunded THEN s.entries[i].amount ELSE s.entries[i].payout
<1>1. PoolInv'
  BY FlowIsPoolStep, NextPoolInv DEF FlowInv
<1>2. /\ UNCHANGED <<snapshot, settlers, overwritten>> /\ gateways' = gateways
      /\ locks[i].status = "locked"
      /\ locks' = [locks EXCEPT ![i].status = status, ![i].payout = payout]
  BY DEF FinalizeLock
<1>3. Good(s) /\ Terminal(s) /\ (~ overwritten => s = snapshot)
  BY DEF FlowInv, SettlersHoldThePool
<1>4. i \in EntryIds /\ s.entries[i] \in EntryType
  BY <1>3 DEF Good, IsSnapshot, SnapshotOver
<1>5. s.entries[i].refunded <=> s.status = "voided"
  BY <1>3 DEF Good, ResolvedTogether
<1>6. /\ status \in LockStatuses /\ payout \in Nat
      /\ s.status = "voided" => status = "refunded" /\ payout = s.entries[i].amount
      /\ s.status = "settled" => status = "settled" /\ payout = s.entries[i].payout
  <2>1. s.entries[i].amount \in Nat /\ s.entries[i].payout \in Nat
    BY <1>4 DEF EntryType
  <2> QED
    BY <1>5, <2>1 DEF LockStatuses
<1> HIDE DEF status, payout
<1>7. locks' = [locks EXCEPT ![i] = [locks[i] EXCEPT !.status = status, !.payout = payout]]
  BY <1>2, <1>4 DEF FlowInv, FlowTypeOK
<1>8. /\ RowsKept /\ SettlersHoldThePool' /\ EveryEntryHasItsLock'
      /\ DOMAIN locks' = EntryIds
      /\ \A j \in EntryIds : locks'[j].status = "none" \/ locks'[j] \in LockType
      /\ locks'[i].status = status /\ locks'[i].payout = payout
      /\ \A j \in EntryIds : j # i => locks'[j] = locks[j]
  BY <1>2, <1>4, <1>6, <1>7, LockClosesStep
<1>9. FlowTypeOK'
  BY <1>2, <1>8 DEF FlowInv, FlowTypeOK
<1>10. RequestsHaveLocks'
  BY <1>2, <1>8, RowsKeptStep DEF RequestsHaveLocks, LockFor
<1>11. LocksPaidAsThePoolSays'
  <2> SUFFICES ASSUME ~ overwritten, NEW j \in EntryIds,
                      locks'[j].status \in {"settled", "refunded"}
               PROVE  /\ j \in DOMAIN snapshot.entries
                      /\ IF locks'[j].status = "refunded"
                         THEN snapshot.status = "voided" /\ locks'[j].payout = snapshot.entries[j].amount
                         ELSE snapshot.status = "settled" /\ locks'[j].payout = snapshot.entries[j].payout
    BY <1>2 DEF LocksPaidAsThePoolSays
  <2>1. CASE j = i
    BY <1>3, <1>6, <1>8, <2>1 DEF Terminal
  <2>2. CASE j # i
    BY <1>8, <2>2 DEF FlowInv, LocksPaidAsThePoolSays
  <2> QED
    BY <2>1, <2>2
<1> QED
  BY <1>1, <1>8, <1>9, <1>10, <1>11 DEF FlowInv

-----------------------------------------------------------------------------
(***************************************************************************)
(* The theorems.                                                           *)
(***************************************************************************)
\* The invariant holds for ever.
LEMMA FlowInvHolds == FlowSpec => []FlowInv
<1>1. FlowInv /\ [FlowNext]_flowVars => FlowInv'
  <2> SUFFICES ASSUME FlowInv, [FlowNext]_flowVars PROVE FlowInv'
    OBVIOUS
  <2>1. CASE PoolMoves \/ UNCHANGED flowVars
    BY <2>1, QuietSteps
  <2>2. CASE FlowNext /\ PoolStores
    BY <2>2, PoolStoresStep
  <2>3. ASSUME NEW g \in Gateways, FlowNext, ReadPoolUnit(g) \/ EntryTaken(g) PROVE FlowInv'
    BY <2>3, ReadPoolUnitStep, EntryTakenStep
  <2>4. ASSUME NEW g \in Gateways, EntryAnswered(g) \/ GatewayDies(g) PROVE FlowInv'
    BY <2>4, QuietSteps
  <2>5. ASSUME NEW g \in Gateways, Release(g) PROVE FlowInv'
    BY <2>5, ReleaseStep
  <2>6. ASSUME NEW g \in Gateways, NEW id \in EntryIds, NEW u \in Users, NEW side \in Sides,
               NEW amount \in Amounts, NEW now \in Times, Reserve(g, id, u, side, amount, now)
        PROVE  FlowInv'
    BY <2>6, ReserveStep
  <2>7. ASSUME NEW s \in settlers, SettlerStops(s) PROVE FlowInv'
    BY <2>7, QuietSteps
  <2>8. ASSUME NEW s \in settlers, NEW i \in DOMAIN s.entries, FinalizeLock(s, i) PROVE FlowInv'
    BY <2>8, FinalizeLockStep
  <2> QED
    BY <2>1, <2>2, <2>3, <2>4, <2>5, <2>6, <2>7, <2>8, Zenon DEF FlowNext
<1> QED
  BY <1>1, InitFlowInv, PTL DEF FlowSpec

(***************************************************************************)
(* However requests, retries, evictions and late polls interleave, every   *)
(* entry in the book of a USDC pool has a lock row of its own user and     *)
(* amount: applyUsdcPoolTerminalSettlement never misses a lock.            *)
(***************************************************************************)
THEOREM EntriesAlwaysHaveLocks == FlowSpec => []EveryEntryHasItsLock
<1>1. FlowInv => EveryEntryHasItsLock
  BY DEF FlowInv
<1> QED
  BY <1>1, FlowInvHolds, PTL

(***************************************************************************)
(* As long as no late poll replaced a terminal snapshot, the locks that    *)
(* applyUsdcPoolTerminalSettlement has closed were paid what the stored    *)
(* snapshot says, wherever earlier reconciliations were interrupted.       *)
(***************************************************************************)
THEOREM LocksAlwaysPaidAsThePoolSays == FlowSpec => []LocksPaidAsThePoolSays
<1>1. FlowInv => LocksPaidAsThePoolSays
  BY DEF FlowInv
<1> QED
  BY <1>1, FlowInvHolds, PTL

=============================================================================
