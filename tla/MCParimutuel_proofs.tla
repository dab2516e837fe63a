------------------------- MODULE MCParimutuel_proofs -------------------------
(***************************************************************************)
(* The properties of settleParimutuel and previewPayout, for books of any  *)
(* size with any stakes and any rake up to the whole losing pool.          *)
(***************************************************************************)
EXTENDS MCParimutuel, Parimutuel_proofs

USE MaxEntriesAssumption, InputsAssumption

\* The book is a sequence of entries no longer than MaxEntries.
BookInv ==
  /\ book \in Seq(Entry) /\ Len(book) <= MaxEntries
  /\ rakeBps \in Rakes

\* An entry that can be placed is one the arithmetic applies to.
LEMMA EntryFields ==
  ASSUME NEW e \in Entry
  PROVE  /\ e.amount \in Nat /\ e.amount > 0 /\ e.placedAt \in Int
         /\ e.side \in Sides
<1>1. e.amount \in Amounts /\ e.placedAt \in Times /\ e.side \in Sides
  BY DEF Entry
<1>2. (\A a \in Amounts : a \in Nat /\ a > 0) /\ (\A t \in Times : t \in Int)
  OBVIOUS
<1> QED
  BY <1>1, <1>2

\* The sequence is a book of entries 1..Len(book).
LEMMA SequenceIsBook ==
  ASSUME BookInv
  PROVE  IsBook(book) /\ DOMAIN book = 1..Len(book) /\ Len(book) \in Nat
<1>1. DOMAIN book = 1..Len(book) /\ Len(book) \in Nat
  BY DEF BookInv
<1>2. DOMAIN book \subseteq EntryIds
  BY <1>1 DEF BookInv, EntryIds
<1>3. \A i \in DOMAIN book : book[i] \in Entry
  BY DEF BookInv
<1> QED
  BY <1>1, <1>2, <1>3, EntryFields DEF IsBook

LEMMA BookInvHolds == Spec => []BookInv
<1>1. Init => BookInv
  BY DEF Init, BookInv
<1>2. BookInv /\ [Next]_vars => BookInv'
  <2> SUFFICES ASSUME BookInv, [Next]_vars PROVE BookInv'
    OBVIOUS
  <2>1. CASE Next
    <3>1. PICK e \in Entry : book' = Append(book, e)
      BY <2>1 DEF Next, PlaceEntry
    <3>2. Len(book) < MaxEntries /\ rakeBps' = rakeBps
      BY <2>1 DEF Next, PlaceEntry
    <3>3. book' \in Seq(Entry) /\ Len(book') = Len(book) + 1
      BY <3>1 DEF BookInv
    <3> QED
      BY <3>2, <3>3 DEF BookInv
  <2>2. CASE UNCHANGED vars
    BY <2>2 DEF vars, BookInv
  <2> QED
    BY <2>1, <2>2
<1> QED
  BY <1>1, <1>2, PTL DEF Spec

-----------------------------------------------------------------------------
(***************************************************************************)
(* settleParimutuel conserves money: payouts and rake add up to exactly    *)
(* what was staked, for every book, outcome and rake.                      *)
(***************************************************************************)
THEOREM SettlementConservesStakes == Spec => []PayoutsConserveStakes
<1>1. BookInv => PayoutsConserveStakes
  <2> SUFFICES ASSUME BookInv, NEW o \in Sides, Result(o).kind = "settled"
               PROVE  /\ SumTo(Result(o).payouts, Len(book)) + Result(o).rakeAmount
                           = Result(o).totalStaked
                      /\ Result(o).totalStaked = Staked(book, DOMAIN book)
    BY DEF PayoutsConserveStakes
  <2> DEFINE r == SettleParimutuel(book, o, rakeBps)
             paid == [i \in EntryIds |-> IF i \in DOMAIN book THEN r.payouts[i] ELSE 0]
  <2>1. IsBook(book) /\ DOMAIN book = 1..Len(book) /\ Len(book) \in Nat /\ Len(book) <= MaxEntries
    BY SequenceIsBook DEF BookInv
  <2>2. rakeBps \in 0..RakeDenominatorBps /\ r.kind = "settled"
    BY DEF BookInv, Result
  <2>3. /\ SumTo(paid, MaxEntries) + r.rakeAmount = Staked(book, DOMAIN book)
        /\ r.totalStaked = Staked(book, DOMAIN book)
    BY <2>1, <2>2, SettlementConserves
  <2>4. \A i \in DOMAIN book : r.payouts[i] \in Nat
    BY <2>1, <2>2, SettlementNat
  <2> HIDE DEF r
  <2>5. /\ \A k \in 1..Len(book) : r.payouts[k] \in Int /\ paid[k] = r.payouts[k]
        /\ \A k \in (Len(book) + 1)..MaxEntries : paid[k] = 0
    BY <2>1, <2>4 DEF EntryIds
  <2> HIDE DEF paid
  <2>6. SumTo(paid, MaxEntries) = SumTo(r.payouts, Len(book))
    BY <2>1, <2>5, SumToTail
  <2> QED
    BY <2>3, <2>6 DEF r, Result
<1> QED
  BY <1>1, BookInvHolds, PTL

-----------------------------------------------------------------------------
\* What a winner wins is what allocatePrizePool gives it.
LEMMA WinningsAreAllocated ==
  ASSUME BookInv, NEW o \in Sides, Result(o).kind = "settled"
  PROVE  LET winners == EntriesOn(book, o)
             winPool == Staked(book, winners)
         IN  /\ IsBook(book) /\ winners \subseteq DOMAIN book
             /\ winPool \in Nat /\ winPool > 0 /\ PrizePool(o) \in Nat
             /\ \A i \in winners :
                  /\ book[i].amount \in Nat
                  /\ Winnings(o, i) = AllocatePrizePool(book, winners, winPool, PrizePool(o))[i]
<1> DEFINE r == SettleParimutuel(book, o, rakeBps)
           winners == EntriesOn(book, o)
           winPool == Staked(book, winners)
           a == AllocatePrizePool(book, winners, winPool, PrizePool(o))
<1>1. IsBook(book)
  BY SequenceIsBook
<1>2. rakeBps \in 0..RakeDenominatorBps /\ r.kind = "settled"
  BY DEF BookInv, Result
<1>3. PrizePool(o) = Staked(book, EntriesOn(book, OtherSide(o))) - r.rakeAmount
  BY DEF PrizePool, Result
<1>4. /\ winners \subseteq DOMAIN book /\ winPool \in Nat /\ winPool > 0 /\ PrizePool(o) \in Nat
      /\ r.payouts = [i \in DOMAIN book |-> IF i \in winners THEN book[i].amount + a[i] ELSE 0]
  BY <1>1, <1>2, <1>3, SettlementFields
<1>5. \A i \in winners : book[i].amount \in Nat
  BY <1>1, <1>4 DEF IsBook
<1>6. \A i \in winners : Winnings(o, i) = r.payouts[i] - book[i].amount
  BY DEF Winnings, Result
<1> HIDE DEF r, winners, winPool
<1>7. \A i \in winners : a[i] \in Nat
  BY <1>1, <1>4, WinningsNat
<1> HIDE DEF a
<1>8. \A i \in winners : Winnings(o, i) = a[i]
  BY <1>4, <1>5, <1>6, <1>7
<1> QED
  BY <1>1, <1>4, <1>5, <1>8 DEF a, winners, winPool

(***************************************************************************)
(* allocatePrizePool is fair: no winner loses, and none is more than a     *)
(* unit away from its exact share, whatever the stakes.                    *)
(***************************************************************************)
THEOREM SettlementIsProRata == Spec => []WinningsAreProRata
<1>1. BookInv => WinningsAreProRata
  <2> SUFFICES ASSUME BookInv, NEW o \in Sides, Result(o).kind = "settled",
                      NEW i \in EntriesOn(book, o)
               PROVE  LET winPool == Staked(book, EntriesOn(book, o))
                          error   == Winnings(o, i) * winPool - book[i].amount * PrizePool(o)
                      IN  /\ Winnings(o, i) >= 0
                          /\ -winPool < error /\ error < winPool
    BY DEF WinningsAreProRata
  <2> DEFINE winners == EntriesOn(book, o)
             winPool == Staked(book, winners)
             prize == PrizePool(o)
             won   == Winnings(o, i)
             base  == BaseWinnings(book, i, winPool, prize)
             rem   == Remainder(book, i, winPool, prize)
             share == book[i].amount * prize
  <2>1. /\ IsBook(book) /\ winners \subseteq DOMAIN book /\ book[i].amount \in Nat
        /\ winPool \in Nat /\ winPool > 0 /\ prize \in Nat
        /\ won = AllocatePrizePool(book, winners, winPool, prize)[i]
    BY WinningsAreAllocated
  <2> HIDE DEF prize, won
  <2>2. base \in Nat /\ rem \in Nat /\ rem < winPool /\ share = base * winPool + rem
    BY <2>1, ShareSplits
  <2>3. won = base \/ won = base + 1
    BY <2>1, WinningsNat
  <2>4. rem = 0 => won = base
    BY <2>1, NoUnitForWholeShare
  <2> HIDE DEF base, rem, share, winPool
  <2>5. won >= 0 /\ -winPool < won * winPool - share /\ won * winPool - share < winPool
    <3>1. base * winPool \in Nat /\ (base + 1) * winPool = base * winPool + winPool
      BY <2>1, <2>2
    <3> QED
      BY <2>1, <2>2, <2>3, <2>4, <3>1
  <2> QED
    BY <2>5 DEF won, winPool, share, prize
<1> QED
  BY <1>1, BookInvHolds, PTL

(***************************************************************************)
(* The order of compareRemainderDrafts never turns the stakes around: the  *)
(* larger stake, and of equal stakes the earlier, wins no less.            *)
(***************************************************************************)
THEOREM SettlementKeepsTheOrder == Spec => []LargerOrEarlierStakeWinsNoLess
<1>1. BookInv => LargerOrEarlierStakeWinsNoLess
  <2> SUFFICES ASSUME BookInv, NEW o \in Sides, Result(o).kind = "settled",
                      NEW i \in EntriesOn(book, o), NEW j \in EntriesOn(book, o),
                      \/ book[i].amount > book[j].amount
                      \/ book[i].amount = book[j].amount /\ book[i].placedAt < book[j].placedAt
               PROVE  Winnings(o, i) >= Winnings(o, j)
    BY DEF LargerOrEarlierStakeWinsNoLess
  <2> DEFINE winners == EntriesOn(book, o)
             winPool == Staked(book, winners)
             prize == PrizePool(o)
             base(k) == BaseWinnings(book, k, winPool, prize)
             rem(k) == Remainder(book, k, winPool, prize)
  <2>1. /\ IsBook(book) /\ winners \subseteq DOMAIN book
        /\ book[i].amount \in Nat /\ book[j].amount \in Nat
        /\ winPool \in Nat /\ winPool > 0 /\ prize \in Nat
        /\ Winnings(o, i) = AllocatePrizePool(book, winners, winPool, prize)[i]
        /\ Winnings(o, j) = AllocatePrizePool(book, winners, winPool, prize)[j]
    BY WinningsAreAllocated
  <2> HIDE DEF prize, winners
  <2>2. /\ i \in winners /\ j \in winners
    BY DEF winners
  <2>3. /\ base(i) \in Nat /\ rem(i) \in Nat /\ rem(i) < winPool
        /\ book[i].amount * prize = base(i) * winPool + rem(i)
        /\ base(j) \in Nat /\ rem(j) \in Nat /\ rem(j) < winPool
        /\ book[j].amount * prize = base(j) * winPool + rem(j)
    BY <2>1, <2>2, ShareSplits
  <2>4. /\ Winnings(o, i) = base(i) \/ Winnings(o, i) = base(i) + 1
        /\ Winnings(o, j) = base(j) \/ Winnings(o, j) = base(j) + 1
        /\ rem(j) = 0 => Winnings(o, j) = base(j)
    BY <2>1, <2>2, WinningsNat, NoUnitForWholeShare
  <2>5. base(i) = base(j) /\ RemainderBefore(book, i, j, winPool, prize)
          => Winnings(o, i) >= Winnings(o, j)
    BY <2>1, <2>2, FirstWinsNoLess
  <2>6. /\ rem(i) > rem(j) => RemainderBefore(book, i, j, winPool, prize)
        /\ rem(i) = rem(j) /\ book[i].placedAt < book[j].placedAt
             => RemainderBefore(book, i, j, winPool, prize)
    BY DEF RemainderBefore
  <2>7. book[i].amount = book[j].amount => base(i) = base(j) /\ rem(i) = rem(j)
    BY DEF BaseWinnings, Remainder
  <2> HIDE DEF winPool, base, rem
  <2>8. CASE book[i].amount = book[j].amount
    BY <2>1, <2>5, <2>6, <2>7, <2>8
  <2>9. CASE book[i].amount > book[j].amount
    <3>1. book[i].amount * prize >= book[j].amount * prize
      BY <2>1, <2>9
    <3>2. base(i) >= base(j)
      <4> SUFFICES ASSUME base(i) + 1 <= base(j) PROVE FALSE
        BY <2>3
      <4>1. base(i) * winPool + winPool <= base(j) * winPool
        <5>1. (base(i) + 1) * winPool <= base(j) * winPool
          BY <2>1, <2>3
        <5>2. (base(i) + 1) * winPool = base(i) * winPool + winPool
          BY <2>1, <2>3
        <5> QED
          BY <5>1, <5>2
      <4> QED
        BY <2>1, <2>3, <3>1, <4>1
    <3>3. CASE base(i) > base(j)
      BY <2>3, <2>4, <3>3
    <3>4. CASE base(i) = base(j)
      <4>1. rem(i) >= rem(j)
        BY <2>1, <2>3, <3>1, <3>4
      <4>2. CASE rem(i) > rem(j)
        BY <2>5, <2>6, <3>4, <4>2
      <4>3. CASE rem(i) = rem(j)
        <5>1. book[i].amount * prize = book[j].amount * prize
          BY <2>3, <3>4, <4>3
        <5>2. prize = 0
          <6> SUFFICES ASSUME prize > 0 PROVE FALSE
            BY <2>1
          <6> QED
            BY <2>1, <2>9, <5>1, FactorBounds
        <5>3. rem(j) = 0
          <6>1. book[j].amount * prize = 0
            BY <2>1, <5>2
          <6> QED
            BY <2>1, <2>3, <6>1
        <5> QED
          BY <2>3, <2>4, <3>4, <5>3
      <4> QED
        BY <2>3, <4>1, <4>2, <4>3
    <3> QED
      BY <2>3, <3>2, <3>3, <3>4
  <2> QED
    BY <2>8, <2>9
<1> QED
  BY <1>1, BookInvHolds, PTL

-----------------------------------------------------------------------------
\* The next entry joins its own side's pool and leaves the other alone.
LEMMA PlacedEntry ==
  ASSUME BookInv, Len(book) < MaxEntries, NEW e \in Entry
  PROVE  LET placed == Append(book, e)
         IN  /\ IsBook(placed)
             /\ Len(book) + 1 \in EntriesOn(placed, e.side)
             /\ placed[Len(book) + 1] = e
             /\ Staked(placed, EntriesOn(placed, e.side))
                  = Staked(book, EntriesOn(book, e.side)) + e.amount
             /\ Staked(placed, EntriesOn(placed, OtherSide(e.side)))
                  = Staked(book, EntriesOn(book, OtherSide(e.side)))
<1> DEFINE placed == Append(book, e)
           id == Len(book) + 1
<1>1. IsBook(book) /\ DOMAIN book = 1..Len(book) /\ Len(book) \in Nat
  BY SequenceIsBook
<1>2. /\ DOMAIN placed = DOMAIN book \cup {id} /\ placed[id] = e
      /\ \A i \in DOMAIN book : placed[i] = book[i]
  <2>1. placed \in Seq(Entry) /\ Len(placed) = id /\ placed[id] = e
    BY DEF BookInv
  <2>2. \A i \in 1..Len(book) : placed[i] = book[i]
    BY DEF BookInv
  <2>3. DOMAIN placed = 1..id
    BY <2>1
  <2>4. 1..id = 1..Len(book) \cup {id}
    BY <1>1
  <2> QED
    BY <1>1, <2>1, <2>2, <2>3, <2>4
<1>3. id \in EntryIds /\ id \notin DOMAIN book
  BY <1>1 DEF EntryIds
<1>4. e.amount \in Nat /\ e.placedAt \in Int /\ e.side \in Sides
  BY EntryFields
<1> HIDE DEF placed, id
<1>5. BookWith(book, placed, id, e)
  BY <1>2, <1>3 DEF BookWith
<1> QED
  BY <1>1, <1>4, <1>5, EntryJoinsItsSide DEF placed, id

(***************************************************************************)
(* previewPayout tells the truth: settled with no other entry in between,  *)
(* the entry is paid what was previewed or one unit more.                  *)
(***************************************************************************)
THEOREM PreviewsAreHonoured == Spec => []PreviewIsHonoured
<1>1. BookInv => PreviewIsHonoured
  <2> SUFFICES ASSUME BookInv, Len(book) < MaxEntries, NEW e \in Entry
               PROVE  LET preview == PreviewPayout(CalculatePoolTotals(book), e.side, e.amount,
                                                   rakeBps)
                          paid    == SettleParimutuel(Append(book, e), e.side, rakeBps)
                                       .payouts[Len(book) + 1]
                      IN  paid \in {preview, preview + 1}
    BY DEF PreviewIsHonoured
  <2> DEFINE placed == Append(book, e)
             id == Len(book) + 1
             r == SettleParimutuel(placed, e.side, rakeBps)
             winners == EntriesOn(placed, e.side)
             winPool == Staked(book, EntriesOn(book, e.side)) + e.amount
             losePool == Staked(book, EntriesOn(book, OtherSide(e.side)))
             prize == losePool - CalculateRakeAmount(losePool, rakeBps)
             base == BaseWinnings(placed, id, winPool, prize)
             preview == PreviewPayout(CalculatePoolTotals(book), e.side, e.amount, rakeBps)
  <2>1. e.amount \in Nat /\ e.amount > 0 /\ e.side \in Sides /\ rakeBps \in 0..RakeDenominatorBps
    BY EntryFields DEF BookInv
  <2>2. /\ IsBook(placed) /\ id \in winners /\ placed[id] = e
        /\ Staked(placed, EntriesOn(placed, e.side)) = winPool
        /\ Staked(placed, EntriesOn(placed, OtherSide(e.side))) = losePool
    BY PlacedEntry
  <2>3. winPool \in Nat /\ winPool > 0 /\ losePool \in Nat
    BY <2>1, StakedNat, SequenceIsBook
  <2>4. /\ CalculatePoolTotals(book)[e.side] = Staked(book, EntriesOn(book, e.side))
        /\ CalculatePoolTotals(book)[OtherSide(e.side)] = losePool
    BY <2>1, SidesOpposed DEF CalculatePoolTotals
  <2>5. preview = IF losePool = 0 THEN e.amount ELSE e.amount + (e.amount * prize) \div winPool
    BY <2>4 DEF PreviewPayout
  <2>6. CalculatePoolTotals(placed)[e.side] = winPool
    BY <2>1, <2>2 DEF CalculatePoolTotals
  <2> HIDE DEF preview, placed, id, winPool, losePool
  <2>7. r.kind = "settled"
    BY <2>3, <2>6 DEF SettleParimutuel
  <2>8. /\ winners \subseteq DOMAIN placed /\ prize \in Nat
        /\ r.payouts = [i \in DOMAIN placed |->
                         IF i \in winners
                         THEN placed[i].amount + AllocatePrizePool(placed, winners, winPool, prize)[i]
                         ELSE 0]
    <3> HIDE DEF r, winners, prize
    <3>1. /\ winners \subseteq DOMAIN placed
          /\ r.rakeAmount = CalculateRakeAmount(losePool, rakeBps)
          /\ losePool - r.rakeAmount \in Nat
          /\ r.payouts = [i \in DOMAIN placed |->
               IF i \in winners
               THEN placed[i].amount
                      + AllocatePrizePool(placed, winners, winPool, losePool - r.rakeAmount)[i]
               ELSE 0]
      BY <2>1, <2>2, <2>7, SettlementFields DEF r, winners
    <3>2. losePool - r.rakeAmount = prize
      BY <3>1 DEF prize
    <3> QED
      BY <3>1, <3>2
  <2> HIDE DEF r, prize
  <2>9. \/ r.payouts[id] = e.amount + base
        \/ r.payouts[id] = e.amount + (base + 1)
    BY <2>2, <2>3, <2>8, WinningsNat
  <2>10. base = (e.amount * prize) \div winPool
    BY <2>2 DEF BaseWinnings
  <2>11. losePool = 0 => prize = 0
    <3> SUFFICES ASSUME losePool = 0 PROVE prize = 0
      OBVIOUS
    <3>1. CalculateRakeAmount(0, rakeBps) \in Nat /\ CalculateRakeAmount(0, rakeBps) <= 0
      BY <2>1, RakeWithinPool
    <3> QED
      BY <3>1 DEF prize
  <2>12. losePool = 0 => base = 0
    <3> SUFFICES ASSUME losePool = 0 PROVE base = 0
      OBVIOUS
    <3>1. base = (e.amount * 0) \div winPool
      BY <2>10, <2>11
    <3>2. e.amount * 0 = 0 /\ 0 \div winPool = 0
      BY <2>1, <2>3
    <3> QED
      BY <3>1, <3>2
  <2>13. base \in Nat
    BY <2>2, <2>3, <2>8, ShareSplits
  <2> HIDE DEF base
  <2>14. preview = e.amount + base
    BY <2>1, <2>5, <2>10, <2>12, <2>13
  <2>15. r.payouts[id] \in {preview, preview + 1}
    BY <2>1, <2>9, <2>13, <2>14
  <2> QED
    BY <2>15 DEF r, preview, id, placed
<1> QED
  BY <1>1, BookInvHolds, PTL

=============================================================================
