----------------------------- MODULE Parimutuel -----------------------------
(***************************************************************************)
(* The parimutuel arithmetic of a dotCast pool                             *)
(* (src/src/engine/dotcast/Parimutuel.ts).  All amounts are integer minor  *)
(* units; the code computes the products in BigInt, so nothing overflows.  *)
(*                                                                         *)
(* A book of entries is a function from a set of entry ids (numbers, whose *)
(* order stands for localeCompare on the id strings) to records with at    *)
(* least the fields side, amount and placedAt.  Ids are unique in a book,  *)
(* so the code's last tie-break, the array index, is never reached.        *)
(* A rake is given in basis points: Math.round(rake * 10_000).             *)
(***************************************************************************)
EXTENDS Integers, FiniteSets, Sums

CONSTANT MaxEntries        \* largest entry id; ids are 1..MaxEntries

ASSUME MaxEntriesAssumption == MaxEntries \in Nat

EntryIds == 1..MaxEntries
Sides == {"yes", "no"}
OtherSide(side) == IF side = "yes" THEN "no" ELSE "yes"

RakeDenominatorBps == 10000

-----------------------------------------------------------------------------

\* The sum of the stakes of the entries with an id in S.
Staked(book, S) ==
  SumTo([i \in EntryIds |-> IF i \in S \cap DOMAIN book THEN book[i].amount ELSE 0],
        MaxEntries)

EntriesOn(book, side) == {i \in DOMAIN book : book[i].side = side}

CalculatePoolTotals(book) == [s \in Sides |-> Staked(book, EntriesOn(book, s))]

CalculateRakeAmount(losingPool, rakeBps) ==
  (losingPool * rakeBps) \div RakeDenominatorBps

-----------------------------------------------------------------------------
(***************************************************************************)
(* allocatePrizePool: every winner gets the floor of its pro-rata share of *)
(* the prize pool; the units left over go one each to the entries that     *)
(* come first in the order of compareRemainderDrafts.                      *)
(***************************************************************************)
BaseWinnings(book, i, winPool, prizePool) ==
  (book[i].amount * prizePool) \div winPool

Remainder(book, i, winPool, prizePool) ==
  (book[i].amount * prizePool) % winPool

\* Mutant: the sort puts the smallest remainder first.
SmallestRemainderBefore(book, i, j, winPool, prizePool) ==
  LET ri == Remainder(book, i, winPool, prizePool)
      rj == Remainder(book, j, winPool, prizePool)
  IN  \/ ri < rj
      \/ ri = rj /\ book[i].placedAt < book[j].placedAt
      \/ ri = rj /\ book[i].placedAt = book[j].placedAt /\ i < j

\* compareRemainderDrafts(i, j) < 0: larger remainder, then earlier, then id.
RemainderBefore(book, i, j, winPool, prizePool) ==
  LET ri == Remainder(book, i, winPool, prizePool)
      rj == Remainder(book, j, winPool, prizePool)
  IN  \/ ri > rj
      \/ ri = rj /\ book[i].placedAt < book[j].placedAt
      \/ ri = rj /\ book[i].placedAt = book[j].placedAt /\ i < j

\* Mutant: the left-over units stay with the house.
AllocateFloorsOnly(book, winners, winPool, prizePool) ==
  [i \in winners |-> BaseWinnings(book, i, winPool, prizePool)]

\* Mutant: the first winner gets all left-over units.
AllocateLeftOverToFirst(book, winners, winPool, prizePool) ==
  LET base(i) == BaseWinnings(book, i, winPool, prizePool)
      baseTotal == SumTo([i \in EntryIds |-> IF i \in winners THEN base(i) ELSE 0],
                         MaxEntries)
  IN  [i \in winners |->
        IF \E j \in winners : RemainderBefore(book, j, i, winPool, prizePool)
        THEN base(i) ELSE base(i) + prizePool - baseTotal]

AllocatePrizePool(book, winners, winPool, prizePool) ==
  LET base(i)   == BaseWinnings(book, i, winPool, prizePool)
      baseTotal == SumTo([i \in EntryIds |-> IF i \in winners THEN base(i) ELSE 0],
                         MaxEntries)
      undistributed == prizePool - baseTotal
      rank(i) == Cardinality({j \in winners :
                               RemainderBefore(book, j, i, winPool, prizePool)})
  IN  [i \in winners |-> IF rank(i) < undistributed THEN base(i) + 1 ELSE base(i)]

-----------------------------------------------------------------------------
(***************************************************************************)
(* settleParimutuel.  The empty book and a book nobody of which won both   *)
(* ask for a void; otherwise winners get stake plus winnings, losers 0.    *)
(***************************************************************************)
SettleParimutuel(book, outcome, rakeBps) ==
  LET totals   == CalculatePoolTotals(book)
      winPool  == totals[outcome]
      losePool == totals[OtherSide(outcome)]
      winners  == EntriesOn(book, outcome)
      rake     == CalculateRakeAmount(losePool, rakeBps)
      winnings == AllocatePrizePool(book, winners, winPool, losePool - rake)
  IN  IF winPool = 0
      THEN [kind        |-> "void_required",
            totalStaked |-> winPool + losePool,
            rakeAmount  |-> 0,
            payouts     |-> [i \in DOMAIN book |-> 0]]
      ELSE [kind        |-> "settled",
            totalStaked |-> winPool + losePool,
            rakeAmount  |-> rake,
            payouts     |-> [i \in DOMAIN book |->
                              IF i \in winners THEN book[i].amount + winnings[i] ELSE 0]]

\* Mutant: the preview forgets the rake.
PreviewBeforeRake(totals, side, amount, rakeBps) ==
  amount + (amount * totals[OtherSide(side)]) \div (totals[side] + amount)

\* previewPayout: what an entry of this amount would be paid if its side won.
PreviewPayout(totals, side, amount, rakeBps) ==
  LET winPool  == totals[side] + amount
      losePool == totals[OtherSide(side)]
      prizePool == losePool - CalculateRakeAmount(losePool, rakeBps)
  IN  IF losePool = 0 THEN amount
      ELSE amount + (amount * prizePool) \div winPool

=============================================================================
