---------------------------- MODULE MCParimutuel ----------------------------
(***************************************************************************)
(* Checks the operators of Parimutuel on every book that can be built from *)
(* at most MaxEntries entries with stakes in Amounts, placed at Times.     *)
(* The book grows by one entry per step and may be settled at any moment.  *)
(***************************************************************************)
EXTENDS Parimutuel, Sequences

CONSTANTS Amounts, Times, Rakes

ASSUME InputsAssumption ==
  Amounts \subseteq Nat \ {0} /\ Times \subseteq Nat /\ Rakes \subseteq 0..RakeDenominatorBps

VARIABLES book, rakeBps

vars == <<book, rakeBps>>

Entry == [side : Sides, amount : Amounts, placedAt : Times]

Init ==
  /\ book = << >>
  /\ rakeBps \in Rakes

PlaceEntry ==
  /\ Len(book) < MaxEntries
  /\ \E e \in Entry : book' = Append(book, e)
  /\ UNCHANGED rakeBps

Next == PlaceEntry

Spec == Init /\ [][Next]_vars

-----------------------------------------------------------------------------
Result(outcome) == SettleParimutuel(book, outcome, rakeBps)

\* The winnings of entry i over its stake.
Winnings(outcome, i) == Result(outcome).payouts[i] - book[i].amount

PrizePool(outcome) ==
  Staked(book, EntriesOn(book, OtherSide(outcome))) - Result(outcome).rakeAmount

(***************************************************************************)
(* Money is conserved by settleParimutuel: what the entries are paid and   *)
(* what the house rakes add up to exactly what was staked, whatever the    *)
(* roundings of the pro-rata division were.                                *)
(***************************************************************************)
PayoutsConserveStakes ==
  \A o \in Sides :
    Result(o).kind = "settled" =>
      /\ SumTo(Result(o).payouts, Len(book)) + Result(o).rakeAmount
           = Result(o).totalStaked
      /\ Result(o).totalStaked = Staked(book, DOMAIN book)

(***************************************************************************)
(* allocatePrizePool is fair: no winner is paid less than its stake, and   *)
(* its winnings differ from the exact pro-rata share of the prize pool by  *)
(* less than one unit, on either side.                                     *)
(***************************************************************************)
WinningsAreProRata ==
  \A o \in Sides :
    Result(o).kind = "settled" =>
      \A i \in EntriesOn(book, o) :
        LET winPool == Staked(book, EntriesOn(book, o))
            error   == Winnings(o, i) * winPool - book[i].amount * PrizePool(o)
        IN  /\ Winnings(o, i) >= 0
            /\ -winPool < error /\ error < winPool

(***************************************************************************)
(* The order of compareRemainderDrafts never turns the stakes around: of   *)
(* two entries on the winning side the larger stake wins at least as much, *)
(* and of two equal stakes the one placed first does.                      *)
(***************************************************************************)
LargerOrEarlierStakeWinsNoLess ==
  \A o \in Sides :
    Result(o).kind = "settled" =>
      \A i, j \in EntriesOn(book, o) :
        \/ book[i].amount > book[j].amount
        \/ book[i].amount = book[j].amount /\ book[i].placedAt < book[j].placedAt
        => Winnings(o, i) >= Winnings(o, j)

(***************************************************************************)
(* previewPayout tells the bettor the truth: an entry placed now and       *)
(* settled on its side with no other entry in between is paid the          *)
(* previewed amount, or one unit more when it is given a left-over unit.   *)
(***************************************************************************)
PreviewIsHonoured ==
  Len(book) < MaxEntries =>
    \A e \in Entry :
      LET preview == PreviewPayout(CalculatePoolTotals(book), e.side, e.amount, rakeBps)
          paid    == SettleParimutuel(Append(book, e), e.side, rakeBps)
                       .payouts[Len(book) + 1]
      IN  paid \in {preview, preview + 1}

=============================================================================
