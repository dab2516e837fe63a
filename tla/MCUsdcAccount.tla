--------------------------- MODULE MCUsdcAccount ---------------------------
(***************************************************************************)
(* UsdcAccount for TLC.                                                    *)
(***************************************************************************)
EXTENDS UsdcAccount, TLC

CONSTANTS DepositAmount, WithdrawalAmount, EntryAmount, BondAmount

\* Records of one kind have one amount.
MCAmount ==
  [k \in Deposits |-> DepositAmount] @@ [k \in Withdrawals |-> WithdrawalAmount]
    @@ [k \in Entries |-> EntryAmount] @@ [k \in Bonds |-> BondAmount]

Symmetry == Permutations(Workers)

=============================================================================
