------------------------- MODULE MCLottoGeneration -------------------------
(***************************************************************************)
(* LottoGeneration for TLC.                                                *)
(***************************************************************************)
EXTENDS LottoGeneration, TLC

CONSTANT g1

OneGame == <<g1>>

=============================================================================
