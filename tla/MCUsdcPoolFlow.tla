--------------------------- MODULE MCUsdcPoolFlow ---------------------------
(***************************************************************************)
(* UsdcPoolFlow for TLC.  Users are interchangeable, and so are gateway    *)
(* requests.                                                               *)
(***************************************************************************)
EXTENDS UsdcPoolFlow, TLC

Symmetry == Permutations(Users) \cup Permutations(Gateways)

=============================================================================
