--------------------------- MODULE MCDotCastPool ---------------------------
(***************************************************************************)
(* DotCastPool for TLC: users, poll requests and the alarm handler are     *)
(* model values.  Users are interchangeable, and so are poll requests.     *)
(***************************************************************************)
EXTENDS DotCastPool, TLC

Symmetry == Permutations(Users) \cup Permutations(Requests)

=============================================================================
