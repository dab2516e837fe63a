-------------------------------- MODULE Sums --------------------------------
(***************************************************************************)
(* Finite sums of an integer-valued function: over the index range 1..n,   *)
(* written as a recursive function (the shape of an Array.prototype.reduce *)
(* with initial value 0), and over any finite set, written as a fold, so   *)
(* that facts about them can be proved.                                    *)
(***************************************************************************)
EXTENDS Integers, Folds

\* v[1] + ... + v[n]
SumTo(v, n) ==
  LET partial[k \in 0..n] == IF k = 0 THEN 0 ELSE partial[k - 1] + v[k]
  IN  partial[n]

\* The sum of f[x] over the elements x of a finite set.
SumOver(f, S) ==
  MapThenFoldSet(+, 0, LAMBDA x : f[x], LAMBDA T : CHOOSE x \in T : TRUE, S)

=============================================================================
