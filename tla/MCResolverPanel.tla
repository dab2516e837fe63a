--------------------------- MODULE MCResolverPanel ---------------------------
(***************************************************************************)
(* ResolverPanel for TLC: three equally weighted resolvers.                *)
(***************************************************************************)
EXTENDS ResolverPanel, TLC

EqualWeights == [s \in 1..3 |-> 1]

\* The second resolver sees it otherwise than the first and the last.
SplitVotes == <<{"yes"}, {"no"}, {"yes"}>>

\* Requests overlap on a panel of one; on a panel of three they follow each other.
OneAtATimeOnThree == [n \in {1, 3} |-> IF n = 1 THEN 2 ELSE 1]

\* A panel and votes that a request brings: one seat, the other answer, and more
\* than the whole fee.
SomeBodies ==
  {[seats |-> {1}, matched |-> {1}, answer |-> "no", fee |-> 4]}

Symmetry == Permutations(Workers)

=============================================================================
