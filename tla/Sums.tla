-------------------------------- MODULE Sums --------------------------------
(***************************************************************************)
(* The sum of f[x] over the x of a finite set S, as the number of units:   *)
(* f[x] of them for each x.  It is what MapThenSumSet computes, without    *)
(* the recursion, which a proof could only follow by induction.            *)
(***************************************************************************)
EXTENDS Integers, FiniteSets

Units(f, S) == UNION {{x} \X (1..f[x]) : x \in S}
SumOver(f, S) == Cardinality(Units(f, S))
=============================================================================
