---------------------------- MODULE MCComponents ----------------------------
(* Small instances of the eleven components, in one run. *)
EXTENDS Components, TLC

CONSTANTS a1, a2, g1, g2, l1, l2, p1, p2

\* Attempts and processes of a component are alike.
Symmetry == Permutations({p1, p2}) \cup Permutations({a1, a2})

MCRowsOf == [f \in {g1, g2} |-> IF f = g1 THEN {l1, l2} ELSE {l2}]
=============================================================================
