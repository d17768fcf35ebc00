---------------------------- MODULE MCRetention ----------------------------
(* Small instances of retention: two runs over the rows of a table.        *)
EXTENDS Retention, TLC

CONSTANTS r1, r2, r3, r4, r5, p1, p2

MCTableOf == [r \in Row |-> IF r = r5 THEN "gpu" ELSE "cpu"]
MCSymmetry == Permutations(Row \ {r5}) \cup Permutations(Run)
=============================================================================
