---------------------------- MODULE MCWritePath ----------------------------
(* Small instances of the write path.                                      *)
EXTENDS WritePathRefinement, TLC

CONSTANTS b1, b2, b3, b4, b5, b6, main, slow1, slow2

MCSize == (b1 :> 1) @@ (b2 :> 1) @@ (b3 :> 2) @@ (b4 :> 3)
MCSizeBig == [b \in Batch |-> IF b = b5 THEN 3 ELSE IF b = b6 THEN 2 ELSE 1]
MCSizeOfOne == [b \in Batch |-> 1]

MCSymmetry == Permutations({slow1, slow2})
=============================================================================
