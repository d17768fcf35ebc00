---------------------------- MODULE MCHeartbeat ----------------------------
(* Small instances of the heartbeat rows: two collectors, one of them slow. *)
EXTENDS Heartbeat, TLC

CONSTANTS f1, f2, s1, s2, main, slow1, slow2

MCCollectorOf == [b \in Batch |-> IF b \in {f1, f2} THEN "cpu" ELSE "services"]
MCSymmetry == Permutations({slow1, slow2})
MCSize == [b \in Batch |-> 1]
=============================================================================
