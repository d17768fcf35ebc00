---------------------------- MODULE MCLifecycle ----------------------------
(* A small instance of the process: the two slow collectors and a fast one   *)
(* whose name is no key of cfg.Intervals.                                    *)
EXTENDS Lifecycle, TLC

MCIntervals ==
  ("cpu" :> 1) @@ ("network" :> 1) @@ ("system" :> 1)
    @@ ("services" :> 2) @@ ("processes" :> 1)
=============================================================================
