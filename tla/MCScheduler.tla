---------------------------- MODULE MCScheduler ----------------------------
(* Small instances of the scheduler: the two slow collectors, one fast one,  *)
(* and the two network collectors whose names are no keys of cfg.Intervals.  *)
EXTENDS Scheduler, TLC

MCIntervals ==
  ("cpu" :> 1) @@ ("network" :> 1) @@ ("system" :> 2)
    @@ ("services" :> 2) @@ ("processes" :> 1)
=============================================================================
