----------------------------- MODULE Telemetry ------------------------------
(* The queries of the dashboard that compute, over the rows the collectors     *)
(* write: Counters (disk_io and net_io) and Power (sensors and gpu).  Neither  *)
(* reads a table of the other's, so a behaviour follows one of the two.        *)
EXTENDS Counters, Power

VARIABLE topic  \* "io" | "power"
telemetryVars == <<counterVars, powerVars, topic>>

Init == CountersInit /\ PowerInit /\ topic \in {"io", "power"}

Next ==
  /\ UNCHANGED topic
  /\ \/ topic = "io" /\ CountersNext /\ UNCHANGED <<sensors, gpus, request, loop>>
     \/ topic = "power" /\ PowerNext /\ UNCHANGED <<last, real, done, peak, rebooted, table, spool>>

Spec == Init /\ [][Next]_telemetryVars
=============================================================================
