---------------------------- MODULE MCTelemetry -----------------------------
(* The queries for TLC.  Counters: a device that rests, is busy, or moves      *)
(* bytes without time or operations.  Power: a package and a platform sensor   *)
(* that overlap, a second package sensor of the same priority, and a GPU with  *)
(* native power, with its utilization only, and with neither.                  *)
EXTENDS Telemetry

MCWork == LET unit(b, o) == [c \in Counter |-> IF c = "bytes" THEN b ELSE o]
          IN {[v \in Dev |-> unit(0, 0)], [v \in Dev |-> unit(3, 1)], [v \in Dev |-> unit(1, 0)]}

MCPriority == [s \in Source |-> CASE s = "cpu platform" -> 1 [] s = "dimm" -> 99 [] OTHER -> 0]
Reads(s, w) == [name |-> s, w |-> w]
MCBatches == {{Reads("cpu package", 20), Reads("cpu platform", 30)},
              {Reads("package", 60), Reads("cpu platform", 40), Reads("dimm", 4)}}
MCSamples == {[power |-> {50}, util |-> {80}], [power |-> {}, util |-> {40}], [power |-> {}, util |-> {}]}
MCModel == {[idle |-> 10, max |-> 30]}
MCWeek == [d \in Day |-> IF d = 0 THEN "W01" ELSE "W02"]
MCMonth == [d \in Day |-> IF d < 2 THEN "01" ELSE "02"]
=============================================================================
