\* The whole process: the loop, its goroutines and one request of the dashboard.
CONSTANTS
  Collector = {"net_addr", "services", "processes"}
  Slow = {"services", "processes"}
  Intervals <- MCIntervals
  SemCap = 2
  MaxGap = 1
  Request = {"r1"}
SPECIFICATION LFairSpec
INVARIANTS TypeOK OneRunPerCollector LoopNeverWaitsForARun StopCutsNoQuery
PROPERTIES DueCollectorStarts SignalStopsLoop
