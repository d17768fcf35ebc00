CONSTANTS
  Collector = {"cpu", "net_io", "net_addr", "services", "processes"}
  Slow = {"services", "processes"}
  Intervals <- MCIntervals
  SemCap = 2
  MaxGap = 2
SPECIFICATION FairSpec
PROPERTIES EveryCollectorRuns
