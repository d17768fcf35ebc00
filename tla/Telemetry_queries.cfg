\* A window of five seconds in buckets of two; passes one or three seconds
\* apart, three of the counters' and four of the sensors' and gpu's.  Days of
\* two seconds, so that a window holds midnights.
CONSTANTS
  Window = 5
  BucketSize = 2
  Steps = {1, 3}
  Host = {"pc"}
  Dev = {"disk"}
  Counter = {"bytes", "ops", "ms"}
  Interval = 1
  Work <- MCWork
  MaxPasses = 3
  Source = {"cpu package", "package", "cpu platform", "dimm"}
  Priority <- MCPriority
  SensorBatches <- MCBatches
  GPUSamples <- MCSamples
  SensorInterval = 1
  GPUInterval = 1
  GPUModel <- MCModel
  Aux = 5
  Efficiency = 90
  Day = {0, 1, 2, 3, 4, 5, 6, 7}
  DayLength = 2
  Week <- MCWeek
  Month <- MCMonth
  MaxReadings = 4
SPECIFICATION Spec
INVARIANTS TotalsWithinActivity TotalsAreComplete RatesWithinPeak DuplicatesInvisible CoverageWithinWindow SubtotalIfPartsNonnegative DaysAddUp CPUIsPreferredAndRecent
PROPERTIES ReplayNeverLowersTotals LatestNeverGoesBack
CHECK_DEADLOCK FALSE
