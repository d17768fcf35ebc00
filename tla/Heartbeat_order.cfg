\* A run of a fast collector and two of a slow one; the limit holds two rows;
\* one lost acknowledgement, SQLite error or restart.  No symmetry: liveness is checked too.
CONSTANTS
  f1 = f1
  f2 = f2
  s1 = s1
  s2 = s2
  main = main
  slow1 = slow1
  slow2 = slow2
  NoBatch = NoBatch
  Batch = {f1, s1, s2}
  Thread = {main, slow1, slow2}
  Main = main
  Size <- MCSize
  Caps = {2}
  Limit = 2
  Invalid = {}
  Poison = {}
  Unencodable = {}
  Unreplayable = {}
  MaxFaults = 1
  Collector = {"cpu", "services"}
  Slow = {"services"}
  CollectorOf <- MCCollectorOf
SPECIFICATION HFairSpec
INVARIANTS LastRunShownIfNoneBuffered
PROPERTIES ReplayEndsAtNewest BufferedIsResent
