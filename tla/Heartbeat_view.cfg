\* Finding: one outage, no crash and no lost answer.
CONSTANTS
  f1 = f1
  f2 = f2
  s1 = s1
  s2 = s2
  main = main
  slow1 = slow1
  slow2 = slow2
  NoBatch = NoBatch
  Batch = {f1, f2}
  Thread = {main}
  Main = main
  Size <- MCSize
  Caps = {3}
  Limit = 2
  Invalid = {}
  Poison = {}
  Unencodable = {}
  Unreplayable = {}
  MaxFaults = 0
  Collector = {"cpu", "services"}
  Slow = {"services"}
  CollectorOf <- MCCollectorOf
SPECIFICATION HSpec
INVARIANTS LastStatusShown
