\* Two runs at the same time, each dry or not, and one fault; a batch of two.
CONSTANTS
  r1 = r1
  r2 = r2
  r3 = r3
  r4 = r4
  r5 = r5
  p1 = p1
  p2 = p2
  Row = {r1, r2, r3}
  Table = {"cpu"}
  TableOf <- MCTableOf
  NoTable = "none"
  Run = {p1, p2}
  BatchLimit = 2
  MaxFaults = 1
SPECIFICATION FairSpec
INVARIANTS TotalsAreDeletions UndisturbedRunCleans
PROPERTIES RunsEnd
