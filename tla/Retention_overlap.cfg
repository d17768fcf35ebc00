\* Finding: two runs at the same time and no fault.
CONSTANTS
  r1 = r1
  r2 = r2
  r3 = r3
  r4 = r4
  r5 = r5
  p1 = p1
  p2 = p2
  Row = {r1, r2, r3}
  Table = {"cpu"}
  TableOf <- MCTableOf
  NoTable = "none"
  Run = {p1, p2}
  BatchLimit = 2
  MaxFaults = 0
SYMMETRY MCSymmetry
SPECIFICATION Spec
INVARIANTS SuccessMeansClean
