\* Three goroutines; one batch PostgreSQL always refuses (b1), one JSON cannot
\* hold (b2), one validate refuses (b3), one PostgreSQL refuses from Replay only
\* (b4), one above the limit (b5) and one as large as the limit (b6).
CONSTANTS
  b1 = b1
  b2 = b2
  b3 = b3
  b4 = b4
  b5 = b5
  b6 = b6
  main = main
  slow1 = slow1
  slow2 = slow2
  NoBatch = NoBatch
  Batch = {b1, b2, b3, b4, b5, b6}
  Thread = {main, slow1, slow2}
  Main = main
  Size <- MCSizeBig
  Caps = {2}
  Limit = 2
  Invalid = {b3}
  Poison = {b1}
  Unencodable = {b2}
  Unreplayable = {b1, b4}
  MaxFaults = 1
SYMMETRY MCSymmetry
SPECIFICATION Spec
INVARIANTS NoSilentLoss
PROPERTIES ImplementsBatchQueue
