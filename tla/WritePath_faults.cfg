\* Four batches of three sizes, b4 as large as the limit; the main loop and one
\* slow collector; one lost acknowledgement, SQLite
\* error or restart, perhaps with another limit.
CONSTANTS
  b1 = b1
  b2 = b2
  b3 = b3
  b4 = b4
  b5 = b5
  b6 = b6
  main = main
  slow1 = slow1
  slow2 = slow2
  NoBatch = NoBatch
  Batch = {b1, b2, b3, b4}
  Thread = {main, slow1}
  Main = main
  Size <- MCSize
  Caps = {2, 3}
  Limit = 2
  Invalid = {}
  Poison = {}
  Unencodable = {}
  Unreplayable = {}
  MaxFaults = 1
SPECIFICATION Spec
INVARIANTS TypeOK NoSilentLoss SpoolWithinCap SnapshotIdsNotReused SpooledOnce ReplayInv
PROPERTIES EnqueueRestoresLimit EvictionMinimal ImplementsBatchQueue
