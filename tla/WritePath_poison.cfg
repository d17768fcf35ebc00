\* Finding: one batch PostgreSQL always refuses, at the head of the spool.
CONSTANTS
  b1 = b1
  b2 = b2
  b3 = b3
  b4 = b4
  b5 = b5
  b6 = b6
  main = main
  slow1 = slow1
  slow2 = slow2
  NoBatch = NoBatch
  Batch = {b1, b2, b3}
  Thread = {main}
  Main = main
  Size <- MCSizeOfOne
  Caps = {4}
  Limit = 2
  Invalid = {}
  Poison = {b1}
  Unencodable = {}
  Unreplayable = {b1}
  MaxFaults = 0
SPECIFICATION FairSpec
PROPERTIES BufferedIsResent
