\* Tabs that fail (memory), settle and have a select (disk), ask twice
\* (sensors) and have no history (processes).
CONSTANTS
  Tab = {"memory", "disk", "sensors", "processes"}
  WindowTab = {"memory", "disk", "sensors"}
  Settled = {"disk"}
  Chained = {"sensors"}
  Selectable = {"disk", "sensors"}
  Option <- MCOption
  Stored <- MCStored
  MaxMoves = 3
  MaxOutages = 1
SPECIFICATION FairSpec
INVARIANTS OneTimer AutoNeverDies NoBadRequest
PROPERTIES SelectionIsShownIfListed
