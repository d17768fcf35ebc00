\* Starts of two processes with edits between them.
CONSTANTS
  Dir = {"bin", "app", "root", "home"}
  Parent <- MCParent
  Exe = "bin"
  Proc = {"collect", "serve"}
  Half = 524288
  Second = 8
  Focus <- MCFocus
  MaxEdits = 2
SPECIFICATION Spec
INVARIANTS LoadedIsUsable EnvironmentBeatsFile OneConfigOneSpool
