SPECIFICATION Spec
CONSTANTS
  Projects = {p}
  Getters = {g1, g2}
  Runners = {r1, r2}
  Tags = {t1, t2}
  Commits = {c1, c2}
  None = None
  Missing = Missing
  IndexKeys <- MCIndexKeys
  Inputs <- MCInputs
  MaxSize = 1
  MaxVersion = 1
  MaxCompiler = 1
  MaxCommands = 3
  MaxChanges = 1
INVARIANTS FreshRun RunsLockedCommit FailsOnlyIfCleaned FetchedExact
SYMMETRY Symmetry
CHECK_DEADLOCK FALSE
