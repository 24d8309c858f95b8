SPECIFICATION Spec
CONSTANTS
  Sources <- MCSources
  MaxRuns = 1
  Rounds = 6
INVARIANTS RoundTrip PrecedenceMatches ForVisitsRange
CHECK_DEADLOCK FALSE
