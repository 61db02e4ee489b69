\* Every replicated data type; values set into a map are new ones, and the
\* requests have up to three steps, at either node.
SPECIFICATION ExercisesSpec
CONSTANTS
  Exercises = {"exchange", "requests"}
  Elements = {e1, e2, e3}
  Keys = {k1, k2}
  Values = {v1, blank}
  EmptyObject = EmptyObject
  Steps = {1, 2}
  MaxCount = 2
  ReusesValues = FALSE
  Blank = blank
  Changes <- MCChanges
  MaxSaid = 1
  MaxSteps = 3
INVARIANTS
  ExercisesTypeOK
  PeerFollows
  ResponseShowsUpdates
CHECK_DEADLOCK FALSE
