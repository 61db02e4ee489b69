\* Handlers that change nothing when they fail, against other nodes' changes.
SPECIFICATION Spec
CONSTANTS
  MaxEffects = 0
  MaxCommands = 2
  MaxStreams = 2
  SwallowsFail = FALSE
  MaxChange = 1
  MaxRemotes = 2
  MixesFailure = FALSE
  DeletesMerged = FALSE
INVARIANTS
  TypeOK
  AcknowledgedIsReplica
  ChangesBalance
CHECK_DEADLOCK FALSE
