\* A handler catches the error of ctx.fail and goes on.
SPECIFICATION Spec
CONSTANTS
  MaxEffects = 0
  MaxCommands = 2
  MaxEmits = 1
  MaxStreams = 1
  SnapshotEvery = 3
  SwallowsFail = TRUE
  EmitsLate = FALSE
INVARIANT MemoryIsJournal
CHECK_DEADLOCK FALSE
