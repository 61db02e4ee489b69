\* Disciplined handlers: the error of ctx.fail propagates, nothing emits late.
SPECIFICATION Spec
CONSTANTS
  MaxEffects = 1
  MaxCommands = 3
  MaxEmits = 2
  MaxStreams = 3
  SnapshotEvery = 3
  SwallowsFail = FALSE
  EmitsLate = FALSE
INVARIANTS
  TypeOK
  MemoryIsJournal
  HandlerSeesJournal
  IsRecoverable
CHECK_DEADLOCK FALSE
