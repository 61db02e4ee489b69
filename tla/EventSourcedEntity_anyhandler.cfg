\* Any handler: ctx.fail may be caught, events may be emitted late.
SPECIFICATION FairSpec
CONSTANTS
  MaxEffects = 0
  MaxCommands = 2
  MaxEmits = 2
  MaxStreams = 2
  SnapshotEvery = 2
  SwallowsFail = TRUE
  EmitsLate = TRUE
PROPERTIES
  ImplementsJournal
  NoCommandHangs
CHECK_DEADLOCK FALSE
