\* Streamed in handlers that answer in one way, some of them asynchronous.
SPECIFICATION Spec
CONSTANTS
  MaxEffects = 0
  MaxWrites = 2
  MaxData = 1
  Habits = {}
INVARIANT StreamedInAnsweredOnce
CHECK_DEADLOCK FALSE
