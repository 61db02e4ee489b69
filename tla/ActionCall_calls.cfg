\* Handlers that answer in one way, against cancellation and bad answers.
SPECIFICATION FairSpec
CONSTANTS
  MaxEffects = 2
  MaxWrites = 2
  MaxData = 1
  Habits = {}
INVARIANTS
  TypeOK
  AnsweredOnce
  EffectsOnce
PROPERTIES
  UnaryIsAnswered
CHECK_DEADLOCK FALSE
