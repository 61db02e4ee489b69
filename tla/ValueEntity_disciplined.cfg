\* Handlers do not combine a state change with a failure they return.
SPECIFICATION Spec
CONSTANTS
  Values = {v0, v1, v2}
  InitialState = v0
  MaxEffects = 1
  MaxCommands = 3
  MaxStreams = 3
  SwallowsFail = TRUE
  MixesFailure = FALSE
INVARIANTS
  TypeOK
  MemoryIsStored
PROPERTIES
  ImplementsRegister
CHECK_DEADLOCK FALSE
