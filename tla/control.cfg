SPECIFICATION ControlSpec
CONSTANTS
  Env <- SomeEnv
  Forms <- SomeForms
  Requests = {r1, r2}
  MaxSignals = 2
  MaxSpawns = 2
  MaxSaves = 2
  MaxEdits = 1
CHECK_DEADLOCK FALSE
INVARIANTS
  RestartsAreSound
  AnswerIsTrue
PROPERTIES
  StopEnds
