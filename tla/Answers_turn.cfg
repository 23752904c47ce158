\* Every kind of turn, every verdict of the models, every failure; two assistants
\* that hear each other, with a guard of two.
SPECIFICATION AnswersSpec
CONSTANTS
  MaxWindow = 2
  MaxCalls = 2
  a1 = a1
  a2 = a2
  Assistants = {a1, a2}
  Limit = 2
  MaxParts = 1
  MaxHumans = 2
  MaxLog = 10
  MaxMishaps = 1
  Chunks = {1, 2, 3}
  TypingTurns = {1, 2, 3}
  Messages = {1, 2}
  messageOf <- AnswersMessageOf
  MaxAttempts = 3
  Columns = {"k", "a", "b"}
  Shapes <- AnswersShapes
  Created <- AnswersCreated
  Given <- AnswersGiven
  Files <- AnswersFiles
  MaxRows = 2
  ImportBatch = 1
  Page = 1
  AtOnce = 2
  MaxRequests = 3
  MaxFaults = 1
INVARIANTS
  TurnAccounted
  HonestAnswer
  TaskTurnActs
  WorkTellsTrue
PROPERTIES
  RetriesEndHarmless
  ImplementsTurnRun
  ExchangeEnds
CHECK_DEADLOCK FALSE
