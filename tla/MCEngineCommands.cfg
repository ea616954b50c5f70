SPECIFICATION EngineSpec
CONSTANTS
  t1 = t1
  c1 = c1
  c2 = c2
  Aggregate = {t1}
  Command = {c1, c2}
  Decision <- TurnsAndProjects
  projectors <- SomeProjectors
  ReadLimit = 3
  MaxEvents = 3
  MaxDispatch = 3
  MaxCrash = 1
  MaxRepair = 0
INVARIANTS
  ReceiptMatchesLog
  AnswersAreTrue
  DecidesOnCurrentModel
  HeardInOrder
  SkippedOnlyByTimeout
PROPERTIES
  ReceiptsAreFinal
SYMMETRY Symmetry
