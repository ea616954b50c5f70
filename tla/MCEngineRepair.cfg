SPECIFICATION EngineSpec
CONSTANTS
  t1 = t1
  c1 = c1
  c2 = c2
  Aggregate = {t1}
  Command = {c1, c2}
  Decision <- TurnsAndProjects
  projectors <- SomeProjectors
  ReadLimit = 2
  MaxEvents = 3
  MaxDispatch = 2
  MaxCrash = 0
  MaxRepair = 1
PROPERTIES
  ProjectsRebuilt
