CONSTANTS
  Turn = {t1, t2}
  Steer = {t2}
  Goal = goal
  Null = none
  Token = {1, 2}
  Fault = {"send", "dispatch", "control"}
  MaxFaults = 1
  MaxStops = 2
  MaxGoals = 0
  Deletes = TRUE
  AgentGroup = FALSE
SPECIFICATION Spec
INVARIANTS ClaimCovers ClosedMeansEmpty
PROPERTIES ImplementsDelivery
CHECK_DEADLOCK FALSE
