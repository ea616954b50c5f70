CONSTANTS
  Turn = {t1, t2}
  Steer = {t2}
  Goal = goal
  Null = none
  Token = {1, 2}
  Fault = {"send", "dispatch", "projection", "control", "timeout", "duplicate"}
  MaxFaults = 1
  MaxStops = 0
  MaxGoals = 1
  Deletes = FALSE
  AgentGroup = TRUE
SPECIFICATION FairSpec
INVARIANTS PendingIsTrue GoalYields ClaimOwned
PROPERTIES OneTurnRuns WaitsBehindLive
CHECK_DEADLOCK FALSE
