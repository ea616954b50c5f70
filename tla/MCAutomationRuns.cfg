SPECIFICATION FairSpec
CONSTANTS
  MaxRun = 2
  Scenario <- Small
INVARIANTS AutomationTypeOK OneActivePerThread OccurrenceRunsOnce BoundedLoop StatusFollowsOwnTurn AtMostOneAfterStop WorktreeHasOwner
PROPERTIES TerminalIsFinal OldPolicyNeverStops EveryRunSettles EveryCheckEnds
VIEW View
