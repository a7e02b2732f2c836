SPECIFICATION FairSpec
CONSTANTS
  Profiles <- AllProfiles
INVARIANTS RunsAfterMain CleanupOrder AllOrNothing CommitPossibleInQueue
PROPERTIES ImplementsOutcome Settles
CHECK_DEADLOCK FALSE
