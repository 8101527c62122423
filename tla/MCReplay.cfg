SPECIFICATION FairSpec
CONSTANTS
  Trajectories <- MCTrajectories
  RouteLengths = {2}
  PastBase = 1
  Interval = 2
  RerouteGap = 1
  Now = 5
  MaxStepRetries = 1
  NoLoad = NoLoad
  MaxActions = 4
INVARIANTS PlaybackOwned ProgressConfirmed FlagReleased
PROPERTIES StaleInert PlaybackEnds
CHECK_DEADLOCK FALSE
