SPECIFICATION FairSpec
CONSTANTS
  None = None
  p1 = p1
  p2 = p2
  e1 = e1
  e2 = e2
  Provider = {p1}
  Event = {e1}
  ProviderOf <- MCProviderOf
  Hour = 2
  DetailIntervals <- MCIntervals
  BackoffSteps <- MCBackoff
  StartTime = {3, 5}
  Jitter = {0, 1}
  StartupDelay = 0
  ListInterval = 3
  ListTimeout = 1
  DetailTimeout = 1
  Cooldown = 2
  FailureThreshold = 2
  MaxFailures = 2
  MaxNow = 6
INVARIANTS CommittedIsNeverAborted UnfailedDetailIsScheduled
PROPERTIES NothingRunsTooSoon StopCompletes CooldownEnds
CHECK_DEADLOCK FALSE
