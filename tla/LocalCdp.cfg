SPECIFICATION Spec
CONSTANTS
  None = None
  MaxTabs = 3
  MaxConnections = 2
  MaxJobs = 3
  MaxFaults = 2
  MaxAll = 4
INVARIANTS LeasesAreCounted NoLateNavigation TabsMatchChrome
PROPERTY WorkEnds
CHECK_DEADLOCK FALSE
