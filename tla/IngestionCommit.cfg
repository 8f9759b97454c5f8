SPECIFICATION FairSpec
CONSTANTS
  None = None
  p1 = p1
  r1 = r1
  r2 = r2
  r3 = r3
  c1 = c1
  c2 = c2
  c3 = c3
  Provider = {p1}
  Run = {r1, r2, r3}
  Call = {c1, c2, c3}
  ProviderOf <- MCProviderOf
  RunOf <- MCRunOf
  Items <- MCItems
INVARIANTS OnePublisherPerProvider TailsAreReclaimed
PROPERTIES WritesFollowBeginOrder LockSpec
CHECK_DEADLOCK FALSE
