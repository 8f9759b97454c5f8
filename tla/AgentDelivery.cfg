SPECIFICATION FairSpec
CONSTANTS
  None = None
  l1 = l1
  d = d
  l2 = l2
  main = main
  detail = detail
  e1 = e1
  board = board
  coupon = coupon
  q1 = q1
  q2 = q2
  Publication = {l1, d, l2}
  Event = {e1}
  Scope = {main, detail}
  ListScope = {main}
  Journal = {board, coupon}
  Request = {q1, q2}
  RunOf <- MCRunOf
  ScopeOf <- MCScopeOf
  At <- MCAt
  HashOf <- MCHashOf
  EventsIn <- MCEventsIn
  JournalOf <- MCJournalOf
  MaxFiles = 2
  MaxFaults = 2
  MaxExpired = 1
INVARIANTS ListedMatchesLatestList
PROPERTIES DeliverySpec EventuallyStored
