SPECIFICATION FairSpec
CONSTANTS
  None = None
  l1 = l1
  l2 = l2
  t2 = t2
  d = d
  x = x
  main = main
  tabs = tabs
  detail = detail
  e1 = e1
  board = board
  coupon = coupon
  q1 = q1
  q2 = q2
  Publication = {l1, l2, t2, d, x}
  Event = {e1}
  Scope = {main, tabs, detail}
  ListScope = {main, tabs}
  Journal = {board, coupon}
  Request = {q1, q2}
  RunOf <- MCRunOf
  ScopeOf <- MCScopeOf
  At <- MCAt
  HashOf <- MCHashOf
  EventsIn <- MCEventsIn
  JournalOf <- MCJournalOf
INVARIANTS JournalInOrder AnnouncedOnce AcknowledgedIsShown OneContentPerRun
PROPERTIES ShownAdvances EveryRequestIsAnswered

