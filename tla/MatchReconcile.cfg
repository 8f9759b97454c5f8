SPECIFICATION MatchSpec
CONSTANTS
  None = None
  x = x
  y = y
  yy = yy
  b1 = b1
  b2 = b2
  s1 = s1
  e1 = e1
  bet = bet
  sup = sup
  est = est
  Row = {b1, b2, s1, e1}
  Name = {x, y, yy}
  Scope = {bet, sup, est}
  ProviderOf <- MCProviderOf
  Reviewed <- MCReviewed
  Similar <- MCSimilar
  Rank <- MCRank
  SiteOf <- MCSiteOf
  Listings <- MCListings
  Window = 5
  ListTTL = 0
  MaxAt = 2
  MaxReviews = 1
INVARIANTS RecordsFollowMatch GroupsAreCliques
PROPERTIES IdentityIsKept
