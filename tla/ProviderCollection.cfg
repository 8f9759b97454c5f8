SPECIFICATION FairSpec
CONSTANTS
  cs2 = cs2
  lol = lol
  match = match
  Esport = {cs2, lol}
  Event = {match}
  EsportOf <- MCEsportOf
  Esports <- MCEsports
  MaxNow = 4
  MaxPages = 2
  TTL = 2
  Window = 2
INVARIANTS AcknowledgedSurvives LateNeverStored JournalBeforeState ReadyMeansContext LostTabIsNotUsed
PROPERTIES StopEnds
