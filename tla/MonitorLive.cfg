SPECIFICATION LiveSpec
CONSTANTS
  Event = {"e1", "e2"}
  Null = Null
  Publication <- MCPublication
  First <- MCFirst
  Together <- MCTogether
  Often <- MCOften
  MaxAll = 2
INVARIANT DetailIsOfTheOpenEvent
PROPERTIES ChangesTellTheDifference EveryViewBecomesCurrent
CHECK_DEADLOCK FALSE
