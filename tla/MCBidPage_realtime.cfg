SPECIFICATION Spec
CONSTANTS
  Viewers = {"guest", "bidder", "owner"}
  StartTime = 1
  EndTime = 2
  Window = 1
  MaxExt = 1
  MinBidIncrement = 1
  PlaceholderIncrement = 2
  HistoryLimit = 1
  Inputs = {0}
  MaxPrice = 3
  MaxAmount = 2
  MaxTime = 3
  MaxSubmits = 2
CHECK_DEADLOCK FALSE
PROPERTY PushReachesPage
