SPECIFICATION FairSpec
CONSTANTS
  b1 = b1  b2 = b2  b3 = b3  w1 = w1  w2 = w2
  None = None
  Order <- TwoOrder
  Walkers = {w1}
  From <- MCFrom
  To <- NoEnd
  Ladder <- DayLadder
  Drafts <- NoDrafts
  Starts <- NoStart
  Batch = 1
  MaxBatches = 2
  Poisoned = {}
  Deltas <- NoDeltas
  MaxAdjusted = 2
  LastDay = 3
PROPERTIES DuePeriodsAreGranted
