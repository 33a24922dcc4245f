SPECIFICATION FairSpec
CONSTANTS
  b1 = b1  b2 = b2  b3 = b3  w1 = w1  w2 = w2
  None = None
  Order <- TwoOrder
  Walkers = {w1, w2}
  From <- MCFrom
  To <- MCTo
  Ladder <- LiveLadder
  Drafts <- Rebuilt
  Starts <- NoStart
  Batch = 2
  MaxBatches = 1
  Poisoned = {b1}
  Deltas <- Gifts
  MaxAdjusted = 1
  LastDay = 3
PROPERTIES DuePeriodsAreGranted RunsEnd GrantsRespectTheCap
