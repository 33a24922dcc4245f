SPECIFICATION Spec
CONSTANTS
  b1 = b1  b2 = b2  b3 = b3  w1 = w1  w2 = w2
  None = None
  Order <- MCOrder
  Walkers = {w1, w2}
  From <- MCFrom
  To <- MCTo
  Ladder <- MCLadder
  Drafts <- MCDrafts
  Starts <- MCStarts
  Batch = 2
  MaxBatches = 1
  Poisoned = {b2}
  Deltas <- ClawBack
  MaxAdjusted = 0
  LastDay = 4
SYMMETRY Symmetry
INVARIANTS TypeOK EveryPeriodPaidOnce EveryDayAccountedFor
PROPERTIES OneTimeGrantComesFirst ExpiredStopsAccruing
