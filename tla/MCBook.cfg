SPECIFICATION PaySpec
CONSTANTS
  r1 = r1
  r2 = r2
  c1 = c1
  c2 = c2
  Requests = {r1, r2}
  Callers = {c1, c2}
  Keys <- MCKeys
  Terms <- MCTerms
  Window <- MCWindow
  Cap <- MCCap
  Deltas <- MCDeltas
  MaxAllocated = 5
  Wired = FALSE
  None = None
  Own <- MCKeys
  Calendar = {1, 2, 3}
INVARIANTS
  PreviewAgreesWithTheVerbs
  PeriodsAddUp
  PaidDaysAreDrawn
PROPERTIES
  ImplementsBook
  PreviewPromiseKept
  PayMovesWithTheBalance
  OutcomesAreAnnounced
