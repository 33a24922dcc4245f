SPECIFICATION FairSpec
CONSTANTS
  r1 = r1
  r2 = r2
  c1 = c1
  c2 = c2
  Requests = {r1}
  Callers = {c1}
  Keys <- MCKeys
  Terms <- OneTerm
  Window <- MCWindow
  Cap <- MCCap
  Deltas <- GrantDeltas
  MaxAllocated = 4
  Wired = TRUE
  None = None
PROPERTY
  OutrightSettles
CHECK_DEADLOCK FALSE
