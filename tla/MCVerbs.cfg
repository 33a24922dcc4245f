SPECIFICATION Spec
CONSTANTS
  r1 = r1
  r2 = r2
  c1 = c1
  c2 = c2
  Requests = {r1, r2}
  Callers = {c1, c2}
  Keys <- MCKeys
  Terms <- MCTerms
  Window <- MCWindow
  Cap <- MCCap
  Deltas <- MCDeltas
  MaxAllocated = 5
  Wired = TRUE
  None = None
SYMMETRY Symmetry
INVARIANTS
  TypeOK
  NeverOverdrawn
  UsedIsWhatApprovalsDrew
  ApprovedKeepsDrawnTerms
  RestoreNeverRefused
  GatesPreemptChecks
  GrantedByTheEngine
  OutrightNeverPending
  EventsFollowTheBook
  GrantsAnnounceTheDraw
