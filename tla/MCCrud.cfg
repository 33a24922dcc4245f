SPECIFICATION CrudSpec
CONSTANTS
  r1 = r1
  c1 = c1
  c2 = c2
  e1 = e1
  Requests = {r1}
  Callers = {c1, c2}
  Editors = {e1}
  Keys <- MCKeys
  Terms <- MCTerms
  Window <- MCWindow
  Cap <- MCCap
  Deltas <- MCDeltas
  MaxAllocated = 2
  Wired = TRUE
  None = None
SYMMETRY CallerSymmetry
INVARIANT
  NeverOverdrawn
PROPERTIES
  ApprovedTermsFrozen
  OnlyDeclaredTransitions
