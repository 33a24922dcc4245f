SPECIFICATION Spec
CONSTANTS
  Allocations <- MCAllocations
  Units <- MCUnits
  Starts <- MCStarts
  LastYear = 2025
  None = None
INVARIANTS WatermarkNeverAhead NoPeriodIsLost NeverMuchTooEarly
CHECK_DEADLOCK FALSE
