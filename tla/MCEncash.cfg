SPECIFICATION Spec
CONSTANTS
  i1 = i1  i2 = i2  ka = ka  a1 = a1  a2 = a2  h1 = h1  h2 = h2  e1 = e1  ada = ada
  None = None
  Ids = {i1, i2}
  Keys = {ka}
  Asks = {a1, a2}
  KeyOf <- MCKeyOf
  Amount <- MCAmount
  Hands = {h1, h2}
  Deltas <- MCDeltas
  Unique = {"live"}
  Generic = TRUE
  MaxAllocated = 2
  OwnerOf <- MCOwnerOf
  Events = {e1}
  Leaver <- MCLeaver
INVARIANTS RowsNeverOverdrawn NoAdjustmentIsLost DrawnDaysAreHeld
PROPERTIES OneLiveRowMoves NothingEncashedTwice EveryCloseIsEncashed
