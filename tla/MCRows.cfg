SPECIFICATION Spec
CONSTANTS
  w1 = w1  w2 = w2
  Writers = {w1, w2}
  Terms = {t1, t2}
  t1 = t1  t2 = t2
  MaxInstant = 5
  None = None
SYMMETRY Symmetry
INVARIANT ImageIsTheRow
PROPERTIES TermsSurviveStaleSaves HistoryIsFinal
