----------------------- MODULE AccrualCalendarProofs -----------------------
(***************************************************************************)
(* Proofs about AccrualCalendar, for any allocations and start points: the *)
(* watermark stays on a grid of whole periods from the allocation, however *)
(* its day was clamped, so no period is lost and none is granted more than *)
(* three days before it ends.                                              *)
(***************************************************************************)
EXTENDS AccrualCalendar, FiniteSetTheorems, TLAPS

-----------------------------------------------------------------------------
(* Dates.                                                                  *)

Index(d) == 12 * d.year + d.month

\* A month has 28 to 31 days.
LEMMA MonthLength == \A y, m : DaysIn(y, m) \in 28 .. 31
BY DEF DaysIn

\* The fields of a date, and its ordinal, are integers.
LEMMA DateFields ==
  ASSUME NEW d, IsDate(d)
  PROVE  /\ d.year \in Int /\ d.month \in 1 .. 12 /\ d.day \in 1 .. 31
         /\ d = Date(d.year, d.month, d.day)
         /\ Index(d) \in Int /\ Ordinal(d) = 31 * Index(d) + d.day /\ Ordinal(d) \in Int
BY DEF IsDate, Index, Ordinal, Date

\* The anniversary of a day is n months further on, on the same day.
LEMMA AnniversaryPlace ==
  ASSUME NEW d, IsDate(d), NEW n \in Int
  PROVE  LET a == Anniversary(d, n)
         IN /\ a.year \in Int /\ a.month \in 1 .. 12 /\ a.day = d.day
            /\ a = Date(a.year, a.month, a.day)
            /\ Index(a) = Index(d) + n /\ Ordinal(a) = 31 * (Index(d) + n) + d.day
<1> DEFINE months == 12 * d.year + d.month - 1 + n
<1>1. months \in Int
  BY DateFields
<1>2. /\ months \div 12 \in Int /\ months % 12 \in 0 .. 11
      /\ 12 * (months \div 12) + (months % 12) = months
  BY <1>1
<1>3. Anniversary(d, n) = Date(months \div 12, (months % 12) + 1, d.day)
  BY DEF Anniversary
<1>4. months = 12 * d.year + d.month - 1 + n /\ d.day \in Int /\ d.year \in Int /\ d.month \in Int
  BY DateFields
<1> HIDE DEF months
<1> QED BY <1>2, <1>3, <1>4 DEF Date, Index, Ordinal

\* A clamped date is in the month of the anniversary, on its day or, in a month
\* too short for it, on the 28th at least.
LEMMA AddMonthsPlace ==
  ASSUME NEW d, IsDate(d), NEW n \in Int
  PROVE  LET a == AddMonths(d, n)
         IN /\ IsDate(a) /\ Index(a) = Index(d) + n
            /\ a.day <= d.day /\ (a.day = d.day \/ a.day >= 28)
<1> DEFINE a == Anniversary(d, n)
           len == DaysIn(a.year, a.month)
           e == Min({a.day, len})
<1>1. /\ a.year \in Int /\ a.month \in 1 .. 12 /\ a.day = d.day /\ a.day \in 1 .. 31
      /\ a = Date(a.year, a.month, a.day) /\ Index(a) = Index(d) + n
  BY AnniversaryPlace, DateFields
<1>2. len \in 28 .. 31
  BY MonthLength
<1>3. AddMonths(d, n) = [a EXCEPT !.day = e]
  BY DEF AddMonths
<1> HIDE DEF a, len
<1>4. e \in {a.day, len} /\ e <= a.day /\ e <= len
  <2>1. \E x \in {a.day, len} : \A y \in {a.day, len} : x <= y
    BY <1>1, <1>2
  <2> QED BY <2>1 DEF Min
<1> HIDE DEF e
<1>5. AddMonths(d, n) = Date(a.year, a.month, e)
  BY <1>1, <1>3 DEF Date
<1>6. DaysIn(a.year, a.month) = len
  BY DEF len
<1> QED BY <1>1, <1>2, <1>4, <1>5, <1>6 DEF IsDate, Date, Index

\* No months later is the same day.
LEMMA AddNothing == ASSUME NEW d, IsDate(d) PROVE AddMonths(d, 0) = d
<1> DEFINE a == Anniversary(d, 0)
<1>1. /\ a.year \in Int /\ a.month \in 1 .. 12 /\ a.day = d.day
      /\ a = Date(a.year, a.month, a.day) /\ Index(a) = Index(d) + 0
  BY AnniversaryPlace
<1>2. /\ d.year \in Int /\ d.month \in 1 .. 12 /\ d.day \in 1 .. 31
      /\ d = Date(d.year, d.month, d.day)
  BY DateFields
<1> HIDE DEF a
<1>3. a.year = d.year /\ a.month = d.month
  <2>1. \A x, y \in Int, m, n \in 1 .. 12 : 12 * x + m = 12 * y + n => x = y /\ m = n
    OBVIOUS
  <2>2. 12 * a.year + a.month = 12 * d.year + d.month
    BY <1>1, <1>2 DEF Index
  <2> QED BY <1>1, <1>2, <2>1, <2>2
<1>4. a = d
  BY <1>1, <1>2, <1>3
<1>5. Min({d.day, DaysIn(d.year, d.month)}) = d.day
  <2>1. DaysIn(d.year, d.month) \in Int /\ d.day <= DaysIn(d.year, d.month)
    BY MonthLength DEF IsDate
  <2>2. \A x \in {d.day, DaysIn(d.year, d.month)} :
          (\A y \in {d.day, DaysIn(d.year, d.month)} : x <= y) <=> x = d.day
    BY <1>2, <2>1
  <2> QED BY <2>2 DEF Min
<1>6. AddMonths(d, 0) = [a EXCEPT !.day = Min({a.day, DaysIn(a.year, a.month)})]
  BY DEF AddMonths, a
<1>7. [d EXCEPT !.day = d.day] = d
  BY <1>2 DEF Date
<1> QED BY <1>4, <1>5, <1>6, <1>7

\* The day before a day is a day.
LEMMA EveIsDate == ASSUME NEW d, IsDate(d) PROVE IsDate(Eve(d))
BY DateFields, MonthLength DEF IsDate, Eve, Date, DaysIn

\* The next day is a date, later in the order.
LEMMA TomorrowIsLater ==
  ASSUME NEW d, IsDate(d)
  PROVE  IsDate(Tomorrow(d)) /\ Ordinal(Tomorrow(d)) >= Ordinal(d) + 1
<1>1. /\ d.year \in Int /\ d.month \in 1 .. 12 /\ d.day \in 1 .. 31
      /\ d = Date(d.year, d.month, d.day)
  BY DateFields
<1>2. DaysIn(d.year, d.month) \in 28 .. 31
      /\ DaysIn(d.year, d.month + 1) \in 28 .. 31 /\ DaysIn(d.year + 1, 1) \in 28 .. 31
  BY MonthLength
<1>3. CASE d.day < DaysIn(d.year, d.month)
  <2>1. Tomorrow(d) = Date(d.year, d.month, d.day + 1)
    BY <1>1, <1>3 DEF Tomorrow, Date
  <2> QED BY <1>1, <1>2, <1>3, <2>1 DEF IsDate, Date, Ordinal
<1>4. CASE ~(d.day < DaysIn(d.year, d.month)) /\ d.month < 12
  BY <1>1, <1>2, <1>4 DEF Tomorrow, IsDate, Date, Ordinal
<1>5. CASE ~(d.day < DaysIn(d.year, d.month)) /\ d.month = 12
  BY <1>1, <1>2, <1>5 DEF Tomorrow, IsDate, Date, Ordinal
<1> QED BY <1>1, <1>3, <1>4, <1>5

-----------------------------------------------------------------------------
(* Periods.                                                                *)

\* A month is complete when its anniversary has come, the month long enough for
\* it or not.
LEMMA MonthsComplete ==
  ASSUME NEW a, IsDate(a), NEW b, IsDate(b)
  PROVE  /\ WholeMonths(a, b) \in Nat
         /\ \A n \in Nat \ {0} :
              n <= WholeMonths(a, b) <=> 31 * (Index(a) + n) + a.day <= Ordinal(b)
<1> DEFINE m == 12 * (b.year - a.year) + b.month - a.month
           w == IF b.day < a.day THEN m - 1 ELSE m
<1>1. /\ a.day \in 1 .. 31 /\ b.day \in 1 .. 31 /\ m = Index(b) - Index(a)
      /\ Index(a) \in Int /\ Index(b) \in Int /\ Ordinal(b) = 31 * Index(b) + b.day
  <2>1. /\ a.day \in 1 .. 31 /\ a.month \in Int /\ a.year \in Int /\ Index(a) \in Int
    BY DateFields
  <2>2. /\ b.day \in 1 .. 31 /\ b.month \in Int /\ b.year \in Int /\ Index(b) \in Int
        /\ Ordinal(b) = 31 * Index(b) + b.day
    BY DateFields
  <2>3. m = Index(b) - Index(a)
    BY <2>1, <2>2 DEF Index
  <2> HIDE DEF m
  <2> QED BY <2>1, <2>2, <2>3
<1>2. WholeMonths(a, b) = Max({0, w})
  BY DEF WholeMonths
<1> HIDE DEF m
<1>3. w \in Int
  BY <1>1
<1>4. \A n \in Int : n <= w <=> 31 * (Index(a) + n) + a.day <= Ordinal(b)
  BY <1>1
<1> HIDE DEF w
<1>5. Max({0, w}) \in {0, w} /\ Max({0, w}) >= 0 /\ Max({0, w}) >= w
  <2>1. \E x \in {0, w} : \A y \in {0, w} : x >= y
    BY <1>3
  <2> QED BY <2>1 DEF Max
<1> QED BY <1>2, <1>3, <1>4, <1>5

\* Whole periods fit in the whole months there are.
LEMMA PeriodsFit ==
  ASSUME NEW u \in {1, 2, 3, 12}, NEW n \in Nat, NEW x \in Nat
  PROVE  x \div u \in Nat /\ (n <= x \div u <=> u * n <= x)
OBVIOUS

\* Multiples of the months of a period.
LEMMA PeriodsStep ==
  ASSUME NEW u \in {1, 2, 3, 12}, NEW m \in Int, NEW n \in Int
  PROVE  /\ u * m \in Int /\ u * (m + n) = u * m + u * n
         /\ m <= n => u * m <= u * n
         /\ m > 0 => u * m >= m
         /\ u * 1 = u /\ u * 0 = 0
OBVIOUS

\* A period is due when its end has come.
LEMMA DueAtEnd ==
  ASSUME unit \in Units, NEW a, IsDate(a), NEW b, IsDate(b)
  PROVE  /\ PeriodsDue(a, b) \in Nat
         /\ \A n \in Nat \ {0} :
              n <= PeriodsDue(a, b) <=> 31 * (Index(a) + unit * n) + a.day <= Ordinal(b)
<1>1. unit \in {1, 2, 3, 12}
  BY CalendarAssumption
<1>2. WholeMonths(a, b) \in Nat
  BY MonthsComplete
<1>3. PeriodsDue(a, b) \in Nat
  BY <1>1, <1>2, PeriodsFit DEF PeriodsDue
<1>4. ASSUME NEW n \in Nat \ {0}
      PROVE  n <= PeriodsDue(a, b) <=> 31 * (Index(a) + unit * n) + a.day <= Ordinal(b)
  <2>1. unit * n \in Nat \ {0}
    BY <1>1
  <2>2. n <= PeriodsDue(a, b) <=> unit * n <= WholeMonths(a, b)
    BY <1>1, <1>2, PeriodsFit DEF PeriodsDue
  <2> QED BY <2>1, <2>2, MonthsComplete
<1> QED BY <1>3, <1>4
-----------------------------------------------------------------------------
(* The grid.                                                               *)

\* The end of period n of the allocation, on a day that its month may not have.
End(n) == 31 * (Index(from) + unit * n) + from.day

\* The periods passed over at the start point.
Passed == Skipped(from)

\* A watermark that has moved is a whole number of periods from the allocation,
\* those passed over and those granted; its day was clamped to the 28th or later.
OnGrid(d, n) ==
  /\ IsDate(d) /\ Index(d) = Index(from) + unit * (Passed + n)
  /\ d.day <= from.day /\ (d.day = from.day \/ d.day >= 28)

GridInv ==
  /\ TypeOK /\ WatermarkNeverAhead
  /\ IF granted = 0 THEN watermark = from ELSE OnGrid(watermark, granted)

\* The days that the proofs speak of are days.
LEMMA Dated ==
  ASSUME TypeOK
  PROVE  /\ IsDate(from) /\ IsDate(watermark) /\ IsDate(today)
         /\ start # None => IsDate(Eve(start))
         /\ unit \in {1, 2, 3, 12} /\ granted \in Nat /\ Passed \in Nat
         /\ \A n \in Nat : End(n) \in Int
<1>1. /\ IsDate(from) /\ IsDate(watermark) /\ IsDate(today) /\ unit \in {1, 2, 3, 12}
      /\ granted \in Nat /\ (start # None => IsDate(start))
  BY CalendarAssumption DEF TypeOK
<1>2. start # None => IsDate(Eve(start))
  BY <1>1, EveIsDate
<1>3. Passed \in Nat
  BY <1>1, <1>2, DueAtEnd DEF Passed, Skipped, TypeOK
<1>4. Index(from) \in Int /\ from.day \in Int
  BY <1>1, DateFields
<1>5. \A n \in Nat : End(n) \in Int
  BY <1>1, <1>4, PeriodsStep DEF End
<1> QED BY <1>1, <1>2, <1>3, <1>5

\* The periods passed over are those that ended before the start point.
LEMMA PassedEnded ==
  ASSUME TypeOK, start # None, NEW n \in Nat \ {0}
  PROVE  n <= Passed <=> End(n) <= Ordinal(Eve(start))
BY Dated, DueAtEnd DEF Passed, Skipped, End, TypeOK

\* Nothing more is passed over once a period was granted, and a pass counts
\* from the grid.
LEMMA GridPlace == ASSUME GridInv PROVE OnGrid(Grid, granted)
<1>1. TypeOK
  BY DEF GridInv
<1>2. /\ IsDate(from) /\ IsDate(watermark) /\ (start # None => IsDate(Eve(start)))
      /\ unit \in {1, 2, 3, 12} /\ granted \in Nat /\ Passed \in Nat
  BY <1>1, Dated
<1>3. CASE granted = 0
  <2>1. unit * Passed \in Int /\ watermark = from
    BY <1>2, <1>3, PeriodsStep DEF GridInv
  <2>2. Grid = AddMonths(from, unit * Passed)
    BY <2>1 DEF Grid, Passed
  <2> QED BY <1>2, <1>3, <2>1, <2>2, AddMonthsPlace DEF OnGrid
<1>4. CASE granted > 0
  <2>1. OnGrid(watermark, granted)
    BY <1>2, <1>4 DEF GridInv
  <2>2. Skipped(watermark) = 0
    <3>1. SUFFICES ASSUME start # None, PeriodsDue(watermark, Eve(start)) # 0 PROVE FALSE
      BY DEF Skipped
    <3>2. PeriodsDue(watermark, Eve(start)) \in Nat
          /\ (1 <= PeriodsDue(watermark, Eve(start)) =>
                31 * (Index(watermark) + unit * 1) + watermark.day <= Ordinal(Eve(start)))
      BY <1>1, <1>2, <3>1, DueAtEnd DEF TypeOK
    <3>3. ~(End(Passed + 1) <= Ordinal(Eve(start)))
      BY <1>1, <1>2, <3>1, PassedEnded
    <3>4. /\ unit * (Passed + 1) <= unit * (Passed + granted) /\ unit * 1 = unit
          /\ unit * (Passed + 1) \in Int /\ unit * (Passed + granted) \in Int
      BY <1>2, <1>4, PeriodsStep
    <3>5. /\ Index(from) \in Int /\ from.day \in 1 .. 31 /\ watermark.day \in 1 .. 31
          /\ Ordinal(Eve(start)) \in Int
      BY <1>2, <3>1, DateFields
    <3>6. Index(watermark) = Index(from) + unit * (Passed + granted)
      BY <2>1 DEF OnGrid
    <3>7. 31 * (Index(watermark) + unit) + watermark.day <= Ordinal(Eve(start))
      BY <3>1, <3>2, <3>4
    <3>8. 31 * (Index(from) + unit * (Passed + 1)) + from.day > Ordinal(Eve(start))
      BY <3>3, <3>4, <3>5 DEF End
    <3>9. unit >= 1 /\ unit \in Int
      BY <1>2
    <3> QED BY <3>4, <3>5, <3>6, <3>7, <3>8, <3>9
  <2>3. Grid = watermark
    BY <1>2, <2>2, AddNothing, PeriodsStep DEF Grid
  <2> QED BY <2>1, <2>3
<1> QED BY <1>2, <1>3, <1>4

\* A balance starts on its own grid.
LEMMA InitGridInv == ASSUME Init PROVE GridInv
<1>1. IsDate(from) /\ from.year <= LastYear
  BY CalendarAssumption DEF Init
<1>2. Ordinal(from) \in Int
  BY <1>1, DateFields
<1> QED BY <1>1, <1>2 DEF Init, GridInv, TypeOK, WatermarkNeverAhead

\* A pass moves the watermark along the grid by the periods it grants.
LEMMA WalkGridInv == ASSUME GridInv, Walk PROVE GridInv'
<1> DEFINE p == PeriodsDue(Grid, today)
           w == AddMonths(Grid, unit * p)
<1>1. TypeOK /\ OnGrid(Grid, granted)
  BY GridPlace DEF GridInv
<1>2. /\ IsDate(Grid) /\ IsDate(today) /\ unit \in {1, 2, 3, 12} /\ granted \in Nat
      /\ Passed \in Nat
  BY <1>1, Dated DEF OnGrid
<1>3. /\ p > 0 /\ watermark' = w /\ granted' = granted + p
      /\ UNCHANGED <<from, unit, start, today>>
  BY DEF Walk
<1>4. p \in Nat /\ 31 * (Index(Grid) + unit * p) + Grid.day <= Ordinal(today)
  BY <1>1, <1>2, <1>3, DueAtEnd DEF TypeOK
<1>5. /\ unit * p \in Int
      /\ unit * ((Passed + granted) + p) = unit * (Passed + granted) + unit * p
      /\ unit * (Passed + granted) \in Int
  BY <1>2, <1>4, PeriodsStep
<1>6. /\ IsDate(w) /\ Index(w) = Index(Grid) + unit * p
      /\ w.day <= Grid.day /\ (w.day = Grid.day \/ w.day >= 28)
  BY <1>2, <1>5, AddMonthsPlace
<1>7. /\ w.day \in Int /\ Grid.day \in Int /\ from.day \in Int
      /\ Index(Grid) \in Int /\ Index(from) \in Int
      /\ Ordinal(w) = 31 * Index(w) + w.day /\ Ordinal(today) \in Int
  BY <1>1, <1>2, <1>6, Dated, DateFields
<1> HIDE DEF p, w
<1>8. Ordinal(w) <= Ordinal(today)
  BY <1>4, <1>5, <1>6, <1>7
<1>9. Passed' = Passed
  BY <1>3 DEF Passed, Skipped, PeriodsDue
<1>10. Index(w) = Index(from) + unit * (Passed + (granted + p))
  <2>1. Index(Grid) = Index(from) + unit * (Passed + granted)
    BY <1>1 DEF OnGrid
  <2>2. (Passed + granted) + p = Passed + (granted + p)
    BY <1>2, <1>4
  <2> QED BY <1>5, <1>6, <1>7, <2>1, <2>2
<1>11. OnGrid(watermark, granted)'
  BY <1>1, <1>3, <1>6, <1>7, <1>9, <1>10 DEF OnGrid
<1>12. TypeOK' /\ WatermarkNeverAhead' /\ granted' > 0
  BY <1>1, <1>2, <1>3, <1>4, <1>6, <1>8 DEF TypeOK, WatermarkNeverAhead
<1> QED BY <1>11, <1>12 DEF GridInv

\* Every step keeps the balance on its grid.
LEMMA NextGridInv == GridInv /\ [Next]_vars => GridInv'
<1> SUFFICES ASSUME GridInv, [Next]_vars PROVE GridInv'
  OBVIOUS
<1>1. CASE NextDay
  <2>1. UNCHANGED <<from, unit, start, watermark, granted>> /\ today' = Tomorrow(today)
        /\ Tomorrow(today).year <= LastYear
    BY <1>1 DEF NextDay
  <2>2. IsDate(today') /\ Ordinal(today') >= Ordinal(today) + 1
    BY <2>1, Dated, TomorrowIsLater DEF GridInv
  <2>3. TypeOK'
    BY <2>1, <2>2 DEF GridInv, TypeOK
  <2>4. /\ Ordinal(watermark) \in Int /\ Ordinal(today) \in Int /\ Ordinal(today') \in Int
        /\ Ordinal(watermark) <= Ordinal(today)
    BY <2>2, Dated, DateFields DEF GridInv, WatermarkNeverAhead
  <2>5. WatermarkNeverAhead'
    BY <2>1, <2>2, <2>4 DEF WatermarkNeverAhead
  <2>6. Passed' = Passed
    BY <2>1 DEF Passed, Skipped, PeriodsDue
  <2> QED BY <2>1, <2>3, <2>5, <2>6 DEF GridInv, OnGrid
<1>2. CASE UNCHANGED vars
  <2>1. Passed' = Passed
    BY <1>2 DEF vars, Passed, Skipped, PeriodsDue
  <2> QED BY <1>2, <2>1 DEF GridInv, vars, TypeOK, WatermarkNeverAhead, OnGrid
<1> QED BY <1>1, <1>2, WalkGridInv DEF Next

\* However often and from whatever start point it is walked, a balance stays on
\* the grid of its allocation.
THEOREM CalendarInvariant == Spec => []GridInv
<1>1. Init => GridInv
  BY InitGridInv
<1> QED BY <1>1, NextGridInv, PTL DEF Spec

\* The watermark never passes today, although each advance is a whole number of
\* periods from a day that was clamped.
THEOREM NeverAhead == Spec => []WatermarkNeverAhead
<1>1. GridInv => WatermarkNeverAhead
  BY DEF GridInv
<1> QED BY <1>1, CalendarInvariant, PTL

-----------------------------------------------------------------------------
(* What is granted.                                                        *)

\* The periods that a start point and the days passed let be paid.
LEMMA PayablePeriods ==
  ASSUME TypeOK, NEW d, IsDate(d)
  PROVE  Payable(d) = {n \in 1 .. 12 * (LastYear - from.year + 1) :
                         End(n) <= Ordinal(d) /\ n > Passed}
<1> DEFINE B == 12 * (LastYear - from.year + 1)
<1>1. IsDate(from) /\ unit \in {1, 2, 3, 12} /\ Passed \in Nat
  BY Dated
<1>2. B \in Int
  BY <1>1, CalendarAssumption, DateFields
<1>3. ASSUME NEW n \in 1 .. B PROVE Ordinal(Anniversary(from, unit * n)) = End(n) /\ n \in Nat \ {0}
  BY <1>1, <1>2, AnniversaryPlace, PeriodsStep DEF End
<1>4. CASE start = None
  <2>1. Passed = 0
    BY <1>4 DEF Passed, Skipped
  <2> HIDE DEF B
  <2>2. \A n \in 1 .. B : n > 0
    BY <1>2
  <2> QED BY <1>3, <1>4, <2>1, <2>2 DEF Payable, Ended, B
<1>5. CASE start # None
  <2>1. \A n \in 1 .. B : n > Passed <=> ~(End(n) <= Ordinal(Eve(start)))
    <3>1. TAKE n \in 1 .. B
    <3>2. n \in Nat \ {0} /\ (n <= Passed <=> End(n) <= Ordinal(Eve(start)))
      BY <1>3, <1>5, PassedEnded
    <3> QED BY <1>1, <3>2
  <2> HIDE DEF B
  <2> QED BY <1>3, <1>5, <2>1 DEF Payable, Ended, B
<1> QED BY <1>4, <1>5

\* Ends come in the order of their periods.
LEMMA EndsInOrder ==
  ASSUME TypeOK, NEW m \in Nat, NEW n \in Nat, m <= n
  PROVE  End(m) <= End(n)
<1>1. unit * m <= unit * n /\ unit * m \in Int /\ unit * n \in Int
  BY Dated, PeriodsStep
<1>2. Index(from) \in Int /\ from.day \in Int
  BY Dated, DateFields
<1> QED BY <1>1, <1>2 DEF End

\* When a pass finds nothing due, the periods payable are those granted.
LEMMA PayableAreGranted ==
  ASSUME GridInv, PeriodsDue(Grid, today) = 0
  PROVE  Payable(today) \in SUBSET (Passed + 1 .. Passed + granted)
<1>1. TypeOK /\ OnGrid(Grid, granted)
  BY GridPlace DEF GridInv
<1>2. /\ IsDate(Grid) /\ IsDate(today) /\ IsDate(from) /\ unit \in {1, 2, 3, 12}
      /\ granted \in Nat /\ Passed \in Nat
  BY <1>1, Dated DEF OnGrid
<1>3. ~(31 * (Index(Grid) + unit * 1) + Grid.day <= Ordinal(today))
  <2>1. unit \in Units /\ IsDate(Grid) /\ IsDate(today)
    BY <1>1, <1>2 DEF TypeOK
  <2>2. 1 <= PeriodsDue(Grid, today) <=> 31 * (Index(Grid) + unit * 1) + Grid.day <= Ordinal(today)
    BY <2>1, DueAtEnd
  <2> QED BY <2>2
<1> DEFINE j == Passed + granted
<1>4. j \in Nat /\ unit * (j + 1) = unit * j + unit * 1 /\ unit * j \in Int /\ unit * 1 = unit
      /\ unit \in Int
  BY <1>2, PeriodsStep
<1>5. /\ Index(Grid) = Index(from) + unit * j /\ Grid.day <= from.day
  BY <1>1 DEF OnGrid
<1>6. /\ Index(from) \in Int /\ from.day \in Int /\ Grid.day \in Int /\ Ordinal(today) \in Int
  BY <1>2, DateFields
<1>7. End(j + 1) > Ordinal(today)
  <2> HIDE DEF j
  <2> QED BY <1>3, <1>4, <1>5, <1>6 DEF End
<1>8. ASSUME NEW n \in Payable(today) PROVE n \in Nat /\ n > Passed /\ n <= j
  <2>1. n \in 1 .. 12 * (LastYear - from.year + 1) /\ End(n) <= Ordinal(today) /\ n > Passed
    BY <1>1, <1>2, PayablePeriods
  <2>2. n \in Nat
    BY <2>1, <1>2, CalendarAssumption, DateFields
  <2>3. ~(j + 1 <= n)
    <3>1. ASSUME j + 1 <= n PROVE FALSE
      <4>1. End(j + 1) <= End(n) /\ End(n) \in Int /\ End(j + 1) \in Int
        BY <1>1, <1>4, <2>2, <3>1, EndsInOrder, Dated
      <4> QED BY <1>6, <1>7, <2>1, <4>1
    <3> QED BY <3>1
  <2> QED BY <1>4, <2>1, <2>2, <2>3
<1> QED BY <1>2, <1>8

\* How many periods follow one another.
LEMMA PeriodCount ==
  ASSUME NEW m \in Nat, NEW n \in Nat
  PROVE  IsFiniteSet(m + 1 .. m + n) /\ Cardinality(m + 1 .. m + n) = n
<1>1. m + 1 \in Int /\ m + n \in Int
  OBVIOUS
<1>2. /\ IsFiniteSet(m + 1 .. m + n)
      /\ Cardinality(m + 1 .. m + n) = IF m + 1 > m + n THEN 0 ELSE (m + n) - (m + 1) + 1
  BY <1>1, FS_Interval
<1> QED BY <1>2

\* No period of the allocation is lost, however late, seldom or from whatever
\* clamped day it was walked.
THEOREM NoneLost == Spec => []NoPeriodIsLost
<1>1. GridInv => NoPeriodIsLost
  <2> SUFFICES ASSUME GridInv, PeriodsDue(Grid, today) = 0
               PROVE  Cardinality(Payable(today)) <= granted
    BY DEF NoPeriodIsLost
  <2>1. Passed \in Nat /\ granted \in Nat
    BY Dated DEF GridInv
  <2> DEFINE S == Passed + 1 .. Passed + granted
  <2>2. IsFiniteSet(S) /\ Cardinality(S) = granted
    BY <2>1, PeriodCount
  <2>3. Payable(today) \in SUBSET S
    BY PayableAreGranted
  <2> HIDE DEF S
  <2>4. Cardinality(Payable(today)) <= Cardinality(S)
    BY <2>2, <2>3, FS_Subset
  <2> QED BY <2>2, <2>4
<1> QED BY <1>1, CalendarInvariant, PTL

\* What was granted has ended in three days from now.
LEMMA GrantedArePayable ==
  ASSUME GridInv, granted > 0
  PROVE  LET d == Tomorrow(Tomorrow(Tomorrow(today)))
         IN (Passed + 1 .. Passed + granted) \in SUBSET Payable(d) /\ IsFiniteSet(Payable(d))
<1> DEFINE d == Tomorrow(Tomorrow(Tomorrow(today)))
           j == Passed + granted
<1>1. TypeOK /\ OnGrid(watermark, granted) /\ Ordinal(watermark) <= Ordinal(today)
  BY DEF GridInv, WatermarkNeverAhead
<1>2. /\ IsDate(watermark) /\ IsDate(today) /\ IsDate(from) /\ unit \in {1, 2, 3, 12}
      /\ granted \in Nat /\ Passed \in Nat
  BY <1>1, Dated
<1>3. IsDate(d) /\ Ordinal(d) >= Ordinal(today) + 3
  <2>1. IsDate(Tomorrow(today)) /\ Ordinal(Tomorrow(today)) >= Ordinal(today) + 1
    BY <1>2, TomorrowIsLater
  <2>2. /\ IsDate(Tomorrow(Tomorrow(today)))
        /\ Ordinal(Tomorrow(Tomorrow(today))) >= Ordinal(Tomorrow(today)) + 1
    BY <2>1, TomorrowIsLater
  <2>3. IsDate(d) /\ Ordinal(d) >= Ordinal(Tomorrow(Tomorrow(today))) + 1
    BY <2>2, TomorrowIsLater
  <2>4. /\ Ordinal(today) \in Int /\ Ordinal(Tomorrow(today)) \in Int
        /\ Ordinal(Tomorrow(Tomorrow(today))) \in Int /\ Ordinal(d) \in Int
    BY <1>2, <2>1, <2>2, <2>3, DateFields
  <2> HIDE DEF d
  <2> QED BY <2>1, <2>2, <2>3, <2>4
<1> HIDE DEF d
<1>4. /\ Index(from) \in Int /\ from.day \in 1 .. 31 /\ watermark.day \in 1 .. 31
      /\ Index(watermark) \in Int /\ Ordinal(watermark) = 31 * Index(watermark) + watermark.day
      /\ Ordinal(today) \in Int /\ Ordinal(d) \in Int
      /\ Ordinal(today) = 31 * Index(today) + today.day /\ today.day \in 1 .. 31
      /\ Index(today) \in Int
  BY <1>2, <1>3, DateFields
<1>5. /\ Index(watermark) = Index(from) + unit * j
      /\ watermark.day = from.day \/ watermark.day >= 28
  BY <1>1 DEF OnGrid
<1>6. j \in Nat /\ j > 0 /\ unit * j \in Int /\ unit * j >= j
  BY <1>2, PeriodsStep
<1> HIDE DEF j
<1>7. End(j) <= Ordinal(d)
  BY <1>1, <1>3, <1>4, <1>5, <1>6 DEF End
<1>8. j <= 12 * (LastYear - from.year + 1)
  <2>1. Index(watermark) <= Index(today)
    BY <1>1, <1>4
  <2>2. /\ today.year \in Int /\ today.month \in 1 .. 12 /\ from.year \in Int
        /\ from.month \in 1 .. 12 /\ today.year <= LastYear /\ LastYear \in Int
    BY <1>1, <1>2, CalendarAssumption, DateFields DEF TypeOK
  <2>3. Index(today) = 12 * today.year + today.month /\ Index(from) = 12 * from.year + from.month
    BY DEF Index
  <2> QED BY <1>4, <1>5, <1>6, <2>1, <2>2, <2>3
<1>9. 12 * (LastYear - from.year + 1) \in Int
  BY <1>2, CalendarAssumption, DateFields
<1>10. ASSUME NEW n \in Passed + 1 .. j PROVE n \in Payable(d)
  <2>1. n \in Nat /\ n > Passed /\ n <= j /\ n >= 1
    BY <1>2, <1>6
  <2>2. End(n) <= End(j) /\ End(n) \in Int /\ End(j) \in Int
    BY <1>1, <1>6, <2>1, EndsInOrder, Dated
  <2>3. End(n) <= Ordinal(d)
    BY <1>4, <1>7, <2>2
  <2>4. n \in 1 .. 12 * (LastYear - from.year + 1)
    BY <1>6, <1>8, <1>9, <2>1
  <2> QED BY <1>1, <1>3, <2>1, <2>3, <2>4, PayablePeriods
<1>11. IsFiniteSet(Payable(d))
  <2>1. Payable(d) \in SUBSET (1 .. 12 * (LastYear - from.year + 1))
    BY <1>1, <1>3, PayablePeriods
  <2>2. IsFiniteSet(1 .. 12 * (LastYear - from.year + 1))
    BY <1>9, FS_Interval
  <2> QED BY <2>1, <2>2, FS_Subset
<1> QED BY <1>10, <1>11 DEF d, j

\* Clamped days move the grid by less than a month may be short: nothing is
\* granted more than three days before it ends, nor twice.
THEOREM NeverEarly == Spec => []NeverMuchTooEarly
<1>1. GridInv => NeverMuchTooEarly
  <2> DEFINE d == Tomorrow(Tomorrow(Tomorrow(today)))
  <2> SUFFICES ASSUME GridInv PROVE granted <= Cardinality(Payable(d))
    BY DEF NeverMuchTooEarly
  <2>1. Passed \in Nat /\ granted \in Nat
    BY Dated DEF GridInv
  <2>2. CASE granted > 0
    <3>1. (Passed + 1 .. Passed + granted) \in SUBSET Payable(d) /\ IsFiniteSet(Payable(d))
      BY <2>2, GrantedArePayable
    <3> HIDE DEF d
    <3> QED BY <2>1, <3>1, PeriodCount, FS_Subset
  <2>3. CASE granted = 0
    <3>1. TypeOK /\ IsDate(today)
      BY Dated DEF GridInv
    <3>2. IsDate(d)
      BY <3>1, TomorrowIsLater
    <3>3. /\ Payable(d) \in SUBSET (1 .. 12 * (LastYear - from.year + 1))
          /\ 12 * (LastYear - from.year + 1) \in Int
      BY <3>1, <3>2, PayablePeriods, CalendarAssumption, Dated, DateFields
    <3> HIDE DEF d
    <3> DEFINE S == 1 .. 12 * (LastYear - from.year + 1)
    <3>4. IsFiniteSet(S)
      BY <3>3, FS_Interval
    <3>5. Payable(d) \in SUBSET S
      BY <3>3
    <3> HIDE DEF S
    <3>6. Cardinality(Payable(d)) \in Nat
      BY <3>4, <3>5, FS_Subset, FS_CardinalityType
    <3> QED BY <2>3, <3>6
  <2> QED BY <2>1, <2>2, <2>3
<1> QED BY <1>1, CalendarInvariant, PTL
=============================================================================
