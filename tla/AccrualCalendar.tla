-------------------------- MODULE AccrualCalendar --------------------------
(***************************************************************************)
(* The calendar of the accrual walk for the monthly, bimonthly, quarterly  *)
(* and yearly frequencies: whole months, the clamped date after n months,  *)
(* the periods due and the advanced watermark, as one balance is walked on *)
(* some days and not on others.  Runs that race for the balance are the    *)
(* matter of AccrualWalk.                                                  *)
(***************************************************************************)
EXTENDS Integers, FiniteSets, FiniteSetsExt

CONSTANTS
  Allocations, \* the days an allocation can start
  Units,       \* the months of a period: 1, 2, 3 or 12
  Starts,      \* the start points of the runs, None for no start point
  LastYear,    \* BOUND on the clock
  None

VARIABLES
  from,      \* date_from of the balance
  unit,      \* the months of a period of its level
  start,     \* the start point every run carries
  today,
  watermark, \* last_accrual_at, from before the first grant
  granted    \* history: the periods granted

vars == <<from, unit, start, today, watermark, granted>>

Date(y, m, d) == [year |-> y, month |-> m, day |-> d]

IsLeap(y) == y % 4 = 0 /\ (y % 100 # 0 \/ y % 400 = 0)

DaysIn(y, m) ==
  CASE m \in {4, 6, 9, 11} -> 30
    [] m = 2 -> IF IsLeap(y) THEN 29 ELSE 28
    [] OTHER -> 31

\* A date of the calendar.
IsDate(d) ==
  /\ d \in [year : Int, month : 1 .. 12, day : 1 .. 31]
  /\ d.day <= DaysIn(d.year, d.month)

ASSUME CalendarAssumption ==
  /\ \A d \in Allocations : IsDate(d) /\ d.year <= LastYear
  /\ \A d \in Starts \ {None} : IsDate(d)
  /\ Units \subseteq {1, 2, 3, 12}
  /\ LastYear \in Int

\* Orders dates, those that a month is too short for included.
Ordinal(d) == 31 * (12 * d.year + d.month) + d.day

Tomorrow(d) ==
  IF d.day < DaysIn(d.year, d.month) THEN [d EXCEPT !.day = @ + 1]
  ELSE IF d.month < 12 THEN Date(d.year, d.month + 1, 1)
  ELSE Date(d.year + 1, 1, 1)

\* NaiveDate::pred_opt.
Eve(d) ==
  IF d.day > 1 THEN [d EXCEPT !.day = @ - 1]
  ELSE IF d.month > 1 THEN Date(d.year, d.month - 1, DaysIn(d.year, d.month - 1))
  ELSE Date(d.year - 1, 12, 31)

\* The same day n months later, whether or not that month has it.
Anniversary(d, n) ==
  LET months == 12 * d.year + d.month - 1 + n
  IN Date(months \div 12, (months % 12) + 1, d.day)

\* add_months: clamped to the length of the month.
AddMonths(d, n) ==
  LET a == Anniversary(d, n)
  IN [a EXCEPT !.day = Min({@, DaysIn(a.year, a.month)})]

\* A bug: a month counts from its first day.
CalendarMonths(a, b) == Max({0, 12 * (b.year - a.year) + b.month - a.month})

\* whole_months: a month counts once its anniversary day is reached.
WholeMonths(a, b) ==
  LET months == 12 * (b.year - a.year) + b.month - a.month
  IN Max({0, IF b.day < a.day THEN months - 1 ELSE months})

\* periods_due.
PeriodsDue(mark, now) == WholeMonths(mark, now) \div unit

\* A bug: the periods are skipped through the start day itself.
SkipThroughStart(mark) ==
  IF start = None THEN 0 ELSE PeriodsDue(mark, start)

\* skip_periods_before: the periods that ended before the start day.
Skipped(mark) == IF start = None THEN 0 ELSE PeriodsDue(mark, Eve(start))

\* A bug: no period is passed over.
GridWithoutStart == watermark

\* Where this pass counts from.
Grid == AddMonths(watermark, unit * Skipped(watermark))

-----------------------------------------------------------------------------
Init ==
  /\ from \in Allocations /\ unit \in Units /\ start \in Starts
  /\ today = from
  /\ watermark = from
  /\ granted = 0

NextDay ==
  /\ Tomorrow(today).year <= LastYear
  /\ today' = Tomorrow(today)
  /\ UNCHANGED <<from, unit, start, watermark, granted>>

\* One row of one pass: nothing due, nothing written.
Walk ==
  LET periods == PeriodsDue(Grid, today)
  IN /\ periods > 0
     /\ watermark' = AddMonths(Grid, unit * periods)
     /\ granted' = granted + periods
     /\ UNCHANGED <<from, unit, start, today>>

Next == NextDay \/ Walk

Spec == Init /\ [][Next]_vars

-----------------------------------------------------------------------------
(* Properties.                                                             *)

\* The watermark and the clock stay on dates of the calendar.
TypeOK ==
  /\ from \in Allocations /\ unit \in Units /\ start \in Starts
  /\ IsDate(watermark) /\ IsDate(today) /\ today.year <= LastYear
  /\ granted \in Nat

\* Clamping never carries the watermark past today: what is granted is granted up
\* to a day of the grid that has come, early as the grid may be of a period's end.
WatermarkNeverAhead == Ordinal(watermark) <= Ordinal(today)

\* The periods of the allocation that have ended by d, and those that a start
\* point lets be paid: a period that a month is too short for ends the day after
\* that month, which may be the start day.
Ended(d) == {n \in 1 .. 12 * (LastYear - from.year + 1) :
               Ordinal(Anniversary(from, unit * n)) <= Ordinal(d)}
Payable(d) == Ended(d) \ (IF start = None THEN {} ELSE Ended(Eve(start)))

\* Walking late, seldom or from a clamped date loses nothing: when a run would
\* find nothing due, every period that ended was granted, unless it ended
\* before the start point.
NoPeriodIsLost ==
  PeriodsDue(Grid, today) = 0 => Cardinality(Payable(today)) <= granted

\* Clamped dates move the grid by less than a month may be short: no period,
\* and none of the backlog, is granted more than three days before it ends.
NeverMuchTooEarly ==
  granted <= Cardinality(Payable(Tomorrow(Tomorrow(Tomorrow(today)))))
=============================================================================
