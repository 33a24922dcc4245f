----------------------------- MODULE PaidLeave -----------------------------
(***************************************************************************)
(* The read port of payroll, TimeoffQueryService::paid_leave_days: the     *)
(* dates of a pay period that approved, paid leave covers.  It reads the   *)
(* requests that the verbs move and the is_paid flag that an edit of a     *)
(* leave type moves; payroll asks for one period after another and         *)
(* subtracts the dates from the working days.                              *)
(***************************************************************************)
EXTENDS LeaveStanding

CONSTANTS
  Own,       \* the keys of the employee payroll asks about
  Calendar   \* BOUND on the dates payroll asks about

ASSUME PayrollAssumption == Own \subseteq Keys /\ Calendar \subseteq Int

VARIABLE paid    \* paid[k]: timeoff_types.is_paid of the type of k

payVars == <<vars, paid>>

PayInit == Init /\ paid \in [Keys -> BOOLEAN]

\* PUT of a type: its row rules look at its name and its code only, so is_paid
\* may change at any time.
PutType(k, flag) ==
  /\ paid' = [paid EXCEPT ![k] = flag]
  /\ UNCHANGED vars

\* PATCH of a type changes the flag if it names it.
PatchType(k, named, flag) == PutType(k, IF named THEN flag ELSE paid[k])

\* The writing routes of a type.  One in the trash keeps its flag, and the port
\* reads it there.
TypeWrite(k) ==
  \/ \E flag \in BOOLEAN : PutType(k, flag)
  \/ \E named, flag \in BOOLEAN : PatchType(k, named, flag)

PayNext ==
  \/ SteadyNext /\ UNCHANGED paid
  \/ \E k \in Keys : TypeWrite(k)

PaySpec ==
  /\ PayInit /\ [][PayNext]_payVars
  /\ \A c \in Callers : WF_payVars(Continue(c) /\ UNCHANGED paid)

-----------------------------------------------------------------------------
\* A bug: what is still pending is paid too.
Undecided(r) == Live(r) /\ request[r].status \in {"pending", "approved"}

\* The WHERE of the read.
Payable(r) == Live(r) /\ request[r].status = "approved"

\* A bug: the expansion starts at the request's first day.
ExpandedWhole(t, lo, hi) == t.from .. Min({t.to, hi})

\* generate_series from GREATEST(date_start, lo) to LEAST(date_end, hi).
Expanded(t, lo, hi) == Max({t.from, lo}) .. Min({t.to, hi})

PaidRequests ==
  {r \in Requests : /\ Payable(r) /\ request[r].terms.key \in Own
                    /\ paid[request[r].terms.key]}

\* SELECT DISTINCT: a half day is a date like any other.
PaidDays(lo, hi) == UNION {Expanded(request[r].terms, lo, hi) : r \in PaidRequests}

-----------------------------------------------------------------------------
\* A day of paid leave is in exactly one of two consecutive pay periods,
\* however requests straddle the end of a period and overlap one another: no
\* day is subtracted twice and none is forgotten.
PeriodsAddUp ==
  \A lo, mid, hi \in Calendar :
    lo <= mid /\ mid < hi =>
      /\ PaidDays(lo, mid) \cap PaidDays(mid + 1, hi) = {}
      /\ PaidDays(lo, mid) \cup PaidDays(mid + 1, hi) = PaidDays(lo, hi)

\* Does the draw of r, taken from a balance of the employee and not given back,
\* pay for day d?
Funds(r, d) ==
  LET t == drawn[r]
  IN /\ request[r].status = "approved" /\ t # None
     /\ t.key \in Own /\ Days(t) <= used[t.key]
     /\ t.from <= d /\ d <= t.to
     /\ Window[t.key].from <= d /\ d <= Window[t.key].to

\* No date is paid as leave that no balance gave: behind each there is a draw
\* that spans it, from a balance that is valid on it and still holds the draw,
\* whatever verbs are under way.
PaidDaysAreDrawn ==
  \A lo, hi \in Calendar : \A d \in PaidDays(lo, hi) : \E r \in Requests : Funds(r, d)

\* A period that was read once reads the same later unless a balance of the
\* employee moved or the type was edited: no submit, refusal, adjustment or
\* half-done approval shows in the pay.
PayMovesWithTheBalance ==
  [][\A lo, hi \in Calendar :
       PaidDays(lo, hi)' # PaidDays(lo, hi) =>
         \/ \E k \in Own : used'[k] # used[k]
         \/ paid' # paid]_payVars
=============================================================================
