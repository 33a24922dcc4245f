--------------------------- MODULE LeaveStanding ---------------------------
(***************************************************************************)
(* The figures a leave form shows beside the verbs of TimeoffRequests:     *)
(* standings and preview_request read the two tables in one statement and  *)
(* write nothing, so what they answer is a function of the state.  What    *)
(* matters is what it is worth once the verbs have moved on.               *)
(***************************************************************************)
EXTENDS TimeoffRequests

\* The pending asks of a key, counted with the approval's own day expression.
PendingDays(k) ==
  MapThenSumSet(LAMBDA r : Days(request[r].terms),
    {r \in Requests : /\ Live(r) /\ request[r].status = "pending"
                      /\ request[r].terms.key = k})

\* A bug: what is left holds nothing back for the pending asks.
AvailableNow(k) == allocated[k] - used[k]

\* LeaveStanding.available_after_pending.
AvailableAfterPending(k) == allocated[k] - used[k] - PendingDays(k)

\* A bug: the form does not look at the validity window.
WindowIgnored(t) == TRUE

WithinWindow(t) == Window[t.key].from <= t.from /\ t.to <= Window[t.key].to

\* LeavePreview.fits: days that can be asked, and nothing preview_refusal names.
Fits(t) ==
  /\ t.from <= t.to
  /\ Days(t) <= Cap[t.key]
  /\ t.key \in minted
  /\ WithinWindow(t)
  /\ Days(t) <= AvailableAfterPending(t.key)

-----------------------------------------------------------------------------
\* "Computed by the same rules as submit and the approval draw": an ask the
\* preview says fits is one that a submit accepts and, the engine willing, an
\* approval draws, with nothing in between.
PreviewAgreesWithTheVerbs ==
  \A t \in Terms : Fits(t) => Submittable(t) /\ CanDraw(t)

\* An ask that fits still fits whatever becomes of the pending asks: only a new
\* ask for the same balance, or a lowered allocation, takes the promise back.
PreviewPromiseKept ==
  [][\A t \in Terms :
       Fits(t) /\ ~Fits(t)' =>
         \/ allocated'[t.key] < allocated[t.key]
         \/ \E r \in Requests : /\ request[r].status = "absent"
                                /\ request'[r].status = "pending"
                                /\ request'[r].terms.key = t.key]_vars
=============================================================================
