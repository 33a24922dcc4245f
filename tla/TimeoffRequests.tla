-------------------------- MODULE TimeoffRequests --------------------------
(***************************************************************************)
(* The lifecycle of a leave request: submit, approve, reject, cancel and   *)
(* adjust, the verbs of TimeoffRequestWriteService, over the two tables    *)
(* they share and the approvals engine they file with.                     *)
(*                                                                         *)
(* A verb is several steps of one caller: a read on the pool, a call of    *)
(* the approvals port, one database transaction, one publication.  What a  *)
(* step read stays in the caller's `call` while other callers move the     *)
(* rows.  A transaction is ONE step: it locks the request row, then the    *)
(* balance row, with UPDATEs gated in their own WHERE, and commits both or *)
(* neither.                                                                *)
(*                                                                         *)
(* Days are counted in half days, the smallest amount an ask can draw.     *)
(***************************************************************************)
EXTENDS Integers, Sequences, FiniteSets, FiniteSetsExt

CONSTANTS
  Requests,      \* the ids a submit or a generic create can mint
  Callers,       \* the concurrent HTTP calls
  Keys,          \* (employee, timeoff type, period): one balance each
  Terms,         \* what an ask can say: key, first and last day, part
  Window,        \* Window[k]: the validity window of the balance of k
  Cap,           \* Cap[k]: the per-request ceiling of the type of k
  Deltas,        \* the amounts an adjustment can carry
  MaxAllocated,  \* BOUND on an allocation
  Wired,         \* is an approvals port supplied?
  None           \* SQL NULL, or nothing held

Parts == {"full", "am", "pm"}

ASSUME TermsAssumption ==
  /\ Terms \subseteq [key : Keys, from : Int, to : Int, part : Parts]
  /\ \A t \in Terms : t.part = "full" \/ t.from = t.to
  /\ Terms # {}

ASSUME BalanceAssumption ==
  /\ Window \in [Keys -> [from : Int, to : Int]]
  /\ Cap \in [Keys -> Int]
  /\ Deltas \subseteq Int \ {0}
  /\ MaxAllocated \in Nat

ASSUME SeamAssumption == Wired \in BOOLEAN

ASSUME NoneAssumption == None \notin Requests \cup Terms

VARIABLES
  request,    \* timeoff_requests: [status, terms, link, deleted]
  minted,     \* the keys whose balance row exists
  allocated,  \* timeoff_balances.allocated
  used,       \* timeoff_balances.used
  filing,     \* the engine's verdict on the filing made for a request
  call,       \* what each caller is doing and what it has read
  settled,    \* the LeaveSettled events published, in order
  outright,   \* history: the requests the engine approved when filed
  drawn       \* history: the terms the approval of a request drew for

book  == <<minted, allocated, used>>
ghost == <<outright, drawn>>
vars  == <<request, book, filing, call, settled, ghost>>

-----------------------------------------------------------------------------
(* Amounts and gates.                                                      *)

\* CASE WHEN part = 'full' THEN date_end - date_start + 1 ELSE 0.5 END: an
\* inverted span counts zero or fewer days.
Days(t) == IF t.part = "full" THEN 2 * (t.to - t.from + 1) ELSE 1

\* A bug: only the cap is checked before the filing.
SubmittableInverted(t) == Days(t) <= Cap[t.key]

\* What a submit accepts before it files.
Submittable(t) == t.from <= t.to /\ Days(t) <= Cap[t.key]

\* A bug: only the CHECKs the generator emits, without the hand-authored guard.
ChecksGenerated(a, u) == 0 <= a /\ 0 <= u

\* The CHECK constraints of timeoff_balances.
ChecksHold(a, u) == 0 <= u /\ u <= a

\* The WHERE of the draw.
DrawGate(t) ==
  /\ t.key \in minted
  /\ used[t.key] + Days(t) <= allocated[t.key]
  /\ Window[t.key].from <= t.from /\ t.to <= Window[t.key].to

CanDraw(t) == DrawGate(t) /\ ChecksHold(allocated[t.key], used[t.key] + Days(t))

\* The WHERE of the restore.
RestoreGate(t) == t.key \in minted /\ used[t.key] >= Days(t)

CanRestore(t) ==
  RestoreGate(t) /\ ChecksHold(allocated[t.key], used[t.key] - Days(t))

-----------------------------------------------------------------------------
(* The rows, the calls and the events.                                     *)

Statuses    == {"absent", "pending", "approved", "rejected", "cancelled"}
Verdicts    == {"none", "pending", "approved", "rejected", "cancelled"}
Settlements == {"approved", "refused", "cancelled", "voided"}
PCs == {"idle", "insert", "insert_outright", "verdict", "approve",
        "cancel_pending", "cancel_approved", "publish"}

Absent == [status |-> "absent", terms |-> None, link |-> None, deleted |-> FALSE]
Idle   == [pc |-> "idle", req |-> None, terms |-> None, link |-> None, event |-> None]

Events == [settlement : Settlements, part : Parts, from : Int, to : Int]
Rows   == [status : Statuses, terms : Terms \cup {None},
           link : Requests \cup {None}, deleted : BOOLEAN]
Calls  == [pc : PCs, req : Requests \cup {None}, terms : Terms \cup {None},
           link : Requests \cup {None}, event : Events \cup {None}]

Event(s, part, t) == [settlement |-> s, part |-> part, from |-> t.from, to |-> t.to]

\* Every announcement but an approval's says the whole day.
Announcement(s, t) == Event(s, "full", t)

\* A bug: a grant announced as the refusals and cancels are.
GrantWholeDay(t) == Announcement("approved", t)

\* A grant of no days settles as voided.
Grant(t) == Event(IF Days(t) = 0 THEN "voided" ELSE "approved", t.part, t)

Live(r) == request[r].status # "absent" /\ ~request[r].deleted

Start(c, pc, r, t, l) ==
  call' = [call EXCEPT ![c] =
             [pc |-> pc, req |-> r, terms |-> t, link |-> l, event |-> None]]

Proceed(c, pc) == call' = [call EXCEPT ![c].pc = pc]

Return(c) == call' = [call EXCEPT ![c] = Idle]

ThenPublish(c, r, e) ==
  call' = [call EXCEPT ![c] =
             [pc |-> "publish", req |-> r, terms |-> None, link |-> None, event |-> e]]

\* The status an UPDATE asks for in its WHERE, and the bugs that forget it.
Claimable(r) == TRUE
ApproveGate(r) == request[r].status = "pending"

Rejectable(r) == Live(r)
RejectGate(r) == Live(r) /\ request[r].status = "pending"

Withdrawable(r) == TRUE
CancelPendingGate(r) == request[r].status = "pending"

Restorable(r) == TRUE
CancelApprovedGate(r) == request[r].status = "approved"

SetStatus(r, s) == request' = [request EXCEPT ![r].status = s]

Pending(r, t, l) ==
  request' = [request EXCEPT ![r] =
                [status |-> "pending", terms |-> t, link |-> l, deleted |-> FALSE]]

-----------------------------------------------------------------------------
Init ==
  /\ request   = [r \in Requests |-> Absent]
  /\ minted    = {}
  /\ allocated = [k \in Keys |-> 0]
  /\ used      = [k \in Keys |-> 0]
  /\ filing    = [r \in Requests |-> "none"]
  /\ call      = [c \in Callers |-> Idle]
  /\ settled   = [r \in Requests |-> <<>>]
  /\ outright  = {}
  /\ drawn     = [r \in Requests |-> None]

\* A request id is a fresh UUID: nobody else submits or creates it.
Fresh(r) ==
  /\ request[r].status = "absent"
  /\ filing[r] = "none"
  /\ \A c \in Callers : call[c].req # r

(***************************************************************************)
(* submit_request_part: validate, then file, outside any transaction.      *)
(***************************************************************************)
SubmitFile(c, r, t) ==
  /\ call[c].pc = "idle"
  /\ Fresh(r)
  /\ Submittable(t)
  /\ \/ /\ ~Wired
        /\ Start(c, "insert", r, t, None)
        /\ UNCHANGED <<filing, outright>>
     \/ /\ Wired
        /\ Start(c, "insert", r, t, r)
        /\ filing' = [filing EXCEPT ![r] = "pending"]
        /\ UNCHANGED outright
     \/ /\ Wired
        /\ Start(c, "insert_outright", r, t, r)
        /\ filing' = [filing EXCEPT ![r] = "approved"]
        /\ outright' = outright \cup {r}
  /\ UNCHANGED <<request, book, settled, drawn>>

\* The port fails: the submit fails, whether or not the engine kept the filing.
SubmitFileFails(r) ==
  /\ Wired
  /\ Fresh(r)
  /\ filing' = [filing EXCEPT ![r] = "pending"]
  /\ UNCHANGED <<request, book, call, settled, ghost>>

\* The insert's transaction, for a filing that is not granted yet.
SubmitInsert(c) ==
  /\ call[c].pc = "insert"
  /\ Pending(call[c].req, call[c].terms, call[c].link)
  /\ Return(c)
  /\ UNCHANGED <<book, filing, settled, ghost>>

\* A bug: the failed settlement is swallowed and the insert committed.
SubmitOutrightKept(c) ==
  /\ call[c].pc = "insert_outright"
  /\ Pending(call[c].req, call[c].terms, call[c].link)
  /\ Return(c)
  /\ UNCHANGED <<book, filing, settled, ghost>>

\* Insert and settle_approved in one transaction: settle_approved looks the
\* request up on the pool, which cannot see the uncommitted insert, and
\* answers NotFound, so the whole transaction rolls back.
SubmitOutright(c) ==
  /\ call[c].pc = "insert_outright"
  /\ Return(c)
  /\ UNCHANGED <<request, book, filing, settled, ghost>>

\* The insert is refused (a foreign key, the type) and rolled back: the filing
\* stays behind on the engine's side.
SubmitInsertFails(c) ==
  /\ call[c].pc = "insert"
  /\ Return(c)
  /\ UNCHANGED <<request, book, filing, settled, ghost>>

-----------------------------------------------------------------------------
(* approve_request: read, ask the engine, then one transaction.            *)

\* A bug: the read takes the first pending row, whatever its id.
FirstPending(r) == request[CHOOSE q \in Requests : request[q].status = "pending"].terms

\* What find_for_approval reads for the draw.
Snapshot(r) == request[r].terms

ApproveRead(c, r) ==
  /\ call[c].pc = "idle"
  /\ Live(r) /\ request[r].status = "pending"
  /\ Start(c, IF request[r].link = None THEN "approve" ELSE "verdict",
           r, Snapshot(r), request[r].link)
  /\ UNCHANGED <<request, book, filing, settled, ghost>>

\* A bug: everything but a refusal lets the approval go on.
NotRefused(l) == Wired /\ filing[l] # "rejected"

EngineGranted(l) == Wired /\ filing[l] = "approved"

\* Only Approved lets the approval go on.  Any other verdict, an unwired port
\* or one that fails ends the call.
ApproveVerdict(c) ==
  /\ call[c].pc = "verdict"
  /\ \/ EngineGranted(call[c].link) /\ Proceed(c, "approve")
     \/ Return(c)
  /\ UNCHANGED <<request, book, filing, settled, ghost>>

\* A bug: the approval commits without its draw.
DrawNothing(t) == UNCHANGED used

Draw(t) == used' = [used EXCEPT ![t.key] = @ + Days(t)]

\* mark_approved and draw, then commit.
ApproveCommit(c) ==
  LET r == call[c].req
      t == call[c].terms
  IN /\ call[c].pc = "approve"
     /\ ApproveGate(r) /\ CanDraw(t)
     /\ SetStatus(r, "approved")
     /\ Draw(t)
     /\ drawn' = [drawn EXCEPT ![r] = t]
     /\ ThenPublish(c, r, Grant(t))
     /\ UNCHANGED <<minted, allocated, filing, settled, outright>>

\* Either UPDATE matched no row, or a CHECK refused it: nothing changes.
ApproveRollback(c) ==
  /\ call[c].pc = "approve"
  /\ ~(ApproveGate(call[c].req) /\ CanDraw(call[c].terms))
  /\ Return(c)
  /\ UNCHANGED <<request, book, filing, settled, ghost>>

-----------------------------------------------------------------------------
(* reject_request: one gated UPDATE.                                       *)

\* A bug: the refusal is never announced.
RejectSilently(c, r) ==
  /\ call[c].pc = "idle"
  /\ RejectGate(r)
  /\ SetStatus(r, "rejected")
  /\ UNCHANGED <<book, filing, call, settled, ghost>>

Reject(c, r) ==
  /\ call[c].pc = "idle"
  /\ RejectGate(r)
  /\ SetStatus(r, "rejected")
  /\ ThenPublish(c, r, Announcement("refused", request[r].terms))
  /\ UNCHANGED <<book, filing, settled, ghost>>

-----------------------------------------------------------------------------
(* cancel_request: read, then the branch the status read asks for.         *)

CancelRead(c, r) ==
  /\ call[c].pc = "idle"
  /\ Live(r) /\ request[r].status \in {"pending", "approved"}
  /\ Start(c, IF request[r].status = "pending" THEN "cancel_pending"
                                               ELSE "cancel_approved",
           r, request[r].terms, None)
  /\ UNCHANGED <<request, book, filing, settled, ghost>>

CancelPending(c) ==
  LET r == call[c].req
  IN /\ call[c].pc = "cancel_pending"
     /\ CancelPendingGate(r)
     /\ SetStatus(r, "cancelled")
     /\ ThenPublish(c, r, Announcement("cancelled", call[c].terms))
     /\ UNCHANGED <<book, filing, settled, ghost>>

\* cancel_approved and restore, then commit.
CancelApproved(c) ==
  LET r == call[c].req
      t == call[c].terms
  IN /\ call[c].pc = "cancel_approved"
     /\ CancelApprovedGate(r) /\ CanRestore(t)
     /\ SetStatus(r, "cancelled")
     /\ used' = [used EXCEPT ![t.key] = @ - Days(t)]
     /\ ThenPublish(c, r, Announcement("cancelled", t))
     /\ UNCHANGED <<minted, allocated, filing, settled, ghost>>

CancelRollback(c) ==
  LET r == call[c].req
  IN /\ \/ call[c].pc = "cancel_pending" /\ ~CancelPendingGate(r)
        \/ /\ call[c].pc = "cancel_approved"
           /\ ~(CancelApprovedGate(r) /\ CanRestore(call[c].terms))
     /\ Return(c)
     /\ UNCHANGED <<request, book, filing, settled, ghost>>

-----------------------------------------------------------------------------
\* The sink is called after the commit, by the same call.
Publish(c) ==
  LET r == call[c].req
  IN /\ call[c].pc = "publish"
     /\ settled' = [settled EXCEPT ![r] = Append(@, call[c].event)]
     /\ Return(c)
     /\ UNCHANGED <<request, book, filing, ghost>>

\* The new allocation an adjustment may set, and two bugs.
AdjustUnchecked(k, n) == TRUE
AdjustBelowUsed(k, n) == 0 <= n
AdjustGate(k, n) == 0 <= n /\ used[k] <= n

\* adjust_balance: one transaction on the locked, or just minted, row.
AdjustBalance(k, delta) ==
  /\ allocated[k] + delta <= MaxAllocated
  /\ AdjustGate(k, allocated[k] + delta)
  /\ minted' = minted \cup {k}
  /\ allocated' = [allocated EXCEPT ![k] = @ + delta]
  /\ UNCHANGED <<request, used, filing, call, settled, ghost>>

\* The engine decides once; a refusal is sticky.
EngineDecides(r) ==
  /\ filing[r] = "pending"
  /\ \E v \in {"approved", "rejected", "cancelled"} :
       filing' = [filing EXCEPT ![r] = v]
  /\ UNCHANGED <<request, book, call, settled, ghost>>

\* The process dies, or the client hangs up and the handler's future is
\* dropped: an open transaction rolls back and nothing more is done.
Crash(c) ==
  /\ call[c].pc # "idle"
  /\ Return(c)
  /\ UNCHANGED <<request, book, filing, settled, ghost>>

-----------------------------------------------------------------------------
\* The steps a call takes once it has begun.
Continue(c) ==
  \/ SubmitInsert(c)
  \/ SubmitOutright(c)
  \/ SubmitInsertFails(c)
  \/ ApproveVerdict(c)
  \/ ApproveCommit(c)
  \/ ApproveRollback(c)
  \/ CancelPending(c)
  \/ CancelApproved(c)
  \/ CancelRollback(c)
  \/ Publish(c)

Begin(c) ==
  \/ \E r \in Requests, t \in Terms : SubmitFile(c, r, t)
  \/ \E r \in Requests : ApproveRead(c, r)
  \/ \E r \in Requests : Reject(c, r)
  \/ \E r \in Requests : CancelRead(c, r)

SteadyNext ==
  \/ \E c \in Callers : Begin(c)
  \/ \E c \in Callers : Continue(c)
  \/ \E r \in Requests : SubmitFileFails(r)
  \/ \E k \in Keys, delta \in Deltas : AdjustBalance(k, delta)
  \/ \E r \in Requests : EngineDecides(r)

Next == SteadyNext \/ \E c \in Callers : Crash(c)

\* The guarded deployment: read routes and the verbs, nothing else writes.
Spec == Init /\ [][Next]_vars

\* A handler that has begun runs to its end.
Fairness == \A c \in Callers : WF_vars(Continue(c))

FairSpec == Init /\ [][SteadyNext]_vars /\ Fairness

-----------------------------------------------------------------------------
(* Properties.                                                             *)

\* Every variable keeps its type.
TypeOK ==
  /\ request \in [Requests -> Rows]
  /\ minted \subseteq Keys
  /\ allocated \in [Keys -> 0 .. MaxAllocated]
  /\ used \in [Keys -> Int]
  /\ filing \in [Requests -> Verdicts]
  /\ call \in [Callers -> Calls]
  /\ settled \in [Requests -> Seq(Events)]
  /\ outright \subseteq Requests
  /\ drawn \in [Requests -> Terms \cup {None}]

\* The draw invariant (hook rule TR1): whatever approvals, cancels and
\* adjustments interleave, no balance is overdrawn and none goes below zero.
NeverOverdrawn == \A k \in Keys : 0 <= used[k] /\ used[k] <= allocated[k]

\* The ledger behind `used`: a balance's used days are exactly what the
\* requests that stand approved drew, so no draw is lost, doubled or kept by a
\* request that was cancelled.
UsedIsWhatApprovalsDrew ==
  \A k \in Keys :
    used[k] = MapThenSumSet(LAMBDA r : Days(drawn[r]),
                {r \in Requests : request[r].status = "approved" /\ drawn[r].key = k})

\* Hook rule TR3a: an approved request keeps the terms its balance was drawn
\* for, the snapshot its approval read included; a cancel that derives the
\* days again from the row then gives back what was drawn.
ApprovedKeepsDrawnTerms ==
  \A r \in Requests : request[r].status = "approved" => request[r].terms = drawn[r]

\* A cancel of a request that is still approved is never refused its restore,
\* however its snapshot aged (CannotRestoreBalance is for tampered rows).
RestoreNeverRefused ==
  \A c \in Callers :
    call[c].pc = "cancel_approved" /\ request[call[c].req].status = "approved"
      => CanRestore(call[c].terms)

\* The gates of draw and restore decide alone: a statement they let through
\* never runs into a CHECK of the table, which would answer a raw database
\* error in place of the domain error.
GatesPreemptChecks ==
  \A c \in Callers :
    /\ call[c].pc = "approve" /\ DrawGate(call[c].terms) => CanDraw(call[c].terms)
    /\ call[c].pc = "cancel_approved" /\ RestoreGate(call[c].terms)
         => CanRestore(call[c].terms)

\* Hook rule TR2: an approval linked into the engine is granted only by the
\* engine, although the verdict is read before the transaction, and under a
\* wired port no request exists without its filing.
GrantedByTheEngine ==
  \A r \in Requests :
    /\ Wired /\ request[r].status # "absent" => request[r].link = r /\ filing[r] # "none"
    /\ drawn[r] # None /\ request[r].link # None => filing[r] = "approved"

\* "The request never sits pending with a granted approval behind it": no row
\* is left behind by a submit whose filing the engine approved outright.
OutrightNeverPending ==
  \A r \in outright : request[r].status # "pending"

\* The announcement an outcome is due.
Outcome(r) ==
  CASE request[r].status = "rejected"  -> {"refused"}
    [] request[r].status = "cancelled" -> {"cancelled"}
    [] OTHER -> {}

\* A verb that rolled back emits nothing, and none emits twice: an event was
\* committed before it was published, and an outcome is published once.
EventsFollowTheBook ==
  \A r \in Requests :
    \A i \in DOMAIN settled[r] :
      /\ settled[r][i].settlement \in Outcome(r)
           \cup (IF drawn[r] = None THEN {} ELSE {"approved", "voided"})
      /\ \A j \in DOMAIN settled[r] :
           settled[r][i].settlement = settled[r][j].settlement => i = j

\* A grant announces the window and part that were drawn, and is announced as
\* voided exactly when it drew nothing.
GrantsAnnounceTheDraw ==
  \A r \in Requests :
    \A i \in DOMAIN settled[r] :
      LET e == settled[r][i]
          t == drawn[r]
      IN e.settlement \in {"approved", "voided"} =>
           /\ <<e.part, e.from, e.to>> = <<t.part, t.from, t.to>>
           /\ e.settlement = "voided" <=> Days(t) = 0

\* Has r been announced with one of the settlements S?
Announced(r, S) == \E i \in DOMAIN settled[r] : settled[r][i].settlement \in S

\* "Every settling verb publishes exactly one LeaveSettled after its commit":
\* what a verb committed is eventually announced.
OutcomesAreAnnounced ==
  \A r \in Requests :
    /\ drawn[r] # None ~> Announced(r, {"approved", "voided"})
    /\ request[r].status = "rejected" ~> Announced(r, {"refused"})
    /\ request[r].status = "cancelled" ~> Announced(r, {"cancelled"})

\* An approval the engine gave outright "settles in the same transaction" as
\* the submit that filed it, when the balance covers it.
OutrightSettles ==
  \A r \in Requests :
    (\E c \in Callers :
       call[c].pc = "insert_outright" /\ call[c].req = r /\ CanDraw(call[c].terms))
      ~> request[r].status = "approved"

\* The verbs, with their snapshots, races and crashes, implement the book in
\* which a request is decided and its balance moved in one step.
Book == INSTANCE LeaveBook WITH
  KeyOf       <- [t \in Terms |-> t.key],
  Amount      <- [t \in Terms |-> Days(t)],
  Allocations <- 0 .. MaxAllocated,
  state       <- [r \in Requests |-> request[r].status],
  asked       <- [r \in Requests |-> request[r].terms],
  allocation  <- allocated,
  taken       <- used

ImplementsBook == Book!Spec
=============================================================================
