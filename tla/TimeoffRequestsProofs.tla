----------------------- MODULE TimeoffRequestsProofs -----------------------
(***************************************************************************)
(* The safety of TimeoffRequests, proved for every set of requests,        *)
(* callers, keys and terms, with crashes: the inductive invariant and what *)
(* follows from it, the ledger behind `used`, what is announced, and that  *)
(* the verbs implement LeaveBook.                                          *)
(***************************************************************************)
EXTENDS TimeoffRequests, FiniteSums, TLAPS

Inserting == {"insert", "insert_outright"}
Holding   == {"verdict", "approve", "cancel_pending", "cancel_approved"}

\* A row and what it stands on: the terms a submit accepted, the filing that
\* tracks it, the draw its approval made.
RowInv(r) ==
  /\ request[r].status = "absent" => request[r] = Absent
  /\ request[r].status # "absent" =>
       /\ request[r].terms \in Terms /\ Submittable(request[r].terms)
       /\ request[r].link = IF Wired THEN r ELSE None
       /\ Wired => filing[r] # "none"
       /\ r \notin outright
  /\ request[r].status \in {"absent", "pending", "rejected"} => drawn[r] = None
  /\ request[r].status = "approved" => drawn[r] = request[r].terms
  /\ drawn[r] # None /\ Wired => filing[r] = "approved"
  /\ r \in outright => filing[r] # "none"

\* A call and what it holds: the terms and the link of the row it read still
\* are the row's own, and a verdict that let it go on still stands.
CallInv(c) ==
  LET pc == call[c].pc
      r  == call[c].req
  IN /\ pc = "idle" => call[c] = Idle
     /\ pc # "idle" => r \in Requests
     /\ pc = "publish" => call[c].event \in Events
     /\ pc \in Inserting =>
          /\ request[r].status = "absent"
          /\ call[c].terms \in Terms /\ Submittable(call[c].terms)
          /\ call[c].link = IF Wired THEN r ELSE None
          /\ Wired => filing[r] # "none"
     /\ pc = "insert" => r \notin outright
     /\ pc \in Holding =>
          request[r].status # "absent" /\ call[c].terms = request[r].terms
     /\ pc = "verdict" => call[c].link = r
     /\ pc = "approve" /\ Wired => filing[r] = "approved"

\* One submit per id.
OneInsert ==
  \A c, d \in Callers :
    /\ call[c].pc \in Inserting
    /\ call[d].pc # "idle"
    /\ call[c].req = call[d].req
    => c = d

Inv ==
  /\ TypeOK
  /\ \A r \in Requests : RowInv(r)
  /\ \A c \in Callers : CallInv(c)
  /\ OneInsert
  /\ NeverOverdrawn
-----------------------------------------------------------------------------
(* What the terms of an ask are worth.                                     *)

\* Terms are well formed: a key, a part, two days, and an integer number of half
\* days between them.
LEMMA TermsFacts ==
  ASSUME NEW t \in Terms
  PROVE  /\ t.key \in Keys
         /\ t.part \in Parts
         /\ t.from \in Int /\ t.to \in Int
         /\ Days(t) \in Int
         /\ t # None
BY TermsAssumption, NoneAssumption DEF Days

\* An ask a submit accepts draws at least half a day.
LEMMA SubmittableDraws ==
  ASSUME NEW t \in Terms, Submittable(t)
  PROVE  Days(t) \in Int /\ Days(t) >= 1
BY TermsFacts DEF Submittable, Days

\* What an approval announces is a LeaveSettled event.
LEMMA GrantIsEvent ==
  ASSUME NEW t \in Terms
  PROVE  Grant(t) \in Events
BY TermsFacts DEF Grant, Event, Events, Settlements

\* So is what a refusal or a cancel announces.
LEMMA AnnouncementIsEvent ==
  ASSUME NEW t \in Terms, NEW s \in Settlements
  PROVE  Announcement(s, t) \in Events
BY TermsFacts DEF Announcement, Event, Events, Parts

\* A status UPDATE leaves the rows rows: it touches one column.
LEMMA SetStatusType ==
  ASSUME request \in [Requests -> Rows], NEW r \in Requests, NEW s \in Statuses,
         SetStatus(r, s)
  PROVE  request' \in [Requests -> Rows]
<1>1. request[r] \in Rows /\ [request[r] EXCEPT !.status = s] \in Rows
  BY DEF Rows
<1>. QED  BY <1>1 DEF SetStatus

-----------------------------------------------------------------------------
\* The empty tables satisfy the invariant.
THEOREM InitInv == Init => Inv
BY BalanceAssumption, SeamAssumption, NoneAssumption
   DEF Init, Inv, TypeOK, RowInv, CallInv, OneInsert, NeverOverdrawn, Absent, Idle,
       Rows, Calls, Statuses, Verdicts, PCs, Inserting, Holding

\* A call that ends without touching a row: every rollback, and the crash.
LEMMA ReturnInv ==
  ASSUME Inv, NEW c \in Callers, Return(c),
         UNCHANGED <<request, book, filing, settled, ghost>>
  PROVE  Inv'
<1>. USE DEF Return, book, ghost
<1>1. TypeOK'
  BY DEF Inv, TypeOK, Idle, Calls, PCs
<1>2. \A r \in Requests : RowInv(r)'
  BY DEF Inv, RowInv
<1>3. \A d \in Callers : CallInv(d)'
  BY DEF Inv, TypeOK, CallInv, Idle, Inserting, Holding
<1>4. OneInsert'
  BY DEF Inv, TypeOK, OneInsert, Idle, Inserting
<1>5. NeverOverdrawn'
  BY DEF Inv, NeverOverdrawn
<1>. QED  BY <1>1, <1>2, <1>3, <1>4, <1>5 DEF Inv

\* Validating and filing a submit: the caller now holds a fresh id, terms that
\* passed the checks, and the link of the filing.
LEMMA SubmitFileInv ==
  ASSUME Inv, NEW c \in Callers, NEW r \in Requests, NEW t \in Terms,
         SubmitFile(c, r, t)
  PROVE  Inv'
<1>. USE DEF SubmitFile, Start, book, ghost
<1>0. /\ request'= request /\ book' = book /\ settled' = settled /\ drawn' = drawn
      /\ Fresh(r) /\ Submittable(t) /\ call[c].pc = "idle"
      /\ \E pc \in Inserting :
           call' = [call EXCEPT ![c] = [pc |-> pc, req |-> r, terms |-> t,
                      link |-> IF Wired THEN r ELSE None, event |-> None]]
      /\ \E v \in Verdicts :
           /\ filing' = [filing EXCEPT ![r] = v]
           /\ Wired => v # "none"
      /\ outright' \in {outright, outright \cup {r}}
      /\ call'[c].pc = "insert" => outright' = outright
      /\ outright' # outright => Wired
  BY SeamAssumption DEF Inv, TypeOK, Inserting, Verdicts, Fresh
<1>1. TypeOK'
  BY <1>0 DEF Inv, TypeOK, Calls, PCs, Inserting
<1>2. \A q \in Requests : RowInv(q)'
  BY <1>0 DEF Inv, TypeOK, RowInv, Fresh, Absent
<1>3. \A d \in Callers : CallInv(d)'
  <2>1. CallInv(c)'
    BY <1>0 DEF Inv, TypeOK, CallInv, RowInv, Fresh, Inserting, Holding
  <2>2. ASSUME NEW d \in Callers, d # c  PROVE CallInv(d)'
    BY <1>0, <2>2 DEF Inv, TypeOK, CallInv, RowInv, Fresh, Inserting, Holding
  <2>. QED  BY <2>1, <2>2
<1>4. OneInsert'
  BY <1>0 DEF Inv, TypeOK, OneInsert, Inserting, Fresh
<1>5. NeverOverdrawn'
  BY <1>0 DEF Inv, NeverOverdrawn
<1>. QED  BY <1>1, <1>2, <1>3, <1>4, <1>5 DEF Inv

\* A filing whose receipt is lost: only the engine remembers it.
LEMMA SubmitFileFailsInv ==
  ASSUME Inv, NEW r \in Requests, SubmitFileFails(r)
  PROVE  Inv'
<1>. USE DEF SubmitFileFails, book, ghost
<1>1. TypeOK'
  BY DEF Inv, TypeOK, Verdicts
<1>2. \A q \in Requests : RowInv(q)'
  BY DEF Inv, TypeOK, RowInv, Fresh, Absent
<1>3. \A d \in Callers : CallInv(d)'
  BY DEF Inv, TypeOK, CallInv, Fresh, Inserting, Holding
<1>4. OneInsert'
  BY DEF Inv, OneInsert
<1>5. NeverOverdrawn'
  BY DEF Inv, NeverOverdrawn
<1>. QED  BY <1>1, <1>2, <1>3, <1>4, <1>5 DEF Inv

\* The insert of a submit: the row takes over what its caller held.
LEMMA SubmitInsertInv ==
  ASSUME Inv, NEW c \in Callers, SubmitInsert(c)
  PROVE  Inv'
<1>. DEFINE r == call[c].req
<1>. USE DEF SubmitInsert, Return, Pending, book, ghost
<1>0. /\ r \in Requests /\ request[r].status = "absent" /\ r \notin outright
      /\ call[c].terms \in Terms /\ Submittable(call[c].terms)
      /\ call[c].link = IF Wired THEN r ELSE None
      /\ Wired => filing[r] # "none"
      /\ \A d \in Callers : d # c /\ call[d].pc # "idle" => call[d].req # r
  BY DEF Inv, CallInv, Inserting, OneInsert
<1>1. TypeOK'
  BY <1>0 DEF Inv, TypeOK, Rows, Statuses, Idle, Calls, PCs
<1>2. \A q \in Requests : RowInv(q)'
  BY <1>0 DEF Inv, TypeOK, RowInv, Absent
<1>3. \A d \in Callers : CallInv(d)'
  <2>1. CallInv(c)'
    BY DEF Inv, TypeOK, CallInv, Idle, Inserting, Holding
  <2>2. ASSUME NEW d \in Callers, d # c  PROVE CallInv(d)'
    BY <1>0, <2>2 DEF Inv, TypeOK, CallInv, Inserting, Holding
  <2>. QED  BY <2>1, <2>2
<1>4. OneInsert'
  BY DEF Inv, TypeOK, OneInsert, Idle, Inserting
<1>5. NeverOverdrawn'
  BY DEF Inv, NeverOverdrawn
<1>. QED  BY <1>1, <1>2, <1>3, <1>4, <1>5 DEF Inv

\* The snapshot of an approval is the row itself.
LEMMA ApproveReadInv ==
  ASSUME Inv, NEW c \in Callers, NEW r \in Requests, ApproveRead(c, r)
  PROVE  Inv'
<1>. USE DEF ApproveRead, Start, Snapshot, Live, book, ghost
<1>0. /\ request[r].terms \in Terms /\ Submittable(request[r].terms)
      /\ request[r].link = IF Wired THEN r ELSE None
  BY DEF Inv, RowInv
<1>1. TypeOK'
  BY <1>0 DEF Inv, TypeOK, Calls, PCs
<1>2. \A q \in Requests : RowInv(q)'
  BY DEF Inv, RowInv
<1>3. \A d \in Callers : CallInv(d)'
  <2>1. CallInv(c)'
    BY <1>0, NoneAssumption DEF Inv, TypeOK, CallInv, Inserting, Holding
  <2>2. ASSUME NEW d \in Callers, d # c  PROVE CallInv(d)'
    BY <2>2 DEF Inv, TypeOK, CallInv, Inserting, Holding
  <2>. QED  BY <2>1, <2>2
<1>4. OneInsert'
  BY DEF Inv, TypeOK, CallInv, OneInsert, Inserting
<1>5. NeverOverdrawn'
  BY DEF Inv, NeverOverdrawn
<1>. QED  BY <1>1, <1>2, <1>3, <1>4, <1>5 DEF Inv

\* The verdict an approval goes on with: approved is final on the engine's side.
LEMMA ApproveVerdictInv ==
  ASSUME Inv, NEW c \in Callers, ApproveVerdict(c)
  PROVE  Inv'
<1>1. CASE Return(c)
  BY <1>1, ReturnInv DEF ApproveVerdict
<1>2. CASE EngineGranted(call[c].link) /\ Proceed(c, "approve")
  <2>. USE <1>2 DEF ApproveVerdict, EngineGranted, Proceed, book, ghost
  <2>1. TypeOK'
    <3>1. call[c] \in Calls /\ call' = [call EXCEPT ![c].pc = "approve"]
      BY DEF Inv, TypeOK
    <3>2. [call[c] EXCEPT !.pc = "approve"] \in Calls
      BY <3>1 DEF Calls, PCs
    <3>3. call' \in [Callers -> Calls]
      BY <3>1, <3>2 DEF Inv, TypeOK
    <3> QED BY <3>3 DEF Inv, TypeOK
  <2>2. \A q \in Requests : RowInv(q)'
    BY DEF Inv, RowInv
  <2>3. \A d \in Callers : CallInv(d)'
    <3>1. CallInv(c)'
      BY DEF Inv, TypeOK, CallInv, Inserting, Holding
    <3>2. ASSUME NEW d \in Callers, d # c  PROVE CallInv(d)'
      BY <3>2 DEF Inv, TypeOK, CallInv, Inserting, Holding
    <3>. QED  BY <3>1, <3>2
  <2>4. OneInsert'
    BY DEF Inv, TypeOK, OneInsert, Inserting
  <2>5. NeverOverdrawn'
    BY DEF Inv, NeverOverdrawn
  <2>. QED  BY <2>1, <2>2, <2>3, <2>4, <2>5 DEF Inv
<1>. QED  BY <1>1, <1>2 DEF ApproveVerdict

\* The approval's transaction: gate and draw keep the balance within its
\* allocation, and the row records what was drawn.
LEMMA ApproveCommitInv ==
  ASSUME Inv, NEW c \in Callers, ApproveCommit(c)
  PROVE  Inv'
<1>. DEFINE r == call[c].req
            t == call[c].terms
<1>. USE DEF ApproveCommit, ThenPublish, SetStatus, Draw, ApproveGate, book, ghost
<1>0. /\ r \in Requests /\ request[r].status = "pending" /\ request[r].terms = t
      /\ t \in Terms /\ Submittable(t)
      /\ Wired => filing[r] = "approved"
      /\ CanDraw(t)
  BY DEF Inv, CallInv, RowInv, Holding
<1>a. t.key \in Keys /\ Days(t) \in Int /\ Days(t) >= 1 /\ Grant(t) \in Events /\ t # None
  BY <1>0, TermsFacts, SubmittableDraws, GrantIsEvent
<1>1. TypeOK'
  <2>1. request' \in [Requests -> Rows]
    BY <1>0, SetStatusType DEF Inv, TypeOK, Statuses
  <2>2. call' \in [Callers -> Calls]
    BY <1>0, <1>a DEF Inv, TypeOK, Calls, PCs
  <2>3. used' \in [Keys -> Int]
    BY <1>0, <1>a DEF Inv, TypeOK
  <2>. QED  BY <1>0, <2>1, <2>2, <2>3 DEF Inv, TypeOK
<1>2. \A q \in Requests : RowInv(q)'
  BY <1>0, <1>a DEF Inv, TypeOK, RowInv, Absent
<1>3. \A d \in Callers : CallInv(d)'
  <2>1. CallInv(c)'
    BY <1>0, <1>a DEF Inv, TypeOK, CallInv, Inserting, Holding
  <2>2. ASSUME NEW d \in Callers, d # c  PROVE CallInv(d)'
    BY <1>0, <2>2 DEF Inv, TypeOK, CallInv, Inserting, Holding
  <2>. QED  BY <2>1, <2>2
<1>4. OneInsert'
  BY <1>0 DEF Inv, TypeOK, CallInv, OneInsert, Inserting
<1>5. NeverOverdrawn'
  BY <1>0, <1>a DEF Inv, TypeOK, NeverOverdrawn, CanDraw, ChecksHold
<1>. QED  BY <1>1, <1>2, <1>3, <1>4, <1>5 DEF Inv

\* The refusal of a pending request.
LEMMA RejectInv ==
  ASSUME Inv, NEW c \in Callers, NEW r \in Requests, Reject(c, r)
  PROVE  Inv'
<1>. DEFINE e == Announcement("refused", request[r].terms)
<1>. USE DEF Reject, RejectGate, Live, ThenPublish, SetStatus, book, ghost
<1>0. request[r].status = "pending" /\ e \in Events
  BY AnnouncementIsEvent DEF Inv, RowInv, Settlements
<1>1. TypeOK'
  <2>1. request' \in [Requests -> Rows]
    BY <1>0, SetStatusType DEF Inv, TypeOK, Statuses
  <2>2. call' \in [Callers -> Calls]
    BY <1>0 DEF Inv, TypeOK, Calls, PCs
  <2>. QED  BY <2>1, <2>2 DEF Inv, TypeOK
<1>2. \A q \in Requests : RowInv(q)'
  BY <1>0 DEF Inv, TypeOK, RowInv, Absent
<1>3. \A d \in Callers : CallInv(d)'
  <2>1. CallInv(c)'
    BY <1>0 DEF Inv, TypeOK, CallInv, Inserting, Holding
  <2>2. ASSUME NEW d \in Callers, d # c  PROVE CallInv(d)'
    BY <1>0, <2>2 DEF Inv, TypeOK, CallInv, Inserting, Holding
  <2>. QED  BY <2>1, <2>2
<1>4. OneInsert'
  BY <1>0 DEF Inv, TypeOK, CallInv, OneInsert, Inserting
<1>5. NeverOverdrawn'
  BY DEF Inv, NeverOverdrawn
<1>. QED  BY <1>1, <1>2, <1>3, <1>4, <1>5 DEF Inv

\* The snapshot of a cancel is the row itself, whichever branch it takes.
LEMMA CancelReadInv ==
  ASSUME Inv, NEW c \in Callers, NEW r \in Requests, CancelRead(c, r)
  PROVE  Inv'
<1>. USE DEF CancelRead, Start, Live, book, ghost
<1>0. request[r].terms \in Terms /\ Submittable(request[r].terms)
  BY DEF Inv, RowInv
<1>1. TypeOK'
  BY <1>0 DEF Inv, TypeOK, Calls, PCs
<1>2. \A q \in Requests : RowInv(q)'
  BY DEF Inv, RowInv
<1>3. \A d \in Callers : CallInv(d)'
  <2>1. CallInv(c)'
    BY <1>0 DEF Inv, TypeOK, CallInv, Inserting, Holding
  <2>2. ASSUME NEW d \in Callers, d # c  PROVE CallInv(d)'
    BY <2>2 DEF Inv, TypeOK, CallInv, Inserting, Holding
  <2>. QED  BY <2>1, <2>2
<1>4. OneInsert'
  BY DEF Inv, TypeOK, CallInv, OneInsert, Inserting
<1>5. NeverOverdrawn'
  BY DEF Inv, NeverOverdrawn
<1>. QED  BY <1>1, <1>2, <1>3, <1>4, <1>5 DEF Inv

\* The cancel of a request that is still pending.
LEMMA CancelPendingInv ==
  ASSUME Inv, NEW c \in Callers, CancelPending(c)
  PROVE  Inv'
<1>. DEFINE r == call[c].req
            e == Announcement("cancelled", call[c].terms)
<1>. USE DEF CancelPending, CancelPendingGate, ThenPublish, SetStatus, book, ghost
<1>0. r \in Requests /\ request[r].status = "pending" /\ e \in Events
  BY AnnouncementIsEvent DEF Inv, CallInv, RowInv, Holding, Settlements
<1>1. TypeOK'
  <2>1. request' \in [Requests -> Rows]
    BY <1>0, SetStatusType DEF Inv, TypeOK, Statuses
  <2>2. call' \in [Callers -> Calls]
    BY <1>0 DEF Inv, TypeOK, Calls, PCs
  <2>. QED  BY <2>1, <2>2 DEF Inv, TypeOK
<1>2. \A q \in Requests : RowInv(q)'
  BY <1>0 DEF Inv, TypeOK, RowInv, Absent
<1>3. \A d \in Callers : CallInv(d)'
  <2>1. CallInv(c)'
    BY <1>0 DEF Inv, TypeOK, CallInv, Inserting, Holding
  <2>2. ASSUME NEW d \in Callers, d # c  PROVE CallInv(d)'
    BY <1>0, <2>2 DEF Inv, TypeOK, CallInv, Inserting, Holding
  <2>. QED  BY <2>1, <2>2
<1>4. OneInsert'
  BY <1>0 DEF Inv, TypeOK, CallInv, OneInsert, Inserting
<1>5. NeverOverdrawn'
  BY DEF Inv, NeverOverdrawn
<1>. QED  BY <1>1, <1>2, <1>3, <1>4, <1>5 DEF Inv

\* The cancel of an approved request: the restore keeps `used` from below zero.
LEMMA CancelApprovedInv ==
  ASSUME Inv, NEW c \in Callers, CancelApproved(c)
  PROVE  Inv'
<1>. DEFINE r == call[c].req
            t == call[c].terms
            e == Announcement("cancelled", t)
<1>. USE DEF CancelApproved, CancelApprovedGate, ThenPublish, SetStatus, book, ghost
<1>0. /\ r \in Requests /\ request[r].status = "approved"
      /\ t \in Terms /\ Submittable(t) /\ CanRestore(t)
  BY DEF Inv, CallInv, RowInv, Holding
<1>a. t.key \in Keys /\ Days(t) \in Int /\ Days(t) >= 1 /\ e \in Events
  BY <1>0, TermsFacts, SubmittableDraws, AnnouncementIsEvent DEF Settlements
<1>1. TypeOK'
  <2>1. request' \in [Requests -> Rows]
    BY <1>0, SetStatusType DEF Inv, TypeOK, Statuses
  <2>2. call' \in [Callers -> Calls]
    BY <1>0, <1>a DEF Inv, TypeOK, Calls, PCs
  <2>3. used' \in [Keys -> Int]
    BY <1>0, <1>a DEF Inv, TypeOK
  <2>. QED  BY <2>1, <2>2, <2>3 DEF Inv, TypeOK
<1>2. \A q \in Requests : RowInv(q)'
  BY <1>0, <1>a DEF Inv, TypeOK, RowInv, Absent
<1>3. \A d \in Callers : CallInv(d)'
  <2>1. CallInv(c)'
    BY <1>0, <1>a DEF Inv, TypeOK, CallInv, Inserting, Holding
  <2>2. ASSUME NEW d \in Callers, d # c  PROVE CallInv(d)'
    BY <1>0, <2>2 DEF Inv, TypeOK, CallInv, Inserting, Holding
  <2>. QED  BY <2>1, <2>2
<1>4. OneInsert'
  BY <1>0 DEF Inv, TypeOK, CallInv, OneInsert, Inserting
<1>5. NeverOverdrawn'
  BY <1>0, <1>a DEF Inv, TypeOK, NeverOverdrawn, CanRestore, ChecksHold
<1>. QED  BY <1>1, <1>2, <1>3, <1>4, <1>5 DEF Inv

\* The publication after a commit adds a well-formed event.
LEMMA PublishInv ==
  ASSUME Inv, NEW c \in Callers, Publish(c)
  PROVE  Inv'
<1>. DEFINE r == call[c].req
<1>. USE DEF Publish, Return, book, ghost
<1>0. r \in Requests /\ call[c].event \in Events
  BY DEF Inv, CallInv
<1>1. TypeOK'
  <2>1. settled' \in [Requests -> Seq(Events)]
    BY <1>0 DEF Inv, TypeOK
  <2>. QED  BY <2>1 DEF Inv, TypeOK, Idle, Calls, PCs
<1>2. \A q \in Requests : RowInv(q)'
  BY DEF Inv, RowInv
<1>3. \A d \in Callers : CallInv(d)'
  BY DEF Inv, TypeOK, CallInv, Idle, Inserting, Holding
<1>4. OneInsert'
  BY DEF Inv, TypeOK, OneInsert, Idle, Inserting
<1>5. NeverOverdrawn'
  BY DEF Inv, NeverOverdrawn
<1>. QED  BY <1>1, <1>2, <1>3, <1>4, <1>5 DEF Inv

\* An adjustment never takes the allocation below what is used.
LEMMA AdjustBalanceInv ==
  ASSUME Inv, NEW k \in Keys, NEW delta \in Deltas, AdjustBalance(k, delta)
  PROVE  Inv'
<1>. USE DEF AdjustBalance, AdjustGate, ghost
<1>0. allocated[k] + delta \in 0 .. MaxAllocated /\ used[k] <= allocated[k] + delta
  BY BalanceAssumption DEF Inv, TypeOK
<1>1. TypeOK'
  BY <1>0 DEF Inv, TypeOK
<1>2. \A q \in Requests : RowInv(q)'
  BY DEF Inv, RowInv
<1>3. \A d \in Callers : CallInv(d)'
  BY DEF Inv, CallInv
<1>4. OneInsert'
  BY DEF Inv, OneInsert
<1>5. NeverOverdrawn'
  BY <1>0 DEF Inv, TypeOK, NeverOverdrawn
<1>. QED  BY <1>1, <1>2, <1>3, <1>4, <1>5 DEF Inv

\* A decision of the engine leaves every approved filing approved.
LEMMA EngineDecidesInv ==
  ASSUME Inv, NEW r \in Requests, EngineDecides(r)
  PROVE  Inv'
<1>. USE DEF EngineDecides, book, ghost
<1>1. TypeOK'
  BY DEF Inv, TypeOK, Verdicts
<1>2. \A q \in Requests : RowInv(q)'
  BY DEF Inv, TypeOK, RowInv, Absent
<1>3. \A d \in Callers : CallInv(d)'
  BY DEF Inv, TypeOK, CallInv, Inserting, Holding
<1>4. OneInsert'
  BY DEF Inv, OneInsert
<1>5. NeverOverdrawn'
  BY DEF Inv, NeverOverdrawn
<1>. QED  BY <1>1, <1>2, <1>3, <1>4, <1>5 DEF Inv

\* Every step of every caller, of the engine and of a crash keeps the invariant.
THEOREM NextInv == Inv /\ [Next]_vars => Inv'
<1>. SUFFICES ASSUME Inv, [Next]_vars  PROVE Inv'
  OBVIOUS
<1>1. ASSUME NEW c \in Callers, Begin(c)  PROVE Inv'
  BY <1>1, SubmitFileInv, ApproveReadInv, RejectInv, CancelReadInv DEF Begin
<1>2. ASSUME NEW c \in Callers, Continue(c)  PROVE Inv'
  <2>1. CASE SubmitOutright(c) \/ SubmitInsertFails(c) \/ ApproveRollback(c) \/ CancelRollback(c)
    BY <2>1, ReturnInv
       DEF SubmitOutright, SubmitInsertFails, ApproveRollback, CancelRollback
  <2>. QED
    BY <1>2, <2>1, SubmitInsertInv, ApproveVerdictInv, ApproveCommitInv, CancelPendingInv,
       CancelApprovedInv, PublishInv DEF Continue
<1>3. ASSUME NEW c \in Callers, Crash(c)  PROVE Inv'
  BY <1>3, ReturnInv DEF Crash
<1>4. CASE UNCHANGED vars
  BY <1>4 DEF vars, book, ghost, Inv, TypeOK, RowInv, CallInv, OneInsert, NeverOverdrawn
<1>. QED
  BY <1>1, <1>2, <1>3, <1>4, SubmitFileFailsInv, AdjustBalanceInv, EngineDecidesInv
     DEF Next, SteadyNext

\* The invariant holds in every state the verbs can reach.
THEOREM InvAlways == Spec => []Inv
BY InitInv, NextInv, PTL DEF Spec

-----------------------------------------------------------------------------
(* What the invariant says of the system.                                  *)

\* Types are kept by every verb, racing, failing or dying.
THEOREM TypeCorrect == Spec => []TypeOK
BY InvAlways, PTL DEF Inv

\* Hook rule TR1, for every number of callers and every bound: the gates of
\* draw and restore and the check of adjust keep 0 <= used <= allocated.
THEOREM DrawInvariant == Spec => []NeverOverdrawn
BY InvAlways, PTL DEF Inv

\* Hook rule TR3a: with the terms out of every verb's reach, the snapshot an
\* approval drew from is what the row still says when it is cancelled.
THEOREM TermsFrozen == Spec => []ApprovedKeepsDrawnTerms
<1>1. Inv => ApprovedKeepsDrawnTerms
  BY DEF Inv, RowInv, ApprovedKeepsDrawnTerms
<1>. QED  BY <1>1, InvAlways, PTL

\* Hook rule TR2: no interleaving of verdicts, decisions and transactions
\* approves a request the engine did not grant.
THEOREM EngineHonored == Spec => []GrantedByTheEngine
<1>1. Inv => GrantedByTheEngine
  BY NoneAssumption DEF Inv, RowInv, GrantedByTheEngine, Absent
<1>. QED  BY <1>1, InvAlways, PTL

\* A filing approved outright leaves no row behind, pending or otherwise.
THEOREM OutrightLeavesNoRow == Spec => []OutrightNeverPending
<1>1. Inv => OutrightNeverPending
  BY DEF Inv, TypeOK, RowInv, OutrightNeverPending
<1>. QED  BY <1>1, InvAlways, PTL

\* Behind the verbs, what the gates let through the CHECKs accept.
THEOREM GatesSuffice == Spec => []GatesPreemptChecks
<1>1. ASSUME Inv, NEW c \in Callers, call[c].pc \in Holding
      PROVE  /\ DrawGate(call[c].terms) => CanDraw(call[c].terms)
             /\ RestoreGate(call[c].terms) => CanRestore(call[c].terms)
  <2>. DEFINE t == call[c].terms
  <2>1. t \in Terms /\ Submittable(t)
    BY <1>1 DEF Inv, CallInv, RowInv, Holding
  <2>2. t.key \in Keys /\ Days(t) \in Int /\ Days(t) >= 1
    BY <2>1, TermsFacts, SubmittableDraws
  <2>3. /\ used[t.key] \in Int /\ allocated[t.key] \in Int
        /\ 0 <= used[t.key] /\ used[t.key] <= allocated[t.key]
    BY <1>1, <2>2 DEF Inv, TypeOK, NeverOverdrawn
  <2>. QED  BY <2>2, <2>3 DEF DrawGate, CanDraw, RestoreGate, CanRestore, ChecksHold
<1>2. Inv => GatesPreemptChecks
  BY <1>1 DEF GatesPreemptChecks, Holding
<1>. QED  BY <1>2, InvAlways, PTL

-----------------------------------------------------------------------------
(* The ledger behind `used`.                                               *)

Standing(k) == {r \in Requests : request[r].status = "approved" /\ drawn[r].key = k}
DaysDrawn   == [r \in Requests |-> Days(drawn[r])]

\* The approvals of a key are finitely many, since each is a step, and `used` is
\* what they drew; what was drawn was drawn from a balance that exists.
Ledger ==
  /\ \A k \in Keys : IsFiniteSet(Standing(k)) /\ used[k] = Total(DaysDrawn, Standing(k))
  /\ \A r \in Requests : drawn[r] # None => drawn[r].key \in minted

\* The sum of the property is the sum of the function of days drawn.
LEMMA LedgerTotal ==
  ASSUME NEW S \in SUBSET Requests, IsFiniteSet(S)
  PROVE  MapThenSumSet(LAMBDA r : Days(drawn[r]), S) = Total(DaysDrawn, S)
<1> DEFINE G(f) == f = [s \in SUBSET S |->
                          IF s = {} THEN 0
                          ELSE Days(drawn[CHOOSE x \in s : TRUE]) + f[s \ {CHOOSE x \in s : TRUE}]]
<1>1. \A s \in SUBSET S : s # {} => DaysDrawn[Pick(s)] = Days(drawn[Pick(s)])
  BY PickIn DEF DaysDrawn
<1>2. \A f : Tallies(f, DaysDrawn, S) <=> G(f)
  BY <1>1 DEF Tallies, Pick
<1>3. \E f : G(f)
  <2> HIDE DEF G
  <2> QED BY <1>2, TalliesExist
<1>4. MapThenSumSet(LAMBDA r : Days(drawn[r]), S) = (CHOOSE f : G(f))[S]
  BY DEF MapThenSumSet, MapThenFoldSet
<1>5. G(CHOOSE f : G(f))
  <2> HIDE DEF G
  <2> QED BY <1>3
<1> HIDE DEF G
<1> QED BY <1>2, <1>4, <1>5, TotalTallies

\* A step that approves nothing and cancels no approval.
LEMMA LedgerKept ==
  ASSUME Ledger, UNCHANGED <<used, drawn>>, minted \subseteq minted',
         \A r \in Requests : request'[r].status = "approved" <=> request[r].status = "approved"
  PROVE  Ledger'
<1>1. \A k \in Keys : Standing(k)' = Standing(k)
  BY DEF Standing
<1>2. DaysDrawn' = DaysDrawn
  BY DEF DaysDrawn
<1> QED BY <1>1, <1>2 DEF Ledger

\* The draw of an approval is what its request adds to the sum.
LEMMA ApproveCommitLedger ==
  ASSUME Inv, Ledger, NEW c \in Callers, ApproveCommit(c)
  PROVE  Ledger'
<1> DEFINE r == call[c].req
           t == call[c].terms
<1>1. /\ r \in Requests /\ request[r].status = "pending" /\ t \in Terms
      /\ t.key \in Keys /\ Days(t) \in Int
  BY TermsFacts DEF Inv, CallInv, RowInv, Holding, ApproveCommit, ApproveGate
<1>2. /\ \A q \in Requests : request'[q].status = IF q = r THEN "approved" ELSE request[q].status
      /\ drawn' = [drawn EXCEPT ![r] = t] /\ minted' = minted /\ t.key \in minted
      /\ used' = [used EXCEPT ![t.key] = @ + Days(t)]
  BY <1>1 DEF ApproveCommit, SetStatus, Draw, CanDraw, DrawGate, Inv, TypeOK, Rows
<1>3. \A k \in Keys : Standing(k)' = IF k = t.key THEN Standing(k) \cup {r} ELSE Standing(k)
  BY <1>1, <1>2 DEF Standing, Inv, TypeOK
<1>4. \A k \in Keys : r \notin Standing(k)
  BY <1>1 DEF Standing
<1>5. \A q \in Requests : DaysDrawn'[q] = IF q = r THEN Days(t) ELSE DaysDrawn[q]
  BY <1>1, <1>2 DEF DaysDrawn, Inv, TypeOK
<1>6. ASSUME NEW k \in Keys
      PROVE  IsFiniteSet(Standing(k)) /\ Total(DaysDrawn', Standing(k)) = used[k]
             /\ \A q \in Standing(k) : DaysDrawn'[q] \in Int
  <2>1. \A q \in Standing(k) : DaysDrawn'[q] = DaysDrawn[q] /\ DaysDrawn[q] \in Int
    BY <1>4, <1>5, TermsFacts DEF Standing, DaysDrawn, Inv, RowInv
  <2>2. IsFiniteSet(Standing(k)) /\ Total(DaysDrawn, Standing(k)) = used[k]
    BY DEF Ledger
  <2> QED BY <2>1, <2>2, TotalSame
<1>7. ASSUME NEW k \in Keys
      PROVE  IsFiniteSet(Standing(k)') /\ used'[k] = Total(DaysDrawn', Standing(k)')
  <2>1. CASE k # t.key
    BY <1>1, <1>2, <1>3, <1>6, <2>1 DEF Inv, TypeOK
  <2>2. CASE k = t.key
    <3>1. IsFiniteSet(Standing(k) \cup {r})
      BY <1>6, FS_AddElement
    <3>2. DaysDrawn'[r] = Days(t)
      BY <1>1, <1>5
    <3>3. Total(DaysDrawn', Standing(k) \cup {r}) = Days(t) + used[k]
      BY <1>1, <1>4, <1>6, <3>2, TotalAdd
    <3>4. used'[k] = used[k] + Days(t) /\ used[k] \in Int
      BY <1>2, <2>2 DEF Inv, TypeOK
    <3>5. Standing(k)' = Standing(k) \cup {r}
      BY <1>3, <2>2
    <3>6. Total(DaysDrawn', Standing(k)') = used'[k]
      BY <1>1, <3>3, <3>4, <3>5
    <3> QED BY <3>1, <3>5, <3>6
  <2> QED BY <2>1, <2>2
<1>8. \A q \in Requests : drawn'[q] # None => drawn'[q].key \in minted'
  BY <1>1, <1>2 DEF Ledger, Inv, TypeOK
<1> QED BY <1>7, <1>8 DEF Ledger

\* The restore of a cancel is what its request takes from the sum.
LEMMA CancelApprovedLedger ==
  ASSUME Inv, Ledger, NEW c \in Callers, CancelApproved(c)
  PROVE  Ledger'
<1> DEFINE r == call[c].req
           t == call[c].terms
<1>1. /\ r \in Requests /\ request[r].status = "approved" /\ t \in Terms /\ drawn[r] = t
      /\ t.key \in Keys /\ Days(t) \in Int
  BY TermsFacts DEF Inv, CallInv, RowInv, Holding, CancelApproved, CancelApprovedGate
<1>2. /\ \A q \in Requests : request'[q].status = IF q = r THEN "cancelled" ELSE request[q].status
      /\ drawn' = drawn /\ minted' = minted
      /\ used' = [used EXCEPT ![t.key] = @ - Days(t)]
  BY <1>1 DEF CancelApproved, SetStatus, Inv, TypeOK, Rows, ghost
<1>3. \A k \in Keys : Standing(k)' = IF k = t.key THEN Standing(k) \ {r} ELSE Standing(k)
  BY <1>1, <1>2 DEF Standing
<1>4. DaysDrawn' = DaysDrawn /\ DaysDrawn[r] = Days(t)
  BY <1>1, <1>2 DEF DaysDrawn
<1>5. ASSUME NEW k \in Keys
      PROVE  IsFiniteSet(Standing(k)') /\ used'[k] = Total(DaysDrawn', Standing(k)')
  <2>1. /\ IsFiniteSet(Standing(k)) /\ used[k] = Total(DaysDrawn, Standing(k))
        /\ used[k] \in Int
    BY DEF Ledger, Inv, TypeOK
  <2>2. CASE k # t.key
    BY <1>1, <1>2, <1>3, <1>4, <2>1, <2>2 DEF Inv, TypeOK
  <2>3. CASE k = t.key
    <3>1. r \in Standing(k) /\ \A q \in Standing(k) : DaysDrawn[q] \in Int
      BY <1>1, <2>3, TermsFacts DEF Standing, DaysDrawn, Inv, RowInv
    <3>2. IsFiniteSet(Standing(k) \ {r})
      BY <2>1, FS_RemoveElement
    <3>3. Total(DaysDrawn, Standing(k)) = Days(t) + Total(DaysDrawn, Standing(k) \ {r})
      BY <1>4, <2>1, <3>1, TotalRemove
    <3>4. Total(DaysDrawn, Standing(k) \ {r}) \in Int
      BY <3>1, <3>2, TotalInt
    <3>5. used'[k] = used[k] - Days(t)
      BY <1>2, <2>3 DEF Inv, TypeOK
    <3>6. Standing(k)' = Standing(k) \ {r}
      BY <1>3, <2>3
    <3>7. Total(DaysDrawn', Standing(k)') = used'[k]
      BY <1>1, <1>4, <2>1, <3>3, <3>4, <3>5, <3>6
    <3> QED BY <3>2, <3>6, <3>7
  <2> QED BY <2>2, <2>3
<1>6. \A q \in Requests : drawn'[q] # None => drawn'[q].key \in minted'
  BY <1>2 DEF Ledger
<1> QED BY <1>5, <1>6 DEF Ledger

\* Every step keeps the ledger.
LEMMA NextLedger == Inv /\ Ledger /\ [Next]_vars => Ledger'
<1>. SUFFICES ASSUME Inv, Ledger, [Next]_vars  PROVE Ledger'
  OBVIOUS
<1>1. ASSUME UNCHANGED <<request, used, drawn>>, minted \subseteq minted' PROVE Ledger'
  BY <1>1, LedgerKept
<1>2. ASSUME NEW c \in Callers, SubmitInsert(c) PROVE Ledger'
  <2>1. call[c].req \in Requests /\ request[call[c].req].status = "absent"
    BY <1>2 DEF Inv, CallInv, SubmitInsert, Inserting
  <2> QED BY <1>2, <2>1, LedgerKept DEF SubmitInsert, Pending, book, ghost, Inv, TypeOK
<1>3. ASSUME NEW c \in Callers, NEW r \in Requests, NEW s,
             SetStatus(r, s), s # "approved", request[r].status = "pending",
             UNCHANGED <<book, ghost>>
      PROVE  Ledger'
  BY <1>3, LedgerKept DEF SetStatus, book, ghost, Inv, TypeOK, Rows
<1>4. ASSUME NEW c \in Callers, Begin(c) PROVE Ledger'
  BY <1>1, <1>3, <1>4 DEF Begin, SubmitFile, ApproveRead, Reject, RejectGate, CancelRead, book, ghost
<1>5. ASSUME NEW c \in Callers, CancelPending(c) PROVE Ledger'
  <2>1. call[c].req \in Requests
    BY <1>5 DEF Inv, CallInv, CancelPending
  <2> QED BY <1>3, <1>5, <2>1 DEF CancelPending, CancelPendingGate
<1>6. ASSUME NEW c \in Callers, Continue(c) PROVE Ledger'
  BY <1>1, <1>2, <1>5, <1>6, ApproveCommitLedger, CancelApprovedLedger
     DEF Continue, SubmitOutright, SubmitInsertFails, ApproveVerdict, ApproveRollback,
         CancelRollback, Publish, book, ghost
<1> QED
  BY <1>1, <1>4, <1>6 DEF Next, SteadyNext, SubmitFileFails, AdjustBalance, EngineDecides, Crash,
     vars, book, ghost

\* Ledger is an invariant of the verbs.
LEMMA LedgerAlways == Spec => []Ledger
<1>1. Init => Ledger
  <2>1. ASSUME Init, NEW k \in Keys PROVE Standing(k) = {} /\ used[k] = 0
    BY <2>1 DEF Init, Standing, Absent
  <2> QED BY <2>1, FS_EmptySet, TotalEmpty DEF Init, Ledger
<1> QED BY <1>1, NextLedger, InvAlways, PTL DEF Spec

\* The ledger, for any number of callers, requests and keys: no interleaving
\* loses a draw, doubles one, or keeps one for a request that was cancelled.
THEOREM LedgerBalances == Spec => []UsedIsWhatApprovalsDrew
<1>1. Ledger => UsedIsWhatApprovalsDrew
  <2>1. ASSUME Ledger, NEW k \in Keys
        PROVE  used[k] = MapThenSumSet(LAMBDA r : Days(drawn[r]), Standing(k))
    <3>1. Standing(k) \in SUBSET Requests
      BY DEF Standing
    <3> QED BY <2>1, <3>1, LedgerTotal DEF Ledger
  <2> QED BY <2>1 DEF UsedIsWhatApprovalsDrew, Standing
<1> QED BY <1>1, LedgerAlways, PTL

\* A cancel whose request stands approved is never refused: the days it gives
\* back are among those the sum holds, and the balance they came from exists.
THEOREM CancelsAreNeverRefused == Spec => []RestoreNeverRefused
<1>1. ASSUME Inv, Ledger, NEW c \in Callers,
             call[c].pc = "cancel_approved", request[call[c].req].status = "approved"
      PROVE  CanRestore(call[c].terms)
  <2> DEFINE r == call[c].req
             t == call[c].terms
             k == t.key
  <2>1. r \in Requests /\ t \in Terms /\ drawn[r] = t /\ t # None /\ k \in Keys
    BY <1>1, TermsFacts DEF Inv, CallInv, RowInv, Holding
  <2>2. \A q \in Standing(k) : DaysDrawn[q] \in Nat
    BY <1>1, SubmittableDraws DEF Inv, RowInv, Standing, DaysDrawn
  <2>3. {r} \in SUBSET Standing(k) /\ DaysDrawn[r] = Days(t) /\ r \in Standing(k)
    BY <1>1, <2>1 DEF Standing, DaysDrawn
  <2>4. IsFiniteSet(Standing(k)) /\ Total(DaysDrawn, Standing(k)) = used[k]
    BY <1>1, <2>1 DEF Ledger
  <2>5. 0 <= Total(DaysDrawn, {r}) /\ Total(DaysDrawn, {r}) <= used[k]
    BY <2>2, <2>3, <2>4, TotalPart
  <2>6. Total(DaysDrawn, {r}) = Days(t)
    <3>1. IsFiniteSet({r}) /\ {r} \ {r} = {}
      BY FS_Singleton
    <3>2. Total(DaysDrawn, {r}) = DaysDrawn[r] + Total(DaysDrawn, {r} \ {r})
      BY <2>2, <2>3, <3>1, TotalRemove
    <3> QED BY <2>2, <2>3, <3>1, <3>2, TotalEmpty
  <2>7. k \in minted
    BY <1>1, <2>1 DEF Ledger
  <2>8. used[k] \in Int /\ allocated[k] \in Int /\ used[k] <= allocated[k] /\ Days(t) \in Int
    BY <1>1, <2>1, TermsFacts DEF Inv, TypeOK, NeverOverdrawn
  <2> QED BY <2>5, <2>6, <2>7, <2>8 DEF CanRestore, RestoreGate, ChecksHold
<1>2. Inv /\ Ledger => RestoreNeverRefused
  BY <1>1 DEF RestoreNeverRefused
<1> QED BY <1>2, InvAlways, LedgerAlways, PTL

-----------------------------------------------------------------------------
(* The announcements.                                                      *)

Grants == {"approved", "voided"}

\* What may have been announced of r, or is about to be.
Due(r) == Outcome(r) \cup (IF drawn[r] = None THEN {} ELSE Grants)

\* A grant says what was drawn.
SaysTheDraw(r, e) ==
  e.settlement \in Grants =>
    /\ e.part = drawn[r].part /\ e.from = drawn[r].from /\ e.to = drawn[r].to
    /\ e.settlement = "voided" <=> Days(drawn[r]) = 0

Publishing(c, r) == call[c].pc = "publish" /\ call[c].req = r

\* What was published is due, once; what a caller is about to publish is due,
\* was not published, and nobody else is about to publish it.
AnnouncedDue(r) ==
  \A i \in DOMAIN settled[r] :
    /\ settled[r][i].settlement \in Due(r)
    /\ SaysTheDraw(r, settled[r][i])
    /\ \A j \in DOMAIN settled[r] :
         settled[r][i].settlement = settled[r][j].settlement => i = j

ToAnnounce(c, r) ==
  Publishing(c, r) =>
    /\ call[c].event.settlement \in Due(r)
    /\ SaysTheDraw(r, call[c].event)
    /\ \A i \in DOMAIN settled[r] : settled[r][i].settlement # call[c].event.settlement
    /\ \A d \in Callers :
         Publishing(d, r) /\ call[d].event.settlement = call[c].event.settlement => c = d

Announcements == \A r \in Requests : AnnouncedDue(r) /\ \A c \in Callers : ToAnnounce(c, r)

\* A step that decides nothing and publishes nothing.
LEMMA AnnouncementsKept ==
  ASSUME Announcements, UNCHANGED <<settled, drawn>>,
         \A r \in Requests : request'[r].status = request[r].status \/ Outcome(r) = {},
         \A c \in Callers : call'[c] = call[c] \/ call'[c].pc # "publish"
  PROVE  Announcements'
<1>1. SUFFICES ASSUME NEW r \in Requests PROVE AnnouncedDue(r)' /\ \A c \in Callers : ToAnnounce(c, r)'
  BY DEF Announcements
<1>2. Due(r) \subseteq Due(r)'
  BY DEF Due, Outcome
<1>3. \A e : SaysTheDraw(r, e) <=> SaysTheDraw(r, e)'
  BY DEF SaysTheDraw
<1>4. AnnouncedDue(r) /\ \A c \in Callers : ToAnnounce(c, r)
  BY DEF Announcements
<1>5. AnnouncedDue(r)'
  BY <1>2, <1>3, <1>4 DEF AnnouncedDue
<1>6. ASSUME NEW c \in Callers PROVE ToAnnounce(c, r)'
  BY <1>2, <1>3, <1>4 DEF ToAnnounce, Publishing
<1> QED BY <1>5, <1>6

\* A commit: what it is about to announce was not due before it.
LEMMA CommitAnnounces ==
  ASSUME Inv, Announcements, NEW c \in Callers, NEW r \in Requests, NEW e,
         ThenPublish(c, r, e), UNCHANGED settled, call[c].pc # "publish",
         \A q \in Requests \ {r} : request'[q].status = request[q].status /\ drawn'[q] = drawn[q],
         Outcome(r) = {}, drawn'[r] = drawn[r] \/ drawn[r] = None,
         e.settlement \notin Due(r), e.settlement \in Due(r)', SaysTheDraw(r, e)'
  PROVE  Announcements'
<1>1. ASSUME NEW q \in Requests PROVE Due(q) \subseteq Due(q)'
  BY DEF Due, Outcome
<1>2. ASSUME NEW q \in Requests, NEW f, f.settlement \in Due(q), SaysTheDraw(q, f)
      PROVE  SaysTheDraw(q, f)'
  BY <1>2 DEF SaysTheDraw, Due, Grants
<1>3. \A q \in Requests : AnnouncedDue(q) /\ \A d \in Callers : ToAnnounce(d, q)
  BY DEF Announcements
<1>4. ASSUME NEW q \in Requests PROVE AnnouncedDue(q)'
  BY <1>1, <1>2, <1>3 DEF AnnouncedDue
<1>5. /\ \A d \in Callers \ {c} : call'[d] = call[d]
      /\ Publishing(c, r)' /\ call'[c].event = e /\ call'[c].req = r
  BY DEF ThenPublish, Publishing, Inv, TypeOK
<1>6. \A i \in DOMAIN settled[r] : settled[r][i].settlement # e.settlement
  BY <1>3 DEF AnnouncedDue
<1>7. \A d \in Callers : Publishing(d, r) => call[d].event.settlement # e.settlement
  BY <1>3 DEF ToAnnounce
<1>8. ToAnnounce(c, r)'
  BY <1>5, <1>6, <1>7 DEF ToAnnounce, Publishing
<1>9. ASSUME NEW q \in Requests, NEW d \in Callers, ~(d = c /\ q = r) PROVE ToAnnounce(d, q)'
  <2>1. SUFFICES ASSUME Publishing(d, q)' PROVE ToAnnounce(d, q)'
    BY DEF ToAnnounce
  <2>2. d # c /\ Publishing(d, q) /\ call'[d] = call[d]
    BY <1>5, <1>9, <2>1 DEF Publishing
  <2>3. /\ call[d].event.settlement \in Due(q)'
        /\ SaysTheDraw(q, call[d].event)'
        /\ \A i \in DOMAIN settled[q] : settled[q][i].settlement # call[d].event.settlement
    BY <1>1, <1>2, <1>3, <2>2 DEF ToAnnounce
  <2>4. ASSUME NEW b \in Callers, Publishing(b, q)',
               call'[b].event.settlement = call'[d].event.settlement
        PROVE  d = b
    <3>1. CASE b = c
      BY <1>5, <1>7, <2>2, <2>4, <3>1 DEF Publishing
    <3>2. CASE b # c
      BY <1>3, <1>5, <2>2, <2>4, <3>2 DEF Publishing, ToAnnounce
    <3> QED BY <3>1, <3>2
  <2> QED BY <2>2, <2>3, <2>4 DEF ToAnnounce
<1> QED BY <1>4, <1>8, <1>9 DEF Announcements

\* The publication moves one event from the caller to the stream.
LEMMA PublishAnnounces ==
  ASSUME Inv, Announcements, NEW c \in Callers, Publish(c)
  PROVE  Announcements'
<1>0. PICK r \in Requests, e \in Events : call[c].req = r /\ call[c].event = e
  BY DEF Publish, Inv, TypeOK, CallInv
<1>1. /\ r \in Requests /\ e \in Events /\ settled[r] \in Seq(Events) /\ Publishing(c, r)
      /\ settled' = [settled EXCEPT ![r] = Append(@, e)]
      /\ call' = [call EXCEPT ![c] = Idle] /\ request' = request /\ drawn' = drawn
  BY <1>0 DEF Publish, Publishing, Return, ghost, Inv, TypeOK
<1>2. \A q \in Requests : Due(q)' = Due(q) /\ \A f : SaysTheDraw(q, f)' <=> SaysTheDraw(q, f)
  BY <1>1 DEF Due, Outcome, SaysTheDraw
<1>3. \A q \in Requests : AnnouncedDue(q) /\ \A d \in Callers : ToAnnounce(d, q)
  BY DEF Announcements
<1>4. \A d \in Callers, q \in Requests : Publishing(d, q)' => d # c /\ Publishing(d, q) /\ call'[d] = call[d]
  BY <1>1 DEF Publishing, Idle, Inv, TypeOK
<1>5. ASSUME NEW q \in Requests, q # r
      PROVE  AnnouncedDue(q)' /\ \A d \in Callers : ToAnnounce(d, q)'
  <2>1. settled'[q] = settled[q]
    BY <1>1, <1>5 DEF Inv, TypeOK
  <2>2. AnnouncedDue(q)'
    BY <1>2, <1>3, <2>1 DEF AnnouncedDue
  <2>3. ASSUME NEW d \in Callers PROVE ToAnnounce(d, q)'
    BY <1>2, <1>3, <1>4, <2>1 DEF ToAnnounce
  <2> QED BY <2>2, <2>3
<1>6. /\ DOMAIN settled'[r] = DOMAIN settled[r] \cup {Len(settled[r]) + 1}
      /\ Len(settled[r]) + 1 \notin DOMAIN settled[r]
      /\ settled'[r][Len(settled[r]) + 1] = e
      /\ \A i \in DOMAIN settled[r] : settled'[r][i] = settled[r][i]
  BY <1>1 DEF Inv, TypeOK
<1>7. /\ e.settlement \in Due(r) /\ SaysTheDraw(r, e)
      /\ \A i \in DOMAIN settled[r] : settled[r][i].settlement # e.settlement
      /\ \A d \in Callers : Publishing(d, r) /\ call[d].event.settlement = e.settlement => c = d
  BY <1>0, <1>1, <1>3 DEF ToAnnounce
<1>8. AnnouncedDue(r)'
  BY <1>1, <1>2, <1>3, <1>6, <1>7 DEF AnnouncedDue
<1>9. ASSUME NEW d \in Callers PROVE ToAnnounce(d, r)'
  <2>1. SUFFICES ASSUME Publishing(d, r)' PROVE ToAnnounce(d, r)'
    BY DEF ToAnnounce
  <2>2. d # c /\ Publishing(d, r) /\ call'[d] = call[d]
    BY <1>1, <1>4, <2>1
  <2>3. call[d].event.settlement # e.settlement
    BY <1>7, <2>2
  <2>4. /\ call[d].event.settlement \in Due(r) /\ SaysTheDraw(r, call[d].event)
        /\ \A i \in DOMAIN settled[r] : settled[r][i].settlement # call[d].event.settlement
        /\ \A b \in Callers :
             Publishing(b, r) /\ call[b].event.settlement = call[d].event.settlement => d = b
    BY <1>1, <1>3, <2>2 DEF ToAnnounce
  <2>5. \A i \in DOMAIN settled'[r] : settled'[r][i].settlement # call[d].event.settlement
    BY <1>6, <2>3, <2>4
  <2>6. \A b \in Callers :
          Publishing(b, r)' /\ call'[b].event.settlement = call'[d].event.settlement => d = b
    BY <1>1, <1>4, <2>2, <2>4
  <2> QED BY <1>1, <1>2, <2>2, <2>4, <2>5, <2>6 DEF ToAnnounce
<1> QED BY <1>5, <1>8, <1>9 DEF Announcements

\* Every step keeps the announcements in line with the book.
LEMMA NextAnnouncements == Inv /\ Announcements /\ [Next]_vars => Announcements'
<1>. SUFFICES ASSUME Inv, Announcements, [Next]_vars  PROVE Announcements'
  OBVIOUS
<1>0. ASSUME NEW c \in Callers, NEW pc, Proceed(c, pc), pc # "publish"
      PROVE  \A d \in Callers : call'[d] = call[d] \/ call'[d].pc # "publish"
  BY <1>0 DEF Proceed, Inv, TypeOK, Calls
<1>1. ASSUME NEW c \in Callers, Return(c)
      PROVE  \A d \in Callers : call'[d] = call[d] \/ call'[d].pc # "publish"
  BY <1>1 DEF Return, Idle, Inv, TypeOK
<1>2. ASSUME NEW c \in Callers, NEW pc, NEW r, NEW t, NEW l, Start(c, pc, r, t, l), pc # "publish"
      PROVE  \A d \in Callers : call'[d] = call[d] \/ call'[d].pc # "publish"
  BY <1>2 DEF Start, Inv, TypeOK
<1>3. ASSUME NEW c \in Callers, SubmitInsert(c) PROVE Announcements'
  <2>1. call[c].req \in Requests /\ request[call[c].req].status = "absent"
    BY <1>3 DEF Inv, CallInv, SubmitInsert, Inserting
  <2>2. \A q \in Requests : request'[q].status = request[q].status \/ Outcome(q) = {}
    BY <1>3, <2>1 DEF SubmitInsert, Pending, Outcome, Inv, TypeOK
  <2> QED BY <1>1, <1>3, <2>2, AnnouncementsKept DEF SubmitInsert, ghost
<1>4. ASSUME NEW c \in Callers, ApproveCommit(c) PROVE Announcements'
  <2>0. PICK r \in Requests, t \in Terms : call[c].req = r /\ call[c].terms = t
    BY <1>4 DEF Inv, CallInv, RowInv, Holding, ApproveCommit
  <2> DEFINE e == Grant(t)
  <2>1. /\ r \in Requests /\ request[r].status = "pending" /\ drawn[r] = None /\ t \in Terms
        /\ t # None
    BY <1>4, <2>0, TermsFacts DEF Inv, CallInv, RowInv, Holding, ApproveCommit, ApproveGate
  <2>2. Due(r) = {} /\ Outcome(r) = {}
    BY <2>1 DEF Due, Outcome
  <2>3. /\ \A q \in Requests \ {r} : request'[q].status = request[q].status /\ drawn'[q] = drawn[q]
        /\ drawn'[r] = t /\ settled' = settled /\ ThenPublish(c, r, e) /\ call[c].pc # "publish"
    BY <1>4, <2>0, <2>1 DEF ApproveCommit, SetStatus, Inv, TypeOK, Rows
  <2>4. e.settlement \in Grants /\ SaysTheDraw(r, e)'
    BY <2>1, <2>3 DEF Grant, Event, Grants, SaysTheDraw
  <2>5. e.settlement \in Due(r)'
    BY <2>1, <2>3, <2>4 DEF Due
  <2> HIDE DEF e
  <2> QED BY <2>1, <2>2, <2>3, <2>4, <2>5, CommitAnnounces
<1>5. ASSUME NEW c \in Callers, NEW r \in Requests, NEW t \in Terms, NEW s \in {"refused", "cancelled"},
             NEW to \in {"rejected", "cancelled"}, s = "refused" <=> to = "rejected",
             SetStatus(r, to), ThenPublish(c, r, Announcement(s, t)), UNCHANGED <<settled, drawn>>,
             call[c].pc # "publish", request[r].status \in {"pending", "approved"}
      PROVE  Announcements'
  <2> DEFINE e == Announcement(s, t)
  <2>1. e.settlement = s
    BY DEF Announcement, Event
  <2>2. Outcome(r) = {}
    BY <1>5 DEF Outcome
  <2>3. /\ \A q \in Requests \ {r} : request'[q].status = request[q].status /\ drawn'[q] = drawn[q]
        /\ request'[r].status = to /\ drawn'[r] = drawn[r]
    BY <1>5 DEF SetStatus, Inv, TypeOK, Rows
  <2>4. e.settlement \notin Due(r) /\ e.settlement \in Due(r)' /\ SaysTheDraw(r, e)'
    BY <1>5, <2>1, <2>2, <2>3 DEF Due, Outcome, Grants, SaysTheDraw
  <2> HIDE DEF e
  <2> QED BY <1>5, <2>2, <2>3, <2>4, CommitAnnounces DEF e
<1>6. ASSUME NEW c \in Callers, NEW r \in Requests, Reject(c, r) PROVE Announcements'
  <2>1. request[r].terms \in Terms
    BY <1>6 DEF Inv, RowInv, Reject, RejectGate
  <2> QED BY <1>5, <1>6, <2>1 DEF Reject, RejectGate, ghost
<1>7. ASSUME NEW c \in Callers, CancelPending(c) \/ CancelApproved(c) PROVE Announcements'
  <2>1. call[c].req \in Requests /\ call[c].terms \in Terms
    BY <1>7 DEF Inv, CallInv, RowInv, Holding, CancelPending, CancelApproved
  <2> QED BY <1>5, <1>7, <2>1
          DEF CancelPending, CancelPendingGate, CancelApproved, CancelApprovedGate, ghost
<1>8. ASSUME NEW c \in Callers, Begin(c) PROVE Announcements'
  <2>1. ASSUME NEW r \in Requests, NEW t \in Terms, SubmitFile(c, r, t) PROVE Announcements'
    BY <1>2, <2>1, AnnouncementsKept DEF SubmitFile
  <2>2. ASSUME NEW r \in Requests, ApproveRead(c, r) \/ CancelRead(c, r) PROVE Announcements'
    BY <1>2, <2>2, AnnouncementsKept DEF ApproveRead, CancelRead, ghost
  <2> QED BY <1>6, <1>8, <2>1, <2>2 DEF Begin
<1>9. ASSUME NEW c \in Callers, Continue(c) PROVE Announcements'
  <2>1. CASE SubmitOutright(c) \/ SubmitInsertFails(c) \/ ApproveRollback(c) \/ CancelRollback(c)
    BY <1>1, <2>1, AnnouncementsKept
       DEF SubmitOutright, SubmitInsertFails, ApproveRollback, CancelRollback, ghost
  <2>2. CASE ApproveVerdict(c)
    BY <1>0, <1>1, <2>2, AnnouncementsKept DEF ApproveVerdict, ghost
  <2> QED BY <1>3, <1>4, <1>7, <1>9, <2>1, <2>2, PublishAnnounces DEF Continue
<1>10. ASSUME NEW c \in Callers, Crash(c) PROVE Announcements'
  BY <1>1, <1>10, AnnouncementsKept DEF Crash, ghost
<1>11. CASE UNCHANGED <<request, call, settled, drawn>>
  BY <1>11, AnnouncementsKept
<1> QED
  BY <1>8, <1>9, <1>10, <1>11 DEF Next, SteadyNext, SubmitFileFails, AdjustBalance, EngineDecides,
     vars, ghost

\* Announcements is an invariant of the verbs.
LEMMA AnnouncementsAlways == Spec => []Announcements
<1>1. Init => Announcements
  BY DEF Init, Announcements, AnnouncedDue, ToAnnounce, Publishing, Idle
<1> QED BY <1>1, NextAnnouncements, InvAlways, PTL DEF Spec

\* No verb announces what it did not commit, and none announces it twice,
\* whatever happens between its commit and its publication.
THEOREM AnnouncedOnce == Spec => []EventsFollowTheBook
<1>1. Announcements => EventsFollowTheBook
  BY DEF Announcements, AnnouncedDue, EventsFollowTheBook, Due, Grants
<1> QED BY <1>1, AnnouncementsAlways, PTL

\* A grant announces the window and part that its approval drew.
THEOREM GrantsSayTheDraw == Spec => []GrantsAnnounceTheDraw
<1>1. Announcements => GrantsAnnounceTheDraw
  BY DEF Announcements, AnnouncedDue, GrantsAnnounceTheDraw, SaysTheDraw, Grants
<1> QED BY <1>1, AnnouncementsAlways, PTL

-----------------------------------------------------------------------------
(* The verbs implement the book.                                           *)

\* The empty tables are the empty book.
LEMMA BookInit == Init => Book!Init
BY DEF Init, Book!Init, Absent

\* A status UPDATE is a move of the book that leaves what was asked alone.
LEMMA SetStatusMoves ==
  ASSUME request \in [Requests -> Rows], NEW r \in Requests, NEW s,
         SetStatus(r, s)
  PROVE  /\ Book!Move(r, s)
         /\ [q \in Requests |-> request[q].terms]' = [q \in Requests |-> request[q].terms]
<1>1. \A q \in Requests :
        /\ request'[q].terms = request[q].terms
        /\ request'[q].status = IF q = r THEN s ELSE request[q].status
  BY DEF SetStatus, Rows
<1>. QED  BY <1>1 DEF Book!Move

\* Every step of the verbs is one entry of the book, or none: the commit of an
\* approval or of a cancel is where the request is decided, all else stutters.
LEMMA BookStep == Inv /\ [Next]_vars => [Book!Next]_(Book!vars)
<1>. SUFFICES ASSUME Inv, [Next]_vars  PROVE [Book!Next]_(Book!vars)
  OBVIOUS
<1>1. ASSUME NEW c \in Callers, SubmitInsert(c)  PROVE Book!Next
  <2>1. PICK r \in Requests, t \in Terms :
          call[c].req = r /\ call[c].terms = t /\ request[r].status = "absent"
    BY <1>1 DEF Inv, CallInv, SubmitInsert, Inserting
  <2>2. \A q \in Requests :
          /\ request'[q].terms = IF q = r THEN t ELSE request[q].terms
          /\ request'[q].status = IF q = r THEN "pending" ELSE request[q].status
    BY <1>1, <2>1 DEF Inv, TypeOK, SubmitInsert, Pending, Rows
  <2>3. Book!Ask(r, t)
    BY <1>1, <2>1, <2>2 DEF SubmitInsert, book, Book!Ask, Book!Move
  <2>. QED  BY <2>3 DEF Book!Next
<1>2. ASSUME NEW c \in Callers, ApproveCommit(c)  PROVE Book!Next
  <2>1. PICK r \in Requests, t \in Terms :
          call[c].req = r /\ call[c].terms = t /\ request[r].terms = t /\ t.key \in Keys
    BY <1>2, TermsFacts DEF Inv, CallInv, RowInv, ApproveCommit, Holding
  <2>2. /\ request[r].status = "pending" /\ SetStatus(r, "approved")
        /\ used[t.key] + Days(t) <= allocated[t.key]
        /\ used' = [used EXCEPT ![t.key] = @ + Days(t)]
        /\ allocated' = allocated
    BY <1>2, <2>1 DEF ApproveCommit, ApproveGate, CanDraw, DrawGate, Draw
  <2>3. Book!Move(r, "approved") /\
        [q \in Requests |-> request[q].terms]' = [q \in Requests |-> request[q].terms]
    BY <2>2, SetStatusMoves DEF Inv, TypeOK
  <2>4. Book!Grant(r)
    BY <2>1, <2>2, <2>3 DEF Book!Grant
  <2>. QED  BY <2>4 DEF Book!Next
<1>3. ASSUME NEW c \in Callers, NEW r \in Requests, Reject(c, r)  PROVE Book!Next
  <2>1. Book!Refuse(r)
    BY <1>3, SetStatusMoves DEF Inv, TypeOK, Reject, RejectGate, book, Book!Refuse
  <2>. QED  BY <2>1 DEF Book!Next
<1>4. ASSUME NEW c \in Callers, CancelPending(c)  PROVE Book!Next
  <2>1. PICK r \in Requests : call[c].req = r
    BY <1>4 DEF Inv, CallInv, CancelPending
  <2>2. Book!Withdraw(r)
    BY <1>4, <2>1, SetStatusMoves
       DEF Inv, TypeOK, CancelPending, CancelPendingGate, book, Book!Withdraw
  <2>. QED  BY <2>2 DEF Book!Next
<1>5. ASSUME NEW c \in Callers, CancelApproved(c)  PROVE Book!Next
  <2>1. PICK r \in Requests, t \in Terms :
          call[c].req = r /\ call[c].terms = t /\ request[r].terms = t /\ t.key \in Keys
    BY <1>5, TermsFacts DEF Inv, CallInv, RowInv, CancelApproved, Holding
  <2>2. /\ request[r].status = "approved" /\ SetStatus(r, "cancelled")
        /\ used' = [used EXCEPT ![t.key] = @ - Days(t)]
        /\ allocated' = allocated
    BY <1>5, <2>1 DEF CancelApproved, CancelApprovedGate
  <2>3. Book!Move(r, "cancelled") /\
        [q \in Requests |-> request[q].terms]' = [q \in Requests |-> request[q].terms]
    BY <2>2, SetStatusMoves DEF Inv, TypeOK
  <2>4. Book!GiveBack(r)
    BY <2>1, <2>2, <2>3 DEF Book!GiveBack
  <2>. QED  BY <2>4 DEF Book!Next
<1>6. ASSUME NEW k \in Keys, NEW delta \in Deltas, AdjustBalance(k, delta)
      PROVE  Book!Next
  <2>1. allocated[k] + delta \in 0 .. MaxAllocated
    BY <1>6, BalanceAssumption DEF Inv, TypeOK, AdjustBalance, AdjustGate
  <2>2. Book!Allocate(k, allocated[k] + delta)
    BY <1>6 DEF AdjustBalance, AdjustGate, Book!Allocate
  <2>. QED  BY <2>1, <2>2 DEF Book!Next
<1>7. ASSUME request' = request, allocated' = allocated, used' = used
      PROVE  UNCHANGED Book!vars
  BY <1>7 DEF Book!vars
<1>8. ASSUME NEW c \in Callers, Begin(c)  PROVE [Book!Next]_(Book!vars)
  BY <1>3, <1>7, <1>8 DEF Begin, SubmitFile, ApproveRead, CancelRead, book
<1>9. ASSUME NEW c \in Callers, Continue(c)  PROVE [Book!Next]_(Book!vars)
  BY <1>1, <1>2, <1>4, <1>5, <1>7, <1>9
     DEF Continue, SubmitOutright, SubmitInsertFails, ApproveVerdict, ApproveRollback,
         CancelRollback, Publish, book
<1>10. ASSUME NEW r \in Requests, SubmitFileFails(r) \/ EngineDecides(r)
       PROVE  UNCHANGED Book!vars
  BY <1>7, <1>10 DEF SubmitFileFails, EngineDecides, book
<1>11. ASSUME NEW c \in Callers, Crash(c)  PROVE UNCHANGED Book!vars
  BY <1>7, <1>11 DEF Crash, book
<1>12. CASE UNCHANGED vars
  BY <1>7, <1>12 DEF vars, book
<1>. QED
  BY <1>6, <1>8, <1>9, <1>10, <1>11, <1>12 DEF Next, SteadyNext

\* Whatever the snapshots, races, rollbacks and crashes of the verbs, the
\* tables move as if each request were decided in one step.
THEOREM VerbsImplementBook == Spec => ImplementsBook
BY BookInit, BookStep, InvAlways, PTL DEF Spec, ImplementsBook, Book!Spec
=============================================================================
