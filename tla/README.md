# backbone-timeoff: a verification project

TLA+ models of the leave engine in `src/`, the TLC runs that check them on small
instances, and proofs checked by TLAPS of what matters most for instances of any
size. Paths below are relative to the repository.

## 1. The system

A Rust library over PostgreSQL that a host service composes. It keeps no state in
memory between calls: its state is its tables, and everything interesting happens
because several HTTP calls, a scheduled walk and an event consumer move the same
rows in short transactions, and read outside of them.

| Component | State | Operations | Interacts with |
|---|---|---|---|
| Leave verbs: `timeoff_request_service_custom.rs`, the SQL in `timeoff_request_repository.rs` and `timeoff_balance_repository.rs`, `verb_routes.rs` | `timeoff_requests` (status, terms, approval link, deleted_at), `timeoff_balances` (allocated, used, window) | submit, approve, reject, cancel, adjust | calls the approvals port outside a transaction; publishes after the commit |
| Approvals seam: `approvals_port.rs` | none; the engine's filings are behind it | file, status; `UnwiredApprovals` | called by submit and approve |
| Settlement events: `timeoff_events.rs` | none | `publish` | called by approve, reject, cancel; consumed by timesheets and payroll |
| Standing and preview: `timeoff_request_service_custom.rs`, `verb_routes.rs` | none, reads | standings, preview | promises what submit and approve will do |
| Generic CRUD: `timeoff_request_service.rs`, `timeoff_balance_service.rs`, DTOs, entities, handlers, `lib.rs` | the same tables | create, put, patch, soft delete, restore, purge; mounted by `all_crud_routes`, not by `readonly_routes` | writes rows beside the verbs, checked by row rules, CHECKs and a status trigger |
| Accrual walk: `accrual_service.rs`, `timeoff_accrual_repository.rs` | balance columns accrual_plan_id, date_from, date_to, last_accrual_at, carried_over, expired_at | `run_accrual[_from]`: claim a batch, a transaction per row | concurrent runs; `adjust_balance` on the same rows |
| Offboarding encashment: `offboarding_encash_handler.rs` | the module's inbox row, `used` | `handle(offboarding.closed)` | at-least-once relay; all the writers of balances |
| Paid leave days: `timeoff_query_service.rs`, `timeoff_request_repository.rs` | none, reads | `paid_leave_days` | payroll; the verbs and the edits of `is_paid` move what it reads |
| Levels, types, plans: `lib.ext.rs` (`admin_routes`), their services, DTOs and entities | `timeoff_accrual_levels`, `timeoff_types`, `timeoff_accrual_plans` | generated CRUD under `admin_routes` | levels are read by the walk, types by the verbs and payroll |
| Audit history: the audit trigger, `timeoff_request_handler.rs` | `auditlog.audit_trails` | capture on every write; list, image as of an instant | written in the transaction of whoever writes the request |
| Tenancy scope, request pool: `request_pool.rs` | request-bound connection | relay of the ambient scope | the host's fence |
| Generated repositories, events, exports, seeders | | | |

What is hard in it, and what makes each part correct:

* **Verbs.** approve and cancel read a row on the pool, approve then asks the
  engine over the network, and only then a transaction begins; by then the row may
  have been decided, edited or deleted. Correct means: no balance is ever
  overdrawn; `used` is exactly what the standing approvals drew; an approval is
  never granted past the engine; a rolled-back verb changes nothing and announces
  nothing; a request is decided in one step, with its balance.
* **Events.** Publication is a separate step after the commit: it can be lost,
  and two of them can come in another order than their commits.
* **Preview.** It is computed from figures that move before the ask is approved.
* **Walk.** The state a grant is computed from is read in an earlier transaction;
  the guard in `apply_grant` (watermark and expiry) is all that keeps two runs
  from paying a period twice. Correct means: every period is paid once or passed
  over on purpose, days kept for later are neither lost nor doubled, caps hold, an
  expired balance stops, every due balance is reached in the end.
* **Calendar.** Month arithmetic clamps dates; the clamped date becomes the next
  watermark.
* **Balance rows.** A key can have several rows: minted twice, in the trash,
  brought back, purged. `adjust_balance` writes an absolute sum it computed from an
  earlier read; draw and restore match by key alone. Correct means: no row is
  overdrawn whoever writes it, no write is lost to the sum, one live row moves, and
  the days of an approved request are there to be given back.
* **Encashment.** Redelivery, crash between claim and effect, writers that come
  before, between and after.
* **Levels.** An admin rewrites the ladder while a run is between its claim and its
  grants.
* **Stale saves and history.** A generic PATCH reads the entity, compares, and
  saves it whole, without a lock; what keeps an approved request's terms is a row
  rule on the copy and a trigger on the row. The trail is written in the order
  transactions stamp and becomes visible in the order they commit.
* **Pay.** Requests straddle pay periods and overlap; a date must be paid in
  exactly one period, and only if a balance gave it.

The hazards, each at its line with the properties that cover it (or why none
does), are in `PROJECT.json`.

## 2. The modules

| Module | What it is |
|---|---|
| `LeaveBook` | The abstract specification of the verbs: a request is decided, and its balance moved, in one step |
| `TimeoffRequests` | The verbs in detail, step by step, with the seam and the events |
| `TimeoffRequestsCrud` | The same plus the generic CRUD surface over the two tables |
| `LeaveStanding` | The standing and preview figures over the states of `TimeoffRequests` |
| `PaidLeave` | The payroll read over the states of `TimeoffRequests`, and edits of a type |
| `TimeoffRequestsProofs` | Theorems about `TimeoffRequests`, the refinement of `LeaveBook` included |
| `TimeoffRequestsCrudProofs` | Theorems about `TimeoffRequestsCrud` |
| `PaidLeaveProofs` | Theorems about `LeaveStanding` and `PaidLeave` |
| `RequestRows` | One request under concurrent transactions and stale saves, its triggers and its history |
| `RequestRowsProofs` | Theorems about `RequestRows` |
| `AccrualWalk` | Concurrent accrual runs over plan-linked balances, and edits of the levels |
| `AccrualWalkProofs` | Theorems about `AccrualWalk` |
| `AccrualCalendar` | The month family of frequencies, as one balance is walked |
| `AccrualCalendarProofs` | Theorems about `AccrualCalendar` |
| `BalanceRows` | `timeoff_balances` as rows, several per key, with every writer of the table |
| `OffboardingEncash` | The consumer of `offboarding.closed` composed with `BalanceRows` |
| `OffboardingEncashProofs` | Theorems about `BalanceRows` and `OffboardingEncash` |
| `FiniteSums` | Lemmas about sums over finite sets, which the ledgers of the proofs rest on |
| `MC...` | Instances for TLC |

`TimeoffRequests` sees one balance row per key and every step of a verb;
`BalanceRows` takes a verb's decision and its draw as one step, which is what
`VerbsImplementBook` proves of them, and looks at the rows instead.

### TimeoffRequests

`request[r]` is a row (`absent` before its insert); its terms are a record of the
balance key, first and last day and part. `minted`, `allocated` and `used` are the
balance rows, one per key (employee, type, period). `filing[r]` is the engine's
side of the seam. `call[c]` is the program counter of a caller and what it has
read: this is where a snapshot ages. `settled[r]` is the sequence of events
published about r. Two history variables, `outright` (filings the engine granted
when they were made) and `drawn` (the terms an approval drew for), are never read
by an action's guard.

Days are counted in half days. `Days(t)` may be zero or negative: the SQL
expression is not clamped, and a row that did not come through submit may have its
dates inverted.

| Verb | Steps |
|---|---|
| submit | `SubmitFile` (validate, cap, file; unwired, filed or approved outright) or `SubmitFileFails`; then `SubmitInsert`, `SubmitInsertFails` or `SubmitOutright` |
| approve | `ApproveRead`, `ApproveVerdict` when linked, `ApproveCommit` (mark_approved and draw) or `ApproveRollback`, `Publish` |
| reject | `Reject` (one gated UPDATE), `Publish` |
| cancel | `CancelRead`; `CancelPending`, `CancelApproved` (cancel_approved and restore) or `CancelRollback`; `Publish` |
| adjust | `AdjustBalance` |

A transaction is one step. Its UPDATEs are gated by their own WHERE and take row
locks in the same order in every verb, so under READ COMMITTED the second of two
transactions re-evaluates its gates on what the first committed; nothing can be
seen of the inside of one. `SubmitOutright` is the transaction that cannot commit:
`settle_approved` reads the row it has just inserted on another connection.
`Crash(c)` is the process dying or the handler's future being dropped between two
steps of a call. `EngineDecides` is the environment.

Left out: the tenancy scope (a verb without one fails before its first step),
notes, attachments and approver ids, the reason of an adjustment, the refusals
that change nothing and end a call at its first step.

### TimeoffRequestsCrud

The deployment that mounts `all_crud_routes`, over one request row and one balance
row per key. A PUT or PATCH of a request is several steps, with no lock between them:
`GenericRead` takes the entity, `GenericSave` checks the edit against what was read
(`UpdateAllowed`) and writes the whole copy back over the row as it is by then, unless
the trigger on the status (`Declared`) refuses, and `GenericDrop` is an edit that is
refused or abandoned. So a verb may decide a request between the read of an edit and
its save. The other generic writes are one statement: `GenericBalanceWrite` takes any
amounts that the CHECKs let through, those of a stale copy included. A created request
is pending (its DTO has no status) with any link. Permanent deletion and the history
are in `RequestRows`.

### LeaveStanding

No variables of its own: `standings` is one SQL statement, so its figures are
operators of the state. `Fits` is the preview's verdict.

### PaidLeave

`PaidDays(lo, hi)` is the SQL of `paid_leave_days`: approved, not deleted requests of
a paid type, clamped to the period, expanded into dates, distinct. A half day counts
as its whole date. `paid` is the `is_paid` flag of each type; a PUT or PATCH of a type
may move it at any time, since the row rules look at the name and the code only. A
type in the trash keeps its flag here, while its cap no longer binds (`type_cap`
filters deleted types), so deleting a type is seen by the preview and not by pay.

### RequestRows

One row, transactions that begin, write once, and commit or roll back, and the
entries the audit trigger adds. `txn[w].copy` is the entity a generic update read
when it began. Its row rules compare the edit with that copy; the save replaces the
whole row, as it is when the row lock is granted; the trigger on the status compares
with the row. `Past`, `Position`, `Replay`, `Apply` and `AsOf` are
`timeoff_request_history`: the rows of its query, their numbers, and the fold that
applies the newest last. Four things are assumed of code outside `src/`:

* `backbone_core` saves all columns of the entity it was given, except that it may or
  may not carry the metadata of the copy (both are allowed);
* the capture stamps `occurred_at` when it runs, under the lock of the row, not at
  the start of the transaction (`StampedAtBegin` shows what would break);
* the transaction id is only a tie-break, which instants that differ do not need;
* an id whose insert was rolled back is not inserted again.

### AccrualWalk

`balance[b]` holds the accrual columns, `ladder[b]` the levels of its plan, `run[w]` a
run: the day it was started with, its start point, its pass and the rows it claimed
**as they were read**, by place in the claim's order (with, as history, what HR had
added to the balance by then: `adjusted`). `Begin`, `Claim` (FOR UPDATE SKIP
LOCKED LIMIT, in an order; any subset of the rows that other runs hold in an open
transaction may be skipped), then for each row `StampExpired`, `PassOver`,
`ApplyGrant`, `Raced` or `RowFails`, each its own transaction; `RunDies` between any
two. `EditLevel` is the admin surface on one level: POST (or a restore), PUT, PATCH
of the fields it names, soft delete, each through the row rules. `ledger` is history:
how often each day was covered by a paid period, the days passed over, and what was
granted, lost and owed.

`process_row` reads the levels and grants in one transaction; an edit that commits
between the two statements comes to the same as one that commits after the grant,
since the grant writes no level and the edit no balance. So reading and granting are
one step.

Days are whole and a frequency is a number of days (`daily`, `weekly`,
`biweekly`; 0 is `once`). Months are `AccrualCalendar`'s. A plan is only the name its
levels and balances share: its other fields are read by nothing.

### AccrualCalendar

`WholeMonths`, `AddMonths`, `PeriodsDue` and the start point's `Skipped`, as one
balance is walked on some days and not on others. The properties compare what was
granted with the anniversaries of the allocation's start, written down
independently (`Anniversary`, `Ended`), so they do not repeat the arithmetic. A start
point lets a period be paid (`Payable`) unless it had ended by the day before: a
period that a month is too short for ends the day after that month, so with a start
point on 1 March the period that would end on 31 February is still paid, as
`skip_periods_before` has it.

### BalanceRows and OffboardingEncash

`row[i]` is a row of `timeoff_balances` (absent, live, in the trash, purged). `Approve`
and `Cancel` move every stored row of the key that their WHERE lets through, rows in
the trash too. `AdjustFind` locks the live row, `AdjustMint` inserts one where there
is none; `AdjustCommit` reads `used` again, checks, and writes the sum.
A statement that would change a locked row is not enabled: it waits. `Accrue` is
`apply_grant`, which goes by id and may pay a row deleted after the claim. `Unique`
is the set of statuses the decorator's unique index covers. The rest is the generic
surface; a PUT carries any body, so a save of a copy that has become stale is one.

`Close` hands an event to the relay, which delivers it at any time, any number of
times; `Handle` is one transaction: the inbox claim and the UPDATE of every stored row
of the leaver; `Redeliver` is a delivery the inbox refuses.

## 3. The runs

Properties asked of the same instance share a run. Runs that pass:

| Run | Question |
|---|---|
| `MCVerbs` | Verbs, engine and crashes: are balances, requests, filings and announcements consistent in every state? |
| `MCBook` | Without an engine: do the verbs implement `LeaveBook`, is a preview's verdict right and how long does it hold, does payroll see what was drawn, is every outcome announced? |
| `MCCrud` | What is left of it with the generic surface mounted, and an edit that was read before a verb decided saved after it? |
| `MCRows` | Stale saves, triggers and the trail: do an approved request's terms survive, is the history the row, and final? |
| `MCWalk` | Two runs of different days and start points, crashes, a poisoned row, HR taking days back, an admin rewriting the rungs: is every period paid once, and every day accounted for? |
| `MCWalkLive` | Is a due grant, of a one-time rung or of a period, paid in the end, and does every run end, though another row keeps failing and a rung comes and goes? When HR gives a day between a claim and its grant, by how much does the grant exceed the cap? |
| `MCCalendar` | Month arithmetic from month ends over a leap year |
| `MCEncash` | Two rows of one key, two adjustments, every writer of the table and a relay: is a row ever overdrawn, a write lost, more than one live row moved, a close encashed twice or never? |

Runs that find a disagreement between the code and what the repository says of it
(`findings` in `PROJECT.json` quotes both):

| Run | Shows |
|---|---|
| `MCOutright` | A submit that the engine approves outright always fails |
| `MCWalkStarved` | With more candidates than the batch, later balances are never walked |
| `MCEncashDeleted` | The encashment takes soft-deleted balances |
| `MCCrudPatched` | A generic PATCH between approve's read and its commit leaves an approved request whose terms are not those drawn |

`DuePeriodsAreGranted` is in two runs: it holds where a batch holds every candidate
(`MCWalkLive`), and fails where it does not (`MCWalkStarved`), which is why the
size of the batch is part of what the walk promises.

### Bounds, and why they are enough

* **Verbs.** Two requests and two callers: every race in the code is between two
  calls about one row, or two rows of one balance, and a call touches one request
  and one balance; the theorems lift the main invariants to any number. One key:
  keys do not interact (each verb names one). Four asks: two that compete (two
  days, a half day), one outside the balance's window, one inverted. An
  `allocated` up to 5 half days holds either ask, or both, or runs out.
  `MCCrud` has one request, two callers beside one generic update at a time, spans of
  1, 0 and -1 days, so that every gate meets the sums at zero, and a wired engine.
  `MCBook` has two requests that compete and an ask that begins inside the window and
  ends outside, where the preview's and the draw's views of the window could part.
* **Walk.** Two runs and three balances: a capped rung that keeps a day, followed by a
  daily one; a one-time rung; an allocation with no start. Five days (0 to 4): the
  second rung begins on the fourth, one balance expires after the third, so runs of
  different days claim before and apply after either. A batch of two of three
  candidates, with one pass, lets SKIP LOCKED change what is claimed. HR takes a day
  back from what accrued, which opens headroom between a claim and its grant. The drafts
  turn the recurring rung into a one-time one, by a PATCH, while claimed rows wait, and
  try to write a rung that takes days away. In `MCWalkLive` the first row fails for
  ever; the one-time rung of the second is deleted and restored without end, and its
  daily rung has a period due on the last day before it expires, or two when the first
  rung was not there to be paid. There HR gives a balance that holds nothing one day,
  before a claim or after it, so that a headroom computed at the claim is stale at the
  grant; the theorem `CapRespected` has any adjustments. More runs add nothing new: a
  grant succeeds only on the watermark it was computed from.
* **Calendar.** Starts on the 15th, 29 (February), 30 and 31, periods of 1, 2, 3
  and 12 months, without a start point and with one on 1 March, the day after the
  shortest month, on 30 March and in the middle of April, to the end of 2025: every
  month length, a leap February and an ordinary one.
* **Balance rows.** Two rows of one key: one in the trash and one live, or two first
  adjustments that mint together. Two requests of one and two days, so that an
  allocation of 2 holds both, one or neither, and a restore can be let through by a
  row that the draw did not move. Two adjustments of +1 and -1. One event: the relay
  redelivers it. The index is on live rows, as the strip migration expects of the
  decorator; the theorems hold for any `Unique`, without one included.
* **Request rows.** Two transactions and two sets of terms: a stale save needs one
  other writer. Five writes: an insert, an approval, a stale save, a soft delete and
  a purge. A third writer would add an order among those that wait for the row, and
  each of them is modelled as taking the row as it finds it.
* **Payroll.** Every pair and triple of dates out of three, over requests that
  overlap, straddle a period and count half a day.

`MaxAllocated`, `MaxAdjusted`, `LastDay`, `LastYear`, `MaxInstant` and `Calendar` are
the only bounds on counters. Symmetry (requests, callers, writers, accrual runs) is
used in safety runs only; the runs of the walk differ in nothing but their day and
start point, which each chooses when it begins.
`CHECK_DEADLOCK FALSE` is said in two places: the calendar stops at `LastYear`, and
in `MCOutright` the one request is used up once its only submit has failed.

### Fairness

* Verbs: `WF(Continue(c))`: a handler that has begun goes on. It is justified as
  long as the process lives, so `FairSpec` and `PaySpec` have no `Crash`. Nothing
  forces a caller to begin, an engine to decide, HR to edit a type. `MCBook` has no
  engine because nothing in `src/` makes one answer.
* Walk: `WF` of a run's steps, and of `Begin`: the schedule (`accrual_update`,
  daily at 03:00, `src/schema/hooks/index.hook.yaml`) starts runs for ever. A row
  that fails is not assumed to stop failing. A run's death is left out here
  (`SteadyNext`); adjustments and level edits are not, and a balance counts as
  behind only while the ladder of the moment makes it so.
* Encashment: `SF(Handle(e))`. The relay redelivers until the handler succeeds, which
  is its at-least-once contract, and a delivery that waits for a row that adjustments
  lock one after the other is served, because PostgreSQL queues the waiters of a lock
  in order of arrival: being enabled again and again is enough. `WF` of the end of
  an adjustment: a transaction that has begun commits or rolls back.
* `RequestRows` has safety properties only.
* The calendar has safety properties only.

## 4. What is proved

Every theorem holds for every value of the constants that the named assumptions of
its module allow; sets need not be finite unless said. Together they take every safety
property of the runs that pass, the invariants and the action properties, from the
small instances above to any instance.

### The verbs: `TimeoffRequestsProofs`

For every set of requests, callers, keys and terms, and every window, cap and
adjustment, from the assumptions of `TimeoffRequests`: a half day is a single day (a
CHECK of the table), `None` is not a request or a term, and the types of the constants.

| Theorem | Says |
|---|---|
| `TypeCorrect` | `Spec => []TypeOK` |
| `DrawInvariant` | `Spec => []NeverOverdrawn` |
| `TermsFrozen` | `Spec => []ApprovedKeepsDrawnTerms` |
| `EngineHonored` | `Spec => []GrantedByTheEngine` |
| `OutrightLeavesNoRow` | `Spec => []OutrightNeverPending` |
| `GatesSuffice` | `Spec => []GatesPreemptChecks` |
| `LedgerBalances` | `Spec => []UsedIsWhatApprovalsDrew` |
| `CancelsAreNeverRefused` | `Spec => []RestoreNeverRefused` |
| `AnnouncedOnce` | `Spec => []EventsFollowTheBook` |
| `GrantsSayTheDraw` | `Spec => []GrantsAnnounceTheDraw` |
| `VerbsImplementBook` | `Spec => ImplementsBook` |

None of these is inductive as it stands, and one invariant, `Inv`, carries the first
six and the refinement. Beside `TypeOK` and `NeverOverdrawn` it has:

* `RowInv`, about rows: a row that exists has terms which a submit accepts (so it
  draws a positive amount: without that the draw gate does not keep `used` from
  going negative), keeps the terms it was drawn for, and has a filing behind its
  link, granted if it is approved;
* `CallInv`, about snapshots: the terms and link a caller holds are still those of
  the row it read them from, whatever became of its status, and a caller past the
  verdict holds a granted filing. This is what makes the stale reads harmless when
  the verbs are the only writers, and what the generic PATCH breaks;
* `OneInsert`: no two callers hold the same id to insert, so no row is inserted
  over another.

`InitInv` and `NextInv` prove it, one lemma for each group of actions, one step for
each conjunct an action can disturb. `VerbsImplementBook` maps each action to a
step of `LeaveBook` or to a stutter, using `CallInv` to show that what is drawn is
what the row asks for.

The other four need a history of what was committed:

* `Ledger`: the approvals that stand at a key are finitely many, since each is a step,
  and `used` is their sum; what was drawn was drawn from a balance that was minted. A
  draw adds one term to the sum and a restore takes one away (`TotalAdd`,
  `TotalRemove`); that `CallInv` gives the restore the terms of the row is what makes
  it the same term. `CancelsAreNeverRefused` follows: one term of a sum of days is not
  more than the sum.
* `Announcements`: whatever was published of a request is due by its status or its
  draw, says the draw and was published once, and the same holds of what a caller is
  about to publish, which no one else has published or is about to. Between a commit
  and its announcement the caller's event is the only trace of it.

`FiniteSums` is what makes the sums provable. `MapThenSumSet` is a recursive function
over the subsets of a set; that the recursion has a solution, that it is the only one
and that the order of the terms does not matter is shown with a minimal counterexample
under strict inclusion (`FS_StrictSubsetOrderingWellFounded`, `WFMin`), in place of an
induction principle. The fold of `RequestRowsProofs` is reasoned about in the same way.

### The preview and the pay: `PaidLeaveProofs`

Of `Spec` and `PaySpec`, from the assumptions of `TimeoffRequests`.

| Theorem | Says |
|---|---|
| `FitIsAccepted` | `Spec => []PreviewAgreesWithTheVerbs` |
| `FitIsKept` | `Spec => PreviewPromiseKept` |
| `DaysSplitOnce` | `PaySpec => []PeriodsAddUp` |
| `PayMovesWithUsed` | `PaySpec => PayMovesWithTheBalance` |
| `PaidIsDrawn` | `PaySpec => []PaidDaysAreDrawn` |

`Entry` says what one step does to the book as a reader of the tables finds it: it
files one ask, refuses or withdraws one, draws one or gives one back, with `used` moved
by as much, or leaves the book alone; it is read off the refinement of `LeaveBook`.
`Shown` says that the requests filed are finitely many and none of them deleted, and
`Books` that what a preview holds back for the pending asks of a key is a finite sum
of days. `FitIsKept` then compares that sum, and the balance, across one entry. For the
pay, each date that is paid lies in the draw of an approved request (`Funds`), which
keeps the terms it was drawn for; the draw lies in the window of its balance
(`DrawsFit`), and `used` still holds it, as one term of the sum in `Ledger`.

### The generic surface: `TimeoffRequestsCrudProofs`

From the assumptions of `TimeoffRequests`, of `CrudSpec`, for any number of rows,
clients and verbs.

| Theorem | Says |
|---|---|
| `CrudNeverOverdraws` | `CrudSpec => []NeverOverdrawn` |
| `CrudTermsFrozen` | `CrudSpec => ApprovedTermsFrozen` |
| `CrudTransitions` | `CrudSpec => OnlyDeclaredTransitions` |

The invariant of the verbs does not survive the surface: a client may ask for a span
of any sign and carry any link, and edit a pending request an approval has read.
`CrudInv` is what remains: the types, that a caller about to insert holds an id no
row and no other caller has (`Holds`, `OneInsert`), that one past its read holds a
row which exists, and the CHECKs. `CopyInv` is about the edits under way: whatever the
verbs did since the read, the row got to its status from the copy's by declared moves
and, where both are approved, has the copy's terms (`Follows`). A save then either
puts back the status the row has, under rules that freeze the terms of an approved
copy, or asks the trigger for a move backwards, which it refuses (`SavesKeep`). Both
theorems about requests rest on that refusal: without the trigger (`AnyTransition`) a
copy read while the request was pending reopens an approved one. Every step therefore
moves a row in one of three ways (`RowMoves`): as it was, edited while it is not
approved, or decided with its terms untouched.

### The walk: `AccrualWalkProofs`

For any sequence of balances without repetition, any windows, ladders, drafts,
start points, batch, number of runs and adjustments, from `OrderAssumption` and
`PlanAssumption`.

| Theorem | Says |
|---|---|
| `WalkTypeCorrect` | `Spec => []TypeOK` |
| `PeriodsPaidOnce` | `Spec => []EveryPeriodPaidOnce` |
| `DaysAccounted` | `Spec => []EveryDayAccountedFor` |
| `ExpiredIsDone` | `Spec => ExpiredStopsAccruing` |
| `OneTimeFirst` | `Spec => OneTimeGrantComesFirst` |
| `CapRespected` | `Spec => GrantsRespectTheCap` |

The invariant is `IInv == Typed /\ RowsAged /\ Books`.

* `RowsAged` is what makes a stale claim harmless: a claimed row has the watermark of
  its balance or an older one, and where the watermark is the same, so is the carry,
  because only a grant moves the carry and a grant moves the watermark on; so is what
  was granted in all, which is the row's `allocated` less its `adjusted`. The guard
  of `apply_grant` therefore lets through exactly the rows whose carry is current, and
  whose `allocated` differs from the balance's by what HR did since, and nothing else.
* `Books` has, for each balance, the two invariants and `MarkTells`: without a
  watermark nothing was paid, kept or passed over (so a one-time grant, which needs
  there to be none, comes first and once); with one, nothing beyond it was passed over.

`GrantFigures` says what one grant adds, for each of the two kinds of rung, and the rest
follows by cases. `GrantsRespectTheCap` is what a headroom computed at the claim can
promise: a grant leaves the balance over the cap by no more than HR added between the
claim and the grant, so at or under it where HR added nothing or took days back. That
the latest of the rungs that have begun exists, whatever the ladder, is the lemma about
`Max`, from the well-foundedness of the naturals (`WFMin`).

### The calendar: `AccrualCalendarProofs`

For any first days of an allocation, start points and clock that `CalendarAssumption`
admits: they are dates, and a period has 1, 2, 3 or 12 months.

| Theorem | Says |
|---|---|
| `CalendarInvariant` | `Spec => []GridInv` |
| `NeverAhead` | `Spec => []WatermarkNeverAhead` |
| `NoneLost` | `Spec => []NoPeriodIsLost` |
| `NeverEarly` | `Spec => []NeverMuchTooEarly` |

`GridInv`: a watermark that has moved is a whole number of periods after the start of
the allocation, those passed over at the start point and those granted, and its day is
that of the start or was clamped, to the 28th at the earliest. `MonthsComplete` says
what `whole_months` counts, for any two dates: the months whose anniversary has come,
whether or not the month has that day. Periods due and passed over are therefore read
off one order of dates (`Ordinal`), in which clamping a day moves it by three at most.

### Balance rows and encashment: `OffboardingEncashProofs`

For any ids, keys, requests, adjustments and events, with or without the unique index
and the generic surface.

| Theorem | Says |
|---|---|
| `RowsTypeCorrect` | `Spec => []TypeOK` |
| `NoRowIsOverdrawn` | `Spec => []RowsNeverOverdrawn` |
| `AdjustmentsAddUp` | `Spec => []NoAdjustmentIsLost` |
| `EncashedOnce` | `Spec => NothingEncashedTwice` |
| `DaysStayHeld` | `Spec => []DrawnDaysAreHeld` |
| `OneLiveRow` | `Spec => OneLiveRowMoves`, if the index covers live rows (`"live" \in Unique`) |

`RowsInv` adds to the first three: `HandsHold`, the row an adjustment has locked is
still live with the key and allocation it read, and one it has minted is still
absent; `HandsApart`, no two open adjustments have the same row; `AbsentRows`, a row
that does not exist was given nothing. These are what the row lock buys, and
`NeverLocked` breaks them. `OneLiveRow` rests on `UInv` beside it: a key has one live
row, or one that an open adjustment is minting, and never both, and a locked row keeps
the key it was found by, so that what the adjustment writes back cannot be a second
live row of another key.

`DaysHeld` carries `DaysStayHeld`: a key that no generic update or purge has touched
and that never had a row never had a draw, and if it has one row, that row holds the
sum of its approvals. The half about keys without a row is what an insert needs. Every
step either moves the sum and the rows of its key by the same days (`MoveHolds`) or
takes no day off a row, unless it marks the keys it touches as edited (`GrowthHolds`).

### Request rows: `RequestRowsProofs`

| Theorem | Says |
|---|---|
| `RequestTypeCorrect` | `Spec => []TypeOK`, with at most one transaction that has written the row |
| `TermsSurvive` | `Spec => TermsSurviveStaleSaves` |
| `HistoryShowsTheRow` | `Spec => []ImageIsTheRow` |
| `HistoryStays` | `Spec => HistoryIsFinal` |

`WrittenReplaces` says that what a transaction has written and not committed keeps the
terms of the row it will replace, if that row is approved, and `RowFollowsCopies` that
a copy which was approved when it was read has the terms of the row for as long as the
row is approved. A stale save of a copy that was pending fails on the trigger, since it
would take the status from approved back to pending.

`TrailInv` adds the trail: its entries are stamped one after the other and before the
clock, whoever holds the row has stamped after all of them, and the whole trail
replays to the row, or to nothing, gone if there ever was one. An entry applied to the
row before it gives the row after it (`ApplyEntry`); that it is applied last is its
stamp being the newest (`ReplayStep`), which is where a stamp taken at BEGIN would
break the proof. An instant by which nobody who has written is still open is before
every stamp to come, so its entries, and what they replay to, stay.

### Only model-checked

The liveness properties (`OutcomesAreAnnounced`, `DuePeriodsAreGranted`, `RunsEnd`,
`EveryCloseIsEncashed`): fairness and ENABLED are out of the prover's reach.

## 5. Beyond the runs

### Behind some of the runs

* **Terms read before the transaction** (`MCCrudPatched`). approve reads the span at
  `timeoff_request_service_custom.rs:324`, on the pool, and draws it after the
  engine's answer. A generic PATCH in between leaves an approved row whose terms
  are not those drawn. `ApprovedKeepsDrawnTerms` is proved of the verbs alone; with the
  generic surface `ApprovedTermsFrozen` is what holds: from its approval on, a request
  keeps the terms it was approved with.
* **Headroom of the cap** (`MCWalkLive`). A grant is computed from the balance as claimed
  (`accrual_service.rs:258`). Days HR adds between claim and grant take it over
  the cap by as many (`GrantsRespectTheCap`).

### Observed while modelling, without a run

Behaviours the models contain, which differ from what a document or a comment
says, or which a reader of the code could expect otherwise. Each is a candidate for
a decision by the maintainers, and no passing property depends on the contrary.

* **Announcements after the commit.** A crash between commit and publish (lines
  391 to 398) loses the announcement, and nothing publishes it later;
  `OutcomesAreAnnounced` is therefore checked where no caller dies.
* **Order of announcements.** Commit and publish are two steps, so the approval of
  a request that was cancelled meanwhile can be announced after its cancel.
* **Inverted spans.** A row created through the generic surface may have its last
  day before its first. If it counts to zero days its approval is announced as
  voided; if it counts to fewer, the approval draws a negative amount (as far as
  `used >= 0` lets it) and is announced as an approved absence, though
  `timeoff_events.rs:16-18` describes empty and inverted spans as voided.
* **The part of the day.** reject (line 418) and both branches of cancel (556 and 598)
  publish `LeaveSettled` with part `full`, whatever the request's, where
  `timeoff_events.rs:45` has "which part of the day the leave covers".
* **Grants to deleted balances.** `apply_grant` goes by id and does not look at
  `deleted_at`: a balance deleted after its claim is still paid.
* **The grid after a short month.** The clamped date becomes the next watermark
  (`accrual_service.rs:336-338` and `404-418`): after 29 February, the period of 31
  March is paid on the 29th. `NeverMuchTooEarly` bounds by how much.
* **Leavers.** A cancel or an accrual after the close gives a leaver days again:
  the encashment (`offboarding_encash_handler.rs:13-15`) is a moment, not a state.
* **One row, or all of a key.** `timeoff_balance.model.yaml:25-29` and the strip
  migration (lines 24-27) have a draw or a restore move exactly one row. The index they
  rely on makes that true of live rows (`OneLiveRowMoves`); rows in the trash
  have the key too and are moved along, so a restore after a delete and a second
  mint can be let through by other rows than the draw. That is why `DrawnDaysAreHeld`
  is claimed of keys that always had one row. Without the index two live rows of a
  key are possible, and both move.
* **Deleting an approved request.** The generic soft delete removes its dates from
  the pay and leaves its days drawn; the restore brings them back.
* **Stale generic saves.** Two edits of a pending request, or a PATCH of a balance
  beside an approval, an adjustment or a grant: the last save wins, whole row. The
  CHECKs still bound the row (`RowsNeverOverdrawn`); nothing promises more, and
  `DrawnDaysAreHeld` leaves out the keys such a write hit.
* **The preview's refusals.** `verb_routes.rs:238` says that a preview answers 422 "as
  submit does", but a submit's invalid window goes through `err_response`
  (`verb_routes.rs:37`), which maps it to 409. The wording of answers is not
  modelled.

### Not modelled

* The tenancy fence and the request pool: the module relays a scope that the
  composing service installs and enforces outside this repository.
* A type's cap as a variable: it is read by submit and preview alone, no document
  says that a later cap binds a pending request, and the models take it as a
  constant of each key.
* Accrual plans' own fields, which nothing reads, and moving a level to another plan
  or sequence, which is a delete and a create.
* The migrations as a sequence, and the DDL beyond the CHECKs, the triggers and the
  unique index.
* Generated repository traits that nothing implements, event types that nothing
  publishes, exports and response DTOs, seeders and the command line.
* A bulk create is several creates, an upsert a create or a PUT.
* Worked-time accrual is not in the code.

## 6. Plan

What remains, in the order of what it would add:

1. An abstract `AccrualLedger` which a walk implements, as `LeaveBook` is to the verbs.
2. `BalanceRows` as the balance of `TimeoffRequests`, with every step of the verbs.
3. The calendar inside the walk: a frequency of months in `AccrualWalk`.

## 7. Running

    cd tla
    tlc -workers 2 -config MCVerbs.cfg MCTimeoffRequests
    tlapm TimeoffRequestsProofs.tla

`PROJECT.json` has the module of each configuration, the lines each definition
models, and for every property of a passing run a mutated definition that breaks
it: the mutants are written in the modules, each marked as a bug, next to what they
mutate.
