---------------------------- MODULE AccrualWalk ----------------------------
(***************************************************************************)
(* The accrual walk, AccrualService::run_accrual_from: concurrent runs     *)
(* over the plan-linked balances.  A pass claims a batch in one            *)
(* transaction that ends before any grant; each claimed row is then        *)
(* processed in a transaction of its own, FROM THE STATE READ AT THE       *)
(* CLAIM, and an UPDATE guarded by the claimed watermark decides who wins. *)
(*                                                                         *)
(* Days are whole and a frequency is a number of days.  Calendar months,   *)
(* whose lengths differ, are left to a module of their own.                *)
(***************************************************************************)
EXTENDS Integers, Sequences, FiniteSets, FiniteSetsExt, SequencesExt

CONSTANTS
  Order,       \* the balances, in the order of the claim: date_from, then id
  Walkers,     \* the runs that may be under way together
  From, To,    \* From[b], To[b]: the validity window of b, None when NULL
  Ladder,      \* Ladder[b]: the levels of the plan of b at first, by sequence
  Drafts,      \* what an admin may write: [of, sequence, level, named]
  Starts,      \* the start points a run may carry, None for no start point
  Batch,       \* the LIMIT of a claim
  MaxBatches,  \* the claim passes of a run
  Poisoned,    \* the rows whose processing may fail
  Deltas,      \* HR's adjustments
  MaxAdjusted, \* BOUND on the allocation an adjustment may reach
  LastDay,     \* BOUND on the clock
  None

Balances == ToSet(Order)
DayRange == 0 .. LastDay

\* A level: `start` days after the allocation it applies; it adds `added` every
\* `every` days, 0 for a one-time grant, up to `cap`; over-cap days are kept
\* for the next grant, at most `most` of them, or lost.
Levels == [start : Nat, every : Nat, added : Nat, cap : Nat \cup {None},
           keeps : BOOLEAN, most : Nat \cup {None}]

\* What a PATCH of a level may name.
Fields == {"start", "every", "added", "cap", "keeps", "most"}

Bounded(m, n) == IF m = None THEN n ELSE Min({m, n})

ASSUME OrderAssumption ==
  /\ Order \in Seq(Balances) /\ IsInjective(Order)
  /\ \A i, j \in DOMAIN Order :
       i < j /\ From[Order[j]] # None
         => From[Order[i]] # None /\ From[Order[i]] <= From[Order[j]]

ASSUME PlanAssumption ==
  /\ \A b \in Balances : /\ From[b] \in DayRange \cup {None}
                         /\ To[b] \in DayRange \cup {None}
                         /\ b \in DOMAIN Ladder /\ Ladder[b] \in Seq(Levels \cup {None})
  /\ Batch \in Nat \ {0} /\ MaxBatches \in Nat \ {0}
  /\ Poisoned \subseteq Balances /\ Deltas \subseteq Int
  /\ Starts \subseteq Int \cup {None} /\ None \notin Int
  /\ MaxAdjusted \in Nat /\ LastDay \in Nat
  /\ \A d \in Drafts : /\ d.of \in Balances /\ d.sequence \in DOMAIN Ladder[d.of]
                         /\ d.named \subseteq Fields

VARIABLES
  today,    \* the clock each run is started with
  balance,  \* timeoff_balances: [allocated, carried, mark, expired]
  ladder,   \* timeoff_accrual_levels: per plan and sequence, None when deleted
  run,      \* what each run is doing, and the rows it has still to process
  ledger    \* history: what the walk has done for each balance

vars == <<today, balance, ladder, run, ledger>>

Idle == [pc |-> "idle", now |-> 0, start |-> None, pass |-> 0, rows |-> <<>>]

Init ==
  /\ today = 0
  /\ balance = [b \in Balances |->
                  [allocated |-> 0, carried |-> 0, mark |-> None, expired |-> FALSE]]
  /\ ladder = Ladder
  /\ run = [w \in Walkers |-> Idle]
  /\ ledger = [b \in Balances |->
                 [times |-> [d \in DayRange |-> 0], passed |-> {}, once |-> 0,
                  gross |-> 0, granted |-> 0, lost |-> 0]]

-----------------------------------------------------------------------------
(* The verdict on one row.                                                 *)

\* applicable_level: the latest rung that has begun.
Begun(b, now) ==
  {i \in DOMAIN ladder[b] : ladder[b][i] # None /\ From[b] + ladder[b][i].start <= now}
Level(b, now) == ladder[b][Max(Begun(b, now))]

Expires(b, now) == To[b] # None /\ To[b] < now

\* The watermark, or the allocation start on the first walk.
Watermark(b, mark) == IF mark = None THEN From[b] ELSE mark

\* Whole periods between two days.
PeriodsDue(every, mark, now) == Max({0, (now - mark) \div every})

\* The whole periods that ended before the start day are passed over.
SkipPeriodsBefore(every, mark, start) ==
  IF start = None THEN mark ELSE mark + every * PeriodsDue(every, mark, start - 1)

Watered(row, level, start) == SkipPeriodsBefore(level.every, Watermark(row.id, row.mark), start)

\* Has the rung of this row something to grant?
OnceIsDue(row, level, start) ==
  /\ level.every = 0 /\ row.mark = None
  /\ start # None => From[row.id] + level.start >= start

PeriodIsDue(row, level, now, start) ==
  /\ level.every > 0
  /\ PeriodsDue(level.every, Watered(row, level, start), now) > 0

IsDue(row, now, start) ==
  /\ ~Expires(row.id, now)
  /\ From[row.id] # None /\ Begun(row.id, now) # {}
  /\ LET level == Level(row.id, now)
     IN OnceIsDue(row, level, start) \/ PeriodIsDue(row, level, now, start)

\* A bug: the cap bounds each grant, not the balance.
CapPerGrant(level, allocated, gross) ==
  IF level.cap = None THEN gross ELSE Min({gross, level.cap})

\* headroom: what `allocated` leaves under the cap of the level.
Granted(level, allocated, gross) ==
  IF level.cap = None THEN gross ELSE Min({gross, Max({level.cap - allocated, 0})})

\* split_excess: what of the excess is carried over; the rest is lost.
Carried(level, excess) == IF level.keeps THEN Bounded(level.most, excess) ELSE 0

\* A bug: the carried days are written but never released.
GrossUnreleased(row, level, periods) == level.added * periods

\* What this pass owes: the periods' grants and the days carried so far.
Gross(row, level, periods) ==
  IF level.every = 0 THEN level.added ELSE level.added * periods + row.carried

\* advance_watermark: by exactly the granted periods; a one-time grant marks `now`.
AdvanceWatermark(level, mark, periods, now) ==
  IF level.every = 0 THEN now ELSE mark + level.every * periods

-----------------------------------------------------------------------------
(* A run.                                                                  *)

Begin(w, s) ==
  /\ run[w].pc = "idle"
  /\ run' = [run EXCEPT ![w] = [Idle EXCEPT !.pc = "claim", !.now = today, !.start = s]]
  /\ UNCHANGED <<today, balance, ladder, ledger>>

\* The row a run is at, and those it has still to process: by place in Order.
Current(w) == run[w].rows[Min(DOMAIN run[w].rows)]
Rest(w)    == Restrict(run[w].rows, DOMAIN run[w].rows \ {Min(DOMAIN run[w].rows)})

\* The rows other runs hold locked while this one claims.
InFlight(w) == {Current(v).id : v \in {u \in Walkers \ {w} : run[u].pc = "rows"}}

\* History: what HR's adjustments of b come to so far.
Adjusted(b) == balance[b].allocated - ledger[b].granted

\* A row as the claim reads it; `adjusted` is history, nothing decides by it.
Row(b) == [id |-> b, allocated |-> balance[b].allocated, carried |-> balance[b].carried,
           mark |-> balance[b].mark, adjusted |-> Adjusted(b)]

\* FOR UPDATE SKIP LOCKED LIMIT batch: the first candidates that no open
\* transaction has locked.  Nothing tells a row that was walked from one that
\* was not.
Claimable(locked) ==
  LET free == {i \in DOMAIN Order : ~balance[Order[i]].expired /\ Order[i] \notin locked}
  IN {i \in free : Cardinality({j \in free : j <= i}) <= Batch}

Claim(w) ==
  /\ run[w].pc = "claim"
  /\ \E locked \in SUBSET InFlight(w) :
       LET claimed == Claimable(locked)
       IN run' = [run EXCEPT ![w] =
                    IF claimed = {} THEN Idle
                    ELSE [run[w] EXCEPT !.pc = "rows", !.pass = @ + 1,
                                        !.rows = [i \in claimed |-> Row(Order[i])]]]
  /\ UNCHANGED <<today, balance, ladder, ledger>>

\* A bug: the passes go on until nothing can be claimed.
AdvanceUntilDry(w) ==
  run' = [run EXCEPT ![w] =
            IF DOMAIN Rest(w) # {} THEN [@ EXCEPT !.rows = Rest(w)]
            ELSE [@ EXCEPT !.pc = "claim", !.pass = 0, !.rows = <<>>]]

\* On to the next row, the next pass, or the end of the run.
Advance(w) ==
  run' = [run EXCEPT ![w] =
            IF DOMAIN Rest(w) # {} THEN [@ EXCEPT !.rows = Rest(w)]
            ELSE IF @.pass < MaxBatches THEN [@ EXCEPT !.pc = "claim", !.rows = <<>>]
            ELSE Idle]

\* stamp_expired; a second stamp is a no-op.
StampExpired(w) ==
  /\ run[w].pc = "rows"
  /\ LET b == Current(w).id
     IN /\ Expires(b, run[w].now)
        /\ balance' = [balance EXCEPT ![b].expired = TRUE]
  /\ Advance(w)
  /\ UNCHANGED <<today, ladder, ledger>>

\* Not due, or skipped: no start of the allocation, no rung that has begun.
PassOver(w) ==
  /\ run[w].pc = "rows"
  /\ LET row == Current(w)
     IN ~Expires(row.id, run[w].now) /\ ~IsDue(row, run[w].now, run[w].start)
  /\ Advance(w)
  /\ UNCHANGED <<today, balance, ladder, ledger>>

\* Bugs: one half of the guard of apply_grant is missing.
UnguardedMark(row)   == ~balance[row.id].expired
UnguardedExpiry(row) == balance[row.id].mark = row.mark

\* The WHERE of apply_grant.
ApplyGate(row) == balance[row.id].mark = row.mark /\ ~balance[row.id].expired

ApplyGrant(w) ==
  LET row     == Current(w)
      b       == row.id
      now     == run[w].now
      level   == Level(b, now)
      mark    == Watered(row, level, run[w].start)
      periods == IF level.every = 0 THEN 1 ELSE PeriodsDue(level.every, mark, now)
      gross   == Gross(row, level, periods)
      granted == Granted(level, row.allocated, gross)
      carried == Carried(level, gross - granted)
      reached == AdvanceWatermark(level, mark, periods, now)
      paid    == IF level.every = 0 THEN {} ELSE mark + 1 .. mark + level.every * periods
  IN /\ run[w].pc = "rows"
     /\ IsDue(row, now, run[w].start)
     /\ ApplyGate(row)
     /\ balance' = [balance EXCEPT ![b] =
          [balance[b] EXCEPT !.allocated = @ + granted, !.carried = carried, !.mark = reached]]
     /\ ledger' = [ledger EXCEPT ![b] = [ledger[b] EXCEPT
          !.times   = [d \in DayRange |-> IF d \in paid THEN @[d] + 1 ELSE @[d]],
          !.passed  = @ \cup (Watermark(b, row.mark) + 1
                                .. IF level.every = 0 THEN reached ELSE mark),
          !.once    = IF level.every = 0 THEN @ + 1 ELSE @,
          !.gross   = @ + level.added * periods,
          !.granted = @ + granted,
          !.lost    = @ + (gross - granted - carried)]]
     /\ Advance(w)
     /\ UNCHANGED <<today, ladder>>

\* Another run moved the row since the claim: zero rows match.
Raced(w) ==
  /\ run[w].pc = "rows"
  /\ LET row == Current(w)
     IN IsDue(row, run[w].now, run[w].start) /\ ~ApplyGate(row)
  /\ Advance(w)
  /\ UNCHANGED <<today, balance, ladder, ledger>>

\* A bug: a row that fails ends the run.
RowFailsTheRun(w) ==
  /\ run[w].pc = "rows"
  /\ Current(w).id \in Poisoned
  /\ run' = [run EXCEPT ![w] = Idle]
  /\ UNCHANGED <<today, balance, ladder, ledger>>

\* A poisoned row rolls back only itself.
RowFails(w) ==
  /\ run[w].pc = "rows"
  /\ Current(w).id \in Poisoned
  /\ Advance(w)
  /\ UNCHANGED <<today, balance, ladder, ledger>>

\* The process dies, or a claim or a commit fails: the run ends.
RunDies(w) ==
  /\ run[w].pc # "idle"
  /\ run' = [run EXCEPT ![w] = Idle]
  /\ UNCHANGED <<today, balance, ladder, ledger>>

Tick ==
  /\ today < LastDay
  /\ today' = today + 1
  /\ UNCHANGED <<balance, ladder, run, ledger>>

\* adjust_balance, from outside the walk.
AdjustBalance(b, delta) ==
  /\ balance[b].allocated + delta \in 0 .. MaxAdjusted
  /\ balance' = [balance EXCEPT ![b].allocated = @ + delta]
  /\ UNCHANGED <<today, ladder, run, ledger>>

\* A bug: the row rules of a level are not attached.
UncheckedLevel(l) == TRUE

\* The row rules of a level, and its CHECKs: no negative count or amount.
LevelRules(l) == l # None => l \in Levels

Rung(d) == ladder[d.of][d.sequence]

WriteLevel(d, level) ==
  /\ LevelRules(level)
  /\ ladder' = [ladder EXCEPT ![d.of][d.sequence] = level]
  /\ UNCHANGED <<today, balance, run, ledger>>

\* POST, or a restore: a sequence has one live level, by the unique index.
CreateLevel(d) ==
  /\ Rung(d) = None /\ d.level # None
  /\ WriteLevel(d, d.level)

\* PUT replaces every field.
PutLevel(d) ==
  /\ Rung(d) # None /\ d.level # None
  /\ WriteLevel(d, d.level)

\* PATCH replaces the fields it names.
PatchLevel(d) ==
  /\ Rung(d) # None /\ d.level # None
  /\ WriteLevel(d, [f \in Fields |-> IF f \in d.named THEN d.level[f] ELSE Rung(d)[f]])

\* A soft delete takes the level off the ladder at once.
DeleteLevel(d) ==
  /\ Rung(d) # None /\ d.level = None
  /\ WriteLevel(d, None)

EditLevel(d) == CreateLevel(d) \/ PutLevel(d) \/ PatchLevel(d) \/ DeleteLevel(d)

-----------------------------------------------------------------------------
Continue(w) ==
  \/ Claim(w)
  \/ RowFails(w)
  \/ PassOver(w)
  \/ StampExpired(w)
  \/ Raced(w)
  \/ ApplyGrant(w)

SteadyNext ==
  \/ Tick
  \/ \E w \in Walkers, s \in Starts : Begin(w, s)
  \/ \E w \in Walkers : Continue(w)
  \/ \E b \in Balances, delta \in Deltas : AdjustBalance(b, delta)
  \/ \E d \in Drafts : EditLevel(d)

Next == SteadyNext \/ \E w \in Walkers : RunDies(w)

Spec == Init /\ [][Next]_vars

\* The schedule starts a run every day, and a run goes on to its end.
FairSpec ==
  /\ Init /\ [][SteadyNext]_vars
  /\ \A w \in Walkers : WF_vars(Continue(w)) /\ WF_vars(\E s \in Starts : Begin(w, s))

-----------------------------------------------------------------------------
(* Properties.                                                             *)

TypeOK ==
  /\ today \in DayRange
  /\ \A b \in Balances :
       balance[b] \in [allocated : Nat, carried : Nat, mark : DayRange \cup {None},
                       expired : BOOLEAN]
  /\ \A w \in Walkers :
       /\ run[w].pc \in {"idle", "claim", "rows"}
       /\ run[w].pc = "rows" <=> DOMAIN run[w].rows # {}
       /\ run[w].pass \in 0 .. MaxBatches

\* "Re-runs never double-grant", "remainders are never silently absorbed":
\* however runs of different days and start points interleave and die, a day up
\* to the watermark was paid once or passed over, and a one-time grant is paid
\* once.
EveryPeriodPaidOnce ==
  \A b \in Balances :
    LET l == ledger[b]
    IN /\ l.once <= 1
       /\ From[b] # None =>
            \A d \in From[b] + 1 .. LastDay :
              l.times[d] =
                IF d <= Watermark(b, balance[b].mark) /\ d \notin l.passed THEN 1 ELSE 0

\* Nothing leaks between passes: all that periods brought was granted, lost by
\* the level's rule, or is carried over still.
EveryDayAccountedFor ==
  \A b \in Balances :
    ledger[b].gross = ledger[b].granted + ledger[b].lost + balance[b].carried

\* A level's cap is a cap on the balance, although the headroom of a grant is
\* computed from the claim: no grant takes the balance over the cap of some rung
\* that has begun by more than HR itself added since the row was claimed.  What
\* other runs granted in between never counts twice.
GrantsRespectTheCap ==
  [][\A b \in Balances, w \in Walkers :
       ledger'[b].granted > ledger[b].granted /\ run'[w] # run[w] =>
         LET added == Max({0, Adjusted(b) - Current(w).adjusted})
         IN \E i \in Begun(b, today) :
              \/ ladder[b][i].cap = None
              \/ balance'[b].allocated <= ladder[b][i].cap + added]_vars

\* A one-time rung pays a balance that nothing has paid yet, or not at all,
\* although the ladder is edited while runs hold balances they claimed unpaid.
OneTimeGrantComesFirst ==
  [][\A b \in Balances :
       ledger'[b].once > ledger[b].once =>
         ledger[b].once = 0 /\ \A d \in DayRange : ledger[b].times[d] = 0]_vars

\* An expired balance accrues nothing more, not even from a run that claimed it
\* before it expired.
ExpiredStopsAccruing ==
  [][\A b \in Balances :
       balance[b].expired => /\ balance'[b].expired
                             /\ ledger'[b] = ledger[b]]_vars

\* Has a run of today anything to grant to b?
Behind(b) == ~balance[b].expired /\ IsDue(Row(b), today, None)

\* A period that fell due is granted by some later run, whatever other rows do.
DuePeriodsAreGranted == \A b \in Balances \ Poisoned : Behind(b) ~> ~Behind(b)

\* Every run ends, with rows to claim left or not.
RunsEnd == \A w \in Walkers : run[w].pc # "idle" ~> run[w].pc = "idle"
=============================================================================
