------------------------- MODULE AccrualWalkProofs -------------------------
(***************************************************************************)
(* Proofs about AccrualWalk, for any balances, runs, ladders, drafts,      *)
(* start points and batches.                                               *)
(***************************************************************************)
EXTENDS AccrualWalk, WellFoundedInduction, TLAPS

(* Arithmetic.                                                             *)

LEMMA MinOfTwo ==
  ASSUME NEW x \in Int, NEW y \in Int
  PROVE  Min({x, y}) = IF x <= y THEN x ELSE y
BY DEF Min

LEMMA MaxOfTwo ==
  ASSUME NEW x \in Int, NEW y \in Int
  PROVE  Max({x, y}) = IF x <= y THEN y ELSE x
BY DEF Max

LEMMA ProductOfNats ==
  ASSUME NEW x \in Nat, NEW y \in Nat
  PROVE  x * y \in Nat
OBVIOUS

LEMMA ProductIsPositive ==
  ASSUME NEW x \in Nat \ {0}, NEW y \in Nat \ {0}
  PROVE  x * y \in Nat /\ x * y > 0
OBVIOUS

LEMMA WholePeriodsFit ==
  ASSUME NEW n \in Int, NEW d \in Nat \ {0}
  PROVE  n \div d \in Int /\ d * (n \div d) <= n
OBVIOUS

\* A set of numbers has a least one.
LEMMA LeastNumber ==
  ASSUME NEW S, S \subseteq Nat, S # {}
  PROVE  \E x \in S : \A y \in S : x <= y
<1>1. PICK x \in S : \A y \in S : <<y, x>> \notin OpToRel(<, Nat)
  BY NatLessThanWellFounded, WFMin
<1>2. \A y \in S : <<y, x>> \in Nat \X Nat
  OBVIOUS
<1>3. \A y \in S : ~(y < x)
  BY <1>1, <1>2, Zenon DEF OpToRel
<1> QED BY <1>3

LEMMA LeastOf ==
  ASSUME NEW S, S \subseteq Nat, S # {}
  PROVE  Min(S) \in S
BY LeastNumber DEF Min

\* A bounded one has a greatest.
LEMMA GreatestOf ==
  ASSUME NEW S, NEW n \in Nat, S \subseteq 0 .. n, S # {}
  PROVE  Max(S) \in S
<1> DEFINE T == {i \in 0 .. n : n - i \in S}
<1>1. T \subseteq Nat
  OBVIOUS
<1>2. T # {}
  <2>1. PICK x \in S : TRUE
    OBVIOUS
  <2>2. x \in 0 .. n
    OBVIOUS
  <2>3. n - x \in 0 .. n /\ n - (n - x) = x
    BY <2>2
  <2> QED BY <2>3
<1>3. PICK t \in T : \A u \in T : t <= u
  BY <1>1, <1>2, LeastNumber
<1>4. \A y \in S : n - t >= y
  <2>1. TAKE y \in S
  <2>2. y \in 0 .. n
    OBVIOUS
  <2>3. n - y \in 0 .. n /\ n - (n - y) = y
    BY <2>2
  <2>4. n - y \in T
    BY <2>3
  <2>5. t <= n - y /\ t \in 0 .. n
    BY <1>3, <2>4
  <2> QED BY <2>2, <2>5
<1>5. n - t \in S
  OBVIOUS
<1> QED BY <1>4, <1>5 DEF Max

-----------------------------------------------------------------------------
(* The invariant.                                                          *)

Days        == DayRange \cup {None}
ClaimedRows == [id : Balances, allocated : Nat, carried : Nat, mark : Days, adjusted : Int]
RowMaps     == UNION {[S -> ClaimedRows] : S \in SUBSET DOMAIN Order}
BalanceRow  == [allocated : Nat, carried : Nat, mark : Days, expired : BOOLEAN]
RunState    == [pc : {"idle", "claim", "rows"}, now : DayRange, start : Int \cup {None},
                pass : 0 .. MaxBatches, rows : RowMaps]
LedgerRow   == [times : [DayRange -> Nat], passed : SUBSET Int, once : Nat, gross : Nat,
                granted : Nat, lost : Nat]

RunsTyped ==
  /\ run \in [Walkers -> RunState]
  /\ \A w \in Walkers :
       /\ run[w].pc = "rows" <=> DOMAIN run[w].rows # {}
       /\ run[w].pc = "claim" => run[w].pass < MaxBatches
       /\ run[w].now <= today

Typed ==
  /\ today \in DayRange
  /\ balance \in [Balances -> BalanceRow]
  /\ ledger \in [Balances -> LedgerRow]
  /\ \A b \in Balances :
       b \in DOMAIN ladder /\ ladder[b] \in [DOMAIN Ladder[b] -> Levels \cup {None}]
  /\ RunsTyped

\* A row that was claimed is the balance as it is, or as it was at an earlier
\* watermark: days are carried over and granted only by a grant, and a grant
\* moves the watermark on.
Aged(row) ==
  /\ row.mark # None => /\ balance[row.id].mark # None
                        /\ row.mark <= balance[row.id].mark
  /\ row.mark = balance[row.id].mark =>
       /\ row.carried = balance[row.id].carried
       /\ ledger[row.id].granted = row.allocated - row.adjusted

RowsAged == \A w \in Walkers : \A i \in DOMAIN run[w].rows : Aged(run[w].rows[i])

\* Without a watermark nothing was paid, kept or passed over; with one, nothing
\* beyond it was passed over.
MarkTells(b) ==
  /\ balance[b].mark = None =>
       /\ balance[b].carried = 0 /\ ledger[b].once = 0 /\ ledger[b].passed = {}
       /\ \A d \in DayRange : ledger[b].times[d] = 0
  /\ balance[b].mark # None => \A d \in ledger[b].passed : d <= balance[b].mark

\* The parts of EveryPeriodPaidOnce and EveryDayAccountedFor, balance by balance.
PaidOnce(b) ==
  /\ ledger[b].once <= 1
  /\ From[b] # None =>
       \A d \in From[b] + 1 .. LastDay :
         ledger[b].times[d] =
           IF d <= Watermark(b, balance[b].mark) /\ d \notin ledger[b].passed THEN 1 ELSE 0

Accounted(b) == ledger[b].gross = ledger[b].granted + ledger[b].lost + balance[b].carried

Books == \A b \in Balances : MarkTells(b) /\ PaidOnce(b) /\ Accounted(b)

IInv == Typed /\ RowsAged /\ Books

-----------------------------------------------------------------------------
LEMMA Constants ==
  /\ None \notin Int /\ LastDay \in Nat /\ MaxBatches \in Nat \ {0}
  /\ \A b \in Balances : From[b] \in Days /\ DOMAIN Ladder[b] \subseteq 1 .. Len(Ladder[b])
                         /\ Len(Ladder[b]) \in Nat
BY PlanAssumption DEF Days

LEMMA NoRows == <<>> \in RowMaps /\ DOMAIN <<>> = {}
<1>1. <<>> \in [{} -> ClaimedRows]
  OBVIOUS
<1> QED BY <1>1 DEF RowMaps

LEMMA InitIInv == Init => IInv
<1> SUFFICES ASSUME Init PROVE IInv
  OBVIOUS
<1>1. Typed
  <2>1. today \in DayRange /\ \A w \in Walkers : run[w].now <= today
    BY Constants DEF Init, DayRange, Idle
  <2>2. balance \in [Balances -> BalanceRow]
    BY DEF Init, BalanceRow, Days
  <2>3. ledger \in [Balances -> LedgerRow]
    BY DEF Init, LedgerRow
  <2>4. \A b \in Balances :
          b \in DOMAIN ladder /\ ladder[b] \in [DOMAIN Ladder[b] -> Levels \cup {None}]
    BY PlanAssumption DEF Init
  <2>5. run \in [Walkers -> RunState]
    BY NoRows, Constants DEF Init, Idle, RunState, DayRange
  <2>6. \A w \in Walkers : /\ run[w].pc = "rows" <=> DOMAIN run[w].rows # {}
                           /\ run[w].pc = "claim" => run[w].pass < MaxBatches
    BY NoRows DEF Init, Idle
  <2> QED BY <2>1, <2>2, <2>3, <2>4, <2>5, <2>6 DEF Typed, RunsTyped
<1>2. RowsAged
  BY NoRows DEF Init, Idle, RowsAged
<1>3. ASSUME NEW b \in Balances PROVE MarkTells(b) /\ PaidOnce(b) /\ Accounted(b)
  <2>1. /\ balance[b].mark = None /\ balance[b].carried = 0
        /\ ledger[b] = [times |-> [d \in DayRange |-> 0], passed |-> {}, once |-> 0,
                        gross |-> 0, granted |-> 0, lost |-> 0]
    BY DEF Init
  <2>2. MarkTells(b) /\ Accounted(b)
    BY <2>1 DEF MarkTells, Accounted
  <2>3. From[b] # None =>
          \A d \in From[b] + 1 .. LastDay : d \in DayRange /\ ~(d <= From[b])
    BY Constants DEF Days, DayRange
  <2>4. PaidOnce(b)
    BY <2>1, <2>3 DEF PaidOnce, Watermark
  <2> QED BY <2>2, <2>4
<1> QED BY <1>1, <1>2, <1>3 DEF IInv, Books

-----------------------------------------------------------------------------
(* The steps of a run that keep the balances.                              *)

\* Every row a run has now it had before.
RowsKept ==
  \A v \in Walkers : \A i \in DOMAIN run'[v].rows :
    i \in DOMAIN run[v].rows /\ run'[v].rows[i] = run[v].rows[i]

LEMMA CurrentIsARow ==
  ASSUME Typed, NEW w \in Walkers, run[w].pc = "rows"
  PROVE  /\ Current(w) \in ClaimedRows
         /\ \E i \in DOMAIN run[w].rows : Current(w) = run[w].rows[i]
<1>1. run[w].rows \in RowMaps /\ DOMAIN run[w].rows # {}
  BY DEF Typed, RunsTyped, RunState
<1>2. PICK S \in SUBSET DOMAIN Order : run[w].rows \in [S -> ClaimedRows]
  BY <1>1 DEF RowMaps
<1>3. DOMAIN Order \subseteq Nat
  BY OrderAssumption
<1>4. Min(DOMAIN run[w].rows) \in DOMAIN run[w].rows
  BY <1>1, <1>2, <1>3, LeastOf
<1> QED BY <1>2, <1>4 DEF Current

LEMMA RestOfRows ==
  ASSUME Typed, NEW w \in Walkers
  PROVE  /\ Rest(w) \in RowMaps
         /\ \A i \in DOMAIN Rest(w) : i \in DOMAIN run[w].rows /\ Rest(w)[i] = run[w].rows[i]
<1>0. run[w].rows \in RowMaps
  BY DEF Typed, RunsTyped, RunState
<1>1. PICK S \in SUBSET DOMAIN Order : run[w].rows \in [S -> ClaimedRows]
  BY <1>0 DEF RowMaps
<1> DEFINE T == S \ {Min(S)}
<1>2. Rest(w) = [i \in T |-> run[w].rows[i]]
  BY <1>1 DEF Rest, Restrict
<1>3. Rest(w) \in [T -> ClaimedRows] /\ T \in SUBSET DOMAIN Order
  BY <1>1, <1>2
<1> QED BY <1>1, <1>2, <1>3 DEF RowMaps

\* A run goes on with the rest of its rows, or with none.
LEMMA AdvanceKeepsRows ==
  ASSUME Typed, NEW w \in Walkers, run[w].pc = "rows", today' = today,
         Advance(w) \/ run' = [run EXCEPT ![w] = Idle]
  PROVE  RunsTyped' /\ RowsKept
<1>1. run \in [Walkers -> RunState] /\ today \in DayRange
  BY DEF Typed, RunsTyped
<1>2. Idle \in RunState /\ Idle.now <= today /\ Idle.pc = "idle" /\ Idle.rows = <<>>
  BY <1>1, NoRows, Constants DEF Idle, RunState, DayRange
<1>3. CASE run' = [run EXCEPT ![w] = Idle]
  BY <1>1, <1>2, <1>3, NoRows DEF Typed, RunsTyped, RowsKept
<1>4. CASE Advance(w)
  <2>1. CASE DOMAIN Rest(w) # {}
    <3>1. run' = [run EXCEPT ![w] = [run[w] EXCEPT !.rows = Rest(w)]]
      BY <1>4, <2>1 DEF Advance
    <3> DEFINE s == [run[w] EXCEPT !.rows = Rest(w)]
    <3>2. /\ s \in RunState /\ s.pc = "rows" /\ s.now = run[w].now /\ s.rows = Rest(w)
      BY <1>1, RestOfRows DEF RunState
    <3> HIDE DEF s
    <3>3. run'[w] = s /\ \A v \in Walkers \ {w} : run'[v] = run[v]
      BY <1>1, <3>1 DEF s
    <3>4. run' \in [Walkers -> RunState]
      BY <1>1, <3>1, <3>2 DEF s
    <3>5. RunsTyped'
      BY <2>1, <3>2, <3>3, <3>4 DEF Typed, RunsTyped
    <3>6. RowsKept
      BY <3>2, <3>3, RestOfRows DEF RowsKept
    <3> QED BY <3>5, <3>6
  <2>2. CASE DOMAIN Rest(w) = {} /\ run[w].pass < MaxBatches
    <3>1. run' = [run EXCEPT ![w] = [run[w] EXCEPT !.pc = "claim", !.rows = <<>>]]
      BY <1>4, <2>2 DEF Advance
    <3> DEFINE s == [run[w] EXCEPT !.pc = "claim", !.rows = <<>>]
    <3>2. /\ s \in RunState /\ s.pc = "claim" /\ s.now = run[w].now /\ s.rows = <<>>
          /\ s.pass < MaxBatches
      BY <1>1, <2>2, NoRows DEF RunState
    <3> HIDE DEF s
    <3>3. run'[w] = s /\ \A v \in Walkers \ {w} : run'[v] = run[v]
      BY <1>1, <3>1 DEF s
    <3>4. run' \in [Walkers -> RunState]
      BY <1>1, <3>1, <3>2 DEF s
    <3>5. RunsTyped'
      BY <3>2, <3>3, <3>4, NoRows DEF Typed, RunsTyped
    <3>6. RowsKept
      BY <3>2, <3>3, NoRows DEF RowsKept
    <3> QED BY <3>5, <3>6
  <2>3. CASE DOMAIN Rest(w) = {} /\ ~(run[w].pass < MaxBatches)
    <3>1. run' = [run EXCEPT ![w] = Idle]
      BY <1>4, <2>3 DEF Advance
    <3> QED BY <1>3, <3>1
  <2> QED BY <2>1, <2>2, <2>3
<1> QED BY <1>3, <1>4

\* A step that leaves the books alone.
LEMMA BooksUntouched ==
  ASSUME IInv, UNCHANGED <<today, balance, ladder, ledger>>, RunsTyped', RowsAged'
  PROVE  IInv'
<1>1. Typed'
  BY DEF IInv, Typed, RunsTyped
<1>2. Books'
  BY DEF IInv, Books, MarkTells, PaidOnce, Accounted, Watermark
<1> QED BY <1>1, <1>2 DEF IInv

LEMMA KeptRowsAged ==
  ASSUME RowsAged, RowsKept, UNCHANGED <<balance, ledger>>
  PROVE  RowsAged'
BY DEF RowsAged, RowsKept, Aged

LEMMA BeginIInv ==
  ASSUME IInv, NEW w \in Walkers, NEW s \in Starts, Begin(w, s)
  PROVE  IInv'
<1> DEFINE fresh == [Idle EXCEPT !.pc = "claim", !.now = today, !.start = s]
<1>1. run' = [run EXCEPT ![w] = fresh] /\ UNCHANGED <<today, balance, ladder, ledger>>
  BY DEF Begin
<1>2. today \in DayRange /\ run \in [Walkers -> RunState]
  BY DEF IInv, Typed, RunsTyped
<1>3. /\ fresh \in RunState /\ fresh.pc = "claim" /\ fresh.now <= today
      /\ fresh.rows = <<>> /\ fresh.pass < MaxBatches
  <2>1. s \in Int \cup {None}
    BY PlanAssumption
  <2>2. 0 \in 0 .. MaxBatches /\ 0 < MaxBatches /\ today <= today
    BY <1>2, Constants DEF DayRange
  <2>3. Idle \in RunState /\ Idle.rows = <<>> /\ Idle.pass = 0
    BY <1>2, <2>2, NoRows, Constants DEF Idle, RunState, DayRange
  <2> QED BY <1>2, <2>1, <2>2, <2>3 DEF RunState
<1> HIDE DEF fresh
<1>4. run'[w] = fresh /\ \A v \in Walkers \ {w} : run'[v] = run[v]
  BY <1>1, <1>2
<1>5. RunsTyped'
  BY <1>1, <1>2, <1>3, <1>4, NoRows DEF IInv, Typed, RunsTyped
<1>6. RowsKept
  BY <1>3, <1>4, NoRows DEF RowsKept
<1> QED BY <1>1, <1>5, <1>6, KeptRowsAged, BooksUntouched DEF IInv

LEMMA RowIsAged ==
  ASSUME Typed, NEW b \in Balances
  PROVE  Row(b) \in ClaimedRows /\ Aged(Row(b))
<1>1. /\ balance[b].allocated \in Nat /\ balance[b].carried \in Nat /\ balance[b].mark \in Days
      /\ ledger[b].granted \in Nat
  BY DEF Typed, BalanceRow, LedgerRow
<1>2. Adjusted(b) \in Int /\ ledger[b].granted = balance[b].allocated - Adjusted(b)
  BY <1>1 DEF Adjusted
<1>3. balance[b].mark # None => balance[b].mark <= balance[b].mark
  BY <1>1 DEF Days, DayRange
<1> QED BY <1>1, <1>2, <1>3 DEF Row, ClaimedRows, Aged

LEMMA ClaimIInv ==
  ASSUME IInv, NEW w \in Walkers, Claim(w)
  PROVE  IInv'
<1>1. UNCHANGED <<today, balance, ladder, ledger>> /\ run[w].pc = "claim"
  BY DEF Claim
<1>2. PICK locked \in SUBSET InFlight(w) :
        run' = [run EXCEPT ![w] =
                  IF Claimable(locked) = {} THEN Idle
                  ELSE [run[w] EXCEPT !.pc = "rows", !.pass = run[w].pass + 1,
                                      !.rows = [i \in Claimable(locked) |-> Row(Order[i])]]]
  BY DEF Claim
<1>3. run \in [Walkers -> RunState] /\ today \in DayRange /\ Typed
  BY DEF IInv, Typed, RunsTyped
<1>4. CASE Claimable(locked) = {}
  <2>1. Idle \in RunState /\ Idle.now <= today /\ Idle.pc = "idle" /\ Idle.rows = <<>>
    BY <1>3, NoRows, Constants DEF Idle, RunState, DayRange
  <2>2. run' = [run EXCEPT ![w] = Idle]
    BY <1>2, <1>4
  <2>3. RunsTyped' /\ RowsKept
    BY <1>1, <1>3, <2>1, <2>2, NoRows DEF Typed, RunsTyped, RowsKept
  <2> QED BY <1>1, <2>3, KeptRowsAged, BooksUntouched DEF IInv
<1>5. CASE Claimable(locked) # {}
  <2> DEFINE rows == [i \in Claimable(locked) |-> Row(Order[i])]
             s    == [run[w] EXCEPT !.pc = "rows", !.pass = run[w].pass + 1, !.rows = rows]
  <2>1. Claimable(locked) \in SUBSET DOMAIN Order
    BY DEF Claimable
  <2>2. \A i \in DOMAIN Order : Order[i] \in Balances
    BY OrderAssumption
  <2>3. rows \in [Claimable(locked) -> ClaimedRows]
    BY <1>3, <2>1, <2>2, RowIsAged
  <2>4. rows \in RowMaps
    BY <2>1, <2>3 DEF RowMaps
  <2>5. DOMAIN rows # {} /\ \A i \in DOMAIN rows : Aged(rows[i])
    BY <1>3, <1>5, <2>1, <2>2, RowIsAged
  <2> HIDE DEF rows
  <2>6. run[w] \in RunState /\ run[w].pass + 1 \in 0 .. MaxBatches
    <3>1. run[w].pass \in 0 .. MaxBatches /\ run[w].pass < MaxBatches
      BY <1>1, <1>3 DEF Typed, RunsTyped, RunState
    <3> QED BY <1>3, <3>1, Constants
  <2>7. /\ s \in RunState /\ s.pc = "rows" /\ s.now = run[w].now /\ s.rows = rows
    BY <2>4, <2>6 DEF RunState
  <2>8. run' = [run EXCEPT ![w] = s]
    <3>1. run' = [run EXCEPT ![w] = IF Claimable(locked) = {} THEN Idle ELSE s]
      BY <1>2 DEF rows, s
    <3> HIDE DEF s
    <3> QED BY <1>5, <3>1
  <2> HIDE DEF s
  <2>9. run'[w] = s /\ \A v \in Walkers \ {w} : run'[v] = run[v]
    BY <1>3, <2>8
  <2>10. RunsTyped'
    BY <1>1, <1>3, <2>5, <2>7, <2>8, <2>9 DEF Typed, RunsTyped
  <2>11. RowsAged'
    BY <1>1, <2>5, <2>7, <2>9 DEF IInv, RowsAged, Aged
  <2> QED BY <1>1, <2>10, <2>11, BooksUntouched
<1> QED BY <1>4, <1>5

LEMMA RowLeftAlone ==
  ASSUME IInv, NEW w \in Walkers, PassOver(w) \/ Raced(w) \/ RowFails(w)
  PROVE  IInv'
<1>1. /\ run[w].pc = "rows" /\ Advance(w)
      /\ UNCHANGED <<today, balance, ladder, ledger>>
  BY DEF PassOver, Raced, RowFails
<1>2. RunsTyped' /\ RowsKept
  BY <1>1, AdvanceKeepsRows DEF IInv
<1> QED BY <1>1, <1>2, KeptRowsAged, BooksUntouched DEF IInv

LEMMA RunDiesIInv ==
  ASSUME IInv, NEW w \in Walkers, RunDies(w)
  PROVE  IInv'
<1>1. run' = [run EXCEPT ![w] = Idle] /\ UNCHANGED <<today, balance, ladder, ledger>>
  BY DEF RunDies
<1>2. run \in [Walkers -> RunState] /\ today \in DayRange
  BY DEF IInv, Typed, RunsTyped
<1>3. Idle \in RunState /\ Idle.now <= today /\ Idle.pc = "idle" /\ Idle.rows = <<>>
  BY <1>2, NoRows, Constants DEF Idle, RunState, DayRange
<1>4. RunsTyped' /\ RowsKept
  BY <1>1, <1>2, <1>3, NoRows DEF IInv, Typed, RunsTyped, RowsKept
<1> QED BY <1>1, <1>4, KeptRowsAged, BooksUntouched DEF IInv

\* A step that moves at most what the walk does not look back at: the day, the
\* ladder, the allocations and the expiry stamps.
LEMMA MarksUntouched ==
  ASSUME IInv, today' \in DayRange, today <= today', RunsTyped', RowsKept, ledger' = ledger,
         balance' \in [Balances -> BalanceRow],
         \A b \in Balances : /\ balance'[b].mark = balance[b].mark
                             /\ balance'[b].carried = balance[b].carried,
         \A b \in Balances :
           b \in DOMAIN ladder' /\ ladder'[b] \in [DOMAIN Ladder[b] -> Levels \cup {None}]
  PROVE  IInv'
<1>1. Typed'
  BY DEF IInv, Typed
<1>2. \A v \in Walkers : \A i \in DOMAIN run[v].rows : run[v].rows[i].id \in Balances
  <2>1. \A v \in Walkers : run[v].rows \in RowMaps
    BY DEF IInv, Typed, RunsTyped, RunState
  <2>2. \A m \in RowMaps : \A i \in DOMAIN m : m[i].id \in Balances
    BY DEF RowMaps, ClaimedRows
  <2> QED BY <2>1, <2>2
<1>3. RowsAged'
  <2>1. \A v \in Walkers : \A i \in DOMAIN run[v].rows :
          /\ Aged(run[v].rows[i])
          /\ balance'[run[v].rows[i].id].mark = balance[run[v].rows[i].id].mark
          /\ balance'[run[v].rows[i].id].carried = balance[run[v].rows[i].id].carried
    BY <1>2 DEF IInv, RowsAged
  <2> QED BY <2>1 DEF RowsKept, RowsAged, Aged
<1>4. Books'
  BY DEF IInv, Books, MarkTells, PaidOnce, Accounted, Watermark
<1> QED BY <1>1, <1>3, <1>4 DEF IInv

LEMMA TickIInv == ASSUME IInv, Tick PROVE IInv'
<1>1. today' = today + 1 /\ today < LastDay /\ UNCHANGED <<balance, ladder, run, ledger>>
  BY DEF Tick
<1>2. today \in DayRange /\ \A w \in Walkers : run[w].now \in DayRange /\ run[w].now <= today
  BY DEF IInv, Typed, RunsTyped, RunState
<1>3. today' \in DayRange /\ today <= today' /\ \A w \in Walkers : run[w].now <= today'
  BY <1>1, <1>2, Constants DEF DayRange
<1>4. RunsTyped' /\ RowsKept
  BY <1>1, <1>3 DEF IInv, Typed, RunsTyped, RowsKept
<1>5. /\ balance' \in [Balances -> BalanceRow]
      /\ \A b \in Balances :
           b \in DOMAIN ladder' /\ ladder'[b] \in [DOMAIN Ladder[b] -> Levels \cup {None}]
  BY <1>1 DEF IInv, Typed
<1> QED BY <1>1, <1>3, <1>4, <1>5, MarksUntouched

LEMMA StampIInv == ASSUME IInv, NEW w \in Walkers, StampExpired(w) PROVE IInv'
<1> DEFINE b == Current(w).id
<1>1. /\ run[w].pc = "rows" /\ Advance(w) /\ UNCHANGED <<today, ladder, ledger>>
      /\ balance' = [balance EXCEPT ![b].expired = TRUE]
  BY DEF StampExpired
<1>2. RunsTyped' /\ RowsKept
  BY <1>1, AdvanceKeepsRows DEF IInv
<1>3. today \in DayRange /\ today <= today'
  BY <1>1 DEF IInv, Typed, DayRange
<1>4. balance \in [Balances -> BalanceRow]
  BY DEF IInv, Typed
<1>5. /\ balance' \in [Balances -> BalanceRow]
      /\ \A c \in Balances : /\ balance'[c].mark = balance[c].mark
                             /\ balance'[c].carried = balance[c].carried
  BY <1>1, <1>4 DEF BalanceRow
<1>6. \A c \in Balances :
        c \in DOMAIN ladder' /\ ladder'[c] \in [DOMAIN Ladder[c] -> Levels \cup {None}]
  BY <1>1 DEF IInv, Typed
<1> QED BY <1>1, <1>2, <1>3, <1>5, <1>6, MarksUntouched

LEMMA AdjustIInv ==
  ASSUME IInv, NEW b \in Balances, NEW delta \in Deltas, AdjustBalance(b, delta)
  PROVE  IInv'
<1>1. /\ UNCHANGED <<today, ladder, run, ledger>>
      /\ balance[b].allocated + delta \in 0 .. MaxAdjusted
      /\ balance' = [balance EXCEPT ![b].allocated = balance[b].allocated + delta]
  BY DEF AdjustBalance
<1>2. RunsTyped' /\ RowsKept
  BY <1>1 DEF IInv, Typed, RunsTyped, RowsKept
<1>3. today' \in DayRange /\ today <= today'
  BY <1>1 DEF IInv, Typed, DayRange
<1>4. /\ balance \in [Balances -> BalanceRow] /\ balance[b].allocated + delta \in Nat
  BY <1>1, PlanAssumption DEF IInv, Typed
<1>5. /\ balance' \in [Balances -> BalanceRow]
      /\ \A c \in Balances : /\ balance'[c].mark = balance[c].mark
                             /\ balance'[c].carried = balance[c].carried
  BY <1>1, <1>4 DEF BalanceRow
<1>6. \A c \in Balances :
        c \in DOMAIN ladder' /\ ladder'[c] \in [DOMAIN Ladder[c] -> Levels \cup {None}]
  BY <1>1 DEF IInv, Typed
<1> QED BY <1>1, <1>2, <1>3, <1>5, <1>6, MarksUntouched

LEMMA EditLevelIInv == ASSUME IInv, NEW d \in Drafts, EditLevel(d) PROVE IInv'
<1>1. PICK level : WriteLevel(d, level)
  BY DEF EditLevel, CreateLevel, PutLevel, PatchLevel, DeleteLevel
<1>2. /\ UNCHANGED <<today, balance, run, ledger>>
      /\ level \in Levels \cup {None}
      /\ ladder' = [ladder EXCEPT ![d.of][d.sequence] = level]
  BY <1>1 DEF WriteLevel, LevelRules
<1>3. d.of \in Balances /\ d.sequence \in DOMAIN Ladder[d.of]
  BY PlanAssumption
<1>4. RunsTyped' /\ RowsKept
  BY <1>2 DEF IInv, Typed, RunsTyped, RowsKept
<1>5. today' \in DayRange /\ today <= today'
  BY <1>2 DEF IInv, Typed, DayRange
<1>6. /\ balance' \in [Balances -> BalanceRow]
      /\ \A c \in Balances : /\ balance'[c].mark = balance[c].mark
                             /\ balance'[c].carried = balance[c].carried
  BY <1>2 DEF IInv, Typed
<1>7. ASSUME NEW c \in Balances
      PROVE  c \in DOMAIN ladder' /\ ladder'[c] \in [DOMAIN Ladder[c] -> Levels \cup {None}]
  <2>1. c \in DOMAIN ladder /\ ladder[c] \in [DOMAIN Ladder[c] -> Levels \cup {None}]
    BY DEF IInv, Typed
  <2>2. DOMAIN ladder' = DOMAIN ladder
    BY <1>2
  <2>3. CASE c = d.of
    <3>1. ladder'[c] = [ladder[c] EXCEPT ![d.sequence] = level]
      BY <1>2, <2>1, <2>3
    <3> QED BY <1>2, <1>3, <2>1, <2>2, <3>1
  <2>4. CASE c # d.of
    <3>1. ladder'[c] = ladder[c]
      BY <1>2, <2>1, <2>4
    <3> QED BY <2>1, <2>2, <3>1
  <2> QED BY <2>3, <2>4
<1> QED BY <1>2, <1>4, <1>5, <1>6, <1>7, MarksUntouched

-----------------------------------------------------------------------------
(* A grant.                                                                *)

\* The figures of the grant that w is about to apply.
TheLevel(w)   == Level(Current(w).id, run[w].now)
TheStart(w)   == Watered(Current(w), TheLevel(w), run[w].start)
ThePeriods(w) == IF TheLevel(w).every = 0 THEN 1
                 ELSE PeriodsDue(TheLevel(w).every, TheStart(w), run[w].now)
TheGross(w)   == Gross(Current(w), TheLevel(w), ThePeriods(w))
TheGrant(w)   == Granted(TheLevel(w), Current(w).allocated, TheGross(w))
TheCarry(w)   == Carried(TheLevel(w), TheGross(w) - TheGrant(w))
TheReach(w)   == AdvanceWatermark(TheLevel(w), TheStart(w), ThePeriods(w), run[w].now)
ThePaid(w)    == IF TheLevel(w).every = 0 THEN {}
                 ELSE TheStart(w) + 1 .. TheStart(w) + TheLevel(w).every * ThePeriods(w)
ThePassed(w)  == Watermark(Current(w).id, Current(w).mark) + 1
                   .. IF TheLevel(w).every = 0 THEN TheReach(w) ELSE TheStart(w)

LEMMA GrantUnfolded ==
  ASSUME NEW w \in Walkers, ApplyGrant(w)
  PROVE  LET b == Current(w).id
         IN /\ run[w].pc = "rows" /\ IsDue(Current(w), run[w].now, run[w].start)
            /\ ApplyGate(Current(w))
            /\ balance' = [balance EXCEPT ![b] =
                 [balance[b] EXCEPT !.allocated = balance[b].allocated + TheGrant(w),
                                    !.carried = TheCarry(w), !.mark = TheReach(w)]]
            /\ ledger' = [ledger EXCEPT ![b] = [ledger[b] EXCEPT
                 !.times   = [d \in DayRange |-> IF d \in ThePaid(w) THEN ledger[b].times[d] + 1
                                                 ELSE ledger[b].times[d]],
                 !.passed  = ledger[b].passed \cup ThePassed(w),
                 !.once    = IF TheLevel(w).every = 0 THEN ledger[b].once + 1 ELSE ledger[b].once,
                 !.gross   = ledger[b].gross + TheLevel(w).added * ThePeriods(w),
                 !.granted = ledger[b].granted + TheGrant(w),
                 !.lost    = ledger[b].lost + (TheGross(w) - TheGrant(w) - TheCarry(w))]]
            /\ Advance(w) /\ UNCHANGED <<today, ladder>>
BY DEF ApplyGrant, TheLevel, TheStart, ThePeriods, TheGross, TheGrant, TheCarry, TheReach,
       ThePaid, ThePassed

\* The rung a run finds is one of the ladder's.
LEMMA LevelIsALevel ==
  ASSUME IInv, NEW b \in Balances, NEW now \in DayRange, Begun(b, now) # {}
  PROVE  Max(Begun(b, now)) \in Begun(b, now) /\ Level(b, now) \in Levels
<1>1. ladder[b] \in [DOMAIN Ladder[b] -> Levels \cup {None}]
  BY DEF IInv, Typed
<1>2. Begun(b, now) \subseteq 0 .. Len(Ladder[b]) /\ Len(Ladder[b]) \in Nat
  BY <1>1, Constants DEF Begun
<1>3. Max(Begun(b, now)) \in Begun(b, now)
  BY <1>2, GreatestOf
<1> QED BY <1>1, <1>3 DEF Level, Begun

\* What a cap and a carry rule leave of a gross grant.
LEMMA SplitOfGross ==
  ASSUME NEW level \in Levels, NEW allocated \in Nat, NEW gross \in Nat
  PROVE  LET granted == Granted(level, allocated, gross)
             carried == Carried(level, gross - granted)
         IN /\ granted \in Nat /\ carried \in Nat /\ gross - granted - carried \in Nat
            /\ granted > 0 /\ level.cap # None => allocated + granted <= level.cap
<1> DEFINE granted == Granted(level, allocated, gross)
<1>1. /\ level.cap \in Nat \cup {None} /\ level.most \in Nat \cup {None} /\ None \notin Int
  BY Constants DEF Levels
<1>2. granted \in Nat /\ granted <= gross
      /\ (granted > 0 /\ level.cap # None => allocated + granted <= level.cap)
  <2>1. CASE level.cap = None
    BY <2>1 DEF Granted
  <2>2. CASE level.cap # None
    <3>1. level.cap \in Nat /\ level.cap - allocated \in Int
      BY <1>1, <2>2
    <3>2. Max({level.cap - allocated, 0}) =
            IF level.cap - allocated <= 0 THEN 0 ELSE level.cap - allocated
      BY <3>1, MaxOfTwo
    <3> DEFINE headroom == Max({level.cap - allocated, 0})
    <3>3. headroom \in Nat
      BY <3>1, <3>2
    <3>4. granted = Min({gross, headroom})
      BY <2>2 DEF Granted
    <3>5. granted = IF gross <= headroom THEN gross ELSE headroom
      BY <3>3, <3>4, MinOfTwo
    <3> QED BY <3>1, <3>2, <3>3, <3>5
  <2> QED BY <2>1, <2>2
<1> HIDE DEF granted
<1> DEFINE excess == gross - granted
<1>3. excess \in Nat
  BY <1>2
<1>4. Carried(level, excess) \in Nat /\ Carried(level, excess) <= excess
  <2>1. CASE ~level.keeps
    BY <1>3, <2>1 DEF Carried
  <2>2. CASE level.keeps /\ level.most = None
    BY <1>3, <2>2 DEF Carried, Bounded
  <2>3. CASE level.keeps /\ level.most # None
    <3>1. level.most \in Nat
      BY <1>1, <2>3
    <3>2. Carried(level, excess) = Min({level.most, excess})
      BY <2>3 DEF Carried, Bounded
    <3>3. Carried(level, excess) = IF level.most <= excess THEN level.most ELSE excess
      BY <1>3, <3>1, <3>2, MinOfTwo
    <3> QED BY <1>3, <3>1, <3>3
  <2> QED BY <2>1, <2>2, <2>3
<1>5. excess - Carried(level, excess) \in Nat
  BY <1>3, <1>4
<1> QED BY <1>2, <1>4, <1>5 DEF granted

\* Whole periods from a day: none, or some that fit before `now`.
LEMMA PeriodsFit ==
  ASSUME NEW every \in Nat \ {0}, NEW mark \in Int, NEW now \in Int
  PROVE  LET n == PeriodsDue(every, mark, now)
         IN /\ n \in Nat /\ every * n \in Nat
            /\ n > 0 => every * n > 0 /\ mark + every * n <= now
<1> DEFINE q == (now - mark) \div every
           n == PeriodsDue(every, mark, now)
<1>1. q \in Int /\ every * q <= now - mark
  BY WholePeriodsFit
<1> HIDE DEF q
<1>2. n = Max({0, q})
  BY DEF PeriodsDue, q
<1>3. n = IF 0 <= q THEN q ELSE 0
  BY <1>1, <1>2, MaxOfTwo
<1>4. n \in Nat /\ (n > 0 => n = q)
  BY <1>1, <1>3
<1> HIDE DEF n
<1>5. every * n \in Nat
  BY <1>4, ProductOfNats
<1>6. ASSUME n > 0 PROVE every * n > 0 /\ mark + every * n <= now
  <2>1. every * n > 0
    BY <1>4, <1>6, ProductIsPositive
  <2>2. every * n = every * q
    BY <1>4, <1>6
  <2> QED BY <1>1, <1>5, <2>1, <2>2
<1> QED BY <1>4, <1>5, <1>6 DEF n

\* The figures of a grant: where it starts and ends, and what it splits.
LEMMA GrantFigures ==
  ASSUME IInv, NEW w \in Walkers, ApplyGrant(w)
  PROVE  LET row == Current(w)
             b   == Current(w).id
             W   == Watermark(Current(w).id, Current(w).mark)
         IN /\ row \in ClaimedRows /\ row.mark = balance[b].mark
            /\ row.carried = balance[b].carried
            /\ From[b] \in DayRange /\ W \in DayRange
            /\ TheLevel(w) \in Levels /\ ThePeriods(w) \in Nat
            /\ TheReach(w) \in DayRange /\ TheReach(w) <= today
            /\ IF TheLevel(w).every = 0 THEN row.mark = None
               ELSE /\ TheStart(w) \in Int /\ W <= TheStart(w) /\ TheStart(w) < TheReach(w)
                    /\ ThePaid(w) = TheStart(w) + 1 .. TheReach(w)
<1>0. run[w].pc = "rows" /\ IsDue(Current(w), run[w].now, run[w].start) /\ ApplyGate(Current(w))
  BY DEF ApplyGrant
<1>1. Current(w) \in ClaimedRows /\ Aged(Current(w)) /\ Typed
  BY <1>0, CurrentIsARow DEF IInv, RowsAged
<1> DEFINE row == Current(w)
           b == row.id
           now == run[w].now
           start == run[w].start
           W == Watermark(b, row.mark)
           level == TheLevel(w)
<1>2. row.mark = balance[b].mark /\ row.carried = balance[b].carried
  BY <1>0, <1>1 DEF ApplyGate, Aged
<1>3. b \in Balances /\ row.mark \in Days
  BY <1>1 DEF ClaimedRows
<1>4. now \in DayRange /\ now <= today /\ today \in DayRange /\ start \in Int \cup {None}
  BY <1>1 DEF Typed, RunsTyped, RunState
<1>5. From[b] \in DayRange /\ Begun(b, now) # {}
  BY <1>0, <1>3, Constants DEF IsDue, Days
<1>6. W \in DayRange
  BY <1>3, <1>5 DEF Watermark, Days
<1>7. level \in Levels /\ level.every \in Nat
  BY <1>3, <1>4, <1>5, LevelIsALevel DEF TheLevel, Levels
<1>8. OnceIsDue(row, level, start) \/ PeriodIsDue(row, level, now, start)
  BY <1>0 DEF IsDue, TheLevel
<1>9. CASE level.every = 0
  <2>1. row.mark = None
    BY <1>8, <1>9 DEF OnceIsDue, PeriodIsDue
  <2>2. ThePeriods(w) = 1 /\ TheReach(w) = now
    BY <1>9 DEF ThePeriods, TheReach, AdvanceWatermark
  <2> QED BY <1>1, <1>2, <1>4, <1>5, <1>6, <1>7, <1>9, <2>1, <2>2
<1>10. CASE level.every # 0
  <2> DEFINE mark == TheStart(w)
             n == ThePeriods(w)
  <2>1. level.every \in Nat \ {0} /\ W \in Int /\ now \in Int
    BY <1>4, <1>6, <1>7, <1>10 DEF DayRange
  <2>2. mark = IF start = None THEN W ELSE W + level.every * PeriodsDue(level.every, W, start - 1)
    BY DEF TheStart, Watered, SkipPeriodsBefore
  <2>3. mark \in Int /\ W <= mark
    <3>1. CASE start = None
      BY <2>1, <2>2, <3>1
    <3>2. CASE start # None
      <4>1. start - 1 \in Int
        BY <1>4, <3>2
      <4>2. level.every * PeriodsDue(level.every, W, start - 1) \in Nat
        BY <2>1, <4>1, PeriodsFit
      <4> HIDE DEF mark, W
      <4> QED BY <2>1, <2>2, <3>2, <4>2
    <3> QED BY <3>1, <3>2
  <2>4. n = PeriodsDue(level.every, mark, now) /\ n > 0
    BY <1>8, <1>10 DEF ThePeriods, TheStart, OnceIsDue, PeriodIsDue
  <2>5. TheReach(w) = mark + level.every * n
    BY <1>10 DEF TheReach, AdvanceWatermark
  <2> HIDE DEF mark, n, level, now, W
  <2>6. n \in Nat /\ level.every * n \in Nat /\ level.every * n > 0 /\ mark + level.every * n <= now
    BY <2>1, <2>3, <2>4, PeriodsFit
  <2>7. mark < TheReach(w) /\ TheReach(w) <= now /\ TheReach(w) \in Int
    BY <2>1, <2>3, <2>5, <2>6
  <2>8. TheReach(w) \in DayRange /\ TheReach(w) <= today
    BY <1>4, <1>6, <2>3, <2>7, Constants DEF DayRange
  <2>9. ThePaid(w) = mark + 1 .. TheReach(w)
    BY <1>10, <2>5 DEF ThePaid, mark, n, level
  <2> QED BY <1>1, <1>2, <1>5, <1>6, <1>7, <1>10, <2>3, <2>6, <2>7, <2>8, <2>9 DEF mark, n, level, now, W
<1> QED BY <1>9, <1>10

\* What the gross grant is made of, and that nothing of it is left over.
LEMMA GrantSplits ==
  ASSUME IInv, NEW w \in Walkers, ApplyGrant(w)
  PROVE  LET fresh == TheLevel(w).added * ThePeriods(w)
         IN /\ fresh \in Nat /\ TheGross(w) = fresh + balance[Current(w).id].carried
            /\ TheGrant(w) \in Nat /\ TheCarry(w) \in Nat
            /\ TheGross(w) - TheGrant(w) - TheCarry(w) \in Nat
            /\ TheGross(w) \in Nat
            /\ TheGrant(w) > 0 /\ TheLevel(w).cap # None =>
                 Current(w).allocated + TheGrant(w) <= TheLevel(w).cap
<1> DEFINE b == Current(w).id
           fresh == TheLevel(w).added * ThePeriods(w)
<1>1. /\ Current(w) \in ClaimedRows /\ Current(w).carried = balance[b].carried
      /\ Current(w).mark = balance[b].mark
      /\ TheLevel(w) \in Levels /\ ThePeriods(w) \in Nat
      /\ TheLevel(w).every = 0 => Current(w).mark = None
  BY GrantFigures
<1>2. b \in Balances /\ Current(w).allocated \in Nat /\ Current(w).carried \in Nat
  BY <1>1 DEF ClaimedRows
<1>3. TheLevel(w).added \in Nat /\ fresh \in Nat
  BY <1>1, ProductOfNats DEF Levels
<1>4. TheGross(w) = fresh + balance[b].carried
  <2>1. CASE TheLevel(w).every # 0
    BY <1>1, <2>1 DEF TheGross, Gross
  <2>2. CASE TheLevel(w).every = 0
    <3>1. balance[b].carried = 0
      BY <1>1, <1>2, <2>2 DEF IInv, Books, MarkTells
    <3>2. ThePeriods(w) = 1 /\ TheGross(w) = TheLevel(w).added
      BY <2>2 DEF TheGross, Gross, ThePeriods
    <3> QED BY <1>3, <3>1, <3>2
  <2> QED BY <2>1, <2>2
<1>5. TheGross(w) \in Nat
  BY <1>1, <1>2, <1>3, <1>4
<1> QED BY <1>1, <1>2, <1>3, <1>4, <1>5, SplitOfGross DEF TheGrant, TheCarry

\* The rows that a grant makes.
LEMMA GrantedRow ==
  ASSUME IInv, NEW w \in Walkers, ApplyGrant(w)
  PROVE  LET b == Current(w).id
         IN /\ balance' \in [Balances -> BalanceRow] /\ ledger' \in [Balances -> LedgerRow]
            /\ \A c \in Balances \ {b} : balance'[c] = balance[c] /\ ledger'[c] = ledger[c]
            /\ balance'[b].allocated = balance[b].allocated + TheGrant(w)
            /\ balance'[b].carried = TheCarry(w) /\ balance'[b].mark = TheReach(w)
            /\ \A d \in DayRange :
                 ledger'[b].times[d] = IF d \in ThePaid(w) THEN ledger[b].times[d] + 1
                                       ELSE ledger[b].times[d]
            /\ ledger'[b].passed = ledger[b].passed \cup ThePassed(w)
            /\ ledger'[b].once = IF TheLevel(w).every = 0 THEN ledger[b].once + 1
                                 ELSE ledger[b].once
            /\ ledger'[b].gross = ledger[b].gross + TheLevel(w).added * ThePeriods(w)
            /\ ledger'[b].granted = ledger[b].granted + TheGrant(w)
            /\ ledger'[b].lost = ledger[b].lost + (TheGross(w) - TheGrant(w) - TheCarry(w))
<1> DEFINE b == Current(w).id
           fresh == TheLevel(w).added * ThePeriods(w)
           lost == TheGross(w) - TheGrant(w) - TheCarry(w)
           times == [d \in DayRange |-> IF d \in ThePaid(w) THEN ledger[b].times[d] + 1
                                        ELSE ledger[b].times[d]]
           passed == ledger[b].passed \cup ThePassed(w)
           once == IF TheLevel(w).every = 0 THEN ledger[b].once + 1 ELSE ledger[b].once
<1>1. b \in Balances /\ TheReach(w) \in Days
  BY GrantFigures DEF ClaimedRows, Days
<1>2. TheGrant(w) \in Nat /\ TheCarry(w) \in Nat /\ fresh \in Nat /\ lost \in Nat
  BY GrantSplits
<1>3. balance[b] \in BalanceRow /\ ledger[b] \in LedgerRow
      /\ balance \in [Balances -> BalanceRow] /\ ledger \in [Balances -> LedgerRow]
  BY <1>1 DEF IInv, Typed
<1>4. ThePassed(w) \subseteq Int
  <2>1. TheReach(w) \in Int /\ Watermark(b, Current(w).mark) \in Int
    BY GrantFigures DEF DayRange
  <2>2. TheLevel(w).every # 0 => TheStart(w) \in Int
    BY GrantFigures
  <2> QED BY <2>1, <2>2 DEF ThePassed
<1> DEFINE r == [balance[b] EXCEPT !.allocated = balance[b].allocated + TheGrant(w),
                                   !.carried = TheCarry(w), !.mark = TheReach(w)]
           l == [ledger[b] EXCEPT !.times = times, !.passed = passed, !.once = once,
                                  !.gross = ledger[b].gross + fresh,
                                  !.granted = ledger[b].granted + TheGrant(w),
                                  !.lost = ledger[b].lost + lost]
<1>5. balance' = [balance EXCEPT ![b] = r] /\ ledger' = [ledger EXCEPT ![b] = l]
  BY GrantUnfolded
<1>6. balance[b].allocated \in Nat /\ ledger[b].gross \in Nat /\ ledger[b].granted \in Nat
      /\ ledger[b].lost \in Nat /\ ledger[b].once \in Nat /\ ledger[b].passed \subseteq Int
      /\ ledger[b].times \in [DayRange -> Nat]
  BY <1>3 DEF BalanceRow, LedgerRow
<1>7. times \in [DayRange -> Nat]
  BY <1>6
<1>8. passed \subseteq Int /\ once \in Nat
  BY <1>4, <1>6
<1> HIDE DEF times, passed, once, fresh, lost
<1>9. /\ r \in BalanceRow /\ r.allocated = balance[b].allocated + TheGrant(w)
      /\ r.carried = TheCarry(w) /\ r.mark = TheReach(w)
  <2>1. balance[b].allocated + TheGrant(w) \in Nat
    BY <1>2, <1>6
  <2> QED BY <1>1, <1>2, <1>3, <2>1 DEF BalanceRow
<1>10. ledger[b].gross + fresh \in Nat /\ ledger[b].granted + TheGrant(w) \in Nat
       /\ ledger[b].lost + lost \in Nat
  BY <1>2, <1>6
<1>11. /\ l \in LedgerRow /\ l.times = times /\ l.passed = passed /\ l.once = once
       /\ l.gross = ledger[b].gross + fresh /\ l.granted = ledger[b].granted + TheGrant(w)
       /\ l.lost = ledger[b].lost + lost
  BY <1>3, <1>7, <1>8, <1>10 DEF LedgerRow
<1> HIDE DEF r, l
<1>12. /\ balance' \in [Balances -> BalanceRow] /\ ledger' \in [Balances -> LedgerRow]
       /\ \A c \in Balances \ {b} : balance'[c] = balance[c] /\ ledger'[c] = ledger[c]
       /\ balance'[b] = r /\ ledger'[b] = l
  BY <1>1, <1>3, <1>5, <1>9, <1>11
<1>13. \A d \in DayRange : times[d] = IF d \in ThePaid(w) THEN ledger[b].times[d] + 1
                                      ELSE ledger[b].times[d]
  BY DEF times
<1> QED BY <1>9, <1>11, <1>12, <1>13 DEF passed, once, fresh, lost

\* A grant moves the watermark of its balance on, and to a day.
LEMMA GrantMovesOn ==
  ASSUME IInv, NEW w \in Walkers, ApplyGrant(w)
  PROVE  LET m == balance[Current(w).id].mark
         IN /\ m \in Days /\ TheReach(w) \in DayRange
            /\ m # None => m < TheReach(w)
<1> DEFINE m == balance[Current(w).id].mark
<1>1. /\ Current(w) \in ClaimedRows /\ Current(w).mark = m /\ TheReach(w) \in DayRange
      /\ m # None => TheLevel(w).every # 0
      /\ TheLevel(w).every # 0 =>
           /\ TheStart(w) \in Int /\ TheStart(w) < TheReach(w)
           /\ Watermark(Current(w).id, Current(w).mark) <= TheStart(w)
  BY GrantFigures
<1>2. m \in Days
  BY <1>1 DEF ClaimedRows
<1>3. ASSUME m # None PROVE m < TheReach(w)
  <2>1. Watermark(Current(w).id, Current(w).mark) = m
    BY <1>1, <1>3 DEF Watermark
  <2> QED BY <1>1, <1>2, <1>3, <2>1 DEF Days, DayRange
<1> QED BY <1>1, <1>2, <1>3

LEMMA GrantRowsAged ==
  ASSUME IInv, NEW w \in Walkers, ApplyGrant(w), RowsKept
  PROVE  RowsAged'
<1> DEFINE b == Current(w).id
           m == balance[b].mark
<1>1. m \in Days /\ TheReach(w) \in DayRange /\ (m # None => m < TheReach(w))
  BY GrantMovesOn
<1>2. /\ balance'[b].mark = TheReach(w)
      /\ \A c \in Balances \ {b} : balance'[c] = balance[c] /\ ledger'[c] = ledger[c]
  BY GrantedRow
<1>3. \A v \in Walkers : run[v].rows \in RowMaps
  BY DEF IInv, Typed, RunsTyped, RunState
<1>4. \A rows \in RowMaps : \A i \in DOMAIN rows : rows[i].id \in Balances /\ rows[i].mark \in Days
  BY DEF RowMaps, ClaimedRows
<1>5. TheReach(w) # None
  BY <1>1, Constants DEF DayRange
<1>6. ASSUME NEW v \in Walkers, NEW i \in DOMAIN run[v].rows
      PROVE  LET row == run[v].rows[i]
             IN /\ row.mark # None => balance'[row.id].mark # None
                                      /\ row.mark <= balance'[row.id].mark
                /\ row.mark = balance'[row.id].mark =>
                     /\ row.carried = balance'[row.id].carried
                     /\ ledger'[row.id].granted = row.allocated - row.adjusted
  <2> DEFINE row == run[v].rows[i]
  <2>1. row.id \in Balances /\ row.mark \in Days /\ Aged(row)
    BY <1>3, <1>4 DEF IInv, RowsAged
  <2>2. CASE row.id # b
    BY <1>2, <2>1, <2>2 DEF Aged
  <2>3. CASE row.id = b
    <3>1. row.mark # None => m # None /\ row.mark <= m
      BY <2>1, <2>3 DEF Aged
    <3>2. row.mark # None => row.mark < TheReach(w)
      BY <1>1, <2>1, <3>1 DEF Days, DayRange
    <3>3. row.mark # TheReach(w)
      BY <1>1, <1>5, <2>1, <3>2 DEF Days, DayRange
    <3>4. row.mark # None => row.mark <= TheReach(w)
      BY <1>1, <2>1, <3>2 DEF Days, DayRange
    <3> QED BY <1>2, <1>5, <2>3, <3>3, <3>4
  <2> QED BY <2>2, <2>3
<1> QED BY <1>6 DEF RowsKept, RowsAged, Aged

LEMMA GrantMarkTells ==
  ASSUME IInv, NEW w \in Walkers, ApplyGrant(w), NEW b \in Balances, b = Current(w).id
  PROVE  MarkTells(b)'
<1> DEFINE m == balance[b].mark
<1>1. m \in Days /\ TheReach(w) \in DayRange /\ (m # None => m < TheReach(w))
  BY GrantMovesOn
<1>2. /\ TheLevel(w).every # 0 => TheStart(w) \in Int /\ TheStart(w) < TheReach(w)
      /\ Watermark(b, Current(w).mark) \in DayRange
  BY GrantFigures DEF ClaimedRows
<1>3. balance'[b].mark = TheReach(w) /\ ledger'[b].passed = ledger[b].passed \cup ThePassed(w)
  BY GrantedRow
<1>4. MarkTells(b) /\ ledger[b].passed \subseteq Int
  BY <1>2 DEF IInv, Books, Typed, LedgerRow
<1>5. TheReach(w) \in Int /\ TheReach(w) # None
  BY <1>1, Constants DEF DayRange
<1>6. ASSUME NEW d \in ledger[b].passed PROVE d <= TheReach(w)
  <2>1. m # None /\ d <= m /\ d \in Int
    BY <1>4, <1>6 DEF MarkTells
  <2> QED BY <1>1, <1>5, <2>1 DEF Days, DayRange
<1>7. ASSUME NEW d \in ThePassed(w) PROVE d <= TheReach(w)
  BY <1>2, <1>5, <1>7 DEF ThePassed, DayRange
<1> QED BY <1>3, <1>5, <1>6, <1>7 DEF MarkTells

LEMMA GrantPaidOnce ==
  ASSUME IInv, NEW w \in Walkers, ApplyGrant(w), NEW b \in Balances, b = Current(w).id
  PROVE  PaidOnce(b)'
<1> DEFINE W == Watermark(b, balance[b].mark)
<1>1. /\ From[b] \in DayRange /\ W \in DayRange
      /\ TheReach(w) \in DayRange
      /\ TheLevel(w).every = 0 => balance[b].mark = None
      /\ TheLevel(w).every # 0 =>
           /\ TheStart(w) \in Int /\ W <= TheStart(w) /\ TheStart(w) < TheReach(w)
           /\ ThePaid(w) = TheStart(w) + 1 .. TheReach(w)
      /\ Current(w).mark = balance[b].mark
  BY GrantFigures DEF ClaimedRows
<1>2. /\ balance'[b].mark = TheReach(w)
      /\ ledger'[b].passed = ledger[b].passed \cup ThePassed(w)
      /\ ledger'[b].once = IF TheLevel(w).every = 0 THEN ledger[b].once + 1 ELSE ledger[b].once
      /\ \A d \in DayRange :
           ledger'[b].times[d] = IF d \in ThePaid(w) THEN ledger[b].times[d] + 1
                                 ELSE ledger[b].times[d]
  BY GrantedRow
<1>3. MarkTells(b) /\ PaidOnce(b) /\ ledger[b] \in LedgerRow /\ balance[b].mark \in Days
  BY <1>1 DEF IInv, Books, Typed, BalanceRow
<1>4. ledger[b].once \in Nat /\ ledger[b].passed \subseteq Int
      /\ ledger[b].times \in [DayRange -> Nat]
  BY <1>3 DEF LedgerRow
<1>5. ledger'[b].once <= 1
  <2>1. CASE TheLevel(w).every = 0
    BY <1>1, <1>2, <1>3, <2>1 DEF MarkTells
  <2>2. CASE TheLevel(w).every # 0
    BY <1>2, <1>3, <2>2 DEF PaidOnce
  <2> QED BY <2>1, <2>2
<1>6. TheReach(w) \in Int /\ TheReach(w) # None /\ From[b] \in Int /\ From[b] # None /\ W \in Int
  BY <1>1, Constants DEF DayRange
<1>7. Watermark(b, balance'[b].mark) = TheReach(w)
  BY <1>2, <1>6 DEF Watermark
<1>8. \A d \in ledger[b].passed : d <= W
  <2>1. CASE balance[b].mark = None
    BY <1>3, <2>1 DEF MarkTells
  <2>2. CASE balance[b].mark # None
    BY <1>3, <2>2 DEF MarkTells, Watermark
  <2> QED BY <2>1, <2>2
<1>9. ASSUME NEW d \in From[b] + 1 .. LastDay
      PROVE  ledger'[b].times[d] =
               IF d <= TheReach(w) /\ d \notin ledger'[b].passed THEN 1 ELSE 0
  <2>1. d \in DayRange /\ d \in Int
    BY <1>1, <1>6, Constants DEF DayRange
  <2>2. ledger[b].times[d] = IF d <= W /\ d \notin ledger[b].passed THEN 1 ELSE 0
    BY <1>3, <1>6 DEF PaidOnce
  <2>3. ledger'[b].times[d] = IF d \in ThePaid(w) THEN ledger[b].times[d] + 1
                              ELSE ledger[b].times[d]
    BY <1>2, <2>1
  <2>4. CASE TheLevel(w).every = 0
    <3>1. W = From[b] /\ ledger[b].passed = {} /\ ledger[b].times[d] = 0
      BY <1>1, <1>3, <2>1, <2>4 DEF Watermark, MarkTells
    <3>2. ThePaid(w) = {} /\ ThePassed(w) = W + 1 .. TheReach(w)
      BY <1>1, <2>4 DEF ThePaid, ThePassed
    <3>3. d <= TheReach(w) => d \in ledger'[b].passed
      BY <1>2, <1>6, <2>1, <3>1, <3>2
    <3> QED BY <2>3, <3>1, <3>2, <3>3
  <2>5. CASE TheLevel(w).every # 0
    <3>1. /\ ThePaid(w) = TheStart(w) + 1 .. TheReach(w)
          /\ ThePassed(w) = W + 1 .. TheStart(w)
          /\ TheStart(w) \in Int /\ W <= TheStart(w) /\ TheStart(w) < TheReach(w)
      BY <1>1, <2>5 DEF ThePassed
    <3>2. CASE d <= W
      <4>1. d \notin ThePaid(w) /\ d \notin ThePassed(w) /\ d <= TheReach(w)
        BY <1>6, <2>1, <3>1, <3>2
      <4>2. d \in ledger'[b].passed <=> d \in ledger[b].passed
        BY <1>2, <4>1
      <4> QED BY <2>2, <2>3, <3>2, <4>1, <4>2
    <3>3. CASE W < d /\ d <= TheStart(w)
      <4>1. d \notin ThePaid(w) /\ d \in ThePassed(w)
        BY <1>6, <2>1, <3>1, <3>3
      <4>2. d \in ledger'[b].passed /\ ~(d <= W)
        BY <1>2, <1>6, <2>1, <3>3, <4>1
      <4> QED BY <2>2, <2>3, <4>1, <4>2
    <3>4. CASE TheStart(w) < d /\ d <= TheReach(w)
      <4>1. d \in ThePaid(w) /\ d \notin ThePassed(w) /\ ~(d <= W)
        BY <1>6, <2>1, <3>1, <3>4
      <4>2. d \notin ledger'[b].passed
        BY <1>2, <1>8, <4>1
      <4> QED BY <2>2, <2>3, <3>4, <4>1, <4>2
    <3>5. CASE TheReach(w) < d
      <4>1. d \notin ThePaid(w) /\ ~(d <= W) /\ ~(d <= TheReach(w))
        BY <1>6, <2>1, <3>1, <3>5
      <4> QED BY <2>2, <2>3, <4>1
    <3> QED BY <1>6, <2>1, <3>1, <3>2, <3>3, <3>4, <3>5
  <2> QED BY <2>4, <2>5
<1> QED BY <1>5, <1>7, <1>9 DEF PaidOnce

LEMMA ApplyGrantIInv == ASSUME IInv, NEW w \in Walkers, ApplyGrant(w) PROVE IInv'
<1>0. PICK b \in Balances : b = Current(w).id
  BY GrantFigures DEF ClaimedRows
<1>1. run[w].pc = "rows" /\ Advance(w) /\ UNCHANGED <<today, ladder>>
  BY GrantUnfolded
<1>2. RunsTyped' /\ RowsKept
  BY <1>1, AdvanceKeepsRows DEF IInv
<1>4. Typed'
  BY <1>1, <1>2, GrantedRow DEF IInv, Typed
<1>5. Accounted(b)'
  <2> DEFINE fresh == TheLevel(w).added * ThePeriods(w)
  <2>1. /\ fresh \in Nat /\ TheGross(w) = fresh + balance[b].carried
        /\ TheGrant(w) \in Nat /\ TheCarry(w) \in Nat
    BY <1>0, GrantSplits
  <2>2. /\ balance'[b].carried = TheCarry(w)
        /\ ledger'[b].gross = ledger[b].gross + fresh
        /\ ledger'[b].granted = ledger[b].granted + TheGrant(w)
        /\ ledger'[b].lost = ledger[b].lost + (TheGross(w) - TheGrant(w) - TheCarry(w))
    BY <1>0, GrantedRow
  <2>3. /\ ledger[b].gross \in Nat /\ ledger[b].granted \in Nat /\ ledger[b].lost \in Nat
        /\ balance[b].carried \in Nat
    BY DEF IInv, Typed, BalanceRow, LedgerRow
  <2>4. ledger[b].gross = ledger[b].granted + ledger[b].lost + balance[b].carried
    BY DEF IInv, Books, Accounted
  <2> HIDE DEF fresh
  <2> QED BY <2>1, <2>2, <2>3, <2>4 DEF Accounted
<1>6. ASSUME NEW c \in Balances \ {b}
      PROVE  MarkTells(c)' /\ PaidOnce(c)' /\ Accounted(c)'
  <2>1. balance'[c] = balance[c] /\ ledger'[c] = ledger[c]
    BY <1>0, GrantedRow
  <2> QED BY <2>1 DEF IInv, Books, MarkTells, PaidOnce, Accounted, Watermark
<1>7. Books'
  <2>1. MarkTells(b)' /\ PaidOnce(b)'
    BY <1>0, GrantMarkTells, GrantPaidOnce
  <2> QED BY <1>5, <1>6, <2>1 DEF Books
<1> QED BY <1>2, <1>4, <1>7, GrantRowsAged DEF IInv

-----------------------------------------------------------------------------
LEMMA NextIInv == IInv /\ [Next]_vars => IInv'
<1> SUFFICES ASSUME IInv, [Next]_vars PROVE IInv'
  OBVIOUS
<1>1. CASE Tick
  BY <1>1, TickIInv
<1>2. ASSUME NEW w \in Walkers, NEW s \in Starts, Begin(w, s) PROVE IInv'
  BY <1>2, BeginIInv
<1>3. ASSUME NEW w \in Walkers, Continue(w) PROVE IInv'
  BY <1>3, ClaimIInv, StampIInv, RowLeftAlone, ApplyGrantIInv DEF Continue
<1>4. ASSUME NEW b \in Balances, NEW delta \in Deltas, AdjustBalance(b, delta) PROVE IInv'
  BY <1>4, AdjustIInv
<1>5. ASSUME NEW d \in Drafts, EditLevel(d) PROVE IInv'
  BY <1>5, EditLevelIInv
<1>6. ASSUME NEW w \in Walkers, RunDies(w) PROVE IInv'
  BY <1>6, RunDiesIInv
<1>7. CASE UNCHANGED vars
  <2>1. RunsTyped' /\ RowsKept
    BY <1>7 DEF vars, IInv, Typed, RunsTyped, RowsKept
  <2> QED BY <1>7, <2>1, KeptRowsAged, BooksUntouched DEF vars, IInv
<1> QED BY <1>1, <1>2, <1>3, <1>4, <1>5, <1>6, <1>7 DEF Next, SteadyNext

LEMMA AlwaysIInv == Spec => []IInv
BY InitIInv, NextIInv, PTL DEF Spec

\* However runs interleave and die and the ladder is edited, the balances and
\* the runs keep their types.
THEOREM WalkTypeCorrect == Spec => []TypeOK
<1>1. IInv => TypeOK
  BY DEF IInv, Typed, RunsTyped, TypeOK, BalanceRow, RunState, Days
<1> QED BY <1>1, AlwaysIInv, PTL

\* "Re-runs never double-grant": every period is paid once or passed over, for
\* any number of runs, days, start points and edits of the ladder.
THEOREM PeriodsPaidOnce == Spec => []EveryPeriodPaidOnce
<1>1. IInv => EveryPeriodPaidOnce
  BY DEF IInv, Books, PaidOnce, EveryPeriodPaidOnce
<1> QED BY <1>1, AlwaysIInv, PTL

\* What the periods brought was granted, lost by the level's rule or is carried.
THEOREM DaysAccounted == Spec => []EveryDayAccountedFor
<1>1. IInv => EveryDayAccountedFor
  BY DEF IInv, Books, Accounted, EveryDayAccountedFor
<1> QED BY <1>1, AlwaysIInv, PTL

-----------------------------------------------------------------------------
(* Steps.                                                                  *)

\* Nothing but a grant writes the ledger.
LEMMA OnlyGrantsPay ==
  ASSUME IInv, [Next]_vars, NEW b \in Balances, ledger'[b] # ledger[b]
  PROVE  \E w \in Walkers : ApplyGrant(w) /\ Current(w).id = b
<1>1. PICK w \in Walkers : ApplyGrant(w)
  BY DEF Next, SteadyNext, Continue, Tick, Begin, Claim, StampExpired, PassOver, Raced, RowFails,
         AdjustBalance, EditLevel, CreateLevel, PutLevel, PatchLevel, DeleteLevel, WriteLevel,
         RunDies, vars
<1>2. b = Current(w).id
  BY <1>1, GrantedRow
<1> QED BY <1>1, <1>2

\* An expired balance is paid nothing, not even by a run that claimed it before.
THEOREM ExpiredIsDone == Spec => ExpiredStopsAccruing
<1>1. ASSUME IInv, [Next]_vars, NEW b \in Balances, balance[b].expired
      PROVE  balance'[b].expired /\ ledger'[b] = ledger[b]
  <2>1. balance \in [Balances -> BalanceRow]
    BY <1>1 DEF IInv, Typed
  <2>2. ASSUME NEW w \in Walkers, ApplyGrant(w)
        PROVE  balance'[b] = balance[b] /\ Current(w).id # b
    <3>1. Current(w).id # b
      BY <1>1, <2>2 DEF ApplyGrant, ApplyGate
    <3> QED BY <1>1, <2>2, <3>1, GrantedRow
  <2>3. ledger'[b] = ledger[b]
    BY <1>1, <2>2, OnlyGrantsPay
  <2>4. balance'[b].expired
    <3>1. ASSUME NEW w \in Walkers, StampExpired(w) PROVE balance'[b].expired
      BY <1>1, <2>1, <3>1 DEF StampExpired, BalanceRow
    <3>2. ASSUME NEW c \in Balances, NEW delta \in Deltas, AdjustBalance(c, delta)
          PROVE  balance'[b].expired
      BY <1>1, <2>1, <3>2 DEF AdjustBalance, BalanceRow
    <3>3. CASE balance' = balance
      BY <1>1, <3>3
    <3> QED BY <1>1, <2>2, <3>1, <3>2, <3>3
            DEF Next, SteadyNext, Continue, Tick, Begin, Claim, PassOver, Raced, RowFails,
                EditLevel, CreateLevel, PutLevel, PatchLevel, DeleteLevel, WriteLevel, RunDies, vars
  <2> QED BY <2>3, <2>4
<1>2. IInv /\ [Next]_vars =>
        [\A b \in Balances :
           balance[b].expired => /\ balance'[b].expired
                                 /\ ledger'[b] = ledger[b]]_vars
  BY <1>1
<1> QED BY <1>2, AlwaysIInv, PTL DEF Spec, ExpiredStopsAccruing

\* A one-time rung pays a balance that nothing has paid, however the ladder is
\* edited between a claim and a grant.
THEOREM OneTimeFirst == Spec => OneTimeGrantComesFirst
<1>1. ASSUME IInv, [Next]_vars, NEW b \in Balances, ledger'[b].once > ledger[b].once
      PROVE  ledger[b].once = 0 /\ \A d \in DayRange : ledger[b].times[d] = 0
  <2>1. ledger[b].once \in Nat
    BY <1>1 DEF IInv, Typed, LedgerRow
  <2>2. ledger'[b] # ledger[b]
    BY <1>1, <2>1
  <2>3. PICK w \in Walkers : ApplyGrant(w) /\ Current(w).id = b
    BY <1>1, <2>2, OnlyGrantsPay
  <2>4. TheLevel(w).every = 0
    BY <1>1, <2>1, <2>3, GrantedRow
  <2>5. balance[b].mark = None
    BY <1>1, <2>3, <2>4, GrantFigures
  <2> QED BY <1>1, <2>5 DEF IInv, Books, MarkTells
<1>2. IInv /\ [Next]_vars =>
        [\A b \in Balances :
           ledger'[b].once > ledger[b].once =>
             ledger[b].once = 0 /\ \A d \in DayRange : ledger[b].times[d] = 0]_vars
  BY <1>1
<1> QED BY <1>2, AlwaysIInv, PTL DEF Spec, OneTimeGrantComesFirst

\* Only the run that grants moves on.
LEMMA TheGrantingRun ==
  ASSUME IInv, NEW v \in Walkers, ApplyGrant(v), NEW w \in Walkers, run'[w] # run[w]
  PROVE  w = v
<1>1. run \in [Walkers -> RunState]
  BY DEF IInv, Typed, RunsTyped
<1> QED BY <1>1 DEF ApplyGrant, Advance

\* No grant goes over the cap of a rung that has begun by more than HR added
\* since the claim, for any runs, adjustments and edits of the ladder.
THEOREM CapRespected == Spec => GrantsRespectTheCap
<1>1. ASSUME IInv, [Next]_vars, NEW b \in Balances, NEW w \in Walkers,
             ledger'[b].granted > ledger[b].granted, run'[w] # run[w]
      PROVE  LET added == Max({0, Adjusted(b) - Current(w).adjusted})
             IN \E i \in Begun(b, today) :
                  \/ ladder[b][i].cap = None
                  \/ balance'[b].allocated <= ladder[b][i].cap + added
  <2>1. ledger[b].granted \in Nat
    BY <1>1 DEF IInv, Typed, LedgerRow
  <2>2. ledger'[b] # ledger[b]
    BY <1>1, <2>1
  <2>3. ApplyGrant(w) /\ Current(w).id = b
    BY <1>1, <2>2, OnlyGrantsPay, TheGrantingRun
  <2> DEFINE now == run[w].now
             i   == Max(Begun(b, now))
             added == Max({0, Adjusted(b) - Current(w).adjusted})
  <2>4. /\ now \in DayRange /\ now <= today /\ today \in DayRange /\ From[b] \in DayRange
        /\ Begun(b, now) # {} /\ run[w].pc = "rows" /\ balance[b].mark = Current(w).mark
    BY <1>1, <2>3, GrantFigures DEF IInv, Typed, RunsTyped, RunState, ApplyGrant, IsDue
  <2>5. i \in Begun(b, now) /\ ladder[b][i] = TheLevel(w) /\ TheLevel(w) \in Levels
    BY <1>1, <2>3, <2>4, LevelIsALevel DEF TheLevel, Level
  <2>6. i \in Begun(b, today)
    <3>1. ladder[b][i] \in Levels /\ From[b] + ladder[b][i].start <= now
      BY <2>5 DEF Begun
    <3>2. From[b] + ladder[b][i].start <= today
      BY <2>4, <3>1 DEF Levels, DayRange
    <3> QED BY <2>5, <3>2 DEF Begun
  <2>7. balance'[b].allocated = balance[b].allocated + TheGrant(w)
        /\ ledger'[b].granted = ledger[b].granted + TheGrant(w)
    BY <1>1, <2>3, GrantedRow
  <2>8. TheGrant(w) \in Nat /\ (TheGrant(w) > 0 /\ TheLevel(w).cap # None =>
                                  Current(w).allocated + TheGrant(w) <= TheLevel(w).cap)
    BY <1>1, <2>3, GrantSplits
  <2>9. TheGrant(w) > 0
    BY <1>1, <2>1, <2>7, <2>8
  <2>10. /\ Current(w).allocated \in Nat /\ Current(w).adjusted \in Int
         /\ balance[b].allocated \in Nat
    BY <1>1, <2>3, GrantFigures DEF ClaimedRows, IInv, Typed, BalanceRow
  <2>11. balance[b].allocated - Current(w).allocated = Adjusted(b) - Current(w).adjusted
    <3>1. Aged(Current(w))
      BY <1>1, <2>4, CurrentIsARow DEF IInv, RowsAged
    <3>2. ledger[b].granted = Current(w).allocated - Current(w).adjusted
      BY <2>3, <2>4, <3>1 DEF Aged
    <3> QED BY <2>1, <2>10, <3>2 DEF Adjusted
  <2>12. added \in Int /\ balance[b].allocated - Current(w).allocated <= added
    <3> DEFINE x == Adjusted(b) - Current(w).adjusted
    <3>1. x \in Int /\ x = balance[b].allocated - Current(w).allocated
      BY <2>10, <2>11
    <3> HIDE DEF x
    <3>2. Max({0, x}) = IF 0 <= x THEN x ELSE 0
      BY <3>1, MaxOfTwo
    <3>3. added = Max({0, x})
      BY DEF x
    <3> HIDE DEF added
    <3> QED BY <3>1, <3>2, <3>3
  <2> HIDE DEF added
  <2>13. CASE TheLevel(w).cap # None
    <3>1. TheLevel(w).cap \in Nat
      BY <2>5, <2>13 DEF Levels
    <3>2. balance'[b].allocated <= TheLevel(w).cap + added
      BY <2>7, <2>8, <2>9, <2>10, <2>12, <2>13, <3>1
    <3> QED BY <2>5, <2>6, <3>2 DEF added
  <2>14. CASE TheLevel(w).cap = None
    BY <2>5, <2>6, <2>14
  <2> QED BY <2>13, <2>14
<1>2. IInv /\ [Next]_vars =>
        [\A b \in Balances, w \in Walkers :
           ledger'[b].granted > ledger[b].granted /\ run'[w] # run[w] =>
             LET added == Max({0, Adjusted(b) - Current(w).adjusted})
             IN \E i \in Begun(b, today) :
                  \/ ladder[b][i].cap = None
                  \/ balance'[b].allocated <= ladder[b][i].cap + added]_vars
  BY <1>1
<1> QED BY <1>2, AlwaysIInv, PTL DEF Spec, GrantsRespectTheCap
=============================================================================
