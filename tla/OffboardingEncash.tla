------------------------- MODULE OffboardingEncash -------------------------
(***************************************************************************)
(* The consumer of offboarding.closed, OffboardingEncashHandler::handle:   *)
(* it zeroes the leaver's remaining leave, once per event, over a relay    *)
(* that delivers an event at least once and in any order, while every      *)
(* other writer goes on moving the same balance rows.                      *)
(***************************************************************************)
EXTENDS BalanceRows

CONSTANTS
  OwnerOf,         \* OwnerOf[k]: the employee of key k
  Events, Leaver   \* Leaver[e]: the employee the event e says has left

VARIABLES
  sent,      \* the events the relay has and delivers, again and again
  inbox,     \* the events claimed by ("timeoff", offboarding.encash)
  zeroed,    \* history: the events whose UPDATE has run
  encashed   \* history: the days an event took

relay == <<sent, inbox, zeroed, encashed>>
vars  == <<rowVars, relay>>

Init ==
  /\ RowsInit
  /\ sent = {} /\ inbox = {} /\ zeroed = {}
  /\ encashed = [e \in Events |-> 0]

\* The offboarding module closes and its outbox hands the event to the relay.
Close(e) ==
  /\ e \notin sent
  /\ sent' = sent \cup {e}
  /\ UNCHANGED <<rowVars, inbox, zeroed, encashed>>

\* A bug: the claim says yes to a redelivery.
AnyTime(e) == TRUE

\* inbox::once.
FirstTime(e) == e \notin inbox

\* The WHERE of the UPDATE: the employee, and days left.
Remaining(e) ==
  {i \in Ids : /\ Stored(i) /\ OwnerOf[row[i].key] = Leaver[e]
               /\ row[i].used < row[i].allocated}

DaysLeft(S) == MapThenSumSet(LAMBDA i : row[i].allocated - row[i].used, S)

\* A bug: the claim is committed before the UPDATE, which then fails.
HandleClaimsAlone(e) ==
  /\ e \in sent
  /\ FirstTime(e)
  /\ inbox' = inbox \cup {e}
  /\ UNCHANGED <<rowVars, sent, zeroed, encashed>>

\* Claim and UPDATE in one transaction.  A delivery that fails changes nothing
\* and comes again; so may one that succeeded.
Handle(e) ==
  /\ e \in sent
  /\ FirstTime(e)
  /\ \A i \in Remaining(e) : ~Locked(i)
  /\ inbox' = inbox \cup {e}
  /\ row' = [i \in Ids |-> IF i \in Remaining(e)
                           THEN [row[i] EXCEPT !.used = row[i].allocated] ELSE row[i]]
  /\ encashed' = [encashed EXCEPT ![e] = @ + DaysLeft(Remaining(e))]
  /\ zeroed' = zeroed \cup {e}
  /\ UNCHANGED <<ask, hand, given, edited, sent>>

\* The claim finds the event: nothing is done.
Redeliver(e) ==
  /\ e \in sent
  /\ ~FirstTime(e)
  /\ UNCHANGED vars

Next ==
  \/ RowsNext /\ UNCHANGED relay
  \/ \E e \in Events : Close(e)
  \/ \E e \in Events : Handle(e)
  \/ \E e \in Events : Redeliver(e)

\* The relay delivers until the handler succeeds, a statement that waits for a
\* row is served in its turn, and an adjustment that has begun ends.
Delivery ==
  /\ \A e \in Events : SF_vars(Handle(e))
  /\ \A h \in Hands : WF_vars(AdjustEnds(h) /\ UNCHANGED relay)

Spec == Init /\ [][Next]_vars /\ Delivery

-----------------------------------------------------------------------------
(* Properties.                                                             *)

TypeOK ==
  /\ RowsTypeOK
  /\ inbox \subseteq sent /\ sent \subseteq Events /\ zeroed \subseteq Events
  /\ DOMAIN encashed = Events

\* A redelivery is a pure no-op: what was allocated after the close is not
\* consumed when the event comes again.
NothingEncashedTwice ==
  [][\A e \in inbox : encashed'[e] = encashed[e]]_vars

\* Claim and effect commit together: a claimed event can no longer be
\* delivered, so one that failed half-way must not be claimed.
EveryCloseIsEncashed == \A e \in Events : e \in sent ~> e \in zeroed

\* "Every non-deleted balance row": a deleted balance is not encashed.
DeletedRowsLeftAlone ==
  [][\A e \in Events, i \in Ids :
       e \in zeroed' \ zeroed /\ row[i].status = "deleted"
         => row'[i].used = row[i].used]_vars
=============================================================================
