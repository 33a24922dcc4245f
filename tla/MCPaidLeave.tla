---------------------------- MODULE MCPaidLeave ----------------------------
(***************************************************************************)
(* An instance of PaidLeave, LeaveStanding and TimeoffRequests for TLC.    *)
(***************************************************************************)
EXTENDS PaidLeave, TLC

CONSTANTS r1, r2, c1, c2

MCKeys == {"k1"}

Ask(from, to, part) == [key |-> "k1", from |-> from, to |-> to, part |-> part]

\* Two asks that compete and overlap, and one that begins inside the window of
\* the balance and ends outside.
MCTerms  == {Ask(1, 2, "full"), Ask(2, 2, "am"), Ask(2, 3, "full")}
MCWindow == [k \in MCKeys |-> [from |-> 0, to |-> 2]]
MCCap    == [k \in MCKeys |-> 4]
MCDeltas == {5, -1}
=============================================================================
