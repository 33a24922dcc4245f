------------------------- MODULE MCTimeoffRequests -------------------------
(***************************************************************************)
(* Instances of TimeoffRequests for TLC.                                   *)
(***************************************************************************)
EXTENDS TimeoffRequests, TLC

CONSTANTS r1, r2, c1, c2

MCKeys == {"k1"}

Ask(from, to, part) == [key |-> "k1", from |-> from, to |-> to, part |-> part]

TwoDays  == Ask(1, 2, "full")
HalfDay  == Ask(2, 2, "am")
Inverted == Ask(2, 0, "full")
Late     == Ask(3, 3, "pm")

\* Two asks that compete for one balance, an ask outside its window (Late), and one
\* whose last day is before its first, which a submit refuses.
MCTerms == {TwoDays, HalfDay, Late, Inverted}

MCWindow == [k \in MCKeys |-> [from |-> 0, to |-> 2]]
MCCap    == [k \in MCKeys |-> 4]
MCDeltas == {4, 1, -1}

GrantDeltas == {4}

\* One ask.
OneTerm == {TwoDays}

CallerSymmetry == Permutations({c1, c2})

Symmetry == Permutations({r1, r2}) \cup CallerSymmetry
=============================================================================
