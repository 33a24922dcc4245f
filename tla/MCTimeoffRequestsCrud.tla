----------------------- MODULE MCTimeoffRequestsCrud -----------------------
(***************************************************************************)
(* An instance of TimeoffRequestsCrud for TLC.                             *)
(***************************************************************************)
EXTENDS TimeoffRequestsCrud, TLC

CONSTANTS r1, c1, c2, e1

MCKeys == {"k1"}

Ask(from, to) == [key |-> "k1", from |-> from, to |-> to, part |-> "full"]

\* With no submit refusing them, spans that count nothing or less.
MCTerms == {Ask(1, 1), Ask(2, 1), Ask(2, 0)}

MCWindow == [k \in MCKeys |-> [from |-> 0, to |-> 2]]
MCCap    == [k \in MCKeys |-> 4]
MCDeltas == {1}

CallerSymmetry == Permutations({c1, c2})
=============================================================================
