------------------------- MODULE MCAccrualCalendar -------------------------
(***************************************************************************)
(* Instances of AccrualCalendar for TLC: allocations that start at the end *)
(* of months of every length, across a leap year, and start points among   *)
(* them the first day after a month too short for a period.                *)
(***************************************************************************)
EXTENDS AccrualCalendar

MCAllocations == {Date(2023, 12, 15), Date(2023, 11, 30), Date(2023, 12, 31),
                  Date(2024, 2, 29)}
MCUnits  == {1, 2, 3, 12}
MCStarts == {None, Date(2024, 3, 1), Date(2024, 3, 30), Date(2024, 4, 15)}
=============================================================================
