--------------------------- MODULE MCVacationDays ---------------------------
(* VacationDays for TLC.                                                   *)
EXTENDS VacationDays

\* Overlapping vacations with and without an end date, and dates that are refused.
SomeSpans == {<<1, 2>>, <<2, NoDay>>, <<NoDay, 2>>}
=============================================================================
