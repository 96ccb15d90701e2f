-------------------------- MODULE MCStaffingLinks --------------------------
(* StaffingLinks for TLC.  A listing never has a name twice, so the CHOOSE *)
(* of Preselection has one candidate at most and the values are symmetric. *)
EXTENDS StaffingLinks, TLC

Symmetry == Permutations(Companies) \cup Permutations(Names)
=============================================================================
