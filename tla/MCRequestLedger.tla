-------------------------- MODULE MCRequestLedger --------------------------
(***************************************************************************)
(* RequestLedger on small instances.                                       *)
(***************************************************************************)
EXTENDS RequestLedger, TLC

\* Interchangeable values: sound, as the runs check safety only.
Symmetric == Permutations(Requests) \cup Permutations(Callers) \cup Permutations(RowIds)
=============================================================================
