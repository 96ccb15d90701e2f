--------------------------- MODULE MCProvisioning ---------------------------
(***************************************************************************)
(* Provisioning on small instances.                                        *)
(***************************************************************************)
EXTENDS Provisioning, TLC

\* Interchangeable values: no run of this module has a liveness property.
Symmetric == Permutations(Callers) \cup Permutations(Logins)
             \cup Permutations(Workers) \cup Permutations(Emails)

\* Bound: faults of one kind per behaviour, any number of them.
OneKindOfFault == Cardinality(faults) <= 1
=============================================================================
