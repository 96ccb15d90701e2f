---------------------------- MODULE MCWageRates ----------------------------
(***************************************************************************)
(* WageRates on small instances.                                           *)
(***************************************************************************)
EXTENDS WageRates, TLC

\* No wage, an hourly wage, a salary per month.
SomeTerms == {[wage |-> 0,  rateType |-> "HOURLY",  calcMode |-> "FIXED"],
              [wage |-> 5,  rateType |-> "HOURLY",  calcMode |-> "ISRAELI_LABOR_LAW"],
              [wage |-> 90, rateType |-> "MONTHLY", calcMode |-> "FIXED"]}

\* Interchangeable values: no run of this module has a liveness property.
Symmetric == Permutations(Callers) \cup Permutations(Ids) \cup Permutations(Companies)
             \cup Permutations(Sites)
=============================================================================
