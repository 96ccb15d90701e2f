--------------------------- MODULE MCForemanScope ---------------------------
(* A small instance of ForemanScope for TLC.                               *)
EXTENDS ForemanScope, Naturals, TLC

\* In flight at once: at most one call of a foreman, one of a manager and one change
\* of a foreman's sites.
OneOfAKind ==
  \A c, d \in Callers :
    /\ call[c] # NoCall /\ call[d] # NoCall /\ call[c].by = call[d].by => c = d
    /\ order[c] # NoOrder /\ order[d] # NoOrder => c = d

\* A foreman has at most one row besides the primary site.
OneRow == \A f \in Foremen : Cardinality({s \in Sites : granted[f][s] # "NONE"}) <= 1

Symmetric == Permutations(Callers) \cup Permutations(Sites)
=============================================================================
