--------------------------- MODULE RenderPromise ---------------------------
(***************************************************************************)
(* What ReportsService.renderPdf promises its callers, whichever of its    *)
(* two renderers runs: a rendering that was started ends, once, with the   *)
(* bytes of a PDF or with an error, and what it ended with stands until    *)
(* the caller takes it.                                                    *)
(***************************************************************************)
CONSTANT Handlers
VARIABLE outcome   \* of the rendering each caller awaits

Init == outcome = [c \in Handlers |-> "none"]

Start(c)  == outcome[c] = "none" /\ outcome' = [outcome EXCEPT ![c] = "running"]
Finish(c) == /\ outcome[c] = "running"
             /\ \E o \in {"pdf", "error"} : outcome' = [outcome EXCEPT ![c] = o]
Take(c)   == /\ outcome[c] \in {"pdf", "error"}
             /\ outcome' = [outcome EXCEPT ![c] = "none"]

Next == \E c \in Handlers : Start(c) \/ Finish(c) \/ Take(c)

Ends == \A c \in Handlers : outcome[c] = "running" ~> outcome[c] \in {"pdf", "error"}

\* What may happen, and with what must.
Steps == Init /\ [][Next]_outcome
Spec  == Steps /\ Ends
=============================================================================
