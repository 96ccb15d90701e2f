--------------------------- MODULE MCWorkerFiles ---------------------------
\* WorkerFiles for TLC: documents and pictures are interchangeable among
\* themselves, and so are rows and callers.
EXTENDS WorkerFiles, TLC

Symmetry == Permutations(DocKeys) \cup Permutations(ImageKeys)
            \cup Permutations(Rows) \cup Permutations(Callers)
=============================================================================
