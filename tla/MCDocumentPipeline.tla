------------------------- MODULE MCDocumentPipeline -------------------------
(* DocumentPipeline on a few documents and tasks, for TLC.                 *)
EXTENDS DocumentPipeline, TLC

CONSTANTS d1, d2, k1, k2, k3

MCDocs  == {d1, d2}
MCSlots == {k1, k2}

\* One document with more tasks, for liveness: no symmetry there.
MCOneDoc     == {d1}
MCThreeSlots == {k1, k2, k3}

\* Documents and slots are interchangeable: nothing orders or names them.
MCSymmetry == Permutations(MCDocs) \cup Permutations(MCSlots)
=============================================================================
