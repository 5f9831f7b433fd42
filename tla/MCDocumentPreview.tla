------------------------ MODULE MCDocumentPreview ------------------------
(* DocumentPreview for TLC: a long PDF and a short one.                    *)
EXTENDS DocumentPreview

CONSTANTS d1, d2

MCPages == [d \in Docs |-> IF d = d1 THEN 2 ELSE 1]
=============================================================================
