-------------------------- MODULE MCExtractionAgent --------------------------
(* ExtractionAgent on a few extractions and corrections, for TLC.          *)
EXTENDS ExtractionAgent

CONSTANTS f1, f2

\* Every safety property only asks whether a row has fields at all.
MCOneField  == {f1}
MCTwoFields == {f1, f2}
=============================================================================
