------------------------------ MODULE OcrLedger ------------------------------
(***************************************************************************)
(* What the document pipeline promises about OCR text and about billing,   *)
(* said without tasks, statuses, retries or crashes:                       *)
(*   - the text of a document is written once and is then only erased;     *)
(*   - a document is charged to its owner's monthly quota at most once,    *)
(*     and only after its text was written;                                *)
(*   - the quota counter moves by one charge at a time, or back to zero    *)
(*     when a month has ended.                                             *)
(* DocumentPipeline implements this module (PipelineImplementsLedger).     *)
(***************************************************************************)
EXTENDS Naturals

CONSTANT Docs

VARIABLES text,     \* text[d]: the OCR text of document d
          charged,  \* the documents that were charged to the quota
          count     \* the quota counter of the current month

vars == <<text, charged, count>>

Init == /\ text = [d \in Docs |-> "none"]
        /\ charged = {}
        /\ count = 0

Write(d) == /\ text[d] = "none"
            /\ text' = [text EXCEPT ![d] = "saved"]
            /\ UNCHANGED <<charged, count>>

Erase(d) == /\ text[d] = "saved"
            /\ text' = [text EXCEPT ![d] = "erased"]
            /\ UNCHANGED <<charged, count>>

Charge(d) == /\ text[d] # "none"
             /\ d \notin charged
             /\ charged' = charged \cup {d}
             /\ count' = count + 1
             /\ UNCHANGED text

NewMonth == /\ count' = 0
            /\ UNCHANGED <<text, charged>>

Next == \/ \E d \in Docs : Write(d) \/ Erase(d) \/ Charge(d)
        \/ NewMonth

Spec == Init /\ [][Next]_vars
==============================================================================
