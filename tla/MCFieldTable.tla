----------------------------- MODULE MCFieldTable -----------------------------
(* FieldTable for TLC, with a field whose name is cut at a hyphen.         *)
EXTENDS FieldTable

MCRoot == [f \in Fields |-> IF f = 2 THEN 0 ELSE f]
=============================================================================
