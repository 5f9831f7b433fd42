----------------------- MODULE DocumentPipelineProofs -----------------------
(* Theorems about DocumentPipeline, for every value of its constants.      *)
EXTENDS DocumentPipeline, TLAPS

\* The variables an action may leave alone, spelled out.
USE DEF storeVars, procVars, quotaVars, eventVars, histVars, vars

\* The typing facts every action needs of the operators it is built from.
LEMMA SetStatusType ==
  ASSUME TypeOK, NEW d \in Docs, NEW s \in RowStatus
  PROVE  SetStatus(d, s) \in [Docs -> RowStatus \cup {"none", "deleted"}]
BY DEF TypeOK, SetStatus, Exists

LEMMA GotoType ==
  ASSUME TypeOK, NEW d \in Docs, NEW k \in Slots, NEW p \in TaskPoints, Goto(d, k, p)
  PROVE  pc' \in [Docs -> [Slots -> TaskPoints]]
BY DEF TypeOK, Goto

\* Updating one slot of one document keeps the type of the table.
LEMMA SlotUpdate ==
  ASSUME NEW S, NEW table \in [Docs -> [Slots -> S]],
         NEW d \in Docs, NEW k \in Slots, NEW v \in S
  PROVE  [table EXCEPT ![d][k] = v] \in [Docs -> [Slots -> S]]
OBVIOUS

LEMMA TypeInit == Init => TypeOK
<1> SUFFICES ASSUME Init PROVE TypeOK
  OBVIOUS
<1>1. resetDue \in BOOLEAN
  BY DEF Init
<1>2. file \in [Docs -> BOOLEAN] /\ meta \in [Docs -> BOOLEAN]
  BY DEF Init
<1>3. QED
  BY <1>1, <1>2 DEF Init, TypeOK, UploadPoints, TaskPoints

\* Every step keeps the type invariant.
THEOREM TypeInductive == TypeOK /\ [Next]_vars => TypeOK'
<1> SUFFICES ASSUME TypeOK, [Next]_vars PROVE TypeOK'
  OBVIOUS
<1> USE DEF TypeOK
<1>1. ASSUME NEW d \in Docs, RequestUpload(d) PROVE TypeOK'
  <2>1. faults' \in Nat /\ charges' \in Nat /\ usage' \in Nat
    BY <1>1 DEF RequestUpload, Call
  <2>2. resetDue' \in BOOLEAN
    BY <1>1 DEF RequestUpload, Applied
  <2>3. upload' \in [Docs -> UploadPoints]
    BY <1>1 DEF RequestUpload, UploadPoints
  <2>4. QED
    BY <2>1, <2>2, <2>3, <1>1 DEF RequestUpload
<1>2. ASSUME NEW d \in Docs, StoreFile(d) PROVE TypeOK'
  <2>1. faults' \in Nat
    BY <1>2 DEF StoreFile, Call
  <2>2. upload' \in [Docs -> UploadPoints]
    BY <1>2 DEF StoreFile, UploadPoints
  <2>3. file' \in [Docs -> BOOLEAN]
    BY <1>2 DEF StoreFile, Applied
  <2>4. QED
    BY <2>1, <2>2, <2>3, <1>2 DEF StoreFile
<1>3. ASSUME NEW d \in Docs, NEW k \in Slots, InsertRow(d, k) PROVE TypeOK'
  <2>1. faults' \in Nat
    BY <1>3 DEF InsertRow, Call
  <2>2. upload' \in [Docs -> UploadPoints]
    BY <1>3 DEF InsertRow, UploadPoints
  <2>3. pc' \in [Docs -> [Slots -> TaskPoints]]
    BY <1>3, GotoType DEF InsertRow, TaskPoints, OcrPoints
  <2>4. status' \in [Docs -> RowStatus \cup {"none", "deleted"}]
    BY <1>3 DEF InsertRow, NewRowStatus, RowStatus, InFlightStatus
  <2>5. QED
    BY <2>1, <2>2, <2>3, <2>4, <1>3 DEF InsertRow
<1>4. ASSUME NEW d \in Docs, CleanUp(d) PROVE TypeOK'
  BY <1>4 DEF CleanUp, Call, Applied, Outcomes, UploadPoints
<1>5. ASSUME NEW d \in Docs, NEW k \in Slots, BeginOcr(d, k) PROVE TypeOK'
  BY <1>5, SetStatusType DEF BeginOcr, Call, Goto, RowStatus, InFlightStatus, TaskPoints, OcrPoints
<1>6. ASSUME NEW d \in Docs, NEW k \in Slots, FinishOcr(d, k) PROVE TypeOK'
  BY <1>6 DEF FinishOcr, Goto, TaskPoints, OcrPoints
<1>7. ASSUME NEW d \in Docs, NEW k \in Slots, SaveOcr(d, k) PROVE TypeOK'
  <2>1. faults' \in Nat
    BY <1>7 DEF SaveOcr, Call
  <2>2. pc' \in [Docs -> [Slots -> TaskPoints]]
    BY <1>7, GotoType DEF SaveOcr, TaskPoints, OcrPoints
  <2>3. ocr' \in [Docs -> {"none", "saved", "erased"}]
    BY <1>7 DEF SaveOcr
  <2>4. QED
    BY <2>1, <2>2, <2>3, <1>7 DEF SaveOcr
<1>8. ASSUME NEW d \in Docs, NEW k \in Slots, MarkReady(d, k) PROVE TypeOK'
  BY <1>8, SetStatusType DEF MarkReady, Call, Goto, RowStatus, ReadyStatus, TaskPoints, OcrPoints
<1>9. ASSUME NEW d \in Docs, NEW k \in Slots, ReadUsage(d, k) PROVE TypeOK'
  <2>1. faults' \in Nat
    BY <1>9 DEF ReadUsage, Call
  <2>2. pc' \in [Docs -> [Slots -> TaskPoints]]
    BY <1>9, GotoType DEF ReadUsage, TaskPoints, OcrPoints
  <2>3. seen' = [seen EXCEPT ![d][k] = usage] \/ seen' = seen
    BY <1>9 DEF ReadUsage
  <2>4. UNCHANGED <<storeVars, upload, quotaVars, crashes, months, histVars>>
    BY <1>9 DEF ReadUsage
  <2>5. seen' \in [Docs -> [Slots -> Nat]]
    <3>1. [seen EXCEPT ![d][k] = usage] \in [Docs -> [Slots -> Nat]]
      BY SlotUpdate
    <3>2. QED
      BY <2>3, <3>1
  <2>6. QED
    BY <2>1, <2>2, <2>4, <2>5
<1>10. ASSUME NEW d \in Docs, NEW k \in Slots, WriteUsage(d, k) PROVE TypeOK'
  <2>1. faults' \in Nat /\ usage' \in Nat /\ charges' \in Nat
    BY <1>10 DEF WriteUsage, Call
  <2>2. pc' \in [Docs -> [Slots -> TaskPoints]]
    BY <1>10, GotoType DEF WriteUsage, TaskPoints, OcrPoints
  <2>3. seen' \in [Docs -> [Slots -> Nat]] /\ billed' \in [Docs -> Nat]
    BY <1>10 DEF WriteUsage
  <2>4. QED
    BY <2>1, <2>2, <2>3, <1>10 DEF WriteUsage
<1>11. ASSUME NEW d \in Docs, NEW k \in Slots, MarkFailed(d, k) PROVE TypeOK'
  BY <1>11, SetStatusType DEF MarkFailed, Call, Goto, RowStatus, TaskPoints, OcrPoints
<1>12. ASSUME NEW d \in Docs, NEW k \in Slots, AgentSaves(d, k) PROVE TypeOK'
  BY <1>12 DEF AgentSaves
<1>13. ASSUME NEW d \in Docs, NEW k \in Slots, AgentEnds(d, k) PROVE TypeOK'
  BY <1>13 DEF AgentEnds, Goto, TaskPoints, OcrPoints
<1>14. ASSUME NEW d \in Docs, NEW k \in Slots, RetryOcr(d, k) PROVE TypeOK'
  <2>1. faults' \in Nat
    BY <1>14 DEF RetryOcr, Call
  <2>2. pc' \in [Docs -> [Slots -> TaskPoints]]
    BY <1>14, GotoType DEF RetryOcr, TaskPoints, OcrPoints
  <2>3. status' \in [Docs -> RowStatus \cup {"none", "deleted"}]
    BY <1>14, SetStatusType DEF RetryOcr, RowStatus, InFlightStatus
  <2>4. stranded' \in SUBSET Docs
    BY <1>14 DEF RetryOcr
  <2>5. QED
    BY <2>1, <2>2, <2>3, <2>4, <1>14 DEF RetryOcr
<1>15. ASSUME NEW d \in Docs, NEW k \in Slots, RequestMetadata(d, k) PROVE TypeOK'
  BY <1>15 DEF RequestMetadata, Goto, TaskPoints, OcrPoints
<1>16. ASSUME NEW d \in Docs, CompleteExtraction(d) PROVE TypeOK'
  BY <1>16, SetStatusType DEF CompleteExtraction, RowStatus, ReadyStatus
<1>17. ASSUME NEW d \in Docs, DeleteRow(d) PROVE TypeOK'
  BY <1>17 DEF DeleteRow
<1>18. ASSUME NEW d \in Docs, NEW e \in Docs, DeleteFile(d, e) PROVE TypeOK'
  BY <1>18 DEF DeleteFile
<1>19. CASE Crash
  BY <1>19 DEF Crash, UploadPoints, TaskPoints, OcrPoints
<1>20. CASE MonthEnds
  BY <1>20 DEF MonthEnds
<1>21. CASE UNCHANGED vars
  BY <1>21
<1>22. QED
  BY <1>1, <1>2, <1>3, <1>4, <1>5, <1>6, <1>7, <1>8, <1>9, <1>10, <1>11, <1>12, <1>13,
     <1>14, <1>15, <1>16, <1>17, <1>18, <1>19, <1>20, <1>21
  DEF Next, UploadStep, TaskStep

\* TypeOK, which TLC checks on small instances, is an invariant of the pipeline
\* for any number of documents, tasks, faults, restarts and months.
THEOREM TypeCorrect == Spec => []TypeOK
BY TypeInit, TypeInductive, PTL DEF Spec
-----------------------------------------------------------------------------
(* The inductive invariant                                                 *)

\* What Goto and SetStatus leave alone.
LEMMA GotoFacts ==
  ASSUME TypeOK, NEW d \in Docs, NEW k \in Slots, NEW p, Goto(d, k, p)
  PROVE  /\ pc'[d][k] = p
         /\ \A e \in Docs, j \in Slots : e # d \/ j # k => pc'[e][j] = pc[e][j]
BY DEF TypeOK, Goto

LEMMA SetStatusFacts ==
  ASSUME TypeOK, NEW d \in Docs, NEW s
  PROVE  \A e \in Docs :
           SetStatus(d, s)[e] = IF e = d /\ Exists(d) THEN s ELSE status[e]
BY DEF TypeOK, SetStatus

\* A coroutine that takes the loop when it is free, or that holds it already,
\* leaves one holder.
LEMMA OneHolderKept ==
  ASSUME TypeOK, OneHolder, NEW d \in Docs, NEW k \in Slots, NEW p, Goto(d, k, p),
         LoopFree \/ pc[d][k] \in HoldsLoop, UNCHANGED upload
  PROVE  OneHolder'
BY GotoFacts DEF OneHolder, LoopFree

\* A new status of an existing row disturbs nothing else about the row.
LEMMA RowKept ==
  ASSUME RowsAndText, AckedRowHasFile, UNCHANGED <<upload, file, ocr, mislaid>>,
         NEW d \in Docs, NEW s \in RowStatus,
         \A e \in Docs : \/ status'[e] = status[e]
                       \/ (e = d /\ Exists(d) /\ status'[e] = s)
  PROVE  RowsAndText' /\ AckedRowHasFile'
<1>1. "none" \notin RowStatus /\ "deleted" \notin RowStatus
  BY DEF RowStatus, InFlightStatus, ReadyStatus
<1>2. QED
  BY <1>1 DEF RowsAndText, AckedRowHasFile, Exists

\* A document is still reported on when no reporting task left its slot.
LEMMA ReportingKept ==
  ASSUME TypeOK, NEW d \in Docs, NEW k \in Slots, NEW p, Goto(d, k, p),
         \/ p \in OcrPoints \ {"read_usage", "write_usage"}
         \/ pc[d][k] \notin OcrPoints \ {"read_usage", "write_usage"}
  PROVE  \A e \in Docs : Reporting(e) => Reporting(e)'
BY GotoFacts DEF Reporting

\* The steps of the background task keep the inductive invariant.
LEMMA TaskInductive ==
  ASSUME IInv, TypeOK', NEW d \in Docs, NEW k \in Slots, TaskStep(d, k)
  PROVE  IInv'
<1> USE DEF IInv
<1>1. CASE BeginOcr(d, k)
  <2>1. PICK out \in Outcomes :
          /\ status' = IF Applied(out) THEN SetStatus(d, "processing") ELSE status
          /\ Goto(d, k, IF out = "ok" /\ file[d] THEN "ocr" ELSE "failing")
    BY <1>1 DEF BeginOcr
  <2>2. PICK p \in {"ocr", "failing"} : Goto(d, k, p)
    BY <2>1
  <2>3. \A e \in Docs : \/ status'[e] = status[e]
                       \/ (e = d /\ Exists(d) /\ status'[e] = "processing")
    BY <2>1, SetStatusFacts
  <2>4. LoopFree /\ pc[d][k] = "queued"
        /\ UNCHANGED <<file, ocr, meta, upload, seen, quotaVars, histVars>>
    BY <1>1 DEF BeginOcr
  <2>5. OneHolder'
    BY <2>2, <2>4, OneHolderKept
  <2>6. RowsAndText' /\ AckedRowHasFile'
    BY <2>3, <2>4, RowKept DEF RowStatus, InFlightStatus
  <2>7. TaskFacts'
    BY <2>2, <2>4, GotoFacts DEF TaskFacts
  <2>8. BilledAtMostOnce' /\ UsageCountsCharges'
    BY <2>4 DEF BilledAtMostOnce, UsageCountsCharges
  <2>9. ReadyHasText'
    BY <2>3, <2>4 DEF ReadyHasText, ReadyStatus
  <2>10. InFlightIsServed'
    <3>1. Reporting(d)'
      BY <2>2, GotoFacts DEF Reporting, OcrPoints
    <3>2. \A e \in Docs : Reporting(e) => Reporting(e)'
      BY <2>2, ReportingKept DEF OcrPoints
    <3>3. QED
      BY <2>3, <2>4, <3>1, <3>2 DEF InFlightIsServed
  <2>11. QED
    BY <2>5, <2>6, <2>7, <2>8, <2>9, <2>10
<1>2. CASE FinishOcr(d, k)
  <2>1. PICK p \in {"save", "failing"} : Goto(d, k, p)
    BY <1>2 DEF FinishOcr
  <2>2. LoopFree /\ pc[d][k] = "ocr"
        /\ UNCHANGED <<storeVars, upload, seen, quotaVars, histVars>>
    BY <1>2 DEF FinishOcr
  <2>3. OneHolder'
    BY <2>1, <2>2, OneHolderKept
  <2>4. TaskFacts'
    BY <2>1, <2>2, GotoFacts DEF TaskFacts
  <2>5. InFlightIsServed'
    BY <2>1, <2>2, ReportingKept DEF InFlightIsServed, OcrPoints
  <2>6. QED
    BY <2>2, <2>3, <2>4, <2>5
    DEF RowsAndText, Exists, BilledAtMostOnce, UsageCountsCharges, ReadyHasText, AckedRowHasFile
<1>3. CASE SaveOcr(d, k)
  <2>1. PICK p \in {"mark", "failing"} : Goto(d, k, p)
    BY <1>3 DEF SaveOcr
  <2>2. pc[d][k] = "save"
        /\ UNCHANGED <<status, file, meta, upload, seen, quotaVars, histVars>>
    BY <1>3 DEF SaveOcr
  <2>3. \/ ocr' = ocr
        \/ (Savable(d) /\ ocr' = [ocr EXCEPT ![d] = "saved"])
    BY <1>3 DEF SaveOcr
  <2>4. p = "mark" => Savable(d) /\ ocr' = [ocr EXCEPT ![d] = "saved"]
    BY <1>3, <2>1, <2>2, GotoFacts DEF SaveOcr, Applied
  <2>5. OneHolder'
    BY <2>1, <2>2, OneHolderKept DEF HoldsLoop
  <2>6. RowsAndText'
    BY <2>2, <2>3 DEF RowsAndText, Savable, Exists, TypeOK
  <2>7. TaskFacts'
    <3>1. ocr[d] = "none" => billed[d] = 0
      BY DEF ReadyHasText, TypeOK
    <3>2. \A e \in Docs : ocr'[e] # ocr[e] => e = d /\ ocr[d] = "none" /\ ocr'[d] = "saved"
      BY <2>3 DEF Savable, TypeOK
    <3>3. p = "mark" => ocr'[d] = "saved" /\ billed[d] = 0
      BY <2>4, <3>1 DEF Savable, TypeOK
    <3>4. QED
      BY <2>1, <2>2, <3>2, <3>3, GotoFacts DEF TaskFacts
  <2>8. BilledAtMostOnce' /\ UsageCountsCharges' /\ AckedRowHasFile'
    BY <2>2 DEF BilledAtMostOnce, UsageCountsCharges, AckedRowHasFile, Exists
  <2>9. ReadyHasText'
    BY <2>2, <2>3 DEF ReadyHasText, TypeOK
  <2>10. InFlightIsServed'
    BY <2>1, <2>2, ReportingKept DEF InFlightIsServed, OcrPoints
  <2>11. QED
    BY <2>5, <2>6, <2>7, <2>8, <2>9, <2>10
<1>4. CASE MarkReady(d, k)
  <2>1. PICK out \in Outcomes :
          /\ status' = IF Applied(out) THEN SetStatus(d, "ocr_complete") ELSE status
          /\ Goto(d, k, IF out = "ok" THEN "read_usage" ELSE "failing")
    BY <1>4 DEF MarkReady
  <2>2. PICK p \in {"read_usage", "failing"} : Goto(d, k, p)
    BY <2>1
  <2>3. \A e \in Docs : \/ status'[e] = status[e]
                       \/ (e = d /\ Exists(d) /\ status'[e] = "ocr_complete")
    BY <2>1, SetStatusFacts
  <2>4. p = "read_usage" => \/ (~Exists(d) /\ status'[d] = status[d])
                            \/ status'[d] = "ocr_complete"
    BY <2>1, <2>2, SetStatusFacts, GotoFacts DEF Applied
  <2>5. pc[d][k] = "mark"
        /\ UNCHANGED <<file, ocr, meta, upload, seen, quotaVars, histVars>>
    BY <1>4 DEF MarkReady
  <2>6. ocr[d] # "none" /\ billed[d] = 0
    BY <2>5 DEF TaskFacts
  <2>7. OneHolder'
    BY <2>2, <2>5, OneHolderKept DEF HoldsLoop
  <2>8. RowsAndText' /\ AckedRowHasFile'
    BY <2>3, <2>5, RowKept DEF RowStatus, ReadyStatus
  <2>9. TaskFacts'
    BY <2>2, <2>5, <2>6, GotoFacts DEF TaskFacts
  <2>10. BilledAtMostOnce' /\ UsageCountsCharges'
    BY <2>5 DEF BilledAtMostOnce, UsageCountsCharges
  <2>11. ReadyHasText'
    <3>1. Exists(d) => ocr[d] = "saved"
      BY <2>6 DEF RowsAndText, TypeOK, Exists, RowStatus, InFlightStatus, ReadyStatus
    <3>2. QED
      BY <2>3, <2>5, <3>1 DEF ReadyHasText
  <2>12. InFlightIsServed'
    <3>1. p = "failing" => Reporting(d)'
      BY <2>2, GotoFacts DEF Reporting, OcrPoints
    <3>2. \A e \in Docs \ {d} : Reporting(e) => Reporting(e)'
      BY <2>2, GotoFacts DEF Reporting
    <3>3. p = "read_usage" => status'[d] \notin InFlightStatus
      BY <2>4 DEF Exists, RowStatus, InFlightStatus
    <3>4. QED
      BY <2>2, <2>3, <2>5, <3>1, <3>2, <3>3 DEF InFlightIsServed
  <2>13. QED
    BY <2>7, <2>8, <2>9, <2>10, <2>11, <2>12
<1>5. CASE ReadUsage(d, k)
  <2>1. PICK p \in {"write_usage", "failing"} : Goto(d, k, p)
    BY <1>5 DEF ReadUsage
  <2>2. pc[d][k] = "read_usage"
        /\ UNCHANGED <<storeVars, upload, quotaVars, histVars>>
    BY <1>5 DEF ReadUsage
  <2>3. \/ seen' = seen /\ p = "failing"
        \/ seen' = [seen EXCEPT ![d][k] = usage]
    BY <1>5, <2>1, GotoFacts DEF ReadUsage
  <2>4. OneHolder'
    BY <2>1, <2>2, OneHolderKept DEF HoldsLoop
  <2>5. TaskFacts'
    <3>1. p = "write_usage" => seen'[d][k] = usage
      BY <2>3 DEF TypeOK
    <3>2. \A e \in Docs, j \in Slots : e # d \/ j # k => seen'[e][j] = seen[e][j]
      BY <2>3 DEF TypeOK
    <3>3. QED
      BY <2>1, <2>2, <3>1, <3>2, GotoFacts DEF TaskFacts
  <2>6. InFlightIsServed'
    BY <2>1, <2>2, ReportingKept DEF InFlightIsServed
  <2>7. QED
    BY <2>2, <2>4, <2>5, <2>6
    DEF RowsAndText, Exists, BilledAtMostOnce, UsageCountsCharges, ReadyHasText, AckedRowHasFile
<1>6. CASE WriteUsage(d, k)
  <2>1. PICK p \in {"metadata", "failing"} : Goto(d, k, p)
    BY <1>6 DEF WriteUsage
  <2>2. pc[d][k] = "write_usage"
        /\ UNCHANGED <<storeVars, upload, resetDue, stranded, mislaid>>
    BY <1>6 DEF WriteUsage
  <2>3. \/ UNCHANGED <<usage, billed, charges>>
        \/ /\ usage' = seen[d][k] + 1
           /\ billed' = [billed EXCEPT ![d] = @ + 1]
           /\ charges' = charges + 1
    BY <1>6 DEF WriteUsage
  <2>4. ocr[d] # "none" /\ billed[d] = 0 /\ seen[d][k] = usage
    BY <2>2 DEF TaskFacts
  <2>5. \A e \in Docs : e # d => billed'[e] = billed[e]
    BY <2>3 DEF TypeOK
  <2>6. billed'[d] <= 1
    BY <2>3, <2>4 DEF TypeOK
  <2>7. \A e \in Docs, j \in Slots : pc'[e][j] \notin {"mark", "read_usage", "write_usage"}
    BY <2>1, <2>2, GotoFacts DEF OneHolder, HoldsLoop
  <2>8. OneHolder'
    BY <2>1, <2>2, OneHolderKept DEF HoldsLoop
  <2>9. TaskFacts'
    BY <2>1, <2>2, <2>4, <2>7, GotoFacts DEF TaskFacts
  <2>10. BilledAtMostOnce'
    BY <2>5, <2>6 DEF BilledAtMostOnce
  <2>11. UsageCountsCharges'
    BY <2>3, <2>4 DEF UsageCountsCharges
  <2>12. ReadyHasText'
    BY <2>2, <2>4, <2>5 DEF ReadyHasText
  <2>13. InFlightIsServed'
    BY <2>1, <2>2, ReportingKept DEF InFlightIsServed
  <2>14. QED
    BY <2>2, <2>8, <2>9, <2>10, <2>11, <2>12, <2>13
    DEF RowsAndText, Exists, AckedRowHasFile
<1>7. CASE MarkFailed(d, k)
  <2>1. PICK out \in Outcomes :
          /\ status' = IF Applied(out) THEN SetStatus(d, "failed") ELSE status
          /\ stranded' = IF Applied(out) THEN stranded ELSE stranded \cup {d}
    BY <1>7 DEF MarkFailed
  <2>2. Goto(d, k, "done") /\ pc[d][k] = "failing"
        /\ UNCHANGED <<file, ocr, meta, upload, seen, quotaVars, billed, charges, mislaid>>
    BY <1>7 DEF MarkFailed
  <2>3. \A e \in Docs : \/ status'[e] = status[e]
                       \/ (e = d /\ Exists(d) /\ status'[e] = "failed")
    BY <2>1, SetStatusFacts
  <2>4. OneHolder'
    BY <2>2, OneHolderKept DEF HoldsLoop
  <2>5. RowsAndText' /\ AckedRowHasFile'
    BY <2>2, <2>3, RowKept DEF RowStatus
  <2>6. TaskFacts'
    BY <2>2, GotoFacts DEF TaskFacts
  <2>7. BilledAtMostOnce' /\ UsageCountsCharges'
    BY <2>2 DEF BilledAtMostOnce, UsageCountsCharges
  <2>8. ReadyHasText'
    BY <2>2, <2>3 DEF ReadyHasText, ReadyStatus
  <2>9. InFlightIsServed'
    <3>1. \A e \in Docs \ {d} : Reporting(e) => Reporting(e)'
      BY <2>2, GotoFacts DEF Reporting
    <3>2. status'[d] \in InFlightStatus => d \in stranded'
      BY <2>1, SetStatusFacts DEF Exists, RowStatus, InFlightStatus
    <3>3. stranded \subseteq stranded'
      BY <2>1
    <3>4. QED
      BY <2>3, <3>1, <3>2, <3>3 DEF InFlightIsServed
  <2>10. QED
    BY <2>4, <2>5, <2>6, <2>7, <2>8, <2>9
<1>8. CASE AgentEnds(d, k)
  <2>1. Goto(d, k, "done") /\ pc[d][k] = "metadata" /\ LoopFree
        /\ UNCHANGED <<storeVars, upload, seen, quotaVars, histVars>>
    BY <1>8 DEF AgentEnds
  <2>2. OneHolder'
    BY <2>1, OneHolderKept
  <2>3. TaskFacts'
    BY <2>1, GotoFacts DEF TaskFacts
  <2>4. InFlightIsServed'
    BY <2>1, ReportingKept DEF InFlightIsServed, OcrPoints
  <2>5. QED
    BY <2>1, <2>2, <2>3, <2>4
    DEF RowsAndText, Exists, BilledAtMostOnce, UsageCountsCharges, ReadyHasText, AckedRowHasFile
<1>9. QED
  BY <1>1, <1>2, <1>3, <1>4, <1>5, <1>6, <1>7, <1>8 DEF TaskStep

\* The steps of POST /document/upload keep the inductive invariant.
LEMMA UploadInductive ==
  ASSUME IInv, TypeOK', NEW d \in Docs, RequestUpload(d) \/ UploadStep(d)
  PROVE  IInv'
<1> USE DEF IInv
<1>1. CASE RequestUpload(d)
  <2>1. upload[d] = "idle" /\ LoopFree
        /\ UNCHANGED <<storeVars, pc, seen, billed, stranded, mislaid>>
    BY <1>1 DEF RequestUpload
  <2>2. \A e \in Docs : upload'[e] = upload[e] \/ (e = d /\ upload'[e] = "reading")
    BY <1>1 DEF RequestUpload, TypeOK
  <2>3. usage' = charges'
    BY <1>1 DEF RequestUpload, UsageCountsCharges
  <2>4. OneHolder' /\ TaskFacts'
    BY <2>1 DEF OneHolder, TaskFacts, LoopFree, HoldsLoop
  <2>5. RowsAndText' /\ AckedRowHasFile'
    BY <2>1, <2>2 DEF RowsAndText, AckedRowHasFile, Exists
  <2>6. QED
    BY <2>1, <2>3, <2>4, <2>5
    DEF BilledAtMostOnce, UsageCountsCharges, ReadyHasText, InFlightIsServed, Reporting
<1>2. CASE StoreFile(d)
  <2>1. upload[d] = "reading" /\ LoopFree
        /\ UNCHANGED <<status, ocr, meta, pc, seen, quotaVars, histVars>>
    BY <1>2 DEF StoreFile
  <2>2. \A e \in Docs \ {d} : upload'[e] = upload[e] /\ file'[e] = file[e]
    BY <1>2 DEF StoreFile, TypeOK
  <2>3. upload'[d] = "refused" \/ (upload'[d] = "inserting" /\ file'[d])
    BY <1>2 DEF StoreFile, TypeOK, Applied
  <2>4. OneHolder' /\ TaskFacts'
    BY <2>1 DEF OneHolder, TaskFacts, LoopFree, HoldsLoop
  <2>5. RowsAndText' /\ AckedRowHasFile'
    BY <2>1, <2>2, <2>3 DEF RowsAndText, AckedRowHasFile, Exists
  <2>6. QED
    BY <2>1, <2>4, <2>5
    DEF BilledAtMostOnce, UsageCountsCharges, ReadyHasText, InFlightIsServed, Reporting
<1>3. ASSUME NEW k \in Slots, InsertRow(d, k) PROVE IInv'
  <2>1. PICK out \in Outcomes :
          /\ status' = IF Applied(out) THEN [status EXCEPT ![d] = NewRowStatus] ELSE status
          /\ upload' = [upload EXCEPT ![d] = IF out = "ok" THEN "acked" ELSE "cleanup"]
          /\ IF out = "ok" THEN Goto(d, k, "queued") ELSE UNCHANGED pc
          /\ stranded' = IF out = "lost" THEN stranded \cup {d} ELSE stranded
    BY <1>3 DEF InsertRow
  <2>2. upload[d] = "inserting" /\ pc[d][k] = "unused"
        /\ UNCHANGED <<file, ocr, meta, seen, quotaVars, billed, charges, mislaid>>
    BY <1>3 DEF InsertRow
  <2>3. \A e \in Docs \ {d} : status'[e] = status[e] /\ upload'[e] = upload[e]
    BY <2>1 DEF TypeOK
  <2>4. status[d] = "none" /\ file[d] /\ ocr[d] = "none"
    BY <2>2 DEF RowsAndText, Exists, RowStatus, InFlightStatus, ReadyStatus, TypeOK
  <2>5. status'[d] \in {"none", "uploading"} /\ upload'[d] \in {"acked", "cleanup"}
    BY <2>1, <2>4 DEF NewRowStatus, TypeOK
  <2>6. \A e \in Docs, j \in Slots :
          pc'[e][j] = pc[e][j] \/ (e = d /\ j = k /\ pc'[e][j] = "queued")
    BY <2>1, GotoFacts
  <2>7. OneHolder'
    <3>1. \A e \in Docs, j \in Slots : pc[e][j] \notin HoldsLoop
      BY <2>2 DEF OneHolder, UploadHolds
    <3>2. QED
      BY <2>6, <3>1 DEF OneHolder, HoldsLoop
  <2>8. RowsAndText' /\ AckedRowHasFile'
    BY <2>2, <2>3, <2>4, <2>5 DEF RowsAndText, AckedRowHasFile, Exists
  <2>9. TaskFacts'
    BY <2>2, <2>6 DEF TaskFacts
  <2>10. BilledAtMostOnce' /\ UsageCountsCharges'
    BY <2>2 DEF BilledAtMostOnce, UsageCountsCharges
  <2>11. ReadyHasText'
    BY <2>2, <2>3, <2>5, <2>4 DEF ReadyHasText, ReadyStatus
  <2>12. InFlightIsServed'
    <3>1. \A e \in Docs : Reporting(e) => Reporting(e)'
      BY <2>2, <2>6 DEF Reporting, OcrPoints
    <3>2. CASE out = "ok"
      <4>1. Reporting(d)'
        BY <2>1, <3>2, GotoFacts DEF Reporting, OcrPoints
      <4>2. QED
        BY <2>1, <2>3, <3>1, <3>2, <4>1 DEF InFlightIsServed
    <3>3. CASE out = "lost"
      BY <2>1, <2>3, <3>1, <3>3 DEF InFlightIsServed
    <3>4. CASE out = "error"
      BY <2>1, <2>3, <2>4, <3>1, <3>4 DEF InFlightIsServed, Applied
    <3>5. QED
      BY <3>2, <3>3, <3>4 DEF Outcomes
  <2>13. QED
    BY <2>7, <2>8, <2>9, <2>10, <2>11, <2>12
<1>4. CASE CleanUp(d)
  <2>1. upload[d] = "cleanup"
        /\ UNCHANGED <<status, ocr, meta, pc, seen, quotaVars, histVars>>
    BY <1>4 DEF CleanUp
  <2>2. upload'[d] = "refused"
        /\ \A e \in Docs \ {d} : upload'[e] = upload[e] /\ file'[e] = file[e]
    BY <1>4 DEF CleanUp, TypeOK
  <2>3. OneHolder' /\ TaskFacts'
    BY <2>1, <2>2 DEF OneHolder, TaskFacts, UploadHolds
  <2>4. RowsAndText' /\ AckedRowHasFile'
    BY <2>1, <2>2 DEF RowsAndText, AckedRowHasFile, Exists
  <2>5. QED
    BY <2>1, <2>3, <2>4
    DEF BilledAtMostOnce, UsageCountsCharges, ReadyHasText, InFlightIsServed, Reporting
<1>5. QED
  BY <1>1, <1>2, <1>3, <1>4 DEF UploadStep

\* The other requests, the browser's writes and the environment keep it.
LEMMA RequestInductive ==
  ASSUME IInv, TypeOK', NEW d \in Docs, NEW k \in Slots,
         AgentSaves(d, k) \/ RetryOcr(d, k) \/ RequestMetadata(d, k)
  PROVE  IInv'
<1> USE DEF IInv
<1>1. CASE AgentSaves(d, k)
  <2>1. pc[d][k] = "metadata" /\ Exists(d)
        /\ UNCHANGED <<status, file, ocr, procVars, quotaVars, histVars>>
    BY <1>1 DEF AgentSaves
  <2>2. \A e \in Docs \ {d} : meta'[e] = meta[e]
    BY <1>1 DEF AgentSaves, TypeOK
  <2>3. ocr[d] = "saved"
    BY <2>1 DEF TaskFacts, RowsAndText, TypeOK, Exists, RowStatus, InFlightStatus, ReadyStatus
  <2>4. ReadyHasText'
    BY <2>1, <2>2, <2>3 DEF ReadyHasText
  <2>5. QED
    BY <2>1, <2>4
    DEF OneHolder, TaskFacts, RowsAndText, Exists, BilledAtMostOnce, UsageCountsCharges,
        InFlightIsServed, Reporting, AckedRowHasFile
<1>2. CASE RetryOcr(d, k)
  <2>1. PICK out \in Outcomes :
          /\ status' = IF Applied(out) THEN SetStatus(d, "uploading") ELSE status
          /\ IF out = "ok" THEN Goto(d, k, "queued") ELSE UNCHANGED pc
          /\ stranded' = IF out = "lost" THEN stranded \cup {d}
                         ELSE IF out = "ok" THEN stranded \ {d} ELSE stranded
    BY <1>2 DEF RetryOcr
  <2>2. pc[d][k] = "unused" /\ LoopFree
        /\ UNCHANGED <<file, ocr, meta, upload, seen, quotaVars, billed, charges, mislaid>>
    BY <1>2 DEF RetryOcr
  <2>3. \A e \in Docs : \/ status'[e] = status[e]
                       \/ (e = d /\ Exists(d) /\ status'[e] = "uploading")
    BY <2>1, SetStatusFacts
  <2>4. \A e \in Docs, j \in Slots :
          pc'[e][j] = pc[e][j] \/ (e = d /\ j = k /\ pc'[e][j] = "queued")
    BY <2>1, GotoFacts
  <2>5. OneHolder'
    BY <2>2, <2>4 DEF OneHolder, LoopFree, HoldsLoop
  <2>6. RowsAndText' /\ AckedRowHasFile'
    BY <2>2, <2>3, RowKept DEF RowStatus, InFlightStatus
  <2>7. TaskFacts'
    BY <2>2, <2>4 DEF TaskFacts
  <2>8. BilledAtMostOnce' /\ UsageCountsCharges'
    BY <2>2 DEF BilledAtMostOnce, UsageCountsCharges
  <2>9. ReadyHasText'
    BY <2>2, <2>3 DEF ReadyHasText, ReadyStatus
  <2>10. InFlightIsServed'
    <3>1. \A e \in Docs : Reporting(e) => Reporting(e)'
      BY <2>2, <2>4 DEF Reporting, OcrPoints
    <3>2. \A e \in Docs \ {d} : e \in stranded => e \in stranded'
      BY <2>1
    <3>3. CASE out = "ok"
      <4>1. Reporting(d)'
        BY <2>1, <3>3, GotoFacts DEF Reporting, OcrPoints
      <4>2. QED
        BY <2>3, <3>1, <3>2, <4>1 DEF InFlightIsServed
    <3>4. CASE out = "lost"
      BY <2>1, <2>3, <3>1, <3>2, <3>4 DEF InFlightIsServed
    <3>5. CASE out = "error"
      BY <2>1, <3>1, <3>5 DEF InFlightIsServed, Applied
    <3>6. QED
      BY <3>3, <3>4, <3>5 DEF Outcomes
  <2>11. QED
    BY <2>5, <2>6, <2>7, <2>8, <2>9, <2>10
<1>3. CASE RequestMetadata(d, k)
  <2>1. Goto(d, k, "metadata") /\ pc[d][k] = "unused" /\ LoopFree /\ ocr[d] = "saved"
        /\ UNCHANGED <<storeVars, upload, seen, quotaVars, histVars>>
    BY <1>3 DEF RequestMetadata
  <2>2. OneHolder'
    BY <2>1, OneHolderKept
  <2>3. TaskFacts'
    BY <2>1, GotoFacts DEF TaskFacts
  <2>4. InFlightIsServed'
    BY <2>1, ReportingKept DEF InFlightIsServed, OcrPoints
  <2>5. QED
    BY <2>1, <2>2, <2>3, <2>4
    DEF RowsAndText, Exists, BilledAtMostOnce, UsageCountsCharges, ReadyHasText, AckedRowHasFile
<1>4. QED
  BY <1>1, <1>2, <1>3

LEMMA BrowserInductive ==
  ASSUME IInv, TypeOK', NEW d \in Docs,
         CompleteExtraction(d) \/ DeleteRow(d) \/ (\E e \in Docs : DeleteFile(d, e))
  PROVE  IInv'
<1> USE DEF IInv
<1>1. CASE CompleteExtraction(d)
  <2>1. Exists(d) /\ ocr[d] = "saved"
        /\ UNCHANGED <<file, ocr, meta, procVars, quotaVars, histVars>>
    BY <1>1 DEF CompleteExtraction
  <2>2. \A e \in Docs : \/ status'[e] = status[e]
                       \/ (e = d /\ Exists(d) /\ status'[e] = "completed")
    BY <1>1, SetStatusFacts DEF CompleteExtraction
  <2>3. RowsAndText' /\ AckedRowHasFile'
    BY <2>1, <2>2, RowKept DEF RowStatus, ReadyStatus
  <2>4. ReadyHasText'
    BY <2>1, <2>2 DEF ReadyHasText
  <2>5. InFlightIsServed'
    BY <2>1, <2>2 DEF InFlightIsServed, Reporting, InFlightStatus
  <2>6. QED
    BY <2>1, <2>3, <2>4, <2>5
    DEF OneHolder, TaskFacts, BilledAtMostOnce, UsageCountsCharges
<1>2. CASE DeleteRow(d)
  <2>1. Exists(d)
        /\ UNCHANGED <<file, procVars, quotaVars, billed, charges, stranded>>
        /\ mislaid' = mislaid \ {d}
    BY <1>2 DEF DeleteRow
  <2>2. /\ status'[d] = "deleted"
        /\ meta'[d] = FALSE
        /\ ocr'[d] = IF ocr[d] = "saved" THEN "erased" ELSE ocr[d]
    BY <1>2 DEF DeleteRow, TypeOK
  <2>3. \A e \in Docs \ {d} : status'[e] = status[e] /\ meta'[e] = meta[e] /\ ocr'[e] = ocr[e]
    BY <1>2 DEF DeleteRow, TypeOK
  <2>4. "none" \notin RowStatus /\ "deleted" \notin RowStatus
    BY DEF RowStatus, InFlightStatus, ReadyStatus
  <2>5. RowsAndText' /\ AckedRowHasFile'
    BY <2>1, <2>2, <2>3, <2>4 DEF RowsAndText, AckedRowHasFile, Exists
  <2>6. TaskFacts'
    BY <2>1, <2>2, <2>3 DEF TaskFacts
  <2>7. ReadyHasText'
    BY <2>1, <2>2, <2>3 DEF ReadyHasText, ReadyStatus
  <2>8. InFlightIsServed'
    BY <2>1, <2>2, <2>3 DEF InFlightIsServed, Reporting, InFlightStatus
  <2>9. QED
    BY <2>1, <2>5, <2>6, <2>7, <2>8 DEF OneHolder, BilledAtMostOnce, UsageCountsCharges
<1>3. CASE \E e \in Docs : DeleteFile(d, e)
  <2>1. /\ status[d] # "none"
        /\ mislaid' = IF Exists(d) THEN mislaid \cup {d} ELSE mislaid
        /\ UNCHANGED <<status, ocr, meta, procVars, quotaVars, billed, charges, stranded>>
    BY <1>3 DEF DeleteFile
  <2>2. \A f \in Docs \ {d} : file'[f] = file[f]
    BY <1>3 DEF DeleteFile, TypeOK
  <2>3. AckedRowHasFile'
    BY <2>1, <2>2 DEF AckedRowHasFile, Exists
  <2>4. RowsAndText'
    BY <2>1, <2>2 DEF RowsAndText, Exists
  <2>5. QED
    BY <2>1, <2>3, <2>4
    DEF OneHolder, TaskFacts, BilledAtMostOnce, UsageCountsCharges, ReadyHasText,
        InFlightIsServed, Reporting
<1>4. QED
  BY <1>1, <1>2, <1>3

LEMMA EnvironmentInductive ==
  ASSUME IInv, TypeOK', Crash \/ MonthEnds \/ UNCHANGED vars
  PROVE  IInv'
<1> USE DEF IInv
<1>1. CASE Crash
  <2>1. UNCHANGED <<storeVars, quotaVars, billed, charges, mislaid>>
    BY <1>1 DEF Crash
  <2>2. \A e \in Docs, j \in Slots : pc'[e][j] \in {"unused", "done"}
    BY <1>1 DEF Crash
  <2>3. \A e \in Docs : upload'[e] = upload[e] \/ upload'[e] = "refused"
    BY <1>1 DEF Crash
  <2>4. OneHolder' /\ TaskFacts'
    BY <2>2 DEF OneHolder, TaskFacts, HoldsLoop
  <2>5. RowsAndText' /\ AckedRowHasFile'
    BY <2>1, <2>3 DEF RowsAndText, AckedRowHasFile, Exists
  <2>6. InFlightIsServed'
    BY <1>1, <2>1 DEF InFlightIsServed, Crash
  <2>7. QED
    BY <2>1, <2>4, <2>5, <2>6 DEF BilledAtMostOnce, UsageCountsCharges, ReadyHasText
<1>2. CASE MonthEnds
  BY <1>2 DEF MonthEnds, OneHolder, TaskFacts, RowsAndText, Exists, BilledAtMostOnce,
    UsageCountsCharges, ReadyHasText, InFlightIsServed, Reporting, AckedRowHasFile
<1>3. CASE UNCHANGED vars
  BY <1>3 DEF OneHolder, TaskFacts, RowsAndText, Exists, BilledAtMostOnce,
    UsageCountsCharges, ReadyHasText, InFlightIsServed, Reporting, AckedRowHasFile
<1>4. QED
  BY <1>1, <1>2, <1>3

\* IInv is inductive: it holds at the start and every step keeps it.
THEOREM Inductive == Spec => []IInv
<1>1. Init => IInv
  <2> SUFFICES ASSUME Init, TypeOK PROVE IInv
    BY TypeInit
  <2>1. OneHolder /\ TaskFacts
    BY DEF Init, OneHolder, TaskFacts, HoldsLoop
  <2>2. RowsAndText /\ AckedRowHasFile
    BY DEF Init, RowsAndText, AckedRowHasFile
  <2>3. ReadyHasText
    <3>1. \A d \in Docs : ~meta[d]
      BY DEF Init
    <3>2. \A d \in Docs : status[d] = "none" /\ billed[d] = 0
      BY DEF Init
    <3>3. \A d \in Docs : ~(status[d] \in ReadyStatus \/ meta[d])
      BY <3>1, <3>2 DEF ReadyStatus
    <3>4. \A d \in Docs : ~(billed[d] > 0)
      <4>1. ~(0 > 0)
        OBVIOUS
      <4>2. QED
        BY <3>2, <4>1
    <3>5. QED
      BY <3>3, <3>4 DEF ReadyHasText
  <2>4. QED
    BY <2>1, <2>2, <2>3
    DEF Init, IInv, BilledAtMostOnce, UsageCountsCharges, InFlightIsServed, InFlightStatus
<1>2. IInv /\ [Next]_vars => IInv'
  <2> SUFFICES ASSUME IInv, [Next]_vars PROVE IInv'
    OBVIOUS
  <2>1. TypeOK'
    BY TypeInductive DEF IInv
  <2>2. QED
    BY <2>1, TaskInductive, UploadInductive, RequestInductive, BrowserInductive,
       EnvironmentInductive
    DEF Next
<1>3. QED
  BY <1>1, <1>2, PTL DEF Spec
-----------------------------------------------------------------------------
(* What follows from the inductive invariant                               *)

\* However often OCR is retried, whatever call fails and whenever the backend
\* restarts, increment_usage charges a document at most once.
THEOREM ChargedOnce == Spec => []BilledAtMostOnce
BY Inductive, PTL DEF IInv

\* increment_usage loses no charge and revives no reset counter, although it
\* reads and writes in two calls: the coroutine keeps the event loop.
THEOREM NoLostCharge == Spec => []UsageCountsCharges
BY Inductive, PTL DEF IInv

\* A document shown as ready, described, or charged has its OCR text.
THEOREM ReadyMeansText == Spec => []ReadyHasText
BY Inductive, PTL DEF IInv

\* 'uploading' and 'processing' have a task behind them, or a known mishap.
THEOREM InFlightMeansTask == Spec => []InFlightIsServed
BY Inductive, PTL DEF IInv

\* An acknowledged upload keeps its object as long as its row, but for a
\* dialog that removes the object of another document than the row it deletes.
THEOREM AckedMeansFile == Spec => []AckedRowHasFile
BY Inductive, PTL DEF IInv

\* No request, fault or restart takes a ready document back by itself: the only
\* step that does is one of a task that was already running.
THEOREM ReadyIsStable == Spec => ReadyIsOnlyLostToATask
<1> DEFINE A == \A d \in Docs :
                  status[d] \in ReadyStatus /\ status'[d] \in RowStatus \ ReadyStatus
                    => \E k \in Slots : pc[d][k] \in OcrPoints /\ pc'[d][k] # pc[d][k]
<1>1. IInv /\ [Next]_vars => [A]_vars
  <2> SUFFICES ASSUME IInv, Next, NEW d \in Docs,
                      status[d] \in ReadyStatus, status'[d] \in RowStatus \ ReadyStatus
               PROVE  \E k \in Slots : pc[d][k] \in OcrPoints /\ pc'[d][k] # pc[d][k]
    OBVIOUS
  <2> USE DEF IInv
  <2>1. status'[d] # status[d]
    OBVIOUS
  <2>2. CASE \E e \in Docs, k \in Slots : BeginOcr(e, k) \/ MarkFailed(e, k)
    <3>1. PICK e \in Docs, k \in Slots : BeginOcr(e, k) \/ MarkFailed(e, k)
      BY <2>2
    <3>2. PICK p \in TaskPoints, s \in RowStatus :
            /\ Goto(e, k, p) /\ p # pc[e][k] /\ pc[e][k] \in OcrPoints
            /\ status' = SetStatus(e, s) \/ status' = status
      <4>1. CASE BeginOcr(e, k)
        BY <4>1 DEF BeginOcr, TaskPoints, OcrPoints, RowStatus, InFlightStatus
      <4>2. CASE MarkFailed(e, k)
        BY <4>2 DEF MarkFailed, TaskPoints, OcrPoints, RowStatus
      <4>3. QED
        BY <3>1, <4>1, <4>2
    <3>3. e = d
      BY <2>1, <3>2, SetStatusFacts
    <3>4. QED
      BY <3>2, <3>3, GotoFacts
  <2>3. CASE \E e \in Docs, k \in Slots : MarkReady(e, k)
    BY <2>1, <2>3, SetStatusFacts DEF MarkReady, ReadyStatus
  <2>4. CASE \E e \in Docs, k \in Slots : RetryOcr(e, k)
    BY <2>1, <2>4, SetStatusFacts DEF RetryOcr, Retryable, ReadyStatus
  <2>5. CASE \E e \in Docs, k \in Slots : InsertRow(e, k)
    <3>1. PICK e \in Docs : upload[e] = "inserting" /\ (\A x \in Docs \ {e} : status'[x] = status[x])
      BY <2>5 DEF InsertRow, TypeOK
    <3>2. status[e] = "none"
      BY <3>1 DEF RowsAndText
    <3>3. QED
      BY <2>1, <3>1, <3>2 DEF ReadyStatus
  <2>6. CASE \E e \in Docs : CompleteExtraction(e)
    BY <2>1, <2>6, SetStatusFacts DEF CompleteExtraction, ReadyStatus
  <2>7. CASE \E e \in Docs : DeleteRow(e)
    <3>1. status'[d] \in {status[d], "deleted"}
      BY <2>7 DEF DeleteRow, TypeOK
    <3>2. QED
      BY <2>1, <3>1 DEF RowStatus, InFlightStatus, ReadyStatus
  <2>8. CASE UNCHANGED status
    BY <2>1, <2>8
  <2>9. QED
    BY <2>2, <2>3, <2>4, <2>5, <2>6, <2>7, <2>8
    DEF Next, UploadStep, TaskStep, RequestUpload, StoreFile, CleanUp, FinishOcr, SaveOcr,
        ReadUsage, WriteUsage, AgentEnds, AgentSaves, RequestMetadata, DeleteFile, Crash, MonthEnds
<1>2. QED
  BY <1>1, Inductive, PTL DEF Spec, ReadyIsOnlyLostToATask
-----------------------------------------------------------------------------
(* The pipeline implements the ledger                                      *)

ChargedDocs == {d \in Docs : billed[d] > 0}

\* Whatever is retried, lost or restarted, the pipeline behaves as OcrLedger
\* says: a text is written once and then only erased, a document is charged
\* once and only for a written text, and the counter moves by one or to zero.
THEOREM Implements == Spec => PipelineImplementsLedger
<1> USE DEF Ledger!vars, ChargedDocs
<1>1. Init => Ledger!Init
  <2> SUFFICES ASSUME Init PROVE Ledger!Init
    OBVIOUS
  <2>1. ~(0 > 0)
    OBVIOUS
  <2>2. ChargedDocs = {}
    BY <2>1 DEF Init
  <2>3. QED
    BY <2>2 DEF Init, Ledger!Init
<1>2. IInv /\ [Next]_vars => [Ledger!Next]_Ledger!vars
  <2> SUFFICES ASSUME IInv, [Next]_vars PROVE [Ledger!Next]_Ledger!vars
    OBVIOUS
  <2> USE DEF IInv
  <2>1. CASE \E d \in Docs : RequestUpload(d)
    <3>1. UNCHANGED <<ocr, billed>> /\ (usage' = usage \/ usage' = 0)
      BY <2>1 DEF RequestUpload
    <3>2. UNCHANGED ChargedDocs
      BY <3>1
    <3>3. QED
      BY <3>1, <3>2 DEF Ledger!Next, Ledger!NewMonth
  <2>2. CASE \E d \in Docs, k \in Slots : SaveOcr(d, k)
    <3>1. PICK d \in Docs, k \in Slots : SaveOcr(d, k)
      BY <2>2
    <3>2. UNCHANGED <<usage, billed>> /\ UNCHANGED ChargedDocs
      BY <3>1 DEF SaveOcr
    <3>3. CASE ocr' = ocr
      BY <3>2, <3>3
    <3>4. CASE ocr' # ocr
      <4>1. ocr[d] = "none" /\ ocr' = [ocr EXCEPT ![d] = "saved"]
        BY <3>1, <3>4 DEF SaveOcr, Savable
      <4>2. Ledger!Write(d)
        BY <3>2, <4>1 DEF Ledger!Write
      <4>3. QED
        BY <4>2 DEF Ledger!Next
    <3>5. QED
      BY <3>3, <3>4
  <2>3. CASE \E d \in Docs, k \in Slots : WriteUsage(d, k)
    <3>1. PICK d \in Docs, k \in Slots : WriteUsage(d, k)
      BY <2>3
    <3>2. pc[d][k] = "write_usage" /\ UNCHANGED ocr
      BY <3>1 DEF WriteUsage
    <3>3. ocr[d] # "none" /\ billed[d] = 0 /\ seen[d][k] = usage
      BY <3>2 DEF TaskFacts
    <3>4. CASE UNCHANGED <<usage, billed>>
      BY <3>2, <3>4
    <3>5. CASE usage' = seen[d][k] + 1 /\ billed' = [billed EXCEPT ![d] = @ + 1]
      <4>1. d \notin ChargedDocs /\ ChargedDocs' = ChargedDocs \cup {d}
        BY <3>3, <3>5 DEF TypeOK
      <4>2. Ledger!Charge(d)
        BY <3>2, <3>3, <3>5, <4>1 DEF Ledger!Charge
      <4>3. QED
        BY <4>2 DEF Ledger!Next
    <3>6. QED
      BY <3>1, <3>4, <3>5 DEF WriteUsage
  <2>4. CASE \E d \in Docs : DeleteRow(d)
    <3>1. PICK d \in Docs : DeleteRow(d)
      BY <2>4
    <3>2. UNCHANGED <<usage, billed>> /\ UNCHANGED ChargedDocs
      BY <3>1 DEF DeleteRow
    <3>3. CASE ocr[d] = "saved"
      <4>1. ocr' = [ocr EXCEPT ![d] = "erased"]
        BY <3>1, <3>3 DEF DeleteRow
      <4>2. Ledger!Erase(d)
        BY <3>2, <3>3, <4>1 DEF Ledger!Erase
      <4>3. QED
        BY <4>2 DEF Ledger!Next
    <3>4. CASE ocr[d] # "saved"
      <4>1. ocr' = ocr
        BY <3>1, <3>4 DEF DeleteRow, TypeOK
      <4>2. QED
        BY <3>2, <4>1
    <3>5. QED
      BY <3>3, <3>4
  <2>5. CASE UNCHANGED <<ocr, usage, billed>>
    BY <2>5
  <2>6. QED
    BY <2>1, <2>2, <2>3, <2>4, <2>5
    DEF Next, UploadStep, TaskStep, StoreFile, InsertRow, CleanUp, BeginOcr, FinishOcr, MarkReady,
        ReadUsage, MarkFailed, AgentEnds, AgentSaves, RetryOcr, RequestMetadata,
        CompleteExtraction, DeleteFile, Crash, MonthEnds
<1>3. QED
  BY <1>1, <1>2, Inductive, PTL DEF Spec, PipelineImplementsLedger, Ledger!Spec

=============================================================================
