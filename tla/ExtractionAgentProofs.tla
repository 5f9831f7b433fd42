------------------------ MODULE ExtractionAgentProofs ------------------------
(* Theorems about ExtractionAgent, for every value of its constants.       *)
EXTENDS ExtractionAgent, TLAPS

\* The variables an action may leave alone, spelled out.
USE DEF storeVars, procVars, pageVars, histVars, vars

\* Extractions and corrections are different runs, and 0 is neither.
LEMMA Kinds == /\ 0 \notin Rows
               /\ \A r \in Rows : r \in Runs /\ r \notin Corrections
               /\ \A c \in Corrections : c \in Runs /\ c \notin Rows
               /\ \A r \in Rows : Target(r) = r
               /\ \A c \in Corrections : Target(c) = target[c]
<1>1. \A r \in Rows : r \notin Corrections
  BY ExtractionAssumption DEF Rows, Corrections
<1>2. 0 \notin Rows
  BY DEF Rows
<1>3. QED
  BY <1>1, <1>2 DEF Runs, Target

\* What an update of one row's column does, whichever row it is.
LEMMA UpdateType ==
  ASSUME TypeOK
  PROVE  /\ \A r, s : s \in RowStatus
               => SetStatus(r, s) \in [Rows -> RowStatus \cup {"none", "erased"}]
         /\ \A r \in Rows : \A S \in SUBSET Fields : SetFields(r, S) \in [Rows -> SUBSET Fields]
BY DEF TypeOK, SetStatus, SetFields, RowExists

\* A step of run a moves only a.
LEMMA GotoType ==
  ASSUME TypeOK, NEW a \in Runs, NEW p \in Points, Goto(a, p)
  PROVE  pc' \in [Runs -> Points] /\ pc'[a] = p /\ \A b \in Runs \ {a} : pc'[b] = pc[b]
BY DEF TypeOK, Goto

LEMMA TypeInit == Init => TypeOK
<1> SUFFICES ASSUME Init PROVE TypeOK
  OBVIOUS
<1>1. pageOpen \in BOOLEAN
  BY DEF Init
<1>2. QED
  BY <1>1 DEF Init, TypeOK, Points, WaitPoints

\* The tools and the end of a stream work on a row that was chosen.
WorkPoints == WaitPoints \cup ToolPoints \cup EndPoints

HasTarget == \A a \in Runs : pc[a] \in WorkPoints => Target(a) \in Rows

TypeInv == TypeOK /\ HasTarget

\* A run that stays at work, or is an extraction, keeps its row.
LEMMA TargetKept ==
  ASSUME TypeInv, NEW a \in Runs, pc[a] \in WorkPoints \/ a \in Rows,
         \A b \in Runs \ {a} : pc'[b] = pc[b], target' = target
  PROVE  HasTarget'
BY Kinds DEF TypeInv, HasTarget, Target

\* Every step keeps the type invariant.
THEOREM TypeInductive == TypeInv /\ [Next]_vars => TypeInv'
<1> SUFFICES ASSUME TypeInv, [Next]_vars PROVE TypeInv'
  OBVIOUS
<1> USE DEF TypeInv
<1> USE Kinds, GotoType, UpdateType
<1>1. ASSUME NEW r \in Rows, RequestExtract(r) PROVE TypeInv'
  <2>1. TypeOK'
    BY <1>1 DEF RequestExtract, TypeOK, Points, HandlerPoints, ToolPoints, EndPoints, WaitPoints
  <2>2. HasTarget'
    BY <1>1, TargetKept DEF RequestExtract, Points, HandlerPoints, ToolPoints, EndPoints,
       WaitPoints
  <2>3. QED
    BY <2>1, <2>2
<1>2. ASSUME NEW r \in Rows, NEW out \in Outcomes, InsertRow(r, out) PROVE TypeInv'
  <2>1. TypeOK'
    BY <1>2 DEF InsertRow, TypeOK, Points, HandlerPoints, ToolPoints, EndPoints, WaitPoints,
       NewRowStatus, RowStatus
  <2>2. HasTarget'
    BY <1>2, TargetKept DEF InsertRow, WorkPoints, Points, HandlerPoints, ToolPoints,
       EndPoints, WaitPoints
  <2>3. QED
    BY <2>1, <2>2
<1>3. ASSUME NEW r \in Rows, NEW out \in Outcomes, WriteTime(r, out) PROVE TypeInv'
  <2>1. TypeOK'
    BY <1>3 DEF WriteTime, TypeOK, Points, HandlerPoints, ToolPoints, EndPoints, WaitPoints
  <2>2. HasTarget'
    BY <1>3, TargetKept DEF WriteTime, WorkPoints, Points, HandlerPoints, ToolPoints,
       EndPoints, WaitPoints
  <2>3. QED
    BY <2>1, <2>2
<1>4. ASSUME NEW r \in Rows, NEW out \in Outcomes, StoreSession(r, out) PROVE TypeInv'
  <2>1. TypeOK'
    BY <1>4 DEF StoreSession, TypeOK, Points, HandlerPoints, ToolPoints, EndPoints, WaitPoints
  <2>2. HasTarget'
    BY <1>4, TargetKept DEF StoreSession, WorkPoints, Points, HandlerPoints, ToolPoints,
       EndPoints, WaitPoints
  <2>3. QED
    BY <2>1, <2>2
<1>5. ASSUME NEW c \in Corrections, RequestCorrect(c) PROVE TypeInv'
  <2>1. TypeOK'
    BY <1>5 DEF RequestCorrect, TypeOK, Points, HandlerPoints, ToolPoints, EndPoints, WaitPoints
  <2>2. HasTarget'
    BY <1>5 DEF RequestCorrect, HasTarget, Target, WorkPoints, Points, HandlerPoints,
       ToolPoints, EndPoints, WaitPoints
  <2>3. QED
    BY <2>1, <2>2
<1>6. ASSUME NEW c \in Corrections, ChooseRow(c) PROVE TypeInv'
  <2>1. TypeOK'
    BY <1>6 DEF ChooseRow, TypeOK, Points, HandlerPoints, ToolPoints, EndPoints, WaitPoints
  <2>2. ASSUME NEW r \in Rows, target' = [target EXCEPT ![c] = r], Goto(c, "stream")
        PROVE  HasTarget'
    <3>1. target'[c] = r /\ \A b \in Corrections \ {c} : target'[b] = target[b]
      BY <2>2 DEF TypeOK
    <3>2. \A b \in Runs \ {c} : pc'[b] = pc[b]
      BY <2>2 DEF Points, WaitPoints
    <3>3. Target(c)' = r
      BY <3>1 DEF Target
    <3>4. \A b \in Runs \ {c} : Target(b)' = Target(b)
      BY <3>1 DEF Target, Runs
    <3>5. QED
      BY <3>2, <3>3, <3>4 DEF HasTarget
  <2>3. ASSUME Goto(c, "done"), UNCHANGED target PROVE HasTarget'
    <3>1. \A b \in Runs : Target(b)' = Target(b)
      BY <2>3 DEF Target
    <3>2. pc'[c] = "done" /\ \A b \in Runs \ {c} : pc'[b] = pc[b]
      BY <2>3 DEF Points, WaitPoints
    <3>3. QED
      BY <3>1, <3>2 DEF HasTarget, WorkPoints, ToolPoints, EndPoints, WaitPoints
  <2>4. HasTarget'
    BY <1>6, <2>2, <2>3 DEF ChooseRow
  <2>5. QED
    BY <2>1, <2>4
<1>7. ASSUME NEW a \in Runs, NEW S \in SUBSET Fields, SaveExtraction(a, S) PROVE TypeInv'
  <2>1. Target(a) \in Rows
    BY <1>7 DEF SaveExtraction, Streaming, HasTarget, WorkPoints, WaitPoints
  <2>2. fields' \in [Rows -> SUBSET Fields]
    BY <1>7, <2>1 DEF SaveExtraction, TypeOK
  <2>3. status' \in [Rows -> RowStatus \cup {"none", "erased"}]
    BY <1>7 DEF SaveExtraction, TypeOK, RowStatus
  <2>4. TypeOK'
    BY <1>7, <2>2, <2>3 DEF SaveExtraction, TypeOK
  <2>5. HasTarget'
    BY <1>7 DEF SaveExtraction, HasTarget, Target
  <2>6. QED
    BY <2>4, <2>5
<1>8. ASSUME NEW a \in Runs, NEW f \in Fields, SetField(a, f) PROVE TypeInv'
  <2>1. Target(a) \in Rows
    BY <1>8 DEF SetField, Streaming, HasTarget, WorkPoints, WaitPoints
  <2>2. fields' \in [Rows -> SUBSET Fields]
    BY <1>8, <2>1 DEF SetField, TypeOK
  <2>3. status' \in [Rows -> RowStatus \cup {"none", "erased"}]
    BY <1>8 DEF SetField, TypeOK, RowStatus
  <2>4. TypeOK'
    BY <1>8, <2>2, <2>3 DEF SetField, TypeOK
  <2>5. HasTarget'
    BY <1>8 DEF SetField, HasTarget, Target
  <2>6. QED
    BY <2>4, <2>5
<1>9. ASSUME NEW a \in Runs, NEW f \in Fields, DeleteField(a, f) PROVE TypeInv'
  <2>1. Target(a) \in Rows
    BY <1>9 DEF DeleteField, Streaming, HasTarget, WorkPoints, WaitPoints
  <2>2. fields' \in [Rows -> SUBSET Fields]
    BY <1>9, <2>1 DEF DeleteField, TypeOK
  <2>3. status' \in [Rows -> RowStatus \cup {"none", "erased"}]
    BY <1>9 DEF DeleteField, TypeOK, RowStatus
  <2>4. TypeOK'
    BY <1>9, <2>2, <2>3 DEF DeleteField, TypeOK
  <2>5. HasTarget'
    BY <1>9 DEF DeleteField, HasTarget, Target
  <2>6. QED
    BY <2>4, <2>5
<1>10. ASSUME NEW a \in Runs, ReadFields(a) PROVE TypeInv'
  <2>1. TypeOK'
    BY <1>10 DEF ReadFields, TypeOK, Points, HandlerPoints, ToolPoints, EndPoints, WaitPoints
  <2>2. HasTarget'
    BY <1>10, TargetKept DEF ReadFields, Streaming, WorkPoints, Points, HandlerPoints,
       ToolPoints, EndPoints, WaitPoints
  <2>3. QED
    BY <2>1, <2>2
<1>11. ASSUME NEW a \in Runs, NEW out \in Outcomes, CompleteRow(a, out) PROVE TypeInv'
  <2>1. Target(a) \in Rows
    BY <1>11 DEF CompleteRow, HasTarget, WorkPoints, ToolPoints, WaitPoints
  <2>2. TypeOK'
    BY <1>11, <2>1 DEF CompleteRow, TypeOK, RowStatus, Points, HandlerPoints, ToolPoints,
       EndPoints, WaitPoints
  <2>3. HasTarget'
    BY <1>11, TargetKept DEF CompleteRow, WorkPoints, Points, HandlerPoints, ToolPoints,
       EndPoints, WaitPoints
  <2>4. QED
    BY <2>2, <2>3
<1>12. ASSUME NEW a \in Runs, NEW out \in Outcomes, CompleteDocument(a, out) PROVE TypeInv'
  <2>1. TypeOK'
    BY <1>12 DEF CompleteDocument, TypeOK, Points, HandlerPoints, ToolPoints, EndPoints,
       WaitPoints
  <2>2. HasTarget'
    BY <1>12, TargetKept DEF CompleteDocument, WorkPoints, Points, HandlerPoints, ToolPoints,
       EndPoints, WaitPoints
  <2>3. QED
    BY <2>1, <2>2
<1>13. ASSUME NEW a \in Runs, NEW out \in Outcomes, ReportFailure(a, out) PROVE TypeInv'
  <2>1. TypeOK'
    BY <1>13 DEF ReportFailure, TypeOK, Points, HandlerPoints, ToolPoints, EndPoints,
       WaitPoints, RowStatus
  <2>2. HasTarget'
    BY <1>13, TargetKept DEF ReportFailure, WorkPoints, Points, HandlerPoints, ToolPoints,
       EndPoints, WaitPoints
  <2>3. QED
    BY <2>1, <2>2
<1>14. ASSUME NEW a \in Runs, StreamEnds(a) PROVE TypeInv'
  <2>1. TypeOK'
    BY <1>14 DEF StreamEnds, TypeOK, Points, HandlerPoints, ToolPoints, EndPoints, WaitPoints
  <2>2. HasTarget'
    BY <1>14, TargetKept DEF StreamEnds, Streaming, WorkPoints, Points, HandlerPoints,
       ToolPoints, EndPoints, WaitPoints
  <2>3. QED
    BY <2>1, <2>2
<1>15. ASSUME NEW a \in Runs, StreamRaises(a) PROVE TypeInv'
  <2>1. TypeOK'
    BY <1>15 DEF StreamRaises, TypeOK, Points, HandlerPoints, ToolPoints, EndPoints, WaitPoints
  <2>2. HasTarget'
    BY <1>15, TargetKept DEF StreamRaises, Streaming, WorkPoints, Points, HandlerPoints,
       ToolPoints, EndPoints, WaitPoints
  <2>3. QED
    BY <2>1, <2>2
<1>16. ASSUME NEW a \in Runs, StreamCloses(a) PROVE TypeInv'
  <2>1. TypeOK'
    BY <1>16 DEF StreamCloses, TypeOK, Points, WaitPoints
  <2>2. HasTarget'
    BY <1>16, TargetKept DEF StreamCloses, WorkPoints, WaitPoints, Points
  <2>3. QED
    BY <2>1, <2>2
<1>17. ASSUME NEW a \in Runs, Disconnect(a) PROVE TypeInv'
  <2>1. TypeOK'
    BY <1>17 DEF Disconnect, TypeOK, Points, HandlerPoints, ToolPoints, EndPoints, WaitPoints
  <2>2. HasTarget'
    BY <1>17, TargetKept DEF Disconnect, Streaming, WorkPoints, Points, HandlerPoints,
       ToolPoints, EndPoints, WaitPoints
  <2>3. QED
    BY <2>1, <2>2
<1>18. ASSUME NEW r \in Rows, RenderPage(r) PROVE TypeInv'
  <2>1. pageOpen' \in BOOLEAN
    BY <1>18 DEF RenderPage
  <2>2. TypeOK'
    BY <1>18, <2>1 DEF RenderPage, TypeOK
  <2>3. HasTarget'
    BY <1>18 DEF RenderPage, HasTarget, Target
  <2>4. QED
    BY <2>2, <2>3
<1>19. ASSUME NEW S \in SUBSET Displayed, DeleteFields(S) PROVE TypeInv'
  <2>1. TypeOK'
    BY <1>19 DEF DeleteFields, TypeOK
  <2>2. HasTarget'
    BY <1>19 DEF DeleteFields, HasTarget, Target
  <2>3. QED
    BY <2>1, <2>2
<1>20. CASE DeleteDocument
  <2>1. TypeOK'
    BY <1>20 DEF DeleteDocument, TypeOK
  <2>2. HasTarget'
    BY <1>20 DEF DeleteDocument, HasTarget, Target
  <2>3. QED
    BY <2>1, <2>2
<1>21. CASE TaskWrites
  <2>1. TypeOK'
    BY <1>21 DEF TaskWrites, TypeOK
  <2>2. HasTarget'
    BY <1>21 DEF TaskWrites, HasTarget, Target
  <2>3. QED
    BY <2>1, <2>2
<1>22. CASE Crash
  <2>1. TypeOK'
    BY <1>22 DEF Crash, TypeOK, Points, WaitPoints
  <2>2. HasTarget'
    BY <1>22 DEF Crash, HasTarget, Target, WorkPoints, ToolPoints, EndPoints, WaitPoints
  <2>3. QED
    BY <2>1, <2>2
<1>23. CASE UNCHANGED vars
  BY <1>23 DEF TypeOK, HasTarget, Target
<1>24. QED
  <2> USE DEF Next, ExtractStep, CorrectStep, AgentStep, BrowserStep
  <2>1. ASSUME NEW r \in Rows, ExtractStep(r) PROVE TypeInv'
    BY <2>1, <1>1, <1>2, <1>3, <1>4
  <2>2. ASSUME NEW c \in Corrections, CorrectStep(c) PROVE TypeInv'
    BY <2>2, <1>5, <1>6
  <2>3. ASSUME NEW a \in Runs, AgentStep(a) PROVE TypeInv'
    BY <2>3, <1>7, <1>8, <1>9, <1>10, <1>11, <1>12, <1>13, <1>14, <1>15, <1>16, <1>17
  <2>4. CASE BrowserStep
    BY <2>4, <1>18, <1>19, <1>20
  <2>5. QED
    BY <2>1, <2>2, <2>3, <2>4, <1>21, <1>22, <1>23
-----------------------------------------------------------------------------
(* Who holds the loop                                                      *)

\* Two runs never hold the loop together, and each kind of run keeps to its
\* own control points.
OneHolder == \A a, b \in Runs : pc[a] \in HoldsLoop /\ pc[b] \in HoldsLoop => a = b

KindOfRun == /\ \A c \in Corrections : pc[c] \notin {"inserting", "timing", "storing"}
             /\ \A r \in Rows : pc[r] # "choosing"

LoopInv == OneHolder /\ KindOfRun

\* A step of run a keeps OneHolder when a held the loop before it, when it does
\* not hold it after, or when nobody held it.
LEMMA HolderKept ==
  ASSUME OneHolder, NEW a \in Runs, \A b \in Runs \ {a} : pc'[b] = pc[b],
         pc[a] \in HoldsLoop \/ pc'[a] \notin HoldsLoop \/ LoopFree
  PROVE  OneHolder'
BY DEF OneHolder, LoopFree

LEMMA LoopInductive == TypeInv /\ LoopInv /\ [Next]_vars => LoopInv'
<1> SUFFICES ASSUME TypeInv, LoopInv, [Next]_vars PROVE LoopInv'
  OBVIOUS
<1> USE Kinds, GotoType DEF TypeInv, LoopInv
<1>1. ASSUME NEW r \in Rows, RequestExtract(r) PROVE LoopInv'
  <2>1. OneHolder'
    BY <1>1, HolderKept DEF RequestExtract, Streaming, HoldsLoop, Points, HandlerPoints,
       ToolPoints, EndPoints, WaitPoints
  <2>2. KindOfRun'
    BY <1>1 DEF RequestExtract, Streaming, KindOfRun, Runs, Points, HandlerPoints, ToolPoints,
       EndPoints, WaitPoints
  <2>3. QED
    BY <2>1, <2>2
<1>2. ASSUME NEW r \in Rows, NEW out \in Outcomes, InsertRow(r, out) PROVE LoopInv'
  <2>1. OneHolder'
    BY <1>2, HolderKept DEF InsertRow, Streaming, HoldsLoop, Points, HandlerPoints, ToolPoints,
       EndPoints, WaitPoints
  <2>2. KindOfRun'
    BY <1>2 DEF InsertRow, Streaming, KindOfRun, Runs, Points, HandlerPoints, ToolPoints,
       EndPoints, WaitPoints
  <2>3. QED
    BY <2>1, <2>2
<1>3. ASSUME NEW r \in Rows, NEW out \in Outcomes, WriteTime(r, out) PROVE LoopInv'
  <2>1. OneHolder'
    BY <1>3, HolderKept DEF WriteTime, Streaming, HoldsLoop, Points, HandlerPoints, ToolPoints,
       EndPoints, WaitPoints
  <2>2. KindOfRun'
    BY <1>3 DEF WriteTime, Streaming, KindOfRun, Runs, Points, HandlerPoints, ToolPoints,
       EndPoints, WaitPoints
  <2>3. QED
    BY <2>1, <2>2
<1>4. ASSUME NEW r \in Rows, NEW out \in Outcomes, StoreSession(r, out) PROVE LoopInv'
  <2>1. OneHolder'
    BY <1>4, HolderKept DEF StoreSession, Streaming, HoldsLoop, Points, HandlerPoints,
       ToolPoints, EndPoints, WaitPoints
  <2>2. KindOfRun'
    BY <1>4 DEF StoreSession, Streaming, KindOfRun, Runs, Points, HandlerPoints, ToolPoints,
       EndPoints, WaitPoints
  <2>3. QED
    BY <2>1, <2>2
<1>5. ASSUME NEW c \in Corrections, RequestCorrect(c) PROVE LoopInv'
  <2>1. OneHolder'
    BY <1>5, HolderKept DEF RequestCorrect, Streaming, HoldsLoop, Points, HandlerPoints,
       ToolPoints, EndPoints, WaitPoints
  <2>2. KindOfRun'
    BY <1>5 DEF RequestCorrect, Streaming, KindOfRun, Runs, Points, HandlerPoints, ToolPoints,
       EndPoints, WaitPoints
  <2>3. QED
    BY <2>1, <2>2
<1>6. ASSUME NEW c \in Corrections, ChooseRow(c) PROVE LoopInv'
  <2>1. OneHolder'
    BY <1>6, HolderKept DEF ChooseRow, Streaming, HoldsLoop, Points, HandlerPoints, ToolPoints,
       EndPoints, WaitPoints
  <2>2. KindOfRun'
    BY <1>6 DEF ChooseRow, Streaming, KindOfRun, Runs, Points, HandlerPoints, ToolPoints,
       EndPoints, WaitPoints
  <2>3. QED
    BY <2>1, <2>2
<1>7. ASSUME NEW a \in Runs, NEW S \in SUBSET Fields, SaveExtraction(a, S) PROVE LoopInv'
  BY <1>7 DEF SaveExtraction, OneHolder, KindOfRun
<1>8. ASSUME NEW a \in Runs, NEW f \in Fields, SetField(a, f) PROVE LoopInv'
  BY <1>8 DEF SetField, OneHolder, KindOfRun
<1>9. ASSUME NEW a \in Runs, NEW f \in Fields, DeleteField(a, f) PROVE LoopInv'
  BY <1>9 DEF DeleteField, OneHolder, KindOfRun
<1>10. ASSUME NEW a \in Runs, ReadFields(a) PROVE LoopInv'
  <2>1. OneHolder'
    BY <1>10, HolderKept DEF ReadFields, Streaming, HoldsLoop, Points, HandlerPoints,
       ToolPoints, EndPoints, WaitPoints
  <2>2. KindOfRun'
    BY <1>10 DEF ReadFields, Streaming, KindOfRun, Runs, Points, HandlerPoints, ToolPoints,
       EndPoints, WaitPoints
  <2>3. QED
    BY <2>1, <2>2
<1>11. ASSUME NEW a \in Runs, NEW out \in Outcomes, CompleteRow(a, out) PROVE LoopInv'
  <2>1. OneHolder'
    BY <1>11, HolderKept DEF CompleteRow, Streaming, HoldsLoop, Points, HandlerPoints,
       ToolPoints, EndPoints, WaitPoints
  <2>2. KindOfRun'
    BY <1>11 DEF CompleteRow, Streaming, KindOfRun, Runs, Points, HandlerPoints, ToolPoints,
       EndPoints, WaitPoints
  <2>3. QED
    BY <2>1, <2>2
<1>12. ASSUME NEW a \in Runs, NEW out \in Outcomes, CompleteDocument(a, out) PROVE LoopInv'
  <2>1. OneHolder'
    BY <1>12, HolderKept DEF CompleteDocument, Streaming, HoldsLoop, Points, HandlerPoints,
       ToolPoints, EndPoints, WaitPoints
  <2>2. KindOfRun'
    BY <1>12 DEF CompleteDocument, Streaming, KindOfRun, Runs, Points, HandlerPoints,
       ToolPoints, EndPoints, WaitPoints
  <2>3. QED
    BY <2>1, <2>2
<1>13. ASSUME NEW a \in Runs, NEW out \in Outcomes, ReportFailure(a, out) PROVE LoopInv'
  <2>1. OneHolder'
    BY <1>13, HolderKept DEF ReportFailure, Streaming, HoldsLoop, Points, HandlerPoints,
       ToolPoints, EndPoints, WaitPoints
  <2>2. KindOfRun'
    BY <1>13 DEF ReportFailure, Streaming, KindOfRun, Runs, Points, HandlerPoints, ToolPoints,
       EndPoints, WaitPoints
  <2>3. QED
    BY <2>1, <2>2
<1>14. ASSUME NEW a \in Runs, StreamEnds(a) PROVE LoopInv'
  <2>1. OneHolder'
    BY <1>14, HolderKept DEF StreamEnds, Streaming, HoldsLoop, Points, HandlerPoints,
       ToolPoints, EndPoints, WaitPoints
  <2>2. KindOfRun'
    BY <1>14 DEF StreamEnds, Streaming, KindOfRun, Runs, Points, HandlerPoints, ToolPoints,
       EndPoints, WaitPoints
  <2>3. QED
    BY <2>1, <2>2
<1>15. ASSUME NEW a \in Runs, StreamRaises(a) PROVE LoopInv'
  <2>1. OneHolder'
    BY <1>15, HolderKept DEF StreamRaises, Streaming, HoldsLoop, Points, HandlerPoints,
       ToolPoints, EndPoints, WaitPoints
  <2>2. KindOfRun'
    BY <1>15 DEF StreamRaises, Streaming, KindOfRun, Runs, Points, HandlerPoints, ToolPoints,
       EndPoints, WaitPoints
  <2>3. QED
    BY <2>1, <2>2
<1>16. ASSUME NEW a \in Runs, StreamCloses(a) PROVE LoopInv'
  <2>1. OneHolder'
    BY <1>16, HolderKept DEF StreamCloses, Streaming, HoldsLoop, Points, HandlerPoints,
       ToolPoints, EndPoints, WaitPoints
  <2>2. KindOfRun'
    BY <1>16 DEF StreamCloses, Streaming, KindOfRun, Runs, Points, HandlerPoints, ToolPoints,
       EndPoints, WaitPoints
  <2>3. QED
    BY <2>1, <2>2
<1>17. ASSUME NEW a \in Runs, Disconnect(a) PROVE LoopInv'
  <2>1. OneHolder'
    BY <1>17, HolderKept DEF Disconnect, Streaming, HoldsLoop, Points, HandlerPoints,
       ToolPoints, EndPoints, WaitPoints
  <2>2. KindOfRun'
    BY <1>17 DEF Disconnect, Streaming, KindOfRun, Runs, Points, HandlerPoints, ToolPoints,
       EndPoints, WaitPoints
  <2>3. QED
    BY <2>1, <2>2
<1>18. ASSUME NEW r \in Rows, RenderPage(r) PROVE LoopInv'
  BY <1>18 DEF RenderPage, OneHolder, KindOfRun
<1>19. ASSUME NEW S \in SUBSET Displayed, DeleteFields(S) PROVE LoopInv'
  BY <1>19 DEF DeleteFields, OneHolder, KindOfRun
<1>20. CASE DeleteDocument
  BY <1>20 DEF DeleteDocument, OneHolder, KindOfRun
<1>21. CASE TaskWrites
  BY <1>21 DEF TaskWrites, OneHolder, KindOfRun
<1>22. CASE Crash
  BY <1>22 DEF Crash, TypeOK, OneHolder, KindOfRun, HoldsLoop, HandlerPoints, ToolPoints,
     EndPoints, WaitPoints
<1>23. CASE UNCHANGED vars
  BY <1>23 DEF OneHolder, KindOfRun
<1>24. QED
  <2> USE DEF Next, ExtractStep, CorrectStep, AgentStep, BrowserStep
  <2>1. ASSUME NEW r \in Rows, ExtractStep(r) PROVE LoopInv'
    BY <2>1, <1>1, <1>2, <1>3, <1>4
  <2>2. ASSUME NEW c \in Corrections, CorrectStep(c) PROVE LoopInv'
    BY <2>2, <1>5, <1>6
  <2>3. ASSUME NEW a \in Runs, AgentStep(a) PROVE LoopInv'
    BY <2>3, <1>7, <1>8, <1>9, <1>10, <1>11, <1>12, <1>13, <1>14, <1>15, <1>16, <1>17
  <2>4. CASE BrowserStep
    BY <2>4, <1>18, <1>19, <1>20
  <2>5. QED
    BY <2>1, <2>2, <2>3, <2>4, <1>21, <1>22, <1>23

-----------------------------------------------------------------------------
(* Which rows and sessions exist                                           *)

\* Rows and the session go with the document, and with nothing else.
DeletedErases == DeletedLeavesNoRows /\ (document = "deleted" => session = 0)

SessionHasRow == session # 0 => RowExists(session)

WorkHasRow == \A a \in Runs : pc[a] \in WorkPoints => document = "deleted" \/ RowExists(Target(a))

ChoosingHasRow == \A c \in Corrections : pc[c] = "choosing"
                    => resumed[c] \in Rows /\ (document = "deleted" \/ RowExists(resumed[c]))

NotChosenYet == \A c \in Corrections : pc[c] \in {"unused", "choosing"} => target[c] = 0

RowsInv == DeletedErases /\ SessionHasRow /\ WorkHasRow /\ ChoosingHasRow
             /\ NotChosenYet /\ SessionNotNewer

\* An update sets the status of a row that exists and creates or removes none.
LEMMA SetStatusFacts ==
  ASSUME TypeOK, NEW x \in Rows, NEW s \in RowStatus, status' = SetStatus(x, s)
  PROVE  /\ \A r \in Rows : RowExists(r)' <=> RowExists(r)
         /\ \A r \in Rows \ {x} : status'[r] = status[r]
         /\ status'[x] = IF RowExists(x) THEN s ELSE status[x]
BY DEF TypeOK, SetStatus, RowExists

\* A step that neither creates nor removes a row, nor chooses one, and in which
\* only an extraction at its end stores a session.
LEMMA RowsKept ==
  ASSUME TypeInv, RowsInv, \A r \in Rows : RowExists(r)' <=> RowExists(r),
         document = "deleted" <=> document' = "deleted", session' = session,
         UNCHANGED <<resumed, target>>,
         \A a \in Runs : pc'[a] = pc[a] \/ pc'[a] = "done" \/ (pc[a] \in WorkPoints /\ pc'[a] \in WorkPoints)
                         \/ (pc[a] = "unused" /\ pc'[a] = "inserting")
  PROVE  RowsInv'
<1> USE Kinds DEF RowsInv
<1>1. \A a \in Runs : Target(a)' = Target(a)
  BY DEF Target
<1>2. DeletedErases'
  BY DEF DeletedErases, DeletedLeavesNoRows
<1>3. SessionHasRow'
  BY DEF SessionHasRow, TypeInv, TypeOK
<1>4. WorkHasRow'
  BY <1>1 DEF WorkHasRow, TypeInv, HasTarget, WorkPoints, ToolPoints, EndPoints, WaitPoints
<1>5. ChoosingHasRow'
  BY DEF ChoosingHasRow, WorkPoints, ToolPoints, EndPoints, WaitPoints
<1>6. NotChosenYet'
  BY DEF NotChosenYet, WorkPoints, ToolPoints, EndPoints, WaitPoints
<1>7. SessionNotNewer'
  BY DEF SessionNotNewer
<1>8. QED
  BY <1>2, <1>3, <1>4, <1>5, <1>6, <1>7

LEMMA RowsInductive == TypeInv /\ LoopInv /\ RowsInv /\ [Next]_vars => RowsInv'
<1> SUFFICES ASSUME TypeInv, LoopInv, RowsInv, [Next]_vars PROVE RowsInv'
  OBVIOUS
<1> USE Kinds, GotoType DEF TypeInv
<1>1. ASSUME NEW r \in Rows, RequestExtract(r) PROVE RowsInv'
  BY <1>1, RowsKept DEF RequestExtract, RowExists, WorkPoints, Points, HandlerPoints,
     ToolPoints, EndPoints, WaitPoints
<1>2. ASSUME NEW r \in Rows, NEW out \in Outcomes, InsertRow(r, out) PROVE RowsInv'
  <2>1. Insertable /\ Applied(out) => status'[r] = NewRowStatus
    BY <1>2 DEF InsertRow, TypeOK
  <2>2. \A q \in Rows : status'[q] = status[q] \/ (q = r /\ document # "deleted" /\ RowExists(q)')
    BY <1>2, <2>1 DEF InsertRow, TypeOK, Insertable, NewRowStatus, RowStatus, RowExists
  <2>3. \A q \in Rows : RowExists(q) => RowExists(q)'
    BY <2>2 DEF RowExists
  <2>4. UNCHANGED <<document, session, resumed, target>>
    BY <1>2 DEF InsertRow
  <2>5. \A a \in Runs : Target(a)' = Target(a)
    BY <2>4 DEF Target
  <2>6. pc'[r] = "done" \/ (pc'[r] = "stream" /\ document # "deleted" /\ RowExists(r)')
    BY <1>2, <2>1 DEF InsertRow, Points, Insertable, Applied, NewRowStatus, RowStatus,
       RowExists, WaitPoints
  <2>7. \A b \in Runs \ {r} : pc'[b] = pc[b]
    BY <1>2 DEF InsertRow, Points, WaitPoints
  <2>8. DeletedErases'
    BY <2>2, <2>4 DEF RowsInv, DeletedErases, DeletedLeavesNoRows, RowExists
  <2>9. SessionHasRow'
    BY <2>3, <2>4 DEF RowsInv, SessionHasRow, TypeOK
  <2>10. WorkHasRow'
    BY <2>3, <2>4, <2>5, <2>6, <2>7 DEF RowsInv, WorkHasRow, HasTarget, WorkPoints, ToolPoints,
       EndPoints, WaitPoints
  <2>11. ChoosingHasRow' /\ NotChosenYet'
    BY <2>3, <2>4, <2>6, <2>7 DEF RowsInv, ChoosingHasRow, NotChosenYet
  <2>12. SessionNotNewer'
    BY <2>4 DEF RowsInv, SessionNotNewer
  <2>13. QED
    BY <2>8, <2>9, <2>10, <2>11, <2>12 DEF RowsInv
<1>3. ASSUME NEW r \in Rows, NEW out \in Outcomes, WriteTime(r, out) PROVE RowsInv'
  BY <1>3, RowsKept DEF WriteTime, RowExists, WorkPoints, Points, HandlerPoints, ToolPoints,
     EndPoints, WaitPoints
<1>4. ASSUME NEW r \in Rows, NEW out \in Outcomes, StoreSession(r, out) PROVE RowsInv'
  <2>1. document = "deleted" \/ RowExists(r)
    BY <1>4 DEF StoreSession, RowsInv, WorkHasRow, WorkPoints, EndPoints, WaitPoints
  <2>2. pc'[r] = "leaving" /\ \A b \in Runs \ {r} : pc'[b] = pc[b]
    BY <1>4 DEF StoreSession, Points, WaitPoints
  <2>3. UNCHANGED <<document, status, resumed, target>>
    BY <1>4 DEF StoreSession
  <2>4. session' = session \/ (session' = r /\ document # "deleted")
    BY <1>4 DEF StoreSession
  <2>5. DeletedErases' /\ SessionHasRow'
    BY <2>1, <2>3, <2>4 DEF RowsInv, DeletedErases, DeletedLeavesNoRows, SessionHasRow,
       RowExists
  <2>6. WorkHasRow'
    BY <2>1, <2>2, <2>3 DEF RowsInv, WorkHasRow, Target, RowExists, WorkPoints, ToolPoints,
       EndPoints, WaitPoints
  <2>7. ChoosingHasRow' /\ NotChosenYet' /\ SessionNotNewer'
    BY <2>2, <2>3 DEF RowsInv, ChoosingHasRow, NotChosenYet, SessionNotNewer, RowExists
  <2>8. QED
    BY <2>5, <2>6, <2>7 DEF RowsInv
<1>5. ASSUME NEW c \in Corrections, RequestCorrect(c) PROVE RowsInv'
  <2>1. pc'[c] = "choosing" /\ \A b \in Runs \ {c} : pc'[b] = pc[b]
    BY <1>5 DEF RequestCorrect, Points, HandlerPoints, WaitPoints
  <2>2. resumed'[c] = session /\ \A d \in Corrections \ {c} : resumed'[d] = resumed[d]
    BY <1>5 DEF RequestCorrect, TypeOK
  <2>3. UNCHANGED <<document, session, status, target>>
    BY <1>5 DEF RequestCorrect
  <2>4. session \in Rows /\ RowExists(session) /\ target[c] = 0
    BY <1>5 DEF RequestCorrect, TypeOK, RowsInv, SessionHasRow, NotChosenYet
  <2>5. DeletedErases' /\ SessionHasRow'
    BY <2>3 DEF RowsInv, DeletedErases, DeletedLeavesNoRows, SessionHasRow, RowExists
  <2>6. WorkHasRow'
    BY <2>1, <2>3 DEF RowsInv, WorkHasRow, Target, RowExists, WorkPoints, ToolPoints,
       EndPoints, WaitPoints
  <2>7. ChoosingHasRow'
    BY <2>1, <2>2, <2>3, <2>4 DEF RowsInv, ChoosingHasRow, RowExists
  <2>8. NotChosenYet' /\ SessionNotNewer'
    BY <2>1, <2>2, <2>3, <2>4 DEF RowsInv, NotChosenYet, SessionNotNewer
  <2>9. QED
    BY <2>5, <2>6, <2>7, <2>8 DEF RowsInv
<1>6. ASSUME NEW c \in Corrections, ChooseRow(c) PROVE RowsInv'
  <2>1. UNCHANGED <<document, session, status, resumed>>
    BY <1>6 DEF ChooseRow
  <2>2. DeletedErases' /\ SessionHasRow'
    BY <2>1 DEF RowsInv, DeletedErases, DeletedLeavesNoRows, SessionHasRow, RowExists
  <2>3. ASSUME NEW r \in Rows, IsLatest(r), target' = [target EXCEPT ![c] = r], Goto(c, "stream")
        PROVE  RowsInv'
    <3>1. pc'[c] = "stream" /\ \A b \in Runs \ {c} : pc'[b] = pc[b]
      BY <2>3 DEF Points, WaitPoints
    <3>2. target'[c] = r /\ \A d \in Corrections \ {c} : target'[d] = target[d]
      BY <2>3 DEF TypeOK
    <3>3. Target(c)' = r
      BY <3>2 DEF Target
    <3>4. \A b \in Runs \ {c} : Target(b)' = Target(b)
      BY <3>2 DEF Target, Runs
    <3>5. WorkHasRow'
      BY <2>1, <2>3, <3>1, <3>3, <3>4 DEF RowsInv, WorkHasRow, RowExists, IsLatest
    <3>6. ChoosingHasRow' /\ NotChosenYet'
      BY <2>1, <3>1, <3>2 DEF RowsInv, ChoosingHasRow, NotChosenYet, RowExists
    <3>7. document # "deleted"
      BY <2>3 DEF RowsInv, DeletedErases, DeletedLeavesNoRows, IsLatest
    <3>8. resumed[c] <= r
      BY <1>6, <2>3, <3>7 DEF ChooseRow, RowsInv, ChoosingHasRow, IsLatest
    <3>9. SessionNotNewer'
      BY <2>1, <3>2, <3>8 DEF RowsInv, SessionNotNewer
    <3>10. QED
      BY <2>2, <3>5, <3>6, <3>9 DEF RowsInv
  <2>4. ASSUME Goto(c, "done"), UNCHANGED target PROVE RowsInv'
    BY <2>1, <2>4, RowsKept DEF RowExists, Points, WaitPoints
  <2>5. QED
    BY <1>6, <2>3, <2>4 DEF ChooseRow
<1>7. ASSUME NEW a \in Runs, NEW S \in SUBSET Fields, SaveExtraction(a, S) PROVE RowsInv'
  <2>1. Target(a) \in Rows
    BY <1>7 DEF SaveExtraction, Streaming, HasTarget, WorkPoints, ToolPoints, EndPoints,
       WaitPoints
  <2>2. \A r \in Rows : RowExists(r)' <=> RowExists(r)
    BY <1>7, <2>1, SetStatusFacts DEF SaveExtraction, RowStatus, RowExists
  <2>3. QED
    BY <1>7, <2>2, RowsKept DEF SaveExtraction, WorkPoints, Points, HandlerPoints, ToolPoints,
       EndPoints, WaitPoints
<1>8. ASSUME NEW a \in Runs, NEW f \in Fields, SetField(a, f) PROVE RowsInv'
  BY <1>8, RowsKept DEF SetField, Streaming, RowExists, WorkPoints, Points, HandlerPoints,
     ToolPoints, EndPoints, WaitPoints
<1>9. ASSUME NEW a \in Runs, NEW f \in Fields, DeleteField(a, f) PROVE RowsInv'
  BY <1>9, RowsKept DEF DeleteField, Streaming, RowExists, WorkPoints, Points, HandlerPoints,
     ToolPoints, EndPoints, WaitPoints
<1>10. ASSUME NEW a \in Runs, ReadFields(a) PROVE RowsInv'
  BY <1>10, RowsKept DEF ReadFields, Streaming, RowExists, WorkPoints, Points, HandlerPoints,
     ToolPoints, EndPoints, WaitPoints
<1>11. ASSUME NEW a \in Runs, NEW out \in Outcomes, CompleteRow(a, out) PROVE RowsInv'
  <2>1. Target(a) \in Rows
    BY <1>11 DEF CompleteRow, Streaming, HasTarget, WorkPoints, ToolPoints, EndPoints,
       WaitPoints
  <2>2. \A r \in Rows : RowExists(r)' <=> RowExists(r)
    BY <1>11, <2>1, SetStatusFacts DEF CompleteRow, RowStatus, RowExists
  <2>3. QED
    BY <1>11, <2>2, RowsKept DEF CompleteRow, WorkPoints, Points, HandlerPoints, ToolPoints,
       EndPoints, WaitPoints
<1>12. ASSUME NEW a \in Runs, NEW out \in Outcomes, CompleteDocument(a, out) PROVE RowsInv'
  BY <1>12, RowsKept DEF CompleteDocument, RowExists, WorkPoints, Points, HandlerPoints,
     ToolPoints, EndPoints, WaitPoints
<1>13. ASSUME NEW a \in Runs, NEW out \in Outcomes, ReportFailure(a, out) PROVE RowsInv'
  <2>1. Target(a) \in Rows
    BY <1>13 DEF ReportFailure, Streaming, HasTarget, WorkPoints, ToolPoints, EndPoints,
       WaitPoints
  <2>2. \A r \in Rows : RowExists(r)' <=> RowExists(r)
    BY <1>13, <2>1, SetStatusFacts DEF ReportFailure, RowStatus, RowExists
  <2>3. QED
    BY <1>13, <2>2, RowsKept DEF ReportFailure, WorkPoints, Points, HandlerPoints, ToolPoints,
       EndPoints, WaitPoints
<1>14. ASSUME NEW a \in Runs, StreamEnds(a) PROVE RowsInv'
  BY <1>14, RowsKept DEF StreamEnds, Streaming, RowExists, WorkPoints, Points, HandlerPoints,
     ToolPoints, EndPoints, WaitPoints
<1>15. ASSUME NEW a \in Runs, StreamRaises(a) PROVE RowsInv'
  BY <1>15, RowsKept DEF StreamRaises, Streaming, RowExists, WorkPoints, Points, HandlerPoints,
     ToolPoints, EndPoints, WaitPoints
<1>16. ASSUME NEW a \in Runs, StreamCloses(a) PROVE RowsInv'
  BY <1>16, RowsKept DEF StreamCloses, Streaming, RowExists, WorkPoints, Points, HandlerPoints,
     ToolPoints, EndPoints, WaitPoints
<1>17. ASSUME NEW a \in Runs, Disconnect(a) PROVE RowsInv'
  BY <1>17, RowsKept DEF Disconnect, Streaming, RowExists, WorkPoints, Points, HandlerPoints,
     ToolPoints, EndPoints, WaitPoints
<1>18. ASSUME NEW r \in Rows, RenderPage(r) PROVE RowsInv'
  BY <1>18, RowsKept DEF RenderPage, RowExists, WorkPoints, Points, HandlerPoints, ToolPoints,
     EndPoints, WaitPoints
<1>19. ASSUME NEW S \in SUBSET Displayed, DeleteFields(S) PROVE RowsInv'
  BY <1>19, RowsKept DEF DeleteFields, RowExists, WorkPoints, Points, HandlerPoints,
     ToolPoints, EndPoints, WaitPoints
<1>20. CASE DeleteDocument
  <2>1. document' = "deleted" /\ session' = 0 /\ UNCHANGED <<pc, resumed, target>>
    BY <1>20 DEF DeleteDocument
  <2>2. \A r \in Rows : ~RowExists(r)'
    BY <1>20 DEF DeleteDocument, RowExists, RowStatus
  <2>3. DeletedErases' /\ SessionHasRow' /\ WorkHasRow'
    BY <2>1, <2>2 DEF DeletedErases, DeletedLeavesNoRows, SessionHasRow, WorkHasRow
  <2>4. ChoosingHasRow' /\ NotChosenYet' /\ SessionNotNewer'
    BY <2>1 DEF RowsInv, ChoosingHasRow, NotChosenYet, SessionNotNewer
  <2>5. QED
    BY <2>3, <2>4 DEF RowsInv
<1>21. CASE TaskWrites
  BY <1>21, RowsKept DEF TaskWrites, RowExists, WorkPoints, Points, HandlerPoints, ToolPoints,
     EndPoints, WaitPoints
<1>22. CASE Crash
  BY <1>22, RowsKept DEF Crash, RowExists, TypeOK, WorkPoints, Points, HandlerPoints,
     ToolPoints, EndPoints, WaitPoints
<1>23. CASE UNCHANGED vars
  BY <1>23, RowsKept DEF RowExists
<1>24. QED
  <2> USE DEF Next, ExtractStep, CorrectStep, AgentStep, BrowserStep
  <2>1. ASSUME NEW r \in Rows, ExtractStep(r) PROVE RowsInv'
    BY <2>1, <1>1, <1>2, <1>3, <1>4
  <2>2. ASSUME NEW c \in Corrections, CorrectStep(c) PROVE RowsInv'
    BY <2>2, <1>5, <1>6
  <2>3. ASSUME NEW a \in Runs, AgentStep(a) PROVE RowsInv'
    BY <2>3, <1>7, <1>8, <1>9, <1>10, <1>11, <1>12, <1>13, <1>14, <1>15, <1>16, <1>17
  <2>4. CASE BrowserStep
    BY <2>4, <1>18, <1>19, <1>20
  <2>5. QED
    BY <2>1, <2>2, <2>3, <2>4, <1>21, <1>22, <1>23

-----------------------------------------------------------------------------
(* What a completed document and a completed row rest on                   *)

\* A run that has passed the check of complete still has fields to complete on,
\* unless the browser wrote the row; one that has passed the row completed it.
ClosingAfterARow == \A a \in Runs : pc[a] = "closing" => document = "deleted" \/ finished # {}

CompletingOnFields == \A a \in Runs :
  pc[a] = "completing" => fields[Target(a)] # {} \/ Target(a) \in edited

CompleteInv == CompletedAfterARow /\ ClosingAfterARow /\ CompletingOnFields

\* A step that touches neither fields nor documents, and starts no complete.
LEMMA CompleteKept ==
  ASSUME TypeInv, CompleteInv, finished \subseteq finished', UNCHANGED <<document, fields, edited>>,
         \A a \in Runs : pc'[a] \in ToolPoints => pc'[a] = pc[a] /\ Target(a)' = Target(a)
  PROVE  CompleteInv'
<1>1. CompletedAfterARow' /\ ClosingAfterARow'
  BY DEF CompleteInv, CompletedAfterARow, ClosingAfterARow, ToolPoints
<1>2. CompletingOnFields'
  BY DEF CompleteInv, CompletingOnFields, ToolPoints
<1>3. QED
  BY <1>1, <1>2 DEF CompleteInv

\* While a run holds the loop inside complete, no tool of another run starts.
LEMMA NoneCompleting ==
  ASSUME LoopFree PROVE \A a \in Runs : pc[a] \notin ToolPoints
BY DEF LoopFree, HoldsLoop

LEMMA CompleteInductive == TypeInv /\ LoopInv /\ RowsInv /\ CompleteInv /\ [Next]_vars => CompleteInv'
<1> SUFFICES ASSUME TypeInv, LoopInv, RowsInv, CompleteInv, [Next]_vars PROVE CompleteInv'
  OBVIOUS
<1> USE Kinds, GotoType DEF TypeInv
<1>1. ASSUME NEW r \in Rows, RequestExtract(r) PROVE CompleteInv'
  BY <1>1, CompleteKept DEF RequestExtract, Target, WorkPoints, Points, HandlerPoints,
     ToolPoints, EndPoints, WaitPoints
<1>2. ASSUME NEW r \in Rows, NEW out \in Outcomes, InsertRow(r, out) PROVE CompleteInv'
  BY <1>2, CompleteKept DEF InsertRow, Target, WorkPoints, Points, HandlerPoints, ToolPoints,
     EndPoints, WaitPoints
<1>3. ASSUME NEW r \in Rows, NEW out \in Outcomes, WriteTime(r, out) PROVE CompleteInv'
  BY <1>3, CompleteKept DEF WriteTime, Target, WorkPoints, Points, HandlerPoints, ToolPoints,
     EndPoints, WaitPoints
<1>4. ASSUME NEW r \in Rows, NEW out \in Outcomes, StoreSession(r, out) PROVE CompleteInv'
  BY <1>4, CompleteKept DEF StoreSession, Target, WorkPoints, Points, HandlerPoints,
     ToolPoints, EndPoints, WaitPoints
<1>5. ASSUME NEW c \in Corrections, RequestCorrect(c) PROVE CompleteInv'
  BY <1>5, CompleteKept DEF RequestCorrect, Target, WorkPoints, Points, HandlerPoints,
     ToolPoints, EndPoints, WaitPoints
<1>6. ASSUME NEW c \in Corrections, ChooseRow(c) PROVE CompleteInv'
  <2>1. \A b \in Runs \ {c} : pc'[b] = pc[b] /\ Target(b)' = Target(b)
    BY <1>6 DEF ChooseRow, Target, Points, Runs, TypeOK, WaitPoints
  <2>2. pc'[c] \notin ToolPoints
    BY <1>6 DEF ChooseRow, Points, ToolPoints, WaitPoints
  <2>3. QED
    BY <1>6, <2>1, <2>2, CompleteKept DEF ChooseRow
<1>7. ASSUME NEW a \in Runs, NEW S \in SUBSET Fields, SaveExtraction(a, S) PROVE CompleteInv'
  <2>1. \A b \in Runs : pc'[b] \notin ToolPoints
    BY <1>7, NoneCompleting DEF SaveExtraction, Streaming
  <2>2. UNCHANGED <<document, finished>>
    BY <1>7 DEF SaveExtraction
  <2>3. QED
    BY <2>1, <2>2 DEF CompleteInv, CompletedAfterARow, ClosingAfterARow, CompletingOnFields,
       ToolPoints
<1>8. ASSUME NEW a \in Runs, NEW f \in Fields, SetField(a, f) PROVE CompleteInv'
  <2>1. \A b \in Runs : pc'[b] \notin ToolPoints
    BY <1>8, NoneCompleting DEF SetField, Streaming
  <2>2. UNCHANGED <<document, finished>>
    BY <1>8 DEF SetField
  <2>3. QED
    BY <2>1, <2>2 DEF CompleteInv, CompletedAfterARow, ClosingAfterARow, CompletingOnFields,
       ToolPoints
<1>9. ASSUME NEW a \in Runs, NEW f \in Fields, DeleteField(a, f) PROVE CompleteInv'
  <2>1. \A b \in Runs : pc'[b] \notin ToolPoints
    BY <1>9, NoneCompleting DEF DeleteField, Streaming
  <2>2. UNCHANGED <<document, finished>>
    BY <1>9 DEF DeleteField
  <2>3. QED
    BY <2>1, <2>2 DEF CompleteInv, CompletedAfterARow, ClosingAfterARow, CompletingOnFields,
       ToolPoints
<1>10. ASSUME NEW a \in Runs, ReadFields(a) PROVE CompleteInv'
  <2>1. \A b \in Runs \ {a} : pc'[b] \notin ToolPoints
    BY <1>10, NoneCompleting DEF ReadFields, Streaming, Points, ToolPoints, WaitPoints
  <2>2. pc'[a] = "completing"
    BY <1>10 DEF ReadFields, Points, ToolPoints, WaitPoints
  <2>3. fields[Target(a)] # {} /\ UNCHANGED <<document, fields, finished, target>>
    BY <1>10 DEF ReadFields
  <2>4. Target(a)' = Target(a)
    BY <2>3 DEF Target
  <2>5. QED
    BY <2>1, <2>2, <2>3, <2>4 DEF CompleteInv, CompletedAfterARow, ClosingAfterARow,
       CompletingOnFields, ToolPoints
<1>11. ASSUME NEW a \in Runs, NEW out \in Outcomes, CompleteRow(a, out) PROVE CompleteInv'
  <2>1. UNCHANGED <<document, fields, edited, target>> /\ finished \subseteq finished'
    BY <1>11 DEF CompleteRow
  <2>2. pc'[a] \in {"closing", "stream"} /\ \A b \in Runs \ {a} : pc'[b] = pc[b]
    BY <1>11 DEF CompleteRow, Points, ToolPoints, WaitPoints
  <2>3. pc'[a] = "closing" => document = "deleted" \/ finished' # {}
    <3>1. document = "deleted" \/ RowExists(Target(a))
      BY <1>11 DEF CompleteRow, RowsInv, WorkHasRow, WorkPoints, ToolPoints, WaitPoints
    <3>2. pc'[a] = "closing" => out = "ok"
      BY <1>11 DEF CompleteRow, Points, ToolPoints, WaitPoints
    <3>3. QED
      BY <1>11, <3>1, <3>2 DEF CompleteRow, Applied
  <2>4. \A b \in Runs : Target(b)' = Target(b)
    BY <2>1 DEF Target
  <2>5. CompletedAfterARow' /\ ClosingAfterARow'
    BY <2>1, <2>2, <2>3 DEF CompleteInv, CompletedAfterARow, ClosingAfterARow
  <2>6. CompletingOnFields'
    BY <2>1, <2>2, <2>4 DEF CompleteInv, CompletingOnFields
  <2>7. QED
    BY <2>5, <2>6 DEF CompleteInv
<1>12. ASSUME NEW a \in Runs, NEW out \in Outcomes, CompleteDocument(a, out) PROVE CompleteInv'
  <2>1. UNCHANGED <<fields, edited, finished, target>>
    BY <1>12 DEF CompleteDocument
  <2>2. pc'[a] = "stream" /\ \A b \in Runs \ {a} : pc'[b] = pc[b]
    BY <1>12 DEF CompleteDocument, Points, WaitPoints
  <2>3. document' = document \/ (document' = "completed" /\ document # "deleted")
    BY <1>12 DEF CompleteDocument
  <2>4. document # "deleted" => finished # {}
    BY <1>12 DEF CompleteDocument, CompleteInv, ClosingAfterARow
  <2>5. CompletedAfterARow' /\ ClosingAfterARow'
    BY <2>1, <2>2, <2>3, <2>4 DEF CompleteInv, CompletedAfterARow, ClosingAfterARow
  <2>6. CompletingOnFields'
    BY <2>1, <2>2 DEF CompleteInv, CompletingOnFields, Target
  <2>7. QED
    BY <2>5, <2>6 DEF CompleteInv
<1>13. ASSUME NEW a \in Runs, NEW out \in Outcomes, ReportFailure(a, out) PROVE CompleteInv'
  BY <1>13, CompleteKept DEF ReportFailure, Target, WorkPoints, Points, HandlerPoints,
     ToolPoints, EndPoints, WaitPoints
<1>14. ASSUME NEW a \in Runs, StreamEnds(a) PROVE CompleteInv'
  BY <1>14, CompleteKept DEF StreamEnds, Streaming, Target, WorkPoints, Points, HandlerPoints,
     ToolPoints, EndPoints, WaitPoints
<1>15. ASSUME NEW a \in Runs, StreamRaises(a) PROVE CompleteInv'
  BY <1>15, CompleteKept DEF StreamRaises, Streaming, Target, WorkPoints, Points,
     HandlerPoints, ToolPoints, EndPoints, WaitPoints
<1>16. ASSUME NEW a \in Runs, StreamCloses(a) PROVE CompleteInv'
  BY <1>16, CompleteKept DEF StreamCloses, Streaming, Target, WorkPoints, Points,
     HandlerPoints, ToolPoints, EndPoints, WaitPoints
<1>17. ASSUME NEW a \in Runs, Disconnect(a) PROVE CompleteInv'
  BY <1>17, CompleteKept DEF Disconnect, Streaming, Target, WorkPoints, Points, HandlerPoints,
     ToolPoints, EndPoints, WaitPoints
<1>18. ASSUME NEW r \in Rows, RenderPage(r) PROVE CompleteInv'
  BY <1>18, CompleteKept DEF RenderPage, Target, WorkPoints, Points, HandlerPoints, ToolPoints,
     EndPoints, WaitPoints
<1>19. ASSUME NEW S \in SUBSET Displayed, DeleteFields(S) PROVE CompleteInv'
  <2>1. UNCHANGED <<document, status, pc, target, finished>>
    BY <1>19 DEF DeleteFields
  <2>2. \A r \in Rows : r \in edited' \/ (fields'[r] = fields[r] /\ (r \in edited => r \in edited'))
    BY <1>19 DEF DeleteFields, TypeOK
  <2>3. CompletingOnFields'
    BY <2>1, <2>2 DEF CompleteInv, CompletingOnFields, HasTarget, Target, WorkPoints,
       ToolPoints, WaitPoints
  <2>4. QED
    BY <2>1, <2>3 DEF CompleteInv, CompletedAfterARow, ClosingAfterARow
<1>20. CASE DeleteDocument
  <2>1. UNCHANGED <<fields, pc, target, finished, edited>> /\ document' \in {"deleted", "open"}
    BY <1>20 DEF DeleteDocument
  <2>2. document' = "deleted"
    BY <1>20 DEF DeleteDocument, CompleteInv, CompletedAfterARow
  <2>3. QED
    BY <2>1, <2>2 DEF CompleteInv, CompletedAfterARow, ClosingAfterARow, CompletingOnFields,
       Target
<1>21. CASE TaskWrites
  <2>1. UNCHANGED <<fields, pc, target, finished, edited>> /\ document' \in {"deleted", "open"}
    BY <1>21 DEF TaskWrites
  <2>2. document = "completed" /\ finished # {}
    BY <1>21 DEF TaskWrites, CompleteInv, CompletedAfterARow
  <2>3. QED
    BY <2>1, <2>2 DEF CompleteInv, CompletedAfterARow, ClosingAfterARow, CompletingOnFields,
       Target
<1>22. CASE Crash
  BY <1>22, CompleteKept DEF Crash, TypeOK, Target, WorkPoints, Points, HandlerPoints,
     ToolPoints, EndPoints, WaitPoints
<1>23. CASE UNCHANGED vars
  BY <1>23, CompleteKept DEF Target
<1>24. QED
  <2> USE DEF Next, ExtractStep, CorrectStep, AgentStep, BrowserStep
  <2>1. ASSUME NEW r \in Rows, ExtractStep(r) PROVE CompleteInv'
    BY <2>1, <1>1, <1>2, <1>3, <1>4
  <2>2. ASSUME NEW c \in Corrections, CorrectStep(c) PROVE CompleteInv'
    BY <2>2, <1>5, <1>6
  <2>3. ASSUME NEW a \in Runs, AgentStep(a) PROVE CompleteInv'
    BY <2>3, <1>7, <1>8, <1>9, <1>10, <1>11, <1>12, <1>13, <1>14, <1>15, <1>16, <1>17
  <2>4. CASE BrowserStep
    BY <2>4, <1>18, <1>19, <1>20
  <2>5. QED
    BY <2>1, <2>2, <2>3, <2>4, <1>21, <1>22, <1>23

-----------------------------------------------------------------------------
(* What the clients were told                                              *)

\* The session is stored before the client is told, and only the deletion of the
\* document takes it away.
ToldHasSession == told # {} /\ document # "deleted" => session # 0

LEMMA ToldInductive == TypeInv /\ ToldHasSession /\ [Next]_vars => ToldHasSession'
<1> SUFFICES ASSUME TypeInv, ToldHasSession, [Next]_vars PROVE ToldHasSession'
  OBVIOUS
<1> USE Kinds DEF TypeInv, ToldHasSession
<1>1. ASSUME NEW r \in Rows, RequestExtract(r) PROVE ToldHasSession'
  BY <1>1 DEF RequestExtract
<1>2. ASSUME NEW r \in Rows, NEW out \in Outcomes, InsertRow(r, out) PROVE ToldHasSession'
  BY <1>2 DEF InsertRow
<1>3. ASSUME NEW r \in Rows, NEW out \in Outcomes, WriteTime(r, out) PROVE ToldHasSession'
  BY <1>3 DEF WriteTime
<1>4. ASSUME NEW r \in Rows, NEW out \in Outcomes, StoreSession(r, out) PROVE ToldHasSession'
  BY <1>4 DEF StoreSession, Applied
<1>5. ASSUME NEW c \in Corrections, RequestCorrect(c) PROVE ToldHasSession'
  BY <1>5 DEF RequestCorrect
<1>6. ASSUME NEW c \in Corrections, ChooseRow(c) PROVE ToldHasSession'
  BY <1>6 DEF ChooseRow
<1>7. ASSUME NEW a \in Runs, NEW S \in SUBSET Fields, SaveExtraction(a, S) PROVE ToldHasSession'
  BY <1>7 DEF SaveExtraction
<1>8. ASSUME NEW a \in Runs, NEW f \in Fields, SetField(a, f) PROVE ToldHasSession'
  BY <1>8 DEF SetField
<1>9. ASSUME NEW a \in Runs, NEW f \in Fields, DeleteField(a, f) PROVE ToldHasSession'
  BY <1>9 DEF DeleteField
<1>10. ASSUME NEW a \in Runs, ReadFields(a) PROVE ToldHasSession'
  BY <1>10 DEF ReadFields
<1>11. ASSUME NEW a \in Runs, NEW out \in Outcomes, CompleteRow(a, out) PROVE ToldHasSession'
  BY <1>11 DEF CompleteRow
<1>12. ASSUME NEW a \in Runs, NEW out \in Outcomes, CompleteDocument(a, out) PROVE ToldHasSession'
  BY <1>12 DEF CompleteDocument
<1>13. ASSUME NEW a \in Runs, NEW out \in Outcomes, ReportFailure(a, out) PROVE ToldHasSession'
  BY <1>13 DEF ReportFailure
<1>14. ASSUME NEW a \in Runs, StreamEnds(a) PROVE ToldHasSession'
  BY <1>14 DEF StreamEnds
<1>15. ASSUME NEW a \in Runs, StreamRaises(a) PROVE ToldHasSession'
  BY <1>15 DEF StreamRaises
<1>16. ASSUME NEW a \in Runs, StreamCloses(a) PROVE ToldHasSession'
  BY <1>16 DEF StreamCloses
<1>17. ASSUME NEW a \in Runs, Disconnect(a) PROVE ToldHasSession'
  BY <1>17 DEF Disconnect
<1>18. ASSUME NEW r \in Rows, RenderPage(r) PROVE ToldHasSession'
  BY <1>18 DEF RenderPage
<1>19. ASSUME NEW S \in SUBSET Displayed, DeleteFields(S) PROVE ToldHasSession'
  BY <1>19 DEF DeleteFields
<1>20. CASE DeleteDocument
  BY <1>20 DEF DeleteDocument
<1>21. CASE TaskWrites
  BY <1>21 DEF TaskWrites
<1>22. CASE Crash
  BY <1>22 DEF Crash
<1>23. CASE UNCHANGED vars
  BY <1>23
<1>24. QED
  <2> USE DEF Next, ExtractStep, CorrectStep, AgentStep, BrowserStep
  <2>1. ASSUME NEW r \in Rows, ExtractStep(r) PROVE ToldHasSession'
    BY <2>1, <1>1, <1>2, <1>3, <1>4
  <2>2. ASSUME NEW c \in Corrections, CorrectStep(c) PROVE ToldHasSession'
    BY <2>2, <1>5, <1>6
  <2>3. ASSUME NEW a \in Runs, AgentStep(a) PROVE ToldHasSession'
    BY <2>3, <1>7, <1>8, <1>9, <1>10, <1>11, <1>12, <1>13, <1>14, <1>15, <1>16, <1>17
  <2>4. CASE BrowserStep
    BY <2>4, <1>18, <1>19, <1>20
  <2>5. QED
    BY <2>1, <2>2, <2>3, <2>4, <1>21, <1>22, <1>23

-----------------------------------------------------------------------------
(* The inductive invariant and what follows from it                        *)

IInv == TypeInv /\ LoopInv /\ RowsInv /\ CompleteInv /\ ToldHasSession

LEMMA InitIInv == Init => IInv
<1> SUFFICES ASSUME Init PROVE IInv
  OBVIOUS
<1> USE Kinds
<1>1. TypeInv
  BY TypeInit DEF Init, TypeInv, HasTarget, WorkPoints, ToolPoints, EndPoints, WaitPoints
<1>2. LoopInv
  BY DEF Init, LoopInv, OneHolder, KindOfRun, HoldsLoop, HandlerPoints, ToolPoints, EndPoints,
     WaitPoints
<1>3. RowsInv
  BY DEF Init, RowsInv, DeletedErases, DeletedLeavesNoRows, SessionHasRow, WorkHasRow,
         ChoosingHasRow, NotChosenYet, SessionNotNewer, WorkPoints, ToolPoints, EndPoints, WaitPoints
<1>4. CompleteInv
  BY DEF Init, CompleteInv, CompletedAfterARow, ClosingAfterARow, CompletingOnFields
<1>5. ToldHasSession
  BY DEF Init, ToldHasSession
<1>6. QED
  BY <1>1, <1>2, <1>3, <1>4, <1>5 DEF IInv

\* The inductive invariant: who holds the loop, which rows and sessions exist,
\* what complete rests on and what the clients were told.
THEOREM Inductive == Spec => []IInv
<1>1. IInv /\ [Next]_vars => IInv'
  BY TypeInductive, LoopInductive, RowsInductive, CompleteInductive, ToldInductive DEF IInv
<1>2. QED
  BY InitIInv, <1>1, PTL DEF Spec

\* Every reachable state of the extraction agent has its type.
THEOREM TypeCorrect == Spec => []TypeOK
<1>1. IInv => TypeOK
  BY DEF IInv, TypeInv
<1>2. QED
  BY Inductive, <1>1, PTL

\* A document is completed only after one of its extractions was.
THEOREM DocumentFollowsRow == Spec => []CompletedAfterARow
<1>1. IInv => CompletedAfterARow
  BY DEF IInv, CompleteInv
<1>2. QED
  BY Inductive, <1>1, PTL

\* A deleted document leaves no extraction behind.
THEOREM NothingLeft == Spec => []DeletedLeavesNoRows
<1>1. IInv => DeletedLeavesNoRows
  BY DEF IInv, RowsInv, DeletedErases
<1>2. QED
  BY Inductive, <1>1, PTL

\* Who was told that an extraction is complete, with its session, can correct it.
THEOREM Correctable == Spec => []CompleteIsCorrectable
<1>1. IInv => CompleteIsCorrectable
  BY DEF IInv, TypeInv, TypeOK, RowsInv, SessionHasRow, ToldHasSession, CompleteIsCorrectable
<1>2. QED
  BY Inductive, <1>1, PTL

\* A correction never resumes a newer session than that of the row it edits.
THEOREM SessionOrder == Spec => []SessionNotNewer
<1>1. IInv => SessionNotNewer
  BY DEF IInv, RowsInv
<1>2. QED
  BY Inductive, <1>1, PTL

\* A row is completed on fields, unless the browser wrote it after the check: of
\* all steps only CompleteRow completes a row, and the invariant has its fields.
THEOREM RowCompletedOnFields == Spec => CompletedOnFields
<1> DEFINE Completes(r) == status[r] # "completed" /\ status'[r] = "completed"
           OnFields(r)  == fields[r] # {} \/ r \in edited
<1>1. ASSUME IInv, [Next]_vars, NEW r \in Rows, Completes(r) PROVE OnFields(r)
  <2> USE Kinds DEF IInv, TypeInv
  <2>1. ASSUME NEW a \in Runs, NEW out \in Outcomes, CompleteRow(a, out) PROVE OnFields(r)
    <3>1. Target(a) \in Rows
      BY <1>1, <2>1 DEF CompleteRow, HasTarget, WorkPoints, ToolPoints, WaitPoints
    <3>2. r = Target(a)
      BY <1>1, <2>1, <3>1, SetStatusFacts DEF CompleteRow, RowStatus
    <3>3. QED
      BY <1>1, <2>1, <3>2 DEF CompleteRow, CompleteInv, CompletingOnFields
  <2>2. CASE \E q \in Rows : ExtractStep(q)
    BY <1>1, <2>2 DEF ExtractStep, RequestExtract, InsertRow, NewRowStatus, WriteTime,
       StoreSession, TypeOK
  <2>3. CASE \E c \in Corrections : CorrectStep(c)
    BY <1>1, <2>3 DEF CorrectStep, RequestCorrect, ChooseRow
  <2>4. ASSUME NEW a \in Runs, AgentStep(a), ~\E out \in Outcomes : CompleteRow(a, out)
        PROVE  status'[r] # "completed" \/ status'[r] = status[r]
    <3>1. CASE \E S \in SUBSET Fields : SaveExtraction(a, S)
      BY <1>1, <3>1 DEF SaveExtraction, SetStatus, TypeOK
    <3>2. CASE \E out \in Outcomes : ReportFailure(a, out)
      BY <1>1, <3>2 DEF ReportFailure, SetStatus, TypeOK
    <3>3. QED
      BY <2>4, <3>1, <3>2 DEF AgentStep, SetField, DeleteField, ReadFields, CompleteDocument,
         StreamEnds, StreamRaises, StreamCloses, Disconnect
  <2>5. CASE BrowserStep
    BY <1>1, <2>5 DEF BrowserStep, RenderPage, DeleteFields, DeleteDocument, TypeOK
  <2>6. CASE TaskWrites \/ Crash \/ UNCHANGED vars
    BY <1>1, <2>6 DEF TaskWrites, Crash
  <2>7. QED
    BY <1>1, <2>1, <2>2, <2>3, <2>4, <2>5, <2>6 DEF Next
<1>2. IInv /\ [Next]_vars => [\A r \in Rows : Completes(r) => OnFields(r)]_vars
  BY <1>1
<1>3. QED
  BY Inductive, <1>2, PTL DEF Spec, CompletedOnFields

\* A row is failed only by its own extraction: of all steps only ReportFailure
\* fails a row, that of a correction fails none, and an extraction has its own.
THEOREM RowFailedByItsRun == Spec => FailedByItsOwnRun
<1> DEFINE Fails(r) == status[r] # "failed" /\ status'[r] = "failed"
<1>1. ASSUME IInv, [Next]_vars, NEW r \in Rows, Fails(r) PROVE pc[r] = "failing"
  <2> USE Kinds DEF IInv, TypeInv
  <2>1. ASSUME NEW a \in Runs, NEW out \in Outcomes, ReportFailure(a, out) PROVE pc[r] = "failing"
    <3>1. a \in Rows
      BY <1>1, <2>1 DEF ReportFailure, MarksRow
    <3>2. r = a
      BY <1>1, <2>1, <3>1, SetStatusFacts DEF ReportFailure, RowStatus
    <3>3. QED
      BY <2>1, <3>2 DEF ReportFailure
  <2>2. CASE \E q \in Rows : ExtractStep(q)
    BY <1>1, <2>2 DEF ExtractStep, RequestExtract, InsertRow, NewRowStatus, WriteTime,
       StoreSession, TypeOK
  <2>3. CASE \E c \in Corrections : CorrectStep(c)
    BY <1>1, <2>3 DEF CorrectStep, RequestCorrect, ChooseRow
  <2>4. ASSUME NEW a \in Runs, AgentStep(a), ~\E out \in Outcomes : ReportFailure(a, out)
        PROVE  status'[r] # "failed" \/ status'[r] = status[r]
    <3>1. CASE \E S \in SUBSET Fields : SaveExtraction(a, S)
      BY <1>1, <3>1 DEF SaveExtraction, SetStatus, TypeOK
    <3>2. CASE \E out \in Outcomes : CompleteRow(a, out)
      BY <1>1, <3>2 DEF CompleteRow, SetStatus, TypeOK
    <3>3. QED
      BY <2>4, <3>1, <3>2 DEF AgentStep, SetField, DeleteField, ReadFields, CompleteDocument,
         StreamEnds, StreamRaises, StreamCloses, Disconnect
  <2>5. CASE BrowserStep
    BY <1>1, <2>5 DEF BrowserStep, RenderPage, DeleteFields, DeleteDocument, TypeOK
  <2>6. CASE TaskWrites \/ Crash \/ UNCHANGED vars
    BY <1>1, <2>6 DEF TaskWrites, Crash
  <2>7. QED
    BY <1>1, <2>1, <2>2, <2>3, <2>4, <2>5, <2>6 DEF Next
<1>2. IInv /\ [Next]_vars => [\A r \in Rows : Fails(r) => pc[r] = "failing"]_vars
  BY <1>1
<1>3. QED
  BY Inductive, <1>2, PTL DEF Spec, FailedByItsOwnRun
=============================================================================
