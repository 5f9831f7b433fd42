--------------------------- MODULE UploadFlowProofs ---------------------------
(* Theorems about UploadFlow, for every value of its constants.            *)
EXTENDS UploadFlow, TLAPS

\* The variables an action may leave alone, spelled out.
USE DEF storeVars, hookVars, subVars, rowVars, countVars, histVars, vars

\* TypeOK in parts.
StoreOK == /\ flow \in Flow /\ (flow.kind # "upload" => flow.doc = 0 /\ flow.name = 0 /\ flow.meta = 0)
           /\ bar \in {"idle", "processing", "complete", "error"} /\ expanded \in BOOLEAN
HookOK  == hook \in 0 .. hooks /\ docStatus \in RowStatus \cup {"null"} /\ hooks \in Nat
FlagsOK == /\ away \in BOOLEAN /\ confirm \in BOOLEAN
           /\ crossed \in BOOLEAN /\ cut \in BOOLEAN /\ behind \in BOOLEAN
SubOK   == sub \in Docs \cup {0} /\ live \in BOOLEAN /\ queue \in Seq(Update)
RowOK   == /\ row \in [Docs -> RowStatus \cup {"none"}] /\ described \in [Docs -> BOOLEAN]
           /\ task \in [Docs -> Task]
           /\ \A d \in Docs : task[d].agent # "none" => row[d] # "none"
CountOK == /\ uploads \in 0 .. MaxUploads /\ flows \in 0 .. MaxFlows /\ started \in 0 .. MaxCalls
           /\ failures \in 0 .. MaxFailures /\ leaves \in 0 .. MaxLeaves /\ saved \subseteq Docs

\* A call knows a flow that was opened, and only a regeneration reads a stream.
CallsOK == /\ calls \subseteq Call
           /\ flow.kind # "none" => flows > 0
           /\ \A c \in calls : c.flow <= flows /\ (c.at = "stream" => c.do = "regenerate")

Types == StoreOK /\ HookOK /\ FlagsOK /\ SubOK /\ RowOK /\ CountOK /\ CallsOK

\* A document that a flow or a handler knows by an answer has a row.
Made == /\ flow.doc # 0 => row[flow.doc] # "none"
        /\ \A c \in calls : c.do # "upload" \/ c.at = "answered" => row[c.doc] # "none"

\* The channel is for the document that is watched, and delivers once subscribed.
Watches == sub = Watched(flow, hook) /\ (~live => queue = <<>>)

\* A handler that has saved a row has saved it.
SavedFirst == \A c \in calls : c.do = "save" /\ c.at \in {"answered", "insert"} => c.doc \in saved

\* The user can edit only what has been described.
EditedLater == flow.edited => flow.kind = "upload" /\ flow.step \in {"metadata", "complete"}

\* The bar spins on a later step, or on no flow, only for a handler that will stop it.
Spins == bar = "processing" /\ flow.step # "processing" =>
           cut \/ \E c \in calls : c.do \in {"regenerate", "save"}

\* The handlers of a flow work on its document, and one of them may bring it.
Own == flow.kind = "upload" /\ ~crossed =>
  /\ flow.doc # 0 => flow.name = flow.doc /\ flow.meta \in {0, flow.doc}
  /\ flow.doc = 0 => flow.meta = 0 /\ flow.step \in {"dropzone", "processing"}
  /\ flow.step = "dropzone" => flow.doc = 0 /\ \A c \in calls : c.flow # flows
  /\ flow.step = "metadata" => flow.meta = flow.doc
  /\ flow.step = "complete" => flow.doc \in saved
  /\ \A c \in calls : c.flow = flows =>
       IF c.do = "upload" THEN flow.doc = 0 /\ flow.name = c.doc /\ flow.step = "processing"
                          ELSE c.doc = flow.doc
  /\ \A c, d \in calls : c.flow = flows /\ d.flow = flows /\ c.do = "upload" /\ d.do = "upload" => c = d

\* What the theorems need besides the types.
Rest == /\ Made /\ Watches /\ StatusFollows
        /\ SavedFirst /\ EditedLater /\ Spins /\ Own

LEMMA TypesMeanTypeOK == Types => TypeOK
BY DEF Types, StoreOK, HookOK, FlagsOK, SubOK, RowOK, CountOK, CallsOK, TypeOK

LEMMA Numbers == 0 \notin Docs /\ {MaxUploads, MaxFlows, MaxCalls, MaxFailures, MaxLeaves, MaxUpdates} \subseteq Nat
BY UploadAssumption DEF Docs

-----------------------------------------------------------------------------
(* The helpers                                                             *)

LEMMA FlowKinds ==
  /\ NoFlow \in Flow /\ NoFlow.kind = "none" /\ ~NoFlow.edited
  /\ \A k \in {"upload", "other"} :
       /\ NewFlow(k) \in Flow /\ NewFlow(k).kind = k /\ ~NewFlow(k).edited
       /\ NewFlow(k).doc = 0 /\ NewFlow(k).name = 0 /\ NewFlow(k).meta = 0
       /\ k = "upload" => NewFlow(k).step = "dropzone"
  /\ NoFlow.doc = 0 /\ NoFlow.name = 0 /\ NoFlow.meta = 0
BY DEF NoFlow, NewFlow, Flow, Step

\* A channel is for the document that is watched, and a new one starts with nothing.
LEMMA RewatchType ==
  ASSUME SubOK, StoreOK', Rewatch
  PROVE  SubOK'
<1>1. sub' \in Docs \cup {0}
  BY DEF Rewatch, Watched, StoreOK, Flow
<1>2. CASE sub' = sub
  BY <1>1, <1>2 DEF Rewatch, SubOK
<1>3. CASE sub' # sub
  <2>1. live' = FALSE /\ queue' = <<>>
    BY <1>3 DEF Rewatch
  <2>2. live' \in BOOLEAN
    BY <2>1
  <2>3. QED
    BY <1>1, <2>1, <2>2 DEF SubOK
<1>4. QED
  BY <1>2, <1>3

LEMMA RenderType ==
  ASSUME HookOK, Render
  PROVE  /\ HookOK' /\ calls' \subseteq calls
         /\ hook' = hook \/ hook' = 0 \/ hook = 0
<1>1. CASE UNCHANGED <<hook, hooks, docStatus, calls>>
  BY <1>1 DEF HookOK
<1>2. CASE /\ hooks' = IF hook = 0 THEN hooks + 1 ELSE hooks
           /\ hook' = IF hook = 0 THEN hooks + 1 ELSE 0
           /\ docStatus' = "null"
           /\ calls' = calls \ Aborted
  BY <1>2 DEF HookOK
<1>3. QED
  BY <1>1, <1>2 DEF Render

\* What becomes of the calls when one starts, ends or goes on.
LEMMA CallsType ==
  ASSUME CallsOK, HookOK, CountOK, UNCHANGED flows, flow'.kind = flow.kind,
         NEW c \in Call, c.flow <= flows,
         \/ calls' \subseteq calls
         \/ Started(c) /\ c.at # "stream"
         \/ Ended(c)
         \/ \E to \in {"fetch", "answered", "stream", "insert"} :
              Goes(c, to) /\ (to = "stream" => c.do = "regenerate")
  PROVE  CallsOK'
<1>1. CASE calls' \subseteq calls \/ Ended(c)
  BY <1>1 DEF CallsOK, Ended
<1>2. CASE Started(c) /\ c.at # "stream"
  BY <1>2 DEF CallsOK, Started
<1>3. ASSUME NEW to \in {"fetch", "answered", "stream", "insert"}, Goes(c, to),
             to = "stream" => c.do = "regenerate"
      PROVE  CallsOK'
  <2> DEFINE d == [c EXCEPT !.at = to]
  <2>1. d \in Call /\ d.flow = c.flow /\ d.at = to /\ d.do = c.do
    BY DEF Call
  <2>2. calls' = (calls \ {c}) \cup {d}
    BY <1>3 DEF Goes
  <2> HIDE DEF d
  <2>3. QED
    BY <1>3, <2>1, <2>2 DEF CallsOK
<1>4. QED
  BY <1>1, <1>2, <1>3

\* A call that has been made.
LEMMA CallMade ==
  ASSUME CallsOK, NEW c \in calls
  PROVE  /\ c \in Call /\ c.flow <= flows /\ c.doc \in Docs
         /\ c.do \in {"upload", "retry", "regenerate", "save"}
         /\ c.at \in {"token", "fetch", "answered", "stream", "insert"}
         /\ c.at = "stream" => c.do = "regenerate"
BY DEF CallsOK, Call

LEMMA FailsType ==
  ASSUME failures \in 0 .. MaxFailures, NEW b \in BOOLEAN, Fails(b)
  PROVE  failures' \in 0 .. MaxFailures
BY Numbers DEF Fails

\* The tasks of a document, one more, one further or one less.
LEMMA TaskKept ==
  ASSUME NEW t \in Task
  PROVE  /\ [t EXCEPT !.queued = @ + 1] \in Task /\ [t EXCEPT !.queued = @ + 1].agent = t.agent
         /\ \A a \in {"runs", "saved", "ended"} : [t EXCEPT !.agent = a] \in Task
         /\ t.queued > 0 => [t EXCEPT !.queued = @ - 1, !.ocr = @ + 1] \in Task
         /\ t.ocr > 0 => [t EXCEPT !.ocr = @ - 1] \in Task
<1>1. t.queued \in Nat /\ t.ocr \in Nat
  BY DEF Task
<1>2. \A n \in Nat : n + 1 \in Nat /\ (n > 0 => n - 1 \in Nat)
  OBVIOUS
<1>3. QED
  BY <1>1, <1>2 DEF Task

\* The last of one.
LEMMA OnlyOne ==
  ASSUME NEW S, NEW q \in Seq(S), q # <<>>, Tail(q) = <<>>
  PROVE  Head(q) = q[Len(q)]
<1> DEFINE t == Tail(q)
<1>1. Len(q) \in Nat /\ Len(q) > 0
  OBVIOUS
<1>2. t = <<>> /\ Len(t) = Len(q) - 1
  BY <1>1
<1> HIDE DEF t
<1>3. Len(t) = 0
  BY <1>2
<1>4. Len(q) = 1
  BY <1>1, <1>2, <1>3
<1>5. QED
  BY <1>4

LEMMA QueueType ==
  ASSUME SubOK, NEW u \in Update, NEW b,
         UNCHANGED <<sub, live>>, queue' = IF b THEN Append(queue, u) ELSE queue
  PROVE  SubOK'
<1>1. Append(queue, u) \in Seq(Update) /\ queue \in Seq(Update)
  BY DEF SubOK
<1>2. QED
  BY <1>1 DEF SubOK

-----------------------------------------------------------------------------
(* Type correctness                                                        *)

LEMMA TypesInit == Init => Types
<1> SUFFICES ASSUME Init PROVE Types
  OBVIOUS
<1>1. StoreOK
  <2>1. expanded \in BOOLEAN
    BY DEF Init
  <2>2. QED
    BY <2>1, FlowKinds DEF Init, StoreOK
<1>2. HookOK /\ CountOK
  BY Numbers DEF Init, HookOK, CountOK
<1>3. FlagsOK
  BY DEF Init, FlagsOK
<1>4. SubOK
  <2>1. live \in BOOLEAN
    BY DEF Init
  <2>2. QED
    BY <2>1 DEF Init, SubOK
<1>5. RowOK
  <2>1. described \in [Docs -> BOOLEAN]
    BY DEF Init
  <2>2. QED
    BY <2>1 DEF Init, RowOK, Task
<1>6. CallsOK
  BY FlowKinds DEF Init, CallsOK
<1>7. QED
  BY <1>1, <1>2, <1>3, <1>4, <1>5, <1>6 DEF Types

\* Another flow is in the store, and fewer handlers wait.
LEMMA StoreTypes ==
  ASSUME Types, StoreOK', Render, Rewatch, UNCHANGED rowVars, FlagsOK', CountOK',
         flow'.kind # "none" => flows' > 0, flows' >= flows
  PROVE  Types'
<1>1. HookOK' /\ calls' \subseteq calls
  BY RenderType DEF Types
<1>2. SubOK'
  BY RewatchType DEF Types
<1>3. RowOK'
  BY DEF Types, RowOK
<1>4. CallsOK'
  <2>1. flows \in Nat /\ flows' \in Nat
    BY Numbers DEF Types, CountOK
  <2>2. \A c \in calls' : c \in Call /\ c.flow \in Nat /\ c.flow <= flows
    BY <1>1, Numbers DEF Types, CallsOK, Call
  <2>3. QED
    BY <1>1, <2>1, <2>2 DEF Types, CallsOK
<1>5. QED
  BY <1>1, <1>2, <1>3, <1>4 DEF Types

LEMMA CardTypes ==
  ASSUME Types,
         \/ \E k \in {"upload", "other"} : OpenFlow(k)
         \/ RequestClose \/ HandleDone \/ AnswerConfirm \/ \E b \in BOOLEAN : AskConfirm(b)
         \/ Toggle \/ ChangePage \/ Reload
  PROVE  Types'
<1> USE Numbers
<1>1. ASSUME NEW k \in {"upload", "other"}, OpenFlow(k) PROVE Types'
  <2>1. /\ flow' = NewFlow(k) /\ bar' = "idle" /\ expanded' = TRUE
        /\ flows < MaxFlows /\ flows' = flows + 1 /\ crossed' = FALSE /\ cut' = FALSE
        /\ Render /\ Rewatch
        /\ UNCHANGED <<away, confirm, rowVars, uploads, started, failures, leaves, saved, behind>>
    BY <1>1 DEF OpenFlow
  <2>2. expanded' \in BOOLEAN /\ crossed' \in BOOLEAN /\ cut' \in BOOLEAN
    BY <2>1
  <2>3. StoreOK'
    BY <2>1, <2>2, FlowKinds DEF StoreOK
  <2>4. FlagsOK'
    BY <2>1, <2>2 DEF Types, FlagsOK
  <2>5. CountOK' /\ flows' > 0 /\ flows' >= flows
    BY <2>1 DEF Types, CountOK
  <2>6. QED
    BY <2>1, <2>3, <2>4, <2>5, StoreTypes
<1>2. CASE RequestClose \/ HandleDone \/ AnswerConfirm
  <2>1. /\ flow' = NoFlow /\ bar' = "idle" /\ expanded' = FALSE
        /\ confirm' = FALSE /\ crossed' = FALSE /\ cut' = FALSE
        /\ Render /\ Rewatch
        /\ UNCHANGED <<away, rowVars, uploads, flows, started, failures, leaves, saved, behind>>
    BY <1>2 DEF RequestClose, HandleDone, AnswerConfirm, Close
  <2>2. expanded' \in BOOLEAN /\ crossed' \in BOOLEAN /\ cut' \in BOOLEAN /\ confirm' \in BOOLEAN
    BY <2>1
  <2>3. StoreOK'
    BY <2>1, <2>2, FlowKinds DEF StoreOK
  <2>4. FlagsOK'
    BY <2>1, <2>2 DEF Types, FlagsOK
  <2>5. CountOK' /\ flows' >= flows /\ flow'.kind = "none"
    BY <2>1, FlowKinds DEF Types, CountOK
  <2>6. QED
    BY <2>1, <2>3, <2>4, <2>5, StoreTypes
<1>3. CASE (\E b \in BOOLEAN : AskConfirm(b)) \/ Toggle
  <2>1. /\ confirm' \in BOOLEAN /\ expanded' \in BOOLEAN
        /\ UNCHANGED <<flow, bar, away, hook, docStatus, subVars, calls, rowVars, countVars, histVars>>
    BY <1>3 DEF AskConfirm, Toggle, Types, FlagsOK, StoreOK
  <2>2. FlagsOK' /\ StoreOK'
    BY <2>1 DEF Types, FlagsOK, StoreOK
  <2>3. QED
    BY <2>1, <2>2 DEF Types, HookOK, SubOK, RowOK, CountOK, CallsOK
<1>4. CASE ChangePage
  <2>1. /\ leaves' \in {leaves, leaves + 1} /\ (leaves' # leaves => leaves < MaxLeaves)
        /\ Render /\ Rewatch
        /\ UNCHANGED <<storeVars, rowVars, uploads, flows, started, failures, saved, crossed, behind>>
    BY <1>4 DEF ChangePage
  <2>2. away' \in BOOLEAN /\ confirm' \in BOOLEAN /\ cut' \in BOOLEAN
    BY <1>4 DEF ChangePage
  <2>3. StoreOK' /\ CountOK' /\ flows' >= flows /\ (flow'.kind # "none" => flows' > 0)
    BY <2>1 DEF Types, StoreOK, CountOK, CallsOK
  <2>4. FlagsOK'
    BY <2>1, <2>2 DEF Types, FlagsOK
  <2>5. QED
    BY <2>1, <2>3, <2>4, StoreTypes
<1>5. CASE Reload
  <2>1. /\ leaves < MaxLeaves /\ leaves' = leaves + 1
        /\ bar' = "idle" /\ confirm' = FALSE /\ calls' = {} /\ cut' = FALSE
        /\ hooks' = IF hook = 0 THEN hooks ELSE hooks + 1
        /\ hook' = IF hook = 0 THEN 0 ELSE hooks + 1
        /\ docStatus' = "null"
        /\ sub' = Watched(flow, hook) /\ live' = FALSE /\ queue' = <<>>
        /\ UNCHANGED <<flow, expanded, away, rowVars, uploads, flows, started, failures,
                       saved, crossed, behind>>
    BY <1>5 DEF Reload
  <2>2. confirm' \in BOOLEAN /\ cut' \in BOOLEAN /\ live' \in BOOLEAN
    BY <2>1
  <2>3. StoreOK' /\ HookOK' /\ CountOK' /\ RowOK' /\ CallsOK'
    BY <2>1 DEF Types, StoreOK, HookOK, CountOK, RowOK, CallsOK
  <2>4. FlagsOK'
    BY <2>1, <2>2 DEF Types, FlagsOK
  <2>5. SubOK'
    BY <2>1, <2>2 DEF Types, SubOK, StoreOK, Flow, Watched
  <2>6. QED
    BY <2>3, <2>4, <2>5 DEF Types
<1>6. QED
  BY <1>1, <1>2, <1>3, <1>4, <1>5

LEMMA HandlerTypes ==
  ASSUME Types,
         \/ HandleFileSelect \/ HandleRetry \/ HandleRegenerate \/ HandleSave
         \/ EditMetadata \/ HandleUploadAnother
  PROVE  Types'
<1> USE Numbers
<1>1. CASE HandleFileSelect
  <2> DEFINE n == uploads + 1
             c == [do |-> "upload", doc |-> n, flow |-> flows, hook |-> hook, at |-> "token"]
  <2>1. /\ uploads < MaxUploads /\ uploads' = n /\ hook # 0 /\ flow.kind = "upload"
        /\ flow' = [flow EXCEPT !.name = n, !.step = "processing"]
        /\ bar' = "processing" /\ expanded' = FALSE /\ docStatus' = "uploading" /\ behind' = TRUE
        /\ Started(c) /\ Rewatch
        /\ UNCHANGED <<hook, away, confirm, rowVars, flows, hooks, started, failures, leaves,
                       saved, crossed, cut>>
    BY <1>1 DEF HandleFileSelect, FileChosen, Usable
  <2>2. n \in Docs /\ flows > 0
    BY <2>1 DEF Types, CountOK, CallsOK, Docs
  <2>3. c \in Call /\ c.flow <= flows /\ c.at # "stream"
    BY <2>2 DEF Types, CountOK, HookOK, Call
  <2> HIDE DEF n, c
  <2>4. flow' \in Flow /\ flow'.kind = "upload"
    BY <2>1, <2>2 DEF Types, StoreOK, Flow, Step
  <2>5. expanded' \in BOOLEAN /\ behind' \in BOOLEAN
    BY <2>1
  <2>6. StoreOK'
    BY <2>1, <2>4, <2>5 DEF StoreOK
  <2>7. HookOK' /\ RowOK'
    BY <2>1 DEF Types, HookOK, RowOK, RowStatus
  <2>8. FlagsOK'
    BY <2>1, <2>5 DEF Types, FlagsOK
  <2>9. CountOK'
    BY <2>1, <2>2 DEF Types, CountOK, Docs
  <2>10. SubOK'
    BY <2>1, <2>6, RewatchType DEF Types
  <2>11. CallsOK'
    BY <2>1, <2>3, <2>4, CallsType DEF Types
  <2>12. QED
    BY <2>6, <2>7, <2>8, <2>9, <2>10, <2>11 DEF Types
<1>2. ASSUME NEW what \in {"retry", "regenerate", "save"}, NEW at \in {"token", "fetch"},
             Starts(what, at), docStatus' \in {docStatus, "uploading"}, behind' \in BOOLEAN
      PROVE  Types'
  <2> DEFINE c == [do |-> what, doc |-> flow.doc, flow |-> flows, hook |-> hook, at |-> at]
  <2>1. /\ flow.kind = "upload" /\ flow.doc # 0 /\ started < MaxCalls /\ started' = started + 1
        /\ bar' = "processing" /\ Started(c)
        /\ UNCHANGED <<flow, expanded, away, hook, confirm, subVars, rowVars,
                       uploads, flows, hooks, failures, leaves, saved, crossed, cut>>
    BY <1>2 DEF Starts, Usable
  <2>2. flow.doc \in Docs /\ flows > 0
    BY <2>1 DEF Types, StoreOK, Flow, CallsOK
  <2>3. c \in Call /\ c.flow <= flows /\ c.at # "stream"
    BY <2>2 DEF Types, CountOK, HookOK, Call
  <2> HIDE DEF c
  <2>4. StoreOK' /\ SubOK' /\ RowOK' /\ CountOK'
    BY <2>1 DEF Types, StoreOK, SubOK, RowOK, CountOK
  <2>5. HookOK'
    BY <1>2, <2>1 DEF Types, HookOK, RowStatus
  <2>6. FlagsOK'
    BY <1>2, <2>1 DEF Types, FlagsOK
  <2>7. CallsOK'
    BY <2>1, <2>3, CallsType DEF Types
  <2>8. QED
    BY <2>4, <2>5, <2>6, <2>7 DEF Types
<1>3. CASE HandleRetry
  <2>1. Starts("retry", "token") /\ docStatus' = "uploading" /\ behind' = TRUE
    BY <1>3 DEF HandleRetry
  <2>2. behind' \in BOOLEAN
    BY <2>1
  <2>3. QED
    BY <1>2, <2>1, <2>2
<1>4. CASE HandleRegenerate \/ HandleSave
  <2>1. /\ Starts("regenerate", "token") \/ Starts("save", "fetch")
        /\ docStatus' = docStatus /\ behind' \in BOOLEAN
    BY <1>4 DEF HandleRegenerate, HandleSave, Types, FlagsOK
  <2>2. QED
    BY <1>2, <2>1
<1>5. CASE EditMetadata
  <2>1. /\ flow.kind = "upload" /\ flow' = [flow EXCEPT !.edited = TRUE]
        /\ UNCHANGED <<bar, expanded, hookVars, subVars, calls, rowVars, countVars, histVars>>
    BY <1>5 DEF EditMetadata, Usable
  <2>2. flow' \in Flow /\ flow'.kind = "upload"
    BY <2>1 DEF Types, StoreOK, Flow
  <2>3. StoreOK'
    BY <2>1, <2>2 DEF Types, StoreOK
  <2>4. CallsOK'
    BY <2>1, <2>2 DEF Types, CallsOK
  <2>5. QED
    BY <2>1, <2>3, <2>4 DEF Types, HookOK, FlagsOK, SubOK, RowOK, CountOK
<1>6. CASE HandleUploadAnother
  <2>1. /\ flows < MaxFlows /\ flows' = flows + 1 /\ crossed' = FALSE
        /\ flow' = NewFlow("upload") /\ bar' = "idle" /\ docStatus' = "null" /\ Rewatch
        /\ UNCHANGED <<hook, expanded, away, confirm, calls, rowVars, uploads, hooks, started,
                       failures, leaves, saved, cut, behind>>
    BY <1>6 DEF HandleUploadAnother, ForgetsDocument
  <2>2. crossed' \in BOOLEAN
    BY <2>1
  <2>3. StoreOK'
    BY <2>1, FlowKinds DEF Types, StoreOK
  <2>4. HookOK' /\ RowOK' /\ CountOK'
    BY <2>1 DEF Types, HookOK, RowOK, CountOK
  <2>5. FlagsOK'
    BY <2>1, <2>2 DEF Types, FlagsOK
  <2>6. SubOK'
    BY <2>1, <2>3, RewatchType DEF Types
  <2>7. CallsOK'
    <3>1. flows \in Nat
      BY DEF Types, CountOK
    <3>2. \A c \in calls : c \in Call /\ c.flow \in Nat /\ c.flow <= flows
      BY DEF Types, CallsOK, Call
    <3>3. QED
      BY <2>1, <3>1, <3>2 DEF Types, CallsOK
  <2>8. QED
    BY <2>3, <2>4, <2>5, <2>6, <2>7 DEF Types
<1>7. QED
  BY <1>1, <1>3, <1>4, <1>5, <1>6

\* A handler that goes on after an await, and writes to the flow that is open.
LEMMA ResumeTypes ==
  ASSUME Types, Made, NEW c \in calls, Resumes(c)
  PROVE  Types'
<1> USE Numbers
<1>1. /\ c \in Call /\ c.flow <= flows /\ c.doc \in Docs
      /\ c.do \in {"upload", "retry", "regenerate", "save"}
      /\ c.at \in {"token", "fetch", "answered", "stream", "insert"}
      /\ c.at = "stream" => c.do = "regenerate"
  BY CallMade DEF Types
<1>2. (crossed \/ Crosses(c)) \in BOOLEAN
  OBVIOUS
<1>3. ASSUME Caught(c) PROVE Types'
  <2>1. /\ Ended(c) /\ bar' = "error" /\ Fails(~Refused(c))
        /\ UNCHANGED <<flow, subVars, rowVars, saved, cut, expanded, away, hook, confirm,
                       uploads, flows, hooks, started, leaves>>
    BY <1>3 DEF Caught, FailureBar, Unmoved
  <2>2. docStatus' \in {docStatus, "failed"} /\ behind' \in BOOLEAN /\ crossed' \in BOOLEAN
    BY <1>2, <1>3 DEF Caught, SetDocStatus, Types, FlagsOK
  <2>3. failures' \in 0 .. MaxFailures
    BY <2>1, FailsType DEF Types, CountOK
  <2>4. StoreOK' /\ SubOK' /\ RowOK'
    BY <2>1 DEF Types, StoreOK, SubOK, RowOK
  <2>5. HookOK'
    BY <2>1, <2>2 DEF Types, HookOK, RowStatus
  <2>6. CountOK'
    BY <2>1, <2>3 DEF Types, CountOK
  <2>7. FlagsOK'
    BY <2>1, <2>2 DEF Types, FlagsOK
  <2>8. CallsOK'
    BY <1>1, <2>1, CallsType DEF Types
  <2>9. QED
    BY <2>4, <2>5, <2>6, <2>7, <2>8 DEF Types
\* Only the call, the rows and the queue change.
<1>4. ASSUME NEW to \in {"fetch", "answered", "stream"}, Goes(c, to),
             to = "stream" => c.do = "regenerate",
             SubOK', RowOK', saved' \subseteq Docs,
             UNCHANGED <<storeVars, hookVars, countVars, crossed, cut, behind>>
      PROVE  Types'
  <2>1. CallsOK'
    BY <1>1, <1>4, CallsType DEF Types
  <2>2. QED
    BY <1>4, <2>1 DEF Types, StoreOK, HookOK, FlagsOK, CountOK
<1>5. ASSUME NEW ok \in BOOLEAN, TokenArrives(c, ok) PROVE Types'
  <2>1. CASE ok /\ ~Refused(c)
    <3>1. /\ Goes(c, IF c.do = "regenerate" THEN "stream" ELSE "fetch")
          /\ UNCHANGED <<storeVars, hookVars, subVars, rowVars, countVars, histVars>>
      BY <1>5, <2>1 DEF TokenArrives
    <3>2. SubOK' /\ RowOK' /\ saved' \subseteq Docs
      BY <3>1 DEF Types, SubOK, RowOK, CountOK
    <3>3. CASE c.do = "regenerate"
      BY <1>4, <3>1, <3>2, <3>3
    <3>4. CASE c.do # "regenerate"
      BY <1>4, <3>1, <3>2, <3>4
    <3>5. QED
      BY <3>3, <3>4
  <2>2. CASE ~ok \/ Refused(c)
    BY <1>3, <1>5, <2>2 DEF TokenArrives
  <2>3. QED
    BY <2>1, <2>2
<1>6. CASE Accepts(c)
  <2> DEFINE u == [status |-> "uploading", meta |-> described[c.doc]]
  <2>1. /\ row' = [row EXCEPT ![c.doc] = "uploading"] /\ task' = [task EXCEPT ![c.doc].queued = @ + 1]
        /\ queue' = IF sub = c.doc /\ live THEN Append(queue, u) ELSE queue
        /\ Goes(c, "answered")
        /\ UNCHANGED <<storeVars, hookVars, sub, live, described, countVars, histVars>>
    BY <1>6 DEF Accepts
  <2>2. u \in Update
    BY <1>1 DEF Update, RowStatus, Types, RowOK
  <2> HIDE DEF u
  <2>3. SubOK'
    BY <2>1, <2>2, QueueType DEF Types
  <2>4. RowOK' /\ saved' \subseteq Docs
    <3>1. row' \in [Docs -> RowStatus \cup {"none"}] /\ described' = described
      BY <1>1, <2>1 DEF Types, RowOK, RowStatus
    <3>2. task' \in [Docs -> Task] /\ \A d \in Docs : task'[d].agent = task[d].agent
      <4> DEFINE t == [task[c.doc] EXCEPT !.queued = @ + 1]
      <4>1. task[c.doc] \in Task
        BY <1>1 DEF Types, RowOK
      <4>2. t \in Task /\ t.agent = task[c.doc].agent
        BY <4>1, TaskKept
      <4>3. task' = [task EXCEPT ![c.doc] = t]
        BY <2>1
      <4> HIDE DEF t
      <4>4. QED
        BY <1>1, <4>2, <4>3 DEF Types, RowOK
    <3>3. \A d \in Docs : row[d] # "none" => row'[d] # "none"
      BY <1>1, <2>1 DEF Types, RowOK
    <3>4. QED
      BY <2>1, <3>1, <3>2, <3>3 DEF Types, RowOK, CountOK
  <2>5. QED
    BY <1>4, <2>1, <2>3, <2>4
<1>7. CASE RequestFails(c)
  BY <1>3, <1>7 DEF RequestFails
\* The call has ended, and what it brought is in the store.
<1>8. ASSUME Ended(c), StoreOK', SubOK', docStatus' \in {docStatus, "uploading"}, behind' \in BOOLEAN,
             flow'.kind = flow.kind, crossed' = (crossed \/ Crosses(c)),
             failures' \in 0 .. MaxFailures,
             UNCHANGED <<rowVars, saved, cut, away, hook, confirm, uploads, flows, hooks,
                         started, leaves>>
      PROVE  Types'
  <2>1. HookOK' /\ RowOK' /\ CountOK'
    BY <1>8 DEF Types, HookOK, RowOK, CountOK, RowStatus
  <2>2. crossed' \in BOOLEAN
    BY <1>2, <1>8
  <2>3. FlagsOK'
    BY <1>8, <2>2 DEF Types, FlagsOK
  <2>4. CallsOK'
    BY <1>1, <1>8, CallsType DEF Types
  <2>5. QED
    BY <1>8, <2>1, <2>3, <2>4 DEF Types
<1>9. CASE UploadAnswered(c) \/ RetryAnswered(c)
  <2>1. /\ Ended(c) /\ crossed' = (crossed \/ Crosses(c)) /\ behind' = TRUE
        /\ flow' = updateFlowData(flow, [flow EXCEPT !.doc = c.doc]) \/ flow' = flow
        /\ UNCHANGED <<bar, rowVars, failures, saved, cut, expanded, away, hook, confirm,
                       uploads, flows, hooks, started, leaves>>
    BY <1>9 DEF UploadAnswered, RetryAnswered, Unmoved
  <2>2. docStatus' \in {docStatus, "uploading"}
    BY <1>9 DEF UploadAnswered, RetryAnswered, SetDocStatus
  <2>3. flow' \in Flow /\ flow'.kind = flow.kind
    BY <1>1, <2>1 DEF updateFlowData, Types, StoreOK, Flow
  <2>4. StoreOK'
    BY <2>1, <2>3 DEF updateFlowData, Types, StoreOK
  <2>5. Rewatch \/ UNCHANGED subVars
    BY <1>9 DEF UploadAnswered, RetryAnswered
  <2>6. SubOK'
    BY <2>4, <2>5, RewatchType DEF Types, SubOK
  <2>7. behind' \in BOOLEAN /\ failures' \in 0 .. MaxFailures
    BY <2>1 DEF Types, CountOK
  <2>8. QED
    BY <1>8, <2>1, <2>2, <2>3, <2>4, <2>6, <2>7
<1>10. CASE StreamSpeaks(c)
  <2>1. /\ bar' \in {"processing", "error"} /\ crossed' = (crossed \/ Crosses(c))
        /\ UNCHANGED <<flow, docStatus, subVars, calls, rowVars, failures, saved, cut, behind, expanded,
                       away, hook, confirm, uploads, flows, hooks, started, leaves>>
    BY <1>10 DEF StreamSpeaks, Unmoved
  <2>2. crossed' \in BOOLEAN
    BY <1>2, <2>1
  <2>3. FlagsOK'
    BY <2>1, <2>2 DEF Types, FlagsOK
  <2>4. QED
    BY <2>1, <2>3 DEF Types, StoreOK, HookOK, SubOK, RowOK, CountOK, CallsOK
<1>11. ASSUME NEW saves \in BOOLEAN, StreamEnds(c, saves) \/ (SavesRow(c) /\ saves) PROVE Types'
  <2> DEFINE u == [status |-> row[c.doc], meta |-> TRUE]
  <2>1. /\ described' = [described EXCEPT ![c.doc] = @ \/ saves] \/ described' = [described EXCEPT ![c.doc] = TRUE]
        /\ \/ queue' = queue
           \/ queue' = Append(queue, u)
        /\ Goes(c, "fetch") \/ Goes(c, "answered")
        /\ saved' \in {saved, saved \cup {c.doc}}
        /\ UNCHANGED <<storeVars, hookVars, sub, live, row, task, countVars, crossed, cut, behind>>
    BY <1>11 DEF StreamEnds, SavesRow
  <2>2. c.do # "upload"
    BY <1>1, <1>11 DEF StreamEnds, SavesRow
  <2>3. u \in Update
    BY <1>1, <2>2 DEF Made, Types, RowOK, Update
  <2> HIDE DEF u
  <2>4. Append(queue, u) \in Seq(Update) /\ queue \in Seq(Update)
    BY <2>3 DEF Types, SubOK
  <2>5. SubOK'
    BY <2>1, <2>4 DEF Types, SubOK
  <2>6. described' \in [Docs -> BOOLEAN]
    BY <1>1, <2>1 DEF Types, RowOK
  <2>7. RowOK' /\ saved' \subseteq Docs
    BY <1>1, <2>1, <2>6 DEF Types, RowOK, CountOK
  <2>8. QED
    BY <1>4, <2>1, <2>5, <2>7
<1>12. ASSUME NEW found \in BOOLEAN, Regenerated(c, found) PROVE Types'
  <2>1. /\ \/ flow' = updateFlowData(flow, [flow EXCEPT !.name = c.doc, !.meta = c.doc, !.edited = FALSE])
           \/ flow' = flow
        /\ bar' = "idle" /\ Ended(c) /\ crossed' = (crossed \/ Crosses(c)) /\ Fails(~found)
        /\ UNCHANGED <<docStatus, subVars, rowVars, saved, cut, behind, expanded, away,
                       hook, confirm, uploads, flows, hooks, started, leaves>>
    BY <1>12 DEF Regenerated, Unmoved
  <2>2. flow' \in Flow /\ flow'.kind = flow.kind
    BY <1>1, <2>1 DEF updateFlowData, Types, StoreOK, Flow
  <2>3. StoreOK'
    BY <2>1, <2>2 DEF updateFlowData, Types, StoreOK
  <2>4. SubOK'
    BY <2>1 DEF Types, SubOK
  <2>5. behind' \in BOOLEAN /\ failures' \in 0 .. MaxFailures
    <3>1. (~found) \in BOOLEAN
      OBVIOUS
    <3>2. QED
      BY <2>1, <3>1, FailsType DEF Types, FlagsOK, CountOK
  <2>6. docStatus' \in {docStatus, "uploading"}
    BY <2>1
  <2>7. QED
    BY <1>8, <2>1, <2>2, <2>3, <2>4, <2>5, <2>6
<1>13. ASSUME SaveAnswered(c, TRUE) PROVE Types'
  <2>1. /\ Goes(c, "insert")
        /\ UNCHANGED <<flow, bar, subVars, crossed, docStatus, rowVars, failures, saved, cut, behind,
                       expanded, away, hook, confirm, uploads, flows, hooks, started, leaves>>
    BY <1>13 DEF SaveAnswered, Unmoved
  <2>2. CallsOK'
    BY <1>1, <2>1, CallsType DEF Types
  <2>3. QED
    BY <2>1, <2>2 DEF Types, StoreOK, HookOK, FlagsOK, SubOK, RowOK, CountOK
<1>14. ASSUME SaveAnswered(c, FALSE) PROVE Types'
  <2>1. /\ Ended(c) /\ flow' = setStep(flow, "complete") /\ bar' = "complete"
        /\ Rewatch /\ crossed' = (crossed \/ Crosses(c))
        /\ UNCHANGED <<docStatus, rowVars, failures, saved, cut, behind, expanded, away, hook, confirm,
                       uploads, flows, hooks, started, leaves>>
    BY <1>14 DEF SaveAnswered, Unmoved
  <2>2. flow' \in Flow /\ flow'.kind = flow.kind
        /\ flow'.doc = flow.doc /\ flow'.name = flow.name /\ flow'.meta = flow.meta
    BY <2>1 DEF setStep, Types, StoreOK, Flow, Step
  <2>3. StoreOK'
    BY <2>1, <2>2 DEF Types, StoreOK
  <2>4. SubOK'
    BY <2>1, <2>3, RewatchType DEF Types
  <2>5. behind' \in BOOLEAN /\ failures' \in 0 .. MaxFailures
    BY <2>1 DEF Types, FlagsOK, CountOK
  <2>6. QED
    BY <1>8, <2>1, <2>2, <2>3, <2>4, <2>5
<1>15. QED
  <2>1. ASSUME NEW stack \in BOOLEAN, SaveAnswered(c, stack) PROVE Types'
    BY <1>13, <1>14, <2>1
  <2>2. QED
    BY <1>5, <1>6, <1>7, <1>9, <1>10, <1>11, <1>12, <2>1 DEF Resumes

\* What every step of a task but the end of the agent does.
Moves(d) == \E t \in Task, s \in RowStatus, meta \in BOOLEAN, failed \in BOOLEAN :
              TaskStep(d, t, s, meta) /\ Fails(failed)

LEMMA TasksMove ==
  ASSUME Types, NEW d \in Docs, TaskSteps(d) \/ SavesAgain(d)
  PROVE  Moves(d) \/ AgentEnds(d)
<1>1. task[d] \in Task /\ (task[d].agent # "none" => row[d] \in RowStatus)
  BY DEF Types, RowOK
<1>2. {"uploading", "processing", "ocr_complete", "failed"} \subseteq RowStatus
      /\ HasText(d) \in BOOLEAN
  BY DEF RowStatus, HasText
<1>3. CASE BeginsOcr(d)
  <2>1. [task[d] EXCEPT !.queued = @ - 1, !.ocr = @ + 1] \in Task
    <3>1. task[d].queued > 0
      BY <1>3 DEF BeginsOcr
    <3>2. QED
      BY <1>1, <3>1, TaskKept
  <2>2. QED
    BY <1>2, <1>3, <2>1 DEF BeginsOcr, Moves
<1>4. CASE EndsOcr(d)
  <2> DEFINE t == [task[d] EXCEPT !.ocr = @ - 1]
  <2>1. t \in Task /\ [t EXCEPT !.agent = "runs"] \in Task /\ [t EXCEPT !.agent = "ended"] \in Task
    <3>1. task[d].ocr > 0
      BY <1>4 DEF EndsOcr
    <3>2. t \in Task
      BY <1>1, <3>1, TaskKept
    <3> HIDE DEF t
    <3>3. QED
      BY <3>2, TaskKept
  <2>2. \/ TaskStep(d, [t EXCEPT !.agent = "runs"], "ocr_complete", FALSE) /\ Fails(FALSE)
        \/ TaskStep(d, [t EXCEPT !.agent = "ended"], "failed", FALSE) /\ Fails(TRUE)
        \/ TaskStep(d, t, "failed", FALSE) /\ Fails(~HasText(d))
    BY <1>4 DEF EndsOcr
  <2> HIDE DEF t
  <2>3. QED
    BY <1>2, <2>1, <2>2 DEF Moves
<1>5. CASE ChargeFails(d)
  <2>1. [task[d] EXCEPT !.agent = "ended"] \in Task
    BY <1>1 DEF Task
  <2>2. QED
    BY <1>2, <1>5, <2>1 DEF ChargeFails, Moves
<1>6. CASE AgentSaves(d)
  <2>1. [task[d] EXCEPT !.agent = "saved"] \in Task
    BY <1>1 DEF Task
  <2>2. QED
    BY <1>1, <1>6, <2>1 DEF AgentSaves, Moves
<1>7. CASE SavesAgain(d)
  BY <1>1, <1>7 DEF SavesAgain, Moves
<1>8. QED
  BY <1>3, <1>4, <1>5, <1>6, <1>7 DEF TaskSteps

\* The channel and the backend.
LEMMA OutsideTypes ==
  ASSUME Types, Watches, Subscribes \/ HandleRealtimeUpdate \/ \E d \in Docs : TaskSteps(d) \/ SavesAgain(d)
  PROVE  Types'
<1> USE Numbers
<1>1. CASE Subscribes
  <2>1. /\ live' = TRUE /\ behind' = TRUE
        /\ UNCHANGED <<storeVars, hookVars, sub, queue, calls, rowVars, countVars, saved, crossed, cut>>
    BY <1>1 DEF Subscribes
  <2>2. live' \in BOOLEAN /\ behind' \in BOOLEAN
    BY <2>1
  <2>3. SubOK' /\ FlagsOK'
    BY <2>1, <2>2 DEF Types, SubOK, FlagsOK
  <2>4. QED
    BY <2>1, <2>3 DEF Types, StoreOK, HookOK, RowOK, CountOK, CallsOK
<1>2. CASE HandleRealtimeUpdate
  <2> DEFINE update == Head(queue)
  <2>1. /\ sub # 0 /\ queue # <<>> /\ docStatus' = update.status /\ bar' = BarAfter(update)
        /\ flow' = IF update.status = "ocr_complete" /\ update.meta
                   THEN [flow EXCEPT !.name = sub, !.meta = sub, !.edited = FALSE, !.step = StepAfter(update)]
                   ELSE flow
        /\ sub' = Watched(flow', hook) /\ behind' = FALSE
        /\ \/ queue' = Tail(queue) /\ live' = live
           \/ queue' = <<>> /\ live' = FALSE
        /\ UNCHANGED <<calls, rowVars, failures, saved, crossed, cut, expanded, away, hook, confirm,
                       uploads, flows, hooks, started, leaves>>
    BY <1>2 DEF HandleRealtimeUpdate, StatusAfter, Unmoved
  <2>2. update \in Update /\ queue \in Seq(Update) /\ Tail(queue) \in Seq(Update)
    BY <2>1 DEF Types, SubOK
  <2>3. update.status \in RowStatus
    BY <2>2 DEF Update
  <2>4. flow' \in Flow /\ flow'.kind = flow.kind /\ flow'.doc = flow.doc
    BY <2>1 DEF StepAfter, Types, StoreOK, SubOK, Flow, Step
  <2>5. flow.kind = "upload"
    BY <2>1 DEF Watches, Watched
  <2>6. bar' \in {"idle", "processing", "error"}
    BY <2>1 DEF BarAfter
  <2>7. StoreOK'
    BY <2>1, <2>4, <2>5, <2>6 DEF Types, StoreOK
  <2>8. HookOK' /\ RowOK' /\ CountOK'
    BY <2>1, <2>3 DEF Types, HookOK, RowOK, CountOK
  <2>9. behind' \in BOOLEAN /\ live' \in BOOLEAN
    BY <2>1 DEF Types, SubOK
  <2>10. FlagsOK'
    BY <2>1, <2>9 DEF Types, FlagsOK
  <2>11. SubOK'
    <3>1. sub' \in Docs \cup {0}
      <4>1. sub' \in {0, flow'.doc}
        BY <2>1 DEF Watched
      <4>2. flow'.doc \in Docs \cup {0}
        BY <2>4 DEF Flow
      <4>3. QED
        BY <4>1, <4>2
    <3>2. queue' \in Seq(Update)
      <4>1. queue' = Tail(queue) \/ queue' = <<>>
        BY <2>1
      <4>2. CASE queue' = Tail(queue)
        BY <2>2, <4>2
      <4>3. CASE queue' = <<>>
        BY <4>3
      <4>4. QED
        BY <4>1, <4>2, <4>3
    <3>3. QED
      BY <2>9, <3>1, <3>2 DEF SubOK
  <2>12. CallsOK'
    BY <2>1, <2>4 DEF Types, CallsOK
  <2>13. QED
    BY <2>7, <2>8, <2>10, <2>11, <2>12 DEF Types
<1>3. ASSUME NEW d \in Docs, Moves(d) PROVE Types'
  <2>1. PICK t \in Task, s \in RowStatus, meta \in BOOLEAN, failed \in BOOLEAN :
          TaskStep(d, t, s, meta) /\ Fails(failed)
    BY <1>3 DEF Moves
  <2> DEFINE u == [status |-> row'[d], meta |-> described'[d]]
  <2>2. /\ task' = [task EXCEPT ![d] = t] /\ row' = [row EXCEPT ![d] = s]
        /\ described' = [described EXCEPT ![d] = @ \/ meta]
        /\ queue' = IF sub = d /\ live THEN Append(queue, u) ELSE queue
        /\ UNCHANGED <<storeVars, hookVars, sub, live, calls, uploads, flows, hooks, started, leaves, histVars>>
    BY <2>1 DEF TaskStep, Tells
  <2>3. described' \in [Docs -> BOOLEAN]
    BY <2>2 DEF Types, RowOK
  <2>4. RowOK' /\ row'[d] = s
    <3>1. s # "none"
      BY DEF RowStatus
    <3>2. QED
      BY <2>2, <2>3, <3>1 DEF Types, RowOK
  <2>5. u \in Update
    BY <2>3, <2>4 DEF Update
  <2> HIDE DEF u
  <2>6. SubOK'
    BY <2>2, <2>5, QueueType DEF Types
  <2>7. failures' \in 0 .. MaxFailures
    BY <2>1, FailsType DEF Types, CountOK
  <2>8. CountOK'
    BY <2>2, <2>7 DEF Types, CountOK
  <2>9. QED
    BY <2>2, <2>4, <2>6, <2>8 DEF Types, StoreOK, HookOK, FlagsOK, CallsOK
<1>4. ASSUME NEW d \in Docs, AgentEnds(d) PROVE Types'
  <2>1. /\ task' = [task EXCEPT ![d].agent = "ended"] /\ Fails(task[d].agent = "runs")
        /\ task[d].agent # "none"
        /\ UNCHANGED <<storeVars, hookVars, subVars, calls, row, described, uploads, flows, hooks,
                       started, leaves, histVars>>
    BY <1>4 DEF AgentEnds
  <2>2. failures' \in 0 .. MaxFailures
    <3>1. (task[d].agent = "runs") \in BOOLEAN
      OBVIOUS
    <3>2. QED
      BY <2>1, <3>1, FailsType DEF Types, CountOK
  <2>3. task' \in [Docs -> Task] /\ \A e \in Docs : e # d => task'[e] = task[e]
    BY <2>1 DEF Types, RowOK, Task
  <2>4. CountOK' /\ RowOK'
    BY <2>1, <2>2, <2>3 DEF Types, CountOK, RowOK
  <2>5. QED
    BY <2>1, <2>4 DEF Types, StoreOK, HookOK, FlagsOK, SubOK, CallsOK
<1>5. QED
  BY <1>1, <1>2, <1>3, <1>4, TasksMove

LEMMA TypesNext == Types /\ Made /\ Watches /\ [Next]_vars => Types'
<1>1. Types /\ UNCHANGED vars => Types'
  BY DEF Types, StoreOK, HookOK, FlagsOK, SubOK, RowOK, CountOK, CallsOK
<1>2. QED
  BY <1>1, CardTypes, HandlerTypes, ResumeTypes, OutsideTypes DEF Next, User

-----------------------------------------------------------------------------
(* What changes with the calls and the channel                             *)

\* The calls that are made are those there were, one of them perhaps further on.
Onward(S) == \/ S \subseteq calls
             \/ \E c \in calls : \E to : S = (calls \ {c}) \cup {[c EXCEPT !.at = to]}

LEMMA OnwardCalls ==
  ASSUME Types, Onward(calls')
  PROVE  \A e \in calls' : \E c \in calls : e.do = c.do /\ e.doc = c.doc /\ e.flow = c.flow
<1>1. CASE calls' \subseteq calls
  BY <1>1
<1>2. ASSUME NEW c \in calls, NEW to, calls' = (calls \ {c}) \cup {[c EXCEPT !.at = to]}
      PROVE  \A e \in calls' : \E b \in calls : e.do = b.do /\ e.doc = b.doc /\ e.flow = b.flow
  <2>1. c \in Call
    BY DEF Types, CallsOK
  <2>2. [c EXCEPT !.at = to].do = c.do /\ [c EXCEPT !.at = to].doc = c.doc /\ [c EXCEPT !.at = to].flow = c.flow
    BY <2>1 DEF Call
  <2>3. QED
    BY <1>2, <2>2
<1>3. QED
  BY <1>1, <1>2 DEF Onward

LEMMA OwnKept ==
  ASSUME Types, Own, Onward(calls'), UNCHANGED flows, saved \subseteq saved', crossed => crossed',
         flow'.kind = flow.kind, flow'.step = flow.step, flow'.doc = flow.doc,
         flow'.name = flow.name, flow'.meta = flow.meta
  PROVE  Own'
<1> SUFFICES ASSUME flow.kind = "upload", ~crossed, ~crossed' PROVE Own'
  BY DEF Own
<1>1. \A e \in calls' : \E c \in calls : e.do = c.do /\ e.doc = c.doc /\ e.flow = c.flow
  BY OnwardCalls
<1>2. \A c, d \in calls' : c.flow = flows /\ d.flow = flows /\ c.do = "upload" /\ d.do = "upload" => c = d
  <2>1. CASE calls' \subseteq calls
    BY <2>1 DEF Own
  <2>2. ASSUME NEW b \in calls, NEW to, calls' = (calls \ {b}) \cup {[b EXCEPT !.at = to]}
        PROVE  \A c, d \in calls' : c.flow = flows /\ d.flow = flows /\ c.do = "upload" /\ d.do = "upload" => c = d
    <3> DEFINE e == [b EXCEPT !.at = to]
    <3>1. e.do = b.do /\ e.flow = b.flow
      BY DEF Types, CallsOK, Call
    <3> HIDE DEF e
    <3>2. calls' = (calls \ {b}) \cup {e}
      BY <2>2 DEF e
    <3>3. QED
      BY <3>1, <3>2 DEF Own
  <2>3. QED
    BY <2>1, <2>2 DEF Onward
<1>3. \A c \in calls' : c.flow = flows =>
        IF c.do = "upload" THEN flow.doc = 0 /\ flow.name = c.doc /\ flow.step = "processing"
                           ELSE c.doc = flow.doc
  BY <1>1 DEF Own
<1>4. flow.step = "dropzone" => \A c \in calls' : c.flow # flows
  BY <1>1 DEF Own
<1>5. QED
  BY <1>2, <1>3, <1>4 DEF Own

\* A flow that was just opened is nobody's.
LEMMA OwnNew ==
  ASSUME Types, calls' \subseteq calls, flow'.kind = "upload" => flow' = NewFlow("upload") /\ flows' = flows + 1
  PROVE  Own'
<1> SUFFICES ASSUME flow'.kind = "upload" PROVE Own'
  BY DEF Own
<1>1. flows \in Nat /\ \A c \in calls : c.flow \in Nat /\ c.flow <= flows
  BY DEF Types, CountOK, CallsOK, Call
<1>2. \A c \in calls' : c.flow # flows'
  BY <1>1
<1>3. flow'.doc = 0 /\ flow'.meta = 0 /\ flow'.step = "dropzone"
  BY FlowKinds
<1>4. QED
  BY <1>2, <1>3 DEF Own

\* A handler that writes across leaves nothing to show.
LEMMA OwnCrossed ==
  ASSUME NEW c, crossed' = (crossed \/ Crosses(c)), flow'.kind = flow.kind, UNCHANGED flows,
         crossed \/ c.flow # flows
  PROVE  Own'
BY DEF Own, Crosses

LEMMA MadeKept ==
  ASSUME Types, Made, \A d \in Docs : row[d] # "none" => row'[d] # "none",
         flow'.doc \in Docs => row'[flow'.doc] # "none", flow'.doc \in Docs \cup {0},
         \A e \in calls' \ calls : e.do # "upload" \/ e.at = "answered" => row'[e.doc] # "none"
  PROVE  Made'
<1>1. \A e \in calls : e.doc \in Docs
  BY DEF Types, CallsOK, Call
<1>2. \A e \in calls' : e.do # "upload" \/ e.at = "answered" => row'[e.doc] # "none"
  BY <1>1 DEF Made
<1>3. QED
  BY <1>2 DEF Made

\* The channel after a change of what is watched.
LEMMA RewatchKeeps ==
  ASSUME Watches, StatusFollows, Rewatch, UNCHANGED row,
         sub' = sub /\ sub # 0 => behind' \/ UNCHANGED <<docStatus, behind>>
  PROVE  Watches' /\ StatusFollows'
<1>1. sub' = Watched(flow', hook')
  BY DEF Rewatch
<1>2. CASE sub' # sub
  <2>1. ~live' /\ queue' = <<>>
    BY <1>2 DEF Rewatch
  <2>2. QED
    BY <1>1, <2>1 DEF Watches, StatusFollows
<1>3. CASE sub' = sub
  <2>1. UNCHANGED <<live, queue>>
    BY <1>3 DEF Rewatch
  <2>2. Watches'
    BY <1>1, <2>1 DEF Watches
  <2>3. StatusFollows'
    BY <1>3, <2>1 DEF StatusFollows
  <2>4. QED
    BY <2>2, <2>3
<1>4. QED
  BY <1>2, <1>3

\* A channel that stays is of a hook that stays, whose status does.
LEMMA RenderKeeps ==
  ASSUME Watches, Render, Rewatch, sub' = sub, sub # 0
  PROVE  UNCHANGED <<hook, docStatus>>
<1>1. hook # 0 /\ hook' # 0
  BY DEF Watches, Watched, Rewatch
<1>2. QED
  BY <1>1 DEF Render

\* The row of document d becomes s, and who is subscribed is told.
LEMMA TellsKeeps ==
  ASSUME Types, Types', Watches, StatusFollows, NEW d \in Docs, NEW s, NEW u, u.status = s, row' = [row EXCEPT ![d] = s],
         queue' = IF sub = d /\ live THEN Append(queue, u) ELSE queue,
         UNCHANGED <<flow, hook, sub, live, docStatus, behind>>
  PROVE  Watches' /\ StatusFollows'
<1>1. row'[d] = s /\ \A e \in Docs \ {d} : row'[e] = row[e]
  BY DEF Types, RowOK
<1>2. CASE sub = d /\ live
  <2>1. queue' # <<>> /\ queue'[Len(queue')] = u
    <3>1. queue' = Append(queue, u) /\ queue \in Seq(Update) /\ queue' \in Seq(Update)
      BY <1>2 DEF Types, SubOK
    <3>2. QED
      BY <3>1
  <2>2. QED
    BY <1>1, <1>2, <2>1 DEF Watches, StatusFollows
<1>3. CASE ~(sub = d /\ live)
  BY <1>1, <1>3 DEF Watches, StatusFollows, Types, SubOK
<1>4. QED
  BY <1>2, <1>3

\* Another flow is opened, or the one there is closed.
LEMMA StoreKeeps ==
  ASSUME Types, Types', Rest, Render, Rewatch, UNCHANGED <<rowVars, saved, behind>>, bar' = "idle",
         \/ flow' = NoFlow
         \/ \E k \in {"upload", "other"} : flow' = NewFlow(k) /\ flows' = flows + 1
  PROVE  Rest'
<1>1. calls' \subseteq calls
  BY RenderType DEF Types
<1>2. flow'.doc = 0 /\ ~flow'.edited
  BY FlowKinds
<1>3. Made'
  BY <1>1, <1>2 DEF Rest, Made
<1>4. Watches' /\ StatusFollows'
  BY RenderKeeps, RewatchKeeps DEF Rest
<1>5. SavedFirst'
  BY <1>1 DEF Rest, SavedFirst
<1>6. EditedLater' /\ Spins'
  BY <1>2 DEF EditedLater, Spins
<1>7. Own'
  BY <1>1, FlowKinds, OwnNew
<1>8. QED
  BY <1>3, <1>4, <1>5, <1>6, <1>7 DEF Rest

LEMMA CardKeeps ==
  ASSUME Types, Types', Rest,
         \/ \E k \in {"upload", "other"} : OpenFlow(k)
         \/ RequestClose \/ HandleDone \/ AnswerConfirm \/ \E b \in BOOLEAN : AskConfirm(b)
         \/ Toggle \/ ChangePage \/ Reload
  PROVE  Rest'
<1>1. ASSUME NEW k \in {"upload", "other"}, OpenFlow(k) PROVE Rest'
  <2>1. /\ flow' = NewFlow(k) /\ flows' = flows + 1 /\ bar' = "idle" /\ Render /\ Rewatch
        /\ UNCHANGED <<rowVars, saved, behind>>
    BY <1>1 DEF OpenFlow
  <2>2. QED
    BY <2>1, StoreKeeps
<1>2. CASE RequestClose \/ HandleDone \/ AnswerConfirm
  <2>1. /\ flow' = NoFlow /\ bar' = "idle" /\ Render /\ Rewatch
        /\ UNCHANGED <<rowVars, saved, behind>>
    BY <1>2 DEF RequestClose, HandleDone, AnswerConfirm, Close
  <2>2. QED
    BY <2>1, StoreKeeps
<1>3. CASE (\E b \in BOOLEAN : AskConfirm(b)) \/ Toggle
  <2>1. UNCHANGED <<flow, bar, hook, docStatus, subVars, calls, rowVars, countVars, histVars>>
    BY <1>3 DEF AskConfirm, Toggle
  <2>2. Watches' /\ StatusFollows'
    BY <2>1 DEF Rest, Watches, StatusFollows, Watched
  <2>3. QED
    BY <2>1, <2>2 DEF Rest, Made, SavedFirst, EditedLater, Spins, Own
<1>4. CASE ChangePage
  <2>1. /\ cut' = (cut \/ Aborted # {}) /\ Render /\ Rewatch
        /\ UNCHANGED <<storeVars, rowVars, flows, saved, crossed, behind>>
    BY <1>4 DEF ChangePage
  <2>2. calls' \subseteq calls
    BY <2>1, RenderType DEF Types
  <2>3. Watches' /\ StatusFollows'
    BY <2>1, RenderKeeps, RewatchKeeps DEF Rest
  <2>4. Made' /\ SavedFirst' /\ EditedLater'
    BY <2>1, <2>2 DEF Rest, Made, SavedFirst, EditedLater
  <2>5. calls' = calls \/ cut'
    <3>1. calls' = calls \/ calls' = calls \ Aborted
      BY <2>1 DEF Render
    <3>2. CASE Aborted = {}
      BY <3>1, <3>2
    <3>3. CASE Aborted # {}
      BY <2>1, <3>3
    <3>4. QED
      BY <3>2, <3>3
  <2>6. cut => cut'
    BY <2>1
  <2>7. Spins'
    BY <2>1, <2>5, <2>6 DEF Rest, Spins
  <2>8. Own'
    BY <2>1, <2>2, OwnKept DEF Rest, Onward
  <2>9. QED
    BY <2>3, <2>4, <2>7, <2>8 DEF Rest
<1>5. CASE Reload
  <2>1. /\ bar' = "idle" /\ calls' = {} /\ live' = FALSE /\ queue' = <<>>
        /\ hook' = (IF hook = 0 THEN 0 ELSE hooks + 1) /\ sub' = Watched(flow, hook)
        /\ UNCHANGED <<flow, rowVars, flows, saved, crossed>>
    BY <1>5 DEF Reload
  <2>2. hook = 0 <=> hook' = 0
    BY <2>1 DEF Types, HookOK
  <2>3. Watches' /\ StatusFollows'
    BY <2>1, <2>2 DEF Watches, StatusFollows, Watched
  <2>4. Made' /\ SavedFirst' /\ EditedLater' /\ Spins'
    BY <2>1 DEF Rest, Made, SavedFirst, EditedLater, Spins
  <2>5. Own'
    BY <2>1, OwnKept DEF Rest, Onward
  <2>6. QED
    BY <2>3, <2>4, <2>5 DEF Rest
<1>6. QED
  BY <1>1, <1>2, <1>3, <1>4, <1>5

LEMMA HandlersKeep ==
  ASSUME Types, Types', Rest,
         \/ HandleFileSelect \/ HandleRetry \/ HandleRegenerate \/ HandleSave
         \/ EditMetadata \/ HandleUploadAnother
  PROVE  Rest'
<1> USE Numbers
<1>1. CASE HandleFileSelect
  <2> DEFINE c == [do |-> "upload", doc |-> uploads + 1, flow |-> flows, hook |-> hook, at |-> "token"]
  <2>1. /\ flow.kind = "upload" /\ flow.step = "dropzone"
        /\ flow' = [flow EXCEPT !.name = uploads + 1, !.step = "processing"]
        /\ bar' = "processing" /\ behind' = TRUE /\ calls' = calls \cup {c} /\ Rewatch
        /\ UNCHANGED <<hook, rowVars, flows, saved, crossed, cut>>
    BY <1>1 DEF HandleFileSelect, FileChosen, Usable, Started
  <2>2. c.do = "upload" /\ c.at = "token" /\ c.flow = flows /\ c.doc = uploads + 1
    OBVIOUS
  <2> HIDE DEF c
  <2>3. /\ flow'.kind = "upload" /\ flow'.step = "processing" /\ flow'.name = uploads + 1
        /\ flow'.doc = flow.doc /\ flow'.meta = flow.meta /\ flow'.edited = flow.edited
    BY <2>1 DEF Types, StoreOK, Flow
  <2>4. Made'
    BY <2>1, <2>2, <2>3 DEF Rest, Made
  <2>5. Watches' /\ StatusFollows'
    BY <2>1, RewatchKeeps DEF Rest
  <2>6. SavedFirst' /\ EditedLater' /\ Spins'
    BY <2>1, <2>2, <2>3 DEF Rest, SavedFirst, EditedLater, Spins
  <2>7. Own'
    <3>1. SUFFICES ASSUME ~crossed PROVE Own'
      BY <2>1 DEF Own
    <3>2. flow.doc = 0 /\ flow.meta = 0 /\ \A d \in calls : d.flow # flows
      BY <2>1, <3>1 DEF Rest, Own
    <3>3. \A d \in calls' : d.flow = flows => d = c
      BY <2>1, <3>2
    <3>4. QED
      BY <2>1, <2>2, <2>3, <3>2, <3>3 DEF Own
  <2>8. QED
    BY <2>4, <2>5, <2>6, <2>7 DEF Rest
<1>2. ASSUME NEW what \in {"retry", "regenerate", "save"}, NEW at \in {"token", "fetch"},
             Starts(what, at), flow.step \in {"processing", "metadata"},
             behind' \/ UNCHANGED <<docStatus, behind>>,
             flow.step = "processing" \/ what # "retry"
      PROVE  Rest'
  <2> DEFINE c == [do |-> what, doc |-> flow.doc, flow |-> flows, hook |-> hook, at |-> at]
  <2>1. /\ flow.doc # 0 /\ calls' = calls \cup {c}
        /\ UNCHANGED <<flow, hook, subVars, rowVars, flows, saved, crossed, cut>>
    BY <1>2 DEF Starts, Usable, Started
  <2>2. c.do = what /\ c.at = at /\ c.flow = flows /\ c.doc = flow.doc
    OBVIOUS
  <2> HIDE DEF c
  <2>3. Made'
    BY <2>1, <2>2 DEF Rest, Made
  <2>4. Watches' /\ StatusFollows'
    BY <1>2, <2>1 DEF Rest, Watches, StatusFollows, Watched
  <2>5. SavedFirst' /\ EditedLater'
    BY <2>1, <2>2 DEF Rest, SavedFirst, EditedLater
  <2>6. Spins'
    BY <1>2, <2>1, <2>2 DEF Spins
  <2>7. Own'
    BY <1>2, <2>1, <2>2 DEF Rest, Own
  <2>8. QED
    BY <2>3, <2>4, <2>5, <2>6, <2>7 DEF Rest
<1>3. CASE HandleRetry
  <2>1. Starts("retry", "token") /\ behind' = TRUE /\ flow.step = "processing"
    BY <1>3 DEF HandleRetry, RetryShown
  <2>2. QED
    BY <1>2, <2>1
<1>4. CASE HandleRegenerate \/ HandleSave
  <2>1. /\ Starts("regenerate", "token") \/ Starts("save", "fetch")
        /\ UNCHANGED <<docStatus, behind>> /\ flow.step = "metadata"
    BY <1>4 DEF HandleRegenerate, HandleSave, Idle
  <2>2. QED
    BY <1>2, <2>1
<1>5. CASE EditMetadata
  <2>1. /\ flow.kind = "upload" /\ flow.step = "metadata" /\ flow' = [flow EXCEPT !.edited = TRUE]
        /\ UNCHANGED <<bar, hook, docStatus, subVars, calls, rowVars, countVars, histVars>>
    BY <1>5 DEF EditMetadata, Usable
  <2>2. /\ flow'.kind = flow.kind /\ flow'.step = flow.step /\ flow'.doc = flow.doc
        /\ flow'.name = flow.name /\ flow'.meta = flow.meta
    BY <2>1 DEF Types, StoreOK, Flow
  <2>3. Watches' /\ StatusFollows'
    BY <2>1, <2>2 DEF Rest, Watches, StatusFollows, Watched
  <2>4. Made' /\ SavedFirst' /\ EditedLater' /\ Spins'
    BY <2>1, <2>2 DEF Rest, Made, SavedFirst, EditedLater, Spins
  <2>5. Own'
    BY <2>1, <2>2, OwnKept DEF Rest, Onward
  <2>6. QED
    BY <2>3, <2>4, <2>5 DEF Rest
<1>6. CASE HandleUploadAnother
  <2>1. /\ flows' = flows + 1 /\ flow' = NewFlow("upload") /\ bar' = "idle" /\ Rewatch
        /\ UNCHANGED <<hook, calls, rowVars, saved>>
    BY <1>6 DEF HandleUploadAnother, ForgetsDocument
  <2>2. flow'.doc = 0 /\ ~flow'.edited /\ flow'.step = "dropzone"
    BY <2>1, FlowKinds
  <2>3. sub' = 0
    BY <2>1, <2>2 DEF Rewatch, Watched
  <2>4. Watches' /\ StatusFollows'
    BY <2>1, <2>3, RewatchKeeps DEF Rest
  <2>5. Made' /\ SavedFirst' /\ EditedLater' /\ Spins'
    BY <2>1, <2>2 DEF Rest, Made, SavedFirst, EditedLater, Spins
  <2>6. Own'
    BY <2>1, OwnNew
  <2>7. QED
    BY <2>4, <2>5, <2>6 DEF Rest
<1>7. QED
  BY <1>1, <1>3, <1>4, <1>5, <1>6

LEMMA ResumesKeep ==
  ASSUME Types, Types', Rest, NEW c \in calls, Resumes(c)
  PROVE  Rest'
<1> USE Numbers
<1>1. /\ c \in Call /\ c.flow <= flows /\ c.doc \in Docs
      /\ c.do \in {"upload", "retry", "regenerate", "save"}
      /\ c.at = "stream" => c.do = "regenerate"
  BY CallMade DEF Types
<1>2. ASSUME NEW to PROVE /\ [c EXCEPT !.at = to].do = c.do /\ [c EXCEPT !.at = to].doc = c.doc
                          /\ [c EXCEPT !.at = to].flow = c.flow /\ [c EXCEPT !.at = to].at = to
  BY <1>1 DEF Call
\* The handler ends, with the bar at rest or without a word on it.
<1>3. ASSUME Ended(c), bar' # "processing" \/ (bar' = bar /\ c.do \notin {"regenerate", "save"}),
             flow'.step = flow.step \/ bar' # "processing", cut' = cut
      PROVE  Spins'
  BY <1>3 DEF Ended, Rest, Spins
<1>4. ASSUME Caught(c) PROVE Rest'
  <2>1. /\ Ended(c) /\ bar' = "error" /\ (crossed => crossed')
        /\ UNCHANGED <<flow, hook, subVars, rowVars, flows, saved, cut>>
        /\ behind' = TRUE \/ UNCHANGED <<docStatus, behind>>
    BY <1>4 DEF Caught, FailureBar, Unmoved
  <2>2. calls' \subseteq calls
    BY <2>1 DEF Ended
  <2>3. Watches' /\ StatusFollows'
    BY <2>1 DEF Rest, Watches, StatusFollows, Watched
  <2>4. Made' /\ SavedFirst' /\ EditedLater' /\ Spins'
    BY <2>1, <2>2 DEF Rest, Made, SavedFirst, EditedLater, Spins
  <2>5. Own'
    BY <2>1, <2>2, OwnKept DEF Rest, Onward
  <2>6. QED
    BY <2>3, <2>4, <2>5 DEF Rest
\* The handler goes on to its next await.
<1>5. ASSUME NEW to, Goes(c, to), Watches', StatusFollows', UNCHANGED <<flow, flows, crossed, cut, bar>>,
             saved \subseteq saved', \A d \in Docs : row[d] # "none" => row'[d] # "none",
             c.do # "upload" \/ to = "answered" => row'[c.doc] # "none",
             c.do = "save" /\ to \in {"answered", "insert"} => c.doc \in saved'
      PROVE  Rest'
  <2> DEFINE d == [c EXCEPT !.at = to]
  <2>1. calls' = (calls \ {c}) \cup {d}
    BY <1>5 DEF Goes
  <2>2. d.do = c.do /\ d.doc = c.doc /\ d.flow = c.flow /\ d.at = to
    BY <1>2
  <2>3. Own'
    BY <1>5, <2>1, OwnKept DEF Rest, Onward
  <2> HIDE DEF d
  <2>4. Made'
    <3>1. flow.doc \in Docs \cup {0}
      BY DEF Types, StoreOK, Flow
    <3>2. flow.doc \in Docs => row'[flow.doc] # "none"
      BY <1>5 DEF Rest, Made
    <3>3. \A e \in calls' \ calls : e.do # "upload" \/ e.at = "answered" => row'[e.doc] # "none"
      BY <1>5, <2>1, <2>2
    <3>4. QED
      BY <1>5, <3>1, <3>2, <3>3, MadeKept DEF Rest
  <2>5. SavedFirst' /\ EditedLater' /\ Spins'
    BY <1>5, <2>1, <2>2 DEF Rest, SavedFirst, EditedLater, Spins
  <2>6. QED
    BY <1>5, <2>3, <2>4, <2>5 DEF Rest
<1>6. c.do # "upload" => row[c.doc] # "none"
  BY DEF Rest, Made
<1>7. ASSUME NEW ok \in BOOLEAN, TokenArrives(c, ok) PROVE Rest'
  <2>1. CASE ok /\ ~Refused(c)
    <3>1. /\ \E to \in {"stream", "fetch"} : Goes(c, to)
          /\ UNCHANGED <<storeVars, hookVars, subVars, rowVars, countVars, histVars>>
      BY <1>7, <2>1 DEF TokenArrives
    <3>2. PICK to \in {"stream", "fetch"} : Goes(c, to)
      BY <3>1
    <3>3. Watches' /\ StatusFollows'
      BY <3>1 DEF Rest, Watches, StatusFollows, Watched
    <3>4. QED
      BY <1>5, <1>6, <3>1, <3>2, <3>3
  <2>2. CASE ~ok \/ Refused(c)
    BY <1>4, <1>7, <2>2 DEF TokenArrives
  <2>3. QED
    BY <2>1, <2>2
<1>8. CASE Accepts(c)
  <2> DEFINE u == [status |-> "uploading", meta |-> described[c.doc]]
  <2>1. /\ row' = [row EXCEPT ![c.doc] = "uploading"] /\ c.do \in {"upload", "retry"}
        /\ queue' = IF sub = c.doc /\ live THEN Append(queue, u) ELSE queue
        /\ Goes(c, "answered")
        /\ UNCHANGED <<storeVars, hookVars, sub, live, countVars, histVars>>
    BY <1>8 DEF Accepts
  <2>2. Watches' /\ StatusFollows'
    <3>1. u.status = "uploading"
      OBVIOUS
    <3> HIDE DEF u
    <3>2. QED
      BY <1>1, <2>1, <3>1, TellsKeeps DEF Rest
  <2>3. row'[c.doc] # "none" /\ \A d \in Docs : row[d] # "none" => row'[d] # "none"
    BY <1>1, <2>1 DEF Types, RowOK
  <2>4. QED
    BY <1>5, <2>1, <2>2, <2>3
<1>9. CASE RequestFails(c)
  BY <1>4, <1>9 DEF RequestFails
<1>10. CASE UploadAnswered(c)
  <2>1. /\ c.do = "upload" /\ c.at = "answered"
        /\ flow' = updateFlowData(flow, [flow EXCEPT !.doc = c.doc])
        /\ Ended(c) /\ Rewatch /\ behind' = TRUE /\ crossed' = (crossed \/ Crosses(c))
        /\ UNCHANGED <<bar, hook, rowVars, flows, saved, cut>>
    BY <1>10 DEF UploadAnswered, Unmoved
  <2>2. /\ flow'.kind = flow.kind /\ flow'.step = flow.step /\ flow'.name = flow.name
        /\ flow'.meta = flow.meta /\ flow'.edited = flow.edited
        /\ flow'.doc = IF flow.kind = "upload" THEN c.doc ELSE flow.doc
    BY <2>1 DEF updateFlowData, Types, StoreOK, Flow
  <2>3. calls' = calls \ {c}
    BY <2>1 DEF Ended
  <2>4. Made'
    BY <2>1, <2>2, <2>3 DEF Rest, Made
  <2>5. Watches' /\ StatusFollows'
    BY <2>1, RewatchKeeps DEF Rest
  <2>6. Spins'
    BY <1>3, <2>1, <2>2
  <2>7. SavedFirst' /\ EditedLater'
    BY <2>1, <2>2, <2>3 DEF Rest, SavedFirst, EditedLater
  <2>8. Own'
    <3>1. CASE crossed \/ c.flow # flows
      BY <2>1, <2>2, <3>1, OwnCrossed
    <3>2. CASE ~crossed /\ c.flow = flows
      <4>1. SUFFICES ASSUME flow.kind = "upload" PROVE Own'
        BY <2>2 DEF Own
      <4>2. flow.doc = 0 /\ flow.name = c.doc /\ flow.step = "processing" /\ flow.meta = 0
        BY <2>1, <3>2, <4>1 DEF Rest, Own
      <4>3. \A d \in calls' : d.flow # flows
        <5>1. ASSUME NEW d \in calls', d.flow = flows PROVE FALSE
          <6>1. CASE d.do = "upload"
            BY <2>1, <2>3, <3>2, <4>1, <5>1, <6>1 DEF Rest, Own
          <6>2. CASE d.do # "upload"
            <7>1. d.doc = flow.doc /\ d.doc \in Docs
              BY <2>3, <3>2, <4>1, <5>1, <6>2, CallMade DEF Rest, Own, Types
            <7>2. QED
              BY <4>2, <7>1
          <6>3. QED
            BY <6>1, <6>2
        <5>2. QED
          BY <5>1
      <4>4. QED
        BY <1>1, <2>1, <2>2, <4>1, <4>2, <4>3 DEF Own
    <3>3. QED
      BY <3>1, <3>2
  <2>9. QED
    BY <2>4, <2>5, <2>6, <2>7, <2>8 DEF Rest
<1>11. CASE RetryAnswered(c)
  <2>1. /\ c.do = "retry" /\ Ended(c) /\ behind' = TRUE /\ (crossed => crossed')
        /\ UNCHANGED <<flow, bar, hook, subVars, rowVars, flows, saved, cut>>
    BY <1>11 DEF RetryAnswered, Unmoved
  <2>2. calls' \subseteq calls
    BY <2>1 DEF Ended
  <2>3. Watches' /\ StatusFollows'
    BY <2>1 DEF Rest, Watches, StatusFollows, Watched
  <2>4. Spins'
    BY <1>3, <2>1
  <2>5. Made' /\ SavedFirst' /\ EditedLater'
    BY <2>1, <2>2 DEF Rest, Made, SavedFirst, EditedLater
  <2>6. Own'
    BY <2>1, <2>2, OwnKept DEF Rest, Onward
  <2>7. QED
    BY <2>3, <2>4, <2>5, <2>6 DEF Rest
<1>12. CASE StreamSpeaks(c)
  <2>1. /\ c.at = "stream" /\ (crossed => crossed')
        /\ UNCHANGED <<flow, docStatus, hook, subVars, calls, rowVars, flows, saved, cut, behind>>
    BY <1>12 DEF StreamSpeaks, Unmoved
  <2>2. Watches' /\ StatusFollows'
    BY <2>1 DEF Rest, Watches, StatusFollows, Watched
  <2>3. Made' /\ SavedFirst' /\ EditedLater' /\ Spins'
    BY <1>1, <2>1 DEF Rest, Made, SavedFirst, EditedLater, Spins
  <2>4. Own'
    BY <2>1, OwnKept DEF Rest, Onward
  <2>5. QED
    BY <2>2, <2>3, <2>4 DEF Rest
<1>13. ASSUME NEW saves \in BOOLEAN, StreamEnds(c, saves) \/ (SavesRow(c) /\ saves) PROVE Rest'
  <2> DEFINE u == [status |-> row[c.doc], meta |-> TRUE]
  <2>1. /\ queue' = IF saves /\ sub = c.doc /\ live THEN Append(queue, u) ELSE queue
        /\ \/ c.at = "stream" /\ Goes(c, "fetch") /\ saved' = saved
           \/ c.do = "save" /\ Goes(c, "answered") /\ saved' = saved \cup {c.doc}
        /\ UNCHANGED <<storeVars, hookVars, sub, live, row, countVars, crossed, cut, behind>>
    BY <1>13 DEF StreamEnds, SavesRow
  <2>2. row = [row EXCEPT ![c.doc] = row[c.doc]]
    BY <1>1 DEF Types, RowOK
  <2>3. Watches' /\ StatusFollows'
    <3>1. CASE saves
      BY <1>1, <2>1, <2>2, <3>1, TellsKeeps DEF Rest
    <3>2. CASE ~saves
      BY <2>1, <3>2 DEF Rest, Watches, StatusFollows, Watched
    <3>3. QED
      BY <3>1, <3>2
  <2>4. QED
    BY <1>1, <1>5, <1>6, <2>1, <2>3
<1>14. CASE Regenerated(c, TRUE)
  <2>1. /\ c.do = "regenerate"
        /\ flow' = updateFlowData(flow, [flow EXCEPT !.name = c.doc, !.meta = c.doc, !.edited = FALSE])
        /\ bar' = "idle" /\ Ended(c) /\ crossed' = (crossed \/ Crosses(c))
        /\ UNCHANGED <<docStatus, hook, subVars, rowVars, flows, saved, cut, behind>>
    BY <1>14 DEF Regenerated, Unmoved
  <2>2. /\ flow'.kind = flow.kind /\ flow'.step = flow.step /\ flow'.doc = flow.doc
        /\ flow'.edited => flow.edited
        /\ flow.kind = "upload" => flow'.name = c.doc /\ flow'.meta = c.doc
    BY <2>1 DEF updateFlowData, Types, StoreOK, Flow
  <2>3. calls' = calls \ {c}
    BY <2>1 DEF Ended
  <2>4. Watches' /\ StatusFollows'
    BY <2>1, <2>2 DEF Rest, Watches, StatusFollows, Watched
  <2>5. Made' /\ SavedFirst' /\ EditedLater' /\ Spins'
    BY <2>1, <2>2, <2>3 DEF Rest, Made, SavedFirst, EditedLater, Spins
  <2>6. Own'
    <3>1. CASE crossed \/ c.flow # flows
      BY <2>1, <2>2, <3>1, OwnCrossed
    <3>2. CASE ~crossed /\ c.flow = flows
      <4>1. SUFFICES ASSUME flow.kind = "upload" PROVE Own'
        BY <2>2 DEF Own
      <4>2. c.doc = flow.doc /\ flow.doc # 0
        BY <1>1, <2>1, <3>2, <4>1 DEF Rest, Own
      <4>3. \A d \in calls' : d.flow = flows => d.do # "upload" /\ d.doc = flow.doc
        BY <2>3, <3>2, <4>1, <4>2 DEF Rest, Own
      <4>4. flow.step # "dropzone" /\ (flow.step = "complete" => flow.doc \in saved)
        BY <3>2, <4>1, <4>2 DEF Rest, Own
      <4>5. QED
        BY <2>1, <2>2, <4>1, <4>2, <4>3, <4>4 DEF Own
    <3>3. QED
      BY <3>1, <3>2
  <2>7. QED
    BY <2>4, <2>5, <2>6 DEF Rest
<1>15. CASE Regenerated(c, FALSE)
  <2>1. /\ bar' = "idle" /\ Ended(c) /\ (crossed => crossed')
        /\ UNCHANGED <<flow, docStatus, hook, subVars, rowVars, flows, saved, cut, behind>>
    BY <1>15 DEF Regenerated, Unmoved
  <2>2. calls' \subseteq calls
    BY <2>1 DEF Ended
  <2>3. Watches' /\ StatusFollows'
    BY <2>1 DEF Rest, Watches, StatusFollows, Watched
  <2>4. Made' /\ SavedFirst' /\ EditedLater' /\ Spins'
    BY <2>1, <2>2 DEF Rest, Made, SavedFirst, EditedLater, Spins
  <2>5. Own'
    BY <2>1, <2>2, OwnKept DEF Rest, Onward
  <2>6. QED
    BY <2>3, <2>4, <2>5 DEF Rest
<1>16. CASE SaveAnswered(c, TRUE)
  <2>1. /\ Goes(c, "insert") /\ c.do = "save" /\ c.at = "answered"
        /\ UNCHANGED <<flow, bar, subVars, crossed, docStatus, rowVars, saved, cut, behind, hook, flows>>
    BY <1>16 DEF SaveAnswered, Unmoved
  <2>2. Watches' /\ StatusFollows'
    BY <2>1 DEF Rest, Watches, StatusFollows, Watched
  <2>3. c.doc \in saved
    BY <2>1 DEF Rest, SavedFirst
  <2>4. QED
    BY <1>5, <1>6, <2>1, <2>2, <2>3
<1>17. CASE SaveAnswered(c, FALSE)
  <2>1. /\ c.do = "save" /\ c.at \in {"answered", "insert"}
        /\ Ended(c) /\ flow' = setStep(flow, "complete") /\ bar' = "complete"
        /\ Rewatch /\ crossed' = (crossed \/ Crosses(c))
        /\ UNCHANGED <<docStatus, rowVars, saved, cut, behind, hook, flows>>
    BY <1>17 DEF SaveAnswered, Unmoved
  <2>2. /\ flow'.kind = flow.kind /\ flow'.doc = flow.doc /\ flow'.name = flow.name
        /\ flow'.meta = flow.meta /\ flow'.edited = flow.edited
        /\ flow.kind # "none" => flow'.step = "complete"
    BY <2>1 DEF setStep, Types, StoreOK, Flow
  <2>3. calls' = calls \ {c}
    BY <2>1 DEF Ended
  <2>4. Watches' /\ StatusFollows'
    BY <2>1, RewatchKeeps DEF Rest
  <2>5. Made' /\ SavedFirst' /\ Spins'
    BY <2>1, <2>2, <2>3 DEF Rest, Made, SavedFirst, Spins
  <2>6. EditedLater'
    BY <2>2 DEF Rest, EditedLater
  <2>7. Own'
    <3>1. CASE crossed \/ c.flow # flows
      BY <2>1, <2>2, <3>1, OwnCrossed
    <3>2. CASE ~crossed /\ c.flow = flows
      <4>1. SUFFICES ASSUME flow.kind = "upload" PROVE Own'
        BY <2>2 DEF Own
      <4>2. c.doc = flow.doc /\ flow.doc # 0 /\ flow.doc \in saved
        BY <1>1, <2>1, <3>2, <4>1 DEF Rest, Own, SavedFirst
      <4>3. \A d \in calls' : d.flow = flows => d.do # "upload" /\ d.doc = flow.doc
        BY <2>3, <3>2, <4>1, <4>2 DEF Rest, Own
      <4>4. flow.name = flow.doc /\ flow.meta \in {0, flow.doc}
        BY <3>2, <4>1, <4>2 DEF Rest, Own
      <4>5. QED
        BY <2>1, <2>2, <4>1, <4>2, <4>3, <4>4 DEF Own
    <3>3. QED
      BY <3>1, <3>2
  <2>8. QED
    BY <2>4, <2>5, <2>6, <2>7 DEF Rest
<1>18. QED
  <2>1. ASSUME NEW stack \in BOOLEAN, SaveAnswered(c, stack) PROVE Rest'
    BY <1>16, <1>17, <2>1
  <2>2. ASSUME NEW found \in BOOLEAN, Regenerated(c, found) PROVE Rest'
    BY <1>14, <1>15, <2>2
  <2>3. QED
    BY <1>7, <1>8, <1>9, <1>10, <1>11, <1>12, <1>13, <2>1, <2>2 DEF Resumes

LEMMA OutsideKeeps ==
  ASSUME Types, Types', Rest, Subscribes \/ HandleRealtimeUpdate \/ \E d \in Docs : TaskSteps(d) \/ SavesAgain(d)
  PROVE  Rest'
<1> USE Numbers
<1>1. CASE Subscribes
  <2>1. /\ live' = TRUE /\ behind' = TRUE /\ ~live
        /\ UNCHANGED <<storeVars, hookVars, sub, queue, calls, rowVars, countVars, saved, crossed, cut>>
    BY <1>1 DEF Subscribes
  <2>2. Watches' /\ StatusFollows'
    BY <2>1 DEF Rest, Watches, StatusFollows, Watched
  <2>3. QED
    BY <2>1, <2>2 DEF Rest, Made, SavedFirst, EditedLater, Spins, Own
<1>2. CASE HandleRealtimeUpdate
  <2> DEFINE update == Head(queue)
             described_ == update.status = "ocr_complete" /\ update.meta
  <2>1. /\ sub # 0 /\ queue # <<>> /\ docStatus' = update.status /\ bar' = BarAfter(update)
        /\ flow' = IF described_
                   THEN [flow EXCEPT !.name = sub, !.meta = sub, !.edited = FALSE, !.step = "metadata"]
                   ELSE flow
        /\ sub' = Watched(flow', hook) /\ behind' = FALSE
        /\ IF sub' = sub THEN queue' = Tail(queue) /\ live' = live ELSE queue' = <<>> /\ live' = FALSE
        /\ UNCHANGED <<calls, rowVars, saved, crossed, cut, hook, flows>>
    BY <1>2 DEF HandleRealtimeUpdate, StatusAfter, StepAfter, Unmoved
  <2>2. queue \in Seq(Update)
    BY DEF Types, SubOK
  <2>3. flow.kind = "upload" /\ flow.step = "processing" /\ sub = flow.doc
    BY <2>1 DEF Rest, Watches, Watched
  <2>4. live
    BY <2>1 DEF Rest, Watches
  <2>5. /\ flow'.kind = flow.kind /\ flow'.doc = flow.doc
        /\ described_ => flow'.name = sub /\ flow'.meta = sub /\ ~flow'.edited /\ flow'.step = "metadata"
        /\ ~described_ => flow' = flow
    BY <2>1 DEF Types, StoreOK, Flow
  <2>6. described_ => bar' = "idle"
    BY <2>1 DEF BarAfter
  <2> HIDE DEF described_
  <2>7. Watches'
    <3>1. sub' = Watched(flow', hook')
      BY <2>1
    <3>2. ~live' => queue' = <<>>
      BY <2>1, <2>4
    <3>3. QED
      BY <3>1, <3>2 DEF Watches
  <2>8. StatusFollows'
    <3>1. CASE sub' = sub
      <4>1. queue' = Tail(queue) /\ queue[Len(queue)].status = row[sub]
        BY <2>1, <2>4, <3>1 DEF Rest, StatusFollows
      <4>2. CASE queue' = <<>>
        <5>1. update = queue[Len(queue)]
          <6>1. Tail(queue) = <<>> /\ queue # <<>>
            BY <2>1, <4>1, <4>2
          <6>2. QED
            BY <2>2, <6>1, OnlyOne
        <5>2. QED
          BY <2>1, <3>1, <4>1, <4>2, <5>1 DEF StatusFollows
      <4>3. CASE queue' # <<>>
        <5>1. queue'[Len(queue')] = queue[Len(queue)]
          BY <2>1, <2>2, <4>1, <4>3
        <5>2. QED
          BY <2>1, <3>1, <4>1, <4>3, <5>1 DEF StatusFollows
      <4>4. QED
        BY <4>2, <4>3
    <3>2. CASE sub' # sub
      BY <2>1, <3>2 DEF StatusFollows
    <3>3. QED
      BY <3>1, <3>2
  <2>9. Made' /\ SavedFirst'
    BY <2>1, <2>5 DEF Rest, Made, SavedFirst
  <2>10. EditedLater' /\ Spins'
    BY <2>3, <2>5, <2>6 DEF Rest, EditedLater, Spins
  <2>11. Own'
    <3>1. CASE described_
      <4>1. SUFFICES ASSUME ~crossed PROVE Own'
        BY <2>1 DEF Own
      <4>2. \A d \in calls : d.flow = flows => d.do # "upload" /\ d.doc = flow.doc
        BY <2>1, <2>3, <4>1 DEF Rest, Own
      <4>3. QED
        BY <2>1, <2>3, <2>5, <3>1, <4>2 DEF Own
    <3>2. CASE ~described_
      BY <2>1, <2>5, <3>2, OwnKept DEF Rest, Onward
    <3>3. QED
      BY <3>1, <3>2
  <2>12. QED
    BY <2>7, <2>8, <2>9, <2>10, <2>11 DEF Rest
<1>3. ASSUME NEW d \in Docs, TaskSteps(d) \/ SavesAgain(d) PROVE Rest'
  <2>1. /\ UNCHANGED <<storeVars, hook, docStatus, sub, live, calls, flows, histVars>>
        /\ \/ UNCHANGED <<row, queue>>
           \/ \E s \in RowStatus : /\ row' = [row EXCEPT ![d] = s]
                                   /\ Tells(d)
    <3>1. CASE AgentEnds(d)
      BY <3>1 DEF AgentEnds
    <3>2. CASE Moves(d)
      BY <3>2 DEF Moves, TaskStep
    <3>3. QED
      BY <1>3, <3>1, <3>2, TasksMove
  <2>2. Watches' /\ StatusFollows' /\ \A e \in Docs : row[e] # "none" => row'[e] # "none"
    <3>1. CASE UNCHANGED <<row, queue>>
      BY <2>1, <3>1 DEF Rest, Watches, StatusFollows, Watched
    <3>2. ASSUME NEW s \in RowStatus, row' = [row EXCEPT ![d] = s], Tells(d)
          PROVE  Watches' /\ StatusFollows' /\ \A e \in Docs : row[e] # "none" => row'[e] # "none"
      <4> DEFINE u == [status |-> row'[d], meta |-> described'[d]]
      <4>1. row'[d] = s /\ s # "none" /\ \A e \in Docs \ {d} : row'[e] = row[e]
        BY <3>2 DEF Types, RowOK, RowStatus
      <4>2. u.status = s /\ queue' = IF sub = d /\ live THEN Append(queue, u) ELSE queue
        BY <3>2, <4>1 DEF Tells
      <4> HIDE DEF u
      <4>3. Watches' /\ StatusFollows'
        BY <2>1, <3>2, <4>2, TellsKeeps DEF Rest
      <4>4. QED
        BY <4>1, <4>3
    <3>3. QED
      BY <2>1, <3>1, <3>2
  <2>3. Made'
    <3>1. flow.doc \in Docs \cup {0}
      BY DEF Types, StoreOK, Flow
    <3>2. flow.doc \in Docs => row'[flow.doc] # "none"
      BY <2>2 DEF Rest, Made
    <3>3. QED
      BY <2>1, <2>2, <3>1, <3>2, MadeKept DEF Rest
  <2>4. SavedFirst' /\ EditedLater' /\ Spins' /\ Own'
    BY <2>1 DEF Rest, SavedFirst, EditedLater, Spins, Own
  <2>5. QED
    BY <2>2, <2>3, <2>4 DEF Rest
<1>4. QED
  BY <1>1, <1>2, <1>3

-----------------------------------------------------------------------------
(* The theorems                                                            *)

LEMMA RestInit == Init => Rest
<1> SUFFICES ASSUME Init PROVE Rest
  OBVIOUS
<1>1. Watches /\ StatusFollows
  BY DEF Init, Watches, StatusFollows, Watched
<1>2. Made /\ SavedFirst /\ EditedLater /\ Spins /\ Own
  BY FlowKinds DEF Init, Made, SavedFirst, EditedLater, Spins, Own
<1>3. QED
  BY <1>1, <1>2 DEF Rest

LEMMA RestNext == Types /\ Types' /\ Rest /\ [Next]_vars => Rest'
<1>1. Rest /\ UNCHANGED vars => Rest'
  BY DEF Rest, Made, Watches, StatusFollows, Watched, SavedFirst, EditedLater, Spins, Own
<1>2. QED
  BY <1>1, CardKeeps, HandlersKeep, ResumesKeep, OutsideKeeps DEF Next, User

\* The invariant the theorems rest on: every click, answer, failure, update of
\* the row, change of page and reload keeps it.
THEOREM FlowInductive == Spec => [](Types /\ Rest)
<1>1. Init => Types /\ Rest
  BY TypesInit, RestInit
<1>2. Types /\ Rest /\ [Next]_vars => (Types /\ Rest)'
  BY TypesNext, RestNext DEF Rest
<1>3. QED
  BY <1>1, <1>2, PTL DEF Spec

\* The store, the hook's state, its channel and its waiting handlers keep their
\* types, and only a flow of kind "upload" carries a document (use-upload-flow.ts).
THEOREM TypeSafe == Spec => []TypeOK
BY FlowInductive, TypesMeanTypeOK, PTL

\* ShowsOneDocument: an answer, an update or a save never mixes two documents in
\* one flow, unless a handler of an earlier flow writes to it (use-upload-flow.ts:107).
THEOREM DocumentSafe == Spec => []ShowsOneDocument
<1>1. Types /\ Rest => ShowsOneDocument
  BY DEF Rest, Own, ShowsOneDocument
<1>2. QED
  BY <1>1, FlowInductive, PTL

\* ProgressIsTrue: the status shown is the row's once the channel has told it
\* (use-document-realtime.ts), and the bar does not spin without a handler.
THEOREM ProgressSafe == Spec => []ProgressIsTrue
<1>1. Types /\ Rest => ProgressIsTrue
  BY DEF Rest, Spins, ProgressIsTrue, SpinnerHasWork
<1>2. QED
  BY <1>1, FlowInductive, PTL

\* What a step makes of a flow that has been edited.
LEMMA EditedKept ==
  ASSUME Types, Rest, [Next]_vars, flow.edited, ~flow'.edited
  PROVE  flow'.kind # "upload" \/ flow'.step = "dropzone" \/ \E c \in calls : Regenerated(c, TRUE)
<1>1. flow.step \in {"metadata", "complete"} /\ flow \in Flow
  BY DEF Rest, EditedLater, Types, StoreOK
<1>2. CASE flow' = NoFlow \/ \E k \in {"upload", "other"} : flow' = NewFlow(k)
  BY <1>2, FlowKinds
<1>3. ASSUME NEW c \in calls, NEW to, Resumes(c), ~Regenerated(c, TRUE) PROVE FALSE
  <2>1. \/ flow' = flow
        \/ flow' = updateFlowData(flow, [flow EXCEPT !.doc = c.doc])
        \/ flow' = setStep(flow, "complete")
    BY <1>3 DEF Resumes, TokenArrives, Caught, Accepts, RequestFails, UploadAnswered, RetryAnswered,
                StreamSpeaks, StreamEnds, Regenerated, SavesRow, SaveAnswered
  <2>2. flow'.edited = flow.edited
    BY <1>1, <2>1 DEF updateFlowData, setStep, Flow
  <2>3. QED
    BY <2>2
<1>4. ASSUME HandleFileSelect \/ EditMetadata PROVE FALSE
  <2>1. \/ flow' = [flow EXCEPT !.name = uploads + 1, !.step = "processing"]
        \/ flow' = [flow EXCEPT !.edited = TRUE]
    BY <1>4 DEF HandleFileSelect, EditMetadata
  <2>2. QED
    BY <1>1, <2>1 DEF Flow
<1>5. ~HandleRealtimeUpdate
  BY <1>1 DEF HandleRealtimeUpdate, Rest, Watches, Watched
<1>6. CASE \/ \E k \in {"upload", "other"} : OpenFlow(k)
           \/ RequestClose \/ HandleDone \/ AnswerConfirm \/ HandleUploadAnother
  BY <1>2, <1>6 DEF OpenFlow, RequestClose, HandleDone, AnswerConfirm, Close, HandleUploadAnother,
                    ForgetsDocument
<1>7. CASE \/ \E b \in BOOLEAN : AskConfirm(b)
           \/ Toggle \/ ChangePage \/ Reload \/ HandleRetry \/ HandleRegenerate \/ HandleSave
           \/ Subscribes \/ \E d \in Docs : TaskSteps(d) \/ SavesAgain(d)
           \/ UNCHANGED vars
  <2>1. flow' = flow
    BY <1>7 DEF AskConfirm, Toggle, ChangePage, Reload, HandleRetry, HandleRegenerate, HandleSave,
                Starts, Subscribes, TaskSteps, BeginsOcr, EndsOcr, ChargeFails, AgentSaves, SavesAgain,
                AgentEnds, TaskStep
  <2>2. QED
    BY <2>1
<1>8. QED
  BY <1>3, <1>4, <1>5, <1>6, <1>7 DEF Next, User

\* EditsAreKept: no update of the row undoes what the user has typed
\* (use-upload-flow.ts:107 watches on the step "processing" only).
THEOREM EditsSafe == Spec => EditsAreKept
<1> DEFINE Kept == flow.edited /\ ~flow'.edited =>
                     flow'.kind # "upload" \/ flow'.step = "dropzone" \/ \E c \in calls : Regenerated(c, TRUE)
<1>1. Types /\ Rest /\ [Next]_vars => [Kept]_vars
  BY EditedKept
<1>2. QED
  BY <1>1, FlowInductive, PTL DEF Spec, EditsAreKept
=============================================================================
