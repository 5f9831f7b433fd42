------------------------------ MODULE UploadFlow ------------------------------
(***************************************************************************)
(* The upload of a document as the browser sees it: the hook               *)
(* use-upload-flow.ts, the persisted agent store, the card with its steps, *)
(* and the subscription use-document-realtime.ts to the document's row.    *)
(* The backend is reduced to what it does to that row (DocumentPipeline    *)
(* has the rest).                                                          *)
(*                                                                         *)
(* A handler runs to its next await, with the effects of the render that   *)
(* follows it.  What comes after an await writes to the store, which may   *)
(* hold another flow by then, and to the state of its hook, which may be   *)
(* gone.  Uploads are numbered, and name the document they make.           *)
(***************************************************************************)
EXTENDS Naturals, Sequences

CONSTANTS MaxUploads,  \* bound: files the user selects
          MaxFlows,    \* bound: flows opened, "upload another" included
          MaxCalls,    \* bound: retries, regenerations and saves
          MaxFailures, \* bound: calls and tasks that fail
          MaxLeaves,   \* bound: page changes and reloads
          MaxUpdates   \* bound: updates under way when an agent saves once more

ASSUME UploadAssumption ==
  {MaxUploads, MaxFlows, MaxCalls, MaxFailures, MaxLeaves, MaxUpdates} \subseteq Nat

Docs == 1 .. MaxUploads

VARIABLES
  flow, bar, expanded,     \* the store: the open flow, its status, isExpanded
  away,                    \* the user is on a page without the card
  hook, docStatus,         \* instance of the hook, 0 when not rendered; its documentStatus
  confirm,                 \* the dialog of the card: showConfirm
  sub, live, queue,        \* document of the channel, whether it is subscribed, updates under way
  calls,                   \* handlers that wait at an await
  row, described, task,    \* each document's status, whether it has metadata, its backend tasks
  uploads, flows, hooks, started, failures, leaves,  \* counters of what happened so far
  saved,                   \* history: documents whose row was saved from the page
  crossed,                 \* history: a handler of an earlier flow wrote to this one
  cut,                     \* history: a regeneration was aborted by leaving the page
  behind                   \* history: docStatus was not set by the last update

storeVars == <<flow, bar, expanded>>
hookVars  == <<away, hook, docStatus, confirm>>
subVars   == <<sub, live, queue>>
rowVars   == <<row, described, task>>
countVars == <<uploads, flows, hooks, started, failures, leaves>>
histVars  == <<saved, crossed, cut, behind>>
vars == <<storeVars, hookVars, subVars, calls, rowVars, countVars, histVars>>

Step       == {"none", "dropzone", "processing", "metadata", "complete"}
RowStatus  == {"uploading", "processing", "ocr_complete", "failed"}
\* Of a flow: its documentId (0 is null), the documents its displayName and its
\* tags and summary are from, and whether the user has edited them.
Flow == [kind : {"none", "upload", "other"}, step : Step, doc : Docs \cup {0},
         name : Docs \cup {0}, meta : Docs \cup {0}, edited : BOOLEAN]

NoFlow == [kind |-> "none", step |-> "none", doc |-> 0, name |-> 0, meta |-> 0, edited |-> FALSE]
NewFlow(kind) == [NoFlow EXCEPT !.kind = kind, !.step = IF kind = "upload" THEN "dropzone" ELSE "none"]

\* A handler at an await: what it does, for which document, of which flow and hook.
Call == [do : {"upload", "retry", "regenerate", "save"}, doc : Docs, flow : 1 .. MaxFlows,
         hook : Nat, at : {"token", "fetch", "answered", "stream", "insert"}]

\* A document's OCR tasks that wait and that run, and its metadata agent: it has one
\* at most, because its text can be saved once (Savable in DocumentPipeline).
Task == [queued : Nat, ocr : Nat, agent : {"none", "runs", "saved", "ended"}]

Update == [status : RowStatus, meta : BOOLEAN]

\* Only a flow of kind "upload" carries a document.
TypeOK ==
  /\ flow \in Flow /\ (flow.kind # "upload" => flow.doc = 0 /\ flow.name = 0 /\ flow.meta = 0)
  /\ bar \in {"idle", "processing", "complete", "error"} /\ expanded \in BOOLEAN
  /\ away \in BOOLEAN /\ hook \in 0 .. hooks /\ docStatus \in RowStatus \cup {"null"} /\ confirm \in BOOLEAN
  /\ sub \in Docs \cup {0} /\ live \in BOOLEAN /\ queue \in Seq(Update)
  /\ calls \subseteq Call
  /\ row \in [Docs -> RowStatus \cup {"none"}]
  /\ described \in [Docs -> BOOLEAN]
  /\ task \in [Docs -> Task]
  /\ uploads \in 0 .. MaxUploads /\ flows \in 0 .. MaxFlows /\ started \in 0 .. MaxCalls
  /\ failures \in 0 .. MaxFailures /\ leaves \in 0 .. MaxLeaves /\ hooks \in Nat
  /\ saved \subseteq Docs /\ crossed \in BOOLEAN /\ cut \in BOOLEAN /\ behind \in BOOLEAN
-----------------------------------------------------------------------------
Init ==
  /\ flow = NoFlow /\ bar = "idle" /\ expanded = FALSE
  /\ away = FALSE /\ hook = 0 /\ docStatus = "null" /\ confirm = FALSE
  /\ sub = 0 /\ live = FALSE /\ queue = <<>>
  /\ calls = {}
  /\ row = [d \in Docs |-> "none"] /\ described = [d \in Docs |-> FALSE]
  /\ task = [d \in Docs |-> [queued |-> 0, ocr |-> 0, agent |-> "none"]]
  /\ uploads = 0 /\ flows = 0 /\ hooks = 0 /\ started = 0 /\ failures = 0 /\ leaves = 0
  /\ saved = {} /\ crossed = FALSE /\ cut = FALSE /\ behind = FALSE

\* Variants, named *_bug, are what a plausible mistake would make of the
\* definition that follows them; no specification uses them.

Fails(failed) == /\ failed => failures < MaxFailures
                 /\ failures' = IF failed THEN failures + 1 ELSE failures

\* The document the hook watches: only on the step "processing".
Watched_bug(f, h) == IF h # 0 /\ f.kind = "upload" /\ f.step # "dropzone" THEN f.doc ELSE 0
Watched(f, h)     == IF h # 0 /\ f.kind = "upload" /\ f.step = "processing" THEN f.doc ELSE 0

\* The effect of useDocumentRealtime after a change: the old channel delivers
\* nothing more and the new one first waits for a token.
Rewatch ==
  /\ sub' = Watched(flow', hook')
  /\ IF sub' = sub THEN UNCHANGED <<live, queue>> ELSE live' = FALSE /\ queue' = <<>>

\* The stream the hook reads, which its unmount aborts.
Aborted == {c \in calls : c.hook = hook /\ c.at = "stream"}

\* The hook is rendered with an upload flow on a page with the card; a new
\* instance starts with no status.
Rendered(f, a) == f.kind = "upload" /\ ~a
Render ==
  IF Rendered(flow', away') <=> hook # 0
  THEN UNCHANGED <<hook, hooks, docStatus, calls>>
  ELSE /\ hooks' = IF hook = 0 THEN hooks + 1 ELSE hooks
       /\ hook' = IF hook = 0 THEN hooks + 1 ELSE 0
       /\ docStatus' = "null"
       /\ calls' = calls \ Aborted

\* Actions of the store.
updateFlowData_bug(f, new) == new
updateFlowData(f, new) == IF f.kind = "upload" THEN new ELSE f
setStep(f, step)       == IF f.kind = "none" THEN f ELSE [f EXCEPT !.step = step]

\* A handler's local state is written only while its hook is rendered.
SetDocStatus(c, s) == IF c.hook = hook THEN docStatus' = s ELSE UNCHANGED docStatus

\* A handler started for another flow than the one it writes to.
Crosses(c) == flow.kind = "upload" /\ c.flow # flows

\* What is on the card can be clicked.
Usable == hook # 0 /\ flow.kind = "upload" /\ expanded /\ ~confirm
Busy(what) == \E c \in calls : c.do = what /\ c.hook = hook
Completed  == Usable /\ flow.step = "complete"
-----------------------------------------------------------------------------
(* The card                                                                *)

\* openFlow.  The idle card, the sidebar and an empty table offer it, the last
\* two over whatever flow is open.
OpenFlow(kind) ==
  /\ ~confirm /\ flows < MaxFlows
  /\ flow' = NewFlow(kind) /\ bar' = "idle" /\ expanded' = TRUE
  /\ flows' = flows + 1 /\ crossed' = FALSE /\ cut' = FALSE
  /\ away' = away
  /\ Render /\ Rewatch
  /\ UNCHANGED <<confirm, rowVars, uploads, started, failures, leaves, saved, behind>>

\* close, from the button, the dialog or "done".
Close ==
  /\ flow' = NoFlow /\ bar' = "idle" /\ expanded' = FALSE
  /\ confirm' = FALSE
  /\ crossed' = FALSE /\ cut' = FALSE
  /\ away' = away
  /\ Render /\ Rewatch
  /\ UNCHANGED <<rowVars, uploads, flows, started, failures, leaves, saved, behind>>

NeedsConfirmation == flow.kind = "upload" /\ flow.step = "processing"

\* The button asks on the step "processing"; the dialog closes whatever step the
\* flow has reached by the time it is answered.
RequestClose  == ~away /\ ~confirm /\ flow.kind # "none" /\ ~NeedsConfirmation /\ Close
HandleDone    == Completed /\ Close
AnswerConfirm == confirm /\ Close
AskConfirm(asked) ==
  /\ ~away /\ flow.kind # "none" /\ confirm' = asked
  /\ IF asked THEN ~confirm /\ NeedsConfirmation ELSE confirm
  /\ UNCHANGED <<storeVars, away, hook, docStatus, subVars, calls, rowVars, countVars, histVars>>

\* The chevron, a click outside the card or Escape; the last two only collapse.
Toggle ==
  /\ ~away /\ ~confirm
  /\ expanded' = ~expanded
  /\ UNCHANGED <<flow, bar, hookVars, subVars, calls, rowVars, countVars, histVars>>

\* To a page without the card, and back.
ChangePage ==
  /\ IF away THEN leaves' = leaves ELSE leaves < MaxLeaves /\ leaves' = leaves + 1
  /\ away' = ~away /\ confirm' = FALSE
  /\ cut' = (cut \/ Aborted # {})
  /\ UNCHANGED storeVars
  /\ Render /\ Rewatch
  /\ UNCHANGED <<rowVars, uploads, flows, started, failures, saved, crossed, behind>>

\* A reload ends every handler and restores the persisted part of the store.
Reload ==
  /\ leaves < MaxLeaves /\ leaves' = leaves + 1
  /\ bar' = "idle" /\ confirm' = FALSE /\ calls' = {} /\ cut' = FALSE
  /\ hooks' = IF hook = 0 THEN hooks ELSE hooks + 1
  /\ hook' = IF hook = 0 THEN 0 ELSE hooks + 1
  /\ docStatus' = "null"
  /\ sub' = Watched(flow, hook) /\ live' = FALSE /\ queue' = <<>>
  /\ UNCHANGED <<flow, expanded, away, rowVars, uploads, flows, started, failures,
                 saved, crossed, behind>>
-----------------------------------------------------------------------------
(* The hook's handlers                                                     *)

Started(c) == calls' = calls \cup {c}
Ended(c)   == calls' = calls \ {c}
Goes(c, to) == calls' = (calls \ {c}) \cup {[c EXCEPT !.at = to]}

\* A file is dropped or picked; one of a wrong type or size gets no further.
FileChosen == Usable /\ flow.step = "dropzone" /\ uploads < MaxUploads

HandleFileSelect ==
  LET n == uploads + 1 IN
  /\ FileChosen
  /\ uploads' = n
  /\ flow' = [flow EXCEPT !.name = n, !.step = "processing"]
  /\ bar' = "processing" /\ expanded' = FALSE
  /\ docStatus' = "uploading"
  /\ UNCHANGED hook
  /\ Started([do |-> "upload", doc |-> n, flow |-> flows, hook |-> hook, at |-> "token"])
  /\ Rewatch
  /\ behind' = TRUE
  /\ UNCHANGED <<away, confirm, rowVars, flows, hooks, started, failures, leaves,
                 saved, crossed, cut>>

\* The other handlers return at once without a documentId; their buttons are
\* disabled while they run.
Starts(what, at) ==
  /\ Usable /\ flow.doc # 0 /\ started < MaxCalls
  /\ started' = started + 1
  /\ bar' = "processing"
  /\ Started([do |-> what, doc |-> flow.doc, flow |-> flows, hook |-> hook, at |-> at])
  /\ UNCHANGED <<flow, expanded, away, hook, confirm, subVars, rowVars,
                 uploads, flows, hooks, failures, leaves, saved, crossed, cut>>

\* The step "processing" shows Retry instead of the progress.
RetryShown == flow.step = "processing" /\ docStatus = "failed" /\ ~Busy("retry")

HandleRetry ==
  /\ RetryShown
  /\ docStatus' = "uploading" /\ behind' = TRUE
  /\ Starts("retry", "token")

\* The buttons of the step "metadata".
Idle == flow.step = "metadata" /\ ~Busy("regenerate") /\ ~Busy("save")

HandleRegenerate ==
  /\ Idle
  /\ Starts("regenerate", "token")
  /\ UNCHANGED <<docStatus, behind>>

HandleSave ==
  /\ Idle
  /\ Starts("save", "fetch")
  /\ UNCHANGED <<docStatus, behind>>

\* onUpdate, of the fields on the step "metadata".
EditMetadata ==
  /\ Usable /\ flow.step = "metadata" /\ ~flow.edited
  /\ flow' = [flow EXCEPT !.edited = TRUE]
  /\ UNCHANGED <<bar, expanded, hookVars, subVars, calls, rowVars, countVars, histVars>>

ForgetsDocument_bug(f) == [NewFlow("upload") EXCEPT !.doc = f.doc]
ForgetsDocument(f)     == NewFlow("upload")

HandleUploadAnother ==
  /\ Completed /\ flows < MaxFlows
  /\ flows' = flows + 1 /\ crossed' = FALSE
  /\ flow' = ForgetsDocument(flow)
  /\ bar' = "idle" /\ docStatus' = "null"
  /\ UNCHANGED hook /\ Rewatch
  /\ UNCHANGED <<expanded, away, confirm, calls, rowVars, uploads, hooks, started,
                 failures, leaves, saved, cut, behind>>
-----------------------------------------------------------------------------
(* What comes after an await.  Every one writes to the flow that is open.  *)

Unmoved == UNCHANGED <<expanded, away, hook, confirm, uploads, flows, hooks, started, leaves>>

FailureBar_bug == bar
FailureBar     == "error"

\* The backend retries and describes documents in these states only.
Retriable(d) == row[d] \in {"failed", "uploading"}
Refused(c) == \/ c.do = "retry" /\ c.at = "fetch" /\ ~Retriable(c.doc)
              \/ c.do = "regenerate" /\ c.at = "token" /\ row[c.doc] # "ocr_complete"

\* The catch branch of handler c.
Caught(c) ==
  /\ Fails(~Refused(c)) /\ Ended(c)
  /\ bar' = FailureBar
  /\ IF c.do \in {"upload", "retry"}
     THEN SetDocStatus(c, "failed") /\ behind' = TRUE
     ELSE UNCHANGED <<docStatus, behind>>
  /\ crossed' = (crossed \/ Crosses(c))
  /\ UNCHANGED <<flow, subVars, rowVars, saved, cut>> /\ Unmoved

\* The token is there, or there is none; a stream is refused before it begins.
TokenArrives(c, ok) ==
  /\ c \in calls /\ c.at = "token"
  /\ IF ok /\ ~Refused(c)
     THEN /\ Goes(c, IF c.do = "regenerate" THEN "stream" ELSE "fetch")
          /\ UNCHANGED <<storeVars, hookVars, subVars, rowVars, countVars, histVars>>
     ELSE Caught(c)

\* The backend accepts an upload or a retry: the row, and a task, also when another
\* one of the document has not begun.
Accepts(c) ==
  /\ c \in calls /\ c.at = "fetch" /\ c.do \in {"upload", "retry"}
  /\ ~Refused(c)
  /\ row' = [row EXCEPT ![c.doc] = "uploading"]
  /\ task' = [task EXCEPT ![c.doc].queued = @ + 1]
  /\ queue' = IF sub = c.doc /\ live
              THEN Append(queue, [status |-> "uploading", meta |-> described[c.doc]]) ELSE queue
  /\ Goes(c, "answered")
  /\ UNCHANGED <<storeVars, hookVars, sub, live, described, countVars, histVars>>

\* A request is refused, or its answer is lost.
RequestFails(c) ==
  /\ c \in calls
  /\ \/ c.at \in {"fetch", "answered"} /\ c.do \in {"upload", "retry"}
     \/ c.at = "stream"
     \/ c.at = "fetch" /\ c.do = "save"
  /\ Caught(c)

\* The answer to an upload, after which the render subscribes.
UploadAnswered(c) ==
  /\ c \in calls /\ c.do = "upload" /\ c.at = "answered"
  /\ flow' = updateFlowData(flow, [flow EXCEPT !.doc = c.doc])
  /\ SetDocStatus(c, "uploading")
  /\ hook' = hook /\ Ended(c) /\ Rewatch
  /\ behind' = TRUE /\ crossed' = (crossed \/ Crosses(c))
  /\ UNCHANGED <<bar, rowVars, failures, saved, cut>> /\ Unmoved

RetryAnswered(c) ==
  /\ c \in calls /\ c.do = "retry" /\ c.at = "answered"
  /\ SetDocStatus(c, "uploading")
  /\ Ended(c)
  /\ behind' = TRUE /\ crossed' = (crossed \/ Crosses(c))
  /\ UNCHANGED <<flow, bar, subVars, rowVars, failures, saved, cut>> /\ Unmoved

\* An event of the stream that names a tool, or an error of the agent.
StreamSpeaks(c) ==
  /\ c \in calls /\ c.at = "stream"
  /\ bar' \in {"processing", "error"} \ {bar}
  /\ crossed' = (crossed \/ Crosses(c))
  /\ UNCHANGED <<flow, docStatus, subVars, calls, rowVars, failures, saved, cut, behind>> /\ Unmoved

\* Its end, up to the await of the query for the new metadata.
StreamEnds(c, saves) ==
  /\ c \in calls /\ c.at = "stream"
  /\ described' = [described EXCEPT ![c.doc] = @ \/ saves]
  /\ Goes(c, "fetch")
  /\ queue' = IF saves /\ sub = c.doc /\ live
              THEN Append(queue, [status |-> row[c.doc], meta |-> TRUE]) ELSE queue
  /\ UNCHANGED <<storeVars, hookVars, sub, live, row, task, countVars, histVars>>

\* Without an answer the flow keeps what it shows.
Regenerated(c, found) ==
  /\ c \in calls /\ c.do = "regenerate" /\ c.at = "fetch"
  /\ Fails(~found)
  /\ flow' = IF found
             THEN updateFlowData(flow, [flow EXCEPT !.name = c.doc, !.meta = c.doc, !.edited = FALSE])
             ELSE flow
  /\ bar' = "idle"
  /\ Ended(c)
  /\ crossed' = (crossed \/ Crosses(c))
  /\ UNCHANGED <<docStatus, subVars, rowVars, saved, cut, behind>> /\ Unmoved

\* The update of the row on behalf of a save.
SavesRow(c) ==
  /\ c \in calls /\ c.do = "save" /\ c.at = "fetch"
  /\ saved' = saved \cup {c.doc}
  /\ described' = [described EXCEPT ![c.doc] = TRUE]
  /\ queue' = IF sub = c.doc /\ live
              THEN Append(queue, [status |-> row[c.doc], meta |-> TRUE]) ELSE queue
  /\ Goes(c, "answered")
  /\ UNCHANGED <<storeVars, hookVars, sub, live, row, task, countVars, crossed, cut, behind>>

\* Its answer.  With a stack chosen an insert follows, whose error is only logged.
SaveAnswered(c, stack) ==
  /\ c \in calls /\ c.do = "save"
  /\ IF stack THEN c.at = "answered" ELSE c.at \in {"answered", "insert"}
  /\ IF stack
     THEN /\ Goes(c, "insert")
          /\ UNCHANGED <<flow, bar, subVars, crossed>>
     ELSE /\ Ended(c)
          /\ flow' = setStep(flow, "complete") /\ bar' = "complete"
          /\ hook' = hook /\ Rewatch
          /\ crossed' = (crossed \/ Crosses(c))
  /\ UNCHANGED <<docStatus, rowVars, failures, saved, cut, behind>> /\ Unmoved
-----------------------------------------------------------------------------
(* The channel                                                             *)

\* The channel has its token and is subscribed.  There is no fetch of the row.
Subscribes ==
  /\ sub # 0 /\ ~live
  /\ live' = TRUE /\ behind' = TRUE
  /\ UNCHANGED <<storeVars, hookVars, sub, queue, calls, rowVars, countVars, saved, crossed, cut>>

\* handleRealtimeUpdate: the step and the bar after an update.
StepAfter_bug(update) == flow.step
StepAfter(update) == IF update.status = "ocr_complete" /\ update.meta THEN "metadata" ELSE flow.step

BarAfter(update) ==
  CASE update.status = "failed"                       -> "error"
    [] update.status = "ocr_complete" /\ update.meta  -> "idle"
    [] OTHER                                          -> "processing"

StatusAfter_bug(update) == IF update.status = "failed" THEN docStatus ELSE update.status
StatusAfter(update)     == update.status

HandleRealtimeUpdate ==
  /\ sub # 0 /\ queue # <<>>
  /\ LET update == Head(queue) IN
     /\ docStatus' = StatusAfter(update)
     /\ flow' = IF update.status = "ocr_complete" /\ update.meta
                THEN [flow EXCEPT !.name = sub, !.meta = sub, !.edited = FALSE, !.step = StepAfter(update)]
                ELSE flow
     /\ bar' = BarAfter(update)
  /\ sub' = Watched(flow', hook)
  /\ IF sub' = sub THEN queue' = Tail(queue) /\ live' = live ELSE queue' = <<>> /\ live' = FALSE
  /\ behind' = FALSE
  /\ UNCHANGED <<calls, rowVars, failures, saved, crossed, cut>> /\ Unmoved
-----------------------------------------------------------------------------
(* The backend's tasks, and the updates of the row they cause              *)

\* Supabase tells who is subscribed by now.
Tells(d) == queue' = IF sub = d /\ live
                     THEN Append(queue, [status |-> row'[d], meta |-> described'[d]]) ELSE queue

TaskStep(d, t, s, meta) ==
  /\ task' = [task EXCEPT ![d] = t]
  /\ row' = [row EXCEPT ![d] = s]
  /\ described' = [described EXCEPT ![d] = @ \/ meta]
  /\ Tells(d)
  /\ UNCHANGED <<storeVars, hookVars, sub, live, calls, uploads, flows, hooks, started, leaves, histVars>>

BeginsOcr(d) ==
  /\ task[d].queued > 0
  /\ TaskStep(d, [task[d] EXCEPT !.queued = @ - 1, !.ocr = @ + 1], "processing", FALSE)
  /\ Fails(FALSE)

\* A task fails before or after it saves the text; a second one fails at its save.
HasText(d) == task[d].agent # "none"
EndsOcr(d) ==
  LET t == [task[d] EXCEPT !.ocr = @ - 1] IN
  /\ task[d].ocr > 0
  /\ \/ ~HasText(d) /\ TaskStep(d, [t EXCEPT !.agent = "runs"], "ocr_complete", FALSE) /\ Fails(FALSE)
     \/ ~HasText(d) /\ TaskStep(d, [t EXCEPT !.agent = "ended"], "failed", FALSE) /\ Fails(TRUE)
     \/ TaskStep(d, t, "failed", FALSE) /\ Fails(~HasText(d))

\* The charge, between the status and the agent, raises.
ChargeFails(d) ==
  /\ task[d].agent = "runs"
  /\ TaskStep(d, [task[d] EXCEPT !.agent = "ended"], "failed", FALSE) /\ Fails(TRUE)

AgentSaves(d) ==
  /\ task[d].agent = "runs"
  /\ TaskStep(d, [task[d] EXCEPT !.agent = "saved"], row[d], TRUE) /\ Fails(FALSE)
SavesAgain(d) ==
  /\ task[d].agent = "saved" /\ Len(queue) < MaxUpdates
  /\ TaskStep(d, task[d], row[d], TRUE) /\ Fails(FALSE)

\* The end of the agent updates nothing, and one that saved nothing failed.
AgentEnds(d) ==
  /\ task[d].agent \in {"runs", "saved"}
  /\ task' = [task EXCEPT ![d].agent = "ended"]
  /\ Fails(task[d].agent = "runs")
  /\ UNCHANGED <<storeVars, hookVars, subVars, calls, row, described, uploads, flows, hooks,
                 started, leaves, histVars>>
-----------------------------------------------------------------------------
User == \/ \E k \in {"upload", "other"} : OpenFlow(k)
        \/ RequestClose \/ HandleDone \/ AnswerConfirm \/ \E b \in BOOLEAN : AskConfirm(b)
        \/ Toggle \/ ChangePage \/ Reload
        \/ HandleFileSelect \/ HandleRetry \/ HandleRegenerate \/ HandleSave
        \/ EditMetadata \/ HandleUploadAnother

Resumes(c) == \/ \E ok \in BOOLEAN : TokenArrives(c, ok)
              \/ Accepts(c) \/ RequestFails(c)
              \/ UploadAnswered(c) \/ RetryAnswered(c)
              \/ StreamSpeaks(c) \/ \E saves \in BOOLEAN : StreamEnds(c, saves)
              \/ \E found \in BOOLEAN : Regenerated(c, found)
              \/ SavesRow(c) \/ \E stack \in BOOLEAN : SaveAnswered(c, stack)

TaskSteps(d) == BeginsOcr(d) \/ EndsOcr(d) \/ ChargeFails(d) \/ AgentSaves(d) \/ AgentEnds(d)

Next == \/ User
        \/ \E c \in calls : Resumes(c)
        \/ Subscribes \/ HandleRealtimeUpdate
        \/ \E d \in Docs : TaskSteps(d) \/ SavesAgain(d)

Spec == Init /\ [][Next]_vars

\* Every call of the browser is answered or fails, the channel comes up and
\* delivers, and every task ends.  The user owes nothing.
Progress(c) == Resumes(c) /\ calls' # calls
FairSpec == /\ Spec
            /\ WF_vars(\E c \in calls : Progress(c))
            /\ WF_vars(Subscribes) /\ WF_vars(HandleRealtimeUpdate)
            /\ \A d \in Docs : WF_vars(TaskSteps(d))
-----------------------------------------------------------------------------
(* Safety                                                                  *)

\* A flow shows one document: the name, the tags and the summary on it are those
\* of the document it would save, and on the last step that one was saved, unless
\* a handler left over from an earlier flow wrote to it.
ShowsOneDocument ==
  flow.kind = "upload" /\ ~crossed =>
    /\ flow.doc # 0 => flow.name = flow.doc /\ flow.meta \in {0, flow.doc}
    /\ flow.doc = 0 => flow.meta = 0
    /\ flow.step = "metadata" => flow.doc # 0 /\ flow.meta = flow.doc
    /\ flow.step = "complete" => flow.doc \in saved

\* What the user edits is lost only with the flow, or to a regeneration: no
\* update of the row reaches the step "metadata".
EditsAreKept ==
  [][flow.edited /\ ~flow'.edited => flow'.kind # "upload" \/ flow'.step = "dropzone"
                                     \/ \E c \in calls : Regenerated(c, TRUE)]_vars

\* The page shows the status of the row once it has heard of it: after the last
\* update under way, or the last one handled.
StatusFollows ==
  sub # 0 /\ live =>
    IF queue = <<>> THEN behind \/ docStatus = row[sub] ELSE queue[Len(queue)].status = row[sub]

\* The bar spins on a step without a task only while a handler of the page runs,
\* or one was cut off by leaving the page.
SpinnerHasWork ==
  bar = "processing" /\ hook # 0 /\ flow.step # "processing" => calls # {} \/ cut

\* What the card says of the work that is going on is true.
ProgressIsTrue == StatusFollows /\ SpinnerHasWork

(* Liveness                                                                *)

\* The ways in which a flow waits for ever: its upload ended without a document
\* it could retry, the row's last update came before the subscription, or the
\* metadata agent saved nothing.
AtRest(d) == task[d].queued = 0 /\ task[d].ocr = 0 /\ task[d].agent \in {"none", "ended"}
Forsaken ==
  /\ calls = {}
  /\ \/ flow.doc = 0
     \/ flow.doc # 0 /\ AtRest(flow.doc) /\ queue = <<>> /\ live
        /\ (behind \/ ~described[flow.doc])

\* Otherwise it reaches the metadata or shows the failure.
ProcessingEnds ==
  (flow.step = "processing" /\ hook # 0)
    ~> (flow.step # "processing" \/ hook = 0 \/ docStatus = "failed" \/ Forsaken)
=============================================================================
