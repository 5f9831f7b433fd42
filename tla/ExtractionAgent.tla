--------------------------- MODULE ExtractionAgent ---------------------------
(***************************************************************************)
(* Extractions and corrections of one document whose text is there:        *)
(* backend/app/routes/agent.py, agents/extraction_agent with its tools and *)
(* the RPCs of migration 007, the rows they write, and the browser, which  *)
(* deletes fields and documents on its own.                                *)
(*                                                                         *)
(* As in DocumentPipeline, the backend is one event loop with a            *)
(* synchronous Supabase client: a coroutine holds the loop between two     *)
(* awaits, and a tool, which awaits nothing, holds it from end to end.     *)
(* The browser and a crash come between any two calls.                     *)
(*                                                                         *)
(* Extractions are numbered in the order of their requests, which is the   *)
(* order of created_at: the handler holds the loop up to its insert.  The  *)
(* number names the run, its row and its agent session.  Corrections are   *)
(* numbered after them.                                                    *)
(***************************************************************************)
EXTENDS Naturals

CONSTANTS Fields,         \* top-level keys of extracted_fields
          MaxRows,        \* bound: requests to /agent/extract
          MaxCorrections  \* bound: requests to /agent/correct

ASSUME ExtractionAssumption == MaxRows \in Nat /\ MaxCorrections \in Nat

Rows        == 1 .. MaxRows
Corrections == (MaxRows + 1) .. (MaxRows + MaxCorrections)
Runs        == Rows \cup Corrections

VARIABLES
  document,  \* documents.status: "completed", any other ("open"), or no row ("deleted")
  session,   \* documents.session_id; 0 is NULL
  status,    \* extractions.status of each row; "none" before the insert, "erased" after it
  fields,    \* the keys of extracted_fields of each row
  pc,        \* control point of the coroutine of each run
  resumed,   \* the session a correction resumes; 0 before it has read one
  target,    \* the row a correction edits; 0 before it has chosen one
  pageOpen, pageCopy,  \* the sub-bar of the document's page and its copy of the fields
  told,      \* history: extractions whose client was told they are complete, and correctable
  finished,  \* history: rows that were completed at some time
  edited     \* history: rows the browser wrote since a complete tool last read them

storeVars == <<document, session, status, fields>>
procVars  == <<pc, resumed, target>>
pageVars  == <<pageOpen, pageCopy>>
histVars  == <<told, finished, edited>>
vars == <<storeVars, procVars, pageVars, histVars>>

RowStatus == {"in_progress", "completed", "failed"}

\* Control points of a run.  It waits for the loop at "stream" and at the two
\* where the agent's client is being closed: with the last word said ("leaving"),
\* or on the way to the except branch ("failing").
HandlerPoints == {"inserting", "choosing"}
ToolPoints    == {"completing", "closing"}
EndPoints     == {"timing", "storing"}
WaitPoints    == {"stream", "leaving", "failing"}
Points == HandlerPoints \cup ToolPoints \cup EndPoints \cup WaitPoints \cup {"unused", "done"}

Outcomes == {"ok", "error", "lost"}

TypeOK ==
  /\ document \in {"open", "completed", "deleted"}
  /\ session \in Rows \cup {0}
  /\ status \in [Rows -> RowStatus \cup {"none", "erased"}]
  /\ fields \in [Rows -> SUBSET Fields]
  /\ pc \in [Runs -> Points]
  /\ resumed \in [Corrections -> Rows \cup {0}]
  /\ target \in [Corrections -> Rows \cup {0}]
  /\ pageOpen \in BOOLEAN
  /\ pageCopy \in SUBSET Fields
  /\ told \in SUBSET Rows /\ finished \in SUBSET Rows /\ edited \in SUBSET Rows
-----------------------------------------------------------------------------
Init ==
  /\ document = "open"
  /\ session = 0
  /\ status = [r \in Rows |-> "none"]
  /\ fields = [r \in Rows |-> {}]
  /\ pc = [a \in Runs |-> "unused"]
  /\ resumed = [c \in Corrections |-> 0]
  /\ target = [c \in Corrections |-> 0]
  /\ pageOpen = FALSE
  /\ pageCopy = {}
  /\ told = {} /\ finished = {} /\ edited = {}

\* Variants, named *_bug, are what a plausible mistake would make of the
\* definition that follows them; no specification uses them.

\* An await between the read of complete and its first write.
HoldsLoop_bug == HandlerPoints \cup {"closing"} \cup EndPoints

HoldsLoop == HandlerPoints \cup ToolPoints \cup EndPoints

LoopFree == \A a \in Runs : pc[a] \notin HoldsLoop

\* A call to Supabase ends in one of Outcomes; "lost" takes effect and raises.
Applied(out) == out # "error"

RowExists(r) == status[r] \in RowStatus

\* UPDATE extractions ... WHERE id = r: no row, no effect, no error.
SetStatus(r, s) == [status EXCEPT ![r] = IF RowExists(r) THEN s ELSE @]
SetFields(r, S) == [fields EXCEPT ![r] = IF RowExists(r) THEN S ELSE @]

\* The row the tools of run a are scoped to.
Target(a) == IF a \in Rows THEN a ELSE target[a]

Goto(a, point) == pc' = [pc EXCEPT ![a] = point]

\* ORDER BY created_at DESC LIMIT 1, and the same with the order forgotten.
IsLatest_bug(r) == RowExists(r) /\ \A q \in Rows : RowExists(q) => r <= q
IsLatest(r)     == RowExists(r) /\ \A q \in Rows : RowExists(q) => q <= r
-----------------------------------------------------------------------------
(* POST /agent/extract                                                     *)

\* The checks of the handler.  A refused request changes nothing.
RequestExtract(r) ==
  /\ LoopFree
  /\ pc[r] = "unused"
  /\ \A q \in Rows : q < r => pc[q] # "unused"
  /\ document # "deleted"
  /\ Goto(r, "inserting")
  /\ UNCHANGED <<storeVars, resumed, target, pageVars, histVars>>

\* The document's own status word; the CHECK of migration 006 has it not.
NewRowStatus_bug == "processing"
NewRowStatus     == "in_progress"

\* The foreign key refuses a row of a deleted document; without it:
Insertable_bug == TRUE
Insertable     == document # "deleted"

\* The insert before the stream.  If it raises the request ends in a 500, and
\* a row whose reply was lost has nobody to work on it.
InsertRow(r, out) ==
  /\ pc[r] = "inserting"
  /\ status' = IF Insertable /\ Applied(out) THEN [status EXCEPT ![r] = NewRowStatus]
                                             ELSE status
  /\ Goto(r, IF Insertable /\ out = "ok" THEN "stream" ELSE "done")
  /\ UNCHANGED <<document, session, fields, resumed, target, pageVars, histVars>>
-----------------------------------------------------------------------------
(* POST /agent/correct                                                     *)

\* The first query: a document with a session.  A refused request changes nothing.
RequestCorrect(c) ==
  /\ LoopFree
  /\ pc[c] = "unused"
  /\ document # "deleted"
  /\ session # 0
  /\ resumed' = [resumed EXCEPT ![c] = session]
  /\ Goto(c, "choosing")
  /\ UNCHANGED <<storeVars, target, pageVars, histVars>>

\* The second query: the latest extraction of the document.
ChooseRow(c) ==
  /\ pc[c] = "choosing"
  /\ \/ \E r \in Rows : /\ IsLatest(r)
                        /\ target' = [target EXCEPT ![c] = r]
                        /\ Goto(c, "stream")
     \/ /\ \A r \in Rows : ~RowExists(r)
        /\ Goto(c, "done")
        /\ UNCHANGED target
  /\ UNCHANGED <<storeVars, resumed, pageVars, histVars>>
-----------------------------------------------------------------------------
(* The tools, which the agent calls as it likes while its stream runs.  A  *)
(* call that fails or is refused changes nothing, and the agent goes on.   *)

Streaming(a) == pc[a] = "stream" /\ LoopFree

\* save_extraction: replaces the fields and reopens the row.
SaveExtraction(a, S) ==
  /\ Streaming(a)
  /\ S # {}
  /\ fields' = SetFields(Target(a), S)
  /\ status' = SetStatus(Target(a), "in_progress")
  /\ UNCHANGED <<document, session, procVars, pageVars, histVars>>

\* set_field and delete_field; a path below the top level changes no key.
SetField(a, f) ==
  /\ Streaming(a)
  /\ fields' = SetFields(Target(a), fields[Target(a)] \cup {f})
  /\ UNCHANGED <<document, session, status, procVars, pageVars, histVars>>

DeleteField(a, f) ==
  /\ Streaming(a)
  /\ fields' = SetFields(Target(a), fields[Target(a)] \ {f})
  /\ UNCHANGED <<document, session, status, procVars, pageVars, histVars>>

\* complete, in three calls: it reads the row, and refuses one without fields.
ReadFields(a) ==
  /\ Streaming(a)
  /\ RowExists(Target(a))
  /\ fields[Target(a)] # {}
  /\ Goto(a, "completing")
  /\ edited' = edited \ {Target(a)}
  /\ UNCHANGED <<storeVars, resumed, target, pageVars, told, finished>>

\* It completes the row; a call that raises ends the tool, and the agent goes on.
\* The variant goes on to the document whatever became of the call.
CompleteRow_bug(a, out) ==
  /\ pc[a] = "completing"
  /\ status' = IF Applied(out) THEN SetStatus(Target(a), "completed") ELSE status
  /\ finished' = IF Applied(out) /\ RowExists(Target(a)) THEN finished \cup {Target(a)}
                                                         ELSE finished
  /\ Goto(a, "closing")
  /\ UNCHANGED <<document, session, fields, resumed, target, pageVars, told, edited>>

CompleteRow(a, out) ==
  /\ pc[a] = "completing"
  /\ status' = IF Applied(out) THEN SetStatus(Target(a), "completed") ELSE status
  /\ finished' = IF Applied(out) /\ RowExists(Target(a)) THEN finished \cup {Target(a)}
                                                         ELSE finished
  /\ Goto(a, IF out = "ok" THEN "closing" ELSE "stream")
  /\ UNCHANGED <<document, session, fields, resumed, target, pageVars, told, edited>>

\* It completes the document.
CompleteDocument(a, out) ==
  /\ pc[a] = "closing"
  /\ document' = IF Applied(out) /\ document # "deleted" THEN "completed" ELSE document
  /\ Goto(a, "stream")
  /\ UNCHANGED <<session, status, fields, resumed, target, pageVars, histVars>>
-----------------------------------------------------------------------------
(* The end of a stream                                                     *)

\* The agent's messages are over, whatever it did.  A correction reports it; an
\* extraction has two more writes to do.
StreamEnds(a) ==
  /\ Streaming(a)
  /\ Goto(a, IF a \in Rows THEN "timing" ELSE "leaving")
  /\ UNCHANGED <<storeVars, resumed, target, pageVars, histVars>>

\* processing_time_ms; then the session, if the agent named one.
WriteTime(r, out) ==
  /\ pc[r] = "timing"
  /\ \/ out = "ok" /\ Goto(r, "storing")
     \/ Goto(r, "leaving")
  /\ UNCHANGED <<storeVars, resumed, target, pageVars, histVars>>

\* The session goes to the document; then the client is told.  The variant
\* tells it whatever became of the call.
StoreSession_bug(r, out) ==
  /\ pc[r] = "storing"
  /\ session' = IF Applied(out) /\ document # "deleted" THEN r ELSE session
  /\ told' = told \cup {r}
  /\ Goto(r, "leaving")
  /\ UNCHANGED <<document, status, fields, resumed, target, pageVars, finished, edited>>

StoreSession(r, out) ==
  /\ pc[r] = "storing"
  /\ session' = IF Applied(out) /\ document # "deleted" THEN r ELSE session
  /\ told' = IF out = "ok" THEN told \cup {r} ELSE told
  /\ Goto(r, "leaving")
  /\ UNCHANGED <<document, status, fields, resumed, target, pageVars, finished, edited>>

\* The agent's stream raises; or its client does when the generator leaves it,
\* which it does inside the try, after the last word.
StreamRaises(a) ==
  /\ Streaming(a) \/ (pc[a] = "leaving" /\ LoopFree)
  /\ Goto(a, "failing")
  /\ UNCHANGED <<storeVars, resumed, target, pageVars, histVars>>

StreamCloses(a) ==
  /\ pc[a] = "leaving" /\ LoopFree
  /\ Goto(a, "done")
  /\ UNCHANGED <<storeVars, resumed, target, pageVars, histVars>>

\* The except branches: that of an extraction marks the row, that of a
\* correction does not; and the same with one copied to the other.
MarksRow_bug(a) == TRUE
MarksRow(a)     == a \in Rows

\* The except branch; when its update raises, the route reports in its place.
ReportFailure(a, out) ==
  /\ pc[a] = "failing" /\ LoopFree
  /\ MarksRow(a) \/ out = "ok"
  /\ status' = IF MarksRow(a) /\ Applied(out) THEN SetStatus(Target(a), "failed") ELSE status
  /\ Goto(a, "done")
  /\ UNCHANGED <<document, session, fields, resumed, target, pageVars, histVars>>

\* The browser goes away: the generator is cancelled, past its except branch.
Disconnect(a) ==
  /\ LoopFree
  /\ \/ pc[a] = "stream" /\ Goto(a, "leaving")
     \/ pc[a] = "failing" /\ Goto(a, "done")
  /\ UNCHANGED <<storeVars, resumed, target, pageVars, histVars>>
-----------------------------------------------------------------------------
(* The browser, the OCR tasks and a restart                                *)

\* The page of the document is rendered on the server, with the latest row.
RenderPage(r) ==
  /\ IsLatest(r)
  /\ pageOpen' = TRUE
  /\ pageCopy' = fields[r]
  /\ UNCHANGED <<storeVars, procVars, histVars>>

\* bulk-delete-fields-dialog: the copy without the chosen fields goes to every
\* row.  The user chooses from a table that follows the rows in real time.
Displayed == pageCopy \cup UNION {fields[r] : r \in Rows}

DeleteFields(S) ==
  /\ pageOpen
  /\ S # {}
  /\ fields' = [r \in Rows |-> IF RowExists(r) THEN pageCopy \ S ELSE fields[r]]
  /\ edited' = edited \cup {r \in Rows : RowExists(r)}
  /\ UNCHANGED <<document, session, status, procVars, pageVars, told, finished>>

\* delete-dialog: the row of the document, and with it those of its extractions.
DeleteDocument ==
  /\ document # "deleted"
  /\ document' = "deleted"
  /\ session' = 0
  /\ status' = [r \in Rows |-> IF RowExists(r) THEN "erased" ELSE status[r]]
  /\ UNCHANGED <<fields, procVars, pageVars, histVars>>

\* A late OCR task writes its own status over "completed" (DocumentPipeline).
TaskWrites ==
  /\ LoopFree
  /\ document = "completed"
  /\ document' = "open"
  /\ UNCHANGED <<session, status, fields, procVars, pageVars, histVars>>

\* The backend restarts: every coroutine is gone, and nothing resumes one.
Crash ==
  /\ pc' = [a \in Runs |-> IF pc[a] = "unused" THEN "unused" ELSE "done"]
  /\ UNCHANGED <<storeVars, resumed, target, pageVars, histVars>>
-----------------------------------------------------------------------------
ExtractStep(r) == \/ RequestExtract(r)
                  \/ \E out \in Outcomes : \/ InsertRow(r, out)
                                           \/ WriteTime(r, out)
                                           \/ StoreSession(r, out)

CorrectStep(c) == RequestCorrect(c) \/ ChooseRow(c)

AgentStep(a) == \/ \E S \in SUBSET Fields : SaveExtraction(a, S)
                \/ \E f \in Fields : SetField(a, f) \/ DeleteField(a, f)
                \/ ReadFields(a)
                \/ \E out \in Outcomes : \/ CompleteRow(a, out)
                                         \/ CompleteDocument(a, out)
                                         \/ ReportFailure(a, out)
                \/ StreamEnds(a)
                \/ StreamRaises(a)
                \/ StreamCloses(a)
                \/ Disconnect(a)

BrowserStep == \/ \E r \in Rows : RenderPage(r)
               \/ \E S \in SUBSET Displayed : DeleteFields(S)
               \/ DeleteDocument

Next == \/ \E r \in Rows : ExtractStep(r)
        \/ \E c \in Corrections : CorrectStep(c)
        \/ \E a \in Runs : AgentStep(a)
        \/ BrowserStep
        \/ TaskWrites
        \/ Crash

Spec == Init /\ [][Next]_vars
-----------------------------------------------------------------------------
(* Properties                                                              *)

\* A document is completed only after one of its extractions was: complete
\* writes the row first, and a failed write never reaches the document
\* (tools/complete.py).
CompletedAfterARow == document = "completed" => finished # {}

\* A deleted document leaves no extraction behind, not even one whose request
\* had already found the document when the browser deleted it (routes/agent.py).
DeletedLeavesNoRows == document = "deleted" => \A r \in Rows : ~RowExists(r)

\* Who was told that an extraction is complete, with its session, can correct
\* it: /agent/correct finds a session and a row, as long as the document is there.
CompleteIsCorrectable ==
  told # {} /\ document # "deleted"
     => session # 0 /\ \E r \in Rows : RowExists(r)

\* The session a correction resumes and the row it edits come from two queries
\* with two orders: the extraction that ended last and the one requested last
\* (routes/agent.py).  When extractions overlap they differ, but the session is
\* never the newer one: no agent is sent back to a row it knows a successor of.
SessionNotNewer ==
  \A c \in Corrections : target[c] # 0 => resumed[c] <= target[c]

\* A row is completed on fields: complete checks and writes in two calls, and
\* between them no other agent can empty the row; only the browser can.
CompletedOnFields ==
  [][\A r \in Rows : (status[r] # "completed" /\ status'[r] = "completed")
                        => fields[r] # {} \/ r \in edited]_vars

\* A row is failed only by its own extraction, on its way through the except
\* branch: a correction that breaks off, a tool that raises and a write at the
\* end that fails leave it as it is (extraction_agent/agent.py).
FailedByItsOwnRun ==
  [][\A r \in Rows : (status[r] # "failed" /\ status'[r] = "failed")
                        => pc[r] = "failing"]_vars

\* What the dialog says: deleting fields removes the chosen ones from the
\* extracted data, and nothing else.
DeletesOnlyChosen ==
  [][\A S \in SUBSET Displayed : DeleteFields(S)
        => \A r \in Rows : fields[r] \ S \subseteq fields'[r]]_vars
=============================================================================
