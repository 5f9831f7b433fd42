-------------------------- MODULE DocumentPipeline --------------------------
(***************************************************************************)
(* The upload / OCR / metadata pipeline of one user's documents:           *)
(* backend/app/routes/document.py with services/usage.py, storage.py and   *)
(* ocr.py, the rows they write in Supabase, and the delete dialogs of the  *)
(* frontend, which write the same rows directly.                           *)
(*                                                                         *)
(* The backend is one uvicorn worker (Dockerfile:51) whose Supabase client *)
(* is synchronous: a coroutine gives the event loop away only at a real    *)
(* await (the upload's file.read, the OCR call in its thread, the agent's  *)
(* stream).  A coroutine between two such points holds the loop, and no    *)
(* other coroutine runs (LoopFree).  The browser's writes, the calendar    *)
(* and a crash wait for nobody: they come between any two calls.           *)
(*                                                                         *)
(* A call to Supabase succeeds ("ok"), fails without effect ("error"), or  *)
(* takes effect and loses its reply ("lost"); the last two raise in the    *)
(* caller.                                                                 *)
(***************************************************************************)
EXTENDS Naturals

CONSTANTS Docs,        \* the documents that may be uploaded (their UUIDs)
          Slots,       \* bound: coroutines one document may ever be given
          Limit,       \* users.documents_limit
          MaxFaults,   \* bound: calls to Supabase that raise
          MaxCrashes,  \* bound: restarts of the backend
          MaxMonths    \* bound: ends of a month

ASSUME PipelineAssumption == /\ Slots # {}
                             /\ Limit \in Nat
                             /\ MaxFaults \in Nat
                             /\ MaxCrashes \in Nat
                             /\ MaxMonths \in Nat

VARIABLES
  status,    \* documents.status; "none" before the insert, "deleted" after a delete
  file,      \* the object in the storage bucket
  ocr,       \* the row of ocr_results; "erased" by the cascade of a delete
  meta,      \* display_name, tags and summary were written
  upload,    \* control point of the POST /document/upload request of d
  pc,        \* control point of the coroutine in slot k of d
  seen,      \* the count increment_usage has read, before it writes it back
  usage,     \* users.documents_processed_this_month
  resetDue,  \* now >= users.usage_reset_date
  faults, crashes, months,   \* the bounded events so far
  billed,    \* history: completed writes of increment_usage for d
  charges,   \* history: completed writes of increment_usage since the last reset
  stranded,  \* history: documents whose coroutine died, or whose report was lost
  mislaid    \* history: rows whose object another document's dialog removed

storeVars == <<status, file, ocr, meta>>
procVars  == <<upload, pc, seen>>
quotaVars == <<usage, resetDue>>
eventVars == <<faults, crashes, months>>
histVars  == <<billed, charges, stranded, mislaid>>
vars == <<storeVars, procVars, quotaVars, eventVars, histVars>>

InFlightStatus == {"uploading", "processing"}
ReadyStatus    == {"ocr_complete", "completed"}
RowStatus      == InFlightStatus \cup ReadyStatus \cup {"failed"}

\* Control points of _run_ocr_background; the coroutine waits for the loop at
\* "queued", "ocr" and "metadata" and holds it at the others.
OcrPoints    == {"queued", "ocr", "save", "mark", "read_usage", "write_usage", "failing"}
TaskPoints   == OcrPoints \cup {"unused", "metadata", "done"}
UploadPoints == {"idle", "reading", "inserting", "cleanup", "acked", "refused"}

Outcomes == {"ok", "error", "lost"}

TypeOK ==
  /\ status \in [Docs -> RowStatus \cup {"none", "deleted"}]
  /\ file \in [Docs -> BOOLEAN]
  /\ ocr \in [Docs -> {"none", "saved", "erased"}]
  /\ meta \in [Docs -> BOOLEAN]
  /\ upload \in [Docs -> UploadPoints]
  /\ pc \in [Docs -> [Slots -> TaskPoints]]
  /\ seen \in [Docs -> [Slots -> Nat]]
  /\ usage \in Nat
  /\ resetDue \in BOOLEAN
  /\ faults \in Nat /\ crashes \in Nat /\ months \in Nat
  /\ billed \in [Docs -> Nat]
  /\ charges \in Nat
  /\ stranded \in SUBSET Docs
  /\ mislaid \in SUBSET Docs
-----------------------------------------------------------------------------
Init ==
  /\ status = [d \in Docs |-> "none"]
  /\ file = [d \in Docs |-> FALSE]
  /\ ocr = [d \in Docs |-> "none"]
  /\ meta = [d \in Docs |-> FALSE]
  /\ upload = [d \in Docs |-> "idle"]
  /\ pc = [d \in Docs |-> [k \in Slots |-> "unused"]]
  /\ seen = [d \in Docs |-> [k \in Slots |-> 0]]
  /\ usage = 0
  /\ resetDue = FALSE
  /\ faults = 0 /\ crashes = 0 /\ months = 0
  /\ billed = [d \in Docs |-> 0]
  /\ charges = 0
  /\ stranded = {}
  /\ mislaid = {}

Exists(d) == status[d] \in RowStatus

\* Variants, named *_bug, are what a plausible mistake would make of the
\* definition that follows them; no specification uses them.

\* An await between the read and the write of increment_usage.
HoldsLoop_async_bug == {"save", "mark", "read_usage", "failing"}

\* The OCR call waited for on the event loop, not in a thread.
HoldsLoop_sync_bug == {"ocr", "save", "mark", "read_usage", "write_usage", "failing"}

HoldsLoop   == {"save", "mark", "read_usage", "write_usage", "failing"}
UploadHolds == {"inserting", "cleanup"}

LoopFree == \A d \in Docs : /\ upload[d] \notin UploadHolds
                            /\ \A k \in Slots : pc[d][k] \notin HoldsLoop

\* A call to Supabase ends in outcome out.
Call(out) == /\ out = "ok" \/ faults < MaxFaults
             /\ faults' = IF out = "ok" THEN faults ELSE faults + 1

Applied(out) == out # "error"

Goto(d, k, point) == pc' = [pc EXCEPT ![d][k] = point]

\* UPDATE documents SET status = s WHERE id = d: no row, no effect, no error.
SetStatus(d, s) == [status EXCEPT ![d] = IF Exists(d) THEN s ELSE @]
-----------------------------------------------------------------------------
(* POST /document/upload                                                   *)

\* check_usage_limit, up to the await of file.read.  A refused request (403)
\* changes nothing.
RequestUpload(d) ==
  /\ upload[d] = "idle" /\ LoopFree
  /\ \/ /\ resetDue
        /\ \E out \in Outcomes :
             /\ Call(out)
             /\ resetDue' = ~Applied(out)
             /\ usage' = IF Applied(out) THEN 0 ELSE usage
             /\ charges' = IF Applied(out) THEN 0 ELSE charges
             /\ upload' = [upload EXCEPT ![d] = IF out = "ok" THEN "reading" ELSE "idle"]
     \/ /\ ~resetDue /\ usage < Limit
        /\ upload' = [upload EXCEPT ![d] = "reading"]
        /\ UNCHANGED <<quotaVars, faults, charges>>
  /\ UNCHANGED <<storeVars, pc, seen, crashes, months, billed, stranded, mislaid>>

\* upload_document after file.read: validate, then write the object.
StoreFile(d) ==
  /\ upload[d] = "reading" /\ LoopFree
  /\ \/ \E out \in Outcomes :
          /\ Call(out)
          /\ file' = [file EXCEPT ![d] = Applied(out)]
          /\ upload' = [upload EXCEPT ![d] = IF out = "ok" THEN "inserting" ELSE "refused"]
     \/ /\ upload' = [upload EXCEPT ![d] = "refused"]
        /\ UNCHANGED <<file, faults>>
  /\ UNCHANGED <<status, ocr, meta, pc, seen, quotaVars, crashes, months, histVars>>

\* The status of a new row, and a word no reader of the row knows.
NewRowStatus_bug == "pending"
NewRowStatus     == "uploading"

\* Insert the row and queue the background task.
InsertRow(d, k) ==
  /\ upload[d] = "inserting" /\ pc[d][k] = "unused"
  /\ \E out \in Outcomes :
       /\ Call(out)
       /\ status' = IF Applied(out) THEN [status EXCEPT ![d] = NewRowStatus] ELSE status
       /\ upload' = [upload EXCEPT ![d] = IF out = "ok" THEN "acked" ELSE "cleanup"]
       /\ IF out = "ok" THEN Goto(d, k, "queued") ELSE UNCHANGED pc
       /\ stranded' = IF out = "lost" THEN stranded \cup {d} ELSE stranded
  /\ UNCHANGED <<file, ocr, meta, seen, quotaVars, crashes, months, billed, charges, mislaid>>

\* The except branch: best-effort removal of the object, then a 500.
CleanUp(d) ==
  /\ upload[d] = "cleanup"
  /\ \E out \in Outcomes :
       /\ Call(out)
       /\ file' = [file EXCEPT ![d] = @ /\ ~Applied(out)]
  /\ upload' = [upload EXCEPT ![d] = "refused"]
  /\ UNCHANGED <<status, ocr, meta, pc, seen, quotaVars, crashes, months, histVars>>
-----------------------------------------------------------------------------
(* _run_ocr_background                                                     *)

\* Status to 'processing', then the signed URL, which needs the object.
BeginOcr(d, k) ==
  /\ pc[d][k] = "queued" /\ LoopFree
  /\ \E out \in Outcomes :
       /\ Call(out)
       /\ status' = IF Applied(out) THEN SetStatus(d, "processing") ELSE status
       /\ Goto(d, k, IF out = "ok" /\ file[d] THEN "ocr" ELSE "failing")
  /\ UNCHANGED <<file, ocr, meta, upload, seen, quotaVars, crashes, months, histVars>>

\* The answer is published without being saved.
FinishOcr_bug(d, k) ==
  /\ pc[d][k] = "ocr" /\ LoopFree
  /\ \E point \in {"mark", "failing"} : Goto(d, k, point)
  /\ UNCHANGED <<storeVars, upload, seen, quotaVars, eventVars, histVars>>

\* The OCR thread answers: a text, or an error (no pages, no text, the API).
FinishOcr(d, k) ==
  /\ pc[d][k] = "ocr" /\ LoopFree
  /\ \E point \in {"save", "failing"} : Goto(d, k, point)
  /\ UNCHANGED <<storeVars, upload, seen, quotaVars, eventVars, histVars>>

\* ocr_results.upsert names no conflict column, so it only merges on the
\* primary key, which is new each time: a second row for the document breaks
\* UNIQUE(document_id), a row for a deleted document breaks its foreign key.
Savable_bug(d) == Exists(d)  \* upsert on document_id
Savable(d) == Exists(d) /\ ocr[d] = "none"

SaveOcr(d, k) ==
  /\ pc[d][k] = "save"
  /\ \/ /\ Savable(d)
        /\ \E out \in Outcomes :
             /\ Call(out)
             /\ ocr' = IF Applied(out) THEN [ocr EXCEPT ![d] = "saved"] ELSE ocr
             /\ Goto(d, k, IF out = "ok" THEN "mark" ELSE "failing")
     \/ /\ ~Savable(d)
        /\ Goto(d, k, "failing")
        /\ UNCHANGED <<ocr, faults>>
  /\ UNCHANGED <<status, file, meta, upload, seen, quotaVars, crashes, months, histVars>>

MarkReady(d, k) ==
  /\ pc[d][k] = "mark"
  /\ \E out \in Outcomes :
       /\ Call(out)
       /\ status' = IF Applied(out) THEN SetStatus(d, "ocr_complete") ELSE status
       /\ Goto(d, k, IF out = "ok" THEN "read_usage" ELSE "failing")
  /\ UNCHANGED <<file, ocr, meta, upload, seen, quotaVars, crashes, months, histVars>>

\* increment_usage reads the counter, then writes it back plus one.
ReadUsage(d, k) ==
  /\ pc[d][k] = "read_usage"
  /\ \/ /\ seen' = [seen EXCEPT ![d][k] = usage]
        /\ Goto(d, k, "write_usage")
        /\ UNCHANGED faults
     \/ /\ Call("error")
        /\ Goto(d, k, "failing")
        /\ UNCHANGED seen
  /\ UNCHANGED <<storeVars, upload, quotaVars, crashes, months, histVars>>

WriteUsage(d, k) ==
  /\ pc[d][k] = "write_usage"
  /\ \E out \in Outcomes :
       /\ Call(out)
       /\ IF Applied(out)
          THEN /\ usage' = seen[d][k] + 1
               /\ billed' = [billed EXCEPT ![d] = @ + 1]
               /\ charges' = charges + 1
          ELSE UNCHANGED <<usage, billed, charges>>
       /\ Goto(d, k, IF out = "ok" THEN "metadata" ELSE "failing")
  /\ seen' = [seen EXCEPT ![d][k] = 0]
  /\ UNCHANGED <<storeVars, upload, resetDue, crashes, months, stranded, mislaid>>

\* The except branch only logs.
MarkFailed_bug(d, k) ==
  /\ pc[d][k] = "failing"
  /\ Goto(d, k, "done")
  /\ UNCHANGED <<storeVars, upload, seen, quotaVars, eventVars, histVars>>

\* The except branch; a failure in it leaves the task with nothing reported.
MarkFailed(d, k) ==
  /\ pc[d][k] = "failing"
  /\ \E out \in Outcomes :
       /\ Call(out)
       /\ status' = IF Applied(out) THEN SetStatus(d, "failed") ELSE status
       /\ stranded' = IF Applied(out) THEN stranded ELSE stranded \cup {d}
  /\ Goto(d, k, "done")
  /\ UNCHANGED <<file, ocr, meta, upload, seen, quotaVars, crashes, months, billed, charges, mislaid>>

\* The metadata agent: its save_metadata tool, any number of times, and the
\* end of its stream (complete or error: both leave the document as it is).
AgentSaves(d, k) ==
  /\ pc[d][k] = "metadata" /\ LoopFree /\ Exists(d)
  /\ meta' = [meta EXCEPT ![d] = TRUE]
  /\ UNCHANGED <<status, file, ocr, procVars, quotaVars, eventVars, histVars>>

AgentEnds(d, k) ==
  /\ pc[d][k] = "metadata" /\ LoopFree
  /\ Goto(d, k, "done")
  /\ UNCHANGED <<storeVars, upload, seen, quotaVars, eventVars, histVars>>
-----------------------------------------------------------------------------
(* The other requests                                                      *)

\* POST /document/retry-ocr accepts these statuses.
Retryable_bug == {"failed", "uploading", "ocr_complete"}
Retryable == {"failed", "uploading"}

RetryOcr(d, k) ==
  /\ Exists(d) /\ status[d] \in Retryable
  /\ LoopFree /\ pc[d][k] = "unused"
  /\ \E out \in Outcomes :
       /\ Call(out)
       /\ status' = IF Applied(out) THEN SetStatus(d, "uploading") ELSE status
       /\ IF out = "ok" THEN Goto(d, k, "queued") ELSE UNCHANGED pc
       /\ stranded' = IF out = "lost" THEN stranded \cup {d}
                      ELSE IF out = "ok" THEN stranded \ {d} ELSE stranded
  /\ UNCHANGED <<file, ocr, meta, upload, seen, quotaVars, crashes, months, billed, charges, mislaid>>

\* POST /document/metadata, up to the start of the agent.
RequestMetadata(d, k) ==
  /\ status[d] \in ReadyStatus /\ ocr[d] = "saved"
  /\ LoopFree /\ pc[d][k] = "unused"
  /\ Goto(d, k, "metadata")
  /\ UNCHANGED <<storeVars, upload, seen, quotaVars, eventVars, histVars>>

\* The last write of an extraction's complete tool; an extraction starts only
\* on a document with OCR text, whatever its status.
CompleteExtraction(d) ==
  /\ Exists(d) /\ ocr[d] = "saved" /\ LoopFree
  /\ status' = SetStatus(d, "completed")
  /\ UNCHANGED <<file, ocr, meta, procVars, quotaVars, eventVars, histVars>>

\* The delete dialogs: the row first (its ocr_results row goes with it) ...
DeleteRow(d) ==
  /\ Exists(d)
  /\ status' = [status EXCEPT ![d] = "deleted"]
  /\ ocr' = [ocr EXCEPT ![d] = IF @ = "saved" THEN "erased" ELSE @]
  /\ meta' = [meta EXCEPT ![d] = FALSE]
  /\ mislaid' = mislaid \ {d}
  /\ UNCHANGED <<file, procVars, quotaVars, eventVars, billed, charges, stranded>>

\* The object before the row.
DeleteFile_bug(d, e) ==
  /\ Exists(d) /\ file[d] /\ d = e
  /\ file' = [file EXCEPT ![d] = FALSE]
  /\ UNCHANGED <<status, ocr, meta, procVars, quotaVars, eventVars, histVars>>

\* ... then the object, if the browser gets that far.  The dialog has deleted
\* the row of its documentId e (or matched none: it was gone) and removes the
\* object of its filePath, a listed document's: its own, or the one selected
\* before e when e was deleted on its own page (DocumentPreview has the steps).
DeleteFile(d, e) ==
  /\ status[e] = "deleted" /\ status[d] # "none" /\ file[d]
  /\ file' = [file EXCEPT ![d] = FALSE]
  /\ mislaid' = IF Exists(d) THEN mislaid \cup {d} ELSE mislaid
  /\ UNCHANGED <<status, ocr, meta, procVars, quotaVars, eventVars, billed, charges, stranded>>
-----------------------------------------------------------------------------
(* The environment                                                         *)

\* A restart loses every request and every background task.
Crash ==
  /\ crashes < MaxCrashes
  /\ crashes' = crashes + 1
  /\ upload' = [d \in Docs |->
                  IF upload[d] \in UploadHolds \cup {"reading"} THEN "refused" ELSE upload[d]]
  /\ pc' = [d \in Docs |-> [k \in Slots |-> IF pc[d][k] = "unused" THEN "unused" ELSE "done"]]
  /\ seen' = [d \in Docs |-> [k \in Slots |-> 0]]
  /\ stranded' = stranded \cup {d \in Docs : status[d] \in InFlightStatus}
  /\ UNCHANGED <<storeVars, quotaVars, faults, months, billed, charges, mislaid>>

MonthEnds ==
  /\ ~resetDue /\ months < MaxMonths
  /\ months' = months + 1
  /\ resetDue' = TRUE
  /\ UNCHANGED <<storeVars, procVars, usage, faults, crashes, histVars>>
-----------------------------------------------------------------------------
\* The steps of one background task, in the order of the code.
TaskStep(d, k) ==
  \/ BeginOcr(d, k)
  \/ FinishOcr(d, k)
  \/ SaveOcr(d, k)
  \/ MarkReady(d, k)
  \/ ReadUsage(d, k)
  \/ WriteUsage(d, k)
  \/ MarkFailed(d, k)
  \/ AgentEnds(d, k)

UploadStep(d) ==
  \/ StoreFile(d)
  \/ \E k \in Slots : InsertRow(d, k)
  \/ CleanUp(d)

Next ==
  \/ \E d \in Docs : \/ RequestUpload(d)
                     \/ UploadStep(d)
                     \/ CompleteExtraction(d)
                     \/ DeleteRow(d)
                     \/ \E e \in Docs : DeleteFile(d, e)
                     \/ \E k \in Slots : \/ TaskStep(d, k)
                                         \/ AgentSaves(d, k)
                                         \/ RetryOcr(d, k)
                                         \/ RequestMetadata(d, k)
  \/ Crash
  \/ MonthEnds

Spec == Init /\ [][Next]_vars

\* The event loop runs every coroutine that can run. That the OCR and agent
\* calls answer or raise is assumed of those services (the code sets no
\* timeout); users, faults and crashes owe nothing.
Fairness == \A d \in Docs : /\ WF_vars(UploadStep(d))
                            /\ \A k \in Slots : WF_vars(TaskStep(d, k))

FairSpec == Spec /\ Fairness
-----------------------------------------------------------------------------
(* Safety                                                                  *)

\* A document is charged to the quota at most once, however often its OCR is
\* retried, whatever fails and whenever the backend restarts (the "billable
\* event" of _run_ocr_background).
BilledAtMostOnce == \A d \in Docs : billed[d] <= 1

\* The counter is the number of charges since the last reset: no increment is
\* lost to another one, and none brings back a counter that was reset between
\* the read and the write of increment_usage.
UsageCountsCharges == usage = charges

\* What is shown as ready, described by metadata, or charged has its text: a
\* status of ReadyStatus and metadata need the row of ocr_results, a charge
\* needs that it was written.
ReadyHasText ==
  \A d \in Docs : /\ status[d] \in ReadyStatus \/ meta[d] => ocr[d] = "saved"
                  /\ billed[d] > 0 => ocr[d] # "none"

\* A background task that will still write a final status of d.
Reporting(d) == \E k \in Slots : pc[d][k] \in OcrPoints \ {"read_usage", "write_usage"}

\* 'uploading' and 'processing' promise progress to the frontend that watches
\* the row.  Only a crash, or a lost report, leaves a document there alone.
InFlightIsServed ==
  \A d \in Docs : status[d] \in InFlightStatus => Reporting(d) \/ d \in stranded

\* A document whose upload was acknowledged keeps its object as long as its
\* row: no cleanup, retry or restart takes it, and a dialog removes the object
\* after the row of the same document.  Excepted (mislaid) is a dialog that
\* holds another document's path.
AckedRowHasFile ==
  \A d \in Docs : upload[d] = "acked" /\ Exists(d) => file[d] \/ d \in mislaid

\* A document that reached 'ocr_complete' or 'completed' goes back to another
\* status only through a task that was already running: no request, fault or
\* restart takes it back by itself.
ReadyIsOnlyLostToATask ==
  [][\A d \in Docs :
       status[d] \in ReadyStatus /\ status'[d] \in RowStatus \ ReadyStatus
         => \E k \in Slots : pc[d][k] \in OcrPoints /\ pc'[d][k] # pc[d][k]]_vars

\* The pipeline implements the ledger.
Ledger == INSTANCE OcrLedger WITH text    <- ocr,
                                  charged <- {d \in Docs : billed[d] > 0},
                                  count   <- usage

PipelineImplementsLedger == Ledger!Spec
-----------------------------------------------------------------------------
(* The inductive invariant behind the safety properties                    *)

\* One coroutine holds the event loop at a time.
OneHolder ==
  \A d \in Docs, j \in Slots : pc[d][j] \in HoldsLoop =>
    \A e \in Docs : /\ upload[e] \notin UploadHolds
                    /\ \A k \in Slots : pc[e][k] \in HoldsLoop => e = d /\ k = j

\* A request that has not reached its insert has no row, and the text of a
\* document lives and dies with its row.
RowsAndText ==
  \A d \in Docs : /\ upload[d] \in {"idle", "reading", "inserting"} => status[d] = "none"
                  /\ upload[d] = "inserting" => file[d]
                  /\ ocr[d] = "saved" => Exists(d)
                  /\ ocr[d] = "erased" => status[d] = "deleted"

\* What a task between its save and its charge may rely on.
TaskFacts ==
  \A d \in Docs, k \in Slots :
    /\ pc[d][k] \in {"mark", "read_usage", "write_usage"} => ocr[d] # "none" /\ billed[d] = 0
    /\ pc[d][k] = "metadata" => ocr[d] # "none"
    /\ pc[d][k] = "write_usage" => seen[d][k] = usage

IInv == /\ TypeOK
        /\ OneHolder
        /\ RowsAndText
        /\ TaskFacts
        /\ BilledAtMostOnce
        /\ UsageCountsCharges
        /\ ReadyHasText
        /\ InFlightIsServed
        /\ AckedRowHasFile
-----------------------------------------------------------------------------
(* Liveness                                                                *)

\* An in-flight document leaves 'uploading' and 'processing', unless its task
\* died with a restart or could not report: no task waits for another one, or holds
\* the event loop while it waits for a service.
InFlightEnds ==
  \A d \in Docs : status[d] \in InFlightStatus
                    ~> status[d] \notin InFlightStatus \/ d \in stranded
-----------------------------------------------------------------------------
(* What the documents of the repository say and the code does not do       *)

\* "Uses upsert for idempotency - one OCR result per document"
\* (docs/archive/sessions/DEV-NOTES.md:1363): the text of an existing document
\* is saved unless the database fails, also when it is saved again.
OcrResultIsSaved ==
  [][\A d \in Docs, k \in Slots :
       pc[d][k] = "save" /\ pc'[d][k] = "failing" /\ Exists(d) => faults' > faults]_vars
=============================================================================
