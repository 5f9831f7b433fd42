# Stackdocs, specified in TLA+

Stackdocs takes a user's documents, reads them with OCR, describes them with a
metadata agent, and extracts fields from them with a second agent that the user
corrects in a chat. A FastAPI backend (`backend/app`) does the work, a Next.js
frontend (`frontend`) shows it, and Supabase (Postgres, storage, realtime) holds
the state. The backend writes that state in many small calls; the frontend
writes some of it directly and follows the rest by subscription. What is hard is
everything between two of those calls.

This directory models the parts where that matters, checks the models with TLC
on small instances and proves the main results with TLAPS for every instance.

## 1. Inventory

| part | state | operations | what is hard | module |
|---|---|---|---|---|
| Document routes, `routes/document.py` | `documents.status`, `ocr_results`, the object in the bucket | upload, background OCR, retry, metadata | each is a chain of calls any of which may fail or lose its reply; tasks die with the process; retries overlap tasks | `DocumentPipeline` |
| Usage, `services/usage.py` | `users.documents_processed_this_month`, `usage_reset_date` | check, increment, reset | read-modify-write in two calls; check and increment lie minutes apart; the month ends in between | `DocumentPipeline`, `OcrLedger` |
| Storage and OCR services | the bucket | upload, sign, remove; one remote call | partial failure; a long call that must not hold the event loop | `DocumentPipeline` |
| Metadata agent, `agents/document_processor_agent` | `display_name`, `tags`, `summary` | `save_metadata`, a stream | runs beside the user's edits and beside a second agent | `DocumentPipeline`, `UploadFlow` |
| Extraction agent, `routes/agent.py`, `agents/extraction_agent` | `extractions`, `documents.session_id` | extract, correct, six tools | streams outlive their clients; "latest" means two things; rows stay `in_progress` | `ExtractionAgent` |
| WebSocket manager and chat page, `lib/websocket.ts`, `test-chat/page.tsx` | socket, status, timer, back-off; cards, chat | connect, authenticate, reconnect, messages | late events of an old socket; an await in the middle; messages lost with a socket | `ChatConnection` |
| Upload flow, `use-upload-flow.ts`, `agent-store.ts`, `use-document-realtime.ts` | the flow in a persisted store | select, retry, regenerate, save | updates before the subscription; answers for a closed flow | `UploadFlow` |
| Agent streams, `use-agent-stream.ts`, `agent-api.ts` | events, status | submit, reset, parse | overlapping streams; chunk boundaries | `AgentStream`, `EventFeed` |
| Preview and selection, `documents-table.tsx`, `selected-document-context.tsx`, `preview-panel/` | selected document, cached URL and fields, page number | select, fetch, cancel, turn | stale fetches; two pages that write one context | `DocumentPreview` |
| Tables and stacks, `documents-table.tsx`, `stack-documents-tab.tsx`, `selection-actions.tsx` | filters, selected indices, `stack_documents` | filter, tick, delete many, add to a stack | indices into data that changes; three calls for many rows | `DocumentTables` |
| Table of fields, `document-detail-client.tsx`, `extracted-data-table.tsx` | the page's copy, highlights, selected fields | realtime update, render, tick, delete | two renderings of one row; a selection that outlives rows | `FieldTable` |
| Deletes, `delete-dialog.tsx`, `bulk-delete-dialog.tsx` | rows, objects | row then object | partial failure; running tasks | `DocumentPipeline`, `DocumentTables`, `DocumentPreview` |
| Users, `webhooks/clerk/route.ts` | `users` | created, updated, deleted | lost, duplicated, reordered events | none, see 12 |

How they meet: the frontend calls the backend over HTTP (uploads, retries) and
server-sent events (agents); the backend's tasks and agents write Supabase; the
browser writes Supabase too (saving metadata, deleting, stack membership); and
Supabase tells the browser about changed rows. There is no queue and no lock: a
background task is a coroutine of the one uvicorn worker, and the database's
unique and foreign keys are the only arbiters. In the browser handlers run one
at a time, and what they share is a store, three React contexts and the rows
they follow.

What makes each part correct, in a line: an in-flight status has someone working
on it; a ready document has its text; a charge is made once and counted; a
correction edits the extraction its session made; one live socket; the flow
shows the document it uploaded; an event is shown once; the preview shows the
selected document; what is deleted is what was ticked. `PROJECT.json` lists the
hazards one by one, at their lines, with the properties that cover them.

## 2. Plan

The modules, in the order of what depends on them.

| module | composes or refines | runs | proved |
|---|---|---|---|
| `DocumentPipeline` | implements `OcrLedger` | `pipeline_safety`, `pipeline_liveness`, one violation | all safety, the refinement |
| `ExtractionAgent` | takes a pipeline's late task as one step | `extraction_safety`, one violation | all |
| `ChatConnection` | page, managers, sockets and a bridge in one module | `chat` | all safety |
| `UploadFlow` | store, hook, channel, and the pipeline as the row shows it | `upload` | all safety |
| `AgentStream` | implements `EventFeed` | `stream` | all safety, the refinement |
| `DocumentTables` | tables, bar, dialogs, database and bucket | `tables` | all |
| `DocumentPreview` | two pages, context, panel, the single delete with rows and objects | `preview`, one violation | all safety |
| `FieldTable` | page, table, context, bar, dialog | `fields` | all |

A component's theorems are in the module `<component>Proofs`, its instance for
TLC in `MC<component>`. One run asks one component its questions; the
pipeline has a second one, since its liveness needs other bounds. Three more runs
show a disagreement between the code and what the repository says about it; the
other disagreements met while modelling are told in words, beside the property
whose exception they are. `Picking` has the one operation on lists that two components
share: what `filter` leaves of one. What is left to do: the paths of nested
fields that `set_field` takes (a pure function, to be checked against a
reference over bounded inputs).

## 3. The document pipeline

### `DocumentPipeline.tla`

One user's documents. The state is the rows and the object of each document
(`status`, `file`, `ocr`, `meta`), the user's counter (`usage`, `resetDue`), the
control point of each request and coroutine (`upload`, `pc`, with `seen` for
the local variable of `increment_usage`), and history variables the properties
need (`billed`, `charges`, `stranded`, `mislaid`).

| action | code |
|---|---|
| `RequestUpload` | `check_usage_limit` and `reset_usage`, up to the await of `file.read` |
| `StoreFile` | `upload_document` after that await: validation, the object |
| `InsertRow`, `CleanUp` | the rest of `upload_and_ocr`: the row and `add_task`, or the except branch |
| `BeginOcr` | `_run_ocr_background` up to the OCR thread: status, signed URL |
| `FinishOcr` | the thread answers or raises |
| `SaveOcr`, `MarkReady`, `ReadUsage`, `WriteUsage` | the upsert, the status, the two calls of `increment_usage` |
| `MarkFailed` | the except branch |
| `AgentSaves`, `AgentEnds` | `_run_metadata_background`, or the stream of `/document/metadata` |
| `RetryOcr`, `RequestMetadata` | the two other routes |
| `CompleteExtraction` | the `complete` tool's write to `documents` |
| `DeleteRow`, `DeleteFile` | the delete dialog of the browser, in its order: the row of its `documentId`, the object of its `filePath`, which on the list can be another document's (section 9) |
| `Crash`, `MonthEnds` | a restart of the backend (each deploy), the calendar |

*Interleaving.* The backend runs `--workers 1` and its Supabase client is
synchronous, so a coroutine gives the loop away only at a real await: reading
the uploaded file, the OCR thread, the agent's stream. Between two of them it
holds the loop (`HoldsLoop`, `UploadHolds`) and steps that start or resume
another coroutine wait for `LoopFree`. Each call to Supabase is still a step of
its own, because the browser's writes, the end of a month and a crash respect
no event loop and come between any two calls.

*Failure.* A call ends in one of `Outcomes`: it succeeds, it fails, or it takes
effect and its reply is lost; the last two raise. OCR may raise, validation may
refuse, the agent may end without saving.

*Left out.* Contents (which text, which tags, the file's size), the checks of
ownership (one user), read calls that fail (the handler changes nothing then;
`ReadUsage`, where it matters, keeps the failure), and `get_usage_stats` and
`download_document`, which only read. The metadata agent's failures all look the
same to the document. The `complete` tool is one step here; `ExtractionAgent`
has its calls.

### `OcrLedger.tla`

What the pipeline promises about text and billing with tasks, statuses, retries
and crashes taken away: text is written once and then only erased, a document is
charged at most once and only for a text that was written, the counter moves by
one charge at a time or to zero. The refinement maps `text` to `ocr`, `charged`
to the documents with a completed charge, `count` to `usage`.

### Properties

- `TypeOK`.
- `BilledAtMostOnce`: however OCR is retried, a document is charged once. It
  holds because the second save fails on the unique key before it gets to the
  counter.
- `UsageCountsCharges`: the counter equals the charges since its reset. It holds
  only because nothing awaits between the read and the write.
- `ReadyHasText`: what is shown as ready, described or charged has its text.
- `InFlightIsServed`: `uploading` and `processing` have a task that will still
  report, unless the process died or the report was lost (`stranded`).
- `AckedRowHasFile`: the object of an acknowledged upload stays as long as its
  row, whatever fails, retries or restarts. The one exception (`mislaid`) is the
  dialog that holds another document's path; run `preview_delete` shows it. A
  row whose insert lost its reply is not acknowledged: its cleanup removes the
  object and the row stays, `uploading` and `stranded`.
- `ReadyIsOnlyLostToATask`: only a task already running takes a ready document
  back to `processing` or `failed`.
- `PipelineImplementsLedger`: the refinement.
- `InFlightEnds`: liveness. A task that held the event loop while it waits for OCR
  would break it.

### Runs

| run | configuration | shows |
|---|---|---|
| `pipeline_safety` | `MCDocumentPipeline.cfg`: 2 documents, 2 tasks each, quota 1, one failing call, one restart, one end of month; symmetry in documents and tasks | every safety property and the refinement (about 1.3 million states) |
| `pipeline_liveness` | `MCPipelineLiveness.cfg`: 1 document, 3 tasks, two failing calls, one restart; no symmetry | the liveness property |
| `pipeline_retry` | `PipelineRetry.cfg` | `OcrResultIsSaved` fails: see below |

*Bounds.* `Slots` bounds the tasks of a document (the first OCR, a retry, a
metadata request share them), `MaxFaults`, `MaxCrashes` and `MaxMonths` the
events nobody controls. Two documents and a quota of one are what an overrun
needs; two tasks of one document are what an overlap needs; one fault with each
outcome at each call, and a crash, cover every except branch and its
combination with a restart. The liveness run has a second fault, so that the
report of a failure can fail, and a third task, so that a retry can follow a
retry. The safety results do not depend on these bounds: they are proved.
Deadlock is not checked, because the system does stop: with every document
deleted and every bound used up there is nothing left to do.

*Fairness.* `FairSpec` has weak fairness of each request's and each task's own
steps, and of nothing else: the event loop runs every coroutine that is ready.
That a call to Mistral, the agent SDK or Supabase answers or raises in the end
is an assumption about those services: the code sets no timeout of its own, so a
call that hangs would hold its task for ever. Users, faults, crashes,
`save_metadata` and the second half of a delete owe nothing. Weak fairness is
enough although a task waits for the loop (`LoopFree` comes and goes): requests
are finite in number, so from some point on only the tasks run.

### What the code does not do

- `OcrResultIsSaved`. The notes say the OCR result "uses upsert for idempotency"
  and the architecture sends a failed document to `/document/retry-ocr`. The
  upsert names no conflict column, so it merges on a primary key that is new
  each time and the second write breaks `UNIQUE(document_id)`. A document whose
  task failed after the save (the status update or the usage increment) can be
  retried for ever and never leaves `failed`.
- The product says uploads are blocked at the limit (`docs/specs/PRD.md:148`).
  The check is made when the upload arrives, the counter moves after OCR, and
  uploads that overlap pass together: in `pipeline_safety`, with a limit of one,
  both documents are charged. No property speaks of the limit, and no run is
  made of this.

## 4. Extractions and corrections

### `ExtractionAgent.tla`

One document whose text is there, its extractions and the corrections of them.
The state is the document's status and session (`document`, `session`), the rows
(`status`, and of `fields` the keys), the control point of each run (`pc`), what
a correction read before its stream (`resumed`, `target`), the copy of the
fields a rendered page holds (`pageOpen`, `pageCopy`), and history (`told`,
`finished`, `edited`). An extraction, its row and its agent session share one
number, the order of the requests; it is the order of `created_at`, since the
handler holds the loop up to its insert.

| action | code |
|---|---|
| `RequestExtract`, `InsertRow` | `/agent/extract`: the checks, then the row before the stream |
| `RequestCorrect`, `ChooseRow` | `/agent/correct`: the query for the session, the query for the latest row |
| `SaveExtraction`, `SetField`, `DeleteField` | the tools of those names, with the RPCs of migration 007 |
| `ReadFields`, `CompleteRow`, `CompleteDocument` | the three calls of the `complete` tool |
| `StreamEnds`, `WriteTime`, `StoreSession` | the "complete" message and what the route does with it |
| `StreamRaises`, `StreamCloses`, `ReportFailure` | the exit of `async with` and the except branches |
| `Disconnect` | the client goes away and the generator is cancelled |
| `RenderPage`, `DeleteFields` | the document page and its bulk delete of fields |
| `DeleteDocument` | the delete dialog, with the cascade to the rows |
| `TaskWrites`, `Crash` | an OCR task of `DocumentPipeline` that is late; a restart |

*Interleaving.* As in the pipeline: handlers and tools await nothing and hold
the loop (`HoldsLoop`), runs wait for it at `WaitPoints`. The agent may call any
tool at any moment of its stream, in any order, or none; several runs may work
on one row, since a correction edits the latest one. The browser and a crash
come between any two calls.

*Failure.* There is no bound on failures: every writing call may fail or lose
its reply, every stream may raise (its client, too, when it is closed after the
last message) or be cancelled, and the backend may restart at any time.

*Left out.* Values, confidence scores, nested paths and `processing_time_ms`,
which no property tells apart, prompts, and the checks of ownership.

### Properties

- `TypeOK`, with the statuses the CHECK constraint of migration 006 allows.
- `CompletedAfterARow`: a completed document had a completed extraction,
  whatever call of `complete` failed.
- `DeletedLeavesNoRows`: no request and no agent under way leaves a row of a
  deleted document.
- `CompleteIsCorrectable`: who was told "complete" finds a session and a row.
- `SessionNotNewer`: the session a correction resumes is not newer than the row
  it edits, although the two come from two queries with two orders.
- `CompletedOnFields`: between the check of `complete` and its write only the
  browser can empty the row.
- `FailedByItsOwnRun`: no correction, tool, or failing write at the end of a
  stream fails a row, only the except branch of its own extraction.

### Runs

| run | configuration | shows |
|---|---|---|
| `extraction_safety` | `MCExtractionAgent.cfg`: 2 extractions, 1 correction, 1 field | every property above (about 1.4 million states) |
| `extraction_field_delete` | `ExtractionFieldDelete.cfg`: 1 extraction, 2 fields | `DeletesOnlyChosen` fails: see below |

*Bounds.* `MaxRows` and `MaxCorrections` bound the requests. Two extractions are
what an overlap and a "latest" that is not the last to end need; with the
correction, two runs meet on one row. The properties ask only whether a row has
fields, so one field will do; losing a field that was not chosen needs two. All
of the properties are also proved without the bounds. There is no liveness here
and no fairness: nothing in the code promises that a row leaves `in_progress`.
Deadlock is not checked, since all requests may be over.

### What the code does not do

- `DeletesOnlyChosen`. The dialog says it removes the selected fields. It writes
  the copy the page was rendered with, less those fields, to every extraction of
  the document: fields the agent saved since are gone, and older extractions
  are overwritten.

The model shows some more behaviours that contradict no statement of the
repository, and so have no run. The route reports "complete" when the stream
ends even if the agent never called `complete`, and the row stays `in_progress`;
so does the row of a client that went away. `save_extraction` reopens a
completed row while the document stays completed. When extractions overlap, the
session and the row of a correction can be of different runs. A client that
fails when closed marks a row failed after "complete" was sent.
`extractions.session_id` is never written.

## 5. The chat connection

### `ChatConnection.tla`

The chat page with its WebSocket managers. Managers and sockets are numbered
objects, in the order of their creation: a manager the page has dropped keeps
its callbacks and its token request, and its events arrive like any others. The
state is the page's (`current`, `shown`, `cards`, `bubble`), each manager's
fields (`status`, `intentional`, `ws`, `timer`, `backoff`), each socket
(`socket`, `owner`, `inbox`) and, for the other end, what the bridge has said
(`stage`) and what the agent has drawn and received (`canvas`, `missions`,
`turn`).

| action | code |
|---|---|
| `HandleConnect`, `HandleDisconnect`, `Unmount` | the buttons and the cleanup of the page, with `destroy` and `connect` |
| `HandleSend`, `HandleCardClose` | the composer with `send`, the cross on a card |
| `Opened`, `TokenArrives`, `NoToken`, `TokenRejects` | `onopen` up to the await in `authenticate`, and its rest: a token, null, or a promise that rejects and that nothing catches |
| `Closed`, `Drops` | `onclose`, with `scheduleReconnect` |
| `TimerFires` | the timer's `connect` |
| `Receive` | `onmessage`: `isProtocolMessage`, `handleSystemMessage`, the page's `onMessage` and `handleCanvasUpdate` |
| `Bridge...`, `AgentDraws`, `AgentTalks` | the other end, which is not in the repository |

*Interleaving and failure.* JavaScript runs one handler at a time, so a handler
is an action and `authenticate`, with its await, two. Between two of them a
socket may close or drop, the bridge may say anything its protocol allows,
complain or send garbage, the token may fail to come, and the user may press any
button that is there. What is under way to a socket that closes is lost, and so
is what the agent says while no socket is ready.

*Left out.* Texts, the layout of the grid, the blocks of a card, the
milliseconds of the back-off (its doubling and cap are there). The page's list
of cards is kept as the number of cards of each id (`cards`): their order is
layout, but two cards of one id would be a mistake of the handler. A command
that slipped through without its `card_id` would draw a card of `NoCard`.

### Properties and run

- `OneWayToBridge`: a live socket is the one the page's manager holds, and that
  manager always has either a socket or a timer.
- `ConnectedIsReady`: the page offers to send only over a socket whose bridge
  has announced the sprite.
- `CanvasTracksAgent`: when everything under way has arrived the page shows the
  agent's cards, each once, but for those whose command was lost with a socket.
- `OneTurnPerBubble`: text of one turn never lands in the bubble of another.
- `ComesBack`: a connection that is down comes back by itself, unless its token
  was rejected: nothing in the browser closes that socket then, and the page
  stays at `authenticating` until the bridge does (`Unauthenticated`).

`chat` (`MCChatConnection.cfg`): two clicks on Connect, one fault, one card, two
missions, two messages under way; about 0.2 million states. Two managers are
what a late event of an old one needs, one fault opens the third socket (the
reconnect), the back-off starts one doubling below its cap, so that the fault
reaches it, two missions are what a text in the wrong bubble needs, and an inbox
of two lets a command be overtaken by a close. The safety properties are proved
without these bounds. *Fairness*: weak for what the
browser owes (events, timers) and for Clerk's answer, with or without a token;
strong for the bridge's announcements, because a fault may take a socket away
between any two of them and the bridge is bound to announce on a socket that
stays. `MaxFaults` bounds the faults, so "comes back" means after the last one.
Deadlock is not checked: a page that was left is the end.

## 6. The upload flow

### `UploadFlow.tla`

The hook with its handlers, the persisted store, the card with its confirmation,
and the channel of the document's row. Uploads are numbered and name the
documents they make. A handler that waits is a record in `calls` (`do`, `doc`,
the `flow` and `hook` it was started from, and where it waits); what follows its
await writes to whichever flow is open by then, and to local state only while
its own hook is rendered. Each action includes the render that follows it:
`Render` is the mounting of the hook, `Rewatch` the effect that subscribes.

| action | code |
|---|---|
| `OpenFlow`, `RequestClose`, `AnswerConfirm`, `HandleDone`, `Toggle` | the store's actions behind the card, the sidebar and the dialog |
| `ChangePage`, `Reload` | the card leaves the screen; the store is restored from what it persists |
| `HandleFileSelect`, `HandleRetry`, `HandleRegenerate`, `HandleSave`, `HandleUploadAnother`, `EditMetadata` | the hook's handlers up to their first await |
| `TokenArrives`, `Accepts`, `RequestFails`, `UploadAnswered`, `RetryAnswered` | upload and retry after each of theirs |
| `StreamSpeaks`, `StreamEnds`, `Regenerated` | the metadata stream and the query after it, which may find no document |
| `SavesRow`, `SaveAnswered` | the update of the row, and the insert into a stack |
| `Subscribes`, `HandleRealtimeUpdate` | the channel |
| `BeginsOcr`, `EndsOcr`, `ChargeFails`, `AgentSaves`, `SavesAgain`, `AgentEnds` | what the backend's tasks do to the row (`DocumentPipeline` has the rest) |

*Interleaving and failure.* Any handler may wait while the user closes the flow,
opens another, leaves the page or reloads, and while the backend and the channel
go on. Every call may fail or lose its answer, tokens may not come, tasks may
fail. A channel delivers nothing from before its subscription and nothing makes
up for it. A retry is accepted while a task of the document is still queued or
running, so a document has any number of OCR tasks (`task`); its text is saved
once, so one of them at most starts the agent, which may save more than once,
and the stream of a regeneration saves beside it. The backend refuses a retry or
a regeneration by the row's status (`Refused`).

*Left out.* The contents of metadata, progress texts, file checks, the flows
that are stubs (`other` stands for them: they replace the upload).

### Properties and run

- `ShowsOneDocument`: name, tags and summary are those of the document that
  would be saved, unless a handler of an earlier flow wrote here (`crossed`).
  The exception is the code's: an answer is written to the flow that is open.
- `ProgressIsTrue`: the status shown is the row's once the channel has told it
  (nobody tells it what was written before, `behind`), and the bar spins on a
  later step only while something runs.
- `EditsAreKept`: an edit is lost with the flow or to a regeneration only. That a
  regeneration overwrites is what the user asked for with it.
- `ProcessingEnds`: the step "processing" ends in metadata or a failure, except
  in the named ways in which it waits for ever (`Forsaken`): the last update
  came before the subscription, the agent saved nothing, or the upload failed
  without a document to retry. All three are what the code does, below.

`upload` (`MCUploadFlow.cfg`): two uploads in two flows, one further call (a
retry, a regeneration or a save), one failure, one change of page or reload;
about 0.4 million states. Two flows with an upload each are what a crossed answer
needs; one further call is what a retry beside the first task, or a regeneration
beside the agent, needs. With one flow the call, the failure and the change of
page are explored together, with the second one open any two of them
(`FewDisturbances` of `MCUploadFlow`, a constraint: TLC's liveness check is what
it keeps in reach, and the three are counters, so what it cuts off is only
behaviours with all three). `MaxUpdates` bounds the updates under way when an
agent saves once more. The safety properties are proved without these bounds.
*Fairness*: weak for answers to
calls (each is answered or fails: browsers give up on a request), for the
channel's subscription and delivery, and for tasks. `StreamSpeaks` is left out
of it, so a stream cannot speak for ever instead of ending. Users owe nothing.
Deadlock is not checked: a user may be done.

### What the code does not do

Each of these is in the model, and is what an exception of a property above
stands for.

- The plans say that after a failed description the user can ask for another with
  the Regenerate button (`phase-2.1-metadata-trigger.md:58`). That button is in
  the step `metadata`, which only an update with metadata opens: the card stays
  at "Generating metadata..." (`Forsaken`).
- The plans say that a document with its metadata takes the card to the next step
  (`phase-3-upload-flow.md:385`). The card is told of updates made after its
  channel is up, and reads nothing else: a fast task is missed (`behind`).
- The dialog asks "Cancel upload?" and offers "Discard & Close". Closing resets
  the store; the request and its handler go on, and the answer is written to
  whichever flow is open then (`crossed`).

## 7. Agent streams

### `AgentStream.tla`, `EventFeed.tla`

The hook of a correction and its reader, byte by byte where bytes matter: a
message is the two halves of its line and two newlines, so a chunk may end
inside a line, between the newlines, or after several messages. A submission
moves from `token` over `request` and `open` to `done` or `cut`. The hook has
one `ctrl` (`abortControllerRef`), read again after the token.

| action | code |
|---|---|
| `Submit`, `Reset`, `Unmount` | the hook's `submit` and `reset`, its cleanup |
| `TokenArrives`, `Answered`, `Aborts`, `Breaks` | the awaits of the token and of `fetch`, the catch branch |
| `Reads`, `Done` | the loop over `read()`, the buffer and `processSSELine`, with `handleEvent` |
| `Sends`, `Closes` | the generator of `/agent/correct` |

`EventFeed` promises that a reader is shown a prefix of what was sent, in order
and once, and everything when the feed ends. The refinement maps `shown` to the
events given to `handleEvent`, per submission, and `state` to the submission's
stage.

### Properties and run

- `ShowsItsStream`: the hook shows the events of its last submission, "complete"
  only with a complete event, an error exactly when it has one. The exception
  (`exposed`) is the code's: `submit` does not abort the stream before it, and a
  reset cannot reach one whose controller was replaced. Then the lists do mix, so
  the property says nothing of overlapping streams.
- `StreamingEnds`: a submission does not stream for ever.
- `IsFeed`: the refinement.

`stream` (`MCAgentStream.cfg`): two submissions, up to two messages each; about
0.4 million states. Two messages in eight bytes, cut anywhere, have every
boundary the parser tells apart; two submissions are what an overlap needs. The
safety property and the refinement are proved without these bounds.
*Fairness*: weak for the reader and for the server of each submission: `token`
and `fetch` settle, and the route's generator always ends with "complete" or
"error". Deadlock is not checked: the hook may be gone.

*What the code does not do.* The comments of `reset` and of the cleanup say that
they abort any request in flight (`use-agent-stream.ts:24`, `:32`); after two
submissions they abort the second alone (`exposed`).

## 8. Tables of documents

### `DocumentTables.tla`

The list of documents and the documents of a stack: both are react-tables that
name a row by its index in the data they are given, and both feed the same bar.
The state is the database and bucket (`db`, `added`, and `missing`, the rows
whose object is gone), what the open
page was given (`documents`, `seen`, `refreshing`), the filters, the table's
`rowSelection`, the bar's dialog, and the handlers under way (`jobs`).

| action | code |
|---|---|
| `Open`, `Refreshed`, `ChangeTab` | navigation, the answer to `router.refresh()`, the tabs of a stack |
| `SetFilterValue`, `PickDate`, `ToggleStackFilter`, `ClearDateFilter`, `ClearStackFilter`, `ClearFilters`, `SetSearchFilter` | the filter menu, its pills, the search |
| `ToggleRow`, `ToggleAll` | the boxes |
| `OpenDialog`, `CloseDialog`, `ConfirmDelete`, `FetchPaths`, `DeleteRows`, `RemoveFiles` | the bulk delete, call by call |
| `AddToStack`, `UpsertPairs`, `ToggleStack` | adding the selection to a stack, the menu of one document |
| `ConfirmOne`, `DeleteRows`, `RemoveFiles`, `EndsOnList` | the delete of one document, on the list or on its page, with the document and the path its dialog was given |
| `Upload`, `DeletedElsewhere` | the backend's insert, another tab |

*Interleaving and failure.* Handlers run beside each other, beside refreshes,
changes of page and another tab's deletes. Each call succeeds, fails, or takes
effect and loses its reply. The date and stack filters change the data and with
it every index; the search hides rows only: the model keeps the two apart.

*Left out.* Sorting (it changes the order on screen and no index), the cache of
`use-stacks.ts`, the read-only tables of a stack's extracted rows.

### Properties and run

- `SelectsTicked`: what the bar counts and acts on are the documents on screen
  whose boxes were ticked, as long as no refresh or filter moved another
  document to a selected index (`shifted`).
- `RowHasFile`: however the deletes overlap and whatever fails, a row has its
  object, but for one case (`taken`): the delete of another document, which is
  gone already, with this one's path. `preview_delete` shows how a dialog comes
  to hold the two.

`tables` (`MCDocumentTables.cfg`): two documents of different ages, one stack, one
date range, two handlers; about 0.6 million states. Two documents are what a
shift needs; one in the range and found, one not, is what every filter needs. Any
filters are explored together while no handler runs, one at a time beside a
handler, and two deletes overlap, each between any two calls of the other, only
on the list or away from it, without filters, rows of stacks or a row that has
moved (`FewAtOnce` of
`MCDocumentTables`, a constraint: what a delete does to rows and objects once
it has started depends on none of these). The proofs cover any number of handlers without it. Deadlock is
checked.

*What the code does not do.* The dialog says that it deletes the selected
documents (`bulk-delete-dialog.tsx:91`). A selection is a set of indices, and a
refresh or a filter puts other documents there: the dialog is then about to
delete a document that nobody ticked (`shifted`).

## 9. The preview

### `DocumentPreview.tla`

One context, written by two pages: the list follows the selection and fetches, a
document's page sets its own. A value in the context is the document it came
from. `flight` is the fetch whose answer is still wanted; a cancelled one is
forgotten, as the code's `cancelled` flag makes it, and leaves the flag
`loading` as it is (nothing reads that). An action includes the effects that
follow it (`Runs`). The single delete is here with what it is given (`DialogOf`)
and what it does: to the rows (`db`) and to the objects (`missing`: rows without
one).

| action | code |
|---|---|
| `Open`, `Refresh`, `Reload` | navigation, the server's answer, and the restored selection |
| `ClickRow`, `TogglePanel` | the list's rows, the header's button and the handle |
| `ListAnswered`, `ListFailed`, `DetailAnswered`, `DetailRejected` | the effects of `documents-table.tsx` and `document-detail-client.tsx` after their awaits |
| `PdfLoaded`, `PageRendered`, `PickTab`, `SetModal`, `PressArrow`, `ClickArrow` | the panel, its modal and the arrow keys both listen to |
| `ConfirmDelete`, `DeleteRow`, `RemoveFile` | the delete dialog, with the props it was given |

*Left out.* Sizes, scaling, the download link, the PDF's own failures, objects
that stay behind without a row, and a list that the browser's back button
restores from the router's cache instead of asking for it again.

### Properties and run

- `PanelShowsSelected`: through every order of clicks, answers, failures,
  refreshes, reloads and changes of page, the PDF is the selected document's, and
  on the list so are a listed document's name, type and path. Its parts name
  what they except: text and exported fields after a document's page was open
  (`visited`), because that page sets only some of the context; the fields are
  the former document's while another preview loads (`FieldsGoWithUrl` says that
  they go with the URL); and a page turned before the PDF was read (`ahead`).
- `DialogDeletesNamed`: a delete under way is of the document its dialog names,
  and whose path it holds, or its document is gone already.
- `PreviewSettles`: the panel does not stay at its spinner unless its fetch
  failed.

`preview` (`MCDocumentPreview.cfg`): two PDFs, of two pages and of one, one with
a text and fields; about 0.4 million states. A second document is what staleness needs and
two lengths are what a page that does not exist needs. *Fairness*: weak for the
answer to the wanted fetch, whichever it is: requests settle, and a user does
not click faster than every answer for ever. Deadlock is checked.

### What the code does not do

- `RowHasFile` (`preview_delete`). The dialog names one document and says that it
  deletes it. On the list its document comes from the selection, its name and
  path from the context's metadata, and a document's own page sets the first
  only: select d1, open d2's page, delete d2 there; back on the list Delete, which
  names d1, matches no row and removes d1's object. d1 stays listed without its
  file. `DialogDeletesNamed` is what is left of the promise.
- The comment says that the extraction is fetched when the selected document
  changes (`documents-table.tsx:146`). The effect skips a document whose URL is
  known, and its own page fetches the URL alone: back on the list the export menu
  downloads the fields of the document selected before (`visited`).

## 10. The table of fields

### `FieldTable.tla`

A document's page: the row in the database, the copy the server gave the bar
(`given`), the state that is set and the state that is rendered (`next`,
`screen`), the table's indices and the names the context keeps (`rowSelection`,
`selectedFieldIds`), and the write of the dialog (`job`). The two states are
kept apart because an update compares itself with what was rendered, and several
may come before a render. A document without an extraction has no fields
(`extracted`): its dialog returns before it writes. A new extraction becomes the
latest one; the channel, which is for updates, is not told of its insert.

| action | code |
|---|---|
| `Open`, `Leave`, `Refreshed` | the page mounts, leaves, and gives the bar new fields |
| `Joins`, `HandleExtractionUpdate`, `Render`, `TimerFires` | the channel, its handler, React, the end of a highlight |
| `ToggleRow`, `ToggleAll`, `SetFieldSearch` | boxes and search |
| `SetDialog`, `ConfirmDelete`, `DeleteAnswered` | the dialog and its write |
| `Extracts`, `AgentSaves`, `AgentDeletes`, `OlderSaves` | a new extraction, writes to the latest one and to another one |

*Left out.* How a value becomes sub-rows, and nested paths: agents write whole
fields. What the dialog's write destroys is `ExtractionAgent`'s matter.

### Properties and run

- `ShowsTheExtraction`: the fields the dialog deletes are those ticked, until a
  box is clicked after rows have moved (`mixed`); what is highlighted is what
  differs from the fields shown before, or nothing; a live page that has heard
  everything (not `missed`: written before the channel joined, or by the insert
  of a new extraction) shows the latest extraction.

`fields` (`MCFieldTable.cfg`): two fields, one with a hyphen in its name, two
values, four writes; about 0.8 million states. Two fields are what a moved row
needs, and four writes are what an extraction, two updates before one render and
a delete need. The property is proved without the bounds. Deadlock is checked.

*What the code does not do.* The dialog says that it removes the selected fields
(`bulk-delete-fields-dialog.tsx:87`). The boxes are indices: an update that adds a
field before a ticked one moves the tick, and the next click puts the other field
among those to delete (`mixed`).

### What the browser models show besides

These contradict no statement of the repository, and so have no run. A stack's
page gives its bar no documents, so "add to stack" from there adds none. A
preview fetch that fails is not repeated, and the spinner stays. An arrow key before a
PDF is read goes by the number of pages of the PDF before it. While the preview
of a newly selected document is fetched, the export menu offers the fields of
the one before. A field whose name has a hyphen cannot be deleted, because its
name is cut there.

## 11. Proofs

### `DocumentPipeline`

`DocumentPipelineProofs.tla` proves, for any set of documents and slots and any
bounds (the only assumption is `PipelineAssumption`: there is a slot, and the
limits are natural numbers):

- `TypeCorrect`: `Spec => []TypeOK`;
- `Inductive`: `Spec => []IInv`;
- from it, each safety invariant (`ChargedOnce`, `NoLostCharge`,
  `ReadyMeansText`, `InFlightMeansTask`, `AckedMeansFile`), the action property
  (`ReadyIsStable`) and the refinement (`Implements`: `Spec =>
  PipelineImplementsLedger`).

None of the safety invariants is inductive alone. `IInv` adds three facts:

- `OneHolder`: at most one task holds the event loop, and none does while a
  request does. Without it nothing keeps a second increment out of the first.
- `RowsAndText`: a request that has not inserted has no row; text lives and dies
  with its row. It makes `Savable` the guard against a second charge, and the
  insert of an acknowledged upload the moment from which its file is safe.
- `TaskFacts`: a task between its save and its charge has a text on record, an
  uncharged document, and (before the write) the current counter in its hand.

The chain for `BilledAtMostOnce`: a task reaches the charge only through a
successful save, which needs that no text was there, which by `ReadyHasText`
means that the document was not charged; until the charge the task keeps the
loop, so by `OneHolder` nobody else charges; after it the text is on record for
good, as `saved` or `erased`. The refinement needs the same facts: `SaveOcr`
maps to `Write`, `WriteUsage` to `Charge`, `DeleteRow` to `Erase`, the reset in
`RequestUpload` to `NewMonth`, and every other step to a stutter.

### `ExtractionAgent`

`ExtractionAgentProofs.tla` proves, for any set of fields and any number of
extractions and corrections (`ExtractionAssumption`: those are natural numbers),
the type invariant (`TypeCorrect`), the four state invariants
(`DocumentFollowsRow`, `NothingLeft`, `Correctable`, `SessionOrder`) and the two
action properties (`RowCompletedOnFields`, `RowFailedByItsRun`). All follow from
`Inductive`, whose `IInv` has five parts, each kept by every step under those
before it:

- `TypeInv`: the types, and a run at work has chosen its row;
- `LoopInv`: one run at most holds the loop, and each kind of run keeps to its
  own control points;
- `RowsInv`: rows and session go with the document and with nothing else, the
  stored session and the row of a run at work exist. A correction has found a
  session, whose row exists, before it asks for the latest row, which can then
  only be that one or a later one: `SessionNotNewer`;
- `CompleteInv`: a run past the check of `complete` still has fields or the
  browser wrote the row, one past the row's write has completed a row. It needs
  `LoopInv`: no tool of another run starts in between;
- `ToldHasSession`: while the document is there, who was told has a session.
  With `RowsInv` it gives `CompleteIsCorrectable`.

### `ChatConnection`

`ChatConnectionProofs.tla` proves every safety property of the chat for any
number of clicks, managers, faults, missions, cards and messages under way, from
`ChatAssumption`: `TypeSafe`, `OneWaySafe`, `ReadySafe`, `CanvasSafe` and, for
the action property `OneTurnPerBubble`, `BubbleSafe`. The invariant has two
halves, and the second rests on the first.

`ChatInv` (`ChatInductive`) is about the connection. Besides `OneWayToBridge`
and `ConnectedIsReady` it says that a manager's `ws` and a socket's `owner`
agree until the socket has closed (`SocketsOwned`), that a manager is destroyed
exactly when the page has dropped it (`ManagersOwned`), and that an inbox holds
`sprite_ready` only from a bridge that is ready (`Announced`). The argument: a
destroyed manager has no timer and is `intentional`, so its late close event
opens nothing; one the page holds leaves its socket only through `onclose`,
which sets the timer; and the timer's `connect` finds `ws` null, since timer and
socket exclude each other.

`Talk` (`TalkInductive`) is about what is said over it:

- `Rest`: the remaining types, and no card without an id;
- `Heard`: messages are under way to open sockets only, those of the agent only
  where the bridge is ready, and a bridge starts anew on each socket;
- `Bubbles`: an inbox that is ready is `Coherent` with the bubble on the screen
  and the agent's turn. Two texts with nothing between them that opens a new
  entry are of one turn; so are the bubble and the first text, the last text and
  the turn the agent is at. That a turn ends with a word of its own is what a new
  turn needs; that a message lost with its socket takes the whole inbox with it,
  and that only a `sprite_ready` lets the next text through, is what a lost word
  needs: the ready message itself ends the bubble;
- `Drawn`: the last message about a card says whether the agent has the card,
  and without one the page says so, unless the card is `adrift`.

Most steps send nothing, or lose a whole inbox. They are dealt with once
(`Quiet`, `Remembers`, `QuietTalk`); reading a message and sending one each have
their lemmas about inboxes (`CoherentTake`, `CoherentPost` and their like for
cards). That an inbox with a message about a card has a last one is the
existence of a minimum in a well-founded order (`WFMin`), which needs no
induction schema.

### `UploadFlow`

`UploadFlowProofs.tla` proves, from `UploadAssumption`, the type invariant
(`TypeSafe`), `DocumentSafe`, `ProgressSafe` and the action property
`EditsSafe`, all from `FlowInductive`. The invariant adds to the types that a
document known by an answer has a row (`Made`), that the channel is for the
watched document and queues nothing before its subscription (`Watches`), that a
save past its answer is in `saved` (`SavedFirst`), that only what was described
can be edited (`EditedLater`), that the bar's spinner has a handler that will
stop it (`Spins`), and, the heart of it, that a handler of the open flow works
on the flow's document or is the one upload that brings it (`Own`). `Own` is
what separates the flow's own answers from crossed ones.

### `DocumentPreview`

`DocumentPreviewProofs.tla` proves the type invariant (`TypeSafe`), `PanelSafe`
and `DialogSafe` (`DialogDeletesNamed`) from `PreviewAssumption`. `PreviewInv`
has three layers: the context
is consistent with itself, with the page and with the wanted fetch
(`ContextInv`: `Sound`, `Bare`, `Fresh`, `Named`, `FlightOf`); the panel's types
(`PanelTypes`); and a PDF that was read is the one of the URL, with its pages
(`PdfInv`). The first needs neither of the others, so the effects of the pages
(`Runs`) are dealt with once, in a lemma about any context they are run on. What
a dialog was given is a part of its own (`DialogInv`), kept beside them: only
deletes change `db`, and none brings a row back.

### `FieldTable`

`FieldTableProofs.tla` proves the type invariant (`TypeSafe`) and `TableSafe`
from `FieldTableAssumption`, for any finite set of fields. `TableInv` adds that
the state that is set but not rendered highlights what differs from what is
rendered (`NextIsNews`), and that the last update under way is the row as it is
(`LastIsRow`).

### `AgentStream`

`AgentStreamProofs.tla` proves, from `StreamAssumption`, for any number of
submissions, streams of any length and every way to cut them into pieces:
`TypeSafe`, `StreamSafe` (`ShowsItsStream`) and the refinement `FeedSafe`
(`Spec => IsFeed`). All follow from `StreamInductive`, whose `IInv` has three
parts besides the types:

- `Wired`, of each submission: what was handed on is a beginning of what was
  sent, and buffer and wire together are, byte for byte, the encoding of the
  rest. Only the last message sent ends a stream;
- `Owned`: the submission whose controller the hook holds is the one the user
  made last, and while nothing is `exposed` no other one is running;
- `Follows`: events, status and error are those the owner's stream leads to.

The core is one lemma about the reader (`ReadOf`): if buffer and wire carry the
bytes of some messages, then after a read of any length the lines that
`processSSELines` parses are the first of them, as many as are complete, and
buffer and wire carry the bytes of the others. It rests on the arithmetic of
message boundaries (`BoundaryOf`, `LinesOf`). In the refinement a read that
completes messages, or finds the end, maps to `Show`, the server's `Sends` to
`Send`, an abort or a broken connection to `Cut`, and every other step to a
stutter.

### `DocumentTables`

`DocumentTablesProofs.tla` proves, from `TablesAssumption`, for any number of
documents, stacks, ranges and handlers: `TypeSafe`, `SelectionSafe`
(`SelectsTicked`) and `RowsSafe` (`RowHasFile`), all from `TablesInductive`. The
invariant adds three facts to the types: pages and handlers know only documents
that were uploaded (`Known`), a handler that is about to remove objects has seen
the rows it was started for go (`Kept`; no row comes back, since an upload is a
new document), and the objects it removes are of those rows, but for a single
delete's with another document's path, which makes `taken`; and until rows move a selected index is that of a ticked document (`Ticked`).
The filters of the list, the rows of a stack and the selected documents are
`Picked` from a list; the lemmas about it say that what is picked keeps its
order and stays without repetition.

### Lists without induction

`Picking` says what JavaScript's `filter` leaves of a list by the positions that
are kept: the n-th element is the one at the n-th of these positions. `SelectSeq`
of the library says the same by recursion, and no fact about it can be proved
without an induction schema that takes an operator, which no installed backend
can instantiate. With positions, the facts needed (length, order, what filtering
a concatenation gives) follow from the library's theorems about cardinalities.
`RankOf`, `NthOf` and `PickedOf` are proved in both modules that need them.

### Limits

Every invariant and every action property that a passing run checks, and both
refinements, are theorems. Only model-checked:

- liveness (`InFlightEnds`, `ComesBack`, `ProcessingEnds`,
  `StreamingEnds`, `PreviewSettles`): fairness and ENABLED are out of the
  prover's reach;
- the violations, which are single behaviours.

What a theorem excepts, the property says by name: `mislaid` and `taken` (the
object of another document), `visited`, `ahead` and the awaited URL (the
preview), `crossed` and `behind` (the upload flow), `exposed` (overlapping
streams), `shifted`, `mixed` and `missed` (the tables). In each of these cases
the code does what the property forbids; sections 3 to 10 say what, and
`preview_delete` is the run that shows the first.

## 12. Not modelled

- *The Clerk webhook.* Three independent writes without state of their own. It
  answers every event with 200, so a failed or early event is lost, and nothing
  in the code promises an order a property could state.
- *The stack agent.* Its files are stubs.
- *Authentication and routing.* A JWT check and a router table, without state.
- *`streamAgentExtraction`.* Nothing calls it; it is the reader of `AgentStream`
  again.
- *Pages and visual components.* Layout, formatting, sidebar, breadcrumbs, the
  vendored `components/ui`. What a handler of such a page does to shared state
  is in the modules above.
- *Shapes of extracted values.* The expansion of values into rows, and the
  nested paths of `set_field`: pure functions of data, with no property of the
  models depending on them.
- *Stacks' extracted rows and the cache of `use-stacks.ts`.* Read-only.
