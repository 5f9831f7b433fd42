---------------------------- MODULE FieldTable ----------------------------
(***************************************************************************)
(* The table of extracted fields on a document's page: the page's copy of  *)
(* the document and the fields it highlights (document-detail-client.tsx), *)
(* the subscription to the document's extractions                          *)
(* (use-extraction-realtime.ts), the table with its boxes and search       *)
(* (extracted-data-table.tsx), the selection it shares with the bar above  *)
(* (document-detail-filter-context.tsx, document-detail-sub-bar.tsx) and   *)
(* the dialog that deletes the selection (bulk-delete-fields-dialog.tsx).  *)
(* What agents write, and what a delete does to the rows of the database,  *)
(* is ExtractionAgent's matter; here they only change.                     *)
(*                                                                         *)
(* React renders some time after a handler has set state.  The table names *)
(* its rows by their index, in the order of the keys of a JSON object of   *)
(* the database, which does not depend on when a key was added.            *)
(***************************************************************************)
EXTENDS Naturals, Sequences, FiniteSets

CONSTANTS Fields,    \* the names of fields, numbers in the order of JSON keys
          Values,    \* what a field may hold
          Root,      \* Root[f]: what split('-')[0] makes of f, 0 when it is no field's name
          Found,     \* fields whose name contains the text that is searched for
          MaxWrites  \* bound: writes to the extractions

ASSUME FieldTableAssumption ==
  /\ Fields \subseteq Nat \ {0}
  /\ IsFiniteSet(Fields)
  /\ Root \in [Fields -> Fields \cup {0}]
  /\ Found \subseteq Fields
  /\ MaxWrites \in Nat

VARIABLES
  extracted,   \* the document has an extraction
  row,         \* extracted_fields of the latest extraction
  writes,      \* writes so far
  open,        \* the page is open
  given, none, \* extractedFields the bar was given by the server, whether that is null
  refreshing,  \* router.refresh() has not been answered
  sub, queue,  \* the channel of the page, the updates under way on it
  next,        \* state of the page that is set: the document's fields, changedFields
  screen,      \* state it is rendered with, also what documentRef holds
  timer,       \* the timer that ends the highlight runs
  fieldSearch, selectedFieldIds,  \* DocumentDetailFilterContext
  rowSelection,  \* of the table: indices
  dialog, isDeleting,  \* of the bar and its dialog, when the page is open
  job,         \* the write under way, and whether the bar that made it is there
  before,      \* history: the fields on screen before those of now
  ticked,      \* history: fields the user ticked
  mixed,       \* history: a box was clicked when the rows had moved under the selection
  missed       \* history: the page has not got the latest extraction's last update

dbVars     == <<extracted, row, writes>>
pageVars   == <<open, given, none, refreshing>>
subVars    == <<sub, queue, missed>>
stateVars  == <<next, screen, timer, before>>
choiceVars == <<selectedFieldIds, rowSelection, ticked, mixed>>
dialogVars == <<dialog, isDeleting, job>>
vars == <<dbVars, pageVars, subVars, stateVars, fieldSearch, choiceVars, dialogVars>>

\* extracted_fields: values of some of the fields.
Extracted == UNION {[S -> Values] : S \in SUBSET Fields}
Nothing   == [f \in {} |-> 0]
PageState == [fields : Extracted, changed : SUBSET Fields]
Blank     == [fields |-> Nothing, changed |-> {}]

Update == [fields : Extracted, latest : BOOLEAN]
Job    == [at : {"none", "update"}, fields : Extracted, mounted : BOOLEAN]
NoJob  == [at |-> "none", fields |-> Nothing, mounted |-> FALSE]

Init ==
  /\ extracted = FALSE /\ row = Nothing /\ writes = 0
  /\ open = FALSE /\ given = Nothing /\ none = TRUE /\ refreshing = FALSE
  /\ sub = "none" /\ queue = <<>> /\ missed = FALSE
  /\ next = Blank /\ screen = Blank /\ timer = FALSE /\ before = Nothing
  /\ fieldSearch = FALSE
  /\ selectedFieldIds = {} /\ rowSelection = {} /\ ticked = {} /\ mixed = FALSE
  /\ dialog = FALSE /\ isDeleting = FALSE /\ job = NoJob

\* Variants, named *_bug, are what a plausible mistake would make of the
\* definition that follows them; no specification uses them.
-----------------------------------------------------------------------------
(* The table                                                               *)

\* Fields of new that old has not, or has with another value.
Changed(old, new) == {f \in DOMAIN new : f \notin DOMAIN old \/ old[f] # new[f]}

\* transformExtractedFields: a row for every field, in the order of the keys.
IndexOf(f) == Cardinality({g \in DOMAIN screen.fields : g < f})
At(rows)   == {f \in DOMAIN screen.fields : IndexOf(f) \in rows}
Shown      == {f \in DOMAIN screen.fields : fieldSearch => f \in Found}

ClearsChoice == selectedFieldIds' = {} /\ rowSelection' = {} /\ ticked' = {} /\ mixed' = FALSE

\* The effect on rowSelection: the names of all selected rows, also those that the
\* search hides.
Select(rows, fields) ==
  /\ open /\ ~dialog
  /\ rowSelection' = rows
  /\ selectedFieldIds' = At(rows)
  /\ ticked' = IF rows = {} THEN {} ELSE fields
  /\ mixed' = (rows # {} /\ (mixed \/ At(rowSelection) # selectedFieldIds))
  /\ UNCHANGED <<dbVars, pageVars, subVars, stateVars, fieldSearch, dialogVars>>

ToggleRow(f) ==
  /\ f \in Shown
  /\ IF IndexOf(f) \in rowSelection
     THEN Select(rowSelection \ {IndexOf(f)}, ticked \ {f})
     ELSE Select(rowSelection \cup {IndexOf(f)}, ticked \cup {f})

ToggleAll ==
  LET rows == {IndexOf(f) : f \in Shown}
  IN /\ Shown # {}
     /\ IF rows \subseteq rowSelection
        THEN Select(rowSelection \ rows, ticked \ Shown)
        ELSE Select(rowSelection \cup rows, ticked \cup Shown)

\* The search outlives the page, and the selection outlives the search.
SetFieldSearch ==
  /\ open /\ ~dialog
  /\ fieldSearch' = ~fieldSearch
  /\ UNCHANGED <<dbVars, pageVars, subVars, stateVars, choiceVars, dialogVars>>
-----------------------------------------------------------------------------
(* The page                                                                *)

\* The page is rendered on the server from the latest extraction, and mounts: its
\* table clears the selection of the context.
Open ==
  /\ ~open
  /\ open' = TRUE /\ given' = row /\ none' = ~extracted /\ refreshing' = FALSE
  /\ next' = [fields |-> row, changed |-> {}] /\ screen' = next' /\ before' = row /\ timer' = FALSE
  /\ sub' = "token" /\ queue' = <<>> /\ missed' = FALSE
  /\ ClearsChoice
  /\ dialog' = FALSE /\ isDeleting' = FALSE
  /\ UNCHANGED <<dbVars, fieldSearch, job>>

\* Leaving the page forgets to unsubscribe.
Unsubscribes_bug == UNCHANGED <<sub, queue>>
Unsubscribes     == sub' = "none" /\ queue' = <<>>

\* The cleanup of the subscription; the context keeps its selection, a write goes on.
Leave ==
  /\ open
  /\ open' = FALSE /\ given' = Nothing /\ none' = TRUE /\ refreshing' = FALSE
  /\ next' = Blank /\ screen' = Blank /\ before' = Nothing /\ timer' = FALSE
  /\ Unsubscribes /\ missed' = FALSE
  /\ rowSelection' = {}
  /\ dialog' = FALSE /\ isDeleting' = FALSE
  /\ job' = [job EXCEPT !.mounted = FALSE]
  /\ UNCHANGED <<dbVars, fieldSearch, selectedFieldIds, ticked, mixed>>

\* The refresh gives the bar new fields, but useState(initialDocument) keeps the page's.
Refreshed ==
  /\ refreshing
  /\ given' = row /\ none' = ~extracted /\ refreshing' = FALSE
  /\ UNCHANGED <<dbVars, open, subVars, stateVars, fieldSearch, choiceVars, dialogVars>>

\* The token arrives and the channel is made; it joins, fails, or the server drops it.
\* Nothing joins it again, or asks for what was written before.
Joins(to) ==
  /\ \/ sub = "token" /\ to = "joining"
     \/ sub = "joining" /\ to \in {"live", "closed"}
     \/ sub = "live" /\ to = "closed"
  /\ sub' = to
  /\ queue' = IF to = "closed" THEN <<>> ELSE queue
  /\ missed' = (missed \/ queue' # queue)
  /\ UNCHANGED <<dbVars, pageVars, stateVars, fieldSearch, choiceVars, dialogVars>>

\* documentRef.current follows the state at once, not the render.
Ref_bug == next.fields
Ref     == screen.fields

\* handleExtractionUpdate, for an update of any extraction of the document.
HandleExtractionUpdate ==
  /\ queue # <<>>
  /\ LET update == Head(queue)
     IN /\ next' = [fields |-> update.fields, changed |-> Changed(Ref, update.fields)]
        /\ missed' = IF update.latest THEN missed /\ update.fields # row ELSE TRUE
  /\ queue' = Tail(queue)
  /\ UNCHANGED <<dbVars, pageVars, sub, screen, timer, before, fieldSearch, choiceVars, dialogVars>>

\* Every render computes what is selected anew.
ChoiceAfter_bug == selectedFieldIds' = {f \in DOMAIN screen'.fields :
                                          Cardinality({g \in DOMAIN screen'.fields : g < f}) \in rowSelection}
\* The effect that names the selection depends on rowSelection, not on the rows.
ChoiceAfter == UNCHANGED selectedFieldIds

\* React renders what is set, and the effects follow: documentRef, and the timer for a
\* highlight, which replaces the one before.
Render ==
  /\ open /\ next # screen
  /\ screen' = next
  /\ before' = IF next.fields = screen.fields THEN before ELSE screen.fields
  /\ timer' = (next.changed # {})
  /\ ChoiceAfter
  /\ UNCHANGED <<dbVars, pageVars, subVars, next, fieldSearch, rowSelection, ticked, mixed, dialogVars>>

\* After a second and a half the highlight ends, also that of an update that came
\* since and has not been rendered.
TimerFires ==
  /\ timer
  /\ next' = [next EXCEPT !.changed = {}]
  /\ timer' = FALSE
  /\ UNCHANGED <<dbVars, pageVars, subVars, screen, before, fieldSearch, choiceVars, dialogVars>>
-----------------------------------------------------------------------------
(* Writes                                                                  *)

\* A channel that is live gets the update; one that is not yet misses it.
Writes(fields, latest) ==
  /\ writes' = writes + 1
  /\ row' = IF latest THEN fields ELSE row
  /\ queue' = IF sub = "live" THEN Append(queue, [fields |-> fields, latest |-> latest]) ELSE queue
  /\ missed' = IF sub = "live" \/ ~open THEN missed ELSE (missed \/ fields # next.fields)
  /\ UNCHANGED extracted

\* An agent starts an extraction, the latest from now on.  The channel is for updates:
\* it tells nothing of it, and what is under way is another's from now on.
Extracts ==
  /\ writes < MaxWrites
  /\ writes' = writes + 1
  /\ extracted' = TRUE /\ row' = Nothing
  /\ queue' = [i \in DOMAIN queue |-> [queue[i] EXCEPT !.latest = FALSE]]
  /\ missed' = (missed \/ (open /\ next.fields # Nothing))
  /\ UNCHANGED <<pageVars, sub, stateVars, fieldSearch, choiceVars, dialogVars>>

\* An agent adds, changes or deletes a field of the latest extraction.
AgentSaves(f, v) ==
  /\ writes < MaxWrites /\ extracted
  /\ Writes([g \in DOMAIN row \cup {f} |-> IF g = f THEN v ELSE row[g]], TRUE)
  /\ UNCHANGED <<pageVars, sub, stateVars, fieldSearch, choiceVars, dialogVars>>

AgentDeletes(f) ==
  /\ writes < MaxWrites /\ f \in DOMAIN row
  /\ Writes([g \in DOMAIN row \ {f} |-> row[g]], TRUE)
  /\ UNCHANGED <<pageVars, sub, stateVars, fieldSearch, choiceVars, dialogVars>>

\* Another extraction of the document is updated, to fields of its own.
OlderSaves(f, v) ==
  /\ writes < MaxWrites /\ extracted
  /\ Writes([g \in {f} |-> v], FALSE)
  /\ UNCHANGED <<pageVars, sub, stateVars, fieldSearch, choiceVars, dialogVars>>
-----------------------------------------------------------------------------
(* The dialog                                                              *)

SetDialog(to) ==
  /\ open
  /\ to => ~dialog /\ selectedFieldIds # {}
  /\ dialog # to
  /\ dialog' = to
  /\ UNCHANGED <<dbVars, pageVars, subVars, stateVars, fieldSearch, choiceVars, isDeleting, job>>

\* handleDelete: what will be written is the bar's copy without the roots of the
\* names selected now.  Given null, it returns at once and the dialog stays.
ConfirmDelete ==
  /\ dialog /\ ~isDeleting /\ job = NoJob
  /\ ~none
  /\ LET roots == {Root[f] : f \in selectedFieldIds}
     IN job' = [at |-> "update", mounted |-> TRUE,
                fields |-> [f \in DOMAIN given \ roots |-> given[f]]]
  /\ isDeleting' = TRUE
  /\ UNCHANGED <<dbVars, pageVars, subVars, stateVars, fieldSearch, choiceVars, dialog>>

\* The answer to the write of every extraction of the document; "lost" takes effect
\* and its reply does not arrive.  Success clears the selection of whatever table is
\* there by then.
DeleteAnswered(out) ==
  /\ job.at = "update"
  /\ IF out = "error" THEN UNCHANGED <<dbVars, queue, missed>>
     ELSE writes < MaxWrites /\ Writes(job.fields, TRUE)
  /\ isDeleting' = (isDeleting /\ ~job.mounted)
  /\ job' = NoJob
  /\ IF out = "ok"
     THEN /\ dialog' = (dialog /\ ~job.mounted)
          /\ refreshing' = open
          /\ ClearsChoice
     ELSE UNCHANGED <<dialog, refreshing, choiceVars>>
  /\ UNCHANGED <<open, given, none, sub, stateVars, fieldSearch>>

Next ==
  \/ Open
  \/ Leave
  \/ Refreshed
  \/ \E to \in {"joining", "live", "closed"} : Joins(to)
  \/ HandleExtractionUpdate
  \/ Render
  \/ TimerFires
  \/ \E f \in Fields : ToggleRow(f) \/ AgentDeletes(f)
  \/ ToggleAll
  \/ SetFieldSearch
  \/ Extracts
  \/ \E f \in Fields, v \in Values : AgentSaves(f, v) \/ OlderSaves(f, v)
  \/ \E to \in BOOLEAN : SetDialog(to)
  \/ ConfirmDelete
  \/ \E out \in {"ok", "error", "lost"} : DeleteAnswered(out)

Spec == Init /\ [][Next]_vars
-----------------------------------------------------------------------------
(* Properties                                                              *)

\* The variables have their types; a page that is not open leaves nothing behind but
\* the context and a write.
TypeOK ==
  /\ extracted \in BOOLEAN /\ row \in Extracted /\ writes \in 0 .. MaxWrites
  /\ open \in BOOLEAN /\ none \in BOOLEAN /\ given \in Extracted /\ refreshing \in BOOLEAN
  /\ sub \in {"none", "token", "joining", "live", "closed"}
  /\ queue \in Seq(Update) /\ missed \in BOOLEAN
  /\ next \in PageState /\ screen \in PageState /\ timer \in BOOLEAN /\ before \in Extracted
  /\ fieldSearch \in BOOLEAN
  /\ selectedFieldIds \subseteq Fields /\ rowSelection \subseteq 0 .. Cardinality(Fields)
  /\ ticked \subseteq Fields /\ mixed \in BOOLEAN
  /\ dialog \in BOOLEAN /\ isDeleting \in BOOLEAN /\ job \in Job
  /\ ~open => sub = "none" /\ queue = <<>> /\ next = Blank /\ screen = Blank /\ ~dialog /\ ~timer
  /\ queue # <<>> => sub = "live"

\* What the bar counts and the dialog deletes are the fields whose boxes the user
\* ticked, through every update that moves rows, search, delete and change of page,
\* until a box is clicked after the rows have moved (extracted-data-table.tsx:77).
ChoiceIsKept == ~mixed => selectedFieldIds = ticked

\* What is highlighted is what differs from the fields that were on screen before,
\* also when several updates come before a render, or nothing (document-detail-client.tsx:70).
HighlightIsNews == screen.changed \in {{}, Changed(before, screen.fields)}

\* A page whose channel is live and has delivered everything shows the latest
\* extraction, unless an update was lost or another extraction's came last.
PageFollowsRow == sub = "live" /\ queue = <<>> /\ ~missed => next.fields = row

\* What the page shows, highlights and offers to delete is what its user takes it for.
ShowsTheExtraction == ChoiceIsKept /\ HighlightIsNews /\ PageFollowsRow
=============================================================================
