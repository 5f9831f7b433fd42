--------------------------- MODULE DocumentTables ---------------------------
(***************************************************************************)
(* The tables of documents of the frontend and what is done to the rows a  *)
(* user ticks in them: the list of all documents with its filters          *)
(* (documents-table.tsx, documents-filter-context.tsx, filter-button.tsx), *)
(* the documents of a stack (stack-documents-tab.tsx), and the deletes and *)
(* additions to stacks started from both (selection-actions.tsx,           *)
(* bulk-delete-dialog.tsx, stacks-dropdown.tsx).                           *)
(*                                                                         *)
(* A table is given the documents of the last answer of the server; the    *)
(* answers to later requests replace them while the table stays mounted.   *)
(* Neither table tells react-table how to name a row, so a row is named by *)
(* its index in the data, and rowSelection is a set of indices.            *)
(*                                                                         *)
(* A handler that awaits is a job: what the page shows, the server and the *)
(* other jobs go on between any two of its calls.  Documents are numbered  *)
(* in the order of their uploads.                                          *)
(***************************************************************************)
EXTENDS Naturals, SequencesExt, Picking

CONSTANTS MaxDocs,   \* bound: documents uploaded
          Stacks,    \* the active stacks
          Ranges,    \* the date ranges a user picks, of those below
          Age,       \* Age[d]: midnights since d was uploaded
          Found,     \* documents whose name contains the text that is searched for
          MaxJobs    \* bound: handlers that run at the same time

Docs == 1 .. MaxDocs
Jobs == 1 .. MaxJobs

ASSUME TablesAssumption ==
  /\ MaxDocs \in Nat /\ MaxJobs \in Nat
  /\ Ranges \subseteq {"today", "yesterday", "last7", "last30"}
  /\ Age \in [Docs -> Nat]
  /\ Found \subseteq Docs

VARIABLES
  uploads,     \* documents uploaded so far
  db,          \* rows of documents
  missing,     \* rows whose object is gone from the bucket; an object that is left
               \* without its row is not followed
  added,       \* stack_documents, newest first: pairs of a document and a stack
  page,        \* the page that is open: "list", "away", or a stack
  documents,   \* the documents the page was given, in their order
  seen,        \* the pairs of stack_documents it was given with them
  refreshing,  \* router.refresh() was called and has not been answered
  filterValue, dateRange, stackFilter,  \* DocumentsFilterContext
  searchFilter,  \* StackDetailFilterContext
  rowSelection,  \* of the table that is mounted
  dialog,        \* the bulk delete dialog is open
  deleting,      \* the job behind isDeleting of the SelectionActions on screen, 0 for none
  jobs,          \* the handlers that run
  ticked,        \* history: documents whose box was ticked, and not cleared, in this table
  shifted,       \* history: a selected row has become another document's
  taken          \* history: rows whose object the delete of another document removed

serverVars == <<uploads, db, missing, added, taken>>
givenVars  == <<page, documents, seen, refreshing>>
filterVars == <<filterValue, dateRange, stackFilter, searchFilter>>
tableVars  == <<rowSelection, ticked, shifted>>
barVars    == <<dialog, deleting>>
vars == <<serverVars, givenVars, filterVars, tableVars, barVars, jobs>>

Pages == {"list", "away"} \cup Stacks

\* Control points of a handler, the documents it was started for, and those whose
\* paths it has for the bucket.
Job == [at : {"unused", "paths", "rows", "files", "upsert"},
        kind : {"none", "bulk", "one", "add"},
        ids : SUBSET Docs, paths : SUBSET Docs, stack : Stacks \cup {"none"}]

NoJob == [at |-> "unused", kind |-> "none", ids |-> {}, paths |-> {}, stack |-> "none"]

Init ==
  /\ uploads = 0
  /\ db = {} /\ missing = {} /\ added = <<>> /\ taken = {}
  /\ page = "away" /\ documents = <<>> /\ seen = {} /\ refreshing = FALSE
  /\ filterValue = FALSE /\ dateRange = "all" /\ stackFilter = {}
  /\ searchFilter = FALSE
  /\ rowSelection = {} /\ ticked = {} /\ shifted = FALSE
  /\ dialog = FALSE /\ deleting = 0
  /\ jobs = [j \in Jobs |-> NoJob]
-----------------------------------------------------------------------------
(* What a table shows                                                      *)

\* getDateRangeBounds and isDateInRange, in days before today.
InRange(d, range) ==
  CASE range = "all"       -> TRUE
    [] range = "today"     -> Age[d] = 0
    [] range = "yesterday" -> Age[d] = 1
    [] range = "last7"     -> Age[d] <= 7
    [] range = "last30"    -> Age[d] <= 30

\* The data of the mounted table.  In the list the date and the stacks select
\* from what the server gave, and change the indices of what is left.
filteredDocuments ==
  IF page # "list" THEN documents
  ELSE Picked(documents, {i \in DOMAIN documents :
                            /\ InRange(documents[i], dateRange)
                            /\ \/ stackFilter = {}
                               \/ \E s \in stackFilter : <<documents[i], s>> \in seen})

\* The rows on screen: a search, unlike those filters, hides rows and leaves the
\* other indices alone.
Rows ==
  {i \in DOMAIN filteredDocuments :
     (IF page = "list" THEN filterValue ELSE searchFilter) => filteredDocuments[i] \in Found}

DocsAt(rows) == {filteredDocuments[i] : i \in rows}

\* getFilteredSelectedRowModel: what the bar above the table counts and acts on.
Selected    == DocsAt(Rows \cap rowSelection)
selectedIds == IF page = "list" THEN Selected ELSE {}

\* The server's answer for page p: every document, newest upload first, or the
\* documents of the stack in the order they were added.
Newest == [n \in 1 .. uploads |-> uploads + 1 - n]
Listing(p) ==
  IF p = "list" THEN Picked(Newest, {n \in DOMAIN Newest : Newest[n] \in db})
  ELSE LET ofStack == Picked(added, {i \in DOMAIN added : added[i][2] = p})
       IN [i \in DOMAIN ofStack |-> ofStack[i][1]]

\* Variants, named *_bug, are what a plausible mistake would make of the
\* definition that follows them; no specification uses them.

\* The dialog and its state outlive the selection they are about.
Bar_bug(open, job) == dialog' = open /\ deleting' = job

\* SelectionActions renders nothing without a selection: its dialog is gone then.
\* open and job: what the dialog and isDeleting would otherwise become.
Bar(open, job) ==
  /\ dialog' = (open /\ selectedIds' # {})
  /\ deleting' = IF selectedIds' = {} THEN 0 ELSE job

\* The rows that stay selected after the data has changed may be other documents'.
Shifts ==
  shifted' = (shifted \/ \E i \in rowSelection :
                /\ i \in DOMAIN filteredDocuments
                /\ i \notin DOMAIN filteredDocuments' \/ filteredDocuments'[i] # filteredDocuments[i])

ClearsTable == rowSelection' = {} /\ ticked' = {} /\ shifted' = FALSE
\* The rows of stack_documents go with those of their documents.
WithoutDocs(S) == Picked(added, {i \in DOMAIN added : added[i][1] \notin S})
-----------------------------------------------------------------------------
(* The pages                                                               *)

\* The backend stores an upload and inserts its row; upload flows end with a refresh.
Upload ==
  /\ uploads < MaxDocs
  /\ uploads' = uploads + 1
  /\ db' = db \cup {uploads + 1}
  /\ refreshing' = TRUE
  /\ UNCHANGED <<missing, added, taken, page, documents, seen, filterVars, tableVars, barVars, jobs>>

\* The server renders page p for the browser, from what the step leaves there.
Gives(p) ==
  /\ page' = p
  /\ documents' = IF p = "away" THEN <<>> ELSE Listing(p)'
  /\ seen' = IF p = "list" THEN ToSet(added') ELSE {}
  /\ refreshing' = FALSE

\* Another page opens: its table mounts with nothing selected, the filters are
\* those of the contexts.
Mounts(p) == Gives(p) /\ ClearsTable /\ UNCHANGED filterVars /\ Bar(FALSE, 0)

\* A link, or the browser's back button.
Open(p) ==
  /\ p # page
  /\ UNCHANGED <<serverVars, jobs>>
  /\ Mounts(p)

\* The answer to router.refresh(): new data for the table that is there.
Refreshed ==
  /\ refreshing
  /\ UNCHANGED <<serverVars, filterVars, rowSelection, ticked, jobs>>
  /\ Gives(page)
  /\ Shifts
  /\ Bar(dialog, deleting)

\* Rows go, and with them their places in stacks.
DropsRows(S) ==
  /\ db' = db \ S
  /\ missing' = missing \ S
  /\ added' = WithoutDocs(S)
  /\ taken' = taken \ S

\* A document is deleted in another tab.
DeletedElsewhere(d) ==
  /\ d \in db
  /\ DropsRows({d})
  /\ UNCHANGED <<uploads, givenVars, filterVars, tableVars, barVars, jobs>>

\* A new value of the filters of the list, from the menu or a pill.
Filter(text, range, stacks) ==
  /\ page = "list"
  /\ ~dialog
  /\ filterValue' = text /\ dateRange' = range /\ stackFilter' = stacks
  /\ UNCHANGED <<serverVars, givenVars, searchFilter, rowSelection, ticked, jobs>>
  /\ Shifts
  /\ Bar(FALSE, deleting)

SetFilterValue       == Filter(~filterValue, dateRange, stackFilter)
PickDate(range)      == Filter(filterValue, IF dateRange = range THEN "all" ELSE range, stackFilter)
ToggleStackFilter(s) == Filter(filterValue, dateRange, SymDiff(stackFilter, {s}))
ClearDateFilter      == dateRange # "all" /\ Filter(filterValue, "all", stackFilter)
ClearStackFilter(s)  == s \in stackFilter /\ Filter(filterValue, dateRange, stackFilter \ {s})
ClearFilters ==
  /\ filterValue \/ dateRange # "all" \/ stackFilter # {}
  /\ Filter(FALSE, "all", {})

SetSearchFilter ==
  /\ page \in Stacks
  /\ searchFilter' = ~searchFilter
  /\ UNCHANGED <<serverVars, givenVars, filterValue, dateRange, stackFilter, tableVars, jobs>>
  /\ Bar(FALSE, deleting)

\* handleTabChange: the search is reset and the page rendered again.  Back from
\* another tab the documents' table mounts anew; a click on its own tab keeps it.
ChangeTab(back) ==
  /\ page \in Stacks
  /\ UNCHANGED <<serverVars, filterValue, dateRange, stackFilter, jobs>>
  /\ searchFilter' = FALSE
  /\ Gives(page)
  /\ IF back THEN ClearsTable ELSE UNCHANGED <<rowSelection, ticked>> /\ Shifts
  /\ Bar(FALSE, 0)

\* The boxes of the rows and of the header.
Select(rows, docs) ==
  /\ ~dialog
  /\ rowSelection' = rows
  /\ ticked' = IF rows = {} THEN {} ELSE docs
  /\ shifted' = (shifted /\ rows # {})
  /\ UNCHANGED <<serverVars, givenVars, filterVars, jobs>>
  /\ Bar(FALSE, deleting)

ToggleRow(i) ==
  /\ i \in Rows
  /\ IF i \in rowSelection
     THEN Select(rowSelection \ {i}, ticked \ DocsAt({i}))
     ELSE Select(rowSelection \cup {i}, ticked \cup DocsAt({i}))

\* Every row, also those the search hides.
PageRows_bug == DOMAIN filteredDocuments
PageRows     == Rows

\* toggleAllPageRowsSelected.
ToggleAll ==
  /\ Rows # {}
  /\ IF Rows \subseteq rowSelection
     THEN Select(rowSelection \ PageRows, ticked \ DocsAt(Rows))
     ELSE Select(rowSelection \cup PageRows, ticked \cup DocsAt(Rows))
-----------------------------------------------------------------------------
(* What is done to the selection                                           *)

Outcomes == {"ok", "error", "lost"}

\* A call to Supabase; "lost" takes effect and its reply does not arrive.
Applied(out) == out # "error"

\* A handler starts as the first job that is free.
Start(j, kind, at, docs, paths, s) ==
  /\ jobs[j].at = "unused"
  /\ \A i \in 1 .. j - 1 : jobs[i].at # "unused"
  /\ jobs' = [jobs EXCEPT ![j] = [at |-> at, kind |-> kind, ids |-> docs, paths |-> paths, stack |-> s]]

Goto(j, point) == jobs' = [jobs EXCEPT ![j].at = point]
Ends(j)        == jobs' = [jobs EXCEPT ![j] = NoJob]

OpenDialog ==
  /\ selectedIds # {}
  /\ ~dialog
  /\ dialog' = TRUE
  /\ UNCHANGED <<serverVars, givenVars, filterVars, tableVars, deleting, jobs>>

\* Cancel, or Escape, which also closes it while the handler runs.
CloseDialog ==
  /\ dialog
  /\ dialog' = FALSE
  /\ UNCHANGED <<serverVars, givenVars, filterVars, tableVars, deleting, jobs>>

\* The dialog's Delete: the handler takes the selection of that moment.
ConfirmDelete(j) ==
  /\ dialog
  /\ deleting = 0
  /\ Start(j, "bulk", "paths", selectedIds, {}, "none")
  /\ deleting' = j
  /\ UNCHANGED <<serverVars, givenVars, filterVars, tableVars, dialog>>

\* The Delete of a dialog for the one document d, on the list or on d's own page, with
\* the path of document e.  They are the same, but on the list, when the selected
\* document is gone, e can be the one selected before (DocumentPreview).
ConfirmOne(j, d, e) ==
  /\ page \in {"list", "away"}
  /\ ~dialog
  /\ d = e \/ (page = "list" /\ d \notin db)
  /\ {d, e} \subseteq 1 .. uploads
  /\ Start(j, "one", "rows", {d}, {e}, "none")
  /\ UNCHANGED <<serverVars, givenVars, filterVars, tableVars, barVars>>

\* The picker in the bar's menu, which lists the active stacks.
PickerShown == ~dialog /\ Selected # {}

\* Add to stack: of a stack's table the menu is given no document.
AddToStack(j, s) ==
  /\ PickerShown
  /\ Start(j, "add", "upsert", selectedIds, {}, s)
  /\ UNCHANGED <<serverVars, givenVars, filterVars, tableVars, barVars>>

\* onClearSelection, and the end of the dialog that started the job.  A list that
\* is not mounted has no rows to clear.
Finishes(j, clears) ==
  /\ refreshing' = TRUE
  /\ UNCHANGED <<page, documents, seen, filterVars>>
  /\ IF clears /\ page = "list" THEN ClearsTable ELSE UNCHANGED tableVars
  /\ Bar(dialog /\ deleting # j, IF deleting = j THEN 0 ELSE deleting)

\* The catch branches: a toast, and the Delete button works again.
Fails(j) ==
  /\ Ends(j)
  /\ deleting' = IF deleting = j THEN 0 ELSE deleting
  /\ UNCHANGED <<givenVars, filterVars, tableVars, dialog>>

\* What follows the paths, and the objects without the rows.
AfterPaths_bug == "files"
AfterPaths     == "rows"

\* Step 1 of the bulk delete: the paths of the rows that are still there.
FetchPaths(j, out) ==
  /\ jobs[j].at = "paths"
  /\ UNCHANGED serverVars
  /\ IF out = "ok"
     THEN /\ jobs' = [jobs EXCEPT ![j].at = AfterPaths, ![j].paths = jobs[j].ids \cap db]
          /\ UNCHANGED <<givenVars, filterVars, tableVars, barVars>>
     ELSE Fails(j)

\* The rows; deleting rows that are gone succeeds.
DeleteRows(j, out) ==
  /\ jobs[j].at = "rows"
  /\ IF Applied(out) THEN DropsRows(jobs[j].ids) ELSE UNCHANGED <<db, missing, added, taken>>
  /\ UNCHANGED uploads
  /\ IF out = "ok"
     THEN Goto(j, "files") /\ UNCHANGED <<givenVars, filterVars, tableVars, barVars>>
     ELSE Fails(j)

\* The dialog for one document ends on the list, wherever its user is by then.
EndsOnList ==
  IF page = "list" THEN /\ refreshing' = TRUE
                        /\ UNCHANGED <<page, documents, seen, filterVars, tableVars, barVars>>
  ELSE Mounts("list")

\* The objects, best effort: its failure is logged and the delete has succeeded.
RemoveFiles(j, out) ==
  /\ jobs[j].at = "files"
  /\ IF Applied(out)
     THEN /\ missing' = missing \cup (jobs[j].paths \cap db)
          /\ taken' = taken \cup ((jobs[j].paths \ jobs[j].ids) \cap db)
     ELSE UNCHANGED <<missing, taken>>
  /\ Ends(j)
  /\ UNCHANGED <<uploads, db, added>>
  /\ IF jobs[j].kind = "one" THEN EndsOnList ELSE Finishes(j, TRUE)

\* The foreign key refuses the whole upsert if a document is gone.
UpsertPairs(j, out) ==
  LET ids == jobs[j].ids
      new == {<<d, jobs[j].stack>> : d \in ids} \ ToSet(added)
  IN /\ jobs[j].at = "upsert"
     /\ \E order \in SetToSeqs(new) :
          added' = IF Applied(out) /\ ids \subseteq db THEN order \o added ELSE added
     /\ UNCHANGED <<uploads, db, missing, taken>>
     /\ IF out = "ok" /\ ids \subseteq db
        THEN Ends(j) /\ Finishes(j, ids # {})
        ELSE Fails(j)

\* The stacks menu of the document whose preview is open decides by what the page
\* was given; inserting a pair that exists is an error.
ToggleStack(d, s, out) ==
  /\ page = "list"
  /\ ~dialog
  /\ d \in ToSet(documents)
  /\ LET pair == <<d, s>>
         refused == pair \notin seen /\ (pair \in ToSet(added) \/ d \notin db)
     IN /\ added' = IF ~Applied(out) \/ refused THEN added
                    ELSE IF pair \in seen
                         THEN Picked(added, {i \in DOMAIN added : added[i] # pair})
                         ELSE <<pair>> \o added
        /\ refreshing' = (refreshing \/ (out = "ok" /\ ~refused))
  /\ UNCHANGED <<uploads, db, missing, taken, page, documents, seen, filterVars, tableVars, barVars, jobs>>

Next ==
  \/ Upload
  \/ \E p \in Pages : Open(p)
  \/ Refreshed
  \/ SetFilterValue
  \/ \E r \in Ranges : PickDate(r)
  \/ \E s \in Stacks : ToggleStackFilter(s) \/ ClearStackFilter(s)
  \/ ClearDateFilter
  \/ ClearFilters
  \/ SetSearchFilter
  \/ \E back \in BOOLEAN : ChangeTab(back)
  \/ \E i \in Docs : ToggleRow(i)
  \/ ToggleAll
  \/ OpenDialog
  \/ CloseDialog
  \/ \E j \in Jobs : ConfirmDelete(j)
  \/ \E j \in Jobs, d, e \in Docs : ConfirmOne(j, d, e)
  \/ \E d \in Docs : DeletedElsewhere(d)
  \/ \E j \in Jobs, s \in Stacks : AddToStack(j, s)
  \/ \E j \in Jobs, out \in Outcomes :
       FetchPaths(j, out) \/ DeleteRows(j, out) \/ RemoveFiles(j, out) \/ UpsertPairs(j, out)
  \/ \E d \in Docs, s \in Stacks, out \in Outcomes : ToggleStack(d, s, out)

Spec == Init /\ [][Next]_vars
-----------------------------------------------------------------------------
(* Properties                                                              *)

\* The variables have their types, and the selection bar has a dialog and a
\* delete in progress only while something is selected.
TypeOK ==
  /\ uploads \in 0 .. MaxDocs
  /\ db \subseteq 1 .. uploads /\ missing \subseteq db /\ taken \subseteq db
  /\ added \in Seq(Docs \X Stacks) /\ ToSet(added) \subseteq db \X Stacks /\ IsInjective(added)
  /\ page \in Pages /\ refreshing \in BOOLEAN
  /\ documents \in Seq(Docs) /\ IsInjective(documents)
  /\ seen \subseteq Docs \X Stacks
  /\ filterValue \in BOOLEAN /\ searchFilter \in BOOLEAN
  /\ dateRange \in Ranges \cup {"all"} /\ stackFilter \subseteq Stacks
  /\ rowSelection \subseteq Docs /\ ticked \subseteq Docs /\ shifted \in BOOLEAN
  /\ dialog \in BOOLEAN /\ deleting \in Jobs \cup {0}
  /\ jobs \in [Jobs -> Job]
  /\ dialog \/ deleting # 0 => selectedIds # {}

\* What the bar counts and acts on are the documents on screen whose boxes the user
\* ticked, through every search, filter, refresh, reset and change of page, as long
\* as no refresh or filter moved another document to a selected index
\* (getFilteredSelectedRowModel, documents-table.tsx:127).
SelectsTicked == ~shifted => Selected = ticked \cap DocsAt(Rows)

\* A document keeps its object as long as it has its row, whatever fails and however
\* the deletes overlap: every dialog removes objects after the rows they belong to
\* (bulk-delete-dialog.tsx:49, delete-dialog.tsx:39).  The one way to lose it is the
\* delete of another document, which is gone already, with this one's path.
RowHasFile == missing \subseteq taken
=============================================================================
