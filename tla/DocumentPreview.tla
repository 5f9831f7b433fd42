-------------------------- MODULE DocumentPreview --------------------------
(***************************************************************************)
(* The preview of the selected document beside the list of documents and   *)
(* beside a document's own page.  Both pages write to one context          *)
(* (selected-document-context.tsx): the list by an effect that follows the *)
(* selection and fetches (documents-table.tsx), the page of a document by  *)
(* an effect of its own (document-detail-client.tsx).  The layout of both  *)
(* shows what the context holds in a panel with tabs, pages and a modal    *)
(* (preview-panel/), and the dialog that deletes one document              *)
(* (delete-dialog.tsx) gets its props from it on the list.                 *)
(*                                                                         *)
(* A value of the context is the document it came from, 0 for null.  A     *)
(* step includes the effects of the render that follows it.                *)
(***************************************************************************)
EXTENDS Naturals, FiniteSets

CONSTANTS Docs,   \* the documents
          Pages,  \* Pages[d]: pages of d's PDF, 0 when d is an image
          Texts,  \* documents with a text of the OCR
          Extracted  \* documents whose fields were extracted

ASSUME PreviewAssumption ==
  /\ Docs \cap {0, "list", "away"} = {}
  /\ Pages \in [Docs -> Nat]
  /\ Texts \subseteq Docs /\ Extracted \subseteq Docs

VARIABLES
  db,           \* rows of documents
  missing,      \* rows whose object is gone from the bucket; an object that is left
                \* without its row is not followed, as nothing reads it any more
  page,         \* the page that is open: "list", "away", or a document's
  documents,    \* the documents the list was given
  context,      \* what SelectedDocumentContext holds
  flight,       \* the fetch whose answer is still wanted
  collapsed, activeTab,  \* of the panel, both persisted
  modal, currentPage, totalPages,  \* state of PreviewPanel
  loaded, rendered,  \* react-pdf has read the PDF that is shown, and drawn its page
  deletion, isDeleting,  \* the delete under way; isDeleting of the dialog on screen
  visited,      \* history: a document's page was open since the list's last answer
  ahead,        \* history: the page was turned before the PDF that is shown was read
  gaveUp        \* history: the fetch failed, and nothing asks again

storeVars  == <<db, missing>>
pageVars   == <<page, documents>>
panelVars  == <<collapsed, activeTab>>
localVars  == <<modal, currentPage, totalPages, loaded, rendered, ahead>>
fetchVars  == <<context, flight, visited, gaveUp>>
deleteVars == <<deletion, isDeleting>>
vars == <<storeVars, pageVars, fetchVars, panelVars, localVars, deleteVars>>

Doc0 == Docs \cup {0}

\* selectedDocId, signedUrl, signedUrlDocId, mimeType, ocrText, extractedFields,
\* isLoadingExtraction, and meta for what setDocumentMetadata sets: filename, filePath,
\* stacks, size.
Context == [sel : Doc0, url : Doc0, urlDoc : Doc0, mime : Doc0, ocr : Doc0, meta : Doc0,
            fields : Doc0, loading : BOOLEAN]
Empty   == [sel |-> 0, url |-> 0, urlDoc |-> 0, mime |-> 0, ocr |-> 0, meta |-> 0,
            fields |-> 0, loading |-> FALSE]

\* A fetch of the list or of a document's page; path: the list knows the file's path.
Flight   == [by : {"none", "list", "detail"}, doc : Doc0, path : BOOLEAN]
NoFlight == [by |-> "none", doc |-> 0, path |-> FALSE]

\* A delete: its dialog's documentId, and the document its filename and filePath are of.
Deletion   == [at : {"none", "row", "file"}, doc : Doc0, named : Doc0]
NoDeletion == [at |-> "none", doc |-> 0, named |-> 0]

Init ==
  /\ db = Docs /\ missing = {}
  /\ page = "away" /\ documents = {}
  /\ context = Empty /\ flight = NoFlight
  /\ collapsed \in BOOLEAN /\ activeTab = "pdf"
  /\ modal = FALSE /\ currentPage = 1 /\ totalPages = 0 /\ loaded = FALSE /\ rendered = FALSE
  /\ deletion = NoDeletion /\ isDeleting = FALSE
  /\ visited = FALSE /\ ahead = FALSE /\ gaveUp = FALSE

\* Variants, named *_bug, are what a plausible mistake would make of the
\* definition that follows them; no specification uses them.
-----------------------------------------------------------------------------
(* What is on screen                                                       *)

\* Stale only before the first URL.
isUrlStale_bug == context.sel # 0 /\ context.urlDoc = 0
isUrlStale     == context.sel # 0 /\ context.sel # context.urlDoc

\* effectivePdfUrl and effectiveOcrText of the layout.
pdfUrl    == IF isUrlStale THEN 0 ELSE context.url
shownText == IF isUrlStale THEN 0 ELSE context.ocr

\* The panel renders its container once it has a filename.
HasPanel == page # "away" /\ context.meta # 0
isPdf    == context.mime # 0 /\ Pages[context.mime] > 0
ShowsPdf == HasPanel /\ isPdf /\ pdfUrl # 0

\* The caption under the preview, on the tab with the PDF.
ShowsCaption == ShowsPdf /\ activeTab = "pdf" /\ rendered

\* The actions of the list's bar, the delete dialog among them; a document's page
\* always has them.
HasActions == page = "list" => context.sel # 0 /\ context.meta # 0 /\ ~collapsed

\* The fields the export menu of the list downloads, under the name of context.meta.
exported == IF page = "list" /\ HasActions THEN context.fields ELSE 0

\* The state of the panel after a step: gone with its pages, back at page 1 when the
\* URL changes; the number of pages stays until a PDF is read.
LocalAfter ==
  IF page' = "away"
  THEN modal' = FALSE /\ currentPage' = 1 /\ totalPages' = 0 /\ loaded' = FALSE /\ rendered' = FALSE /\ ahead' = FALSE
  ELSE /\ UNCHANGED <<modal, totalPages>>
       /\ IF pdfUrl' = pdfUrl THEN UNCHANGED <<currentPage, loaded, rendered, ahead>>
          ELSE currentPage' = 1 /\ loaded' = FALSE /\ rendered' = FALSE /\ ahead' = FALSE

\* isDeleting goes with the dialog it belongs to.
DialogAfter ==
  isDeleting' = (isDeleting /\ page' = page /\ page # "away" /\ HasActions')
-----------------------------------------------------------------------------
(* The effects of the two pages                                            *)

\* What each writes at once: the list clears everything without a selection, and
\* takes type and metadata from the document it lists.
Written(x, p, docs) ==
  CASE p = "away" -> x
    [] p = "list" /\ x.sel = 0 -> [x EXCEPT !.url = 0, !.urlDoc = 0, !.mime = 0, !.ocr = 0]
    [] p = "list" /\ x.sel \in docs -> [x EXCEPT !.mime = x.sel, !.meta = x.sel]
    [] p = "list" /\ x.sel \notin docs \cup {0} -> x
    [] OTHER -> [x EXCEPT !.sel = p, !.mime = p, !.ocr = IF p \in Texts THEN p ELSE 0]

\* A document whose URL is known is not fetched again, and any URL is taken for it.
Needed_bug(x, d) == d # 0 /\ x.url = 0
Needed(x, d)     == d # 0 /\ x.urlDoc # d

\* A page that is left does not cancel its fetch.
Fetched_bug(x, p, docs) ==
  CASE p = "list" /\ Needed(x, x.sel) -> [by |-> "list", doc |-> x.sel, path |-> x.sel \in docs]
    [] p \in Docs /\ Needed(x, p)     -> [by |-> "detail", doc |-> p, path |-> TRUE]
    [] OTHER -> flight

Fetched(x, p, docs) ==
  CASE p = "list" /\ Needed(x, x.sel) -> [by |-> "list", doc |-> x.sel, path |-> x.sel \in docs]
    [] p \in Docs /\ Needed(x, p)     -> [by |-> "detail", doc |-> p, path |-> TRUE]
    [] OTHER -> NoFlight

\* The effect of page p on context x; its cleanup has cancelled the fetch before.
\* The list's fetch says that it loads; a fetch that is cancelled never takes it back.
Runs(x, p, docs) ==
  LET y == Written(x, p, docs)
      f == Fetched(y, p, docs)
  IN /\ context' = IF f.by = "list" THEN [y EXCEPT !.loading = TRUE] ELSE y
     /\ flight' = f
     /\ gaveUp' = FALSE
-----------------------------------------------------------------------------
(* Pages                                                                   *)

\* Page p opens with the server's present data and runs its effect on x.
Mounts(x, p) ==
  /\ page' = p
  /\ documents' = IF p = "list" THEN db' ELSE {}
  /\ Runs(x, p, documents')
  /\ visited' = (visited \/ p \in Docs)
  /\ LocalAfter /\ DialogAfter

\* A link or the back button; the page of a document that is gone is not found.
Open(p) ==
  /\ p # page /\ p \in {"list", "away"} \cup db
  /\ UNCHANGED <<storeVars, panelVars, deletion>>
  /\ Mounts(context, p)

\* The answer to a refresh of the list.  The selected document's stacks are a new
\* array then, so the effect runs again for it, and its fetch starts over.
RefreshedList ==
  /\ page' = "list" /\ documents' = db'
  /\ IF context.sel \in documents \cup documents'
     THEN Runs(context, "list", documents')
     ELSE UNCHANGED <<context, flight, gaveUp>>
  /\ UNCHANGED visited
  /\ LocalAfter

Refresh ==
  /\ page = "list"
  /\ UNCHANGED <<storeVars, panelVars, deletion>>
  /\ RefreshedList /\ DialogAfter

\* The browser loads the page anew.  Only the selection, the tab and the width of
\* the panel are restored, from a storage other tabs write to as well.  A
\* document's page and the provider both set the selection, in either order.
Reload(saved) ==
  /\ page \in {"list", "away"} \cup db
  /\ documents' = IF page = "list" THEN db ELSE {}
  /\ \/ Runs([Empty EXCEPT !.sel = saved], page, documents')
     \/ /\ page \in Docs /\ saved # 0
        /\ context' = [Written(Empty, page, {}) EXCEPT !.sel = saved]
        /\ flight' = Fetched(Empty, page, {})
        /\ gaveUp' = FALSE
  /\ visited' = (page \in Docs)
  /\ modal' = FALSE /\ currentPage' = 1 /\ totalPages' = 0
  /\ loaded' = FALSE /\ rendered' = FALSE /\ ahead' = FALSE
  /\ deletion' = NoDeletion /\ isDeleting' = FALSE
  /\ UNCHANGED <<storeVars, page, panelVars>>

\* A row of the list: another one is selected and opens the panel, the selected one
\* toggles it.
ClickRow(d) ==
  /\ page = "list" /\ d \in documents /\ ~modal
  /\ UNCHANGED <<storeVars, pageVars, activeTab, deletion>>
  /\ IF d = context.sel
     THEN collapsed' = ~collapsed /\ UNCHANGED <<fetchVars, localVars>>
     ELSE /\ collapsed' = FALSE
          /\ Runs([context EXCEPT !.sel = d], "list", documents)
          /\ UNCHANGED visited
          /\ LocalAfter
  /\ DialogAfter

\* The button of the header, or dragging the panel's handle.
TogglePanel ==
  /\ page # "away" /\ ~modal
  /\ collapsed' = ~collapsed
  /\ UNCHANGED <<storeVars, pageVars, fetchVars, activeTab, localVars, deletion>>
  /\ DialogAfter
-----------------------------------------------------------------------------
(* Answers                                                                 *)

\* fetchPreviewData: the URL, the text and the extraction; a part that could not be
\* had, or does not exist, is null.
ListAnswered(d, url, ocr, fields) ==
  /\ flight.by = "list" /\ flight.doc = d
  /\ url \in (IF flight.path THEN {0, d} ELSE {0})
  /\ ocr \in (IF d \in Texts THEN {0, d} ELSE {0})
  /\ fields \in (IF d \in Extracted THEN {0, d} ELSE {0})
  /\ Runs([context EXCEPT !.url = url, !.urlDoc = d, !.ocr = ocr,
                           !.fields = fields, !.loading = FALSE], "list", documents)
  /\ visited' = FALSE
  /\ UNCHANGED <<storeVars, pageVars, panelVars, deleteVars>>
  /\ LocalAfter

\* Its catch branch.  The effect runs again only if signedUrlDocId changes.
ListFailed(d) ==
  /\ flight.by = "list" /\ flight.doc = d
  /\ LET x == [context EXCEPT !.url = 0, !.urlDoc = 0, !.ocr = 0,
                             !.fields = 0, !.loading = FALSE]
     IN IF context.urlDoc # 0 THEN Runs(x, "list", documents)
        ELSE context' = x /\ flight' = NoFlight /\ gaveUp' = TRUE
  /\ UNCHANGED visited
  /\ UNCHANGED <<storeVars, pageVars, panelVars, deleteVars>>
  /\ LocalAfter

\* The URL for a document's page, null after an error.
DetailAnswered(d, url) ==
  /\ flight.by = "detail" /\ flight.doc = d
  /\ url \in {0, d}
  /\ Runs([context EXCEPT !.url = url, !.urlDoc = d], page, documents)
  /\ UNCHANGED visited
  /\ UNCHANGED <<storeVars, pageVars, panelVars, deleteVars>>
  /\ LocalAfter

\* A promise without a catch: nothing is set.
DetailRejected(d) ==
  /\ flight.by = "detail" /\ flight.doc = d
  /\ flight' = NoFlight /\ gaveUp' = TRUE
  /\ UNCHANGED <<storeVars, pageVars, context, visited, panelVars, localVars, deleteVars>>

Answered(d) ==
  \/ \E url, ocr, fields \in Doc0 : ListAnswered(d, url, ocr, fields)
  \/ ListFailed(d)
  \/ \E url \in Doc0 : DetailAnswered(d, url)
  \/ DetailRejected(d)
-----------------------------------------------------------------------------
(* The panel                                                               *)

\* handlePdfLoad, of the panel's reader or the modal's.
PdfLoaded ==
  /\ ShowsPdf /\ ~loaded
  /\ loaded' = TRUE /\ totalPages' = Pages[pdfUrl]
  /\ UNCHANGED <<storeVars, pageVars, fetchVars, panelVars, modal, currentPage, rendered, ahead, deleteVars>>

\* onRenderSuccess: the page asked for exists and is drawn.
PageRendered ==
  /\ ShowsPdf /\ loaded /\ ~rendered
  /\ currentPage <= Pages[pdfUrl]
  /\ rendered' = TRUE
  /\ UNCHANGED <<storeVars, pageVars, fetchVars, panelVars, modal, currentPage, totalPages, loaded, ahead, deleteVars>>

\* The tab of the PDF is disabled for an image.
PickTab(tab) ==
  /\ HasPanel /\ ~collapsed /\ ~modal
  /\ tab = "pdf" => isPdf
  /\ activeTab' = tab
  /\ UNCHANGED <<storeVars, pageVars, fetchVars, collapsed, localVars, deleteVars>>

SetModal(open) ==
  /\ HasPanel /\ (open => ~collapsed)
  /\ modal' = open
  /\ UNCHANGED <<storeVars, pageVars, fetchVars, panelVars, currentPage, totalPages, loaded, rendered, ahead, deleteVars>>

\* setCurrentPage to the page after or before the one that was rendered.
Turns(forward) ==
  /\ totalPages > 1
  /\ IF forward THEN currentPage < totalPages ELSE currentPage > 1
  /\ currentPage' = IF forward THEN currentPage + 1 ELSE currentPage - 1
  /\ ahead' = (ahead \/ ~loaded)
  /\ UNCHANGED <<storeVars, pageVars, fetchVars, panelVars, modal, totalPages, loaded, rendered, deleteVars>>

\* The container and an open modal both listen to the arrow keys, and both set the
\* same page.
PressArrow(forward) == HasPanel /\ activeTab = "pdf" /\ Turns(forward)

\* The buttons over the preview, or of the modal.
ClickArrow(forward) ==
  /\ HasPanel /\ activeTab = "pdf"
  /\ modal \/ (isPdf /\ ~collapsed)
  /\ Turns(forward)
-----------------------------------------------------------------------------
(* The delete dialog                                                       *)

\* Both bars take the name and the path from the context.
DialogOf_bug == [at |-> "row", doc |-> context.sel, named |-> context.meta]

\* A page gives its dialog the document itself; the list gives it what the context
\* holds, the document from the selection, the name and the path from the metadata.
DialogOf ==
  IF page = "list" THEN [at |-> "row", doc |-> context.sel, named |-> context.meta]
  ELSE [at |-> "row", doc |-> page, named |-> page]

ConfirmDelete ==
  /\ page # "away" /\ HasActions /\ ~modal
  /\ deletion.at = "none" /\ ~isDeleting
  /\ deletion' = DialogOf
  /\ isDeleting' = TRUE
  /\ UNCHANGED <<storeVars, pageVars, fetchVars, panelVars, localVars>>

\* The row; deleting a row that is gone succeeds.  "lost": the reply is.
DeleteRow(out) ==
  /\ deletion.at = "row"
  /\ db' = IF out = "error" THEN db ELSE db \ {deletion.doc}
  /\ missing' = missing \cap db'
  /\ IF out = "ok"
     THEN deletion' = [deletion EXCEPT !.at = "file"] /\ UNCHANGED isDeleting
     ELSE deletion' = NoDeletion /\ isDeleting' = FALSE
  /\ UNCHANGED <<pageVars, fetchVars, panelVars, localVars>>

\* The object of filePath, of whichever document that is; a storage error is only
\* logged.  Then the list opens, or is refreshed if it is open.
RemoveFile(out) ==
  /\ deletion.at = "file"
  /\ missing' = IF out = "error" THEN missing ELSE missing \cup ({deletion.named} \cap db)
  /\ deletion' = NoDeletion
  /\ UNCHANGED <<db, panelVars>>
  /\ IF page = "list" THEN RefreshedList /\ DialogAfter ELSE Mounts(context, "list")

\* A document is deleted in another tab.
DeletedElsewhere(d) ==
  /\ d \in db
  /\ db' = db \ {d}
  /\ missing' = missing \ {d}
  /\ UNCHANGED <<pageVars, fetchVars, panelVars, localVars, deleteVars>>

Next ==
  \/ \E p \in {"list", "away"} \cup Docs : Open(p)
  \/ Refresh
  \/ \E s \in Doc0 : Reload(s)
  \/ \E d \in Docs : ClickRow(d)
  \/ TogglePanel
  \/ \E d \in Docs : Answered(d)
  \/ PdfLoaded
  \/ PageRendered
  \/ \E tab \in {"pdf", "text"} : PickTab(tab)
  \/ \E open \in BOOLEAN : SetModal(open)
  \/ \E forward \in BOOLEAN : PressArrow(forward) \/ ClickArrow(forward)
  \/ ConfirmDelete
  \/ \E out \in {"ok", "error", "lost"} : DeleteRow(out)
  \/ \E out \in {"ok", "error"} : RemoveFile(out)
  \/ \E d \in Docs : DeletedElsewhere(d)

Spec == Init /\ [][Next]_vars

\* A request that is not superseded for ever is answered, or fails.
FairSpec == Spec /\ WF_vars(\E d \in Docs : Answered(d))
-----------------------------------------------------------------------------
(* Properties                                                              *)

\* The variables have their types; a fetch is the open page's, and a delete that
\* has not ended keeps isDeleting set only where its dialog is.
TypeOK ==
  /\ db \subseteq Docs /\ missing \subseteq db
  /\ page \in {"list", "away"} \cup Docs /\ documents \subseteq Docs
  /\ context \in Context /\ flight \in Flight
  /\ collapsed \in BOOLEAN /\ activeTab \in {"pdf", "text"}
  /\ modal \in BOOLEAN /\ currentPage \in Nat \ {0} /\ totalPages \in Nat
  /\ loaded \in BOOLEAN /\ rendered \in BOOLEAN
  /\ deletion \in Deletion /\ isDeleting \in BOOLEAN
  /\ visited \in BOOLEAN /\ ahead \in BOOLEAN /\ gaveUp \in BOOLEAN
  /\ flight.by = "list" => page = "list" /\ flight.doc = context.sel
  /\ flight.by = "detail" => page = flight.doc

\* The PDF is the selected document's, through every order of clicks, answers,
\* failures, refreshes, reloads and changes of page (documents layout.tsx:35).
PdfIsSelected == page # "away" => pdfUrl \in {0, context.sel}

\* So is the text on the list, as long as no document's page was open since the
\* list's last answer.
TextIsSelected == page = "list" /\ ~visited => shownText \in {0, context.sel}

\* The fields offered for export came with the URL, under the same condition: while
\* the preview of another document loads (isUrlStale) they are those of the document
\* before, under the new one's name; then they are the selected document's.
FieldsGoWithUrl == ~visited => exported \in {0, context.urlDoc}

\* On the list, the name, type and file of a listed document that is selected are its own.
NamesSelected ==
  page = "list" /\ context.sel \in documents => context.meta = context.sel /\ context.mime = context.sel

\* The page shown exists, unless it was turned before the PDF was read, and the
\* caption counts the pages of the PDF above it.
PageExists ==
  /\ ShowsPdf /\ ~ahead => currentPage <= Pages[pdfUrl]
  /\ ShowsCaption => totalPages = Pages[pdfUrl]

\* What the panel shows is of the selected document; what the list's actions use is,
\* too, but for the fields while another preview loads and after a document's page.
PanelShowsSelected ==
  PdfIsSelected /\ TextIsSelected /\ FieldsGoWithUrl /\ NamesSelected /\ PageExists

\* A dialog's delete is of the one document it names, and whose object it removes,
\* unless the document it deletes is gone already (delete-dialog.tsx:27).
DialogDeletesNamed ==
  deletion.at # "none" => deletion.named = deletion.doc \/ deletion.doc \notin db

\* What the dialog says: it deletes the document it names, so that no other row loses
\* its object (delete-dialog.tsx:76).  It does not hold: a document that is deleted on
\* its own page stays the list's selection, beside the metadata of the one before.
RowHasFile == missing = {}

\* The panel never stays at its spinner, unless the fetch failed: an answer cancelled
\* by another click, a refresh or a change of page is always asked for again
\* (isLoading of the layout, documents-table.tsx:172).
PreviewSettles == []<>(isUrlStale /\ page # "away" => gaveUp)
=============================================================================
