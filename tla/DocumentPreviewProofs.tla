----------------------- MODULE DocumentPreviewProofs -----------------------
(* Theorems about DocumentPreview, for every value of its constants.       *)
EXTENDS DocumentPreview, TLAPS

\* The variables an action may leave alone, spelled out.
USE DEF storeVars, pageVars, panelVars, localVars, fetchVars, deleteVars, vars

PageSet == {"list", "away"} \cup Docs

LEMMA Kinds == /\ 0 \notin Docs /\ "list" \notin Docs /\ "away" \notin Docs
               /\ Docs \subseteq Doc0 /\ 0 \in Doc0
BY PreviewAssumption DEF Doc0

LEMMA EmptyType == Empty \in Context /\ NoFlight \in Flight /\ NoDeletion \in Deletion
BY DEF Empty, Context, NoFlight, Flight, NoDeletion, Deletion, Doc0

-----------------------------------------------------------------------------
(* What an effect writes and asks for                                      *)

\* A URL is of the document it was fetched for, and its type is known when that
\* document is the selected one.
Sound(x) ==
  /\ x.url \in {0, x.urlDoc}
  /\ x.url # 0 /\ x.sel = x.urlDoc => x.mime = x.sel

\* Without a selection nothing was fetched.
Bare(x) == x.sel = 0 => x.url = 0 /\ x.urlDoc = 0 /\ x.ocr = 0 /\ x.fields = 0

\* The text and the fields came with the URL.
Fresh(x) == x.ocr \in {0, x.urlDoc} /\ x.fields \in {0, x.urlDoc}

Named(x, docs) == x.sel \in docs => x.meta = x.sel /\ x.mime = x.sel

LEMMA WrittenSound ==
  ASSUME NEW x \in Context, NEW p \in PageSet, NEW docs \in SUBSET Docs,
         x.url \in {0, x.urlDoc},
         p \in Docs \/ Bare(x),
         p \in Docs \/ (p = "list" /\ x.sel \in docs) \/ Sound(x)
  PROVE  LET y == Written(x, p, docs)
         IN  /\ y \in Context
             /\ Sound(y) /\ Bare(y)
             /\ p \notin Docs /\ Fresh(x) => Fresh(y)
             /\ p = "list" => Named(y, docs) /\ y.sel = x.sel
             /\ p \in Docs => y.sel = p /\ y.mime = p
             /\ p = "away" => y = x
             /\ y.urlDoc = x.urlDoc \/ y.sel = 0
<1> USE Kinds
<1> DEFINE y == Written(x, p, docs)
<1>1. CASE p = "away"
  <2>1. y = x
    BY <1>1 DEF Written
  <2>2. QED
    BY <1>1, <2>1
<1>2. CASE p = "list" /\ x.sel = 0
  <2>0. p # "away" /\ x.sel \notin docs
    BY <1>2
  <2>1. y = [x EXCEPT !.url = 0, !.urlDoc = 0, !.mime = 0, !.ocr = 0]
    BY <1>2, <2>0 DEF Written
  <2>2. y \in Context
    BY <2>1 DEF Context
  <2>3. y.url = 0 /\ y.urlDoc = 0 /\ y.ocr = 0 /\ y.sel = 0 /\ y.fields = x.fields
    BY <1>2, <2>1 DEF Context
  <2>4. x.fields = 0
    BY <1>2 DEF Bare
  <2>5. QED
    BY <1>2, <2>2, <2>3, <2>4 DEF Sound, Bare, Fresh, Named
<1>3. CASE p = "list" /\ x.sel \in docs
  <2>0. p # "away" /\ x.sel # 0
    BY <1>3
  <2>1. y = [x EXCEPT !.mime = x.sel, !.meta = x.sel]
    BY <1>3, <2>0 DEF Written
  <2>2. y \in Context
    BY <2>1 DEF Context
  <2>3. /\ y.sel = x.sel /\ y.mime = x.sel /\ y.meta = x.sel
        /\ y.url = x.url /\ y.urlDoc = x.urlDoc /\ y.ocr = x.ocr /\ y.fields = x.fields
    BY <2>1 DEF Context
  <2>4. QED
    BY <1>3, <2>2, <2>3 DEF Sound, Bare, Fresh, Named
<1>4. CASE p = "list" /\ x.sel # 0 /\ x.sel \notin docs
  <2>1. y = x
    BY <1>4 DEF Written
  <2>2. QED
    BY <1>4, <2>1 DEF Named
<1>5. CASE p \in Docs
  <2>1. y = [x EXCEPT !.sel = p, !.mime = p, !.ocr = IF p \in Texts THEN p ELSE 0]
    BY <1>5 DEF Written
  <2>2. y \in Context
    BY <1>5, <2>1 DEF Context
  <2>3. y.sel = p /\ y.mime = p /\ y.url = x.url /\ y.urlDoc = x.urlDoc
    BY <2>1 DEF Context
  <2>4. QED
    BY <1>5, <2>2, <2>3 DEF Sound, Bare
<1>6. QED
  BY <1>1, <1>2, <1>3, <1>4, <1>5 DEF PageSet

\* A fetch is for what the open page shows.
FlightOf(f, x, p) ==
  /\ f \in Flight
  /\ f.by = "list" => p = "list" /\ f.doc = x.sel
  /\ f.by = "detail" => p = f.doc
  /\ f.by = "list" /\ f.path => x.mime = x.sel

LEMMA FetchedSound ==
  ASSUME NEW y \in Context, NEW p \in PageSet, NEW docs \in SUBSET Docs,
         p = "list" => Named(y, docs)
  PROVE  FlightOf(Fetched(y, p, docs), y, p)
<1> USE Kinds
<1> DEFINE f == Fetched(y, p, docs)
<1>1. CASE p = "list" /\ Needed(y, y.sel)
  <2> DEFINE known == y.sel \in docs
  <2>1. f = [by |-> "list", doc |-> y.sel, path |-> known]
    BY <1>1 DEF Fetched
  <2>2. known \in BOOLEAN /\ (known => y.mime = y.sel)
    BY <1>1 DEF Named
  <2> HIDE DEF f, known
  <2>3. f \in Flight
    BY <2>1, <2>2 DEF Flight, Context
  <2>4. FlightOf(f, y, p)
    BY <1>1, <2>1, <2>2, <2>3 DEF FlightOf
  <2>5. QED
    BY <2>4 DEF f
<1>2. CASE p \in Docs /\ Needed(y, p)
  <2>1. f = [by |-> "detail", doc |-> p, path |-> TRUE]
    BY <1>2 DEF Fetched
  <2>2. QED
    BY <1>2, <2>1 DEF FlightOf, Flight
<1>3. CASE ~(p = "list" /\ Needed(y, y.sel)) /\ ~(p \in Docs /\ Needed(y, p))
  <2>1. f = NoFlight
    BY <1>3 DEF Fetched
  <2>2. QED
    BY <2>1, EmptyType DEF FlightOf, NoFlight
<1>4. QED
  BY <1>1, <1>2, <1>3

\* The effect of a page.
LEMMA RunsSound ==
  ASSUME NEW x \in Context, NEW p \in PageSet, NEW docs \in SUBSET Docs,
         x.url \in {0, x.urlDoc},
         p \in Docs \/ Bare(x),
         p \in Docs \/ (p = "list" /\ x.sel \in docs) \/ Sound(x),
         Runs(x, p, docs)
  PROVE  /\ context' \in Context /\ gaveUp' \in BOOLEAN
         /\ FlightOf(flight', context', p)
         /\ Sound(context') /\ Bare(context')
         /\ p \notin Docs /\ Fresh(x) => Fresh(context')
         /\ p = "list" => Named(context', docs)
<1> DEFINE y == Written(x, p, docs)
           f == Fetched(y, p, docs)
<1>1. /\ context' = (IF f.by = "list" THEN [y EXCEPT !.loading = TRUE] ELSE y)
      /\ flight' = f /\ gaveUp' = FALSE
  BY DEF Runs
<1>2. /\ y \in Context /\ Sound(y) /\ Bare(y)
      /\ p \notin Docs /\ Fresh(x) => Fresh(y)
      /\ p = "list" => Named(y, docs)
  BY WrittenSound
<1> HIDE DEF y
<1>3. FlightOf(f, y, p)
  BY <1>2, FetchedSound
<1> HIDE DEF f
<1>4. /\ context' \in Context
      /\ context'.sel = y.sel /\ context'.url = y.url /\ context'.urlDoc = y.urlDoc /\ context'.mime = y.mime
      /\ context'.ocr = y.ocr /\ context'.meta = y.meta /\ context'.fields = y.fields
  BY <1>1, <1>2 DEF Context
<1>5. gaveUp' \in BOOLEAN
  BY <1>1
<1>6. FlightOf(flight', context', p)
  BY <1>1, <1>3, <1>4 DEF FlightOf
<1>7. QED
  BY <1>2, <1>4, <1>5, <1>6 DEF Sound, Bare, Fresh, Named

-----------------------------------------------------------------------------
(* The type invariant, with what the panel's invariant needs of the context *)

\* TypeOK but the two lines that FlightOf strengthens, and the panel's own state.
Types ==
  /\ db \subseteq Docs
  /\ page \in PageSet /\ documents \subseteq Docs
  /\ context \in Context
  /\ collapsed \in BOOLEAN /\ activeTab \in {"pdf", "text"}
  /\ deletion \in Deletion /\ isDeleting \in BOOLEAN
  /\ visited \in BOOLEAN /\ gaveUp \in BOOLEAN

ContextInv ==
  /\ FlightOf(flight, context, page)
  /\ Sound(context) /\ Bare(context)
  /\ page \in Docs => visited
  /\ ~visited => Fresh(context)
  /\ page = "list" => Named(context, documents)

Base == Types /\ ContextInv

LEMMA BaseInit == Init => Base
<1> SUFFICES ASSUME Init PROVE Base
  OBVIOUS
<1> USE Kinds, EmptyType
<1>1. isDeleting \in BOOLEAN /\ visited \in BOOLEAN /\ gaveUp \in BOOLEAN /\ ~visited
  BY DEF Init
<1>2. Types
  BY <1>1 DEF Init, Types, PageSet
<1>3. ContextInv
  BY <1>1 DEF Init, ContextInv, FlightOf, NoFlight, Empty, Sound, Bare, Fresh
<1>4. QED
  BY <1>2, <1>3 DEF Base

\* A page opens.
LEMMA MountsSound ==
  ASSUME Base, db' \in SUBSET Docs, NEW p \in PageSet, Mounts(context, p),
         UNCHANGED panelVars, deletion' \in Deletion
  PROVE  Base'
<1> USE Kinds
<1>1. page' = p /\ documents' \in SUBSET Docs /\ Runs(context, p, documents')
  BY DEF Mounts
<1>2. context \in Context /\ Sound(context) /\ Bare(context)
  BY DEF Base, Types, ContextInv
<1>3. /\ context' \in Context /\ gaveUp' \in BOOLEAN
      /\ FlightOf(flight', context', p)
      /\ Sound(context') /\ Bare(context')
      /\ p \notin Docs /\ Fresh(context) => Fresh(context')
      /\ p = "list" => Named(context', documents')
  BY <1>1, <1>2, RunsSound DEF Sound
<1>4. visited' = (visited \/ p \in Docs)
  BY DEF Mounts
<1>5. isDeleting' \in BOOLEAN
  BY DEF Mounts, DialogAfter, Base, Types
<1>6. visited' \in BOOLEAN
  BY <1>4 DEF Base, Types
<1>7. Types'
  BY <1>1, <1>3, <1>5, <1>6 DEF Base, Types
<1>8. ~visited' => Fresh(context')
  BY <1>3, <1>4 DEF Base, ContextInv
<1>9. ContextInv'
  BY <1>1, <1>3, <1>4, <1>8 DEF ContextInv
<1>10. QED
  BY <1>7, <1>9 DEF Base

\* The list is given anew.
LEMMA RefreshedSound ==
  ASSUME Base, db' \in SUBSET Docs, page = "list", RefreshedList,
         UNCHANGED panelVars, deletion' \in Deletion, isDeleting' \in BOOLEAN
  PROVE  Base'
<1> USE Kinds
<1>1. page' = "list" /\ documents' \in SUBSET Docs /\ visited' = visited
  BY DEF RefreshedList
<1>2. context \in Context /\ Sound(context) /\ Bare(context) /\ (~visited => Fresh(context))
  BY DEF Base, Types, ContextInv
<1>3. CASE context.sel \in documents \cup documents'
  <2>1. Runs(context, "list", documents')
    BY <1>3 DEF RefreshedList
  <2>2. /\ context' \in Context /\ gaveUp' \in BOOLEAN
        /\ FlightOf(flight', context', "list")
        /\ Sound(context') /\ Bare(context')
        /\ Fresh(context) => Fresh(context')
        /\ Named(context', documents')
    BY <1>1, <1>2, <2>1, RunsSound DEF Sound, PageSet
  <2>3. QED
    BY <1>1, <1>2, <2>2 DEF Base, Types, ContextInv, PageSet
<1>4. CASE context.sel \notin documents \cup documents'
  <2>1. UNCHANGED <<context, flight, gaveUp>>
    BY <1>4 DEF RefreshedList
  <2>2. QED
    BY <1>1, <1>4, <2>1 DEF Base, Types, ContextInv, Named, PageSet
<1>5. QED
  BY <1>3, <1>4

\* An effect of the list on a context of its own documents, or one whose fetch ended.
LEMMA ListRunsSound ==
  ASSUME Base, page = "list", NEW x \in Context, x.url \in {0, x.urlDoc}, Bare(x),
         x.sel \in documents \/ Sound(x),
         Runs(x, "list", documents),
         UNCHANGED <<db, page, documents>>,
         visited' \in BOOLEAN, ~visited' => Fresh(x),
         collapsed' \in BOOLEAN, activeTab' \in {"pdf", "text"},
         deletion' \in Deletion, isDeleting' \in BOOLEAN
  PROVE  Base'
<1>1. documents \in SUBSET Docs /\ "list" \in PageSet
  BY DEF Base, Types, PageSet
<1>2. /\ context' \in Context /\ gaveUp' \in BOOLEAN
      /\ FlightOf(flight', context', "list")
      /\ Sound(context') /\ Bare(context')
      /\ Fresh(x) => Fresh(context')
      /\ Named(context', documents)
  BY <1>1, RunsSound, Kinds
<1>3. QED
  BY <1>1, <1>2, Kinds DEF Base, Types, ContextInv

LEMMA BaseInductive ==
  ASSUME Base, [Next]_vars
  PROVE  Base'
<1> USE Kinds
<1>0. /\ context \in Context /\ documents \in SUBSET Docs /\ db \in SUBSET Docs
      /\ Sound(context) /\ Bare(context) /\ deletion \in Deletion
      /\ isDeleting \in BOOLEAN /\ visited \in BOOLEAN
      /\ collapsed \in BOOLEAN /\ activeTab \in {"pdf", "text"}
  BY DEF Base, Types, ContextInv
<1>1. ASSUME NEW p \in {"list", "away"} \cup Docs, Open(p) PROVE Base'
  BY <1>0, <1>1, MountsSound DEF Open, PageSet
<1>2. CASE Refresh
  <2>1. page = "list" /\ RefreshedList /\ UNCHANGED <<db, panelVars, deletion>>
    BY <1>2 DEF Refresh
  <2>2. isDeleting' \in BOOLEAN
    BY <1>0, <1>2 DEF Refresh, DialogAfter
  <2>3. QED
    BY <1>0, <2>1, <2>2, RefreshedSound
<1>3. ASSUME NEW s \in Doc0, Reload(s) PROVE Base'
  <2>1. /\ page' = page /\ documents' \in SUBSET Docs /\ visited' = (page \in Docs)
        /\ deletion' \in Deletion /\ isDeleting' \in BOOLEAN /\ UNCHANGED <<db, panelVars>>
    BY <1>0, <1>3, EmptyType DEF Reload
  <2>2. page \in PageSet
    BY DEF Base, Types
  <2>3. visited' \in BOOLEAN
    BY <2>1
  <2>4. ASSUME /\ context' \in Context /\ gaveUp' \in BOOLEAN
               /\ FlightOf(flight', context', page)
               /\ Sound(context') /\ Bare(context')
               /\ page \notin Docs => Fresh(context')
               /\ page = "list" => Named(context', documents')
        PROVE  Base'
    <3>1. Types'
      BY <1>0, <2>1, <2>2, <2>3, <2>4 DEF Types
    <3>2. ContextInv'
      BY <2>1, <2>4 DEF ContextInv
    <3>3. QED
      BY <3>1, <3>2 DEF Base
  <2>5. CASE Runs([Empty EXCEPT !.sel = s], page, documents')
    <3> DEFINE x == [Empty EXCEPT !.sel = s]
    <3>1. /\ x \in Context /\ x.url = 0 /\ x.urlDoc = 0 /\ x.ocr = 0 /\ x.fields = 0
      BY DEF Empty, Context, Doc0
    <3>2. x.url \in {0, x.urlDoc} /\ Sound(x) /\ Bare(x) /\ Fresh(x)
      BY <3>1 DEF Sound, Bare, Fresh
    <3> HIDE DEF x
    <3>3. Runs(x, page, documents')
      BY <2>5 DEF x
    <3>4. QED
      BY <2>1, <2>2, <2>4, <3>1, <3>2, <3>3, RunsSound
  <2>6. CASE /\ page \in Docs /\ s # 0
             /\ context' = [Written(Empty, page, {}) EXCEPT !.sel = s]
             /\ flight' = Fetched(Empty, page, {})
             /\ gaveUp' = FALSE
    <3>1. Written(Empty, page, {}) = [Empty EXCEPT !.sel = page, !.mime = page,
                                        !.ocr = IF page \in Texts THEN page ELSE 0]
      BY <2>6 DEF Written
    <3>2. /\ context' \in Context
          /\ context'.url = 0 /\ context'.urlDoc = 0 /\ context'.sel = s
      BY <2>6, <3>1 DEF Empty, Context, Doc0
    <3>3. Sound(context') /\ Bare(context')
      BY <2>6, <3>2 DEF Sound, Bare
    <3>4. Empty \in Context /\ {} \in SUBSET Docs
      BY EmptyType
    <3>5. FlightOf(flight', Empty, page)
      BY <2>2, <2>6, <3>4, FetchedSound DEF Named
    <3>6. flight'.by # "list"
      BY <2>6 DEF Fetched, NoFlight
    <3>7. FlightOf(flight', context', page)
      BY <3>5, <3>6 DEF FlightOf
    <3>8. QED
      BY <2>4, <2>6, <3>2, <3>3, <3>7
  <2>7. QED
    BY <1>3, <2>5, <2>6 DEF Reload
<1>4. ASSUME NEW d \in Docs, ClickRow(d) PROVE Base'
  <2>1. /\ page = "list" /\ d \in documents /\ UNCHANGED <<db, pageVars, activeTab, deletion>>
    BY <1>4 DEF ClickRow
  <2>2. isDeleting' \in BOOLEAN
    BY <1>0, <1>4 DEF ClickRow, DialogAfter
  <2>3. CASE d = context.sel
    <3>1. collapsed' = ~collapsed /\ UNCHANGED fetchVars
      BY <1>4, <2>3 DEF ClickRow
    <3>2. QED
      BY <2>1, <2>2, <3>1 DEF Base, Types, ContextInv
  <2>4. CASE d # context.sel
    <3> DEFINE x == [context EXCEPT !.sel = d]
    <3>1. collapsed' = FALSE /\ visited' = visited /\ Runs(x, "list", documents)
      BY <1>4, <2>4 DEF ClickRow
    <3>2. /\ x \in Context /\ x.sel = d /\ x.url = context.url /\ x.urlDoc = context.urlDoc
          /\ x.ocr = context.ocr /\ x.fields = context.fields
      BY <1>0 DEF Context, Doc0
    <3> HIDE DEF x
    <3>3. x.url \in {0, x.urlDoc} /\ Bare(x) /\ x.sel \in documents
      BY <1>0, <2>1, <3>2 DEF Sound, Bare
    <3>4. ~visited' => Fresh(x)
      BY <3>1, <3>2 DEF Base, ContextInv, Fresh
    <3>5. QED
      BY <1>0, <2>1, <2>2, <3>1, <3>2, <3>3, <3>4, ListRunsSound
  <2>5. QED
    BY <2>3, <2>4
<1>5. CASE TogglePanel
  <2>1. isDeleting' \in BOOLEAN
    BY <1>0, <1>5 DEF TogglePanel, DialogAfter
  <2>2. QED
    BY <1>5, <2>1 DEF TogglePanel, Base, Types, ContextInv
<1>6. ASSUME NEW d \in Docs, NEW url \in Doc0, NEW ocr \in Doc0, NEW fields \in Doc0,
             ListAnswered(d, url, ocr, fields)
      PROVE  Base'
  <2> DEFINE x == [context EXCEPT !.url = url, !.urlDoc = d, !.ocr = ocr,
                               !.fields = fields, !.loading = FALSE]
  <2>1. /\ flight.by = "list" /\ flight.doc = d
        /\ url \in (IF flight.path THEN {0, d} ELSE {0})
        /\ ocr \in {0, d} /\ fields \in {0, d}
        /\ Runs(x, "list", documents)
        /\ visited' = FALSE /\ UNCHANGED <<db, pageVars, panelVars, deleteVars>>
    BY <1>6 DEF ListAnswered
  <2>2. page = "list" /\ context.sel = d /\ (flight.path => context.mime = d)
    BY <2>1 DEF Base, ContextInv, FlightOf
  <2>3. /\ x \in Context /\ x.sel = d /\ x.url = url /\ x.urlDoc = d /\ x.mime = context.mime
        /\ x.ocr = ocr /\ x.fields = fields
    BY <1>0, <2>2 DEF Context, Doc0
  <2> HIDE DEF x
  <2>4. x.url \in {0, x.urlDoc} /\ Sound(x) /\ Bare(x) /\ Fresh(x)
    BY <2>1, <2>2, <2>3 DEF Sound, Bare, Fresh
  <2>5. QED
    BY <1>0, <2>1, <2>2, <2>3, <2>4, ListRunsSound
<1>7. ASSUME NEW d \in Docs, ListFailed(d) PROVE Base'
  <2> DEFINE x == [context EXCEPT !.url = 0, !.urlDoc = 0, !.ocr = 0, !.fields = 0,
                               !.loading = FALSE]
  <2>1. /\ flight.by = "list" /\ flight.doc = d
        /\ UNCHANGED <<visited, db, pageVars, panelVars, deleteVars>>
    BY <1>7 DEF ListFailed
  <2>2. page = "list"
    BY <2>1 DEF Base, ContextInv, FlightOf
  <2>3. /\ x \in Context /\ x.sel = context.sel /\ x.url = 0 /\ x.urlDoc = 0
        /\ x.ocr = 0 /\ x.fields = 0 /\ x.mime = context.mime /\ x.meta = context.meta
    BY <1>0 DEF Context, Doc0
  <2>4. \/ Runs(x, "list", documents)
        \/ context' = x /\ flight' = NoFlight /\ gaveUp' = TRUE
    BY <1>7 DEF ListFailed
  <2> HIDE DEF x
  <2>5. x.url \in {0, x.urlDoc} /\ Sound(x) /\ Bare(x) /\ Fresh(x)
    BY <2>3 DEF Sound, Bare, Fresh
  <2>6. CASE Runs(x, "list", documents)
    BY <1>0, <2>1, <2>2, <2>3, <2>5, <2>6, ListRunsSound
  <2>7. CASE context' = x /\ flight' = NoFlight /\ gaveUp' = TRUE
    <3>1. FlightOf(flight', context', "list")
      BY <2>7, EmptyType DEF FlightOf, NoFlight
    <3>2. Named(context', documents)
      BY <2>2, <2>3, <2>7 DEF Base, ContextInv, Named
    <3>3. gaveUp' \in BOOLEAN
      BY <2>7
    <3>4. QED
      BY <2>1, <2>2, <2>3, <2>5, <2>7, <3>1, <3>2, <3>3 DEF Base, Types, ContextInv
  <2>8. QED
    BY <2>4, <2>6, <2>7
<1>8. ASSUME NEW d \in Docs, NEW url \in Doc0, DetailAnswered(d, url) PROVE Base'
  <2> DEFINE x == [context EXCEPT !.url = url, !.urlDoc = d]
  <2>1. /\ flight.by = "detail" /\ flight.doc = d /\ url \in {0, d}
        /\ Runs(x, page, documents)
        /\ UNCHANGED <<visited, db, pageVars, panelVars, deleteVars>>
    BY <1>8 DEF DetailAnswered
  <2>2. page = d /\ visited /\ page \in PageSet
    BY <2>1 DEF Base, Types, ContextInv, FlightOf
  <2>3. x \in Context /\ x.url \in {0, x.urlDoc}
    BY <1>0, <2>1 DEF Context, Doc0
  <2> HIDE DEF x
  <2>4. /\ context' \in Context /\ gaveUp' \in BOOLEAN
        /\ FlightOf(flight', context', page)
        /\ Sound(context') /\ Bare(context')
    BY <1>0, <2>1, <2>2, <2>3, RunsSound
  <2>5. QED
    BY <2>1, <2>2, <2>4 DEF Base, Types, ContextInv
<1>9. ASSUME NEW d \in Docs, DetailRejected(d) PROVE Base'
  <2>1. flight' = NoFlight /\ gaveUp' \in BOOLEAN
    BY <1>9 DEF DetailRejected
  <2>2. FlightOf(flight', context, page)
    BY <2>1, EmptyType DEF FlightOf, NoFlight
  <2>3. QED
    BY <1>9, <2>1, <2>2 DEF DetailRejected, Base, Types, ContextInv
<1>10. CASE PdfLoaded \/ PageRendered
  BY <1>10 DEF PdfLoaded, PageRendered, Base, Types, ContextInv
<1>11. ASSUME NEW tab \in {"pdf", "text"}, PickTab(tab) PROVE Base'
  BY <1>11 DEF PickTab, Base, Types, ContextInv
<1>12. ASSUME NEW open \in BOOLEAN, SetModal(open) PROVE Base'
  BY <1>12 DEF SetModal, Base, Types, ContextInv
<1>13. ASSUME NEW forward \in BOOLEAN, PressArrow(forward) \/ ClickArrow(forward) PROVE Base'
  BY <1>13 DEF PressArrow, ClickArrow, Turns, Base, Types, ContextInv
<1>14. CASE ConfirmDelete
  <2>1. deletion' \in Deletion /\ isDeleting' \in BOOLEAN
    <3>1. CASE page = "list"
      BY <1>0, <1>14, <3>1 DEF ConfirmDelete, DialogOf, Deletion, Context, Doc0
    <3>2. CASE page # "list"
      BY <1>0, <1>14, <3>2 DEF ConfirmDelete, DialogOf, Deletion, Doc0, Base, Types, PageSet
    <3>3. QED
      BY <3>1, <3>2
  <2>2. QED
    BY <1>14, <2>1 DEF ConfirmDelete, Base, Types, ContextInv
<1>15. ASSUME NEW out \in {"ok", "error", "lost"}, DeleteRow(out) PROVE Base'
  <2>1. deletion' \in Deletion /\ isDeleting' \in BOOLEAN
    BY <1>0, <1>15, EmptyType DEF DeleteRow, Deletion
  <2>2. QED
    BY <1>15, <2>1 DEF DeleteRow, Base, Types, ContextInv
<1>16. ASSUME NEW out \in {"ok", "error"}, RemoveFile(out) PROVE Base'
  <2>1. deletion' \in Deletion /\ UNCHANGED <<db, panelVars>> /\ "list" \in PageSet
    BY <1>16, EmptyType DEF RemoveFile, PageSet
  <2>2. CASE page = "list"
    <3>1. RefreshedList /\ isDeleting' \in BOOLEAN
      BY <1>0, <1>16, <2>2 DEF RemoveFile, DialogAfter
    <3>2. QED
      BY <1>0, <2>1, <2>2, <3>1, RefreshedSound
  <2>3. CASE page # "list"
    BY <1>0, <1>16, <2>1, <2>3, MountsSound DEF RemoveFile
  <2>4. QED
    BY <2>2, <2>3
<1>17. ASSUME NEW d \in Docs, DeletedElsewhere(d) PROVE Base'
  BY <1>17 DEF DeletedElsewhere, Base, Types, ContextInv
<1>18. CASE UNCHANGED vars
  BY <1>18 DEF Base, Types, ContextInv
<1>19. QED
  BY <1>1, <1>2, <1>3, <1>4, <1>5, <1>6, <1>7, <1>8, <1>9, <1>10, <1>11, <1>12, <1>13, <1>14,
     <1>15, <1>16, <1>17, <1>18 DEF Next, Answered
-----------------------------------------------------------------------------
(* The panel's own state                                                   *)

PanelTypes ==
  /\ modal \in BOOLEAN /\ currentPage \in Nat \ {0} /\ totalPages \in Nat
  /\ loaded \in BOOLEAN /\ rendered \in BOOLEAN /\ ahead \in BOOLEAN

\* A PDF that was read is the one of the URL, and so are its pages; the page shown is
\* one of its, unless it was turned before.
PdfInv ==
  /\ loaded => page # "away" /\ pdfUrl # 0 /\ totalPages = Pages[pdfUrl]
  /\ rendered => loaded
  /\ ~ahead /\ pdfUrl # 0 => currentPage = 1 \/ currentPage <= Pages[pdfUrl]

LEMMA UrlType == Base => pdfUrl \in Doc0 /\ \A d \in Docs : Pages[d] \in Nat
BY PreviewAssumption DEF Base, Types, Context, pdfUrl, Doc0

LEMMA LocalKeeps ==
  ASSUME PanelTypes, PdfInv, LocalAfter
  PROVE  PanelTypes' /\ PdfInv'
<1>1. CASE page' = "away"
  <2>1. /\ modal' = FALSE /\ currentPage' = 1 /\ totalPages' = 0
        /\ loaded' = FALSE /\ rendered' = FALSE /\ ahead' = FALSE
    BY <1>1 DEF LocalAfter
  <2>2. /\ loaded' \in BOOLEAN /\ rendered' \in BOOLEAN /\ ahead' \in BOOLEAN /\ modal' \in BOOLEAN
    BY <2>1
  <2>3. PanelTypes'
    BY <2>1, <2>2 DEF PanelTypes
  <2>4. PdfInv'
    BY <2>1 DEF PdfInv
  <2>5. QED
    BY <2>3, <2>4
<1>2. CASE page' # "away" /\ pdfUrl' # pdfUrl
  <2>1. /\ UNCHANGED <<modal, totalPages>>
        /\ currentPage' = 1 /\ loaded' = FALSE /\ rendered' = FALSE /\ ahead' = FALSE
    BY <1>2 DEF LocalAfter
  <2>2. /\ loaded' \in BOOLEAN /\ rendered' \in BOOLEAN /\ ahead' \in BOOLEAN
    BY <2>1
  <2>3. PanelTypes'
    BY <2>1, <2>2 DEF PanelTypes
  <2>4. PdfInv'
    BY <2>1 DEF PdfInv
  <2>5. QED
    BY <2>3, <2>4
<1>3. CASE page' # "away" /\ pdfUrl' = pdfUrl
  <2>1. UNCHANGED <<modal, totalPages, currentPage, loaded, rendered, ahead>>
    BY <1>3 DEF LocalAfter
  <2>2. PanelTypes'
    BY <2>1 DEF PanelTypes
  <2>3. PdfInv'
    BY <1>3, <2>1 DEF PdfInv
  <2>4. QED
    BY <2>2, <2>3
<1>4. QED
  BY <1>1, <1>2, <1>3

LEMMA PanelInductive ==
  ASSUME Base, PanelTypes, PdfInv, [Next]_vars
  PROVE  PanelTypes' /\ PdfInv'
<1>1. CASE LocalAfter
  BY <1>1, LocalKeeps
<1>2. CASE UNCHANGED <<page, context, localVars>>
  <2>1. pdfUrl' = pdfUrl
    BY <1>2 DEF pdfUrl, isUrlStale
  <2>2. QED
    BY <1>2, <2>1 DEF PanelTypes, PdfInv
<1>3. ASSUME NEW s \in Doc0, Reload(s) PROVE PanelTypes' /\ PdfInv'
  <2>1. /\ modal' = FALSE /\ currentPage' = 1 /\ totalPages' = 0
        /\ loaded' = FALSE /\ rendered' = FALSE /\ ahead' = FALSE
    BY <1>3 DEF Reload
  <2>2. /\ loaded' \in BOOLEAN /\ rendered' \in BOOLEAN /\ ahead' \in BOOLEAN /\ modal' \in BOOLEAN
    BY <2>1
  <2>3. PanelTypes'
    BY <2>1, <2>2 DEF PanelTypes
  <2>4. PdfInv'
    BY <2>1 DEF PdfInv
  <2>5. QED
    BY <2>3, <2>4
<1>4. ASSUME UNCHANGED <<page, context>> PROVE pdfUrl' = pdfUrl
  BY <1>4 DEF pdfUrl, isUrlStale
<1>5. CASE PdfLoaded
  <2>1. /\ page # "away" /\ pdfUrl # 0 /\ pdfUrl' = pdfUrl /\ page' = page
        /\ loaded' = TRUE /\ totalPages' = Pages[pdfUrl]
        /\ UNCHANGED <<modal, currentPage, rendered, ahead>>
    BY <1>4, <1>5 DEF PdfLoaded, ShowsPdf, HasPanel
  <2>2. Pages[pdfUrl] \in Nat
    BY <2>1, UrlType DEF Doc0
  <2>3. PanelTypes'
    BY <2>1, <2>2 DEF PanelTypes
  <2>4. PdfInv'
    BY <2>1 DEF PdfInv
  <2>5. QED
    BY <2>3, <2>4
<1>6. CASE PageRendered
  <2>1. /\ loaded /\ rendered' = TRUE /\ pdfUrl' = pdfUrl /\ page' = page
        /\ UNCHANGED <<modal, currentPage, totalPages, loaded, ahead>>
    BY <1>4, <1>6 DEF PageRendered
  <2>2. PanelTypes'
    BY <2>1 DEF PanelTypes
  <2>3. PdfInv'
    BY <2>1 DEF PdfInv
  <2>4. QED
    BY <2>2, <2>3
<1>7. ASSUME NEW open \in BOOLEAN, SetModal(open) PROVE PanelTypes' /\ PdfInv'
  <2>1. /\ modal' = open /\ pdfUrl' = pdfUrl /\ page' = page
        /\ UNCHANGED <<currentPage, totalPages, loaded, rendered, ahead>>
    BY <1>4, <1>7 DEF SetModal
  <2>2. QED
    BY <2>1 DEF PanelTypes, PdfInv
<1>8. ASSUME NEW forward \in BOOLEAN, PressArrow(forward) \/ ClickArrow(forward)
      PROVE  PanelTypes' /\ PdfInv'
  <2>1. /\ totalPages > 1
        /\ IF forward THEN currentPage < totalPages ELSE currentPage > 1
        /\ currentPage' = IF forward THEN currentPage + 1 ELSE currentPage - 1
        /\ ahead' = (ahead \/ ~loaded)
        /\ pdfUrl' = pdfUrl /\ page' = page
        /\ UNCHANGED <<modal, totalPages, loaded, rendered>>
    BY <1>4, <1>8 DEF PressArrow, ClickArrow, Turns
  <2>2. currentPage' \in Nat \ {0}
    BY <2>1 DEF PanelTypes
  <2>3. PanelTypes'
    BY <2>1, <2>2 DEF PanelTypes
  <2>4. ASSUME loaded, ~ahead PROVE currentPage' = 1 \/ currentPage' <= Pages[pdfUrl]
    <3>1. totalPages = Pages[pdfUrl] /\ (currentPage = 1 \/ currentPage <= Pages[pdfUrl])
      BY <2>4 DEF PdfInv
    <3>2. QED
      BY <2>1, <3>1 DEF PanelTypes
  <2>5. PdfInv'
    BY <2>1, <2>4 DEF PdfInv
  <2>6. QED
    BY <2>3, <2>5
<1>9. ASSUME NEW d \in Docs, Answered(d) PROVE LocalAfter \/ UNCHANGED <<page, context, localVars>>
  BY <1>9 DEF Answered, ListAnswered, ListFailed, DetailAnswered, DetailRejected
<1>10. ASSUME NEW d \in Docs, ClickRow(d) PROVE LocalAfter \/ UNCHANGED <<page, context, localVars>>
  BY <1>10 DEF ClickRow
<1>11. ASSUME NEW out \in {"ok", "error"}, RemoveFile(out) PROVE PanelTypes' /\ PdfInv'
  BY <1>1, <1>11 DEF RemoveFile, RefreshedList, Mounts
<1>12. QED
  BY <1>1, <1>2, <1>3, <1>5, <1>6, <1>7, <1>8, <1>9, <1>10, <1>11 DEF Next, Open, Mounts, Refresh,
     RefreshedList, TogglePanel, PickTab, ConfirmDelete, DeleteRow, DeletedElsewhere

-----------------------------------------------------------------------------
(* The delete dialog                                                       *)

\* The list was given every document that has a row: none is uploaded meanwhile that
\* could be selected without being listed.
DialogInv ==
  /\ missing \subseteq db
  /\ page = "list" => db \subseteq documents
  /\ DialogDeletesNamed

LEMMA DialogInductive ==
  ASSUME Base, DialogInv, [Next]_vars
  PROVE  DialogInv'
<1> USE Kinds
<1>1. CASE UNCHANGED <<storeVars, pageVars, deletion>>
  BY <1>1 DEF DialogInv, DialogDeletesNamed
<1>2. ASSUME UNCHANGED storeVars, deletion' \in {deletion, NoDeletion},
             page' = "list" => documents' = db
      PROVE  DialogInv'
  BY <1>2 DEF DialogInv, DialogDeletesNamed, NoDeletion
<1>3. CASE \/ \E p \in {"list", "away"} \cup Docs : Open(p)
           \/ Refresh
           \/ \E s \in Doc0 : Reload(s)
  BY <1>2, <1>3 DEF Open, Mounts, Refresh, RefreshedList, Reload
<1>4. CASE \/ \E d \in Docs : ClickRow(d)
           \/ TogglePanel
           \/ \E d \in Docs : Answered(d)
           \/ PdfLoaded
           \/ PageRendered
           \/ \E tab \in {"pdf", "text"} : PickTab(tab)
           \/ \E open \in BOOLEAN : SetModal(open)
           \/ \E forward \in BOOLEAN : PressArrow(forward) \/ ClickArrow(forward)
  BY <1>1, <1>4 DEF ClickRow, TogglePanel, Answered, ListAnswered, ListFailed, DetailAnswered, DetailRejected,
     PdfLoaded, PageRendered, PickTab, SetModal, PressArrow, ClickArrow, Turns
<1>5. CASE ConfirmDelete
  <2>1. UNCHANGED <<storeVars, pageVars>> /\ deletion' = DialogOf
    BY <1>5 DEF ConfirmDelete
  <2>2. DialogOf.named = DialogOf.doc \/ DialogOf.doc \notin db
    <3>1. CASE page = "list"
      <4>1. context.sel \in db => context.meta = context.sel
        BY <3>1 DEF Base, ContextInv, DialogInv, Named
      <4>2. QED
        BY <3>1, <4>1 DEF DialogOf
    <3>2. CASE page # "list"
      BY <3>2 DEF DialogOf
    <3>3. QED
      BY <3>1, <3>2
  <2>3. QED
    BY <2>1, <2>2 DEF DialogInv, DialogDeletesNamed
<1>6. ASSUME NEW out \in {"ok", "error", "lost"}, DeleteRow(out) PROVE DialogInv'
  <2>1. /\ db' \subseteq db /\ missing' = missing \cap db' /\ UNCHANGED pageVars
        /\ deletion.at = "row"
        /\ deletion' = NoDeletion \/ deletion' = [deletion EXCEPT !.at = "file"]
    BY <1>6 DEF DeleteRow
  <2>2. deletion'.at # "none" => deletion'.doc = deletion.doc /\ deletion'.named = deletion.named
    BY <2>1 DEF NoDeletion, Base, Types, Deletion
  <2>3. QED
    BY <2>1, <2>2 DEF DialogInv, DialogDeletesNamed
<1>7. ASSUME NEW out \in {"ok", "error"}, RemoveFile(out) PROVE DialogInv'
  <2>1. /\ db' = db /\ missing' \subseteq missing \cup db /\ deletion' = NoDeletion
        /\ page' = "list" => documents' = db'
    BY <1>7 DEF RemoveFile, RefreshedList, Mounts
  <2>2. QED
    BY <2>1 DEF DialogInv, DialogDeletesNamed, NoDeletion
<1>8. ASSUME NEW d \in Docs, DeletedElsewhere(d) PROVE DialogInv'
  BY <1>8 DEF DeletedElsewhere, DialogInv, DialogDeletesNamed
<1>9. QED
  BY <1>1, <1>3, <1>4, <1>5, <1>6, <1>7, <1>8 DEF Next, vars

PreviewInv == Base /\ PanelTypes /\ PdfInv /\ DialogInv

LEMMA PreviewInit == Init => PreviewInv
<1> SUFFICES ASSUME Init PROVE PreviewInv
  OBVIOUS
<1>1. PanelTypes
  <2>1. /\ modal \in BOOLEAN /\ loaded \in BOOLEAN /\ rendered \in BOOLEAN /\ ahead \in BOOLEAN
    BY DEF Init
  <2>2. QED
    BY <2>1 DEF Init, PanelTypes
<1>2. PdfInv
  BY DEF Init, PdfInv
<1>3. DialogInv
  BY DEF Init, DialogInv, DialogDeletesNamed, NoDeletion
<1>4. QED
  BY <1>1, <1>2, <1>3, BaseInit DEF PreviewInv

\* Every step keeps the invariant.
THEOREM PreviewInductive == PreviewInv /\ [Next]_vars => PreviewInv'
BY BaseInductive, PanelInductive, DialogInductive DEF PreviewInv

LEMMA PreviewAlways == Spec => []PreviewInv
BY PreviewInit, PreviewInductive, PTL DEF Spec

\* The variables keep their types, and a fetch whose answer is still wanted is for the
\* open page and its selection (documents-table.tsx:172, document-detail-client.tsx:119).
THEOREM TypeSafe == Spec => []TypeOK
<1>1. PreviewInv => TypeOK
  BY DEF PreviewInv, Base, Types, ContextInv, PanelTypes, FlightOf, DialogInv, TypeOK, PageSet
<1>2. QED
  BY PreviewAlways, <1>1, PTL

\* The URL on screen is the selected document's, whose type is known.
LEMMA ShownUrl ==
  ASSUME PreviewInv
  PROVE  /\ pdfUrl \in {0, context.sel}
         /\ pdfUrl # 0 => context.mime = pdfUrl
         /\ ~isUrlStale /\ context.sel # 0 => context.sel = context.urlDoc
BY DEF PreviewInv, Base, ContextInv, Sound, Bare, pdfUrl, isUrlStale

\* A dialog that deletes one document deletes the one it names, and removes the object
\* of that one, unless its document is gone already (delete-dialog.tsx:27).
THEOREM DialogSafe == Spec => []DialogDeletesNamed
<1>1. PreviewInv => DialogDeletesNamed
  BY DEF PreviewInv, DialogInv
<1>2. QED
  BY PreviewAlways, <1>1, PTL

\* The PDF on screen is the selected document's through every order of clicks, answers,
\* failures, refreshes, reloads and changes of page (documents layout.tsx:35), and on the
\* list so are the name, type and path.  The text is, too, and the fields offered for
\* export are of the document of the URL, only until a document's page is opened, which
\* fetches neither; while another preview loads the fields are the former document's; and
\* the page shown exists unless it was turned before the PDF was read.
THEOREM PanelSafe == Spec => []PanelShowsSelected
<1> SUFFICES PreviewInv => PanelShowsSelected
  BY PreviewAlways, PTL
<1> SUFFICES ASSUME PreviewInv PROVE PanelShowsSelected
  OBVIOUS
<1>1. PdfIsSelected
  BY ShownUrl DEF PdfIsSelected
<1>2. ASSUME ~visited, ~isUrlStale PROVE context.ocr \in {0, context.sel} /\ context.fields \in {0, context.sel}
  <2>1. Fresh(context) /\ Bare(context)
    BY <1>2 DEF PreviewInv, Base, ContextInv
  <2>2. QED
    BY <1>2, <2>1, ShownUrl DEF Fresh, Bare
<1>3. TextIsSelected
  BY <1>2 DEF TextIsSelected, shownText
<1>4. FieldsGoWithUrl
  <2>1. ~visited => Fresh(context)
    BY DEF PreviewInv, Base, ContextInv
  <2>2. QED
    BY <2>1 DEF FieldsGoWithUrl, exported, Fresh
<1>5. NamesSelected
  BY DEF NamesSelected, PreviewInv, Base, ContextInv, Named
<1>6. PageExists
  <2>1. ASSUME ShowsPdf PROVE pdfUrl # 0 /\ Pages[pdfUrl] > 0
    BY <2>1, ShownUrl DEF ShowsPdf, isPdf
  <2>2. ASSUME ShowsPdf, ~ahead PROVE currentPage <= Pages[pdfUrl]
    <3>1. Pages[pdfUrl] \in Nat /\ Pages[pdfUrl] > 0
      BY <2>1, <2>2, UrlType DEF PreviewInv, Doc0
    <3>2. currentPage = 1 \/ currentPage <= Pages[pdfUrl]
      BY <2>1, <2>2 DEF PreviewInv, PdfInv
    <3>3. QED
      BY <3>1, <3>2
  <2>3. ShowsCaption => totalPages = Pages[pdfUrl]
    BY DEF ShowsCaption, PreviewInv, PdfInv
  <2>4. QED
    BY <2>2, <2>3 DEF PageExists
<1>7. QED
  BY <1>1, <1>3, <1>4, <1>5, <1>6 DEF PanelShowsSelected
=============================================================================
