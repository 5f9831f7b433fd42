-------------------------- MODULE FieldTableProofs --------------------------
(* Theorems about FieldTable, for every value of its constants.            *)
EXTENDS FieldTable, FiniteSetTheorems, TLAPS

\* The variables an action may leave alone, spelled out.
USE DEF dbVars, pageVars, subVars, stateVars, choiceVars, dialogVars, vars

\* Fields with values, added, removed and restricted.
LEMMA ExtractedType ==
  /\ \A x : x \in Extracted <=> DOMAIN x \subseteq Fields /\ x \in [DOMAIN x -> Values]
  /\ Nothing \in Extracted
  /\ \A x \in Extracted, f \in Fields, v \in Values :
       [g \in DOMAIN x \cup {f} |-> IF g = f THEN v ELSE x[g]] \in Extracted
  /\ \A x \in Extracted : \A S : [g \in DOMAIN x \ S |-> x[g]] \in Extracted
  /\ \A f \in Fields, v \in Values : [g \in {f} |-> v] \in Extracted
<1>1. \A x : x \in Extracted <=> DOMAIN x \subseteq Fields /\ x \in [DOMAIN x -> Values]
  BY DEF Extracted
<1>2. Nothing \in Extracted
  BY <1>1 DEF Nothing
<1>3. ASSUME NEW x \in Extracted, NEW f \in Fields, NEW v \in Values
      PROVE  [g \in DOMAIN x \cup {f} |-> IF g = f THEN v ELSE x[g]] \in Extracted
  BY <1>1
<1>4. ASSUME NEW x \in Extracted, NEW S
      PROVE  [g \in DOMAIN x \ S |-> x[g]] \in Extracted
  BY <1>1
<1>5. ASSUME NEW f \in Fields, NEW v \in Values
      PROVE  [g \in {f} |-> v] \in Extracted
  BY <1>1
<1>6. QED
  BY <1>1, <1>2, <1>3, <1>4, <1>5

LEMMA BlankType == Blank \in PageState
BY ExtractedType DEF Blank, PageState

\* Rows have different indices.
LEMMA IndexType ==
  ASSUME screen.fields \in Extracted
  PROVE  /\ \A f \in DOMAIN screen.fields : IndexOf(f) \in 0 .. Cardinality(Fields)
         /\ \A f, h \in DOMAIN screen.fields : IndexOf(f) = IndexOf(h) => f = h
<1> DEFINE D == DOMAIN screen.fields
           Below(f) == {g \in D : g < f}
<1>1. D \subseteq Fields /\ D \subseteq Nat
  BY ExtractedType, FieldTableAssumption
<1>2. IsFiniteSet(Fields)
  BY FieldTableAssumption
<1>3. ASSUME NEW f \in D
      PROVE  /\ IsFiniteSet(Below(f))
             /\ Cardinality(Below(f)) \in Nat
             /\ Cardinality(Below(f)) <= Cardinality(Fields)
             /\ Cardinality(Fields) \in Nat
  <2>1. Below(f) \in SUBSET Fields
    BY <1>1
  <2>2. IsFiniteSet(Below(f)) /\ Cardinality(Below(f)) <= Cardinality(Fields)
    BY <2>1, <1>2, FS_Subset
  <2>3. QED
    BY <2>2, <1>2, FS_CardinalityType
<1>4. ASSUME NEW f \in D, NEW h \in D, f < h
      PROVE  Cardinality(Below(f)) # Cardinality(Below(h))
  <2>1. Below(f) \in SUBSET Below(h)
    BY <1>1, <1>4
  <2>2. f \in Below(h) /\ f \notin Below(f)
    BY <1>1, <1>4
  <2>3. QED
    BY <2>1, <2>2, <1>3, FS_Subset
<1>5. \A f \in D : IndexOf(f) = Cardinality(Below(f))
  BY DEF IndexOf
<1>6. ASSUME NEW f \in D, NEW h \in D, IndexOf(f) = IndexOf(h)
      PROVE  f = h
  <2>1. ~(f < h) /\ ~(h < f)
    BY <1>4, <1>5, <1>6
  <2>2. QED
    BY <2>1, <1>1
<1>7. QED
  <2>1. ASSUME NEW f \in D PROVE IndexOf(f) \in 0 .. Cardinality(Fields)
    <3>1. Cardinality(Below(f)) \in 0 .. Cardinality(Fields)
      BY <1>3
    <3>2. QED
      BY <3>1, <1>5
  <2>2. QED
    BY <2>1, <1>6

\* What the rows of a selection name.
LEMMA AtType ==
  ASSUME screen.fields \in Extracted
  PROVE  \A S : At(S) \subseteq Fields
BY ExtractedType DEF At

LEMMA TypeInit == Init => TypeOK
<1> SUFFICES ASSUME Init PROVE TypeOK
  OBVIOUS
<1>1. Cardinality(Fields) \in Nat
  BY FieldTableAssumption, FS_CardinalityType
<1>2. NoJob \in Job
  BY ExtractedType DEF NoJob, Job
<1>3. writes \in 0 .. MaxWrites
  BY FieldTableAssumption DEF Init
<1>4. /\ extracted \in BOOLEAN /\ none \in BOOLEAN /\ open \in BOOLEAN /\ refreshing \in BOOLEAN /\ timer \in BOOLEAN
      /\ fieldSearch \in BOOLEAN /\ mixed \in BOOLEAN /\ missed \in BOOLEAN
      /\ dialog \in BOOLEAN /\ isDeleting \in BOOLEAN
  BY DEF Init
<1>5. queue \in Seq(Update) /\ queue = <<>>
  BY DEF Init
<1>6. selectedFieldIds \subseteq Fields /\ rowSelection \subseteq 0 .. Cardinality(Fields)
      /\ ticked \subseteq Fields
  BY DEF Init
<1>7. ~dialog /\ ~timer
  BY DEF Init
<1>8. QED
  BY <1>2, <1>3, <1>4, <1>5, <1>6, <1>7, ExtractedType, BlankType DEF Init, TypeOK

\* An update reaches a live channel.
LEMMA WritesType ==
  ASSUME TypeOK, NEW fields \in Extracted, NEW latest \in BOOLEAN,
         writes < MaxWrites, Writes(fields, latest), UNCHANGED <<open, sub>>
  PROVE  /\ row' \in Extracted /\ writes' \in 0 .. MaxWrites
         /\ queue' \in Seq(Update) /\ missed' \in BOOLEAN
         /\ ~open => queue' = <<>>
         /\ queue' # <<>> => sub = "live"
         /\ extracted' = extracted
<1>1. writes' \in 0 .. MaxWrites
  BY FieldTableAssumption DEF TypeOK, Writes
<1>2. [fields |-> fields, latest |-> latest] \in Update
  BY DEF Update
<1>3. queue' \in Seq(Update)
  BY <1>2 DEF TypeOK, Writes
<1>4. missed' \in BOOLEAN
  BY DEF TypeOK, Writes
<1>5. QED
  BY <1>1, <1>3, <1>4 DEF TypeOK, Writes

\* Updates under way become another extraction's.
LEMMA RelabelType ==
  ASSUME NEW q \in Seq(Update)
  PROVE  LET new == [i \in DOMAIN q |-> [q[i] EXCEPT !.latest = FALSE]]
         IN  /\ new \in Seq(Update) /\ Len(new) = Len(q)
             /\ q = <<>> <=> new = <<>>
             /\ \A i \in DOMAIN q : ~new[i].latest
<1> DEFINE new == [i \in DOMAIN q |-> [q[i] EXCEPT !.latest = FALSE]]
<1>1. \A i \in DOMAIN q : new[i] \in Update /\ ~new[i].latest
  <2>1. \A u \in Update : [u EXCEPT !.latest = FALSE] \in Update /\ ~[u EXCEPT !.latest = FALSE].latest
    BY DEF Update
  <2>2. \A i \in DOMAIN q : q[i] \in Update
    OBVIOUS
  <2>3. QED
    BY <2>1, <2>2
<1>2. Len(q) \in Nat /\ DOMAIN q = 1 .. Len(q) /\ DOMAIN new = 1 .. Len(q)
  OBVIOUS
<1>3. new \in [1 .. Len(q) -> Update]
  BY <1>1, <1>2
<1> HIDE DEF new
<1>4. new \in Seq(Update) /\ Len(new) = Len(q)
  BY <1>2, <1>3
<1>5. \A s \in Seq(Update) : s = <<>> <=> Len(s) = 0
  OBVIOUS
<1>6. q = <<>> <=> new = <<>>
  BY <1>4, <1>5
<1>7. QED
  BY <1>1, <1>4, <1>6 DEF new

\* Ticking a box.
LEMMA SelectType ==
  ASSUME TypeOK, NEW rows \in SUBSET (0 .. Cardinality(Fields)), NEW S \in SUBSET Fields,
         Select(rows, S)
  PROVE  TypeOK'
<1>1. screen.fields \in Extracted
  BY DEF TypeOK, PageState
<1>2. mixed' \in BOOLEAN
  BY DEF TypeOK, Select
<1>3. selectedFieldIds' \subseteq Fields /\ ticked' \subseteq Fields /\ rowSelection' = rows
  BY <1>1, AtType DEF Select
<1>4. QED
  BY <1>2, <1>3 DEF TypeOK, Select

\* Every step keeps the type invariant.
THEOREM TypeInductive == TypeOK /\ [Next]_vars => TypeOK'
<1> SUFFICES ASSUME TypeOK, [Next]_vars PROVE TypeOK'
  OBVIOUS
<1>0. screen.fields \in Extracted /\ next.fields \in Extracted /\ row \in Extracted
  BY DEF TypeOK, PageState
<1>1. CASE Open
  <2>1. next' \in PageState
    BY <1>0, <1>1 DEF Open, PageState
  <2>2. none' \in BOOLEAN
    BY <1>1 DEF TypeOK, Open
  <2>3. QED
    BY <1>1, <2>1, <2>2 DEF TypeOK, Open, ClearsChoice
<1>2. CASE Leave
  <2>1. job' \in Job
    BY <1>2 DEF TypeOK, Leave, Job
  <2>2. /\ open' \in BOOLEAN /\ refreshing' \in BOOLEAN /\ timer' \in BOOLEAN
        /\ missed' \in BOOLEAN /\ dialog' \in BOOLEAN /\ isDeleting' \in BOOLEAN
        /\ ~dialog' /\ ~timer'
    BY <1>2 DEF Leave
  <2>3. queue' \in Seq(Update) /\ queue' = <<>> /\ sub' = "none" /\ rowSelection' = {}
    BY <1>2 DEF Leave, Unsubscribes
  <2>4. QED
    BY <1>2, <2>1, <2>2, <2>3, BlankType, ExtractedType DEF TypeOK, Leave
<1>3. CASE Refreshed
  <2>1. none' \in BOOLEAN
    BY <1>3 DEF TypeOK, Refreshed
  <2>2. QED
    BY <1>3, <2>1 DEF TypeOK, Refreshed
<1>4. ASSUME NEW to \in {"joining", "live", "closed"}, Joins(to) PROVE TypeOK'
  <2>1. missed' \in BOOLEAN
    BY <1>4 DEF TypeOK, Joins
  <2>2. QED
    BY <1>4, <2>1 DEF TypeOK, Joins
<1>5. CASE HandleExtractionUpdate
  <2>1. Head(queue) \in Update /\ Tail(queue) \in Seq(Update)
    BY <1>5 DEF TypeOK, HandleExtractionUpdate
  <2>2. Head(queue).fields \in Extracted
    BY <2>1 DEF Update
  <2>3. Changed(Ref, Head(queue).fields) \subseteq Fields
    BY <2>2, ExtractedType DEF Changed
  <2>4. next' \in PageState
    BY <1>5, <2>2, <2>3 DEF HandleExtractionUpdate, PageState
  <2>5. missed' \in BOOLEAN
    BY <1>5 DEF TypeOK, HandleExtractionUpdate
  <2>6. open
    BY <1>5 DEF TypeOK, HandleExtractionUpdate
  <2>7. QED
    BY <1>5, <2>1, <2>4, <2>5, <2>6 DEF TypeOK, HandleExtractionUpdate
<1>6. CASE Render
  <2>1. timer' \in BOOLEAN /\ before' \in Extracted
    BY <1>0, <1>6 DEF TypeOK, Render
  <2>2. QED
    BY <1>6, <2>1 DEF TypeOK, Render, ChoiceAfter
<1>7. CASE TimerFires
  <2>1. next' \in PageState
    BY <1>7 DEF TypeOK, TimerFires, PageState
  <2>2. QED
    BY <1>7, <2>1 DEF TypeOK, TimerFires
<1>8. ASSUME NEW f \in Fields, ToggleRow(f) PROVE TypeOK'
  <2>1. f \in DOMAIN screen.fields
    BY <1>8 DEF ToggleRow, Shown
  <2>2. IndexOf(f) \in 0 .. Cardinality(Fields)
    BY <2>1, <1>0, IndexType
  <2>3. rowSelection \subseteq 0 .. Cardinality(Fields) /\ ticked \subseteq Fields
    BY DEF TypeOK
  <2>4. \/ Select(rowSelection \ {IndexOf(f)}, ticked \ {f})
        \/ Select(rowSelection \cup {IndexOf(f)}, ticked \cup {f})
    BY <1>8 DEF ToggleRow
  <2>5. QED
    BY <2>2, <2>3, <2>4, SelectType
<1>9. CASE ToggleAll
  <2> DEFINE rows == {IndexOf(f) : f \in Shown}
  <2>1. Shown \subseteq Fields /\ rows \subseteq 0 .. Cardinality(Fields)
    BY <1>0, IndexType, ExtractedType DEF Shown
  <2>2. rowSelection \subseteq 0 .. Cardinality(Fields) /\ ticked \subseteq Fields
    BY DEF TypeOK
  <2>3. \/ Select(rowSelection \ rows, ticked \ Shown)
        \/ Select(rowSelection \cup rows, ticked \cup Shown)
    BY <1>9 DEF ToggleAll
  <2> HIDE DEF rows
  <2>4. QED
    BY <2>1, <2>2, <2>3, SelectType
<1>10. CASE SetFieldSearch
  BY <1>10 DEF TypeOK, SetFieldSearch
<1>11. ASSUME NEW f \in Fields, NEW v \in Values, AgentSaves(f, v) PROVE TypeOK'
  <2> DEFINE new == [g \in DOMAIN row \cup {f} |-> IF g = f THEN v ELSE row[g]]
  <2>1. new \in Extracted
    BY <1>0, ExtractedType
  <2>2. Writes(new, TRUE) /\ writes < MaxWrites /\ UNCHANGED <<open, sub>>
    BY <1>11 DEF AgentSaves
  <2> HIDE DEF new
  <2>3. /\ row' \in Extracted /\ writes' \in 0 .. MaxWrites
        /\ queue' \in Seq(Update) /\ missed' \in BOOLEAN
        /\ ~open => queue' = <<>>
        /\ queue' # <<>> => sub = "live"
        /\ extracted' = extracted
    BY <2>1, <2>2, WritesType
  <2>4. QED
    BY <1>11, <2>3 DEF TypeOK, AgentSaves
<1>12. ASSUME NEW f \in Fields, AgentDeletes(f) PROVE TypeOK'
  <2> DEFINE new == [g \in DOMAIN row \ {f} |-> row[g]]
  <2>1. new \in Extracted
    BY <1>0, ExtractedType
  <2>2. Writes(new, TRUE) /\ writes < MaxWrites /\ UNCHANGED <<open, sub>>
    BY <1>12 DEF AgentDeletes
  <2> HIDE DEF new
  <2>3. /\ row' \in Extracted /\ writes' \in 0 .. MaxWrites
        /\ queue' \in Seq(Update) /\ missed' \in BOOLEAN
        /\ ~open => queue' = <<>>
        /\ queue' # <<>> => sub = "live"
        /\ extracted' = extracted
    BY <2>1, <2>2, WritesType
  <2>4. QED
    BY <1>12, <2>3 DEF TypeOK, AgentDeletes
<1>13. ASSUME NEW f \in Fields, NEW v \in Values, OlderSaves(f, v) PROVE TypeOK'
  <2> DEFINE new == [g \in {f} |-> v]
  <2>1. new \in Extracted
    BY ExtractedType
  <2>2. Writes(new, FALSE) /\ writes < MaxWrites /\ UNCHANGED <<open, sub>>
    BY <1>13 DEF OlderSaves
  <2> HIDE DEF new
  <2>3. /\ row' \in Extracted /\ writes' \in 0 .. MaxWrites
        /\ queue' \in Seq(Update) /\ missed' \in BOOLEAN
        /\ ~open => queue' = <<>>
        /\ queue' # <<>> => sub = "live"
        /\ extracted' = extracted
    BY <2>1, <2>2, WritesType
  <2>4. QED
    BY <1>13, <2>3 DEF TypeOK, OlderSaves
<1>14. ASSUME NEW to \in BOOLEAN, SetDialog(to) PROVE TypeOK'
  BY <1>14 DEF TypeOK, SetDialog
<1>15. CASE ConfirmDelete
  <2> DEFINE roots == {Root[f] : f \in selectedFieldIds}
             new   == [f \in DOMAIN given \ roots |-> given[f]]
  <2>1. new \in Extracted
    BY ExtractedType DEF TypeOK
  <2>2. job' = [at |-> "update", mounted |-> TRUE, fields |-> new]
    BY <1>15 DEF ConfirmDelete
  <2> HIDE DEF new
  <2>3. job' \in Job
    BY <2>1, <2>2 DEF Job
  <2>4. QED
    BY <1>15, <2>3 DEF TypeOK, ConfirmDelete
<1>16. ASSUME NEW out \in {"ok", "error", "lost"}, DeleteAnswered(out) PROVE TypeOK'
  <2>1. NoJob \in Job
    BY ExtractedType DEF NoJob, Job
  <2>2. job.fields \in Extracted
    BY DEF TypeOK, Job
  <2>3. /\ row' \in Extracted /\ writes' \in 0 .. MaxWrites
        /\ queue' \in Seq(Update) /\ missed' \in BOOLEAN
        /\ ~open => queue' = <<>>
        /\ queue' # <<>> => sub = "live"
        /\ extracted' = extracted
    <3>1. CASE out = "error"
      BY <1>16, <3>1 DEF TypeOK, DeleteAnswered
    <3>2. CASE out # "error"
      <4>1. Writes(job.fields, TRUE) /\ writes < MaxWrites /\ UNCHANGED <<open, sub>>
        BY <1>16, <3>2 DEF DeleteAnswered
      <4>2. QED
        BY <4>1, <2>2, WritesType
    <3>3. QED
      BY <3>1, <3>2
  <2>4. isDeleting' \in BOOLEAN /\ job' \in Job
    BY <1>16, <2>1 DEF TypeOK, DeleteAnswered
  <2>5. CASE out = "ok"
    <3>1. dialog' \in BOOLEAN /\ (~open => ~dialog')
      BY <1>16, <2>5 DEF TypeOK, DeleteAnswered
    <3>2. QED
      BY <1>16, <2>3, <2>4, <2>5, <3>1 DEF TypeOK, DeleteAnswered, ClearsChoice
  <2>6. CASE out # "ok"
    <3>1. UNCHANGED <<dialog, refreshing, choiceVars>>
      BY <1>16, <2>6 DEF DeleteAnswered
    <3>2. UNCHANGED <<open, given, none, sub, stateVars, fieldSearch>>
      BY <1>16 DEF DeleteAnswered
    <3>3. QED
      BY <2>3, <2>4, <3>1, <3>2 DEF TypeOK
  <2>7. QED
    BY <2>5, <2>6
<1>17. CASE Extracts
  <2>1. writes' \in 0 .. MaxWrites
    BY <1>17, FieldTableAssumption DEF TypeOK, Extracts
  <2>2. queue' \in Seq(Update) /\ (queue = <<>> <=> queue' = <<>>)
    BY <1>17, RelabelType DEF TypeOK, Extracts
  <2>3. missed' \in BOOLEAN /\ extracted' \in BOOLEAN /\ row' \in Extracted
    BY <1>17, ExtractedType DEF TypeOK, Extracts
  <2>4. QED
    BY <1>17, <2>1, <2>2, <2>3 DEF TypeOK, Extracts
<1>18. CASE UNCHANGED vars
  BY <1>18 DEF TypeOK
<1>19. QED
  BY <1>1, <1>2, <1>3, <1>4, <1>5, <1>6, <1>7, <1>8, <1>9, <1>10, <1>11, <1>12, <1>13,
     <1>14, <1>15, <1>16, <1>17, <1>18 DEF Next

\* The variables keep their types, and a page that is left leaves nothing behind but
\* the context and a write (document-detail-client.tsx, use-extraction-realtime.ts).
THEOREM TypeSafe == Spec => []TypeOK
<1>1. TypeOK /\ [Next]_vars => TypeOK'
  BY TypeInductive
<1>2. QED
  BY TypeInit, <1>1, PTL DEF Spec
-----------------------------------------------------------------------------
(* The selection                                                           *)

\* Rows and the fields they name change together while nothing moves between them.
LEMMA AtUpdate ==
  ASSUME screen.fields \in Extracted
  PROVE  /\ At({}) = {}
         /\ \A S : \A F \in SUBSET DOMAIN screen.fields :
              LET rows == {IndexOf(f) : f \in F}
              IN  At(S \ rows) = At(S) \ F /\ At(S \cup rows) = At(S) \cup F
<1>1. At({}) = {}
  BY DEF At
<1>2. ASSUME NEW S, NEW F \in SUBSET DOMAIN screen.fields
      PROVE  LET rows == {IndexOf(f) : f \in F}
             IN  At(S \ rows) = At(S) \ F /\ At(S \cup rows) = At(S) \cup F
  <2> DEFINE rows == {IndexOf(f) : f \in F}
  <2>1. \A f \in DOMAIN screen.fields : IndexOf(f) \in rows <=> f \in F
    BY IndexType
  <2> HIDE DEF rows
  <2>2. At(S \ rows) = At(S) \ F
    BY <2>1 DEF At
  <2>3. At(S \cup rows) = At(S) \cup F
    BY <2>1 DEF At
  <2>4. QED
    BY <2>2, <2>3 DEF rows
<1>3. QED
  BY <1>1, <1>2

\* A selection that named what was ticked still does after a click.
LEMMA SelectKeeps ==
  ASSUME TypeOK, ChoiceIsKept, NEW rows, NEW S, Select(rows, S),
         rows # {} /\ At(rowSelection) = ticked => At(rows) = S
  PROVE  ChoiceIsKept'
<1>1. screen.fields \in Extracted
  BY DEF TypeOK, PageState
<1>2. At({}) = {}
  BY <1>1, AtUpdate
<1>3. /\ selectedFieldIds' = At(rows)
      /\ ticked' = IF rows = {} THEN {} ELSE S
      /\ mixed' = (rows # {} /\ (mixed \/ At(rowSelection) # selectedFieldIds))
  BY DEF Select
<1>4. CASE rows = {}
  BY <1>2, <1>3, <1>4 DEF ChoiceIsKept
<1>5. CASE rows # {}
  BY <1>3, <1>5 DEF ChoiceIsKept
<1>6. QED
  BY <1>4, <1>5

\* Every step keeps the selection what its user ticked, unless rows moved under it.
LEMMA ChoiceInductive ==
  ASSUME TypeOK, ChoiceIsKept, [Next]_vars
  PROVE  ChoiceIsKept'
<1>0. screen.fields \in Extracted
  BY DEF TypeOK, PageState
<1>1. CASE Open
  BY <1>1 DEF Open, ClearsChoice, ChoiceIsKept
<1>2. ASSUME NEW f \in Fields, ToggleRow(f) PROVE ChoiceIsKept'
  <2>1. f \in DOMAIN screen.fields
    BY <1>2 DEF ToggleRow, Shown
  <2> DEFINE one == {IndexOf(g) : g \in {f}}
  <2>2. \A S : At(S \ one) = At(S) \ {f} /\ At(S \cup one) = At(S) \cup {f}
    BY <2>1, <1>0, AtUpdate
  <2>3. one = {IndexOf(f)}
    OBVIOUS
  <2> HIDE DEF one
  <2>4. \/ Select(rowSelection \ one, ticked \ {f})
        \/ Select(rowSelection \cup one, ticked \cup {f})
    BY <1>2, <2>3 DEF ToggleRow
  <2>5. QED
    BY <2>2, <2>4, SelectKeeps
<1>3. CASE ToggleAll
  <2> DEFINE rows == {IndexOf(f) : f \in Shown}
  <2>1. Shown \in SUBSET DOMAIN screen.fields
    BY DEF Shown
  <2>2. \A S : At(S \ rows) = At(S) \ Shown /\ At(S \cup rows) = At(S) \cup Shown
    BY <2>1, <1>0, AtUpdate
  <2>3. \/ Select(rowSelection \ rows, ticked \ Shown)
        \/ Select(rowSelection \cup rows, ticked \cup Shown)
    BY <1>3 DEF ToggleAll
  <2> HIDE DEF rows
  <2>4. QED
    BY <2>2, <2>3, SelectKeeps
<1>4. ASSUME NEW out \in {"ok", "error", "lost"}, DeleteAnswered(out) PROVE ChoiceIsKept'
  BY <1>4 DEF DeleteAnswered, ClearsChoice, ChoiceIsKept
<1>5. CASE Render
  BY <1>5 DEF Render, ChoiceAfter, ChoiceIsKept
<1>6. ASSUME UNCHANGED <<selectedFieldIds, ticked, mixed>> PROVE ChoiceIsKept'
  BY <1>6 DEF ChoiceIsKept
<1>7. QED
  BY <1>1, <1>2, <1>3, <1>4, <1>5, <1>6 DEF Next, Leave, Refreshed, Joins, HandleExtractionUpdate,
     TimerFires, SetFieldSearch, Extracts, AgentSaves, AgentDeletes, OlderSaves, SetDialog, ConfirmDelete

-----------------------------------------------------------------------------
(* The highlight                                                           *)

\* State that is set and not rendered highlights what is new against the screen.
NextIsNews == next = screen \/ next.changed \in {{}, Changed(screen.fields, next.fields)}

\* Every step keeps the highlight news.
LEMMA HighlightInductive ==
  ASSUME TypeOK, HighlightIsNews, NextIsNews, [Next]_vars
  PROVE  HighlightIsNews' /\ NextIsNews'
<1> USE DEF HighlightIsNews, NextIsNews
<1>1. CASE Open
  BY <1>1 DEF Open
<1>2. CASE Leave
  BY <1>2 DEF Leave, Blank
<1>3. CASE HandleExtractionUpdate
  <2>1. /\ next'.fields = Head(queue).fields
        /\ next'.changed = Changed(screen.fields, Head(queue).fields)
        /\ UNCHANGED <<screen, before>>
    BY <1>3 DEF HandleExtractionUpdate, Ref
  <2>2. QED
    BY <2>1
<1>4. CASE Render
  <2>1. \A x : Changed(x, x) = {}
    BY DEF Changed
  <2>2. /\ screen' = next /\ next' = next
        /\ before' = IF next.fields = screen.fields THEN before ELSE screen.fields
        /\ next # screen
    BY <1>4 DEF Render
  <2>3. next.changed \in {{}, Changed(screen.fields, next.fields)}
    BY <2>2
  <2>4. CASE next.fields = screen.fields
    BY <2>1, <2>2, <2>3, <2>4
  <2>5. CASE next.fields # screen.fields
    BY <2>2, <2>3, <2>5
  <2>6. QED
    BY <2>4, <2>5
<1>5. CASE TimerFires
  <2>1. next'.changed = {} /\ UNCHANGED <<screen, before>>
    BY <1>5 DEF TimerFires, TypeOK, PageState
  <2>2. QED
    BY <2>1
<1>6. ASSUME UNCHANGED <<next, screen, before>> PROVE HighlightIsNews' /\ NextIsNews'
  BY <1>6
<1>7. QED
  BY <1>1, <1>2, <1>3, <1>4, <1>5, <1>6 DEF Next, Refreshed, Joins, ToggleRow, ToggleAll, Select,
     SetFieldSearch, Extracts, AgentSaves, AgentDeletes, OlderSaves, SetDialog, ConfirmDelete, DeleteAnswered

-----------------------------------------------------------------------------
(* The fields                                                              *)

\* A page that has missed nothing shows the latest extraction, or has its last update
\* at the end of the queue, behind which only another extraction's can come.
LastIsRow ==
  /\ open /\ ~missed /\ sub \in {"token", "joining", "live"} /\ queue = <<>> => next.fields = row
  /\ queue # <<>> /\ queue[Len(queue)].latest => queue[Len(queue)].fields = row

LEMMA WritesKeep ==
  ASSUME TypeOK, LastIsRow, NEW fields, NEW latest \in BOOLEAN, Writes(fields, latest),
         UNCHANGED <<open, sub, next>>
  PROVE  LastIsRow'
<1> DEFINE update == [fields |-> fields, latest |-> latest]
<1>1. row' = IF latest THEN fields ELSE row
  BY DEF Writes
<1>2. CASE sub = "live"
  <2>1. queue' = Append(queue, update) /\ queue \in Seq(Update)
    BY <1>2 DEF Writes, TypeOK
  <2>2. queue' # <<>> /\ queue'[Len(queue')] = update
    BY <2>1
  <2>3. QED
    BY <1>1, <2>2 DEF LastIsRow
<1>3. CASE sub # "live"
  <2>1. queue' = queue /\ queue = <<>>
    BY <1>3 DEF Writes, TypeOK
  <2>2. CASE open
    <3>1. missed' = (missed \/ fields # next.fields)
      BY <1>3, <2>2 DEF Writes
    <3>2. QED
      BY <1>1, <2>1, <3>1 DEF LastIsRow
  <2>3. CASE ~open
    BY <2>1, <2>3 DEF LastIsRow
  <2>4. QED
    BY <2>2, <2>3
<1>4. QED
  BY <1>2, <1>3

\* Every step keeps the last update the latest extraction's.
LEMMA LastInductive ==
  ASSUME TypeOK, LastIsRow, [Next]_vars
  PROVE  LastIsRow'
<1>1. CASE Open
  BY <1>1 DEF Open, LastIsRow
<1>2. CASE Leave
  BY <1>2 DEF Leave, Unsubscribes, LastIsRow
<1>3. ASSUME NEW to \in {"joining", "live", "closed"}, Joins(to) PROVE LastIsRow'
  <2>1. CASE to = "closed"
    BY <1>3, <2>1 DEF Joins, LastIsRow
  <2>2. CASE to # "closed"
    <3>1. queue' = queue /\ sub \in {"token", "joining"} /\ missed' = missed
      BY <1>3, <2>2 DEF Joins, TypeOK
    <3>2. QED
      BY <1>3, <3>1 DEF Joins, LastIsRow
  <2>3. QED
    BY <2>1, <2>2
<1>4. CASE HandleExtractionUpdate
  <2> DEFINE update == Head(queue)
  <2>1. /\ queue # <<>> /\ queue' = Tail(queue)
        /\ next'.fields = update.fields
        /\ missed' = IF update.latest THEN missed /\ update.fields # row ELSE TRUE
        /\ UNCHANGED <<row, open, sub>>
    BY <1>4 DEF HandleExtractionUpdate
  <2>2. queue \in Seq(Update)
    BY DEF TypeOK
  <2>3. CASE Tail(queue) = <<>>
    <3>1. queue[Len(queue)] = update
      <4>1. Len(Tail(queue)) = Len(queue) - 1 /\ update = queue[1]
        BY <2>1, <2>2
      <4>2. \A q : q = <<>> => Len(q) = 0
        OBVIOUS
      <4>3. Len(queue) = 1
        <5>1. Len(Tail(queue)) = 0
          BY <2>3, <4>2
        <5>2. Len(queue) \in Nat
          BY <2>2
        <5>3. QED
          BY <4>1, <5>1, <5>2
      <4>4. QED
        BY <4>1, <4>3
    <3>2. update.latest => update.fields = row
      BY <3>1, <2>1 DEF LastIsRow
    <3>3. QED
      BY <2>1, <2>3, <3>2 DEF LastIsRow
  <2>4. CASE Tail(queue) # <<>>
    <3>1. queue'[Len(queue')] = queue[Len(queue)]
      BY <2>1, <2>2, <2>4
    <3>2. QED
      BY <2>1, <2>4, <3>1 DEF LastIsRow
  <2>5. QED
    BY <2>3, <2>4
<1>5. CASE TimerFires
  <2>1. next'.fields = next.fields /\ UNCHANGED <<row, open, sub, queue, missed>>
    BY <1>5 DEF TimerFires, TypeOK, PageState
  <2>2. QED
    BY <2>1 DEF LastIsRow
<1>6. ASSUME NEW f \in Fields, NEW v \in Values, AgentSaves(f, v) PROVE LastIsRow'
  BY <1>6, WritesKeep DEF AgentSaves
<1>7. ASSUME NEW f \in Fields, AgentDeletes(f) PROVE LastIsRow'
  BY <1>7, WritesKeep DEF AgentDeletes
<1>8. ASSUME NEW f \in Fields, NEW v \in Values, OlderSaves(f, v) PROVE LastIsRow'
  BY <1>8, WritesKeep DEF OlderSaves
<1>9. ASSUME NEW out \in {"ok", "error", "lost"}, DeleteAnswered(out) PROVE LastIsRow'
  <2>1. UNCHANGED <<open, sub, next>>
    BY <1>9 DEF DeleteAnswered
  <2>2. CASE out = "error"
    BY <1>9, <2>1, <2>2 DEF DeleteAnswered, LastIsRow
  <2>3. CASE out # "error"
    <3>1. Writes(job.fields, TRUE)
      BY <1>9, <2>3 DEF DeleteAnswered
    <3>2. QED
      BY <2>1, <3>1, WritesKeep
  <2>4. QED
    BY <2>2, <2>3
<1>10. CASE Extracts
  <2>1. /\ row' = Nothing /\ UNCHANGED <<open, sub, next>>
        /\ missed' = (missed \/ (open /\ next.fields # Nothing))
        /\ queue' = [i \in DOMAIN queue |-> [queue[i] EXCEPT !.latest = FALSE]]
    BY <1>10 DEF Extracts
  <2>2. queue \in Seq(Update)
    BY DEF TypeOK
  <2>3. Len(queue') = Len(queue) /\ (queue = <<>> <=> queue' = <<>>)
    BY <2>1, <2>2, RelabelType
  <2>4. queue # <<>> => Len(queue) \in DOMAIN queue
    BY <2>2
  <2>5. queue # <<>> => ~queue'[Len(queue')].latest
    BY <2>1, <2>2, <2>3, <2>4, RelabelType
  <2>6. QED
    BY <2>1, <2>3, <2>5 DEF LastIsRow
<1>11. ASSUME UNCHANGED <<row, open, sub, queue, missed, next>> PROVE LastIsRow'
  BY <1>11 DEF LastIsRow
<1>12. QED
  BY <1>1, <1>2, <1>3, <1>4, <1>5, <1>6, <1>7, <1>8, <1>9, <1>10, <1>11 DEF Next, Refreshed, Render,
     ToggleRow, ToggleAll, Select, SetFieldSearch, SetDialog, ConfirmDelete

-----------------------------------------------------------------------------

TableInv == TypeOK /\ ChoiceIsKept /\ HighlightIsNews /\ NextIsNews /\ LastIsRow

LEMMA TableInit == Init => TableInv
<1>1. Init => TypeOK
  BY TypeInit
<1>2. Init => ChoiceIsKept
  BY DEF Init, ChoiceIsKept
<1>3. Init => HighlightIsNews /\ NextIsNews
  BY DEF Init, Blank, HighlightIsNews, NextIsNews
<1>4. Init => LastIsRow
  BY DEF Init, LastIsRow
<1>5. QED
  BY <1>1, <1>2, <1>3, <1>4 DEF TableInv

\* What the page shows, highlights and offers to delete is what its user takes it
\* for: the latest extraction, the news of it, and the fields that were ticked
\* (document-detail-client.tsx:70, extracted-data-table.tsx:77).
THEOREM TableSafe == Spec => []ShowsTheExtraction
<1>1. TableInv /\ [Next]_vars => TableInv'
  BY TypeInductive, ChoiceInductive, HighlightInductive, LastInductive DEF TableInv
<1>2. TableInv => ShowsTheExtraction
  <2>1. TableInv => PageFollowsRow
    BY DEF TableInv, TypeOK, LastIsRow, PageFollowsRow
  <2>2. QED
    BY <2>1 DEF TableInv, ShowsTheExtraction
<1>3. QED
  BY TableInit, <1>1, <1>2, PTL DEF Spec
=============================================================================
