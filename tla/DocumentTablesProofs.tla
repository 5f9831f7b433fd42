------------------------- MODULE DocumentTablesProofs -------------------------
(***************************************************************************)
(* Proofs about the tables of documents, for every number of documents,    *)
(* stacks and concurrent handlers: what is selected is what was ticked,    *)
(* and a row without its object lost it to one kind of delete alone: that  *)
(* of another document, which was gone, with this one's path.              *)
(***************************************************************************)
EXTENDS DocumentTables, FiniteSetTheorems, SequenceTheorems, TLAPS

(* The inductive invariant.                                                *)

\* Pages and handlers know only documents that were uploaded.
Started == \A j \in Jobs : /\ jobs[j].ids \subseteq 1 .. uploads
                           /\ jobs[j].at = "upsert" => jobs[j].stack \in Stacks
Known   == documents \in Seq(1 .. uploads) /\ Started

\* Objects go after the rows of their documents: those of a bulk delete's paths are
\* among its rows, and the rows of objects about to be removed are gone.
Kept == /\ missing \subseteq taken
        /\ \A j \in Jobs : /\ jobs[j].kind # "one" => jobs[j].paths \subseteq jobs[j].ids
                           /\ jobs[j].at = "files" => jobs[j].ids \cap db = {}

\* A selected row is there, and is that of a ticked document.
Ticked == ~shifted => /\ rowSelection \subseteq DOMAIN filteredDocuments
                      /\ ticked = DocsAt(rowSelection)

\* The parts of TypeOK.
ServerType == /\ uploads \in 0 .. MaxDocs
              /\ db \subseteq 1 .. uploads /\ missing \subseteq db /\ taken \subseteq db
              /\ added \in Seq(Docs \X Stacks) /\ ToSet(added) \subseteq db \X Stacks
              /\ IsInjective(added)
GivenType  == /\ page \in Pages /\ refreshing \in BOOLEAN
              /\ documents \in Seq(Docs) /\ IsInjective(documents)
              /\ seen \subseteq Docs \X Stacks
FilterType == /\ filterValue \in BOOLEAN /\ searchFilter \in BOOLEAN
              /\ dateRange \in Ranges \cup {"all"} /\ stackFilter \subseteq Stacks
TableType  == rowSelection \subseteq Docs /\ ticked \subseteq Docs /\ shifted \in BOOLEAN
BarType    == /\ dialog \in BOOLEAN /\ deleting \in Jobs \cup {0}
              /\ dialog \/ deleting # 0 => selectedIds # {}
JobsType   == jobs \in [Jobs -> Job]

IInv == TypeOK /\ Known /\ Kept /\ Ticked

\* The rank counts up to the size of the set, and no two of its elements share one.
LEMMA RankOf ==
  ASSUME NEW m \in Nat, NEW T \in SUBSET (1 .. m)
  PROVE  /\ IsFiniteSet(T) /\ Cardinality(T) \in Nat
         /\ \A i \in T : Rank(T, i) \in 1 .. Cardinality(T)
         /\ \A i, j \in T : i < j => Rank(T, i) < Rank(T, j)
<1>1. IsFiniteSet(T) /\ Cardinality(T) \in Nat
  <2>1. IsFiniteSet(1 .. m)
    BY FS_Interval
  <2> QED BY <2>1, FS_Subset, FS_CardinalityType
<1>2. ASSUME NEW U \in SUBSET T
      PROVE  /\ IsFiniteSet(U) /\ Cardinality(U) \in Nat /\ Cardinality(U) <= Cardinality(T)
             /\ \A V \in SUBSET U : /\ Cardinality(V) \in Nat /\ Cardinality(V) <= Cardinality(U)
                                    /\ V # U => Cardinality(V) < Cardinality(U)
  <2>1. IsFiniteSet(U) /\ Cardinality(U) \in Nat /\ Cardinality(U) <= Cardinality(T)
    BY <1>1, FS_Subset, FS_CardinalityType
  <2>2. ASSUME NEW V \in SUBSET U
        PROVE  /\ Cardinality(V) \in Nat /\ Cardinality(V) <= Cardinality(U)
               /\ V # U => Cardinality(V) < Cardinality(U)
    <3>1. IsFiniteSet(V) /\ Cardinality(V) <= Cardinality(U) /\ (Cardinality(U) = Cardinality(V) => U = V)
      BY <2>1, FS_Subset
    <3>2. Cardinality(V) \in Nat
      BY <3>1, FS_CardinalityType
    <3> QED BY <3>1, <3>2, <2>1
  <2> QED BY <2>1, <2>2
<1>3. ASSUME NEW i \in T
      PROVE  Rank(T, i) \in 1 .. Cardinality(T)
  <2> DEFINE U == {j \in T : j <= i}
  <2>1. i \in U /\ U \in SUBSET T
    OBVIOUS
  <2>2. Cardinality(U) \in Nat /\ Cardinality(U) <= Cardinality(T)
    BY <2>1, <1>2
  <2>3. Cardinality({}) < Cardinality(U)
    BY <2>1, <1>2
  <2> QED BY <2>2, <2>3, <1>1, FS_EmptySet DEF Rank
<1>4. ASSUME NEW i \in T, NEW j \in T, i < j
      PROVE  Rank(T, i) < Rank(T, j)
  <2> DEFINE U == {k \in T : k <= i}
             W == {k \in T : k <= j}
  <2>0. i \in Int /\ j \in Int /\ \A k \in T : k \in Int
    OBVIOUS
  <2>a. \A k \in U : k \in W
    BY <1>4, <2>0
  <2>b. j \in W /\ j \notin U
    BY <1>4, <2>0
  <2>c. W \in SUBSET T
    OBVIOUS
  <2>1. U \in SUBSET W /\ W \in SUBSET T /\ j \in W /\ j \notin U
    BY <2>a, <2>b, <2>c
  <2>2. Cardinality(U) < Cardinality(W)
    BY <2>1, <1>2
  <2> QED BY <2>2 DEF Rank
<1> QED BY <1>1, <1>3, <1>4

\* The n-th smallest of a finite set of numbers exists, and rank is its inverse.
LEMMA NthOf ==
  ASSUME NEW m \in Nat, NEW T \in SUBSET (1 .. m)
  PROVE  /\ Cardinality(T) \in Nat
         /\ \A n \in 1 .. Cardinality(T) : Nth(T, n) \in T /\ Rank(T, Nth(T, n)) = n
         /\ \A i \in T : Rank(T, i) \in 1 .. Cardinality(T) /\ Nth(T, Rank(T, i)) = i
<1> DEFINE c == Cardinality(T)
           f == [i \in T |-> Rank(T, i)]
<1>1. c \in Nat /\ IsFiniteSet(T) /\ \A i \in T : Rank(T, i) \in 1 .. c
  BY RankOf
<1>2. \A i, j \in T : Rank(T, i) = Rank(T, j) => i = j
  <2> SUFFICES ASSUME NEW i \in T, NEW j \in T, i # j PROVE Rank(T, i) # Rank(T, j)
    OBVIOUS
  <2>1. i \in Nat /\ j \in Nat /\ (i < j \/ j < i)
    OBVIOUS
  <2>2. Rank(T, i) \in Nat /\ Rank(T, j) \in Nat
    BY <1>1
  <2>3. \A x, y \in T : x < y => Rank(T, x) < Rank(T, y)
    BY RankOf
  <2> QED BY <2>1, <2>2, <2>3
<1>3. f \in Injection(T, 1 .. c)
  BY <1>1, <1>2 DEF Injection, IsInjective
<1>4. IsFiniteSet(1 .. c) /\ Cardinality(1 .. c) = c
  BY <1>1, FS_Interval
<1>5. f \in Surjection(T, 1 .. c)
  BY <1>3, <1>4, FS_Injection
<1>6. \A n \in 1 .. c : \E i \in T : Rank(T, i) = n
  BY <1>5 DEF Surjection
<1>7. \A n \in 1 .. c : Nth(T, n) \in T /\ Rank(T, Nth(T, n)) = n
  BY <1>6 DEF Nth
<1>8. \A i \in T : Nth(T, Rank(T, i)) = i
  BY <1>1, <1>2, <1>7
<1> QED BY <1>1, <1>7, <1>8

\* What Picked returns: the entries at the given places, in their order, no others.
LEMMA PickedOf ==
  ASSUME NEW A, NEW s \in Seq(A), NEW T \in SUBSET (DOMAIN s)
  PROVE  /\ Picked(s, T) \in Seq({s[i] : i \in T}) /\ Picked(s, T) \in Seq(A)
         /\ Len(Picked(s, T)) = Cardinality(T) /\ Cardinality(T) \in Nat
         /\ \A n \in 1 .. Cardinality(T) :
              Nth(T, n) \in T /\ Picked(s, T)[n] = s[Nth(T, n)] /\ Rank(T, Nth(T, n)) = n
         /\ \A i \in T : /\ Rank(T, i) \in 1 .. Cardinality(T)
                         /\ Picked(s, T)[Rank(T, i)] = s[i]
<1>1. Len(s) \in Nat /\ T \in SUBSET (1 .. Len(s))
  OBVIOUS
<1>2. /\ Cardinality(T) \in Nat
      /\ \A n \in 1 .. Cardinality(T) : Nth(T, n) \in T /\ Rank(T, Nth(T, n)) = n
      /\ \A i \in T : Rank(T, i) \in 1 .. Cardinality(T) /\ Nth(T, Rank(T, i)) = i
  BY <1>1, NthOf
<1>3. \A n \in 1 .. Cardinality(T) : s[Nth(T, n)] \in {s[i] : i \in T} /\ s[Nth(T, n)] \in A
  BY <1>1, <1>2
<1> DEFINE r == Picked(s, T)
<1>4. r = [n \in 1 .. Cardinality(T) |-> s[Nth(T, n)]]
  BY DEF Picked
<1>5. Len(r) = Cardinality(T) /\ \A B : (\A n \in 1 .. Cardinality(T) : s[Nth(T, n)] \in B) => r \in Seq(B)
  <2> HIDE DEF r
  <2> QED BY <1>2, <1>4
<1>6. r \in Seq({s[i] : i \in T}) /\ r \in Seq(A)
  BY <1>3, <1>5
<1> QED BY <1>2, <1>4, <1>5, <1>6

-----------------------------------------------------------------------------
(* Lists of documents.                                                     *)

\* What is picked from a list without duplicates has none.
LEMMA PickedInjective ==
  ASSUME NEW A, NEW s \in Seq(A), IsInjective(s), NEW T \in SUBSET (DOMAIN s)
  PROVE  IsInjective(Picked(s, T))
<1>1. /\ Len(Picked(s, T)) = Cardinality(T) /\ Cardinality(T) \in Nat /\ Picked(s, T) \in Seq(A)
      /\ \A n \in 1 .. Cardinality(T) :
              Nth(T, n) \in T /\ Picked(s, T)[n] = s[Nth(T, n)] /\ Rank(T, Nth(T, n)) = n
  BY PickedOf
<1>2. DOMAIN Picked(s, T) = 1 .. Cardinality(T)
  BY <1>1
<1> QED BY <1>1, <1>2 DEF IsInjective

\* The elements of what is picked.
LEMMA PickedSet ==
  ASSUME NEW A, NEW s \in Seq(A), NEW T \in SUBSET (DOMAIN s)
  PROVE  ToSet(Picked(s, T)) = {s[i] : i \in T}
<1>1. /\ Len(Picked(s, T)) = Cardinality(T) /\ Cardinality(T) \in Nat /\ Picked(s, T) \in Seq(A)
      /\ \A n \in 1 .. Cardinality(T) : Nth(T, n) \in T /\ Picked(s, T)[n] = s[Nth(T, n)]
      /\ \A i \in T : Rank(T, i) \in 1 .. Cardinality(T) /\ Picked(s, T)[Rank(T, i)] = s[i]
  BY PickedOf
<1>2. DOMAIN Picked(s, T) = 1 .. Cardinality(T)
  BY <1>1
<1> QED BY <1>1, <1>2 DEF ToSet

\* Two lists without duplicates or common elements, one after the other.
LEMMA ConcatInjective ==
  ASSUME NEW A, NEW p \in Seq(A), NEW q \in Seq(A), IsInjective(p), IsInjective(q),
         ToSet(p) \cap ToSet(q) = {}
  PROVE  p \o q \in Seq(A) /\ IsInjective(p \o q) /\ ToSet(p \o q) = ToSet(p) \cup ToSet(q)
<1>1. PICK r \in Seq(A) : /\ r = p \o q /\ Len(r) = Len(p) + Len(q)
                          /\ \A i \in 1 .. Len(p) + Len(q) : r[i] = IF i <= Len(p) THEN p[i] ELSE q[i - Len(p)]
  <2>1. /\ p \o q \in Seq(A) /\ Len(p \o q) = Len(p) + Len(q)
        /\ \A i \in 1 .. Len(p) + Len(q) : (p \o q)[i] = IF i <= Len(p) THEN p[i] ELSE q[i - Len(p)]
    BY ConcatProperties
  <2> QED BY <2>1
<1>2. /\ DOMAIN r = 1 .. Len(p) + Len(q) /\ DOMAIN p = 1 .. Len(p) /\ DOMAIN q = 1 .. Len(q)
      /\ Len(p) \in Nat /\ Len(q) \in Nat
  BY <1>1, LenProperties
<1>3. ASSUME NEW i \in DOMAIN r
      PROVE  \/ i \in DOMAIN p /\ r[i] = p[i]
             \/ i > Len(p) /\ i - Len(p) \in DOMAIN q /\ r[i] = q[i - Len(p)]
  BY <1>1, <1>2
<1>4. IsInjective(r)
  <2> SUFFICES ASSUME NEW i \in DOMAIN r, NEW j \in DOMAIN r, r[i] = r[j]
               PROVE  i = j
    BY DEF IsInjective
  <2>1. CASE i \in DOMAIN p /\ r[i] = p[i] /\ j \in DOMAIN p /\ r[j] = p[j]
    BY <2>1 DEF IsInjective
  <2>2. CASE /\ i > Len(p) /\ i - Len(p) \in DOMAIN q /\ r[i] = q[i - Len(p)]
             /\ j > Len(p) /\ j - Len(p) \in DOMAIN q /\ r[j] = q[j - Len(p)]
    <3>1. i - Len(p) = j - Len(p)
      BY <2>2 DEF IsInjective
    <3> QED BY <3>1, <1>2
  <2>3. CASE r[i] \in ToSet(p) /\ r[j] \in ToSet(q)
    BY <2>3
  <2>4. CASE r[i] \in ToSet(q) /\ r[j] \in ToSet(p)
    BY <2>4
  <2> QED BY <1>3, <2>1, <2>2, <2>3, <2>4 DEF ToSet
<1>5. ToSet(r) = ToSet(p) \cup ToSet(q)
  <2>1. ToSet(r) \subseteq ToSet(p) \cup ToSet(q)
    BY <1>3 DEF ToSet
  <2>2. \A i \in DOMAIN p : i \in DOMAIN r /\ r[i] = p[i]
    BY <1>1, <1>2
  <2>3. \A i \in DOMAIN q : Len(p) + i \in DOMAIN r /\ r[Len(p) + i] = q[i]
    <3>1. ASSUME NEW i \in DOMAIN q
          PROVE  Len(p) + i \in 1 .. Len(p) + Len(q) /\ ~(Len(p) + i <= Len(p)) /\ (Len(p) + i) - Len(p) = i
      BY <1>2
    <3> QED BY <3>1, <1>1, <1>2
  <2>4. ToSet(p) \subseteq ToSet(r)
    BY <2>2 DEF ToSet
  <2>5. ToSet(q) \subseteq ToSet(r)
    BY <2>3, Zenon DEF ToSet
  <2> QED BY <2>1, <2>4, <2>5
<1> QED BY <1>1, <1>4, <1>5

\* A list of documents without duplicates is no longer than there are documents.
LEMMA Places ==
  ASSUME NEW s \in Seq(Docs), IsInjective(s)
  PROVE  DOMAIN s \subseteq Docs
<1>1. MaxDocs \in Nat /\ Len(s) \in Nat /\ DOMAIN s = 1 .. Len(s)
  BY TablesAssumption
<1>2. /\ IsFiniteSet(1 .. Len(s)) /\ Cardinality(1 .. Len(s)) = Len(s)
      /\ IsFiniteSet(Docs) /\ Cardinality(Docs) = MaxDocs
  <2>1. \A n \in Nat : IsFiniteSet(1 .. n) /\ Cardinality(1 .. n) = n
    BY FS_Interval
  <2> QED BY <1>1, <2>1 DEF Docs
<1>3. s \in Injection(1 .. Len(s), Docs)
  <2>1. s \in [1 .. Len(s) -> Docs]
    BY <1>1
  <2> QED BY <2>1 DEF Injection
<1>4. Len(s) <= MaxDocs
  BY <1>2, <1>3, FS_Injection
<1> QED BY <1>1, <1>4 DEF Docs

\* A list of members of A is a list of members of B.
LEMMA SeqWithin ==
  ASSUME NEW A, NEW B, A \subseteq B, NEW s \in Seq(A)
  PROVE  s \in Seq(B)
<1>1. Len(s) \in Nat /\ s \in [1 .. Len(s) -> A]
  BY LenProperties
<1>2. s \in [1 .. Len(s) -> B]
  BY <1>1
<1> QED BY <1>1, <1>2

\* The data of a table: documents of its page, none of them twice.
LEMMA FilteredOf ==
  TypeOK => /\ filteredDocuments \in Seq(Docs) /\ IsInjective(filteredDocuments)
            /\ DOMAIN filteredDocuments \subseteq Docs
            /\ ToSet(filteredDocuments) \subseteq ToSet(documents)
<1> SUFFICES ASSUME TypeOK
             PROVE  /\ filteredDocuments \in Seq(Docs) /\ IsInjective(filteredDocuments)
                    /\ ToSet(filteredDocuments) \subseteq ToSet(documents)
  BY Places
<1>1. documents \in Seq(Docs) /\ IsInjective(documents)
  BY DEF TypeOK
<1> DEFINE T == {i \in DOMAIN documents :
                            /\ InRange(documents[i], dateRange)
                            /\ \/ stackFilter = {}
                               \/ \E s \in stackFilter : <<documents[i], s>> \in seen}
<1>2. /\ Picked(documents, T) \in Seq(Docs) /\ IsInjective(Picked(documents, T))
      /\ ToSet(Picked(documents, T)) \subseteq ToSet(documents)
  <2>1. T \in SUBSET (DOMAIN documents)
    OBVIOUS
  <2> HIDE DEF T
  <2>2. Picked(documents, T) \in Seq(Docs)
    BY <1>1, <2>1, PickedOf
  <2>3. IsInjective(Picked(documents, T))
    BY <1>1, <2>1, PickedInjective
  <2>4. ToSet(Picked(documents, T)) = {documents[i] : i \in T}
    BY <1>1, <2>1, PickedSet
  <2> QED BY <2>1, <2>2, <2>3, <2>4 DEF ToSet
<1>3. filteredDocuments = IF page # "list" THEN documents ELSE Picked(documents, T)
  BY DEF filteredDocuments
<1> QED BY <1>1, <1>2, <1>3

\* The selection acts on documents of the page.
LEMMA SelectedOf ==
  ASSUME IInv
  PROVE  selectedIds \subseteq 1 .. uploads /\ selectedIds \subseteq Docs
<1>1. ToSet(filteredDocuments) \subseteq ToSet(documents)
  BY FilteredOf DEF IInv
<1>2. ToSet(documents) \subseteq 1 .. uploads
  <2>1. documents \in Seq(1 .. uploads)
    BY DEF IInv, Known
  <2>2. \A i \in DOMAIN documents : documents[i] \in 1 .. uploads
    <3>1. DOMAIN documents = 1 .. Len(documents)
      BY <2>1, LenProperties
    <3>2. \A i \in 1 .. Len(documents) : documents[i] \in 1 .. uploads
      BY <2>1, ElementOfSeq
    <3> QED BY <3>1, <3>2
  <2> QED BY <2>2 DEF ToSet
<1>3. selectedIds \subseteq ToSet(filteredDocuments)
  BY DEF selectedIds, Selected, DocsAt, Rows, ToSet
<1>4. 1 .. uploads \subseteq Docs
  BY TablesAssumption DEF IInv, TypeOK, Docs
<1> QED BY <1>1, <1>2, <1>3, <1>4

\* What the server answers: uploaded documents, none of them twice.
Listings == \A p \in Pages : Listing(p) \in Seq(1 .. uploads) /\ IsInjective(Listing(p))

\* The documents of a stack's page: those with a pair, each once.
LEMMA ListingOf ==
  ServerType => Listings
<1> SUFFICES ASSUME ServerType, NEW p \in Pages
             PROVE  Listing(p) \in Seq(1 .. uploads) /\ IsInjective(Listing(p))
  BY DEF Listings
<1>1. uploads \in Nat /\ added \in Seq(Docs \X Stacks) /\ IsInjective(added)
      /\ ToSet(added) \subseteq (1 .. uploads) \X Stacks
  <2>1. uploads \in Nat /\ db \subseteq 1 .. uploads /\ added \in Seq(Docs \X Stacks) /\ IsInjective(added)
    BY TablesAssumption DEF ServerType
  <2>2. ToSet(added) \subseteq db \X Stacks
    BY DEF ServerType
  <2>3. db \X Stacks \subseteq (1 .. uploads) \X Stacks
    BY <2>1
  <2> QED BY <2>1, <2>2, <2>3
<1>2. CASE p = "list"
  <2> DEFINE s == Newest
             T == {n \in DOMAIN s : s[n] \in db}
  <2>1. s \in Seq(1 .. uploads)
    <3>1. \A n \in 1 .. uploads : uploads + 1 - n \in 1 .. uploads
      BY <1>1
    <3> QED BY <1>1, <3>1 DEF Newest
  <2>2. IsInjective(s)
    <3>1. \A n, m \in 1 .. uploads : uploads + 1 - n = uploads + 1 - m => n = m
      BY <1>1
    <3> QED BY <3>1 DEF IsInjective, Newest
  <2>3. T \in SUBSET (DOMAIN s)
    OBVIOUS
  <2>4. Listing(p) = Picked(s, T)
    BY <1>2 DEF Listing
  <2> HIDE DEF s, T
  <2> QED BY <2>1, <2>2, <2>3, <2>4, PickedOf, PickedInjective
<1>3. CASE p # "list"
  <2> DEFINE T == {i \in DOMAIN added : added[i][2] = p}
             o == Picked(added, T)
  <2>1. T \in SUBSET (DOMAIN added)
    OBVIOUS
  <2>2. Listing(p) = [i \in DOMAIN o |-> o[i][1]]
    BY <1>3 DEF Listing
  <2>3. \A i \in T : added[i] \in (1 .. uploads) \X Stacks /\ added[i][2] = p
    BY <1>1 DEF ToSet
  <2> HIDE DEF T
  <2>4. /\ o \in Seq(Docs \X Stacks) /\ IsInjective(o) /\ ToSet(o) = {added[i] : i \in T}
    <3>1. o \in Seq(Docs \X Stacks)
      BY <1>1, <2>1, PickedOf
    <3>2. IsInjective(o)
      BY <1>1, <2>1, PickedInjective
    <3>3. ToSet(o) = {added[i] : i \in T}
      BY <1>1, <2>1, PickedSet
    <3> QED BY <3>1, <3>2, <3>3
  <2> HIDE DEF o
  <2>5. DOMAIN o = 1 .. Len(o) /\ Len(o) \in Nat
    BY <2>4
  <2>6. \A i \in DOMAIN o : o[i] \in (1 .. uploads) \X Stacks /\ o[i][2] = p
    BY <2>3, <2>4 DEF ToSet
  <2>7. Listing(p) \in Seq(1 .. uploads)
    BY <2>2, <2>5, <2>6
  <2>8. ASSUME NEW i \in DOMAIN o, NEW k \in DOMAIN o, o[i][1] = o[k][1]
        PROVE  i = k
    <3>1. o[i] = o[k]
      BY <2>6, <2>8
    <3> QED BY <3>1, <2>4 DEF IsInjective
  <2>9. IsInjective(Listing(p))
    BY <2>2, <2>8 DEF IsInjective
  <2> QED BY <2>7, <2>9
<1> QED BY <1>2, <1>3
-----------------------------------------------------------------------------
(* The steps.                                                              *)

FilterStep == \E text \in BOOLEAN, range \in Ranges \cup {"all"}, stacks \in SUBSET Stacks :
                Filter(text, range, stacks)

\* The boxes: afterwards those of rows are ticked, and the documents are theirs.
BoxStep == \E rows \in SUBSET Docs, docs \in SUBSET Docs :
             /\ Select(rows, docs)
             /\ ~shifted => rows \subseteq DOMAIN filteredDocuments /\ docs = DocsAt(rows)

\* What a step can be.
LEMMA FilterCases ==
  ASSUME TypeOK,
         \/ SetFilterValue \/ ClearDateFilter \/ ClearFilters
         \/ \E r \in Ranges : PickDate(r)
         \/ \E s \in Stacks : ToggleStackFilter(s) \/ ClearStackFilter(s)
  PROVE  FilterStep
<1>1. /\ filterValue \in BOOLEAN /\ dateRange \in Ranges \cup {"all"} /\ stackFilter \in SUBSET Stacks
  BY DEF TypeOK
<1>2. CASE SetFilterValue
  BY <1>1, <1>2 DEF SetFilterValue, FilterStep
<1>3. CASE ClearDateFilter
  BY <1>1, <1>3 DEF ClearDateFilter, FilterStep
<1>4. CASE ClearFilters
  BY <1>1, <1>4 DEF ClearFilters, FilterStep
<1>5. ASSUME NEW r \in Ranges, PickDate(r)
      PROVE  FilterStep
  <2>1. (IF dateRange = r THEN "all" ELSE r) \in Ranges \cup {"all"}
    OBVIOUS
  <2> QED BY <1>1, <1>5, <2>1 DEF PickDate, FilterStep
<1>6. ASSUME NEW s \in Stacks, ToggleStackFilter(s) \/ ClearStackFilter(s)
      PROVE  FilterStep
  <2>1. SymDiff(stackFilter, {s}) \in SUBSET Stacks /\ stackFilter \ {s} \in SUBSET Stacks
    BY <1>1 DEF SymDiff
  <2> QED BY <1>1, <1>6, <2>1 DEF ToggleStackFilter, ClearStackFilter, FilterStep
<1> QED BY <1>2, <1>3, <1>4, <1>5, <1>6

\* The documents of sets of rows, of which no two show the same.
LEMMA DocsOf ==
  ASSUME TypeOK, NEW R \in SUBSET (DOMAIN filteredDocuments), NEW S \in SUBSET (DOMAIN filteredDocuments)
  PROVE  /\ DocsAt(R \cup S) = DocsAt(R) \cup DocsAt(S)
         /\ DocsAt(R \ S) = DocsAt(R) \ DocsAt(S)
         /\ DocsAt(R \cap S) = DocsAt(R) \cap DocsAt(S)
         /\ DocsAt(R) \subseteq Docs
<1>1. filteredDocuments \in Seq(Docs) /\ IsInjective(filteredDocuments)
  BY FilteredOf
<1>2. \A i \in DOMAIN filteredDocuments : filteredDocuments[i] \in Docs
  BY <1>1
<1> QED BY <1>1, <1>2 DEF DocsAt, IsInjective

\* A click on a box moves rows and their documents into or out of the selection together.
LEMMA BoxCases ==
  ASSUME IInv, ToggleAll \/ \E i \in Docs : ToggleRow(i)
  PROVE  BoxStep
<1> DEFINE D == DOMAIN filteredDocuments
<1>1. /\ TypeOK /\ D \subseteq Docs /\ Rows \subseteq D
      /\ rowSelection \subseteq Docs /\ ticked \subseteq Docs
      /\ ~shifted => rowSelection \subseteq D /\ ticked = DocsAt(rowSelection)
  BY FilteredOf DEF IInv, TypeOK, Ticked, Rows
<1>2. \A R \in SUBSET D : DocsAt(R) \subseteq Docs
  BY <1>1, DocsOf
<1> HIDE DEF D
<1>3. ASSUME NEW R \in SUBSET D
      PROVE  /\ Select(rowSelection \ R, ticked \ DocsAt(R)) => BoxStep
             /\ Select(rowSelection \cup R, ticked \cup DocsAt(R)) => BoxStep
  <2>1. /\ rowSelection \ R \in SUBSET Docs /\ ticked \ DocsAt(R) \in SUBSET Docs
        /\ rowSelection \cup R \in SUBSET Docs /\ ticked \cup DocsAt(R) \in SUBSET Docs
    BY <1>1, <1>2
  <2>2. ASSUME ~shifted
        PROVE  /\ rowSelection \ R \subseteq D /\ ticked \ DocsAt(R) = DocsAt(rowSelection \ R)
               /\ rowSelection \cup R \subseteq D /\ ticked \cup DocsAt(R) = DocsAt(rowSelection \cup R)
    <3>1. rowSelection \in SUBSET D /\ ticked = DocsAt(rowSelection)
      BY <1>1, <2>2
    <3>2. /\ DocsAt(rowSelection \ R) = DocsAt(rowSelection) \ DocsAt(R)
          /\ DocsAt(rowSelection \cup R) = DocsAt(rowSelection) \cup DocsAt(R)
      BY <1>1, <3>1, DocsOf DEF D
    <3> QED BY <3>1, <3>2
  <2>3. ASSUME Select(rowSelection \ R, ticked \ DocsAt(R))
        PROVE  BoxStep
    BY <2>1, <2>2, <2>3 DEF BoxStep, D
  <2>4. ASSUME Select(rowSelection \cup R, ticked \cup DocsAt(R))
        PROVE  BoxStep
    BY <2>1, <2>2, <2>4 DEF BoxStep, D
  <2> QED BY <2>3, <2>4
<1>4. CASE ToggleAll
  BY <1>1, <1>3, <1>4 DEF ToggleAll, PageRows
<1>5. ASSUME NEW i \in Docs, ToggleRow(i)
      PROVE  BoxStep
  <2>1. {i} \in SUBSET D
    BY <1>1, <1>5 DEF ToggleRow
  <2> QED BY <1>3, <1>5, <2>1 DEF ToggleRow
<1> QED BY <1>4, <1>5

\* The steps of the bar and of the handlers, action by action.
LEMMA StepCases ==
  ASSUME IInv, Next
  PROVE  \/ Upload \/ Refreshed \/ FilterStep \/ BoxStep \/ SetSearchFilter \/ OpenDialog \/ CloseDialog
         \/ \E p \in Pages : Open(p)
         \/ \E back \in BOOLEAN : ChangeTab(back)
         \/ \E d \in Docs : DeletedElsewhere(d)
         \/ \E d \in Docs, s \in Stacks, out \in Outcomes : ToggleStack(d, s, out)
         \/ \E j \in Jobs : \/ ConfirmDelete(j)
                            \/ \E d, e \in Docs : ConfirmOne(j, d, e)
                            \/ \E s \in Stacks : AddToStack(j, s)
                            \/ \E out \in Outcomes : \/ FetchPaths(j, out) \/ DeleteRows(j, out)
                                                     \/ RemoveFiles(j, out) \/ UpsertPairs(j, out)
BY FilterCases, BoxCases DEF Next, IInv

\* The rows of the database stay consistent: a pair of stack_documents is there once,
\* and is that of a document that has its row.
LEMMA WithoutOf ==
  ASSUME IInv, NEW S
  PROVE  /\ WithoutDocs(S) \in Seq(Docs \X Stacks) /\ IsInjective(WithoutDocs(S))
         /\ ToSet(WithoutDocs(S)) \subseteq (db \ S) \X Stacks
<1> DEFINE T == {i \in DOMAIN added : added[i][1] \notin S}
<1>1. /\ added \in Seq(Docs \X Stacks) /\ IsInjective(added) /\ T \in SUBSET (DOMAIN added)
      /\ \A i \in DOMAIN added : added[i] \in db \X Stacks
  BY DEF IInv, TypeOK, ToSet
<1>2. WithoutDocs(S) = Picked(added, T) /\ \A i \in T : added[i][1] \notin S /\ i \in DOMAIN added
  BY DEF WithoutDocs
<1> HIDE DEF T
<1>3. Picked(added, T) \in Seq(Docs \X Stacks)
  BY <1>1, PickedOf
<1>4. IsInjective(Picked(added, T))
  BY <1>1, PickedInjective
<1>5. ToSet(Picked(added, T)) = {added[i] : i \in T}
  BY <1>1, PickedSet
<1>6. \A i \in T : added[i] \in (db \ S) \X Stacks
  BY <1>1, <1>2
<1> QED BY <1>2, <1>3, <1>4, <1>5, <1>6

\* An upsert inserts pairs of documents that have their rows.
LEMMA UpsertOf ==
  ASSUME IInv, NEW j \in Jobs, NEW out \in Outcomes, UpsertPairs(j, out)
  PROVE  added' \in Seq(Docs \X Stacks) /\ IsInjective(added') /\ ToSet(added') \subseteq db \X Stacks
<1> DEFINE ids == jobs[j].ids
           new == {<<d, jobs[j].stack>> : d \in ids} \ ToSet(added)
<1>1. /\ added \in Seq(Docs \X Stacks) /\ IsInjective(added) /\ ToSet(added) \subseteq db \X Stacks
      /\ jobs[j].stack \in Stacks /\ ids \subseteq Docs /\ MaxDocs \in Nat
  BY TablesAssumption DEF IInv, TypeOK, Known, Started, UpsertPairs, Job
<1>2. Cardinality(new) \in Nat
  <2>1. IsFiniteSet(Docs)
    BY <1>1, FS_Interval DEF Docs
  <2>2. IsFiniteSet(ids)
    BY <1>1, <2>1, FS_Subset
  <2>3. IsFiniteSet({<<d, jobs[j].stack>> : d \in ids})
    <3>1. [d \in ids |-> <<d, jobs[j].stack>>] \in Surjection(ids, {<<d, jobs[j].stack>> : d \in ids})
      BY DEF Surjection
    <3> QED BY <2>2, <3>1, FS_Surjection
  <2>4. IsFiniteSet(new)
    BY <2>3, FS_Difference
  <2> QED BY <2>4, FS_CardinalityType
<1>3. PICK order \in SetToSeqs(new) : added' = IF Applied(out) /\ ids \subseteq db THEN order \o added ELSE added
  BY DEF UpsertPairs
<1>4. CASE ~(ids \subseteq db)
  BY <1>1, <1>3, <1>4
<1>5. CASE ids \subseteq db
  <2>1. new \subseteq Docs \X Stacks /\ new \subseteq db \X Stacks /\ new \cap ToSet(added) = {}
    BY <1>1, <1>5
  <2> HIDE DEF new, ids
  <2>2. order \in [1 .. Cardinality(new) -> new] /\ \A i, k \in 1 .. Cardinality(new) : i # k => order[i] # order[k]
    BY <1>3 DEF SetToSeqs
  <2>3. order \in Seq(Docs \X Stacks) /\ IsInjective(order) /\ ToSet(order) \subseteq new
    BY <1>2, <2>1, <2>2 DEF IsInjective, ToSet
  <2>4. /\ order \o added \in Seq(Docs \X Stacks) /\ IsInjective(order \o added)
        /\ ToSet(order \o added) = ToSet(order) \cup ToSet(added)
    BY <1>1, <2>1, <2>3, ConcatInjective
  <2> QED BY <1>1, <1>3, <2>1, <2>3, <2>4
<1> QED BY <1>4, <1>5

\* The stacks menu deletes a pair or inserts one that is not there.
LEMMA ToggleOf ==
  ASSUME IInv, NEW d \in Docs, NEW s \in Stacks, NEW out \in Outcomes, ToggleStack(d, s, out)
  PROVE  added' \in Seq(Docs \X Stacks) /\ IsInjective(added') /\ ToSet(added') \subseteq db \X Stacks
<1> DEFINE pair == <<d, s>>
           T == {i \in DOMAIN added : added[i] # pair}
<1>1. /\ added \in Seq(Docs \X Stacks) /\ IsInjective(added) /\ T \in SUBSET (DOMAIN added)
      /\ ToSet(added) \subseteq db \X Stacks
  BY DEF IInv, TypeOK
<1>2. \/ added' = added
      \/ added' = Picked(added, T)
      \/ added' = <<pair>> \o added /\ pair \notin ToSet(added) /\ d \in db
  BY DEF ToggleStack
<1> HIDE DEF T
<1>3. /\ Picked(added, T) \in Seq(Docs \X Stacks) /\ IsInjective(Picked(added, T))
      /\ ToSet(Picked(added, T)) \subseteq ToSet(added)
  <2>1. Picked(added, T) \in Seq(Docs \X Stacks)
    BY <1>1, PickedOf
  <2>2. IsInjective(Picked(added, T))
    BY <1>1, PickedInjective
  <2>3. ToSet(Picked(added, T)) = {added[i] : i \in T}
    BY <1>1, PickedSet
  <2> QED BY <1>1, <2>1, <2>2, <2>3 DEF ToSet
<1>4. ASSUME pair \notin ToSet(added), d \in db
      PROVE  /\ <<pair>> \o added \in Seq(Docs \X Stacks) /\ IsInjective(<<pair>> \o added)
             /\ ToSet(<<pair>> \o added) \subseteq db \X Stacks
  <2>1. pair \in Docs \X Stacks /\ pair \in db \X Stacks
    BY <1>4
  <2> HIDE DEF pair
  <2>2. PICK o \in Seq(Docs \X Stacks) : o = <<pair>>
    <3>1. \A A : \A x \in A : <<x>> \in Seq(A)
      OBVIOUS
    <3> QED BY <2>1, <3>1
  <2>3. IsInjective(o) /\ ToSet(o) = {pair}
    BY <2>2 DEF IsInjective, ToSet
  <2>4. o \o added \in Seq(Docs \X Stacks) /\ IsInjective(o \o added) /\ ToSet(o \o added) = ToSet(o) \cup ToSet(added)
    BY <1>1, <1>4, <2>3, ConcatInjective
  <2> QED BY <1>1, <2>1, <2>2, <2>3, <2>4
<1> QED BY <1>1, <1>2, <1>3, <1>4

\* The server's rows keep their types, and no step forgets an upload.
LEMMA ServerKept ==
  ASSUME IInv, Next
  PROVE  ServerType' /\ uploads' \in {uploads, uploads + 1}
<1>1. /\ uploads \in 0 .. MaxDocs /\ MaxDocs \in Nat /\ db \subseteq 1 .. uploads /\ missing \subseteq db /\ taken \subseteq db
      /\ added \in Seq(Docs \X Stacks) /\ ToSet(added) \subseteq db \X Stacks /\ IsInjective(added)
  BY TablesAssumption DEF IInv, TypeOK
<1>2. CASE Upload
  <2>1. uploads + 1 \in 0 .. MaxDocs /\ \A x \in 1 .. uploads : x \in 1 .. uploads + 1
    BY <1>1, <1>2 DEF Upload
  <2>2. /\ uploads' = uploads + 1 /\ db' = db \cup {uploads + 1}
        /\ added' = added /\ missing' = missing /\ taken' = taken
    BY <1>2 DEF Upload
  <2>3. uploads + 1 \in 1 .. uploads + 1
    BY <1>1
  <2>4. db' \subseteq 1 .. uploads' /\ missing' \subseteq db' /\ taken' \subseteq db' /\ db \subseteq db'
    BY <1>1, <2>1, <2>2, <2>3
  <2>5. ToSet(added)' = ToSet(added) /\ IsInjective(added)'
    BY <1>1, <2>2 DEF ToSet, IsInjective
  <2> QED BY <1>1, <2>1, <2>2, <2>4, <2>5 DEF ServerType
<1>3. ASSUME uploads' = uploads, db' \subseteq db, missing' \subseteq db', taken' \subseteq db',
             added' \in Seq(Docs \X Stacks), IsInjective(added'), ToSet(added') \subseteq db' \X Stacks
      PROVE  ServerType' /\ uploads' \in {uploads, uploads + 1}
  BY <1>1, <1>3 DEF ServerType
<1>4. ASSUME NEW S, DropsRows(S), uploads' = uploads
      PROVE  ServerType' /\ uploads' \in {uploads, uploads + 1}
  <2>1. db' = db \ S /\ missing' = missing \ S /\ taken' = taken \ S /\ added' = WithoutDocs(S)
    BY <1>4 DEF DropsRows
  <2>2. /\ added' \in Seq(Docs \X Stacks) /\ IsInjective(added')
        /\ ToSet(added') \subseteq db' \X Stacks
    BY <2>1, WithoutOf
  <2> QED BY <1>1, <1>3, <1>4, <2>1, <2>2
<1>5. ASSUME UNCHANGED serverVars
      PROVE  ServerType' /\ uploads' \in {uploads, uploads + 1}
  <2>1. uploads' = uploads /\ db' = db /\ missing' = missing /\ taken' = taken /\ added' = added
    BY <1>5 DEF serverVars
  <2> QED BY <1>1, <1>3, <2>1
<1>6. CASE \/ Refreshed \/ FilterStep \/ BoxStep \/ SetSearchFilter \/ OpenDialog \/ CloseDialog
           \/ \E p \in Pages : Open(p)
           \/ \E back \in BOOLEAN : ChangeTab(back)
           \/ \E j \in Jobs : \/ ConfirmDelete(j)
                              \/ \E d, e \in Docs : ConfirmOne(j, d, e)
                              \/ \E s \in Stacks : AddToStack(j, s)
                              \/ \E out \in Outcomes : FetchPaths(j, out)
  <2>1. UNCHANGED serverVars
    BY <1>6 DEF Refreshed, FilterStep, Filter, BoxStep, Select, SetSearchFilter, OpenDialog, CloseDialog, Open,
                ChangeTab, ConfirmDelete, ConfirmOne, AddToStack, FetchPaths
  <2> QED BY <1>5, <2>1
<1>7. ASSUME NEW d \in Docs, DeletedElsewhere(d)
      PROVE  ServerType' /\ uploads' \in {uploads, uploads + 1}
  BY <1>4, <1>7 DEF DeletedElsewhere
<1>8. ASSUME NEW d \in Docs, NEW s \in Stacks, NEW out \in Outcomes, ToggleStack(d, s, out)
      PROVE  ServerType' /\ uploads' \in {uploads, uploads + 1}
  <2>1. added' \in Seq(Docs \X Stacks) /\ IsInjective(added') /\ ToSet(added') \subseteq db \X Stacks
    BY <1>8, ToggleOf
  <2>2. uploads' = uploads /\ db' = db /\ missing' = missing /\ taken' = taken
    BY <1>8 DEF ToggleStack
  <2> QED BY <1>1, <1>3, <2>1, <2>2
<1>9. ASSUME NEW j \in Jobs, NEW out \in Outcomes, DeleteRows(j, out)
      PROVE  ServerType' /\ uploads' \in {uploads, uploads + 1}
  <2>1. CASE Applied(out)
    BY <1>4, <1>9, <2>1 DEF DeleteRows
  <2>2. CASE ~Applied(out)
    <3>1. UNCHANGED serverVars
      BY <1>9, <2>2 DEF DeleteRows, serverVars
    <3> QED BY <1>5, <3>1
  <2> QED BY <2>1, <2>2
<1>10. ASSUME NEW j \in Jobs, NEW out \in Outcomes, RemoveFiles(j, out)
       PROVE  ServerType' /\ uploads' \in {uploads, uploads + 1}
  <2>1. uploads' = uploads /\ db' = db /\ added' = added /\ missing' \subseteq db /\ taken' \subseteq db
    BY <1>1, <1>10 DEF RemoveFiles
  <2> QED BY <1>1, <1>3, <2>1
<1>11. ASSUME NEW j \in Jobs, NEW out \in Outcomes, UpsertPairs(j, out)
       PROVE  ServerType' /\ uploads' \in {uploads, uploads + 1}
  <2>1. added' \in Seq(Docs \X Stacks) /\ IsInjective(added') /\ ToSet(added') \subseteq db \X Stacks
    BY <1>11, UpsertOf
  <2>2. uploads' = uploads /\ db' = db /\ missing' = missing /\ taken' = taken
    BY <1>11 DEF UpsertPairs
  <2> QED BY <1>1, <1>3, <2>1, <2>2
<1> QED BY <1>2, <1>6, <1>7, <1>8, <1>9, <1>10, <1>11, StepCases

\* A page keeps its documents, or is given an answer of the server.
LEMMA GivenCases ==
  ASSUME IInv, Next
  PROVE  \/ UNCHANGED <<page, documents, seen>> /\ refreshing' \in BOOLEAN
         \/ \E p \in Pages : Gives(p)
<1>1. page \in Pages /\ refreshing \in BOOLEAN
  BY DEF IInv, TypeOK
<1>2. CASE \/ Upload \/ FilterStep \/ BoxStep \/ SetSearchFilter \/ OpenDialog \/ CloseDialog
  BY <1>1, <1>2 DEF Upload, FilterStep, Filter, BoxStep, Select, SetSearchFilter, OpenDialog, CloseDialog, givenVars
<1>3. CASE Refreshed \/ (\E p \in Pages : Open(p)) \/ \E back \in BOOLEAN : ChangeTab(back)
  BY <1>1, <1>3 DEF Refreshed, Open, Mounts, ChangeTab
<1>4. ASSUME NEW d \in Docs, DeletedElsewhere(d)
      PROVE  UNCHANGED <<page, documents, seen>> /\ refreshing' \in BOOLEAN
  BY <1>1, <1>4 DEF DeletedElsewhere, givenVars
<1>5. ASSUME NEW d \in Docs, NEW s \in Stacks, NEW out \in Outcomes, ToggleStack(d, s, out)
      PROVE  UNCHANGED <<page, documents, seen>> /\ refreshing' \in BOOLEAN
  BY <1>1, <1>5 DEF ToggleStack
<1>6. ASSUME NEW j \in Jobs, NEW s \in Stacks, ConfirmDelete(j) \/ AddToStack(j, s)
      PROVE  UNCHANGED <<page, documents, seen>> /\ refreshing' \in BOOLEAN
  BY <1>1, <1>6 DEF ConfirmDelete, AddToStack, givenVars
<1>7. ASSUME NEW j \in Jobs, NEW d \in Docs, NEW e \in Docs, ConfirmDelete(j) \/ ConfirmOne(j, d, e)
      PROVE  UNCHANGED <<page, documents, seen>> /\ refreshing' \in BOOLEAN
  BY <1>1, <1>7 DEF ConfirmDelete, ConfirmOne, givenVars
<1>8. ASSUME NEW j \in Jobs, NEW out \in Outcomes,
             FetchPaths(j, out) \/ DeleteRows(j, out) \/ UpsertPairs(j, out)
      PROVE  UNCHANGED <<page, documents, seen>> /\ refreshing' \in BOOLEAN
  BY <1>1, <1>8 DEF FetchPaths, DeleteRows, UpsertPairs, Fails, Finishes, givenVars
<1>9. ASSUME NEW j \in Jobs, NEW out \in Outcomes, RemoveFiles(j, out)
      PROVE  \/ UNCHANGED <<page, documents, seen>> /\ refreshing' \in BOOLEAN
             \/ \E p \in Pages : Gives(p)
  <2>1. "list" \in Pages
    BY DEF Pages
  <2> QED BY <1>1, <1>9, <2>1 DEF RemoveFiles, EndsOnList, Finishes, Mounts
<1>10. ASSUME NEW j \in Jobs, ConfirmDelete(j)
       PROVE  UNCHANGED <<page, documents, seen>> /\ refreshing' \in BOOLEAN
  BY <1>1, <1>10 DEF ConfirmDelete, givenVars
<1> QED BY <1>2, <1>3, <1>4, <1>5, <1>6, <1>7, <1>8, <1>9, <1>10, StepCases

\* A page shows documents that were uploaded, none of them twice.
LEMMA GivenKept ==
  ASSUME IInv, Next
  PROVE  GivenType' /\ documents' \in Seq(1 .. uploads')
<1>1. ServerType' /\ uploads' \in {uploads, uploads + 1} /\ uploads \in 0 .. MaxDocs /\ MaxDocs \in Nat
  BY ServerKept, TablesAssumption DEF IInv, TypeOK
<1>2. 1 .. uploads' \subseteq Docs
  BY <1>1 DEF Docs, ServerType
<1>3. CASE UNCHANGED <<page, documents, seen>> /\ refreshing' \in BOOLEAN
  <2>1. GivenType'
    BY <1>3 DEF IInv, TypeOK, GivenType, IsInjective
  <2>2. 1 .. uploads \subseteq 1 .. uploads'
    BY <1>1
  <2>3. documents \in Seq(1 .. uploads)
    BY DEF IInv, Known
  <2>4. documents \in Seq(1 .. uploads')
    BY <2>2, <2>3, SeqWithin
  <2> QED BY <1>3, <2>1, <2>4
<1>4. ASSUME NEW p \in Pages, Gives(p)
      PROVE  GivenType' /\ documents' \in Seq(1 .. uploads')
  <2>1. /\ page' = p /\ refreshing' = FALSE
        /\ documents' = IF p = "away" THEN <<>> ELSE Listing(p)'
        /\ seen' = IF p = "list" THEN ToSet(added') ELSE {}
    BY <1>4 DEF Gives
  <2>2. Listings'
    <3>1. ServerType' => Listings'
      BY ListingOf, PTL
    <3> QED BY <1>1, <3>1
  <2>3. Listing(p)' \in Seq(1 .. uploads') /\ IsInjective(Listing(p)')
    BY <2>2 DEF Listings
  <2>4. <<>> \in Seq(1 .. uploads') /\ IsInjective(<<>>)
    BY EmptySeq DEF IsInjective
  <2>5. documents' \in Seq(1 .. uploads') /\ IsInjective(documents')
    BY <2>1, <2>3, <2>4
  <2>6. documents' \in Seq(Docs)
    BY <1>2, <2>5, SeqWithin
  <2>7. seen' \subseteq Docs \X Stacks
    <3>1. ToSet(added') \subseteq db' \X Stacks /\ db' \subseteq 1 .. uploads'
      BY <1>1 DEF ServerType
    <3>2. ToSet(added') \subseteq Docs \X Stacks
      BY <1>2, <3>1
    <3> QED BY <2>1, <3>2
  <2> QED BY <2>1, <2>5, <2>6, <2>7 DEF GivenType
<1> QED BY <1>3, <1>4, GivenCases

\* The filters.
LEMMA FilterKept ==
  ASSUME IInv, Next
  PROVE  FilterType'
<1>1. FilterType
  BY DEF IInv, TypeOK, FilterType
<1>2. CASE \/ Upload \/ Refreshed \/ BoxStep \/ OpenDialog \/ CloseDialog
  BY <1>1, <1>2 DEF Upload, Refreshed, BoxStep, Select, OpenDialog, CloseDialog, filterVars, FilterType
<1>3. CASE FilterStep
  BY <1>1, <1>3 DEF FilterStep, Filter, FilterType
<1>4. CASE SetSearchFilter \/ \E back \in BOOLEAN : ChangeTab(back)
  BY <1>1, <1>4 DEF SetSearchFilter, ChangeTab, FilterType
<1>5. ASSUME NEW p \in Pages, Open(p)
      PROVE  FilterType'
  BY <1>1, <1>5 DEF Open, Mounts, filterVars, FilterType
<1>6. ASSUME NEW d \in Docs, DeletedElsewhere(d)
      PROVE  FilterType'
  BY <1>1, <1>6 DEF DeletedElsewhere, filterVars, FilterType
<1>7. ASSUME NEW d \in Docs, NEW s \in Stacks, NEW out \in Outcomes, ToggleStack(d, s, out)
      PROVE  FilterType'
  BY <1>1, <1>7 DEF ToggleStack, filterVars, FilterType
<1>8. ASSUME NEW j \in Jobs, \/ ConfirmDelete(j)
                             \/ \E d, e \in Docs : ConfirmOne(j, d, e)
                             \/ \E s \in Stacks : AddToStack(j, s)
                             \/ \E out \in Outcomes : \/ FetchPaths(j, out) \/ DeleteRows(j, out)
                                                      \/ RemoveFiles(j, out) \/ UpsertPairs(j, out)
      PROVE  FilterType'
  <2>1. UNCHANGED filterVars
    BY <1>8 DEF ConfirmDelete, ConfirmOne, AddToStack, FetchPaths, DeleteRows, RemoveFiles, UpsertPairs, Fails,
                Finishes, EndsOnList, Mounts
  <2> QED BY <1>1, <2>1 DEF filterVars, FilterType
<1> QED BY <1>2, <1>3, <1>4, <1>5, <1>6, <1>7, <1>8, StepCases

\* What is selected stays what was ticked, unless a row has become another document's.
LEMMA TableCases ==
  ASSUME IInv, Next
  PROVE  \/ ClearsTable
         \/ UNCHANGED tableVars /\ filteredDocuments' = filteredDocuments
         \/ UNCHANGED <<rowSelection, ticked>> /\ Shifts
         \/ BoxStep /\ filteredDocuments' = filteredDocuments
<1>1. ASSUME UNCHANGED <<page, documents, seen, dateRange, stackFilter>>
      PROVE  filteredDocuments' = filteredDocuments
  BY <1>1 DEF filteredDocuments, InRange
<1>2. CASE \/ Upload \/ SetSearchFilter \/ OpenDialog \/ CloseDialog
           \/ \E d \in Docs, s \in Stacks, out \in Outcomes : ToggleStack(d, s, out)
           \/ \E d \in Docs : DeletedElsewhere(d)
           \/ \E j \in Jobs : \/ ConfirmDelete(j)
                              \/ \E d, e \in Docs : ConfirmOne(j, d, e)
                              \/ \E s \in Stacks : AddToStack(j, s)
                              \/ \E out \in Outcomes : FetchPaths(j, out) \/ DeleteRows(j, out)
  <2>1. UNCHANGED <<tableVars, page, documents, seen, dateRange, stackFilter>>
    BY <1>2 DEF Upload, SetSearchFilter, OpenDialog, CloseDialog, ToggleStack, DeletedElsewhere, ConfirmDelete,
                ConfirmOne, AddToStack, FetchPaths, DeleteRows, Fails, givenVars, filterVars
  <2> QED BY <1>1, <2>1
<1>3. CASE Refreshed \/ FilterStep
  BY <1>3 DEF Refreshed, FilterStep, Filter
<1>4. CASE BoxStep
  <2>1. UNCHANGED <<page, documents, seen, dateRange, stackFilter>>
    BY <1>4 DEF BoxStep, Select, givenVars, filterVars
  <2> QED BY <1>1, <1>4, <2>1
<1>5. CASE \E p \in Pages : Open(p)
  BY <1>5 DEF Open, Mounts
<1>6. CASE \E back \in BOOLEAN : ChangeTab(back)
  BY <1>6 DEF ChangeTab
<1>7. ASSUME NEW j \in Jobs, NEW out \in Outcomes, RemoveFiles(j, out) \/ UpsertPairs(j, out)
      PROVE  \/ ClearsTable
             \/ UNCHANGED tableVars /\ filteredDocuments' = filteredDocuments
  <2>1. \/ ClearsTable
        \/ UNCHANGED <<tableVars, page, documents, seen, dateRange, stackFilter>>
    BY <1>7 DEF RemoveFiles, EndsOnList, Mounts, UpsertPairs, Finishes, Fails, givenVars, filterVars
  <2> QED BY <1>1, <2>1
<1> QED BY <1>2, <1>3, <1>4, <1>5, <1>6, <1>7, StepCases

\* No step of the filters, of a page or of the boxes breaks what is known of the selection.
LEMMA TableKept ==
  ASSUME IInv, Next
  PROVE  TableType' /\ Ticked'
<1>1. /\ rowSelection \subseteq Docs /\ ticked \subseteq Docs /\ shifted \in BOOLEAN
      /\ ~shifted => rowSelection \subseteq DOMAIN filteredDocuments /\ ticked = DocsAt(rowSelection)
  BY DEF IInv, TypeOK, Ticked
<1>2. CASE ClearsTable
  BY <1>2 DEF ClearsTable, TableType, Ticked, DocsAt
<1>3. CASE UNCHANGED tableVars /\ filteredDocuments' = filteredDocuments
  BY <1>1, <1>3 DEF tableVars, TableType, Ticked, DocsAt
<1>4. CASE UNCHANGED <<rowSelection, ticked>> /\ Shifts
  <2>1. shifted' \in BOOLEAN
    BY <1>4 DEF Shifts
  <2>2. ASSUME ~shifted'
        PROVE  rowSelection \subseteq DOMAIN filteredDocuments' /\ ticked = DocsAt(rowSelection)'
    <3>1. /\ ~shifted
          /\ \A i \in rowSelection : i \in DOMAIN filteredDocuments =>
               i \in DOMAIN filteredDocuments' /\ filteredDocuments'[i] = filteredDocuments[i]
      BY <1>4, <2>2 DEF Shifts
    <3>2. \A i \in rowSelection : i \in DOMAIN filteredDocuments' /\ filteredDocuments'[i] = filteredDocuments[i]
      BY <1>1, <3>1
    <3>3. DocsAt(rowSelection)' = {filteredDocuments'[i] : i \in rowSelection}
      BY <1>4 DEF DocsAt
    <3>4. DocsAt(rowSelection) = {filteredDocuments[i] : i \in rowSelection}
      BY DEF DocsAt
    <3> QED BY <1>1, <3>1, <3>2, <3>3, <3>4
  <2> QED BY <1>1, <1>4, <2>1, <2>2 DEF TableType, Ticked
<1>5. CASE BoxStep /\ filteredDocuments' = filteredDocuments
  <2>1. PICK rows \in SUBSET Docs, docs \in SUBSET Docs :
             /\ Select(rows, docs)
             /\ ~shifted => rows \subseteq DOMAIN filteredDocuments /\ docs = DocsAt(rows)
    BY <1>5 DEF BoxStep
  <2>2. /\ rowSelection' = rows /\ ticked' = IF rows = {} THEN {} ELSE docs
        /\ shifted' = (shifted /\ rows # {})
    BY <2>1 DEF Select
  <2>3. TableType'
    BY <2>2 DEF TableType
  <2>4. DocsAt(rowSelection)' = DocsAt(rows)
    BY <1>5, <2>2 DEF DocsAt
  <2>5. CASE rows = {}
    <3>1. rowSelection' = {} /\ ticked' = {}
      BY <2>2, <2>5
    <3>2. DocsAt(rows) = {}
      BY <2>5 DEF DocsAt
    <3> QED BY <2>3, <2>4, <3>1, <3>2 DEF Ticked
  <2>6. CASE rows # {}
    <3>1. rowSelection' = rows /\ ticked' = docs /\ (~shifted' => ~shifted)
      BY <2>2, <2>6
    <3>2. ~shifted => rows \subseteq DOMAIN filteredDocuments /\ docs = DocsAt(rows)
      BY <2>1
    <3> QED BY <1>5, <2>3, <2>4, <3>1, <3>2 DEF Ticked
  <2> QED BY <2>3, <2>5, <2>6
<1> QED BY <1>2, <1>3, <1>4, <1>5, TableCases

\* The dialog, and a delete in progress, are those of a selection.
LEMMA BarCases ==
  ASSUME IInv, Next
  PROVE  \/ \E open \in BOOLEAN, job \in Jobs \cup {0} : Bar(open, job)
         \/ /\ selectedIds' = selectedIds
            /\ dialog' \in BOOLEAN /\ deleting' \in Jobs \cup {0}
            /\ dialog' \/ deleting' # 0 => dialog \/ deleting # 0 \/ selectedIds # {}
<1>1. dialog \in BOOLEAN /\ deleting \in Jobs \cup {0} /\ FALSE \in BOOLEAN /\ 0 \in Jobs \cup {0}
  BY DEF IInv, TypeOK
<1>2. ASSUME UNCHANGED <<page, documents, seen, filterVars, rowSelection>>
      PROVE  selectedIds' = selectedIds
  <2>1. filteredDocuments' = filteredDocuments
    BY <1>2 DEF filteredDocuments, InRange, filterVars
  <2> QED BY <1>2, <2>1 DEF selectedIds, Selected, DocsAt, Rows, filterVars
<1>3. CASE \/ Upload \/ OpenDialog \/ CloseDialog
           \/ \E d \in Docs, s \in Stacks, out \in Outcomes : ToggleStack(d, s, out)
           \/ \E d \in Docs : DeletedElsewhere(d)
           \/ \E j \in Jobs : (\E s \in Stacks : AddToStack(j, s)) \/ \E d, e \in Docs : ConfirmOne(j, d, e)
  <2>1. UNCHANGED <<page, documents, seen, filterVars, rowSelection>>
    BY <1>3 DEF Upload, OpenDialog, CloseDialog, ToggleStack, DeletedElsewhere, AddToStack, ConfirmOne, givenVars, tableVars
  <2>2. /\ dialog' \in BOOLEAN /\ deleting' \in Jobs \cup {0}
        /\ dialog' \/ deleting' # 0 => dialog \/ deleting # 0 \/ selectedIds # {}
    <3>1. CASE OpenDialog
      BY <1>1, <3>1 DEF OpenDialog
    <3>2. CASE CloseDialog
      BY <1>1, <3>2 DEF CloseDialog
    <3>3. CASE ~OpenDialog /\ ~CloseDialog
      <4>1. dialog' = dialog /\ deleting' = deleting
        BY <1>3, <3>3 DEF Upload, ToggleStack, DeletedElsewhere, AddToStack, ConfirmOne, barVars
      <4> QED BY <1>1, <4>1
    <3> QED BY <3>1, <3>2, <3>3
  <2> QED BY <1>2, <2>1, <2>2
<1>4. ASSUME NEW j \in Jobs, ConfirmDelete(j)
      PROVE  /\ selectedIds' = selectedIds
             /\ dialog' \in BOOLEAN /\ deleting' \in Jobs \cup {0}
             /\ dialog' \/ deleting' # 0 => dialog \/ deleting # 0 \/ selectedIds # {}
  BY <1>1, <1>2, <1>4 DEF ConfirmDelete, givenVars, tableVars
<1>5. CASE Refreshed \/ FilterStep \/ BoxStep \/ SetSearchFilter
  BY <1>1, <1>5 DEF Refreshed, FilterStep, Filter, BoxStep, Select, SetSearchFilter
<1>6. CASE (\E p \in Pages : Open(p)) \/ \E back \in BOOLEAN : ChangeTab(back)
  BY <1>1, <1>6 DEF Open, Mounts, ChangeTab
<1>7. ASSUME EndsOnList
      PROVE  \/ \E open \in BOOLEAN, job \in Jobs \cup {0} : Bar(open, job)
             \/ /\ selectedIds' = selectedIds
                /\ dialog' \in BOOLEAN /\ deleting' \in Jobs \cup {0}
                /\ dialog' \/ deleting' # 0 => dialog \/ deleting # 0 \/ selectedIds # {}
  <2>1. \/ Bar(FALSE, 0)
        \/ UNCHANGED <<page, documents, seen, filterVars, rowSelection, dialog, deleting>>
    BY <1>7 DEF EndsOnList, Mounts, tableVars, barVars
  <2> QED BY <1>1, <1>2, <2>1
<1>8. ASSUME NEW j \in Jobs, UNCHANGED <<givenVars, filterVars, tableVars, dialog>>,
             deleting' = deleting \/ deleting' = IF deleting = j THEN 0 ELSE deleting
      PROVE  /\ selectedIds' = selectedIds
             /\ dialog' \in BOOLEAN /\ deleting' \in Jobs \cup {0}
             /\ dialog' \/ deleting' # 0 => dialog \/ deleting # 0 \/ selectedIds # {}
  BY <1>1, <1>2, <1>8 DEF givenVars, tableVars
<1>9. ASSUME NEW j \in Jobs, NEW clears, Finishes(j, clears)
      PROVE  \E open \in BOOLEAN, job \in Jobs \cup {0} : Bar(open, job)
  <2>1. Bar(dialog /\ deleting # j, IF deleting = j THEN 0 ELSE deleting)
    BY <1>9 DEF Finishes
  <2>2. (dialog /\ deleting # j) \in BOOLEAN /\ (IF deleting = j THEN 0 ELSE deleting) \in Jobs \cup {0}
    BY <1>1
  <2> QED BY <2>1, <2>2
<1>10. ASSUME NEW j \in Jobs, NEW out \in Outcomes,
              FetchPaths(j, out) \/ DeleteRows(j, out) \/ RemoveFiles(j, out) \/ UpsertPairs(j, out)
       PROVE  \/ \E clears : Finishes(j, clears)
              \/ EndsOnList
              \/ /\ UNCHANGED <<givenVars, filterVars, tableVars, dialog>>
                 /\ deleting' = deleting \/ deleting' = IF deleting = j THEN 0 ELSE deleting
  BY <1>10 DEF FetchPaths, DeleteRows, RemoveFiles, UpsertPairs, Fails, barVars
<1> QED BY <1>3, <1>4, <1>5, <1>6, <1>7, <1>8, <1>9, <1>10, StepCases

\* No step of the bar or of a handler leaves a dialog, or a delete in progress, without its selection.
LEMMA BarKept ==
  ASSUME IInv, Next
  PROVE  BarType'
<1>1. CASE \E open \in BOOLEAN, job \in Jobs \cup {0} : Bar(open, job)
  BY <1>1 DEF Bar, BarType
<1>2. CASE /\ selectedIds' = selectedIds
           /\ dialog' \in BOOLEAN /\ deleting' \in Jobs \cup {0}
           /\ dialog' \/ deleting' # 0 => dialog \/ deleting # 0 \/ selectedIds # {}
  BY <1>2 DEF BarType, IInv, TypeOK
<1> QED BY <1>1, <1>2, BarCases

\* The handlers: what they were started for was uploaded, and objects go after their rows.
LEMMA JobsKept ==
  ASSUME IInv, Next
  PROVE  JobsType' /\ Kept' /\ Started'
<1> DEFINE Good(i) == /\ jobs'[i].ids \subseteq 1 .. uploads'
                      /\ jobs'[i].at = "upsert" => jobs'[i].stack \in Stacks
                      /\ jobs'[i].kind # "one" => jobs'[i].paths \subseteq jobs'[i].ids
                      /\ jobs'[i].at = "files" => jobs'[i].ids \cap db' = {}
<1> SUFFICES JobsType' /\ missing' \subseteq taken' /\ \A i \in Jobs : Good(i)
  BY DEF Kept, Started
<1>1. /\ uploads \in Nat /\ jobs \in [Jobs -> Job] /\ db \subseteq 1 .. uploads /\ missing \subseteq taken
      /\ \A i \in Jobs : /\ jobs[i].ids \subseteq 1 .. uploads
                         /\ jobs[i].at = "upsert" => jobs[i].stack \in Stacks
                         /\ jobs[i].kind # "one" => jobs[i].paths \subseteq jobs[i].ids
                         /\ jobs[i].at = "files" => jobs[i].ids \cap db = {}
  BY DEF IInv, TypeOK, Known, Started, Kept
<1>2. 1 .. uploads \subseteq 1 .. uploads' /\ uploads + 1 \notin 1 .. uploads
  BY <1>1, ServerKept
<1>3. ASSUME jobs' = jobs, missing' \subseteq taken', db' \subseteq db \cup {uploads + 1}
      PROVE  JobsType' /\ missing' \subseteq taken' /\ \A i \in Jobs : Good(i)
  <2>1. \A i \in Jobs : uploads + 1 \notin jobs[i].ids
    BY <1>1, <1>2
  <2> QED BY <1>1, <1>2, <1>3, <2>1 DEF JobsType
<1>4. ASSUME NEW j \in Jobs, NEW r \in Job, jobs' = [jobs EXCEPT ![j] = r], db' \subseteq db, missing' \subseteq taken',
             r.ids \subseteq 1 .. uploads, r.at = "upsert" => r.stack \in Stacks,
             r.kind # "one" => r.paths \subseteq r.ids,
             r.at = "files" => r.ids \cap db' = {}
      PROVE  JobsType' /\ missing' \subseteq taken' /\ \A i \in Jobs : Good(i)
  <2>1. jobs'[j] = r /\ \A i \in Jobs : i # j => jobs'[i] = jobs[i]
    BY <1>1, <1>4
  <2>2. JobsType'
    BY <1>1, <1>4 DEF JobsType
  <2>3. ASSUME NEW i \in Jobs
        PROVE  Good(i)
    BY <1>1, <1>2, <1>4, <2>1
  <2> QED BY <1>4, <2>2, <2>3
<1>5. ASSUME NEW j \in Jobs, Ends(j), db' \subseteq db, missing' \subseteq taken'
      PROVE  JobsType' /\ missing' \subseteq taken' /\ \A i \in Jobs : Good(i)
  <2>1. NoJob \in Job /\ NoJob.ids = {} /\ NoJob.paths = {} /\ NoJob.at = "unused"
    BY DEF NoJob, Job
  <2> QED BY <1>4, <1>5, <2>1 DEF Ends
<1>6. ASSUME NEW j \in Jobs, NEW kind \in {"bulk", "one", "add"}, NEW at \in {"paths", "rows", "upsert"},
             NEW ids \in SUBSET Docs, NEW paths \in SUBSET Docs, NEW s \in Stacks \cup {"none"},
             Start(j, kind, at, ids, paths, s), ids \subseteq 1 .. uploads,
             at = "upsert" => s \in Stacks, kind # "one" => paths = {}, UNCHANGED serverVars
      PROVE  JobsType' /\ missing' \subseteq taken' /\ \A i \in Jobs : Good(i)
  <2> DEFINE r == [at |-> at, kind |-> kind, ids |-> ids, paths |-> paths, stack |-> s]
  <2>1. /\ r \in Job /\ r.ids = ids /\ r.at = at /\ r.stack = s /\ r.kind = kind /\ r.paths = paths
    BY DEF Job
  <2>2. jobs' = [jobs EXCEPT ![j] = r]
    BY <1>6 DEF Start
  <2>3. db' = db /\ missing' \subseteq taken'
    BY <1>1, <1>6 DEF serverVars
  <2> HIDE DEF r
  <2> QED BY <1>4, <1>6, <2>1, <2>2, <2>3
<1>7. ASSUME NEW j \in Jobs, NEW r \in Job, jobs' = [jobs EXCEPT ![j] = r],
             r.ids = jobs[j].ids, r.kind = jobs[j].kind, r.at \in {"rows", "files"},
             r.paths = jobs[j].paths \/ r.paths \subseteq jobs[j].ids,
             r.at = "files" => jobs[j].ids \cap db' = {},
             db' \subseteq db, missing' \subseteq taken'
      PROVE  JobsType' /\ missing' \subseteq taken' /\ \A i \in Jobs : Good(i)
  BY <1>1, <1>4, <1>7
<1>8. CASE \/ Upload \/ Refreshed \/ FilterStep \/ BoxStep \/ SetSearchFilter \/ OpenDialog \/ CloseDialog
           \/ \E p \in Pages : Open(p)
           \/ \E back \in BOOLEAN : ChangeTab(back)
           \/ \E d \in Docs : DeletedElsewhere(d)
           \/ \E d \in Docs, s \in Stacks, out \in Outcomes : ToggleStack(d, s, out)
  <2>1. jobs' = jobs
    BY <1>8 DEF Upload, Refreshed, FilterStep, Filter, BoxStep, Select, SetSearchFilter, OpenDialog, CloseDialog,
                Open, ChangeTab, DeletedElsewhere, ToggleStack
  <2>2. /\ db' \subseteq db \cup {uploads + 1}
        /\ \/ missing' = missing /\ taken' = taken
           \/ \E S : missing' = missing \ S /\ taken' = taken \ S
    BY <1>8 DEF Upload, Refreshed, FilterStep, Filter, BoxStep, Select, SetSearchFilter, OpenDialog, CloseDialog,
                Open, ChangeTab, DeletedElsewhere, DropsRows, ToggleStack, serverVars
  <2> QED BY <1>1, <1>3, <2>1, <2>2
<1>9. ASSUME NEW j \in Jobs, ConfirmDelete(j)
      PROVE  JobsType' /\ missing' \subseteq taken' /\ \A i \in Jobs : Good(i)
  BY <1>6, <1>9, SelectedOf DEF ConfirmDelete
<1>10. ASSUME NEW j \in Jobs, NEW s \in Stacks, AddToStack(j, s)
       PROVE  JobsType' /\ missing' \subseteq taken' /\ \A i \in Jobs : Good(i)
  BY <1>6, <1>10, SelectedOf DEF AddToStack
<1>11. ASSUME NEW j \in Jobs, NEW d \in Docs, NEW e \in Docs, ConfirmOne(j, d, e)
       PROVE  JobsType' /\ missing' \subseteq taken' /\ \A i \in Jobs : Good(i)
  <2>1. {d} \in SUBSET Docs /\ {e} \in SUBSET Docs /\ {d} \subseteq 1 .. uploads
    BY <1>11 DEF ConfirmOne
  <2> QED BY <1>6, <1>11, <2>1 DEF ConfirmOne
<1>12. ASSUME NEW j \in Jobs, NEW out \in Outcomes, FetchPaths(j, out)
       PROVE  JobsType' /\ missing' \subseteq taken' /\ \A i \in Jobs : Good(i)
  <2>1. db' = db /\ missing' = missing /\ taken' = taken
    BY <1>12 DEF FetchPaths, serverVars
  <2>2. CASE out = "ok"
    <3> DEFINE r == [jobs[j] EXCEPT !.at = "rows", !.paths = jobs[j].ids \cap db]
    <3>1. jobs' = [jobs EXCEPT ![j] = r]
      BY <1>1, <1>12, <2>2 DEF FetchPaths, AfterPaths
    <3>2. /\ r \in Job /\ r.ids = jobs[j].ids /\ r.kind = jobs[j].kind /\ r.at = "rows"
          /\ r.paths \subseteq jobs[j].ids
      BY <1>1 DEF Job
    <3> HIDE DEF r
    <3> QED BY <1>1, <1>7, <2>1, <3>1, <3>2
  <2>3. CASE out # "ok"
    BY <1>1, <1>5, <1>12, <2>1, <2>3 DEF FetchPaths, Fails
  <2> QED BY <2>2, <2>3
<1>13. ASSUME NEW j \in Jobs, NEW out \in Outcomes, DeleteRows(j, out)
       PROVE  JobsType' /\ missing' \subseteq taken' /\ \A i \in Jobs : Good(i)
  <2>1. db' \subseteq db /\ missing' \subseteq taken'
    BY <1>1, <1>13 DEF DeleteRows, DropsRows
  <2>2. CASE out = "ok"
    <3> DEFINE r == [jobs[j] EXCEPT !.at = "files"]
    <3>1. jobs' = [jobs EXCEPT ![j] = r] /\ jobs[j].ids \cap db' = {}
      BY <1>1, <1>13, <2>2 DEF DeleteRows, DropsRows, Applied, Goto
    <3>2. /\ r \in Job /\ r.ids = jobs[j].ids /\ r.kind = jobs[j].kind /\ r.at = "files"
          /\ r.paths = jobs[j].paths
      BY <1>1 DEF Job
    <3> HIDE DEF r
    <3> QED BY <1>7, <2>1, <3>1, <3>2
  <2>3. CASE out # "ok"
    BY <1>5, <1>13, <2>1, <2>3 DEF DeleteRows, Fails
  <2> QED BY <2>2, <2>3
<1>14. ASSUME NEW j \in Jobs, NEW out \in Outcomes, RemoveFiles(j, out)
       PROVE  JobsType' /\ missing' \subseteq taken' /\ \A i \in Jobs : Good(i)
  <2>1. jobs[j].at = "files" /\ Ends(j) /\ db' = db
    BY <1>14 DEF RemoveFiles
  <2>2. (jobs[j].paths \cap db) \subseteq (jobs[j].paths \ jobs[j].ids) \cap db
    BY <1>1, <2>1
  <2>3. missing' \subseteq taken'
    BY <1>1, <1>14, <2>2 DEF RemoveFiles
  <2> QED BY <1>5, <2>1, <2>3
<1>15. ASSUME NEW j \in Jobs, NEW out \in Outcomes, UpsertPairs(j, out)
       PROVE  JobsType' /\ missing' \subseteq taken' /\ \A i \in Jobs : Good(i)
  <2>1. Ends(j) /\ db' = db /\ missing' = missing /\ taken' = taken
    BY <1>15 DEF UpsertPairs, Fails
  <2> QED BY <1>1, <1>5, <2>1
<1> HIDE DEF Good
<1> QED BY <1>8, <1>9, <1>10, <1>11, <1>12, <1>13, <1>14, <1>15, StepCases
-----------------------------------------------------------------------------
\* The empty application satisfies the invariant.
LEMMA InitIInv ==
  Init => IInv
<1> SUFFICES ASSUME Init PROVE IInv
  OBVIOUS
<1>1. \A A : <<>> \in Seq(A)
  OBVIOUS
<1>2. IsInjective(<<>>) /\ ToSet(<<>>) = {}
  BY DEF IsInjective, ToSet
<1>3. uploads \in 0 .. MaxDocs /\ "away" \in Pages /\ "all" \in Ranges \cup {"all"}
  BY TablesAssumption DEF Init, Pages
<1>4. jobs \in [Jobs -> Job] /\ \A j \in Jobs : jobs[j] = NoJob
  BY DEF Init, NoJob, Job
<1>5. TypeOK
  BY <1>1, <1>2, <1>3, <1>4 DEF Init, TypeOK
<1>6. Known
  BY <1>1, <1>4 DEF Init, Known, Started, NoJob
<1>7. Kept
  BY <1>4 DEF Init, Kept, NoJob
<1>8. Ticked
  BY DEF Init, Ticked, DocsAt
<1> QED BY <1>5, <1>6, <1>7, <1>8 DEF IInv

\* Every step preserves the invariant: the conjuncts from the lemmas above.
LEMMA NextIInv ==
  IInv /\ [Next]_vars => IInv'
<1> SUFFICES ASSUME IInv, [Next]_vars PROVE IInv'
  OBVIOUS
<1>1. CASE Next
  <2>1. /\ ServerType' /\ GivenType' /\ FilterType' /\ TableType' /\ BarType' /\ JobsType'
        /\ Kept' /\ Ticked'
    BY <1>1, ServerKept, GivenKept, FilterKept, TableKept, BarKept, JobsKept
  <2>2. TypeOK'
    BY <2>1 DEF ServerType, GivenType, FilterType, TableType, BarType, JobsType, TypeOK
  <2>3. Known'
    BY <1>1, GivenKept, JobsKept DEF Known
  <2> QED BY <2>1, <2>2, <2>3 DEF IInv
<1>2. CASE UNCHANGED vars
  <2> USE <1>2 DEF vars, serverVars, givenVars, filterVars, tableVars, barVars
  <2>1. filteredDocuments' = filteredDocuments
    BY DEF filteredDocuments, InRange
  <2>2. selectedIds' = selectedIds
    BY <2>1 DEF selectedIds, Selected, DocsAt, Rows
  <2>3. TypeOK'
    BY <2>2 DEF IInv, TypeOK, ToSet, IsInjective
  <2>4. Known' /\ Kept' /\ Ticked'
    BY <2>1 DEF IInv, Known, Started, Kept, Ticked, DocsAt
  <2> QED BY <2>3, <2>4 DEF IInv
<1> QED BY <1>1, <1>2

\* The invariant of the tables is inductive: every delete removes the objects of its
\* own rows after those rows, and one with another document's path is in taken.
THEOREM TablesInductive == Spec => []IInv
BY InitIInv, NextIInv, PTL DEF Spec

\* Every variable has its type, no list has a document twice, and the selection bar
\* has a dialog or a delete in progress only while something is selected.
THEOREM TypeSafe == Spec => []TypeOK
<1>1. IInv => TypeOK
  BY DEF IInv
<1> QED BY <1>1, TablesInductive, PTL

\* The bar counts and acts on the documents on screen whose boxes were ticked.
THEOREM SelectionSafe == Spec => []SelectsTicked
<1>1. IInv => SelectsTicked
  <2> SUFFICES ASSUME IInv, ~shifted PROVE Selected = ticked \cap DocsAt(Rows)
    BY DEF SelectsTicked
  <2>1. TypeOK /\ rowSelection \subseteq DOMAIN filteredDocuments /\ ticked = DocsAt(rowSelection)
    BY DEF IInv, Ticked
  <2>2. Rows \subseteq DOMAIN filteredDocuments
    BY DEF Rows
  <2>3. DocsAt(Rows \cap rowSelection) = DocsAt(Rows) \cap DocsAt(rowSelection)
    BY <2>1, <2>2, DocsOf
  <2> QED BY <2>1, <2>3 DEF Selected
<1> QED BY <1>1, TablesInductive, PTL

\* No failure or interleaving of the deletes leaves a row without its object, but for
\* the delete of another document, gone already, that holds this one's path (taken).
THEOREM RowsSafe == Spec => []RowHasFile
<1>1. IInv => RowHasFile
  BY DEF IInv, Kept, RowHasFile
<1> QED BY <1>1, TablesInductive, PTL
=============================================================================
