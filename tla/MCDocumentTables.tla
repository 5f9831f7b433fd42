-------------------------- MODULE MCDocumentTables --------------------------
(***************************************************************************)
(* DocumentTables for TLC, with documents of different ages, so that a     *)
(* date range takes some of them from the table and leaves others.         *)
(***************************************************************************)
EXTENDS DocumentTables

\* The first upload is eight midnights old, the second one, others are of today.
MCAge == [d \in Docs |-> CASE d = 1 -> 8 [] d = 2 -> 1 [] OTHER -> 0]

\* How many filters of the list and of a stack are set, and how many handlers run.
Filters == Cardinality({f \in {<<"name", filterValue>>, <<"date", dateRange # "all">>,
                               <<"stack", stackFilter # {}>>, <<"search", searchFilter>>} : f[2]})
Running == Cardinality({j \in Jobs : jobs[j].at # "unused"})

\* Bound: any filters while no handler runs, one filter beside one handler, and two
\* deletes at once only on the list or away, without filters and without stacks' rows,
\* as long as no row has moved under a selected index.
FewAtOnce ==
  /\ Running > 0 => Filters <= 1
  /\ Running > 1 => /\ Filters = 0 /\ ~shifted /\ page \notin Stacks /\ added = <<>> /\ seen = {}
                    /\ \A j \in Jobs : jobs[j].kind # "add"
=============================================================================
