------------------------------- MODULE Picking -------------------------------
(* What is left of a list when some of its positions are taken: filter of  *)
(* JavaScript, which keeps the order.                                      *)
EXTENDS Naturals, Sequences, FiniteSets

\* How many numbers of T are at most i, and the number that is n-th in T.
Rank(T, i) == Cardinality({j \in T : j <= i})
Nth(T, n)  == CHOOSE i \in T : Rank(T, i) = n

\* The elements of s at the positions T, in their order.
Picked(s, T) == [n \in 1 .. Cardinality(T) |-> s[Nth(T, n)]]
=============================================================================
