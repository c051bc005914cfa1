------------------------------ MODULE Ordering -------------------------------
(***************************************************************************)
(* Sorting and filtering, in a form that can be reasoned about: of         *)
(* SelectSeq and SortSeq the provers know nothing.                         *)
(***************************************************************************)
EXTENDS Integers, FiniteSets, Sequences

\* The numbers in S, smallest first.
Ascending(S) ==
    [k \in 1 .. Cardinality(S) |-> CHOOSE i \in S : Cardinality({j \in S : j <= i}) = k]

\* The elements of s at the places in P, in their order.
Selected(s, P) ==
    LET places == Ascending(P)
    IN  [k \in DOMAIN places |-> s[places[k]]]

\* The elements of a set in order, each given with those that come before it.
Sorted(before) ==
    [k \in 1 .. Cardinality(DOMAIN before) |-> CHOOSE x \in DOMAIN before : Cardinality(before[x]) = k - 1]
=============================================================================
