------------------------------ MODULE Ordering ------------------------------
(***************************************************************************)
(* Sorting, as much of it as sort.Slice and ORDER BY promise.  It is said  *)
(* here, rather than with SortSeq, as what the result is and not how it is *)
(* found: the order of equals is left open.                                *)
(***************************************************************************)
EXTENDS Integers, FiniteSets, Functions

\* The elements of a finite set, each once, none before one that R, a set of
\* pairs, puts before it.
Arranged(S, R) ==
    CHOOSE f \in Bijection(1..Cardinality(S), S) :
        \A i, j \in 1..Cardinality(S) : i < j => <<f[j], f[i]>> \notin R
=============================================================================
