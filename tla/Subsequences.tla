---------------------------- MODULE Subsequences ----------------------------
(***************************************************************************)
(* The elements of a sequence at some of its positions, in their order.    *)
(* SelectSeq takes a predicate, which the proof system cannot reason       *)
(* about; this takes the set of positions, and SequenceFacts has what the  *)
(* proofs need to know of it.                                              *)
(***************************************************************************)
EXTENDS Naturals, FiniteSets

\* The positions in I from the smallest to the largest.
Enumeration(I) ==
    CHOOSE f \in [1..Cardinality(I) -> I] :
        \A i, j \in DOMAIN f : i < j => f[i] < f[j]

Subsequence(s, I) ==
    LET f == Enumeration(I) IN [k \in 1..Cardinality(I) |-> s[f[k]]]
=============================================================================
