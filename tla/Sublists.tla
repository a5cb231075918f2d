------------------------------ MODULE Sublists ------------------------------
(* A list comprehension with a condition: what a list keeps, in its order. *)
EXTENDS Naturals, FiniteSets

(* The elements of a list at some of its indices: the n-th of them has n   *)
(* of these indices up to its own.                                         *)
Sublist(list, indices) ==
    [n \in 1 .. Cardinality(indices) |->
        list[CHOOSE i \in indices : Cardinality({j \in indices : j <= i}) = n]]
=============================================================================
