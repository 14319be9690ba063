---------------------------- MODULE Subsequences ----------------------------
(***************************************************************************)
(* What filter of an array, and a loop that appends what it does not skip, *)
(* leave of a list: the elements at some of its places, in order.          *)
(***************************************************************************)
EXTENDS Integers, FiniteSets

(* The n-th smallest of a finite set of integers. *)
Nth(S, n) == CHOOSE i \in S : Cardinality({k \in S : k <= i}) = n

(* The elements of the list at these places. *)
Subsequence(list, places) == [n \in 1 .. Cardinality(places) |-> list[Nth(places, n)]]

=============================================================================
