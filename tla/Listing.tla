------------------------------ MODULE Listing ------------------------------
(***************************************************************************)
(* What the loops and filters of the code that go through a list once make *)
(* of it: some of its items, in the order of the list.                     *)
(***************************************************************************)
EXTENDS Naturals, Sequences, FiniteSets

(* How many of the places P of a list are at i or before. *)
Place(P, i) == Cardinality({j \in P : j <= i})

(* The places P of a list, in order. *)
InOrder(P) == [k \in 1 .. Cardinality(P) |-> CHOOSE i \in P : Place(P, i) = k]

(* The items of the list at the places P. *)
Kept(list, P) == [k \in DOMAIN InOrder(P) |-> list[InOrder(P)[k]]]

(* Those of the places P whose item is not at an earlier one of them. *)
Firsts(list, P) == {i \in P : \A j \in P : j < i => list[j] # list[i]}
=============================================================================
