---------------------------- MODULE MCLucidStore ----------------------------
(* Model checking LucidStore: callers, roles and sources are interchangeable *)
(* (tenants are not: one of them is Global).                                 *)
EXTENDS LucidStore, TLC

Symmetry == Permutations(Proc) \cup Permutations(Role) \cup Permutations(Source)
=============================================================================
