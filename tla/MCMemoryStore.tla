--------------------------- MODULE MCMemoryStore ----------------------------
(* Model checking MemoryStore: callers, roles, permissions and sources are   *)
(* interchangeable.                                                          *)
EXTENDS MemoryStore, TLC

Symmetry == Permutations(Proc) \cup Permutations(Role) \cup Permutations(Perm)
            \cup Permutations(Source)
=============================================================================
