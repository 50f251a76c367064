------------------------- MODULE PermissionMatcher -------------------------
(***************************************************************************)
(* The wildcard match between a granted permission and a required one, as  *)
(* the service runs it, as it is compiled for repeated checks, and as the  *)
(* React package runs its own copy.  A permission 'a.b.c' is the sequence  *)
(* of its segments <<"a", "b", "c">>, which is never empty; the segment    *)
(* '*' is Star.                                                            *)
(***************************************************************************)
EXTENDS Naturals, Sequences

CONSTANT Star

Segments(p) == {p[i] : i \in DOMAIN p}

(* Mutant: a trailing '*' also matches no segment at all. *)
SegmentsMatchZero(g, r) ==
  /\ \A i \in DOMAIN g : i <= Len(r) => g[i] \in {Star, r[i]}
  /\ IF g[Len(g)] = Star THEN Len(r) >= Len(g) - 1 ELSE Len(r) = Len(g)

(* Each segment of g is r's or '*'; a last '*' stands for the rest of r. *)
SegmentsMatch(g, r) ==
  /\ IF g[Len(g)] = Star THEN Len(r) >= Len(g) ELSE Len(r) = Len(g)
  /\ \A i \in DOMAIN g : g[i] \in {Star, r[i]}

PermissionMatches(g, r) == g = r \/ g = <<Star>> \/ SegmentsMatch(g, r)

PermissionSatisfied(granted, r) == \E g \in granted : PermissionMatches(g, r)

(* A granted set prepared for many checks: grants without a '*' segment are *)
(* looked up, the others are matched.                                       *)
Compile(granted) ==
  [granted   |-> granted,
   grantsAll |-> <<Star>> \in granted,
   patterns  |-> {g \in granted : Star \in Segments(g)}]

Satisfies(c, r) ==
  \/ c.grantsAll
  \/ r \in c.granted
  \/ \E g \in c.patterns : SegmentsMatch(g, r)

(* A route that lists 'admin.*' also opens to who holds 'admin.users' only. *)
OpensBy(granted, required) ==
  \/ PermissionSatisfied(granted, required)
  \/ \E g \in granted : PermissionMatches(required, g)

-----------------------------------------------------------------------------
(* The React package compiles the page's list of grants once per array and *)
(* compiles it again when the array has another length.                    *)

CompileShared(list) == [compiled |-> Compile(Segments(list)), length |-> Len(list)]

(* Mutant: whatever was compiled for the array is used. *)
SharedForAnyLength(memo, list) == memo

SharedFor(memo, list) == IF memo.length # Len(list) THEN CompileShared(list) ELSE memo

SatisfiesShared(memo, list, r) == Satisfies(SharedFor(memo, list).compiled, r)

-----------------------------------------------------------------------------
(* What the doc comment says of the match: a grant that ends in '*' stands *)
(* for itself with that '*' repeated one or more times, and then it is     *)
(* compared with the ability segment by segment.                           *)
Stretched(g, n) ==
  IF g[Len(g)] = Star /\ n > Len(g)
    THEN [i \in 1 .. n |-> IF i < Len(g) THEN g[i] ELSE Star]
    ELSE g

Covers(g, r) ==
  LET s == Stretched(g, Len(r))
  IN  Len(s) = Len(r) /\ \A i \in DOMAIN r : s[i] \in {Star, r[i]}
=============================================================================
