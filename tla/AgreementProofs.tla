-------------------------- MODULE AgreementProofs --------------------------
(***************************************************************************)
(* The agreements of Agreements for every input: grants and permissions of *)
(* any number of segments, lists of members and batches of any length, any *)
(* answer of the hook and of the provider, any source of roles, and any    *)
(* rows, read by either store.                                             *)
(***************************************************************************)
EXTENDS Agreements, FiniteSetTheorems, TLAPS

-----------------------------------------------------------------------------
(* Lists gone through once. *)

LEMMA ListIsFinite ==
  ASSUME NEW S, NEW list \in Seq(S)
  PROVE  IsFiniteSet(DOMAIN list) /\ DOMAIN list \subseteq Nat
<1>1. DOMAIN list = 1 .. Len(list) /\ Len(list) \in Nat /\ 1 \in Int /\ Len(list) \in Int
  OBVIOUS
<1> QED
  BY <1>1, FS_Interval

(* The places of a list count its items up, each one once. *)
LEMMA PlacesCount ==
  ASSUME NEW P, IsFiniteSet(P), P \subseteq Nat
  PROVE  /\ Cardinality(P) \in Nat
         /\ \A i \in P : Place(P, i) \in 1 .. Cardinality(P)
         /\ \A i, j \in P : i < j => Place(P, i) < Place(P, j)
<1> DEFINE Upto(i) == {j \in P : j <= i}
<1>2. \A i \in P : IsFiniteSet(Upto(i)) /\ Cardinality(Upto(i)) <= Cardinality(P)
  <2> TAKE i \in P
  <2>1. Upto(i) \in SUBSET P
    OBVIOUS
  <2> HIDE DEF Upto
  <2> QED
    BY <2>1, FS_Subset
<1>3. Cardinality(P) \in Nat /\ \A i \in P : Cardinality(Upto(i)) \in Nat
  BY <1>2, FS_CardinalityType
<1>4. ASSUME NEW i \in P PROVE Cardinality(Upto(i)) # 0
  <2>1. i \in Upto(i)
    OBVIOUS
  <2> HIDE DEF Upto
  <2> QED
    BY <1>2, <2>1, FS_EmptySet
<1>5. ASSUME NEW i \in P, NEW j \in P, i < j
      PROVE  Cardinality(Upto(i)) < Cardinality(Upto(j))
  <2>1. j \in Upto(j) /\ j \notin Upto(i)
    BY <1>5
  <2>2. ASSUME NEW k \in Upto(i) PROVE k \in Upto(j)
    BY <1>5
  <2> HIDE DEF Upto
  <2>3. Upto(i) \in SUBSET Upto(j)
    BY <2>2
  <2>4. Cardinality(Upto(i)) <= Cardinality(Upto(j))
        /\ Cardinality(Upto(i)) # Cardinality(Upto(j))
    BY <1>2, <2>1, <2>3, FS_Subset
  <2> QED
    BY <1>3, <2>4
<1> QED
  BY <1>2, <1>3, <1>4, <1>5 DEF Place

(* InOrder has each of the places once, and in order. *)
LEMMA InOrderLists ==
  ASSUME NEW P, IsFiniteSet(P), P \subseteq Nat
  PROVE  /\ Cardinality(P) \in Nat
         /\ DOMAIN InOrder(P) = 1 .. Cardinality(P)
         /\ \A k \in DOMAIN InOrder(P) : InOrder(P)[k] \in P /\ Place(P, InOrder(P)[k]) = k
         /\ \A i \in P : Place(P, i) \in DOMAIN InOrder(P) /\ InOrder(P)[Place(P, i)] = i
<1> DEFINE N == Cardinality(P)
           f == [i \in P |-> Place(P, i)]
<1>1. /\ N \in Nat
      /\ \A i \in P : Place(P, i) \in 1 .. N
      /\ \A i, j \in P : i < j => Place(P, i) < Place(P, j)
  BY PlacesCount
<1>2. \A i, j \in P : Place(P, i) = Place(P, j) => i = j
  <2> SUFFICES ASSUME NEW i \in P, NEW j \in P, i # j
               PROVE  Place(P, i) # Place(P, j)
    OBVIOUS
  <2>1. i < j \/ j < i
    OBVIOUS
  <2> QED
    BY <1>1, <2>1
<1>3. f \in Injection(P, 1 .. N)
  BY <1>1, <1>2 DEF Injection, IsInjective
<1>4. IsFiniteSet(1 .. N) /\ Cardinality(1 .. N) = Cardinality(P)
  BY <1>1, FS_Interval
<1>5. f \in Surjection(P, 1 .. N)
  BY <1>3, <1>4, FS_Injection
<1>6. \A k \in 1 .. N : \E i \in P : Place(P, i) = k
  BY <1>5 DEF Surjection
<1> QED
  BY <1>1, <1>2, <1>6 DEF InOrder

(* Each item that is at one of the places is first at one. *)
LEMMA FirstsFind ==
  ASSUME NEW P, IsFiniteSet(P), P \subseteq Nat, NEW list
  PROVE  /\ IsFiniteSet(Firsts(list, P)) /\ Firsts(list, P) \subseteq P
         /\ \A i, j \in Firsts(list, P) : list[i] = list[j] => i = j
         /\ \A i \in P : \E j \in Firsts(list, P) : list[j] = list[i]
<1>1. ASSUME NEW i \in Firsts(list, P), NEW j \in Firsts(list, P), list[i] = list[j]
      PROVE  i = j
  <2>1. i \in Int /\ j \in Int /\ ~(i < j) /\ ~(j < i)
    BY <1>1 DEF Firsts
  <2> QED
    BY <2>1
<1>2. ASSUME NEW i \in P PROVE \E j \in Firsts(list, P) : list[j] = list[i]
  <2> DEFINE Q == {j \in P : list[j] = list[i]}
             least == InOrder(Q)[1]
  <2>1. IsFiniteSet(Q) /\ Q \subseteq Nat /\ i \in Q
    BY FS_Subset
  <2> HIDE DEF Q
  <2>2. /\ Cardinality(Q) \in Nat
        /\ \A x \in Q : Place(Q, x) \in 1 .. Cardinality(Q)
        /\ \A x, y \in Q : x < y => Place(Q, x) < Place(Q, y)
    BY <2>1, PlacesCount
  <2>3. DOMAIN InOrder(Q) = 1 .. Cardinality(Q)
        /\ \A k \in DOMAIN InOrder(Q) : InOrder(Q)[k] \in Q /\ Place(Q, InOrder(Q)[k]) = k
    BY <2>1, InOrderLists
  <2>8. least \in Q /\ Place(Q, least) = 1
    BY <2>1, <2>2, <2>3
  <2> HIDE DEF least
  <2>4. \A j \in Q : ~(j < least)
    BY <2>2, <2>8
  <2>5. least \in P /\ list[least] = list[i]
    BY <2>8 DEF Q
  <2>6. \A j \in P : list[j] = list[least] => j \in Q
    BY <2>5 DEF Q
  <2>7. least \in Firsts(list, P)
    BY <2>4, <2>5, <2>6 DEF Firsts
  <2> QED
    BY <2>5, <2>7
<1> QED
  BY <1>1, <1>2, FS_Subset DEF Firsts

(* What is kept of a list are the items at the places, *)
LEMMA KeptItems ==
  ASSUME NEW P, IsFiniteSet(P), P \subseteq Nat, NEW list
  PROVE  Segments(Kept(list, P)) = {list[i] : i \in P}
<1> DEFINE o == InOrder(P)
<1>1. /\ \A k \in DOMAIN o : o[k] \in P
      /\ \A i \in P : Place(P, i) \in DOMAIN o /\ o[Place(P, i)] = i
  BY InOrderLists
<1>2. Kept(list, P) = [k \in DOMAIN o |-> list[o[k]]]
  BY DEF Kept
<1> HIDE DEF o
<1>3. Segments(Kept(list, P)) = {list[o[k]] : k \in DOMAIN o}
  BY <1>2 DEF Segments
<1> QED
  BY <1>1, <1>3

(* and each as often as it is at one of them. *)
LEMMA KeptOnce ==
  ASSUME NEW P, IsFiniteSet(P), P \subseteq Nat, NEW list
  PROVE  /\ Len(Kept(list, P)) = Cardinality(P)
         /\ (\A i, j \in P : list[i] = list[j] => i = j) => IsInjective(Kept(list, P))
<1> DEFINE o == InOrder(P)
<1>1. /\ Cardinality(P) \in Nat /\ DOMAIN o = 1 .. Cardinality(P)
      /\ \A k \in DOMAIN o : o[k] \in P /\ Place(P, o[k]) = k
  BY InOrderLists
<1>2. Kept(list, P) = [k \in DOMAIN o |-> list[o[k]]]
  BY DEF Kept
<1> HIDE DEF o
<1>3. Len(Kept(list, P)) = Cardinality(P)
  BY <1>1, <1>2
<1>4. ASSUME \A i, j \in P : list[i] = list[j] => i = j PROVE IsInjective(Kept(list, P))
  <2>1. ASSUME NEW k \in DOMAIN o, NEW l \in DOMAIN o, list[o[k]] = list[o[l]]
        PROVE  k = l
    BY <1>1, <1>4, <2>1
  <2> QED
    BY <1>2, <2>1 DEF IsInjective
<1> QED
  BY <1>3, <1>4

(* The first of each: every item once. *)
LEMMA KeptFirsts ==
  ASSUME NEW P, IsFiniteSet(P), P \subseteq Nat, NEW list
  PROVE  /\ Segments(Kept(list, Firsts(list, P))) = {list[i] : i \in P}
         /\ IsInjective(Kept(list, Firsts(list, P)))
         /\ Len(Kept(list, Firsts(list, P))) = Cardinality({list[i] : i \in P})
<1> DEFINE F == Firsts(list, P)
<1>1. /\ IsFiniteSet(F) /\ F \subseteq P
      /\ \A i, j \in F : list[i] = list[j] => i = j
      /\ \A i \in P : \E j \in F : list[j] = list[i]
  BY FirstsFind
<1> HIDE DEF F
<1>2. /\ Len(Kept(list, F)) = Cardinality(F)
      /\ Segments(Kept(list, F)) = {list[i] : i \in F}
      /\ IsInjective(Kept(list, F))
  <2>1. IsFiniteSet(F) /\ F \subseteq Nat
    BY <1>1
  <2>2. (\A i, j \in F : list[i] = list[j] => i = j) => IsInjective(Kept(list, F))
    BY <2>1, KeptOnce
  <2>3. Len(Kept(list, F)) = Cardinality(F)
    BY <2>1, KeptOnce
  <2>5. \A i, j \in F : list[i] = list[j] => i = j
    BY <1>1
  <2>6. Segments(Kept(list, F)) = {list[i] : i \in F}
    BY <2>1, KeptItems
  <2> QED
    BY <2>2, <2>3, <2>5, <2>6
<1>3. {list[i] : i \in F} = {list[i] : i \in P}
  BY <1>1
<1>4. Cardinality({list[i] : i \in P}) = Cardinality(F)
  <2> DEFINE f == [i \in F |-> list[i]]
  <2>1. f \in Bijection(F, {list[i] : i \in P})
    BY <1>1, <1>3 DEF Bijection, Injection, Surjection, IsInjective
  <2> QED
    BY <1>1, <2>1, FS_Bijection DEF ExistsBijection
<1> QED
  BY <1>2, <1>3, <1>4 DEF F

(* Each of the places is kept at its own place. *)
LEMMA KeptAt ==
  ASSUME NEW P, IsFiniteSet(P), P \subseteq Nat, NEW list
  PROVE  /\ Len(Kept(list, P)) \in Nat /\ DOMAIN Kept(list, P) = 1 .. Len(Kept(list, P))
         /\ \A i \in P : /\ Place(P, i) \in DOMAIN Kept(list, P)
                         /\ Kept(list, P)[Place(P, i)] = list[i]
         /\ \A p \in DOMAIN Kept(list, P) : \E i \in P : Place(P, i) = p
<1> DEFINE o == InOrder(P)
<1>1. /\ Cardinality(P) \in Nat /\ DOMAIN o = 1 .. Cardinality(P)
      /\ \A k \in DOMAIN o : o[k] \in P /\ Place(P, o[k]) = k
      /\ \A i \in P : Place(P, i) \in DOMAIN o /\ o[Place(P, i)] = i
  BY InOrderLists
<1>2. Kept(list, P) = [k \in DOMAIN o |-> list[o[k]]]
  BY DEF Kept
<1> HIDE DEF o
<1>3. DOMAIN Kept(list, P) = DOMAIN o /\ \A k \in DOMAIN o : Kept(list, P)[k] = list[o[k]]
  BY <1>2
<1>4. Len(Kept(list, P)) = Cardinality(P)
  BY KeptOnce
<1> QED
  BY <1>1, <1>3, <1>4

(* The place of a first item among the firsts counts the items up to it. *)
LEMMA PlaceOfFirst ==
  ASSUME NEW P, IsFiniteSet(P), P \subseteq Nat, NEW list, NEW i \in Firsts(list, P)
  PROVE  Place(Firsts(list, P), i) = Cardinality({list[j] : j \in {x \in P : x <= i}})
<1> DEFINE Q == {x \in P : x <= i}
<1>1. IsFiniteSet(Q) /\ Q \subseteq Nat
  <2>1. Q \in SUBSET P
    OBVIOUS
  <2> HIDE DEF Q
  <2> QED
    BY <2>1, FS_Subset
<1>2. Firsts(list, Q) = {j \in Firsts(list, P) : j <= i}
  <2>1. i \in Nat
    BY DEF Firsts
  <2>2. ASSUME NEW j \in Firsts(list, Q) PROVE j \in Firsts(list, P) /\ j <= i
    <3>1. j \in P /\ j <= i /\ \A x \in P : x <= i /\ x < j => list[x] # list[j]
      BY <2>2 DEF Firsts
    <3>2. \A x \in P : x < j => x <= i
      BY <2>1, <3>1
    <3> QED
      BY <3>1, <3>2 DEF Firsts
  <2>3. ASSUME NEW j \in Firsts(list, P), j <= i PROVE j \in Firsts(list, Q)
    BY <2>3 DEF Firsts
  <2> QED
    BY <2>2, <2>3
<1> HIDE DEF Q
<1>3. Len(Kept(list, Firsts(list, Q))) = Cardinality({list[j] : j \in Q})
  BY <1>1, KeptFirsts
<1>4. IsFiniteSet(Firsts(list, Q)) /\ Firsts(list, Q) \subseteq Nat
  BY <1>1, FirstsFind
<1>5. Len(Kept(list, Firsts(list, Q))) = Cardinality(Firsts(list, Q))
  BY <1>4, KeptOnce
<1> QED
  BY <1>2, <1>3, <1>5 DEF Place, Q

-----------------------------------------------------------------------------
(* Permissions over an alphabet of segments S, which may have '*' in it. *)
Permissions(S) == Seq(S) \ {<<>>}

(* The matcher. *)

LEMMA LastSegment ==
  ASSUME NEW S, NEW g \in Permissions(S)
  PROVE  /\ Len(g) \in Nat \ {0} /\ DOMAIN g = 1 .. Len(g)
         /\ Len(g) \in DOMAIN g
         /\ \A i \in DOMAIN g : g[i] \in Segments(g)
BY DEF Permissions, Segments

(* The three ways to match come to the same as stretching the grant. *)
LEMMA MatchIsCover ==
  ASSUME NEW S, NEW g \in Permissions(S), NEW r \in Permissions(S)
  PROVE  PermissionMatches(g, r) <=> Covers(g, r)
<1> DEFINE s == Stretched(g, Len(r))
<1>1. Len(g) \in Nat /\ Len(g) >= 1 /\ DOMAIN g = 1 .. Len(g)
  BY DEF Permissions
<1>2. Len(r) \in Nat /\ Len(r) >= 1 /\ DOMAIN r = 1 .. Len(r)
  BY DEF Permissions
<1>3. CASE g[Len(g)] = Star /\ Len(r) > Len(g)
  <2>1. s = [i \in 1 .. Len(r) |-> IF i < Len(g) THEN g[i] ELSE Star]
    BY <1>3 DEF Stretched
  <2>2. Len(s) = Len(r)
    BY <2>1, <1>2
  <2>3. Covers(g, r) <=> \A i \in 1 .. Len(r) : s[i] \in {Star, r[i]}
    BY <2>2, <1>2 DEF Covers
  <2>4. (\A i \in 1 .. Len(r) : s[i] \in {Star, r[i]})
          <=> \A i \in 1 .. Len(g) : g[i] \in {Star, r[i]}
    BY <2>1, <1>1, <1>2, <1>3
  <2>5. SegmentsMatch(g, r) <=> \A i \in 1 .. Len(g) : g[i] \in {Star, r[i]}
    BY <1>1, <1>2, <1>3 DEF SegmentsMatch
  <2>6. g # r
    BY <1>3, <1>1
  <2>7. g = <<Star>> => SegmentsMatch(g, r)
    BY <2>5, <1>1
  <2> QED
    BY <2>3, <2>4, <2>5, <2>6, <2>7 DEF PermissionMatches
<1>4. CASE ~(g[Len(g)] = Star /\ Len(r) > Len(g))
  <2>1. s = g
    BY <1>4 DEF Stretched
  <2>2. Covers(g, r) <=> Len(g) = Len(r) /\ \A i \in DOMAIN r : g[i] \in {Star, r[i]}
    BY <2>1 DEF Covers
  <2>3. SegmentsMatch(g, r) <=> Len(g) = Len(r) /\ \A i \in DOMAIN r : g[i] \in {Star, r[i]}
    <3>1. (IF g[Len(g)] = Star THEN Len(r) >= Len(g) ELSE Len(r) = Len(g))
            <=> Len(g) = Len(r)
      <4> DEFINE m == Len(g)
                 n == Len(r)
      <4>1. m \in Nat /\ n \in Nat
        BY <1>1, <1>2
      <4> HIDE DEF m, n
      <4>2. (n >= m /\ ~(n > m)) <=> m = n
        BY <4>1
      <4> USE DEF m, n
      <4> QED
        BY <4>2, <1>4
    <3>2. Len(g) = Len(r) => DOMAIN g = DOMAIN r
      BY <1>1, <1>2
    <3> QED
      BY <3>1, <3>2, Zenon DEF SegmentsMatch
  <2>4. g = r => Len(g) = Len(r) /\ \A i \in DOMAIN r : g[i] \in {Star, r[i]}
    OBVIOUS
  <2>5. g = <<Star>> => Len(g) = Len(r) /\ \A i \in DOMAIN r : g[i] \in {Star, r[i]}
    BY <1>1, <1>2, <1>4
  <2> QED
    BY <2>2, <2>3, <2>4, <2>5 DEF PermissionMatches
<1> QED
  BY <1>3, <1>4

(* A grant without '*' covers itself only. *)
LEMMA PlainMatch ==
  ASSUME NEW S, NEW g \in Permissions(S), NEW r \in Permissions(S),
         Star \notin Segments(g), PermissionMatches(g, r)
  PROVE  g = r
<1>1. \A i \in DOMAIN g : g[i] # Star
  BY DEF Segments
<1>2. g # <<Star>>
  BY <1>1
<1>3. ASSUME SegmentsMatch(g, r) PROVE g = r
  <2>1. Len(r) = Len(g) /\ \A i \in DOMAIN g : g[i] = r[i]
    BY <1>1, <1>3, LastSegment DEF SegmentsMatch
  <2> QED
    BY <2>1, LastSegment DEF Permissions
<1> QED
  BY <1>2, <1>3 DEF PermissionMatches

(* What is compiled decides as the plain match does. *)
LEMMA CompiledAgrees ==
  ASSUME NEW S, NEW G \in SUBSET Permissions(S), NEW r \in Permissions(S)
  PROVE  Satisfies(Compile(G), r) <=> PermissionSatisfied(G, r)
<1>1. ASSUME Satisfies(Compile(G), r) PROVE PermissionSatisfied(G, r)
  BY <1>1 DEF Satisfies, Compile, PermissionSatisfied, PermissionMatches
<1>2. ASSUME NEW g \in G, PermissionMatches(g, r) PROVE Satisfies(Compile(G), r)
  BY <1>2, PlainMatch DEF Satisfies, Compile, PermissionMatches
<1> QED
  BY <1>1, <1>2 DEF PermissionSatisfied

(* The plain and the compiled matcher both decide by the documented meaning *)
(* of a wildcard, for grants and permissions of any length and any segments,*)
(* '*' in the permission asked for among them.                              *)
THEOREM MatcherAlwaysAgrees ==
  ASSUME NEW S, input.granted \in SUBSET Permissions(S), input.required \in Permissions(S)
  PROVE  MatcherAgrees
<1>1. \A g \in input.granted :
        PermissionMatches(g, input.required) <=> Covers(g, input.required)
  BY MatchIsCover
<1>2. PermissionSatisfied(input.granted, input.required)
        <=> \E g \in input.granted : Covers(g, input.required)
  BY <1>1 DEF PermissionSatisfied
<1>3. PermissionSatisfied(input.granted, input.required) \in BOOLEAN
      /\ Satisfies(Compile(input.granted), input.required) \in BOOLEAN
  BY DEF PermissionSatisfied, Satisfies
<1> QED
  BY <1>2, <1>3, CompiledAgrees DEF MatcherAgrees

(* The page's matcher, compiled once per array of grants, decides by the    *)
(* grants the array has when it is asked, for arrays of any length.         *)
THEOREM SharedAlwaysAgrees ==
  ASSUME NEW S, input.first \in Seq(Permissions(S)), input.later \in Seq(Permissions(S)),
         input.required \in Permissions(S)
  PROVE  SharedAgrees
<1>1. SUFFICES ASSUME Len(input.first) # Len(input.later) \/ input.first = input.later
               PROVE  SatisfiesShared(CompileShared(input.first), input.later, input.required)
                        = PermissionSatisfied(Segments(input.later), input.required)
  BY DEF SharedAgrees
<1>2. SharedFor(CompileShared(input.first), input.later) = CompileShared(input.later)
  BY <1>1 DEF SharedFor, CompileShared
<1>3. Segments(input.later) \in SUBSET Permissions(S)
  BY DEF Segments
<1>4. Satisfies(Compile(Segments(input.later)), input.required)
        <=> PermissionSatisfied(Segments(input.later), input.required)
  BY <1>3, CompiledAgrees
<1>5. SatisfiesShared(CompileShared(input.first), input.later, input.required)
        = Satisfies(Compile(Segments(input.later)), input.required)
  BY <1>2 DEF SatisfiesShared, CompileShared
<1> QED
  BY <1>4, <1>5 DEF Satisfies, PermissionSatisfied

-----------------------------------------------------------------------------
(* Decisions. *)

(* What the service can be asked, and be told by its hook, its provider and *)
(* the sources of roles and grants.                                         *)
Environment(S) ==
  /\ DOMAIN input.hook \subseteq Permissions(S)
  /\ \A q \in DOMAIN input.hook : input.hook[q] \in {"allow", "deny", "none"}
  /\ DOMAIN input.hook \subseteq DOMAIN input.decide
  /\ input.granted \in SUBSET Permissions(S)
  /\ \A r \in DOMAIN input.grants : input.grants[r] \in SUBSET Permissions(S)

LEMMA EffectiveArePermissions ==
  ASSUME NEW S, Environment(S)
  PROVE  EffectivePermissions(input) \in SUBSET Permissions(S)
BY DEF Environment, EffectivePermissions, RoleGrants

(* With the request's cache and without, RBAC asks about the same grants.   *)
LEMMA RbacIsPlain ==
  ASSUME NEW S, Environment(S), NEW q \in Permissions(S), Known(input),
         NEW cached \in BOOLEAN
  PROVE  Rbac(input, q, cached) <=> PermissionSatisfied(EffectivePermissions(input), q)
<1>1. EffectivePermissions(input) = input.granted \cup RoleGrants(input, EffectiveRoles(input))
  BY DEF EffectivePermissions
<1>2. CASE cached
  BY <1>1, <1>2, EffectiveArePermissions, CompiledAgrees DEF Rbac
<1>3. CASE ~cached
  BY <1>1, <1>3 DEF Rbac, PermissionSatisfied
<1> QED
  BY <1>2, <1>3

(* A batch's prefetch gives nothing, or each item's own verdict. *)
LEMMA PrefetchIsDecide ==
  ASSUME NEW e, NEW q, Len(q) \in Nat, PrefetchDecisions(e, q) # <<>>
  PROVE  PrefetchDecisions(e, q) = [i \in 1 .. Len(q) |-> e.decide[q[i]]]
<1> DEFINE answer == [i \in 1 .. (IF e.many = "short" THEN Len(q) - 1 ELSE Len(q)) |->
                        e.decide[q[i]]]
<1>1. PrefetchDecisions(e, q) = answer /\ Len(answer) = Len(q)
  BY DEF PrefetchDecisions
<1>2. CASE e.many = "short"
  <2>1. answer = [i \in 1 .. (Len(q) - 1) |-> e.decide[q[i]]]
    BY <1>2
  <2>2. CASE Len(q) = 0
    BY <1>1, <2>1, <2>2
  <2>3. CASE Len(q) # 0
    <3>1. Len(q) - 1 \in Nat /\ Len(answer) = Len(q) - 1
      BY <2>1, <2>3
    <3> QED
      BY <1>1, <3>1
  <2> QED
    BY <2>2, <2>3
<1>3. CASE e.many # "short"
  BY <1>1, <1>3
<1> QED
  BY <1>2, <1>3

(* Each item of a batch that the super-admin leaves is decided by its own   *)
(* verdict, wherever it stands among the others that are left.              *)
LEMMA PendingHasItsVerdict ==
  ASSUME NEW e, NEW n \in Nat, NEW ps, DOMAIN ps = 1 .. n, NEW P \in SUBSET (1 .. n), NEW i \in P
  PROVE  LET pending == InOrder(P)
             prefetched == PrefetchDecisions(e, [k \in DOMAIN pending |-> ps[pending[k]]])
         IN  VerdictOf(e, ps, prefetched, pending, i) = e.decide[ps[i]]
<1> DEFINE pending == InOrder(P)
           q == [k \in DOMAIN pending |-> ps[pending[k]]]
           prefetched == PrefetchDecisions(e, q)
           N == Cardinality(P)
<1> SUFFICES VerdictOf(e, ps, prefetched, pending, i) = e.decide[ps[i]]
  OBVIOUS
<1>1. IsFiniteSet(P) /\ P \subseteq Nat
  <2>1. 1 \in Int /\ n \in Int
    OBVIOUS
  <2> DEFINE places == 1 .. n
  <2>2. IsFiniteSet(places)
    BY <2>1, FS_Interval
  <2>3. P \in SUBSET places /\ P \subseteq Nat
    OBVIOUS
  <2> HIDE DEF places
  <2> QED
    BY <2>2, <2>3, FS_Subset
<1>2. N \in Nat /\ DOMAIN pending = 1 .. N
  BY <1>1, InOrderLists
<1>3. Place(P, i) \in DOMAIN pending /\ pending[Place(P, i)] = i
  BY <1>1, InOrderLists
<1>4. DOMAIN q = 1 .. N /\ Len(q) = N
  BY <1>2
<1>7. \A k \in DOMAIN pending : q[k] = ps[pending[k]]
  OBVIOUS
<1> HIDE DEF pending, N, q
<1>8. prefetched # <<>> => prefetched = [x \in 1 .. N |-> e.decide[q[x]]]
  BY <1>2, <1>4, PrefetchIsDecide
<1> HIDE DEF prefetched
<1>5. CASE prefetched = <<>>
  BY <1>5 DEF VerdictOf
<1>6. CASE prefetched # <<>>
  <2> DEFINE k == CHOOSE x \in DOMAIN pending : pending[x] = i
  <2>1. k \in DOMAIN pending /\ pending[k] = i
    BY <1>3
  <2>3. VerdictOf(e, ps, prefetched, pending, i) = prefetched[k]
    BY <1>6 DEF VerdictOf
  <2> HIDE DEF k
  <2>4. q[k] = ps[i]
    BY <2>1, <1>7
  <2>5. prefetched[k] = e.decide[q[k]]
    BY <1>2, <1>6, <1>8, <2>1
  <2> QED
    BY <2>3, <2>4, <2>5
<1> QED
  BY <1>5, <1>6

(* checkMany decides each item of a batch as check does, for batches of any *)
(* length, any hook and any provider; and with the request's cache RBAC     *)
(* decides as without.                                                      *)
THEOREM BatchesAlwaysAgree ==
  ASSUME NEW S, Environment(S)
  PROVE  BatchAgrees
<1> DEFINE Agrees(ps) ==
             LET alone == [i \in DOMAIN ps |-> Check(input, ps[i], TRUE)]
                 batch == CheckMany(input, ps)
             IN  IF \E i \in DOMAIN ps : alone[i].verdict = "error"
                   THEN batch.rejects
                   ELSE ~batch.rejects /\ batch.results = alone
<1>1. ASSUME NEW n \in Nat, NEW ps \in [1 .. n -> DOMAIN input.hook]
      PROVE  Agrees(ps)
  <2> DEFINE super == [i \in DOMAIN ps |-> SuperAdmin(input, input.hook[ps[i]])]
             P == {i \in DOMAIN ps : super[i] = "none"}
             pending == InOrder(P)
             prefetched == PrefetchDecisions(input, [k \in DOMAIN pending |-> ps[pending[k]]])
             results == [i \in DOMAIN ps |->
               IF super[i] # "none" THEN Decided(super[i], "super-admin")
               ELSE ResolveCheck(input, ps[i], "none",
                                 VerdictOf(input, ps, prefetched, pending, i), TRUE)]
             alone == [i \in DOMAIN ps |-> Check(input, ps[i], TRUE)]
             rejects == \E i \in DOMAIN ps : results[i].verdict = "error"
  <2>1. CheckMany(input, ps) =
          [rejects |-> rejects, results |-> IF rejects THEN <<>> ELSE results]
    BY DEF CheckMany
  <2>2. ASSUME NEW i \in DOMAIN ps PROVE results[i] = alone[i]
    <3>1. CASE super[i] # "none"
      BY <3>1 DEF Check, ResolveCheck
    <3>2. CASE super[i] = "none"
      <4>1. VerdictOf(input, ps, prefetched, pending, i) = input.decide[ps[i]]
        <5>1. DOMAIN ps = 1 .. n /\ P \in SUBSET (1 .. n) /\ i \in P
          BY <3>2
        <5> HIDE DEF P
        <5> QED
          BY <5>1, PendingHasItsVerdict
      <4> HIDE DEF prefetched, pending, P
      <4> QED
        BY <3>2, <4>1 DEF Check
    <3> QED
      BY <3>1, <3>2
  <2> HIDE DEF super, P, pending, prefetched
  <2>3. results = alone
    BY <2>2
  <2>4. rejects <=> \E i \in DOMAIN ps : alone[i].verdict = "error"
    BY <2>3
  <2> HIDE DEF results, rejects, alone
  <2>5. CheckMany(input, ps).rejects = rejects
        /\ CheckMany(input, ps).results = IF rejects THEN <<>> ELSE alone
    BY <2>1, <2>3
  <2> QED
    BY <2>4, <2>5, Zenon DEF alone
<1>2. ASSUME NEW p \in DOMAIN input.hook
      PROVE  Check(input, p, TRUE) = Check(input, p, FALSE)
  <2>1. p \in Permissions(S)
    BY DEF Environment
  <2>2. Known(input) => (Rbac(input, p, TRUE) <=> Rbac(input, p, FALSE))
    BY <2>1, RbacIsPlain
  <2> QED
    BY <2>2 DEF Check, ResolveCheck
<1>3. \A ps \in UNION {[1 .. k -> DOMAIN input.hook] : k \in 0 .. MaxBatch} : Agrees(ps)
  <2> HIDE DEF Agrees
  <2> TAKE ps \in UNION {[1 .. k -> DOMAIN input.hook] : k \in 0 .. MaxBatch}
  <2>1. PICK k \in 0 .. MaxBatch : ps \in [1 .. k -> DOMAIN input.hook]
    OBVIOUS
  <2> QED
    BY <1>1, <2>1, BatchAssumption
<1> QED
  BY <1>2, <1>3, Zenon DEF BatchAgrees

(* What can answers when no provider has anything to say. *)
LEMMA CanWithoutProvider ==
  ASSUME NEW S, Environment(S), NEW q \in DOMAIN input.hook,
         input.provider = "none" \/ input.decide[q].kind = "nullish"
  PROVE  Can(input, q) <=>
           /\ Known(input)
           /\ \/ input.hook[q] = "allow"
              \/ /\ input.hook[q] = "none"
                 /\ \/ IsGlobalSuperAdmin(input)
                    \/ PermissionSatisfied(EffectivePermissions(input), q)
<1>1. q \in Permissions(S) /\ input.hook[q] \in {"allow", "deny", "none"}
  BY DEF Environment
<1>2. NormalizeVerdict(input.decide[q]) = "abstain" \/ input.provider = "none"
  BY DEF NormalizeVerdict
<1>3. Known(input) =>
        (Rbac(input, q, TRUE) <=> PermissionSatisfied(EffectivePermissions(input), q))
  BY <1>1, RbacIsPlain
<1> QED
  BY <1>1, <1>2, <1>3 DEF Can, Check, ResolveCheck, Decided, SuperAdmin

(* A row scope shows every row to whom can allows the action and none to    *)
(* whom the hook denies it or who is unknown, for any hook and any grants.  *)
THEOREM ScopeAlwaysAgrees ==
  ASSUME NEW S, Environment(S)
  PROVE  ScopeAgrees
<1>1. SUFFICES ASSUME input.plan = "abstain",
                      \A q \in DOMAIN input.decide : input.decide[q].kind = "nullish",
                      NEW q \in DOMAIN input.hook
               PROVE  Scope(input, q) =
                        IF Can(input, q) THEN "all"
                        ELSE IF ~Known(input) \/ input.hook[q] = "deny" THEN "none"
                        ELSE NormalizeScope(input.filter)
  BY DEF ScopeAgrees
<1>2. input.hook[q] \in {"allow", "deny", "none"} /\ q \in DOMAIN input.decide
  BY DEF Environment
<1>3. Can(input, q) <=>
        /\ Known(input)
        /\ \/ input.hook[q] = "allow"
           \/ /\ input.hook[q] = "none"
              /\ \/ IsGlobalSuperAdmin(input)
                 \/ PermissionSatisfied(EffectivePermissions(input), q)
  BY <1>1, <1>2, CanWithoutProvider
<1> QED
  BY <1>1, <1>2, <1>3 DEF Scope, SuperAdmin

(* The grants shared with the page decide there as can does on the server,  *)
(* and as the guard of a route does for a permission without wildcards.     *)
THEOREM PageAlwaysAgrees ==
  ASSUME NEW S, Environment(S)
  PROVE  PageAgrees
<1>1. SUFFICES ASSUME input.provider = "none", ~IsGlobalSuperAdmin(input),
                      NEW q \in DOMAIN input.hook, input.hook[q] = "none"
               PROVE  /\ Can(input, q) = PermissionSatisfied(BuildAuthzShare(input).permissions, q)
                      /\ Star \notin Segments(q) =>
                           (RequireRole(input, {}, {q}) = "next" <=> Can(input, q))
  BY DEF PageAgrees
<1>2. q \in Permissions(S)
  BY DEF Environment
<1>3. Can(input, q) <=> Known(input) /\ PermissionSatisfied(EffectivePermissions(input), q)
  BY <1>1, CanWithoutProvider
<1>4. ~Known(input) => EffectivePermissions(input) = {} /\ EffectiveRoles(input) = {}
  BY DEF EffectivePermissions, EffectiveRoles
<1>5. Can(input, q) <=> PermissionSatisfied(EffectivePermissions(input), q)
  BY <1>3, <1>4 DEF PermissionSatisfied
<1>6. PermissionSatisfied(BuildAuthzShare(input).permissions, q)
        <=> PermissionSatisfied(EffectivePermissions(input), q)
  BY <1>4 DEF BuildAuthzShare, PermissionSatisfied, Known
<1>7. ASSUME Star \notin Segments(q)
      PROVE  RequireRole(input, {}, {q}) = "next" <=> Can(input, q)
  <2>1. OpensBy(EffectivePermissions(input), q)
          <=> PermissionSatisfied(EffectivePermissions(input), q)
    <3>1. ASSUME NEW g \in EffectivePermissions(input), PermissionMatches(q, g)
          PROVE  PermissionMatches(g, q)
      BY <1>2, <1>7, <3>1, PlainMatch, EffectiveArePermissions DEF PermissionMatches
    <3> QED
      BY <3>1 DEF OpensBy, PermissionSatisfied
  <2> QED
    BY <1>3, <1>4, <1>5, <2>1 DEF RequireRole, Known, PermissionSatisfied
<1>8. Can(input, q) \in BOOLEAN
      /\ PermissionSatisfied(BuildAuthzShare(input).permissions, q) \in BOOLEAN
  BY DEF Can, PermissionSatisfied
<1> QED
  BY <1>5, <1>6, <1>7, <1>8

-----------------------------------------------------------------------------
(* The members of a role. *)

(* References of words of W, with no blank in the type: a key is the type,  *)
(* a blank and the id.                                                      *)
References(W) ==
  [type : {t \in Seq(W) : \A i \in DOMAIN t : t[i] # Blank}, id : Seq(W)]

(* Two references with one key are one: the first blank ends the type. *)
LEMMA SubjectKeyTells ==
  ASSUME NEW W, Blank \in W, NEW x \in References(W), NEW y \in References(W),
         SubjectKey(x) = SubjectKey(y)
  PROVE  x = y
<1>1. PICK a \in Seq(W), b \in Seq(W), c \in Seq(W), d \in Seq(W), k \in W :
        a = x.type /\ b = x.id /\ c = y.type /\ d = y.id /\ k = Blank
  BY DEF References
<1> DEFINE l == a \o <<k>> \o b
           r == c \o <<k>> \o d
<1>2. /\ Len(l) = Len(a) + 1 + Len(b) /\ l[Len(a) + 1] = k
      /\ \A i \in 1 .. Len(a) : l[i] = a[i]
      /\ \A i \in 1 .. Len(b) : l[Len(a) + 1 + i] = b[i]
  OBVIOUS
<1>3. /\ Len(r) = Len(c) + 1 + Len(d) /\ r[Len(c) + 1] = k
      /\ \A i \in 1 .. Len(c) : r[i] = c[i]
      /\ \A i \in 1 .. Len(d) : r[Len(c) + 1 + i] = d[i]
  OBVIOUS
<1>4. l = r
  BY <1>1 DEF SubjectKey
<1>5. (\A i \in 1 .. Len(a) : a[i] # k) /\ \A i \in 1 .. Len(c) : c[i] # k
  BY <1>1 DEF References
<1> HIDE DEF l, r
<1>6. ~(Len(a) < Len(c))
  <2> SUFFICES ASSUME Len(a) < Len(c) PROVE FALSE
    OBVIOUS
  <2>1. Len(a) + 1 \in 1 .. Len(c)
    OBVIOUS
  <2> QED
    BY <2>1, <1>2, <1>3, <1>4, <1>5
<1>7. ~(Len(c) < Len(a))
  <2> SUFFICES ASSUME Len(c) < Len(a) PROVE FALSE
    OBVIOUS
  <2>1. Len(c) + 1 \in 1 .. Len(a)
    OBVIOUS
  <2> QED
    BY <2>1, <1>2, <1>3, <1>4, <1>5
<1>8. Len(a) = Len(c) /\ Len(b) = Len(d)
  BY <1>2, <1>3, <1>4, <1>6, <1>7
<1>9. a = c
  BY <1>2, <1>3, <1>4, <1>8
<1>10. b = d
  <2>1. \A i \in 1 .. Len(b) : b[i] = d[i]
    BY <1>2, <1>3, <1>4, <1>8
  <2> QED
    BY <1>8, <2>1
<1> QED
  <2>1. x = [type |-> x.type, id |-> x.id] /\ y = [type |-> y.type, id |-> y.id]
    BY DEF References
  <2> QED
    BY <1>1, <1>9, <1>10, <2>1

LEMMA NormalizedReference ==
  ASSUME NEW W, "user" \in W, NEW x \in References(W)
  PROVE  NormalizeSubjectRef(x) \in References(W)
<1> DEFINE t == IF x.type = <<>> THEN <<"user">> ELSE x.type
<1>1. t \in Seq(W) /\ \A i \in DOMAIN t : t[i] # Blank
  <2>1. <<"user">> \in Seq(W) /\ DOMAIN <<"user">> = {1} /\ <<"user">>[1] # Blank
    BY DEF Blank
  <2>2. x.type \in Seq(W) /\ \A i \in DOMAIN x.type : x.type[i] # Blank
    BY DEF References
  <2> QED
    BY <2>1, <2>2, Zenon
<1> HIDE DEF t
<1>2. NormalizeSubjectRef(x) = [type |-> t, id |-> x.id] /\ x.id \in Seq(W)
  BY DEF NormalizeSubjectRef, t, References
<1> QED
  BY <1>1, <1>2 DEF References

(* subjectsWithRole lists every member that any of the three sources knows, *)
(* and each of them once, for lists of any length.                          *)
THEOREM SubjectsAlwaysListedOnce ==
  ASSUME NEW W, Blank \in W, "user" \in W,
         input.store \in Seq(References(W)), input.members \in Seq(References(W)),
         input.globals \in Seq(References(W))
  PROVE  SubjectsListedOnce
<1> DEFINE all == input.store \o input.members \o input.globals
           listed == [i \in DOMAIN all |-> NormalizeSubjectRef(all[i])]
           keys == [i \in DOMAIN all |-> SubjectKey(listed[i])]
           F == Firsts(keys, DOMAIN all)
<1>1. all \in Seq(References(W))
  <2>1. input.store \o input.members \in Seq(References(W))
    OBVIOUS
  <2> QED
    BY <2>1
<1>2. SubjectsWithRole(input.store, input.members, input.globals) = Kept(listed, F)
  BY DEF SubjectsWithRole
<1> HIDE DEF all
<1>3. IsFiniteSet(DOMAIN all) /\ DOMAIN all \subseteq Nat
  BY <1>1, ListIsFinite
<1>4. \A i \in DOMAIN all : listed[i] \in References(W)
  BY <1>1, NormalizedReference
<1>5. \A i \in DOMAIN all : keys[i] = SubjectKey(listed[i])
  OBVIOUS
<1>6. {listed[i] : i \in DOMAIN all} = {NormalizeSubjectRef(all[i]) : i \in DOMAIN all}
  OBVIOUS
<1> HIDE DEF listed, keys
<1>7. IsFiniteSet(F) /\ F \subseteq DOMAIN all /\ F \subseteq Nat
  BY <1>3, FirstsFind
<1>8. \A i, j \in F : keys[i] = keys[j] => i = j
  BY <1>3, FirstsFind
<1>9. \A i \in DOMAIN all : \E j \in F : keys[j] = keys[i]
  BY <1>3, FirstsFind
<1> HIDE DEF F
<1>10. \A i, j \in F : listed[i] = listed[j] => i = j
  BY <1>5, <1>7, <1>8
<1>11. IsInjective(Kept(listed, F))
  BY <1>3, <1>7, <1>10, KeptOnce
<1>12. Segments(Kept(listed, F)) = {listed[i] : i \in F}
  BY <1>7, KeptItems
<1>13. \A i \in DOMAIN all : \E j \in F : listed[j] = listed[i]
  <2> TAKE i \in DOMAIN all
  <2>1. PICK j \in F : keys[j] = keys[i]
    BY <1>9
  <2>2. listed[j] = listed[i]
    BY <1>4, <1>5, <1>7, <2>1, SubjectKeyTells
  <2> QED
    BY <2>2
<1>14. Segments(Kept(listed, F)) = {listed[i] : i \in DOMAIN all}
  BY <1>7, <1>12, <1>13
<1> QED
  BY <1>2, <1>6, <1>11, <1>14 DEF SubjectsListedOnce, all

-----------------------------------------------------------------------------
(* Batches of the Cerbos provider. *)

(* The n-th stretch of B places is where division by B gives n. *)
LEMMA StretchOf ==
  ASSUME NEW B \in Nat \ {0}, NEW n \in Nat, NEW p \in Nat \ {0}
  PROVE  p \in (n * B + 1) .. (n * B + 1 + B - 1) <=> (p - 1) \div B = n
<1> DEFINE q == p - 1
           d == q \div B
<1>1. q \in Nat /\ d \in Nat /\ d * B <= q /\ q < d * B + B
  OBVIOUS
<1>2. ASSUME NEW m \in Nat, NEW l \in Nat, m < l, l * B <= q, q < m * B + B PROVE FALSE
  <2>1. PICK c \in Nat : l = m + 1 + c
    <3>1. l - m - 1 \in Nat /\ l = m + 1 + (l - m - 1)
      BY <1>2
    <3> QED
      BY <3>1
  <2>2. l * B = m * B + B + c * B
    BY <2>1
  <2>3. c * B \in Nat /\ m * B \in Nat
    OBVIOUS
  <2> HIDE DEF q
  <2> QED
    BY <1>1, <1>2, <2>2, <2>3
<1>3. n * B \in Nat /\ d * B \in Nat
  BY <1>1
<1>4. p \in (n * B + 1) .. (n * B + 1 + B - 1) <=> n * B <= q /\ q < n * B + B
  BY <1>3
<1> HIDE DEF q, d
<1>5. n * B <= q /\ q < n * B + B <=> d = n
  <2>1. ASSUME n * B <= q, q < n * B + B PROVE d = n
    <3>1. ~(n < d) /\ ~(d < n)
      BY <1>1, <1>2, <2>1
    <3> QED
      BY <1>1, <3>1
  <2> QED
    BY <1>1, <2>1
<1> QED
  BY <1>4, <1>5 DEF q, d

(* The keys asked about, where each is asked about first, its check, and the*)
(* number of the call that has it.                                          *)
KeyList(requests) == [i \in DOMAIN requests |-> requests[i].key]
MappedAt(requests) == {i \in DOMAIN requests : requests[i].key # Nobody}
FirstAsked(requests) == Firsts(KeyList(requests), MappedAt(requests))
CheckAt(requests, i) ==
  [key |-> requests[i].key, attr |-> requests[i].attr,
   actions |-> {requests[j].action : j \in {x \in DOMAIN requests : requests[x].key = requests[i].key}}]
CallNo(e, requests, i) == (Place(FirstAsked(requests), i) - 1) \div Batch(e)

LEMMA FirstsAsked ==
  ASSUME NEW requests, IsFiniteSet(DOMAIN requests), DOMAIN requests \subseteq Nat
  PROVE  /\ IsFiniteSet(MappedAt(requests)) /\ MappedAt(requests) \subseteq Nat
         /\ IsFiniteSet(FirstAsked(requests)) /\ FirstAsked(requests) \subseteq Nat
         /\ FirstAsked(requests) \subseteq MappedAt(requests)
         /\ \A i, j \in FirstAsked(requests) : requests[i].key = requests[j].key => i = j
         /\ \A i \in MappedAt(requests) :
              \E f \in FirstAsked(requests) : requests[f].key = requests[i].key
<1> DEFINE keys == KeyList(requests)
           P == MappedAt(requests)
<1>1. IsFiniteSet(P) /\ P \subseteq DOMAIN requests
  BY FS_Subset DEF MappedAt
<1>2. P \subseteq Nat
  BY <1>1
<1>3. \A i \in DOMAIN requests : keys[i] = requests[i].key
  BY DEF KeyList
<1> HIDE DEF keys, P
<1>4. IsFiniteSet(Firsts(keys, P)) /\ Firsts(keys, P) \subseteq P
  BY <1>1, <1>2, FirstsFind
<1>5. \A i, j \in Firsts(keys, P) : keys[i] = keys[j] => i = j
  BY <1>1, <1>2, FirstsFind
<1>6. \A i \in P : \E j \in Firsts(keys, P) : keys[j] = keys[i]
  BY <1>1, <1>2, FirstsFind
<1>7. FirstAsked(requests) = Firsts(keys, P)
  BY DEF FirstAsked, keys, P
<1>8. \A i, j \in Firsts(keys, P) : requests[i].key = requests[j].key => i = j
  BY <1>1, <1>3, <1>4, <1>5
<1>9. \A i \in P : \E f \in Firsts(keys, P) : requests[f].key = requests[i].key
  <2> TAKE i \in P
  <2>1. PICK f \in Firsts(keys, P) : keys[f] = keys[i]
    BY <1>6
  <2> QED
    BY <1>1, <1>3, <1>4, <2>1
<1> QED
  BY <1>1, <1>2, <1>4, <1>7, <1>8, <1>9 DEF P

(* The n-th call asks the checks whose number it is. *)
LEMMA ChunkHas ==
  ASSUME NEW e, e.maxBatchSize \in Int, NEW n \in Nat,
         NEW requests, IsFiniteSet(DOMAIN requests), DOMAIN requests \subseteq Nat
  PROVE  /\ Chunk(e, Checks(requests), n) =
              {CheckAt(requests, i) : i \in {x \in FirstAsked(requests) : CallNo(e, requests, x) = n}}
         /\ \A i \in FirstAsked(requests) :
              CallNo(e, requests, i) \in 0 .. Len(Checks(requests))
<1> DEFINE F == FirstAsked(requests)
           B == Batch(e)
           checks == [i \in DOMAIN requests |-> CheckAt(requests, i)]
           all == Checks(requests)
<1>1. B \in Nat \ {0}
  BY DEF Batch
<1>2. IsFiniteSet(F) /\ F \subseteq Nat /\ F \subseteq DOMAIN requests
  BY FirstsAsked DEF MappedAt
<1>3. all = Kept(checks, F)
  <2>1. {i \in DOMAIN KeyList(requests) : KeyList(requests)[i] # Nobody} = MappedAt(requests)
    BY DEF KeyList, MappedAt
  <2>2. checks = [i \in DOMAIN requests |->
                   [key |-> KeyList(requests)[i], attr |-> requests[i].attr,
                    actions |-> {requests[j].action :
                                   j \in {x \in DOMAIN KeyList(requests) :
                                            KeyList(requests)[x] = KeyList(requests)[i]}}]]
    BY DEF KeyList, CheckAt
  <2> HIDE DEF checks
  <2>3. Checks(requests) =
          Kept(checks, Firsts(KeyList(requests),
                              {i \in DOMAIN KeyList(requests) : KeyList(requests)[i] # Nobody}))
    BY <2>2 DEF Checks, KeyList
  <2> QED
    BY <2>1, <2>3 DEF FirstAsked
<1>4. \A i \in F : checks[i] = CheckAt(requests, i)
  BY <1>2
<1> HIDE DEF F, B, checks, all
<1>5. Len(all) \in Nat /\ DOMAIN all = 1 .. Len(all)
  BY <1>2, <1>3, KeptAt
<1>6. \A i \in F : Place(F, i) \in DOMAIN all /\ all[Place(F, i)] = CheckAt(requests, i)
  BY <1>2, <1>3, <1>4, KeptAt
<1>7. \A p \in DOMAIN all : \E i \in F : Place(F, i) = p
  BY <1>2, <1>3, KeptAt
<1>8. \A i \in F : Place(F, i) \in (n * B + 1) .. (n * B + 1 + B - 1)
                     <=> CallNo(e, requests, i) = n
  <2> TAKE i \in F
  <2>1. Place(F, i) \in Nat \ {0}
    BY <1>5, <1>6
  <2> QED
    BY <1>1, <2>1, StretchOf DEF CallNo, F, B
<1>9. Chunk(e, all, n) = {all[p] : p \in DOMAIN all \cap (n * B + 1) .. (n * B + 1 + B - 1)}
  BY DEF Chunk, Slice, B
<1>10. Chunk(e, all, n) = {CheckAt(requests, i) : i \in {x \in F : CallNo(e, requests, x) = n}}
  BY <1>6, <1>7, <1>8, <1>9
<1>11. \A i \in F : CallNo(e, requests, i) \in 0 .. Len(all)
  <2> TAKE i \in F
  <2> DEFINE q == Place(F, i) - 1
  <2>1. q \in Nat /\ q <= Len(all)
    BY <1>5, <1>6
  <2> HIDE DEF q
  <2>2. q \div B \in Nat /\ (q \div B) * B <= q
    BY <1>1, <2>1
  <2>3. q \div B <= q
    <3> DEFINE d == q \div B
    <3>1. d \in Nat /\ d * B <= q
      BY <2>2
    <3> HIDE DEF d
    <3>2. PICK c \in Nat : B = c + 1
      <4>1. B - 1 \in Nat /\ B = (B - 1) + 1
        BY <1>1
      <4> QED
        BY <4>1
    <3>3. d * B = d * c + d /\ d * c \in Nat
      BY <3>1, <3>2
    <3>4. d <= q
      BY <2>1, <3>1, <3>3
    <3> QED
      BY <3>4 DEF d
  <2>4. q \div B <= Len(all)
    BY <1>5, <2>1, <2>2, <2>3
  <2>5. CallNo(e, requests, i) = q \div B
    BY DEF CallNo, q, F, B
  <2> QED
    BY <1>5, <2>2, <2>4, <2>5
<1> QED
  BY <1>10, <1>11 DEF F, all

(* What one request of a batch gets: the failure verdict when its resource  *)
(* has no answer or its call throws, what the policy says otherwise.        *)
Failing(e, requests, f) ==
  \/ requests[f].key \in e.silent
  \/ \E x \in FirstAsked(requests) :
       requests[x].key \in e.down /\ CallNo(e, requests, x) = CallNo(e, requests, f)

LEMMA AnswerOfCall ==
  ASSUME NEW e, NEW chunk, NEW a \in CheckResources(e, chunk)
  PROVE  /\ \A c \in chunk : c.key \notin e.down
         /\ \E c \in chunk : /\ c.key \notin e.silent
                             /\ \E b \in c.actions :
                                  a = [key |-> c.key, action |-> b,
                                       allowed |-> <<c.attr, b>> \in e.policy]
<1>1. \A c \in chunk : c.key \notin e.down
  BY DEF CheckResources
<1>2. PICK c \in chunk \ Silent(e, chunk) :
        a \in {[key |-> c.key, action |-> b, allowed |-> <<c.attr, b>> \in e.policy] :
                b \in c.actions}
  BY <1>1 DEF CheckResources
<1>3. c.key \notin e.silent
  BY <1>2 DEF Silent
<1> QED
  BY <1>1, <1>2, <1>3

LEMMA DecidedInBatch ==
  ASSUME NEW e, e.maxBatchSize \in Int, e.client, e.principal,
         NEW requests, IsFiniteSet(DOMAIN requests), DOMAIN requests \subseteq Nat,
         NEW i \in MappedAt(requests), NEW f \in FirstAsked(requests),
         requests[f].key = requests[i].key
  PROVE  DecideMany(e, requests)[i] =
           IF Failing(e, requests, f) THEN FailureVerdict(e)
           ELSE IF <<requests[f].attr, requests[i].action>> \in e.policy THEN "allow" ELSE "deny"
<1> DEFINE F == FirstAsked(requests)
           all == Checks(requests)
           answers == UNION {CheckResources(e, Chunk(e, all, n)) : n \in 0 .. Len(all)}
           k == requests[i].key
           act == requests[i].action
           mine == {a \in answers : a.key = k /\ a.action = act}
           only == [key |-> k, action |-> act, allowed |-> <<requests[f].attr, act>> \in e.policy]
<1>1. DecideMany(e, requests)[i] =
        IF mine # {}
          THEN IF (CHOOSE a \in answers : a.key = k /\ a.action = act).allowed
                 THEN "allow" ELSE "deny"
          ELSE FailureVerdict(e)
  BY DEF DecideMany, MappedAt
<1>2. /\ F \subseteq MappedAt(requests) /\ F \subseteq Nat
      /\ \A x, y \in F : requests[x].key = requests[y].key => x = y
  BY FirstsAsked
<1>3. \A n \in 0 .. Len(all) :
        Chunk(e, all, n) = {CheckAt(requests, x) : x \in {y \in F : CallNo(e, requests, y) = n}}
  BY ChunkHas
<1>4. \A x \in F : CallNo(e, requests, x) \in 0 .. Len(all)
  <2>1. 0 \in Nat
    OBVIOUS
  <2> QED
    BY <2>1, ChunkHas
<1> HIDE DEF F, all
<1>5. \A x : CheckAt(requests, x).key = requests[x].key
             /\ CheckAt(requests, x).attr = requests[x].attr
  BY DEF CheckAt
<1>6. act \in CheckAt(requests, f).actions
  BY <1>2 DEF CheckAt, MappedAt
<1>7. ASSUME NEW a \in mine PROVE a = only /\ ~Failing(e, requests, f)
  <2>1. PICK n \in 0 .. Len(all) : a \in CheckResources(e, Chunk(e, all, n))
    BY <1>7
  <2> DEFINE chunk == Chunk(e, all, n)
  <2>a. a \in CheckResources(e, chunk)
    BY <2>1
  <2> HIDE DEF chunk
  <2>b. \A c \in chunk : c.key \notin e.down
    BY <2>a, AnswerOfCall
  <2>c. \E c \in chunk : /\ c.key \notin e.silent
                         /\ \E b \in c.actions :
                              a = [key |-> c.key, action |-> b,
                                   allowed |-> <<c.attr, b>> \in e.policy]
    BY <2>a, AnswerOfCall
  <2>2. chunk = {CheckAt(requests, x) : x \in {y \in F : CallNo(e, requests, y) = n}}
    BY <1>3 DEF chunk
  <2>3. PICK x \in F :
          /\ CallNo(e, requests, x) = n
          /\ requests[x].key \notin e.silent
          /\ \E b \in CheckAt(requests, x).actions :
               a = [key |-> requests[x].key, action |-> b,
                    allowed |-> <<requests[x].attr, b>> \in e.policy]
    <3>1. PICK c \in chunk :
            /\ c.key \notin e.silent
            /\ \E b \in c.actions : a = [key |-> c.key, action |-> b,
                                          allowed |-> <<c.attr, b>> \in e.policy]
      BY <2>c
    <3>2. PICK x \in F : CallNo(e, requests, x) = n /\ c = CheckAt(requests, x)
      BY <2>2, <3>1
    <3>3. c.key = requests[x].key /\ c.attr = requests[x].attr
      BY <1>5, <3>2
    <3> QED
      BY <3>1, <3>2, <3>3
  <2>4. x = f
    BY <1>2, <1>7, <2>3 DEF F
  <2>5. a = only
    BY <1>7, <2>3, <2>4
  <2>6. \A y \in F : CallNo(e, requests, y) = n => requests[y].key \notin e.down
    BY <1>5, <2>2, <2>b
  <2> QED
    BY <2>3, <2>4, <2>5, <2>6 DEF Failing, F
<1>8. ASSUME ~Failing(e, requests, f) PROVE only \in mine
  <2> DEFINE n == CallNo(e, requests, f)
             chunk == Chunk(e, all, n)
  <2>1. n \in 0 .. Len(all) /\ f \in F
    BY <1>4 DEF F
  <2>2. CheckAt(requests, f) \in chunk
    BY <1>3, <2>1
  <2>3. ~\E c \in chunk : c.key \in e.down
    BY <1>3, <1>5, <1>8, <2>1 DEF Failing, F
  <2>4. CheckAt(requests, f) \in chunk \ Silent(e, chunk)
    BY <1>5, <1>8, <2>2 DEF Silent, Failing
  <2> HIDE DEF chunk, n
  <2>5. LET c == CheckAt(requests, f)
        IN  only \in {[key |-> c.key, action |-> a, allowed |-> <<c.attr, a>> \in e.policy] :
                         a \in c.actions}
    BY <1>5, <1>6
  <2>6. only \in CheckResources(e, chunk)
    BY <2>3, <2>4, <2>5 DEF CheckResources
  <2> QED
    BY <2>1, <2>6 DEF chunk
<1> HIDE DEF answers
<1>9. CASE Failing(e, requests, f)
  BY <1>1, <1>7, <1>9
<1>10. CASE ~Failing(e, requests, f)
  <2> DEFINE chosen == CHOOSE a \in answers : a.key = k /\ a.action = act
  <2>1. only \in mine
    BY <1>8, <1>10
  <2>2. chosen \in mine
    BY <2>1
  <2>3. chosen = only
    BY <1>7, <2>2
  <2>4. only.allowed <=> <<requests[f].attr, act>> \in e.policy
    OBVIOUS
  <2>5. mine # {}
    BY <2>1
  <2> HIDE DEF mine, only, chosen
  <2>6. DecideMany(e, requests)[i] = IF chosen.allowed THEN "allow" ELSE "deny"
    BY <1>1, <2>5 DEF chosen
  <2> QED
    BY <1>10, <2>3, <2>4, <2>6
<1> QED
  BY <1>9, <1>10

(* The keys asked about up to a place are the items of the list of keys. *)
LEMMA KeysListed ==
  ASSUME NEW requests, DOMAIN requests \subseteq Nat \ {0}, NEW i \in Nat
  PROVE  KeysUpTo(requests, i) =
           {KeyList(requests)[j] : j \in {x \in MappedAt(requests) : x <= i}}
<1>1. \A j \in DOMAIN requests : KeyList(requests)[j] = requests[j].key
  BY DEF KeyList
<1>2. \A j \in DOMAIN requests : j \in 1 .. i <=> j <= i
  OBVIOUS
<1>3. ASSUME NEW k \in KeysUpTo(requests, i)
      PROVE  k \in {KeyList(requests)[j] : j \in {x \in MappedAt(requests) : x <= i}}
  <2>1. PICK j \in DOMAIN requests \cap 1 .. i : k = requests[j].key
    BY <1>3 DEF KeysUpTo
  <2>2. k # Nobody
    BY <1>3 DEF KeysUpTo
  <2>3. j \in {x \in MappedAt(requests) : x <= i}
    BY <1>2, <2>1, <2>2 DEF MappedAt
  <2> QED
    BY <1>1, <2>1, <2>3
<1>4. ASSUME NEW j \in MappedAt(requests), j <= i
      PROVE  KeyList(requests)[j] \in KeysUpTo(requests, i)
  BY <1>1, <1>2, <1>4 DEF KeysUpTo, MappedAt
<1> QED
  BY <1>3, <1>4

(* The call that asks about a key is the one of where it is asked about     *)
(* first.                                                                   *)
LEMMA CallNumber ==
  ASSUME NEW e, NEW requests, IsFiniteSet(DOMAIN requests), DOMAIN requests \subseteq Nat \ {0},
         NEW f \in FirstAsked(requests)
  PROVE  CallOf(e, requests, requests[f].key) = CallNo(e, requests, f)
<1> DEFINE k == requests[f].key
           Q(i) == requests[i].key = k /\ k \notin KeysUpTo(requests, i - 1)
           first == CHOOSE i \in DOMAIN requests : Q(i)
<1>1. \A j \in DOMAIN requests : KeyList(requests)[j] = requests[j].key
  BY DEF KeyList
<1>2. /\ f \in MappedAt(requests)
      /\ \A x \in MappedAt(requests) : x < f => KeyList(requests)[x] # KeyList(requests)[f]
  BY DEF FirstAsked, Firsts
<1>3. f \in DOMAIN requests /\ f \in Nat \ {0} /\ f - 1 \in Nat /\ k # Nobody
  BY <1>2 DEF MappedAt
<1>4. Q(f)
  <2>1. ASSUME k \in KeysUpTo(requests, f - 1) PROVE FALSE
    <3>1. PICK j \in MappedAt(requests) : j <= f - 1 /\ KeyList(requests)[j] = k
      BY <1>3, <2>1, KeysListed
    <3>2. j \in Nat /\ j < f
      BY <1>3, <3>1 DEF MappedAt
    <3> QED
      BY <1>1, <1>2, <1>3, <3>1, <3>2
  <2> QED
    BY <2>1
<1>5. \A i \in DOMAIN requests : Q(i) => i = f
  <2> SUFFICES ASSUME NEW i \in DOMAIN requests, Q(i) PROVE i = f
    OBVIOUS
  <2>1. i \in Nat \ {0} /\ i - 1 \in Nat /\ i \in MappedAt(requests)
    BY <1>3 DEF MappedAt
  <2>2. ~(i < f)
    BY <1>1, <1>2, <1>3, <2>1
  <2>3. ASSUME f < i PROVE FALSE
    <3>1. f <= i - 1
      BY <1>3, <2>1, <2>3
    <3>2. KeyList(requests)[f] \in KeysUpTo(requests, i - 1)
      BY <1>2, <2>1, <3>1, KeysListed
    <3> QED
      BY <1>1, <1>3, <3>2
  <2> QED
    BY <1>3, <2>1, <2>2, <2>3
<1>6. first = f
  BY <1>3, <1>4, <1>5
<1>7. CallOf(e, requests, k) = (Cardinality(KeysUpTo(requests, first)) - 1) \div Batch(e)
  BY DEF CallOf
<1>8. Place(FirstAsked(requests), f) = Cardinality(KeysUpTo(requests, f))
  <2>1. IsFiniteSet(MappedAt(requests)) /\ MappedAt(requests) \subseteq Nat
    BY FirstsAsked
  <2>2. f \in Firsts(KeyList(requests), MappedAt(requests))
    BY DEF FirstAsked
  <2>3. Place(Firsts(KeyList(requests), MappedAt(requests)), f) =
          Cardinality({KeyList(requests)[j] : j \in {x \in MappedAt(requests) : x <= f}})
    BY <2>1, <2>2, PlaceOfFirst
  <2>4. KeysUpTo(requests, f) = {KeyList(requests)[j] : j \in {x \in MappedAt(requests) : x <= f}}
    BY <1>3, KeysListed
  <2> QED
    BY <2>3, <2>4 DEF FirstAsked
<1> HIDE DEF first
<1> QED
  BY <1>6, <1>7, <1>8 DEF CallNo

(* A request decided alone is a batch of its own. *)
LEMMA DecidedAlone ==
  ASSUME NEW e, e.maxBatchSize \in Int, e.client, e.principal,
         NEW r, r.key # Nobody
  PROVE  Decide(e, r) =
           IF r.key \in e.silent \/ r.key \in e.down THEN FailureVerdict(e)
           ELSE IF <<r.attr, r.action>> \in e.policy THEN "allow" ELSE "deny"
<1> DEFINE one == <<r>>
<1>1. DOMAIN one = {1} /\ one[1] = r
  OBVIOUS
<1> HIDE DEF one
<1>2. IsFiniteSet(DOMAIN one) /\ DOMAIN one \subseteq Nat
  BY <1>1, FS_Singleton
<1>3. MappedAt(one) = {1}
  BY <1>1 DEF MappedAt
<1>4. FirstAsked(one) = {1}
  BY <1>3 DEF FirstAsked, Firsts
<1>5. Failing(e, one, 1) <=> r.key \in e.silent \/ r.key \in e.down
  BY <1>1, <1>4 DEF Failing
<1>6. DecideMany(e, one)[1] =
        IF Failing(e, one, 1) THEN FailureVerdict(e)
        ELSE IF <<one[1].attr, one[1].action>> \in e.policy THEN "allow" ELSE "deny"
  BY <1>2, <1>3, <1>4, DecidedInBatch
<1>7. Decide(e, r) = DecideMany(e, one)[1]
  BY DEF Decide, one
<1> QED
  BY <1>1, <1>5, <1>6, <1>7

(* The worlds and the batches: a resource is asked about with one set of    *)
(* attributes, since its one check carries the first request's.             *)
CerbosBatch(e, U) ==
  /\ e.maxBatchSize \in Int /\ e.client \in BOOLEAN /\ e.principal \in BOOLEAN
  /\ e.requests \in Seq(U)
  /\ \A i, j \in DOMAIN e.requests :
       e.requests[i].key = e.requests[j].key => e.requests[i].attr = e.requests[j].attr

(* decideMany answers each request what decide answers it alone, but for the*)
(* calls that fail: for batches and chunks of any size, any policy and any  *)
(* resources silent or failing.                                             *)
THEOREM BatchesAlwaysIndependent ==
  ASSUME NEW U, CerbosBatch(input, U)
  PROVE  BatchesIndependent
<1> DEFINE e == input
           requests == input.requests
           down(k) == k # Nobody /\ e.client /\ e.principal
                      /\ \E d \in e.down \cap KeysUpTo(requests, Len(requests)) :
                           CallOf(e, requests, d) = CallOf(e, requests, k)
<1>1. e.maxBatchSize \in Int /\ e.client \in BOOLEAN /\ e.principal \in BOOLEAN
  BY DEF CerbosBatch
<1>2. Len(requests) \in Nat /\ DOMAIN requests = 1 .. Len(requests)
  BY DEF CerbosBatch
<1>3. \A i, j \in DOMAIN requests :
        requests[i].key = requests[j].key => requests[i].attr = requests[j].attr
  BY DEF CerbosBatch
<1> SUFFICES ASSUME NEW i \in DOMAIN requests
             PROVE  DecideMany(e, requests)[i] =
                      IF down(requests[i].key) THEN FailureVerdict(e) ELSE Decide(e, requests[i])
  BY DEF BatchesIndependent
<1> HIDE DEF e, requests
<1>4. IsFiniteSet(DOMAIN requests) /\ DOMAIN requests \subseteq Nat \ {0}
  <2>1. IsFiniteSet(1 .. Len(requests))
    BY <1>2, FS_Interval
  <2> QED
    BY <1>2, <2>1
<1>5. CASE requests[i].key = Nobody
  <2>1. DecideMany(e, requests)[i] = "abstain"
    BY <1>5 DEF DecideMany
  <2>2. Decide(e, requests[i]) = "abstain"
    BY <1>5 DEF Decide, DecideMany
  <2> QED
    BY <1>5, <2>1, <2>2
<1>6. CASE requests[i].key # Nobody /\ e.client /\ e.principal
  <2>1. i \in MappedAt(requests)
    BY <1>6 DEF MappedAt
  <2>2. PICK f \in FirstAsked(requests) : requests[f].key = requests[i].key
    BY <1>4, <2>1, FirstsAsked
  <2>3. f \in DOMAIN requests /\ requests[f].attr = requests[i].attr
    <3>1. f \in DOMAIN requests
      BY <1>4, FirstsAsked DEF MappedAt
    <3> QED
      BY <1>3, <2>2, <3>1
  <2>4. DecideMany(e, requests)[i] =
          IF Failing(e, requests, f) THEN FailureVerdict(e)
          ELSE IF <<requests[i].attr, requests[i].action>> \in e.policy THEN "allow" ELSE "deny"
    BY <1>1, <1>4, <1>6, <2>1, <2>2, <2>3, DecidedInBatch
  <2>5. Decide(e, requests[i]) =
          IF requests[i].key \in e.silent \/ requests[i].key \in e.down THEN FailureVerdict(e)
          ELSE IF <<requests[i].attr, requests[i].action>> \in e.policy THEN "allow" ELSE "deny"
    BY <1>1, <1>6, DecidedAlone
  <2>6. \A x \in FirstAsked(requests) :
          CallOf(e, requests, requests[x].key) = CallNo(e, requests, x)
    BY <1>4, CallNumber
  <2>7. KeysUpTo(requests, Len(requests)) = {requests[x].key : x \in FirstAsked(requests)}
    <3>1. KeysUpTo(requests, Len(requests)) = {requests[x].key : x \in MappedAt(requests)}
      BY <1>2 DEF KeysUpTo, MappedAt
    <3>2. /\ FirstAsked(requests) \subseteq MappedAt(requests)
          /\ \A x \in MappedAt(requests) :
               \E y \in FirstAsked(requests) : requests[y].key = requests[x].key
      BY <1>4, FirstsAsked
    <3> QED
      BY <3>1, <3>2
  <2>8. down(requests[i].key) <=>
          \E x \in FirstAsked(requests) :
            requests[x].key \in e.down /\ CallNo(e, requests, x) = CallNo(e, requests, f)
    BY <1>6, <2>2, <2>6, <2>7
  <2>9. Failing(e, requests, f) <=> requests[i].key \in e.silent \/ down(requests[i].key)
    BY <2>2, <2>8 DEF Failing
  <2>10. requests[i].key \in e.down => down(requests[i].key)
    BY <2>2, <2>8
  <2> HIDE DEF down
  <2> QED
    BY <2>4, <2>5, <2>9, <2>10
<1>7. CASE ~e.client \/ ~e.principal
  <2>1. DecideMany(e, requests)[i] = "abstain"
    BY <1>7 DEF DecideMany
  <2>2. Decide(e, requests[i]) = "abstain"
    BY <1>7 DEF Decide, DecideMany
  <2> QED
    BY <1>7, <2>1, <2>2
<1> QED
  BY <1>1, <1>5, <1>6, <1>7

-----------------------------------------------------------------------------
(* The reads. *)

LEMMA RowShapes ==
  ASSUME input.db \in SUBSET Row
  PROVE  /\ \A a \in Assignments(D) : /\ a \in input.db /\ a.tab = "assign"
                                      /\ a.subj \in Subject /\ a.role \in Id
                                      /\ a.tenant \in Tenant /\ a.source \in Source
         /\ \A N, i : i \in Ids(D, N) <=>
                       \E x \in input.db : x.tab = "name" /\ x.name \in N /\ x.id = i
<1>1. \A a \in Assignments(D) : a \in AssignRow
  BY DEF Assignments, D, Row, NameRow, GrantRow, AssignRow, DirectRow
<1> QED
  BY <1>1 DEF Assignments, D, Ids, AssignRow

(* The SQL store's reads of who holds what agree whichever way they are     *)
(* asked, on any rows of the schema, references to what is gone among them. *)
THEOREM ReadsAlwaysAgree ==
  ASSUME input.db \in SUBSET Row
  PROVE  ReadsAgree
<1> DEFINE Held(s, n, t) == \E a \in Assignments(D) :
             a.subj = s /\ a.role \in Ids(D, {n}) /\ Visible(a.tenant, t)
<1>1. SUFFICES ASSUME NEW t \in Tenant
      PROVE
      /\ \A s \in Subject, n \in Role :
           /\ s \in SubjectsForRole(D, n, t) <=> n \in RolesForSubject(D, s, t)
           /\ n \in RolesForSubject(D, s, t) <=>
                \E w \in RoleAssignments(D, s, t) : w.role = n
      /\ \A n \in Role :
           CountSubjectsForRole(D, n, t) = Cardinality(SubjectsForRole(D, n, t))
      /\ CountSubjectsByRole(D, t) =
           [n \in NamesIn(D, Role) |-> Cardinality(SubjectsForRole(D, n, t))]
      /\ \A s \in Subject, p \in Perm :
           SubjectHasPermission(D, s, p, t) <=> p \in PermissionsForSubject(D, s, t)
      /\ PermissionsForRoles(D, Role) = [n \in NamesIn(D, Role) |-> RolePermissions(D, n)]
      /\ \A s \in Subject :
           {[role |-> w.role, source |-> w.source, tenant |-> w.tenant] :
              w \in ListRoleAssignments(D, [Everything EXCEPT !.subjects = {s},
                                                             !.tenants = {t, Global}])}
           = RoleAssignments(D, s, t)
  BY DEF ReadsAgree
<1>2. \A s, n : s \in SubjectsForRole(D, n, t) <=> Held(s, n, t)
  BY DEF SubjectsForRole, HoldersOf
<1>3. \A s, n : n \in RolesForSubject(D, s, t) <=> n \in Role /\ Held(s, n, t)
  BY DEF RolesForSubject, AssignedTo, Assignments
<1>4. ASSUME NEW s \in Subject, NEW n \in Role
      PROVE  Held(s, n, t) <=> \E w \in RoleAssignments(D, s, t) : w.role = n
  <2>1. ASSUME NEW a \in Assignments(D),
               a.subj = s, a.role \in Ids(D, {n}), Visible(a.tenant, t)
        PROVE  \E w \in RoleAssignments(D, s, t) : w.role = n
    <3> DEFINE w == [role |-> n, source |-> a.source, tenant |-> a.tenant]
    <3>1. w \in RoleAssignments(D, s, t)
      BY <2>1, RowShapes DEF RoleAssignments, AssignedTo, Assignments
    <3> QED
      BY <3>1
  <2>2. ASSUME NEW w \in RoleAssignments(D, s, t), w.role = n
        PROVE  Held(s, n, t)
    BY <2>2 DEF RoleAssignments, AssignedTo, Assignments
  <2> QED
    BY <2>1, <2>2
<1>5. CountSubjectsByRole(D, t) =
        [n \in NamesIn(D, Role) |-> Cardinality(SubjectsForRole(D, n, t))]
  BY DEF CountSubjectsByRole, SubjectsForRole, HoldersOf
<1>6. ASSUME NEW s \in Subject
      PROVE  {[role |-> w.role, source |-> w.source, tenant |-> w.tenant] :
                w \in ListRoleAssignments(D, [Everything EXCEPT !.subjects = {s},
                                                               !.tenants = {t, Global}])}
             = RoleAssignments(D, s, t)
  <2> DEFINE F == [Everything EXCEPT !.subjects = {s}, !.tenants = {t, Global}]
  <2>1. F.roles = Role /\ F.tenants = {t, Global} /\ F.subjects = {s} /\ F.sources = Source
    BY DEF Everything
  <2>2. ASSUME NEW w \in ListRoleAssignments(D, F)
        PROVE  [role |-> w.role, source |-> w.source, tenant |-> w.tenant]
                 \in RoleAssignments(D, s, t)
    <3>1. /\ w \in [subj : {s}, role : Role, source : Source, tenant : {t, Global}]
          /\ \E a \in Assignments(D) :
               /\ a.role \in Ids(D, {w.role}) /\ a.tenant = w.tenant
               /\ a.subj = w.subj /\ a.source = w.source
      BY <2>1, <2>2 DEF ListRoleAssignments
    <3> QED
      BY <3>1, TablesAssumption, <1>1 DEF RoleAssignments, AssignedTo, Assignments, Visible
  <2>3. ASSUME NEW v \in RoleAssignments(D, s, t)
        PROVE  \E w \in ListRoleAssignments(D, F) :
                 v = [role |-> w.role, source |-> w.source, tenant |-> w.tenant]
    <3> DEFINE w == [subj |-> s, role |-> v.role, source |-> v.source, tenant |-> v.tenant]
    <3>1. /\ v \in [role : Role, source : Source, tenant : Tenant]
          /\ \E a \in Assignments(D) :
               /\ a.subj = s /\ Visible(a.tenant, t)
               /\ a.role \in Ids(D, {v.role}) /\ a.source = v.source /\ a.tenant = v.tenant
      BY <2>3 DEF RoleAssignments, AssignedTo, Assignments
    <3>2. w \in ListRoleAssignments(D, F)
      BY <2>1, <3>1 DEF ListRoleAssignments, Visible
    <3>3. v = [role |-> w.role, source |-> w.source, tenant |-> w.tenant]
      BY <3>1
    <3> QED
      BY <3>2, <3>3
  <2> QED
    BY <2>2, <2>3
<1>7. \A s \in Subject, p \in Perm :
        SubjectHasPermission(D, s, p, t) <=> p \in PermissionsForSubject(D, s, t)
  BY DEF SubjectHasPermission, PermissionsForSubject
<1>8. PermissionsForRoles(D, Role) = [n \in NamesIn(D, Role) |-> RolePermissions(D, n)]
  BY DEF PermissionsForRoles, RolePermissions
<1>9. \A n \in Role : CountSubjectsForRole(D, n, t) = Cardinality(SubjectsForRole(D, n, t))
  BY DEF CountSubjectsForRole, SubjectsForRole
<1> QED
  BY <1>2, <1>3, <1>4, <1>5, <1>6, <1>7, <1>8, <1>9

(* Rows of a finite set, listed in some order: each is in the list. *)
LEMMA RowsListed ==
  ASSUME NEW T, IsFiniteSet(T)
  PROVE  /\ IsFiniteSet(DOMAIN SetToSeq(T)) /\ DOMAIN SetToSeq(T) \subseteq Nat
         /\ Segments(SetToSeq(T)) = T
<1> DEFINE N == Cardinality(T)
           P == 1 .. N
           f == SetToSeq(T)
<1>1. N \in Nat /\ \E g \in [P -> T] : IsInjective(g)
  BY FS_CardinalityType DEF ExistsBijection, Bijection, Injection, IsInjective
<1>2. f \in [P -> T] /\ IsInjective(f)
  BY <1>1 DEF SetToSeq
<1>3. IsFiniteSet(P) /\ Cardinality(P) = N /\ P \subseteq Nat
  BY <1>1, FS_Interval
<1> HIDE DEF P, f
<1>4. f \in Injection(P, T)
  BY <1>2 DEF Injection
<1>5. f \in Surjection(P, T)
  BY <1>3, <1>4, FS_Injection
<1>6. Segments(f) = T
  BY <1>2, <1>5 DEF Surjection, Segments
<1> QED
  BY <1>2, <1>3, <1>6 DEF f

LEMMA AssignmentsListed ==
  ASSUME IsFiniteSet(input.db)
  PROVE  /\ IsFiniteSet(DOMAIN List) /\ DOMAIN List \subseteq Nat
         /\ {List[i] : i \in DOMAIN List} = Assignments(D)
<1>1. IsFiniteSet(Assignments(D))
  BY FS_Subset DEF Assignments, D
<1> QED
  BY <1>1, RowsListed DEF List, Segments

(* What refers to a role never refers to a permission: two tables. *)
TablesApart(DB) ==
  /\ \A r \in DB : r.tab \in {"assign", "grant"} => r.role \notin Ids(DB, Perm)
  /\ \A r \in DB : r.tab \in {"grant", "direct"} => r.perm \notin Ids(DB, Role)

(* The members are found in the list, each once. *)
LEMMA MemoryMembers ==
  ASSUME IsFiniteSet(input.db), NEW n, NEW t
  PROVE  /\ Segments(MemorySubjectsForRole(D, List, n, t)) = SubjectsForRole(D, n, t)
         /\ Len(MemorySubjectsForRole(D, List, n, t)) = Cardinality(SubjectsForRole(D, n, t))
<1> DEFINE subjects == [i \in DOMAIN List |-> List[i].subj]
           P == HeldAt(D, List, n, t)
<1>1. /\ IsFiniteSet(DOMAIN List) /\ DOMAIN List \subseteq Nat
      /\ {List[i] : i \in DOMAIN List} = Assignments(D)
  BY AssignmentsListed
<1>2. P \in SUBSET DOMAIN List
  BY DEF HeldAt
<1>3. IsFiniteSet(P) /\ P \subseteq Nat
  BY <1>1, <1>2, FS_Subset
<1>4. {subjects[i] : i \in P} = SubjectsForRole(D, n, t)
  BY <1>1 DEF HeldAt, SubjectsForRole, HoldersOf
<1>5. MemorySubjectsForRole(D, List, n, t) = Kept(subjects, Firsts(subjects, P))
  BY DEF MemorySubjectsForRole
<1> HIDE DEF subjects, P
<1> QED
  BY <1>3, <1>4, <1>5, KeptFirsts

(* The in-memory store reads of any finite rows what the SQL store reads of *)
(* them, however its list is ordered and whatever its rows still refer to.  *)
THEOREM MemoryAlwaysAgrees ==
  ASSUME input.db \in SUBSET Row, IsFiniteSet(input.db), TablesApart(input.db)
  PROVE  MemoryReadsAgree
<1>1. SUFFICES ASSUME NEW t \in Tenant
      PROVE
      /\ \A s \in Subject :
           /\ MemoryRolesForSubject(D, List, s, t) = RolesForSubject(D, s, t)
           /\ MemoryPermissionsForSubject(D, List, s, t) = PermissionsForSubject(D, s, t)
           /\ MemoryRoleAssignments(D, List, s, t) = RoleAssignments(D, s, t)
      /\ \A n \in Role :
           /\ Segments(MemorySubjectsForRole(D, List, n, t)) = SubjectsForRole(D, n, t)
           /\ MemoryCountSubjectsForRole(D, List, n, t) = CountSubjectsForRole(D, n, t)
      /\ MemoryCountSubjectsByRole(D, List, t) = CountSubjectsByRole(D, t)
      /\ MemoryPermissionsForRoles(D, Role) = PermissionsForRoles(D, Role)
      /\ MemoryListRoleAssignments(D, List, [Everything EXCEPT !.tenants = {t}])
           = ListRoleAssignments(D, [Everything EXCEPT !.tenants = {t}])
  BY DEF MemoryReadsAgree
<1>2. {List[i] : i \in DOMAIN List} = Assignments(D)
  BY AssignmentsListed
<1>3. /\ \A r \in D : r.tab \in {"assign", "grant"} => r.role \notin Ids(D, Perm)
      /\ \A r \in D : r.tab \in {"grant", "direct"} => r.perm \notin Ids(D, Role)
  BY DEF TablesApart, D
<1>4. \A n \in Role : \A i : i \in Ids(D, {n}) => i \in Ids(D, Role)
  BY DEF Ids
<1>5. \A n \in Perm : \A i : i \in Ids(D, {n}) => i \in Ids(D, Perm)
  BY DEF Ids
<1>6. ASSUME NEW s \in Subject
      PROVE  MemoryRolesForSubject(D, List, s, t) = RolesForSubject(D, s, t)
  <2>1. MemoryRolesForSubject(D, List, s, t) =
          UNION {IdToNames(D, a.role) : a \in AssignedTo(D, s, t)}
    BY <1>2 DEF MemoryRolesForSubject, AssignedTo, Assignments
  <2>2. \A a \in AssignedTo(D, s, t) : \A n \in IdToNames(D, a.role) : n \in Role
    BY <1>3, <1>5 DEF AssignedTo, IdToNames, Name
  <2> QED
    BY <2>1, <2>2 DEF RolesForSubject, IdToNames, Name
<1>7. ASSUME NEW s \in Subject
      PROVE  MemoryPermissionsForSubject(D, List, s, t) = PermissionsForSubject(D, s, t)
  <2> DEFINE ids == {a.role : a \in AssignedTo(D, s, t)}
             byRole == UNION {IdToNames(D, g.perm) :
                                g \in {x \in D : x.tab = "grant" /\ x.role \in ids}}
             direct == UNION {IdToNames(D, d.perm) :
                                d \in {x \in D : x.tab = "direct" /\ x.subj = s}}
  <2>1. MemoryPermissionsForSubject(D, List, s, t) = byRole \cup direct
    BY <1>2 DEF MemoryPermissionsForSubject, AssignedTo, Assignments
  <2>2. \A p : p \in byRole <=>
          p \in Perm /\ \E a \in AssignedTo(D, s, t) : \E i \in Ids(D, {p}) : Granted(a.role, i) \in D
    <3>1. \A g \in D : g.tab = "grant" => g = Granted(g.role, g.perm)
      BY DEF D, Row, NameRow, GrantRow, AssignRow, DirectRow, Granted
    <3>2. ASSUME NEW p \in byRole
          PROVE  p \in Perm /\ \E a \in AssignedTo(D, s, t) :
                   \E i \in Ids(D, {p}) : Granted(a.role, i) \in D
      <4>1. PICK g \in D : g.tab = "grant" /\ g.role \in ids /\ p \in IdToNames(D, g.perm)
        BY <3>2
      <4>2. p \in Name /\ g.perm \in Ids(D, {p})
        BY <4>1 DEF IdToNames
      <4>3. p \in Perm
        BY <1>3, <1>4, <4>1, <4>2 DEF Name
      <4> QED
        BY <3>1, <4>1, <4>2, <4>3
    <3>3. ASSUME NEW p \in Perm, NEW a \in AssignedTo(D, s, t), NEW i \in Ids(D, {p}),
                 Granted(a.role, i) \in D
          PROVE  p \in byRole
      <4> DEFINE g == Granted(a.role, i)
      <4>1. g.tab = "grant" /\ g.role = a.role /\ g.perm = i
        BY DEF Granted
      <4>2. p \in IdToNames(D, g.perm)
        BY <4>1 DEF IdToNames, Name
      <4> QED
        BY <3>3, <4>1, <4>2
    <3> QED
      BY <3>2, <3>3
  <2>3. \A p : p \in direct <=> p \in Perm /\ \E i \in Ids(D, {p}) : Direct(s, i) \in D
    <3>1. \A d \in D : d.tab = "direct" => d = Direct(d.subj, d.perm)
      BY DEF D, Row, NameRow, GrantRow, AssignRow, DirectRow, Direct
    <3>2. ASSUME NEW p \in direct
          PROVE  p \in Perm /\ \E i \in Ids(D, {p}) : Direct(s, i) \in D
      <4>1. PICK d \in D : d.tab = "direct" /\ d.subj = s /\ p \in IdToNames(D, d.perm)
        BY <3>2
      <4>2. p \in Name /\ d.perm \in Ids(D, {p})
        BY <4>1 DEF IdToNames
      <4>3. p \in Perm
        BY <1>3, <1>4, <4>1, <4>2 DEF Name
      <4> QED
        BY <3>1, <4>1, <4>2, <4>3
    <3>3. ASSUME NEW p \in Perm, NEW i \in Ids(D, {p}), Direct(s, i) \in D
          PROVE  p \in direct
      <4> DEFINE d == Direct(s, i)
      <4>1. d.tab = "direct" /\ d.subj = s /\ d.perm = i
        BY DEF Direct
      <4>2. p \in IdToNames(D, d.perm)
        BY <4>1 DEF IdToNames, Name
      <4> QED
        BY <3>3, <4>1, <4>2
    <3> QED
      BY <3>2, <3>3
  <2> HIDE DEF byRole, direct
  <2> QED
    BY <2>1, <2>2, <2>3 DEF PermissionsForSubject
<1>8. ASSUME NEW s \in Subject
      PROVE  MemoryRoleAssignments(D, List, s, t) = RoleAssignments(D, s, t)
  <2>1. MemoryRoleAssignments(D, List, s, t) =
          UNION {{[role |-> n, source |-> a.source, tenant |-> a.tenant] :
                    n \in IdToNames(D, a.role) \cap Role} : a \in AssignedTo(D, s, t)}
    BY <1>2 DEF MemoryRoleAssignments, AssignedTo, Assignments
  <2>2. \A a \in AssignedTo(D, s, t) : a.source \in Source /\ a.tenant \in Tenant
    BY RowShapes DEF AssignedTo, Assignments
  <2>3. ASSUME NEW w \in MemoryRoleAssignments(D, List, s, t)
        PROVE  w \in RoleAssignments(D, s, t)
    <3>1. PICK a \in AssignedTo(D, s, t), n \in Role :
            w = [role |-> n, source |-> a.source, tenant |-> a.tenant] /\ n \in IdToNames(D, a.role)
      BY <2>1, <2>3
    <3> QED
      BY <2>2, <3>1 DEF RoleAssignments, IdToNames
  <2>4. ASSUME NEW w \in RoleAssignments(D, s, t)
        PROVE  w \in MemoryRoleAssignments(D, List, s, t)
    <3>1. PICK a \in AssignedTo(D, s, t) :
            w.role \in Role /\ a.role \in Ids(D, {w.role})
            /\ w = [role |-> w.role, source |-> a.source, tenant |-> a.tenant]
      BY <2>4 DEF RoleAssignments
    <3>2. w.role \in IdToNames(D, a.role) \cap Role
      BY <3>1 DEF IdToNames, Name
    <3> QED
      BY <2>1, <3>1, <3>2
  <2> QED
    BY <2>3, <2>4
<1>9. \A n \in Role :
        /\ Segments(MemorySubjectsForRole(D, List, n, t)) = SubjectsForRole(D, n, t)
        /\ MemoryCountSubjectsForRole(D, List, n, t) = CountSubjectsForRole(D, n, t)
  BY MemoryMembers DEF MemoryCountSubjectsForRole, CountSubjectsForRole, SubjectsForRole
<1>10. MemoryCountSubjectsByRole(D, List, t) = CountSubjectsByRole(D, t)
  <2>1. CountSubjectsByRole(D, t) =
          [n \in NamesIn(D, Role) |-> Cardinality(SubjectsForRole(D, n, t))]
    BY DEF CountSubjectsByRole, SubjectsForRole, HoldersOf
  <2> QED
    BY <2>1, MemoryMembers DEF MemoryCountSubjectsByRole
<1>11. MemoryPermissionsForRoles(D, Role) = PermissionsForRoles(D, Role)
  BY DEF MemoryPermissionsForRoles, PermissionsForRoles, RolePermissions, NamesIn
<1>12. MemoryListRoleAssignments(D, List, [Everything EXCEPT !.tenants = {t}])
         = ListRoleAssignments(D, [Everything EXCEPT !.tenants = {t}])
  <2> DEFINE F == [Everything EXCEPT !.tenants = {t}]
  <2>1. F.roles = Role /\ F.tenants = {t} /\ F.subjects = Subject /\ F.sources = Source
    BY DEF Everything
  <2> HIDE DEF F
  <2>2. MemoryListRoleAssignments(D, List, F) =
          UNION {{[subj |-> a.subj, role |-> n, source |-> a.source, tenant |-> a.tenant] :
                    n \in IdToNames(D, a.role) \cap Role} :
                   a \in {x \in Assignments(D) : /\ x.tenant \in {t} /\ x.subj \in Subject
                                                 /\ x.source \in Source}}
    BY <1>2, <2>1 DEF MemoryListRoleAssignments
  <2>3. MemoryListRoleAssignments(D, List, F) = ListRoleAssignments(D, F)
    <3>1. ASSUME NEW w \in MemoryListRoleAssignments(D, List, F)
          PROVE  w \in ListRoleAssignments(D, F)
      <4>1. PICK a \in Assignments(D), n \in Role :
              /\ w = [subj |-> a.subj, role |-> n, source |-> a.source, tenant |-> a.tenant]
              /\ n \in IdToNames(D, a.role) /\ a.tenant \in {t} /\ a.subj \in Subject
              /\ a.source \in Source
        BY <2>2, <3>1
      <4> QED
        BY <2>1, <4>1 DEF ListRoleAssignments, IdToNames
    <3>2. ASSUME NEW w \in ListRoleAssignments(D, F)
          PROVE  w \in MemoryListRoleAssignments(D, List, F)
      <4>1. PICK a \in Assignments(D) :
              /\ w = [subj |-> a.subj, role |-> w.role, source |-> a.source, tenant |-> a.tenant]
              /\ w.role \in Role /\ a.role \in Ids(D, {w.role}) /\ a.tenant \in {t}
              /\ a.subj \in Subject /\ a.source \in Source
        BY <2>1, <3>2 DEF ListRoleAssignments
      <4>2. w.role \in IdToNames(D, a.role) \cap Role
        BY <4>1 DEF IdToNames, Name
      <4> QED
        BY <2>2, <4>1, <4>2
    <3> QED
      BY <3>1, <3>2
  <2> QED
    BY <2>3 DEF F
<1> QED
  BY <1>6, <1>7, <1>8, <1>9, <1>10, <1>11, <1>12

(* A preload gives a model the roles that the store reports for it, each    *)
(* once, whatever the types of the two keys and however the rows come back. *)
THEOREM RelationAlwaysAgrees ==
  ASSUME input.db \in SUBSET Row, IsFiniteSet(input.db),
         \A x, y \in input.db : SameKey(x, y) => x = y,
         NEW T, NEW U, Subject \subseteq [type : T, id : U]
  PROVE  RelationAgrees
<1>1. SUFFICES ASSUME NEW s \in Subject, NEW t \in Tenant, NEW type \in {"text", "number"}
      PROVE  LET rows == SetToSeq(RelationRows(D, s.type, t, Source))
                 ids == PreloadedRoles(rows, input.column, KeyAs(type, s.id))
             IN  /\ IsInjective(ids)
                 /\ Segments(ids) = Ids(D, RolesForSubject(D, s, t))
  BY DEF RelationAgrees
<1> DEFINE joined == RelationRows(D, s.type, t, Source)
           rows == SetToSeq(joined)
           own == {i \in DOMAIN rows : SameModel(KeyAs(input.column, rows[i].subj.id),
                                                 KeyAs(type, s.id))}
           roles == [i \in DOMAIN rows |-> rows[i].role]
           ids == Kept(roles, Firsts(roles, own))
<1>2. IsFiniteSet(joined)
  BY FS_Subset DEF RelationRows, Assignments, D
<1>3. own = {i \in DOMAIN rows : rows[i].subj.id = s.id}
  BY DEF SameModel, KeyAs, Text
<1>4. PreloadedRoles(rows, input.column, KeyAs(type, s.id)) = ids
  BY DEF PreloadedRoles, DistinctByKey
<1>5. SUFFICES IsInjective(ids) /\ Segments(ids) = Ids(D, RolesForSubject(D, s, t))
  BY <1>4
<1> HIDE DEF joined
<1>6. /\ IsFiniteSet(DOMAIN rows) /\ DOMAIN rows \subseteq Nat
      /\ {rows[i] : i \in DOMAIN rows} = joined
  BY <1>2, RowsListed DEF Segments
<1>7. IsFiniteSet(own) /\ own \subseteq Nat
  <2>1. own \in SUBSET DOMAIN rows
    BY <1>3
  <2> QED
    BY <1>6, <2>1, FS_Subset
<1>8. {roles[i] : i \in own} = {a.role : a \in {x \in joined : x.subj.id = s.id}}
  BY <1>3, <1>6
<1> HIDE DEF own, roles, rows
<1>9. IsInjective(ids) /\ Segments(ids) = {roles[i] : i \in own}
  BY <1>7, KeptFirsts
<1>10. {x \in joined : x.subj.id = s.id} =
         {a \in AssignedTo(D, s, t) : a.role \in Ids(D, Role)}
  <2>1. \A a \in Assignments(D) : a.subj.type = s.type /\ a.subj.id = s.id <=> a.subj = s
    <3> TAKE a \in Assignments(D)
    <3>1. a.subj \in [type : T, id : U] /\ s \in [type : T, id : U]
      BY RowShapes
    <3> QED
      BY <3>1
  <2>2. \A a \in Assignments(D) :
          a.tenant \in (IF t = Global THEN {Global} ELSE {Global, t}) <=> Visible(a.tenant, t)
    BY DEF Visible
  <2>3. \A a \in Assignments(D) : a.source \in Source
    BY RowShapes
  <2> QED
    BY <2>1, <2>2, <2>3 DEF joined, RelationRows, AssignedTo, Assignments
<1>11. ASSUME NEW a \in AssignedTo(D, s, t), a.role \in Ids(D, Role)
       PROVE  a.role \in Ids(D, RolesForSubject(D, s, t))
  <2>1. PICK x \in D : x.tab = "name" /\ x.name \in Role /\ x.id = a.role
    BY <1>11 DEF Ids
  <2>2. x.name \in RolesForSubject(D, s, t)
    BY <2>1 DEF RolesForSubject, Ids
  <2> QED
    BY <2>1, <2>2 DEF Ids
<1>12. ASSUME NEW i \in Ids(D, RolesForSubject(D, s, t))
       PROVE  \E a \in AssignedTo(D, s, t) : a.role \in Ids(D, Role) /\ i = a.role
  <2>1. PICK x \in D : x.tab = "name" /\ x.name \in RolesForSubject(D, s, t) /\ x.id = i
    BY DEF Ids
  <2>2. PICK a \in AssignedTo(D, s, t) : x.name \in Role /\ a.role \in Ids(D, {x.name})
    BY <2>1 DEF RolesForSubject
  <2>3. PICK y \in D : y.tab = "name" /\ y.name = x.name /\ y.id = a.role
    BY <2>2 DEF Ids
  <2>4. x = y
    BY <2>1, <2>3 DEF SameKey, D
  <2> QED
    BY <2>1, <2>2, <2>3, <2>4 DEF Ids
<1> QED
  BY <1>8, <1>9, <1>10, <1>11, <1>12
=============================================================================
