------------------------ MODULE PermissionCacheProofs ------------------------
(***************************************************************************)
(* Proofs about the reads that concurrent checks share, for every number   *)
(* of checks, requests, tenants, roles, permissions, writes and failures.  *)
(***************************************************************************)
EXTENDS PermissionCache, TLAPS

-----------------------------------------------------------------------------
(* The shapes of the state. *)

PromiseType == [st : {"none", "app", "store", "ok", "roles", "perms", "rejecting"},
                value : SUBSET (Role \cup Perm), reads : Nat]

(* What a check still awaits. *)
Todo == {<<"matcher">>, <<"perms", "roles">>, <<"roles", "perms">>, <<"roles">>, <<"perms">>,
         <<>>}

CheckType == [pc : {"idle", "awaiting", "answered", "failed"}, kind : {"roles", "perms"},
              home : Cache \cup {None}, cache : Cache \cup {None}, scope : Scope, todo : Todo,
              roles : SUBSET Role, perms : SUBSET Perm, from : Nat, late : BOOLEAN]

StateType == [app : [Scope -> SUBSET Role], roles : [Scope -> SUBSET Role],
              perms : [Scope -> SUBSET Perm]]

StoreTyped == State \in StateType /\ writes \in 0 .. MaxWrites /\ fails \in 0 .. MaxFail
SlotTyped == slot \in [Cache -> [Scope -> [Dim -> PromiseType]]]
CheckTyped == check \in [Check -> CheckType]
SinceTyped == since \in [Cache -> SUBSET StateType]

(* The promises ps of one tenant, in a cache of which S is the history: at   *)
(* most one read that has not failed; the matcher waits for a promise that is*)
(* there, and is made of both; each value is what some state of S held.      *)
RolesOK(p, S, s) ==
  /\ p.st \in {"none", "app", "store", "ok"}
  /\ p.reads = IF p.st = "none" THEN 0 ELSE 1
  /\ p.value \subseteq Role
  /\ p.st = "store" => \E x \in S : p.value = ContextRoles \cup x.app[s]
  /\ p.st = "ok" => \E x, y \in S : p.value = ContextRoles \cup x.app[s] \cup y.roles[s]

PermsOK(p, S, s) ==
  /\ p.st \in {"none", "store", "ok"}
  /\ p.reads = IF p.st = "none" THEN 0 ELSE 1
  /\ p.value \subseteq Perm
  /\ p.st = "ok" => \E z \in S : p.value = z.perms[s]

MatcherOK(m, r, p) ==
  /\ m.st \in {"none", "roles", "perms", "ok", "rejecting"}
  /\ m.reads = 0
  /\ m.value \subseteq Perm
  /\ m.st = "roles" => r.st # "none"
  /\ m.st = "perms" => r.st = "ok" /\ p.st # "none"
  /\ m.st = "ok" => r.st = "ok" /\ p.st = "ok" /\ m.value = p.value \cup Grants(r.value)

PromisesOK(ps, S, s) ==
  /\ RolesOK(ps["roles"], S, s)
  /\ PermsOK(ps["perms"], S, s)
  /\ MatcherOK(ps["matcher"], ps["roles"], ps["perms"])

SlotsOK == \A k \in Cache, s \in Scope : PromisesOK(slot[k][s], since[k], s)

(* Where there is a promise, somebody has asked; and a cache in use has the *)
(* present among its states.                                                *)
Asking == \A k \in Cache, s \in Scope, d \in Dim : slot[k][s][d].st # "none" => since[k] # {}
SinceOK == \A k \in Cache : since[k] # {} => State \in since[k]

(* What a check has is what its cache holds.  *)
HasRoles(me, ps) == ps["roles"].st = "ok" /\ me.roles = ps["roles"].value
HasPerms(me, ps) == ps["perms"].st = "ok" /\ me.perms = ps["perms"].value

Begun(me, ps) ==
  /\ me.cache \in Cache /\ me.home = me.cache /\ since[me.cache] # {}
  /\ me.kind = "roles" => me.todo \in {<<"roles">>, <<>>}
  /\ me.todo = <<"roles">> /\ me.kind = "perms" => HasPerms(me, ps)
  /\ me.todo = <<"perms">> => HasRoles(me, ps)
  /\ me.todo = <<"matcher">> => me.roles = {}

Complete(me, ps) ==
  /\ ps["roles"].st = "ok"
  /\ IF me.kind = "roles" THEN me.roles = ps["roles"].value
     ELSE /\ ps["perms"].st = "ok"
          /\ me.perms \cup Grants(me.roles) = ps["perms"].value \cup Grants(ps["roles"].value)

CheckOK(c) ==
  LET me == check[c]
      ps == slot[me.cache][me.scope]
  IN  /\ me.from <= fails
      /\ me.pc \in {"awaiting", "answered"} => Begun(me, ps)
      /\ me.pc = "awaiting" => me.todo # <<>>
      /\ me.pc = "awaiting" /\ me.todo = <<"matcher">> /\ ps["matcher"].st = "rejecting" =>
           me.from < fails \/ me.late
      /\ me.pc = "answered" => Complete(me, ps)
      /\ me.pc = "failed" => me.from < fails \/ me.late

CacheInv ==
  /\ StoreTyped /\ SlotTyped /\ CheckTyped /\ SinceTyped
  /\ SlotsOK /\ Asking /\ SinceOK /\ \A c \in Check : CheckOK(c)

-----------------------------------------------------------------------------

(* Sequences of one or two awaits. *)
LEMMA TodoTails ==
  /\ Tail(<<"matcher">>) = <<>> /\ Tail(<<"roles">>) = <<>> /\ Tail(<<"perms">>) = <<>>
  /\ Tail(<<"perms", "roles">>) = <<"roles">> /\ Tail(<<"roles", "perms">>) = <<"perms">>
OBVIOUS

LEMMA TodoDistinct ==
  /\ <<"matcher">> # <<>> /\ <<"roles">> # <<>> /\ <<"perms">> # <<>>
  /\ <<"perms", "roles">> # <<>> /\ <<"roles", "perms">> # <<>>
  /\ <<"perms", "roles">> # <<"roles">> /\ <<"roles", "perms">> # <<"roles">>
  /\ <<"perms", "roles">> # <<"perms">> /\ <<"roles", "perms">> # <<"perms">>
  /\ <<"matcher">> # <<"roles">> /\ <<"matcher">> # <<"perms">> /\ <<"roles">> # <<"perms">>
OBVIOUS

(* Permissions of roles are permissions. *)
LEMMA GrantsTyped == \A rs \in SUBSET Role : Grants(rs) \subseteq Perm
BY CacheAssumption DEF Grants

(* A longer history explains what a shorter one did. *)
LEMMA LongerHistory ==
  ASSUME NEW ps, NEW S, NEW T, S \subseteq T, NEW s, PromisesOK(ps, S, s)
  PROVE  PromisesOK(ps, T, s)
<1>1. RolesOK(ps["roles"], T, s)
  BY DEF PromisesOK, RolesOK
<1>2. PermsOK(ps["perms"], T, s)
  BY DEF PromisesOK, PermsOK
<1> QED
  BY <1>1, <1>2 DEF PromisesOK

(* The cache of a check that has begun, and its tenant, name a slot. *)
LEMMA SlotOfCheck ==
  ASSUME CacheInv, NEW c \in Check
  PROVE  /\ check[c].scope \in Scope /\ check[c].from \in Nat /\ check[c].todo \in Todo
         /\ check[c].pc \in {"idle", "awaiting", "answered", "failed"}
         /\ check[c].pc \in {"awaiting", "answered"} => check[c].cache \in Cache
         /\ fails \in Nat
<1>1. check[c] \in CheckType
  BY DEF CacheInv, CheckTyped
<1>2. fails \in Nat
  BY CacheAssumption DEF CacheInv, StoreTyped
<1> QED
  BY <1>1, <1>2 DEF CacheInv, CheckOK, Begun, CheckType

-----------------------------------------------------------------------------
(* What steps leave alone. *)

(* A settled read keeps its value, and no history gets shorter. *)
Lasting ==
  /\ \A k \in Cache, s \in Scope, d \in {"roles", "perms"} :
       slot[k][s][d].st = "ok" => slot'[k][s][d] = slot[k][s][d]
  /\ \A k \in Cache : since[k] \subseteq since'[k]

(* A matcher begins to reject only when a read has failed. *)
RejectsLate ==
  \/ fails' = fails + 1
  \/ /\ fails' = fails
     /\ \A k \in Cache, s \in Scope :
          slot'[k][s]["matcher"].st = "rejecting" => slot[k][s]["matcher"].st = "rejecting"

Elsewhere(k, s) ==
  \A k2 \in Cache, s2 \in Scope : k2 # k \/ s2 # s => slot'[k2][s2] = slot[k2][s2]

(* A check that a step does not touch keeps what it has. *)
LEMMA CheckStays ==
  ASSUME CacheInv, Lasting, RejectsLate, NEW c \in Check, check'[c] = check[c]
  PROVE  CheckOK(c)'
<1> DEFINE me == check[c]
           ps == slot[me.cache][me.scope]
<1>1. /\ me.scope \in Scope /\ me.from \in Nat /\ fails \in Nat
      /\ me.pc \in {"awaiting", "answered"} => me.cache \in Cache
  BY SlotOfCheck
<1>2. CheckOK(c)
  BY DEF CacheInv
<1>3. fails' \in Nat /\ fails <= fails' /\ (fails' = fails \/ fails < fails')
  BY <1>1 DEF RejectsLate
<1>4. me.from <= fails'
  BY <1>1, <1>2, <1>3 DEF CheckOK
<1>5. me.pc \in {"awaiting", "answered"} => Begun(me, ps)'
  <2> SUFFICES ASSUME me.pc \in {"awaiting", "answered"} PROVE Begun(me, ps)'
    BY DEF CheckOK
  <2>1. Begun(me, ps) /\ me.cache \in Cache
    BY <1>1, <1>2 DEF CheckOK
  <2>2. since'[me.cache] # {}
    BY <2>1 DEF Begun, Lasting
  <2>3. HasPerms(me, ps) => HasPerms(me, ps)'
    BY <1>1, <2>1 DEF HasPerms, Lasting
  <2>4. HasRoles(me, ps) => HasRoles(me, ps)'
    BY <1>1, <2>1 DEF HasRoles, Lasting
  <2> QED
    BY <2>1, <2>2, <2>3, <2>4 DEF Begun
<1>6. ASSUME me.pc = "awaiting", me.todo = <<"matcher">>, ps'["matcher"].st = "rejecting"
      PROVE  me.from < fails' \/ me.late
  BY <1>1, <1>2, <1>3, <1>6 DEF CheckOK, RejectsLate
<1>7. me.pc = "answered" => Complete(me, ps)'
  BY <1>1, <1>2 DEF CheckOK, Complete, Lasting
<1>8. me.pc = "failed" => me.from < fails' \/ me.late
  BY <1>1, <1>2, <1>3 DEF CheckOK
<1>9. me.pc = "awaiting" => me.todo # <<>>
  BY <1>2 DEF CheckOK
<1>10. me' = me
  OBVIOUS
<1> QED
  BY <1>4, <1>5, <1>6, <1>7, <1>8, <1>9, <1>10 DEF CheckOK

(* One promise changes. *)
Sets(k, s, d, q) == slot' = [slot EXCEPT ![k][s][d] = q]

LEMMA OnePromise ==
  ASSUME SlotTyped, NEW k \in Cache, NEW s \in Scope, NEW d \in Dim, NEW q \in PromiseType,
         Sets(k, s, d, q)
  PROVE  /\ Elsewhere(k, s) /\ SlotTyped'
         /\ slot'[k][s][d] = q
         /\ \A e \in Dim \ {d} : slot'[k][s][e] = slot[k][s][e]
<1> DEFINE ps == [slot[k][s] EXCEPT ![d] = q]
<1>1. slot[k][s] \in [Dim -> PromiseType] /\ slot[k] \in [Scope -> [Dim -> PromiseType]]
  BY DEF SlotTyped
<1>2. ps \in [Dim -> PromiseType] /\ ps[d] = q /\ \A e \in Dim \ {d} : ps[e] = slot[k][s][e]
  BY <1>1
<1>3. slot' = [slot EXCEPT ![k] = [slot[k] EXCEPT ![s] = ps]]
  BY DEF Sets
<1> HIDE DEF ps
<1>4. slot'[k] = [slot[k] EXCEPT ![s] = ps] /\ \A j \in Cache \ {k} : slot'[j] = slot[j]
  BY <1>3 DEF SlotTyped
<1>5. slot'[k][s] = ps /\ \A t \in Scope \ {s} : slot'[k][t] = slot[k][t]
  BY <1>1, <1>4
<1>6. SlotTyped'
  BY <1>1, <1>2, <1>3 DEF SlotTyped
<1> QED
  BY <1>2, <1>4, <1>5, <1>6 DEF Elsewhere

LEMMA ReachedTyped ==
  ASSUME NEW q \in PromiseType, NEW st \in {"store", "ok"}, NEW v \in SUBSET (Role \cup Perm)
  PROVE  /\ Reached(q, st, v) \in PromiseType
         /\ Reached(q, st, v).st = st /\ Reached(q, st, v).value = v
         /\ Reached(q, st, v).reads = q.reads
BY DEF Reached, PromiseType

(* The promises of one slot change, and the histories may grow. *)
LEMMA OneSlot ==
  ASSUME CacheInv, NEW k \in Cache, NEW s \in Scope, Elsewhere(k, s),
         \A j \in Cache : since[j] \subseteq since'[j],
         PromisesOK(slot[k][s], since[k], s)'
  PROVE  SlotsOK'
<1> SUFFICES ASSUME NEW j \in Cache, NEW t \in Scope
             PROVE  PromisesOK(slot'[j][t], since'[j], t)
  BY DEF SlotsOK
<1>1. CASE j = k /\ t = s
  BY <1>1
<1>2. CASE j # k \/ t # s
  <2>1. PromisesOK(slot[j][t], since[j], t) /\ slot'[j][t] = slot[j][t]
    BY <1>2 DEF CacheInv, SlotsOK, Elsewhere
  <2> QED
    BY <2>1, LongerHistory
<1> QED
  BY <1>1, <1>2

-----------------------------------------------------------------------------
(* Promises that settle. *)

(* No check, no history and nothing in the store changes. *)
LEMMA QuietKeeps ==
  ASSUME CacheInv, Quiet, NEW k \in Cache, NEW s \in Scope, Elsewhere(k, s), SlotTyped',
         since[k] # {},
         PromisesOK(slot[k][s], since[k], s)',
         \A d \in {"roles", "perms"} :
           slot[k][s][d].st = "ok" => slot'[k][s][d] = slot[k][s][d],
         slot'[k][s]["matcher"].st = "rejecting" => slot[k][s]["matcher"].st = "rejecting"
  PROVE  CacheInv'
<1>1. /\ UNCHANGED <<app, roles, perms, check, writes, fails, since>>
  BY DEF Quiet, store
<1>2. Lasting /\ RejectsLate
  BY <1>1 DEF Lasting, RejectsLate, Elsewhere
<1>3. StoreTyped' /\ CheckTyped' /\ SinceTyped' /\ SinceOK'
  BY <1>1 DEF CacheInv, StoreTyped, CheckTyped, SinceTyped, SinceOK, State
<1>4. SlotsOK' /\ Asking'
  BY <1>1, OneSlot DEF CacheInv, Asking, Elsewhere
<1>5. \A c \in Check : CheckOK(c)'
  BY <1>1, <1>2, CheckStays
<1> QED
  BY <1>3, <1>4, <1>5 DEF CacheInv

(* The state is part of the history of a cache in use. *)
LEMMA Present ==
  ASSUME CacheInv, NEW k \in Cache, since[k] # {}
  PROVE  /\ State \in since[k]
         /\ State.app = app /\ State.roles = roles /\ State.perms = perms
BY DEF CacheInv, SinceOK, State

LEMMA ReadAppKeeps ==
  ASSUME CacheInv, NEW k \in Cache, NEW s \in Scope, ReadApp(k, s)
  PROVE  CacheInv'
<1> DEFINE ps == slot[k][s]
           v == ContextRoles \cup app[s]
<1>1. SlotTyped /\ PromisesOK(ps, since[k], s) /\ ps["roles"].st = "app" /\ Quiet
  BY DEF CacheInv, SlotsOK, ReadApp
<1>2. v \subseteq Role
  BY CacheAssumption DEF CacheInv, StoreTyped, State, StateType
<1>3. /\ Elsewhere(k, s) /\ SlotTyped' /\ since[k] # {}
      /\ slot'[k][s]["roles"].st = "store" /\ slot'[k][s]["roles"].value = v
      /\ slot'[k][s]["roles"].reads = ps["roles"].reads
      /\ slot'[k][s]["perms"] = ps["perms"] /\ slot'[k][s]["matcher"] = ps["matcher"]
  <2> DEFINE q == Reached(ps["roles"], "store", v)
  <2>1. ps["roles"] \in PromiseType
    BY <1>1 DEF SlotTyped, Dim
  <2>2. /\ q \in PromiseType /\ q.st = "store" /\ q.value = v
        /\ q.reads = ps["roles"].reads
    BY <1>2, <2>1, ReachedTyped
  <2>3. Sets(k, s, "roles", q)
    BY DEF ReadApp, Sets
  <2>4. since[k] # {}
    BY <1>1 DEF CacheInv, Asking, Dim
  <2> HIDE DEF q
  <2>5. "roles" \in Dim /\ {"perms", "matcher"} = Dim \ {"roles"}
    BY DEF Dim
  <2>6. /\ Elsewhere(k, s) /\ SlotTyped' /\ slot'[k][s]["roles"] = q
        /\ \A e \in Dim \ {"roles"} : slot'[k][s][e] = ps[e]
    BY <1>1, <2>2, <2>3, <2>5, OnePromise
  <2> QED
    BY <2>2, <2>4, <2>5, <2>6
<1>4. \E x \in since[k] : v = ContextRoles \cup x.app[s]
  BY <1>1, Present DEF CacheInv, Asking, Dim
<1>5. RolesOK(slot'[k][s]["roles"], since[k], s)
  BY <1>1, <1>2, <1>3, <1>4 DEF PromisesOK, RolesOK
<1>6. PromisesOK(slot'[k][s], since'[k], s)
  BY <1>1, <1>3, <1>5 DEF PromisesOK, MatcherOK, RolesOK, Quiet
<1> QED
  BY <1>1, <1>3, <1>6, QuietKeeps

LEMMA ReadRolesKeeps ==
  ASSUME CacheInv, NEW k \in Cache, NEW s \in Scope, ReadRoles(k, s)
  PROVE  CacheInv'
<1> DEFINE ps == slot[k][s]
           v == ps["roles"].value \cup roles[s]
<1>1. SlotTyped /\ PromisesOK(ps, since[k], s) /\ ps["roles"].st = "store" /\ Quiet
  BY DEF CacheInv, SlotsOK, ReadRoles
<1>2. v \subseteq Role
  BY <1>1 DEF CacheInv, StoreTyped, State, StateType, PromisesOK, RolesOK
<1>3. /\ Elsewhere(k, s) /\ SlotTyped' /\ since[k] # {}
      /\ slot'[k][s]["roles"].st = "ok" /\ slot'[k][s]["roles"].value = v
      /\ slot'[k][s]["roles"].reads = ps["roles"].reads
      /\ slot'[k][s]["perms"] = ps["perms"] /\ slot'[k][s]["matcher"] = ps["matcher"]
  <2> DEFINE q == Reached(ps["roles"], "ok", v)
  <2>1. ps["roles"] \in PromiseType
    BY <1>1 DEF SlotTyped, Dim
  <2>2. /\ q \in PromiseType /\ q.st = "ok" /\ q.value = v
        /\ q.reads = ps["roles"].reads
    BY <1>2, <2>1, ReachedTyped
  <2>3. Sets(k, s, "roles", q)
    BY DEF ReadRoles, Sets
  <2>4. since[k] # {}
    BY <1>1 DEF CacheInv, Asking, Dim
  <2> HIDE DEF q
  <2>5. "roles" \in Dim /\ {"perms", "matcher"} = Dim \ {"roles"}
    BY DEF Dim
  <2>6. /\ Elsewhere(k, s) /\ SlotTyped' /\ slot'[k][s]["roles"] = q
        /\ \A e \in Dim \ {"roles"} : slot'[k][s][e] = ps[e]
    BY <1>1, <2>2, <2>3, <2>5, OnePromise
  <2> QED
    BY <2>2, <2>4, <2>5, <2>6
<1>4. \E x, y \in since[k] : v = ContextRoles \cup x.app[s] \cup y.roles[s]
  <2>1. PICK x \in since[k] : ps["roles"].value = ContextRoles \cup x.app[s]
    BY <1>1 DEF PromisesOK, RolesOK
  <2>2. State \in since[k] /\ State.roles = roles
    BY <1>1, Present DEF CacheInv, Asking, Dim
  <2>3. v = ContextRoles \cup x.app[s] \cup State.roles[s]
    BY <2>1, <2>2
  <2> QED
    BY <2>2, <2>3
<1>5. RolesOK(slot'[k][s]["roles"], since[k], s)
  BY <1>1, <1>2, <1>3, <1>4 DEF PromisesOK, RolesOK
<1>6. PromisesOK(slot'[k][s], since'[k], s)
  BY <1>1, <1>3, <1>5 DEF PromisesOK, MatcherOK, RolesOK, Quiet
<1> QED
  BY <1>1, <1>3, <1>6, QuietKeeps

LEMMA ReadPermsKeeps ==
  ASSUME CacheInv, NEW k \in Cache, NEW s \in Scope, ReadPerms(k, s)
  PROVE  CacheInv'
<1> DEFINE ps == slot[k][s]
<1>1. SlotTyped /\ PromisesOK(ps, since[k], s) /\ ps["perms"].st = "store" /\ Quiet
  BY DEF CacheInv, SlotsOK, ReadPerms
<1>2. perms[s] \subseteq Perm
  BY <1>1 DEF CacheInv, StoreTyped, State, StateType
<1>3. /\ Elsewhere(k, s) /\ SlotTyped' /\ since[k] # {}
      /\ slot'[k][s]["perms"].st = "ok" /\ slot'[k][s]["perms"].value = perms[s]
      /\ slot'[k][s]["perms"].reads = ps["perms"].reads
      /\ slot'[k][s]["roles"] = ps["roles"] /\ slot'[k][s]["matcher"] = ps["matcher"]
  <2> DEFINE q == Reached(ps["perms"], "ok", perms[s])
  <2>1. ps["perms"] \in PromiseType
    BY <1>1 DEF SlotTyped, Dim
  <2>2. /\ q \in PromiseType /\ q.st = "ok" /\ q.value = perms[s]
        /\ q.reads = ps["perms"].reads
    BY <1>2, <2>1, ReachedTyped
  <2>3. Sets(k, s, "perms", q)
    BY DEF ReadPerms, Sets
  <2>4. since[k] # {}
    BY <1>1 DEF CacheInv, Asking, Dim
  <2> HIDE DEF q
  <2>5. "perms" \in Dim /\ {"roles", "matcher"} = Dim \ {"perms"}
    BY DEF Dim
  <2>6. /\ Elsewhere(k, s) /\ SlotTyped' /\ slot'[k][s]["perms"] = q
        /\ \A e \in Dim \ {"perms"} : slot'[k][s][e] = ps[e]
    BY <1>1, <2>2, <2>3, <2>5, OnePromise
  <2> QED
    BY <2>2, <2>4, <2>5, <2>6
<1>4. \E z \in since[k] : perms[s] = z.perms[s]
  BY <1>1, Present DEF CacheInv, Asking, Dim
<1>5. PermsOK(slot'[k][s]["perms"], since[k], s)
  BY <1>1, <1>2, <1>3, <1>4 DEF PromisesOK, PermsOK
<1>6. PromisesOK(slot'[k][s], since'[k], s)
  BY <1>1, <1>3, <1>5 DEF PromisesOK, MatcherOK, PermsOK, Quiet
<1> QED
  BY <1>1, <1>3, <1>6, QuietKeeps

-----------------------------------------------------------------------------
(* Asking for a promise. *)

PromisesTyped(ps) == ps \in [Dim -> PromiseType]

(* Of the promises ps, those that are settled are so in qs. *)
KeepsSettled(ps, qs) ==
  /\ \A d \in {"roles", "perms"} : ps[d].st = "ok" => qs[d] = ps[d]
  /\ qs["matcher"].st = "rejecting" => ps["matcher"].st = "rejecting"

Reading(p, st) == [p EXCEPT !.st = st, !.reads = @ + 1]

LEMMA ReadingTyped ==
  ASSUME NEW p \in PromiseType, NEW st \in {"app", "store"}
  PROVE  /\ Reading(p, st) \in PromiseType /\ Reading(p, st).st = st
         /\ Reading(p, st).reads = p.reads + 1 /\ Reading(p, st).value = p.value
<1>1. p.reads + 1 \in Nat /\ p.value \in SUBSET (Role \cup Perm)
  BY DEF PromiseType
<1> QED
  BY <1>1 DEF PromiseType, Reading

LEMMA AskedReadDoes ==
  ASSUME NEW ps, PromisesTyped(ps), NEW d \in {"roles", "perms"}
  PROVE  /\ PromisesTyped(AskedRead(ps, d))
         /\ \A e \in Dim \ {d} : AskedRead(ps, d)[e] = ps[e]
         /\ ps[d].st # "none" => AskedRead(ps, d) = ps
         /\ ps[d].st = "none" =>
              /\ AskedRead(ps, d)[d].st = IF d = "roles" THEN "app" ELSE "store"
              /\ AskedRead(ps, d)[d].reads = ps[d].reads + 1
              /\ AskedRead(ps, d)[d].value = ps[d].value
<1>1. d \in Dim
  BY DEF Dim
<1>2. CASE ps[d].st # "none"
  BY <1>1, <1>2 DEF AskedRead, NeedsRead
<1>3. CASE ps[d].st = "none"
  <2> DEFINE st == IF d = "roles" THEN "app" ELSE "store"
             q == Reading(ps[d], st)
  <2>1. ps[d] \in PromiseType
    BY <1>1 DEF PromisesTyped
  <2>2. q \in PromiseType /\ q.st = st /\ q.reads = ps[d].reads + 1 /\ q.value = ps[d].value
    BY <2>1, ReadingTyped
  <2>3. AskedRead(ps, d) = [ps EXCEPT ![d] = q]
    BY <1>3 DEF AskedRead, NeedsRead, Reading
  <2> HIDE DEF q
  <2>4. /\ AskedRead(ps, d)[d] = q /\ PromisesTyped(AskedRead(ps, d))
        /\ \A e \in Dim \ {d} : AskedRead(ps, d)[e] = ps[e]
    BY <1>1, <2>2, <2>3 DEF PromisesTyped
  <2> QED
    BY <1>3, <2>2, <2>4
<1> QED
  BY <1>2, <1>3

LEMMA AskedReadKeeps ==
  ASSUME NEW ps, PromisesTyped(ps), NEW S, NEW s, PromisesOK(ps, S, s),
         NEW d \in {"roles", "perms"}
  PROVE  /\ PromisesOK(AskedRead(ps, d), S, s)
         /\ KeepsSettled(ps, AskedRead(ps, d))
         /\ AskedRead(ps, d)["matcher"] = ps["matcher"]
         /\ AskedRead(ps, d)[d].st # "none"
<1> DEFINE qs == AskedRead(ps, d)
<1>1. /\ \A e \in Dim \ {d} : qs[e] = ps[e]
      /\ ps[d].st # "none" => qs = ps
      /\ ps[d].st = "none" => /\ qs[d].st = IF d = "roles" THEN "app" ELSE "store"
                              /\ qs[d].reads = ps[d].reads + 1
                              /\ qs[d].value = ps[d].value
  BY AskedReadDoes
<1> HIDE DEF qs
<1>2. qs["matcher"] = ps["matcher"]
  BY <1>1 DEF Dim
<1>3. d = "roles" => qs["perms"] = ps["perms"]
  BY <1>1 DEF Dim
<1>4. d = "perms" => qs["roles"] = ps["roles"]
  BY <1>1 DEF Dim
<1>5. RolesOK(qs["roles"], S, s)
  BY <1>1, <1>4 DEF PromisesOK, RolesOK
<1>6. PermsOK(qs["perms"], S, s)
  BY <1>1, <1>3 DEF PromisesOK, PermsOK
<1>7. KeepsSettled(ps, qs) /\ qs[d].st # "none"
  BY <1>1, <1>2, <1>3, <1>4 DEF KeepsSettled
<1>8. MatcherOK(qs["matcher"], qs["roles"], qs["perms"])
  BY <1>1, <1>2, <1>3, <1>4, <1>7 DEF PromisesOK, MatcherOK
<1> QED
  BY <1>2, <1>5, <1>6, <1>7, <1>8 DEF PromisesOK, qs

(* The matcher goes to st when what it waits for there is asked for. *)
Moved(ps, st) == [ps EXCEPT !["matcher"].st = st]

LEMMA MatcherMoves ==
  ASSUME NEW ps, PromisesTyped(ps), NEW S, NEW s, PromisesOK(ps, S, s),
         NEW st \in {"roles", "perms"}, ps[st].st # "none",
         st = "perms" => ps["roles"].st = "ok"
  PROVE  /\ PromisesTyped(Moved(ps, st)) /\ PromisesOK(Moved(ps, st), S, s)
         /\ KeepsSettled(ps, Moved(ps, st))
<1> DEFINE m == [ps["matcher"] EXCEPT !.st = st]
           qs == [ps EXCEPT !["matcher"] = m]
<1>1. ps["matcher"] \in PromiseType /\ "matcher" \in Dim /\ {"roles", "perms"} \subseteq Dim
  BY DEF PromisesTyped, Dim
<1>2. /\ m \in PromiseType /\ m.st = st
      /\ m.value = ps["matcher"].value /\ m.reads = ps["matcher"].reads
  BY <1>1 DEF PromiseType
<1> HIDE DEF m
<1>3. PromisesTyped(qs) /\ qs["matcher"] = m /\ \A d \in {"roles", "perms"} : qs[d] = ps[d]
  BY <1>1, <1>2 DEF PromisesTyped
<1> HIDE DEF qs
<1>4. PromisesOK(qs, S, s) /\ KeepsSettled(ps, qs)
  BY <1>2, <1>3 DEF PromisesOK, MatcherOK, KeepsSettled
<1> QED
  BY <1>3, <1>4 DEF Moved, qs, m

LEMMA AskedKeeps ==
  ASSUME NEW ps, PromisesTyped(ps), NEW S, NEW s, PromisesOK(ps, S, s), NEW d \in Dim
  PROVE  /\ PromisesTyped(Asked(ps, d)) /\ PromisesOK(Asked(ps, d), S, s)
         /\ KeepsSettled(ps, Asked(ps, d))
<1>1. CASE d # "matcher"
  BY <1>1, AskedReadDoes, AskedReadKeeps DEF Asked, Dim
<1>2. CASE d = "matcher" /\ ps["matcher"].st = "none"
  <2> DEFINE qs == AskedRead(ps, "roles")
  <2>1. /\ PromisesTyped(qs) /\ PromisesOK(qs, S, s) /\ KeepsSettled(ps, qs)
        /\ qs["roles"].st # "none"
    BY AskedReadDoes, AskedReadKeeps
  <2>2. Asked(ps, d) = Moved(qs, "roles")
    BY <1>2 DEF Asked, Moved
  <2> HIDE DEF qs
  <2>3. /\ PromisesTyped(Asked(ps, d)) /\ PromisesOK(Asked(ps, d), S, s)
        /\ KeepsSettled(qs, Asked(ps, d))
    BY <2>1, <2>2, MatcherMoves
  <2> QED
    BY <2>1, <2>3 DEF KeepsSettled
<1>3. CASE d = "matcher" /\ ps["matcher"].st # "none"
  BY <1>3 DEF Asked, KeepsSettled
<1> QED
  BY <1>1, <1>2, <1>3

(* The promises of one slot are replaced by others. *)
Refills(k, s, qs) == slot' = [slot EXCEPT ![k][s] = qs]

LEMMA OneRefill ==
  ASSUME SlotTyped, NEW k \in Cache, NEW s \in Scope, NEW qs, PromisesTyped(qs),
         Refills(k, s, qs)
  PROVE  Elsewhere(k, s) /\ SlotTyped' /\ slot'[k][s] = qs
BY DEF SlotTyped, Refills, PromisesTyped, Elsewhere

LEMMA SlotFacts ==
  ASSUME CacheInv, NEW k \in Cache, NEW s \in Scope
  PROVE  PromisesTyped(slot[k][s]) /\ PromisesOK(slot[k][s], since[k], s) /\ SlotTyped
BY DEF CacheInv, SlotsOK, SlotTyped, PromisesTyped

LEMMA SettledLast ==
  ASSUME NEW k \in Cache, NEW s \in Scope, Elsewhere(k, s),
         KeepsSettled(slot[k][s], slot'[k][s]), \A j \in Cache : since[j] \subseteq since'[j]
  PROVE  Lasting /\ (fails' = fails => RejectsLate)
BY DEF Elsewhere, KeepsSettled, Lasting, RejectsLate

LEMMA MatcherGoesOnKeeps ==
  ASSUME CacheInv, NEW k \in Cache, NEW s \in Scope, MatcherGoesOn(k, s)
  PROVE  CacheInv'
<1> DEFINE ps == slot[k][s]
<1>1. PromisesTyped(ps) /\ PromisesOK(ps, since[k], s) /\ SlotTyped /\ Quiet
  BY SlotFacts DEF MatcherGoesOn
<1>2. since[k] # {}
  BY DEF CacheInv, Asking, Dim, MatcherGoesOn
<1>3. UNCHANGED since
  BY <1>1 DEF Quiet
<1>4. CASE /\ ps["matcher"].st = "roles" /\ ps["roles"].st = "ok"
           /\ Refills(k, s, Moved(AskedRead(ps, "perms"), "perms"))
  <2> DEFINE rs == AskedRead(ps, "perms")
             qs == Moved(rs, "perms")
  <2>1. /\ PromisesTyped(rs) /\ PromisesOK(rs, since[k], s) /\ KeepsSettled(ps, rs)
        /\ rs["perms"].st # "none" /\ rs["roles"] = ps["roles"]
    BY <1>1, AskedReadDoes, AskedReadKeeps DEF Dim
  <2> HIDE DEF rs
  <2>2. PromisesTyped(qs) /\ PromisesOK(qs, since[k], s) /\ KeepsSettled(rs, qs)
    BY <1>4, <2>1, MatcherMoves
  <2>3. KeepsSettled(ps, qs)
    BY <2>1, <2>2 DEF KeepsSettled
  <2>4. Refills(k, s, qs)
    BY <1>4 DEF rs
  <2> HIDE DEF qs
  <2>5. Elsewhere(k, s) /\ SlotTyped' /\ slot'[k][s] = qs
    BY <1>1, <2>2, <2>4, OneRefill
  <2> QED
    BY <1>1, <1>2, <1>3, <2>2, <2>3, <2>5, QuietKeeps DEF KeepsSettled
<1>5. CASE /\ ps["matcher"].st = "perms" /\ ps["perms"].st = "ok"
           /\ Sets(k, s, "matcher", Reached(ps["matcher"], "ok",
                                      ps["perms"].value \cup Grants(ps["roles"].value)))
  <2> DEFINE v == ps["perms"].value \cup Grants(ps["roles"].value)
             q == Reached(ps["matcher"], "ok", v)
  <2>1. /\ RolesOK(ps["roles"], since[k], s) /\ PermsOK(ps["perms"], since[k], s)
        /\ MatcherOK(ps["matcher"], ps["roles"], ps["perms"])
    BY <1>1 DEF PromisesOK
  <2>2. v \subseteq Perm /\ ps["roles"].st = "ok" /\ ps["matcher"].reads = 0
    BY <1>5, <2>1, GrantsTyped DEF RolesOK, PermsOK, MatcherOK
  <2>3. ps["matcher"] \in PromiseType /\ "matcher" \in Dim
    BY <1>1 DEF PromisesTyped, Dim
  <2>4. q \in PromiseType /\ q.st = "ok" /\ q.value = v /\ q.reads = 0
    BY <2>2, <2>3, ReachedTyped
  <2>5. Sets(k, s, "matcher", q)
    BY <1>5
  <2> HIDE DEF q
  <2>6. /\ Elsewhere(k, s) /\ SlotTyped' /\ slot'[k][s]["matcher"] = q
        /\ \A e \in Dim \ {"matcher"} : slot'[k][s][e] = ps[e]
    BY <1>1, <2>3, <2>4, <2>5, OnePromise
  <2>7. slot'[k][s]["roles"] = ps["roles"] /\ slot'[k][s]["perms"] = ps["perms"]
    BY <2>6 DEF Dim
  <2>8. PromisesOK(slot'[k][s], since'[k], s)
    BY <1>3, <1>5, <2>1, <2>2, <2>4, <2>6, <2>7 DEF PromisesOK, MatcherOK
  <2> QED
    BY <1>1, <1>2, <2>4, <2>6, <2>7, <2>8, QuietKeeps
<1> QED
  BY <1>4, <1>5 DEF MatcherGoesOn, Refills, Sets, Moved

-----------------------------------------------------------------------------
(* Reads that fail. *)

LEMMA WaitersFail ==
  ASSUME CacheInv, NEW k, NEW s, NEW d, FailWaiting(k, s, d)
  PROVE  /\ CheckTyped'
         /\ \A c \in Check :
              \/ check'[c] = check[c]
              \/ /\ check[c].pc = "awaiting" /\ check[c].todo[1] = d
                 /\ check[c].cache = k /\ check[c].scope = s
                 /\ check'[c] = [check[c] EXCEPT !.pc = "failed"]
BY DEF FailWaiting, CacheInv, CheckTyped, CheckType

LEMMA FailedIsOK ==
  ASSUME CacheInv, NEW c \in Check, check'[c] = [check[c] EXCEPT !.pc = "failed"],
         fails' \in {fails, fails + 1}, check[c].from < fails' \/ check[c].late
  PROVE  CheckOK(c)'
<1>1. check[c] \in CheckType /\ fails \in Nat /\ check[c].from <= fails
  BY SlotOfCheck DEF CacheInv, CheckTyped, CheckOK
<1>2. /\ check'[c].pc = "failed" /\ check'[c].from = check[c].from
      /\ check'[c].late = check[c].late
  BY <1>1 DEF CheckType
<1>3. check'[c].from <= fails'
  BY <1>1, <1>2 DEF CheckType
<1> QED
  BY <1>2, <1>3 DEF CheckOK

(* A promise is dropped, and whoever awaits it fails. *)
LEMMA DropKeeps ==
  ASSUME CacheInv, NEW k \in Cache, NEW s \in Scope, NEW d \in Dim, FailWaiting(k, s, d),
         UNCHANGED <<store, writes, since>>, fails' \in {fails, fails + 1},
         fails' \in 0 .. MaxFail, NEW qs, PromisesTyped(qs), PromisesOK(qs, since[k], s),
         KeepsSettled(slot[k][s], qs) \/ fails' = fails + 1,
         \A e \in {"roles", "perms"} : slot[k][s][e].st = "ok" => qs[e] = slot[k][s][e],
         slot[k][s][d].st # "none", Refills(k, s, qs),
         \A c \in Check :
           /\ check[c].pc = "awaiting" /\ check[c].todo[1] = d
           /\ check[c].cache = k /\ check[c].scope = s
           => check[c].from < fails' \/ check[c].late
  PROVE  CacheInv'
<1>1. Elsewhere(k, s) /\ SlotTyped' /\ slot'[k][s] = qs /\ UNCHANGED since
  BY SlotFacts, OneRefill
<1>2. Lasting /\ RejectsLate
  BY <1>1 DEF Elsewhere, KeepsSettled, Lasting, RejectsLate
<1>3. SlotsOK'
  BY <1>1, OneSlot
<1>4. StoreTyped' /\ SinceTyped' /\ SinceOK'
  BY DEF CacheInv, StoreTyped, SinceTyped, SinceOK, State, store
<1>5. Asking'
  BY <1>1 DEF CacheInv, Asking, Elsewhere
<1>6. CheckTyped'
  BY WaitersFail
<1>7. ASSUME NEW c \in Check PROVE CheckOK(c)'
  <2>1. CASE check'[c] = check[c]
    BY <1>2, <2>1, CheckStays
  <2>2. CASE /\ check[c].pc = "awaiting" /\ check[c].todo[1] = d
             /\ check[c].cache = k /\ check[c].scope = s
             /\ check'[c] = [check[c] EXCEPT !.pc = "failed"]
    <3>1. check[c].from < fails' \/ check[c].late
      BY <2>2
    <3> QED
      BY <2>2, <3>1, FailedIsOK
  <2> QED
    BY <2>1, <2>2, WaitersFail
<1> QED
  BY <1>1, <1>3, <1>4, <1>5, <1>6, <1>7 DEF CacheInv

LEMMA NoPromiseTyped ==
  /\ NoPromise \in PromiseType
  /\ NoPromise.st = "none" /\ NoPromise.value = {} /\ NoPromise.reads = 0
BY DEF NoPromise, PromiseType

LEMMA MatcherRejectsKeeps ==
  ASSUME CacheInv, NEW k \in Cache, NEW s \in Scope, MatcherRejects(k, s)
  PROVE  CacheInv'
<1> DEFINE ps == slot[k][s]
           qs == [ps EXCEPT !["matcher"] = NoPromise]
<1>1. PromisesTyped(ps) /\ PromisesOK(ps, since[k], s) /\ "matcher" \in Dim
  BY SlotFacts DEF Dim
<1>2. /\ FailWaiting(k, s, "matcher") /\ ps["matcher"].st = "rejecting"
      /\ Refills(k, s, qs) /\ UNCHANGED <<store, writes, since>> /\ fails' = fails
  BY DEF MatcherRejects, Dropped, Refills
<1>3. /\ PromisesTyped(qs) /\ qs["matcher"] = NoPromise
      /\ qs["roles"] = ps["roles"] /\ qs["perms"] = ps["perms"]
  BY <1>1, NoPromiseTyped DEF PromisesTyped, Dim
<1> HIDE DEF qs
<1>4. PromisesOK(qs, since[k], s) /\ KeepsSettled(ps, qs)
  BY <1>1, <1>3, NoPromiseTyped DEF PromisesOK, MatcherOK, KeepsSettled
<1>5. ASSUME NEW c \in Check, check[c].pc = "awaiting", check[c].todo[1] = "matcher",
             check[c].cache = k, check[c].scope = s
      PROVE  check[c].from < fails' \/ check[c].late
  <2>1. check[c].todo = <<"matcher">>
    <3>1. check[c].todo \in Todo /\ check[c].todo # <<>>
      BY <1>5, SlotOfCheck DEF CacheInv, CheckOK
    <3> QED
      BY <1>5, <3>1 DEF Todo
  <2> QED
    BY <1>2, <1>5, <2>1 DEF CacheInv, CheckOK
<1>6. fails' \in {fails, fails + 1} /\ fails' \in 0 .. MaxFail
  BY <1>2 DEF CacheInv, StoreTyped
<1>7. \A e \in {"roles", "perms"} : ps[e].st = "ok" => qs[e] = ps[e]
  BY <1>3
<1> QED
  BY <1>1, <1>2, <1>3, <1>4, <1>5, <1>6, <1>7, DropKeeps

LEMMA ReadFailsKeeps ==
  ASSUME CacheInv, NEW k \in Cache, NEW s \in Scope, NEW d \in {"roles", "perms"},
         ReadFails(k, s, d)
  PROVE  CacheInv'
<1> DEFINE ps == slot[k][s]
           m == MatcherTold(ps["matcher"], d)
           rs == [ps EXCEPT ![d] = NoPromise]
           qs == [rs EXCEPT !["matcher"] = m]
<1>1. /\ PromisesTyped(ps) /\ PromisesOK(ps, since[k], s)
      /\ "matcher" \in Dim /\ d \in Dim /\ d # "matcher"
  BY SlotFacts DEF Dim
<1>2. ps["matcher"] \in PromiseType /\ ps[d] \in PromiseType
  BY <1>1 DEF PromisesTyped
<1>3. rs["matcher"] = ps["matcher"]
  BY <1>1 DEF PromisesTyped
<1>4. /\ FailWaiting(k, s, d) /\ ps[d].st \in {"app", "store"}
      /\ UNCHANGED <<store, writes, since>> /\ fails' = fails + 1 /\ fails < MaxFail
  BY DEF ReadFails
<1>5. Refills(k, s, qs)
  BY <1>3 DEF ReadFails, Dropped, Refills
<1>6. /\ m \in PromiseType /\ m.value = ps["matcher"].value /\ m.reads = ps["matcher"].reads
      /\ m.st = IF ps["matcher"].st = d THEN "rejecting" ELSE ps["matcher"].st
  BY <1>2 DEF MatcherTold, PromiseType
<1> HIDE DEF m
<1>7. PromisesTyped(rs) /\ rs[d] = NoPromise /\ \A e \in Dim \ {d} : rs[e] = ps[e]
  BY <1>1, NoPromiseTyped DEF PromisesTyped
<1> HIDE DEF rs
<1>8. PromisesTyped(qs) /\ qs["matcher"] = m /\ \A e \in Dim \ {"matcher"} : qs[e] = rs[e]
  BY <1>1, <1>6, <1>7 DEF PromisesTyped
<1> HIDE DEF qs
<1>9. qs[d] = NoPromise /\ \A e \in {"roles", "perms"} \ {d} : qs[e] = ps[e]
  BY <1>7, <1>8 DEF Dim
<1>10. PromisesOK(qs, since[k], s)
  BY <1>1, <1>4, <1>6, <1>8, <1>9, NoPromiseTyped DEF PromisesOK, RolesOK, PermsOK, MatcherOK
<1>11. \A e \in {"roles", "perms"} : ps[e].st = "ok" => qs[e] = ps[e]
  BY <1>4, <1>9
<1>12. \A c \in Check : check[c].from < fails'
  <2> TAKE c \in Check
  <2>1. check[c].from \in Nat /\ fails \in Nat /\ check[c].from <= fails
    BY SlotOfCheck DEF CacheInv, CheckOK
  <2> QED
    BY <1>4, <2>1
<1>13. fails' \in {fails, fails + 1} /\ fails' \in 0 .. MaxFail
  BY <1>4, CacheAssumption DEF CacheInv, StoreTyped
<1> QED
  BY <1>1, <1>4, <1>5, <1>8, <1>10, <1>11, <1>12, <1>13, DropKeeps

-----------------------------------------------------------------------------
(* Checks that ask. *)

LEMMA GrantsNone == Grants({}) = {}
BY DEF Grants

(* The tenant a check is about is one there is. *)
LEMMA ScopeOfStart ==
  ASSUME NEW given \in Given, NEW q \in Request \cup {None}
  PROVE  CurrentScope(given, q) \in Scope
<1> DEFINE context == IF q = None THEN Unset ELSE ContextTenant[q]
           said == IF given # Unset THEN given
                   ELSE IF ResolvedTenant # Unset THEN ResolvedTenant ELSE context
           first == CHOOSE t \in {given, ResolvedTenant, context} : t = said
<1>1. context \in Scope \cup {Unset} /\ {given, ResolvedTenant} \subseteq Scope \cup {Unset}
  BY CacheAssumption DEF Scope
<1>2. said \in {given, ResolvedTenant, context}
  OBVIOUS
<1>3. first = said
  <2> HIDE DEF said
  <2> QED
    BY <1>2
<1>4. None \in Scope
  BY DEF Scope
<1>5. CurrentScope(given, q) = IF first = Unset THEN None ELSE first
  BY DEF CurrentScope
<1> QED
  BY <1>1, <1>3, <1>4, <1>5

LEMMA AwaitsTodo ==
  ASSUME NEW op \in Op, NEW q
  PROVE  /\ Awaits(op, q) \in Todo \ {<<>>, <<"perms">>} /\ Awaits(op, q)[1] \in Dim
         /\ Awaits(op, q) = <<"roles">> <=> op = "hasRole"
<1>1. Awaits(op, q) \in {<<"roles">>, <<"perms", "roles">>, <<"roles", "perms">>, <<"matcher">>}
  BY DEF Awaits, Op
<1>2. Awaits(op, q) = <<"roles">> <=> op = "hasRole"
  BY TodoDistinct DEF Awaits, Op
<1> QED
  BY <1>1, <1>2, TodoDistinct DEF Todo, Dim

(* A check asks a cache for a promise, and is as me then. *)
LEMMA AsksKeeps ==
  ASSUME CacheInv, NEW c \in Check, NEW k \in Cache, NEW s \in Scope, NEW qs,
         PromisesTyped(qs), PromisesOK(qs, since[k], s), KeepsSettled(slot[k][s], qs),
         Refills(k, s, qs), UNCHANGED <<store, writes, fails>>,
         SinceTyped', SinceOK', \A j \in Cache : since[j] \subseteq since'[j], since'[k] # {},
         NEW me \in CheckType, check' = [check EXCEPT ![c] = me], CheckOK(c)'
  PROVE  CacheInv'
<1>1. Elsewhere(k, s) /\ SlotTyped' /\ slot'[k][s] = qs
  BY SlotFacts, OneRefill
<1>2. Lasting /\ RejectsLate
  BY <1>1, SettledLast
<1>3. SlotsOK'
  BY <1>1, OneSlot, LongerHistory
<1>4. StoreTyped'
  BY DEF CacheInv, StoreTyped, State, store
<1>5. Asking'
  BY <1>1 DEF CacheInv, Asking, Elsewhere
<1>6. CheckTyped' /\ \A e \in Check \ {c} : check'[e] = check[e]
  BY DEF CacheInv, CheckTyped
<1>7. ASSUME NEW e \in Check PROVE CheckOK(e)'
  BY <1>2, <1>6, CheckStays
<1> QED
  BY <1>1, <1>3, <1>4, <1>5, <1>6, <1>7 DEF CacheInv

(* A check that has just begun. *)
Begins(k, s, kind, todo, late) ==
  [Idle EXCEPT !.pc = "awaiting", !.home = k, !.cache = k, !.scope = s, !.kind = kind,
               !.todo = todo, !.from = fails, !.late = late]

LEMMA BeginsTyped ==
  ASSUME NEW k \in Cache, NEW s \in Scope, NEW kind \in {"roles", "perms"}, NEW todo \in Todo,
         NEW late \in BOOLEAN, fails \in Nat
  PROVE  LET me == Begins(k, s, kind, todo, late) IN
         /\ me \in CheckType
         /\ me.pc = "awaiting" /\ me.home = k /\ me.cache = k /\ me.scope = s
         /\ me.kind = kind /\ me.todo = todo /\ me.roles = {} /\ me.from = fails
         /\ me.late = late
BY DEF Begins, Idle, CheckType

LEMMA StartKeeps ==
  ASSUME CacheInv, NEW c \in Check, NEW q \in Request \cup {None}, NEW op \in Op,
         NEW given \in Given, Start(c, q, op, given)
  PROVE  CacheInv'
<1> DEFINE k == RequestCache(c, q)
           s == CurrentScope(given, q)
           todo == Awaits(op, q)
           ps == slot[k][s]
           qs == Asked(ps, todo[1])
           late == ps["matcher"].st = "rejecting"
           me == Begins(k, s, IF op = "hasRole" THEN "roles" ELSE "perms", todo, late)
<1>1. k \in Cache /\ k = IF q = None THEN c ELSE q
  BY DEF RequestCache, Cache
<1>2. s \in Scope
  BY ScopeOfStart
<1>3. /\ todo \in Todo /\ todo # <<>> /\ todo # <<"perms">> /\ todo[1] \in Dim
      /\ todo = <<"roles">> <=> op = "hasRole"
  BY AwaitsTodo
<1>4. /\ check' = [check EXCEPT ![c] = me] /\ Refills(k, s, qs)
      /\ since' = [since EXCEPT ![k] = @ \cup {State}] /\ UNCHANGED <<store, writes, fails>>
  BY <1>1 DEF Start, Refills, Begins
<1> HIDE DEF k, s, todo
<1>5. fails \in Nat /\ State \in StateType /\ UNCHANGED State
  BY <1>4, CacheAssumption DEF CacheInv, StoreTyped, State, store
<1>6. PromisesTyped(ps) /\ PromisesOK(ps, since[k], s)
  BY <1>1, <1>2, SlotFacts
<1>7. PromisesTyped(qs) /\ PromisesOK(qs, since[k], s) /\ KeepsSettled(ps, qs)
  BY <1>3, <1>6, AskedKeeps
<1> HIDE DEF qs
<1> HIDE DEF late
<1>8. /\ me \in CheckType /\ me.pc = "awaiting" /\ me.home = k /\ me.cache = k /\ me.scope = s
      /\ me.kind = IF op = "hasRole" THEN "roles" ELSE "perms"
      /\ me.todo = todo /\ me.roles = {} /\ me.from = fails /\ me.late = late
  <2>1. late \in BOOLEAN
    BY DEF late
  <2> QED
    BY <1>1, <1>2, <1>3, <1>5, <2>1, BeginsTyped
<1> HIDE DEF me
<1>9. SinceTyped' /\ SinceOK' /\ since'[k] # {} /\ \A j \in Cache : since[j] \subseteq since'[j]
  BY <1>1, <1>4, <1>5 DEF CacheInv, SinceTyped, SinceOK
<1>10. slot'[k][s] = qs
  BY <1>1, <1>2, <1>4, <1>7, SlotFacts, OneRefill
<1>11. check'[c] = me
  BY <1>4 DEF CacheInv, CheckTyped
<1>12. CheckOK(c)'
  <2>1. since'[me.cache] # {} /\ me.cache \in Cache /\ me.home = me.cache
    BY <1>1, <1>8, <1>9
  <2>2. /\ me.kind = "roles" => me.todo = <<"roles">>
        /\ me.kind = "perms" => me.todo # <<"roles">>
    BY <1>3, <1>8
  <2>3. qs["matcher"].st = "rejecting" => me.late
    BY <1>7, <1>8 DEF KeepsSettled, late
  <2>4. fails' = fails
    BY <1>4
  <2>5. check'[c].from <= fails'
    BY <1>5, <1>8, <1>11, <2>4
  <2> QED
    BY <1>3, <1>8, <1>10, <1>11, <2>1, <2>2, <2>3, <2>5 DEF CheckOK, Begun
<1> QED
  BY <1>1, <1>2, <1>4, <1>7, <1>8, <1>9, <1>12, AsksKeeps

(* A check takes the value v of the promise d and goes on to rest. *)
Takes(me, d, v, rest) ==
  [me EXCEPT !.pc = IF rest = <<>> THEN "answered" ELSE "awaiting", !.todo = rest,
             !.roles = IF d = "roles" THEN v ELSE @, !.perms = IF d # "roles" THEN v ELSE @]

LEMMA TakesTyped ==
  ASSUME NEW me \in CheckType, NEW d \in Dim, NEW rest \in Todo,
         NEW v \in IF d = "roles" THEN SUBSET Role ELSE SUBSET Perm
  PROVE  LET you == Takes(me, d, v, rest) IN
         /\ you \in CheckType
         /\ you.pc = IF rest = <<>> THEN "answered" ELSE "awaiting"
         /\ you.home = me.home /\ you.cache = me.cache /\ you.scope = me.scope
         /\ you.kind = me.kind /\ you.from = me.from /\ you.late = me.late /\ you.todo = rest
         /\ you.roles = IF d = "roles" THEN v ELSE me.roles
         /\ you.perms = IF d # "roles" THEN v ELSE me.perms
BY DEF Takes, CheckType

(* What a check awaits, and what is left then. *)
LEMMA TodoCases ==
  ASSUME NEW todo \in Todo \ {<<>>}
  PROVE  /\ todo[1] \in Dim /\ Tail(todo) \in {<<>>, <<"roles">>, <<"perms">>}
         /\ Tail(todo) # <<>> => Tail(todo)[1] \in Dim
         /\ \/ todo = <<"matcher">> /\ todo[1] = "matcher" /\ Tail(todo) = <<>>
            \/ todo = <<"roles">> /\ todo[1] = "roles" /\ Tail(todo) = <<>>
            \/ todo = <<"perms">> /\ todo[1] = "perms" /\ Tail(todo) = <<>>
            \/ todo = <<"perms", "roles">> /\ todo[1] = "perms" /\ Tail(todo) = <<"roles">>
            \/ todo = <<"roles", "perms">> /\ todo[1] = "roles" /\ Tail(todo) = <<"perms">>
<1>1. CASE todo = <<"matcher">>
  BY <1>1, TodoTails DEF Dim
<1>2. CASE todo = <<"roles">>
  BY <1>2, TodoTails DEF Dim
<1>3. CASE todo = <<"perms">>
  BY <1>3, TodoTails DEF Dim
<1>4. CASE todo = <<"perms", "roles">>
  BY <1>4, TodoTails DEF Dim
<1>5. CASE todo = <<"roles", "perms">>
  BY <1>5, TodoTails DEF Dim
<1> QED
  BY <1>1, <1>2, <1>3, <1>4, <1>5 DEF Todo

(* A check has the roles and permissions of its cache once all are settled, *)
(* and what it has meanwhile is settled.                                    *)
LEMMA TakenIsHeld ==
  ASSUME NEW me, NEW you, NEW ps, NEW S, NEW s, PromisesOK(ps, S, s), Begun(me, ps),
         me.todo \in Todo \ {<<>>}, NEW d, d = me.todo[1], ps[d].st = "ok",
         you.todo = Tail(me.todo), you.kind = me.kind, me.kind \in {"roles", "perms"},
         you.roles = IF d = "roles" THEN ps[d].value ELSE me.roles,
         you.perms = IF d # "roles" THEN ps[d].value ELSE me.perms
  PROVE  /\ you.todo = <<>> => Complete(you, ps)
         /\ you.todo = <<"roles">> => you.kind = "perms" /\ HasPerms(you, ps)
         /\ you.todo = <<"perms">> => you.kind = "perms" /\ HasRoles(you, ps)
<1>1. CASE me.todo = <<"matcher">> /\ d = "matcher" /\ you.todo = <<>>
  <2>1. you.kind = "perms" /\ you.roles = {} /\ you.perms = ps["matcher"].value
    BY <1>1, TodoDistinct DEF Begun
  <2>2. /\ ps["roles"].st = "ok" /\ ps["perms"].st = "ok"
        /\ ps["matcher"].value = ps["perms"].value \cup Grants(ps["roles"].value)
    BY <1>1 DEF PromisesOK, MatcherOK
  <2> QED
    BY <1>1, <2>1, <2>2, GrantsNone, TodoDistinct DEF Complete
<1>2. CASE me.todo = <<"roles">> /\ d = "roles" /\ you.todo = <<>>
  BY <1>2, TodoDistinct DEF Begun, HasPerms, Complete
<1>3. CASE me.todo = <<"perms">> /\ d = "perms" /\ you.todo = <<>>
  BY <1>3, TodoDistinct DEF Begun, HasRoles, Complete
<1>4. CASE me.todo = <<"perms", "roles">> /\ d = "perms" /\ you.todo = <<"roles">>
  BY <1>4, TodoDistinct DEF Begun, HasPerms
<1>5. CASE me.todo = <<"roles", "perms">> /\ d = "roles" /\ you.todo = <<"perms">>
  BY <1>5, TodoDistinct DEF Begun, HasRoles
<1> QED
  BY <1>1, <1>2, <1>3, <1>4, <1>5, TodoCases

LEMMA ResumeKeeps ==
  ASSUME CacheInv, NEW c \in Check, Resume(c)
  PROVE  CacheInv'
<1> DEFINE me == check[c]
           k == me.cache
           s == me.scope
           ps == slot[k][s]
           d == me.todo[1]
           rest == Tail(me.todo)
           v == ps[d].value
<1>0. SUFFICES ASSUME NEW you, you = Takes(me, d, v, rest),
                      NEW qs, qs = IF rest = <<>> THEN ps ELSE Asked(ps, rest[1])
               PROVE  CacheInv'
  OBVIOUS
<1>1. /\ me \in CheckType /\ me.pc = "awaiting" /\ CheckOK(c)
      /\ UNCHANGED <<store, writes, fails, since>>
  BY DEF CacheInv, CheckTyped, Resume
<1>2. k \in Cache /\ s \in Scope /\ Begun(me, ps) /\ me.todo \in Todo \ {<<>>}
  BY <1>1 DEF CheckOK, Begun, CheckType
<1>3. /\ d \in Dim /\ rest \in {<<>>, <<"roles">>, <<"perms">>} /\ rest \in Todo
      /\ rest # <<>> => rest[1] \in Dim
  BY <1>2, TodoCases DEF Todo
<1>4. PromisesTyped(ps) /\ PromisesOK(ps, since[k], s)
  BY <1>2, SlotFacts
<1>5. ps[d].st = "ok" /\ v \in IF d = "roles" THEN SUBSET Role ELSE SUBSET Perm
  <2>1. ps[d].st \in {"ok", "rejected"}
    BY DEF Resume, Promise
  <2> HIDE DEF ps, d
  <2> QED
    BY <1>3, <1>4, <2>1 DEF PromisesOK, RolesOK, PermsOK, MatcherOK, Dim
<1>6. check' = [check EXCEPT ![c] = you]
  <2>1. check' = [check EXCEPT ![c].pc = IF rest = <<>> THEN "answered" ELSE "awaiting",
                    ![c].todo = rest, ![c].roles = IF d = "roles" THEN v ELSE @,
                    ![c].perms = IF d # "roles" THEN v ELSE @]
    BY <1>5 DEF Resume, Promise
  <2> HIDE DEF d, rest, v
  <2> QED
    BY <1>0, <2>1 DEF Takes, CacheInv, CheckTyped
<1>7. Refills(k, s, qs)
  <2>1. slot = [slot EXCEPT ![k][s] = ps]
    BY <1>2 DEF CacheInv, SlotTyped
  <2> QED
    BY <1>0, <1>5, <2>1 DEF Resume, Promise, Refills
<1>8. you \in CheckType /\ you = Takes(me, d, v, rest)
  <2> HIDE DEF me, d, v, rest
  <2> QED
    BY <1>0, <1>1, <1>3, <1>5, TakesTyped
<1>9. /\ you.pc = IF rest = <<>> THEN "answered" ELSE "awaiting"
      /\ you.home = k /\ you.cache = k /\ you.scope = s
      /\ you.kind = me.kind /\ you.from = me.from /\ you.late = me.late /\ you.todo = rest
      /\ you.roles = IF d = "roles" THEN v ELSE me.roles
      /\ you.perms = IF d # "roles" THEN v ELSE me.perms
  <2>1. me.home = k
    BY <1>2 DEF Begun
  <2> HIDE DEF me, d, v, rest
  <2> QED
    BY <1>1, <1>3, <1>5, <1>8, <2>1, TakesTyped
<1>10. check'[c] = you
  BY <1>6 DEF CacheInv, CheckTyped
<1> HIDE DEF ps
<1>11. PromisesTyped(qs) /\ PromisesOK(qs, since[k], s) /\ KeepsSettled(ps, qs)
  <2> HIDE DEF rest, k, s
  <2>1. CASE rest = <<>>
    BY <1>0, <1>4, <2>1 DEF KeepsSettled
  <2>2. CASE rest # <<>>
    BY <1>0, <1>3, <1>4, <2>2, AskedKeeps
  <2> QED
    BY <2>1, <2>2
<1>12. /\ rest = <<>> => Complete(you, ps)
       /\ rest = <<"roles">> => you.kind = "perms" /\ HasPerms(you, ps)
       /\ rest = <<"perms">> => you.kind = "perms" /\ HasRoles(you, ps)
  <2>1. me.kind \in {"roles", "perms"}
    BY <1>1 DEF CheckType
  <2> HIDE DEF me, k, s
  <2> QED
    BY <1>2, <1>4, <1>5, <1>9, <2>1, TakenIsHeld
<1>13. slot'[k][s] = qs
  <2> HIDE DEF k, s
  <2> QED
    BY <1>2, <1>7, <1>11, SlotFacts, OneRefill
<1>14. since'[k] # {} /\ UNCHANGED <<fails, since>> /\ me.from <= fails
  BY <1>1, <1>2 DEF Begun, CheckOK
<1> HIDE DEF me, k, s, d, rest, v
<1>15. /\ you.cache \in Cache /\ you.home = you.cache /\ since'[you.cache] # {}
       /\ rest = <<"roles">> => HasPerms(you, qs)
       /\ rest = <<"perms">> => HasRoles(you, qs)
       /\ rest = <<>> => Complete(you, qs)
  BY <1>2, <1>9, <1>11, <1>12, <1>14 DEF KeepsSettled, HasPerms, HasRoles, Complete
<1>16. you.kind = "roles" => rest = <<>>
  BY <1>3, <1>12
<1>17. CheckOK(c)'
  BY <1>3, <1>9, <1>10, <1>12, <1>13, <1>14, <1>15, <1>16, TodoDistinct
  DEF CheckOK, Begun, HasPerms, HasRoles, Complete
<1>18. SinceTyped' /\ SinceOK' /\ \A j \in Cache : since[j] \subseteq since'[j]
  BY <1>1 DEF CacheInv, SinceTyped, SinceOK, State, store
<1> QED
  BY <1>1, <1>2, <1>4, <1>6, <1>7, <1>8, <1>11, <1>14, <1>17, <1>18, AsksKeeps DEF ps

-----------------------------------------------------------------------------
(* Grants and revocations, and every step. *)

LEMMA ToggledTyped ==
  ASSUME NEW f, NEW T, NEW U, f \in [T -> SUBSET U], NEW s \in T, NEW x \in U
  PROVE  [f EXCEPT ![s] = Toggled(@, x)] \in [T -> SUBSET U]
BY DEF Toggled

LEMMA WriteKeeps ==
  ASSUME CacheInv, NEW s \in Scope, Write(s)
  PROVE  CacheInv'
<1>1. /\ app \in [Scope -> SUBSET Role] /\ roles \in [Scope -> SUBSET Role]
      /\ perms \in [Scope -> SUBSET Perm] /\ writes \in 0 .. MaxWrites /\ MaxWrites \in Nat
  BY CacheAssumption DEF CacheInv, StoreTyped, State, StateType
<1>2. /\ app' \in [Scope -> SUBSET Role] /\ roles' \in [Scope -> SUBSET Role]
      /\ perms' \in [Scope -> SUBSET Perm]
  <2>1. CASE /\ UNCHANGED <<roles, perms>>
             /\ \E r \in Role : app' = [app EXCEPT ![s] = Toggled(@, r)]
    BY <1>1, <2>1, ToggledTyped
  <2>2. CASE /\ UNCHANGED <<app, perms>>
             /\ \E r \in Role : roles' = [roles EXCEPT ![s] = Toggled(@, r)]
    BY <1>1, <2>2, ToggledTyped
  <2>3. CASE /\ UNCHANGED <<app, roles>>
             /\ \E p \in Perm : perms' = [perms EXCEPT ![s] = Toggled(@, p)]
    BY <1>1, <2>3, ToggledTyped
  <2> QED
    BY <2>1, <2>2, <2>3 DEF Write
<1>3. StoreTyped' /\ State' \in StateType
  BY <1>1, <1>2 DEF CacheInv, StoreTyped, State, StateType, Write
<1>4. /\ since' = [k \in Cache |-> IF since[k] = {} THEN {} ELSE since[k] \cup {State'}]
      /\ UNCHANGED <<slot, check, fails>>
  BY DEF Write
<1> HIDE DEF State
<1>5. SinceTyped' /\ SinceOK' /\ \A k \in Cache : since[k] \subseteq since'[k]
  BY <1>3, <1>4 DEF CacheInv, SinceTyped, SinceOK
<1>6. SlotTyped' /\ CheckTyped' /\ Asking'
  BY <1>4, <1>5 DEF CacheInv, SlotTyped, CheckTyped, Asking
<1>7. SlotsOK'
  BY <1>4, <1>5, LongerHistory DEF CacheInv, SlotsOK
<1>8. Lasting /\ RejectsLate
  BY <1>4, <1>5 DEF Lasting, RejectsLate
<1>9. ASSUME NEW c \in Check PROVE CheckOK(c)'
  BY <1>4, <1>8, CheckStays
<1> QED
  BY <1>3, <1>5, <1>6, <1>7, <1>9 DEF CacheInv

LEMMA CacheInit == Init => CacheInv
<1> SUFFICES ASSUME Init PROVE CacheInv
  OBVIOUS
<1>1. StoreTyped
  BY CacheAssumption DEF Init, StoreTyped, State, StateType
<1>2. SlotTyped
  BY NoPromiseTyped DEF Init, SlotTyped
<1>3. CheckTyped
  BY CacheAssumption DEF Init, CheckTyped, CheckType, Idle, Todo, Scope
<1>4. SinceTyped /\ SinceOK
  BY DEF Init, SinceTyped, SinceOK
<1>5. \A k \in Cache, s \in Scope, d \in Dim : slot[k][s][d] = NoPromise
  BY DEF Init
<1>6. SlotsOK /\ Asking
  BY <1>5, NoPromiseTyped DEF SlotsOK, PromisesOK, RolesOK, PermsOK, MatcherOK, Asking, Dim
<1>7. \A c \in Check : CheckOK(c)
  <2> SUFFICES ASSUME NEW c \in Check PROVE CheckOK(c)
    OBVIOUS
  <2>1. check[c].pc = "idle" /\ check[c].from = 0 /\ fails = 0
    BY DEF Init, Idle
  <2> QED
    BY <2>1 DEF CheckOK
<1> QED
  BY <1>1, <1>2, <1>3, <1>4, <1>6, <1>7 DEF CacheInv

LEMMA CacheStep == CacheInv /\ [Next]_vars => CacheInv'
<1> SUFFICES ASSUME CacheInv, [Next]_vars PROVE CacheInv'
  OBVIOUS
<1>1. ASSUME NEW c \in Check, NEW q \in Request \cup {None}, NEW op \in Op, NEW given \in Given,
             Start(c, q, op, given)
      PROVE  CacheInv'
  BY <1>1, StartKeeps
<1>2. ASSUME NEW c \in Check, Resume(c) PROVE CacheInv'
  BY <1>2, ResumeKeeps
<1>3. ASSUME NEW k \in Cache, NEW s \in Scope, Settle(k, s) PROVE CacheInv'
  BY <1>3, ReadAppKeeps, ReadRolesKeeps, ReadPermsKeeps, MatcherGoesOnKeeps, MatcherRejectsKeeps
  DEF Settle
<1>4. ASSUME NEW k \in Cache, NEW s \in Scope, NEW d \in {"roles", "perms"}, ReadFails(k, s, d)
      PROVE  CacheInv'
  BY <1>4, ReadFailsKeeps
<1>5. ASSUME NEW s \in Scope, Write(s) PROVE CacheInv'
  BY <1>5, WriteKeeps
<1>6. CASE UNCHANGED vars
  <2>1. UNCHANGED <<slot, check, since, writes, fails>> /\ State' = State
    BY <1>6 DEF vars, store, State
  <2> QED
    BY <2>1 DEF CacheInv, StoreTyped, SlotTyped, CheckTyped, SinceTyped, SlotsOK, Asking, SinceOK,
                CheckOK, Begun
<1> QED
  BY <1>1, <1>2, <1>3, <1>4, <1>5, <1>6 DEF Next

LEMMA CacheAlways == Spec => []CacheInv
BY CacheInit, CacheStep, PTL DEF Spec

-----------------------------------------------------------------------------
(* What the invariant says of the answers. *)

(* Everything keeps its type, the promises and the checks among it.        *)
THEOREM TypeHolds == Spec => []TypeOK
<1>1. CacheInv => TypeOK
  <2> SUFFICES ASSUME CacheInv PROVE TypeOK
    OBVIOUS
  <2>1. /\ \A x \in {app, roles} : x \in [Scope -> SUBSET Role]
        /\ perms \in [Scope -> SUBSET Perm]
        /\ writes \in 0 .. MaxWrites /\ fails \in 0 .. MaxFail
    BY DEF CacheInv, StoreTyped, State, StateType
  <2>2. ASSUME NEW k \in Cache, NEW s \in Scope, NEW d \in Dim
        PROVE  /\ slot[k][s][d].st \in {"none", "app", "store", "ok", "roles", "perms", "rejecting"}
               /\ slot[k][s][d].value \subseteq IF d = "roles" THEN Role ELSE Perm
    <3>1. slot[k][s][d] \in PromiseType /\ PromisesOK(slot[k][s], since[k], s)
      BY SlotFacts DEF PromisesTyped
    <3> QED
      BY <3>1 DEF PromiseType, PromisesOK, RolesOK, PermsOK, MatcherOK, Dim
  <2>3. \A c \in Check : check[c].pc \in {"idle", "awaiting", "answered", "failed"}
    BY SlotOfCheck
  <2> QED
    BY <2>1, <2>2, <2>3 DEF TypeOK
<1> QED
  BY <1>1, CacheAlways, PTL

(* However the checks of a request overlap, each tenant's roles and its      *)
(* permissions are read once, but for reads that fail: whoever asks meanwhile*)
(* finds the promise.                                                        *)
THEOREM OneReadHolds == Spec => []OneRead
<1>1. CacheInv => OneRead
  <2> SUFFICES ASSUME CacheInv, NEW k \in Cache, NEW s \in Scope, NEW d \in Dim
               PROVE  slot[k][s][d].reads <= 1
    BY DEF OneRead
  <2>1. PromisesOK(slot[k][s], since[k], s)
    BY SlotFacts
  <2>2. slot[k][s][d].reads \in {0, 1}
    BY <2>1 DEF PromisesOK, RolesOK, PermsOK, MatcherOK, Dim
  <2> QED
    BY <2>2
<1> QED
  BY <1>1, CacheAlways, PTL

(* Whoever has answered holds what its cache holds. *)
LEMMA AnswerOfCache ==
  ASSUME CacheInv, NEW c \in Check, Answered(c)
  PROVE  LET ps == slot[check[c].home][check[c].scope]
         IN  /\ check[c].home \in Cache /\ check[c].scope \in Scope
             /\ ps["roles"].st = "ok" /\ since[check[c].home] # {}
             /\ check[c].kind = "roles" => Answer(c) = ps["roles"].value
             /\ check[c].kind # "roles" =>
                  /\ ps["perms"].st = "ok"
                  /\ Answer(c) = ps["perms"].value \cup Grants(ps["roles"].value)
<1>1. CheckOK(c) /\ check[c].scope \in Scope
  BY SlotOfCheck DEF CacheInv
<1>2. check[c].home = check[c].cache /\ check[c].cache \in Cache /\ since[check[c].cache] # {}
  BY <1>1 DEF CheckOK, Begun, Answered
<1> QED
  BY <1>1, <1>2 DEF CheckOK, Complete, Answered, Answer

(* The checks of one request about one tenant answer alike: no grant or      *)
(* revocation and no read that failed comes between two of them.             *)
THEOREM SameAnswersHold == Spec => []SameAnswers
<1>1. CacheInv => SameAnswers
  BY AnswerOfCache DEF SameAnswers
<1> QED
  BY <1>1, CacheAlways, PTL

(* An answer is made of what the application and the store held of the right *)
(* tenant while the request was about: nothing of an earlier request is left.*)
THEOREM AnswersWithinRequestHolds == Spec => []AnswersWithinRequest
<1>1. CacheInv => AnswersWithinRequest
  <2> SUFFICES ASSUME CacheInv, NEW c \in Check, Answered(c)
               PROVE  \E x, y, z \in since[check[c].home] :
                        LET held == ContextRoles \cup x.app[check[c].scope]
                                      \cup y.roles[check[c].scope]
                        IN  Answer(c) = IF check[c].kind = "roles" THEN held
                                        ELSE z.perms[check[c].scope] \cup Grants(held)
    BY DEF AnswersWithinRequest
  <2> DEFINE k == check[c].home
             s == check[c].scope
             ps == slot[k][s]
  <2>1. /\ k \in Cache /\ s \in Scope /\ ps["roles"].st = "ok"
        /\ check[c].kind = "roles" => Answer(c) = ps["roles"].value
        /\ check[c].kind # "roles" =>
             ps["perms"].st = "ok" /\ Answer(c) = ps["perms"].value \cup Grants(ps["roles"].value)
    BY AnswerOfCache
  <2> HIDE DEF k, s
  <2>2. RolesOK(ps["roles"], since[k], s) /\ PermsOK(ps["perms"], since[k], s)
    BY <2>1, SlotFacts DEF PromisesOK
  <2>3. PICK x \in since[k], y \in since[k] :
          ps["roles"].value = ContextRoles \cup x.app[s] \cup y.roles[s]
    BY <2>1, <2>2 DEF RolesOK
  <2>4. CASE check[c].kind = "roles"
    BY <2>1, <2>3, <2>4 DEF k, s
  <2>5. CASE check[c].kind # "roles"
    <3>1. PICK z \in since[k] : ps["perms"].value = z.perms[s]
      BY <2>1, <2>2, <2>5 DEF PermsOK
    <3> QED
      BY <2>1, <2>3, <2>5, <3>1 DEF k, s
  <2> QED
    BY <2>4, <2>5
<1> QED
  BY <1>1, CacheAlways, PTL

(* A check fails for a read that failed after it began, or because the       *)
(* matcher it joined was failing already: a failure is never kept for later. *)
THEOREM FailsAfreshHolds == Spec => []FailsAfresh
<1>1. CacheInv => FailsAfresh
  BY DEF CacheInv, CheckOK, FailsAfresh
<1> QED
  BY <1>1, CacheAlways, PTL

=============================================================================
