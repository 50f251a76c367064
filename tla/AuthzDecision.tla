--------------------------- MODULE AuthzDecision ---------------------------
(***************************************************************************)
(* What AuthzService answers once its reads are done: the order in which   *)
(* the super-admin hook, the external decision provider and the RBAC grants*)
(* decide a check, a batch of checks or a row scope, and what the route    *)
(* guard and the page's share make of the roles and grants.                *)
(*                                                                         *)
(* e is everything an answer depends on:                                   *)
(*   user      "none" (nobody), "unmapped" (no subject reference) or "known"*)
(*   hook      [permission -> "allow", "deny", "none"]: the super-admin    *)
(*             hook's verdict                                              *)
(*   context, superRoles, app, store: sets of roles, by where they are from*)
(*   granted   the store's permissions; grants [role -> permissions]       *)
(*   provider  "none", "single" or "batch" (it also has decideMany)        *)
(*   decide    [permission -> the provider's raw verdict]                  *)
(*   many      what decideMany does: "ok", "throws" or "short"             *)
(*   plan, filter: the provider's plan and the registered scope's result   *)
(***************************************************************************)
EXTENDS PermissionMatcher, Listing

Known(e) == e.user = "known"

IsGlobalSuperAdmin(e) == e.context \cap e.superRoles # {}

(* The hook first; only the hook can deny. *)
SuperAdmin(e, verdict) ==
  IF ~Known(e) THEN "none"
  ELSE IF verdict # "none" THEN verdict
  ELSE IF IsGlobalSuperAdmin(e) THEN "allow" ELSE "none"

EffectiveRoles(e) == IF Known(e) THEN e.context \cup e.app \cup e.store ELSE {}

RoleGrants(e, roles) == UNION {e.grants[r] : r \in roles \cap DOMAIN e.grants}

(* Mutant: only what the store grants. *)
EffectivePermissionsOfStore(e) == IF Known(e) THEN e.granted ELSE {}

EffectivePermissions(e) ==
  IF Known(e) THEN e.granted \cup RoleGrants(e, EffectiveRoles(e)) ELSE {}

(* A raw verdict is [kind, allowed]: an object allows only with allowed TRUE. *)
NormalizeVerdict(v) ==
  CASE v.kind = "nullish" -> "abstain"
    [] v.kind = "throws"  -> "error"
    [] OTHER              -> IF v.allowed THEN "allow" ELSE "deny"

(* With a cache the two grant sets are compiled together. *)
Rbac(e, p, cached) ==
  IF cached THEN Satisfies(Compile(e.granted \cup RoleGrants(e, EffectiveRoles(e))), p)
  ELSE \/ PermissionSatisfied(e.granted, p)
       \/ PermissionSatisfied(RoleGrants(e, EffectiveRoles(e)), p)

Decided(verdict, reason) == [verdict |-> verdict, reason |-> reason]

(* super is the super-admin verdict, v the provider's. *)
ResolveCheck(e, p, super, v, cached) ==
  LET engine == IF e.provider = "none" THEN "abstain" ELSE NormalizeVerdict(v)
  IN  IF super # "none" THEN Decided(super, "super-admin")
      ELSE IF engine # "abstain" THEN Decided(engine, "decision-provider")
      ELSE IF ~Known(e) THEN Decided("deny", "anonymous")
      ELSE IF Rbac(e, p, cached) THEN Decided("allow", "permission")
      ELSE Decided("deny", "no-grant")

Check(e, p, cached) ==
  ResolveCheck(e, p, SuperAdmin(e, e.hook[p]), e.decide[p], cached)

Can(e, p) == Check(e, p, TRUE).verdict = "allow"

(* decideMany's verdicts for ps; <<>> when the items are to be asked one by one. *)
PrefetchDecisions(e, ps) ==
  LET throws == e.many = "throws" \/ \E i \in DOMAIN ps : e.decide[ps[i]].kind = "throws"
      answer == [i \in 1 .. (IF e.many = "short" THEN Len(ps) - 1 ELSE Len(ps)) |->
                   e.decide[ps[i]]]
  IN  IF e.provider # "batch" \/ ps = <<>> \/ throws THEN <<>>
      ELSE IF Len(answer) # Len(ps) THEN <<>> ELSE answer

(* Mutant: the prefetched verdict is taken at the item's place in the batch. *)
VerdictOfIndex(e, ps, prefetched, pending, i) ==
  IF i \in DOMAIN prefetched THEN prefetched[i] ELSE e.decide[ps[i]]

(* The verdict of the i-th item: its place is that among the pending items. *)
VerdictOf(e, ps, prefetched, pending, i) ==
  IF prefetched = <<>> THEN e.decide[ps[i]]
  ELSE prefetched[CHOOSE k \in DOMAIN pending : pending[k] = i]

(* One item that throws rejects the whole batch. *)
CheckMany(e, ps) ==
  LET super == [i \in DOMAIN ps |-> SuperAdmin(e, e.hook[ps[i]])]
      pending == InOrder({i \in DOMAIN ps : super[i] = "none"})
      prefetched == PrefetchDecisions(e, [k \in DOMAIN pending |-> ps[pending[k]]])
      results == [i \in DOMAIN ps |->
        IF super[i] # "none" THEN Decided(super[i], "super-admin")
        ELSE ResolveCheck(e, ps[i], "none", VerdictOf(e, ps, prefetched, pending, i), TRUE)]
      rejects == \E i \in DOMAIN ps : results[i].verdict = "error"
  IN  [rejects |-> rejects, results |-> IF rejects THEN <<>> ELSE results]

-----------------------------------------------------------------------------
(* Row scopes: "all", "none", or "rows" for a condition on the rows. *)

(* A filter that is not registered, null and false show no row. *)
NormalizeScope(result) ==
  CASE result \in {"unregistered", "null", "false"} -> "none"
    [] result = "true" -> "all"
    [] OTHER -> result

(* Mutant: anonymous users get the registered filter as well. *)
ScopeForAnyone(e, action) ==
  IF PermissionSatisfied(EffectivePermissions(e), action) THEN "all"
  ELSE NormalizeScope(e.filter)

Scope(e, action) ==
  LET super == SuperAdmin(e, e.hook[action])
  IN  IF super = "allow" THEN "all"
      ELSE IF super = "deny" THEN "none"
      ELSE IF e.provider # "none" /\ e.plan # "abstain" THEN e.plan
      ELSE IF ~Known(e) THEN "none"
      ELSE IF PermissionSatisfied(EffectivePermissions(e), action) THEN "all"
      ELSE NormalizeScope(e.filter)

-----------------------------------------------------------------------------
(* The guard that opens a route, and the page's share. *)

(* A route that lists neither roles nor permissions is a mistake. *)
RequireRole(e, roles, permissions) ==
  LET opens == \/ EffectiveRoles(e) \cap roles # {}
               \/ \E p \in permissions : OpensBy(EffectivePermissions(e), p)
  IN  IF roles = {} /\ permissions = {} THEN "throws"
      ELSE IF e.user = "none" THEN "unauthenticated"
      ELSE IF opens THEN "next" ELSE "forbidden"

(* What the server shares with the page; nobody shares nothing. *)
BuildAuthzShare(e) ==
  IF e.user = "none" THEN [roles |-> {}, permissions |-> {}]
  ELSE [roles |-> EffectiveRoles(e), permissions |-> EffectivePermissions(e)]

-----------------------------------------------------------------------------
(* Listing a role's members from the store and the application's resolvers.*)
(* A reference is [type, id], each a sequence of words; a bare id is a user.*)

Blank == "_"

NormalizeSubjectRef(x) == [type |-> IF x.type = <<>> THEN <<"user">> ELSE x.type, id |-> x.id]

(* Mutant: members are told apart by their id. *)
SubjectKeyById(ref) == ref.id

SubjectKey(ref) == ref.type \o <<Blank>> \o ref.id

(* The first member with each key, in the order they are listed. *)
SubjectsWithRole(store, members, globals) ==
  LET all == store \o members \o globals
      listed == [i \in DOMAIN all |-> NormalizeSubjectRef(all[i])]
      keys == [i \in DOMAIN all |-> SubjectKey(listed[i])]
  IN  Kept(listed, Firsts(keys, DOMAIN all))
=============================================================================
