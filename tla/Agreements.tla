----------------------------- MODULE Agreements -----------------------------
(***************************************************************************)
(* How the pure algorithms that a decision rests on agree with what they   *)
(* are documented to compute and with one another, for one input, the      *)
(* variable: [alg |-> the algorithm it is for, ...].  The model checker    *)
(* chooses it from bounded sets; the theorems are about any.               *)
(***************************************************************************)
EXTENDS AuthzDecision, StoreReads, CerbosProvider, SequencesExt

CONSTANT MaxBatch    \* bound on the checks of a batch
ASSUME BatchAssumption == MaxBatch \in Nat

VARIABLE input

-----------------------------------------------------------------------------
(* Permissions.  granted is a set of them; first and later are the lists of *)
(* a page's grants.                                                         *)

(* "permissionSatisfied and CompiledPermissions agree", and both agree with  *)
(* the definition of a wildcard in permission_matcher.ts:5-18: a trailing '*'*)
(* stands for one or more segments, another for exactly one.                 *)
MatcherAgrees ==
  input.alg = "match" =>
    LET covered == \E g \in input.granted : Covers(g, input.required)
    IN  /\ PermissionSatisfied(input.granted, input.required) = covered
        /\ Satisfies(Compile(input.granted), input.required) = covered

(* The page answers from the grants it was given last, though the matcher is *)
(* compiled once per array: unless an entry was replaced in place, which the *)
(* length does not show.                                                     *)
SharedAgrees ==
  /\ input.alg = "shared"
  /\ Len(input.first) # Len(input.later) \/ input.first = input.later
  => SatisfiesShared(CompileShared(input.first), input.later, input.required)
       = PermissionSatisfied(Segments(input.later), input.required)

-----------------------------------------------------------------------------
(* Decisions: input is the environment e of AuthzDecision. *)

(* scope and can agree where the provider has nothing to say: who can do the *)
(* action sees every row, who is unknown or denied by the hook sees none, and*)
(* anyone else what the resource's filter leaves.                            *)
ScopeAgrees ==
  /\ input.alg = "decision" /\ input.plan = "abstain"
  /\ \A q \in DOMAIN input.decide : input.decide[q].kind = "nullish"
  => \A q \in DOMAIN input.hook :
       Scope(input, q) =
         IF Can(input, q) THEN "all"
         ELSE IF ~Known(input) \/ input.hook[q] = "deny" THEN "none"
         ELSE NormalizeScope(input.filter)

(* What the page is told opens exactly what the server allows, as long as    *)
(* neither the hook, nor a super-admin role, nor a provider decides, and the *)
(* guard of a route agrees for a permission without wildcards.               *)
PageAgrees ==
  /\ input.alg = "decision"
  /\ input.provider = "none" /\ ~IsGlobalSuperAdmin(input)
  => \A q \in DOMAIN input.hook :
       input.hook[q] = "none" =>
         /\ Can(input, q) = PermissionSatisfied(BuildAuthzShare(input).permissions, q)
         /\ Star \notin Segments(q) => (RequireRole(input, {}, {q}) = "next" <=> Can(input, q))

(* checkMany gives each item of a batch what check gives it alone, whatever  *)
(* the super-admin hook takes out of the batch and whether the provider      *)
(* answers it at once, fails or answers too little, and rejects only when the*)
(* check of an item would; and RBAC decides the same with the request's cache*)
(* as without.                                                               *)
BatchAgrees ==
  input.alg = "decision" =>
    /\ \A ps \in UNION {[1 .. k -> DOMAIN input.hook] : k \in 0 .. MaxBatch} :
         LET alone == [i \in DOMAIN ps |-> Check(input, ps[i], TRUE)]
             batch == CheckMany(input, ps)
         IN  IF \E i \in DOMAIN ps : alone[i].verdict = "error"
               THEN batch.rejects
               ELSE ~batch.rejects /\ batch.results = alone
    /\ \A p \in DOMAIN input.hook : Check(input, p, TRUE) = Check(input, p, FALSE)

-----------------------------------------------------------------------------
(* The members of a role, as the store and the resolvers list them. *)

(* subjectsWithRole lists every member that any source knows, exactly once,  *)
(* a bare id being the user of that id and a team another subject.           *)
SubjectsListedOnce ==
  input.alg = "members" =>
    LET listed == SubjectsWithRole(input.store, input.members, input.globals)
        all == input.store \o input.members \o input.globals
    IN  /\ IsInjective(listed)
        /\ Segments(listed) = {NormalizeSubjectRef(all[i]) : i \in DOMAIN all}

-----------------------------------------------------------------------------
(* Batches of the Cerbos provider: input is the world e of CerbosProvider,  *)
(* and requests are what it is asked.                                       *)

KeysUpTo(requests, i) == {requests[j].key : j \in DOMAIN requests \cap 1 .. i} \ {Nobody}

(* The number of the call that asks about the resource k. *)
CallOf(e, requests, k) ==
  LET i == CHOOSE i \in DOMAIN requests :
             requests[i].key = k /\ k \notin KeysUpTo(requests, i - 1)
  IN  (Cardinality(KeysUpTo(requests, i)) - 1) \div Batch(e)

(* decideMany answers each request what decide answers it alone, in order,   *)
(* but for those whose call fails for another's resource: these get the      *)
(* failure verdict, and no other does for it.  Nothing is asked without a    *)
(* client and a principal.                                                   *)
BatchesIndependent ==
  input.alg = "cerbos" =>
    \A i \in DOMAIN input.requests :
      LET k == input.requests[i].key
          failed == k # Nobody /\ input.client /\ input.principal
                    /\ \E d \in input.down \cap KeysUpTo(input.requests, Len(input.requests)) :
                         CallOf(input, input.requests, d) = CallOf(input, input.requests, k)
      IN  DecideMany(input, input.requests)[i] =
            IF failed THEN FailureVerdict(input) ELSE Decide(input, input.requests[i])

-----------------------------------------------------------------------------
(* The reads of the stores, on a database db. *)

D == input.db
Everything == [roles |-> Role, tenants |-> Tenant, subjects |-> Subject, sources |-> Source]

(* The forward, the backward, the counting and the listing reads of the SQL  *)
(* store agree, in each tenant, for subjects of two types with one id, and   *)
(* for a role held twice, that nobody holds, or that was deleted.            *)
ReadsAgree ==
  input.alg = "store" =>
    \A t \in Tenant :
      /\ \A s \in Subject, n \in Role :
           /\ s \in SubjectsForRole(D, n, t) <=> n \in RolesForSubject(D, s, t)
           /\ n \in RolesForSubject(D, s, t) <=>
                \E w \in RoleAssignments(D, s, t) : w.role = n
      /\ \A n \in Role :
           CountSubjectsForRole(D, n, t) = Cardinality(SubjectsForRole(D, n, t))
      /\ CountSubjectsByRole(D, t) =
           [n \in NamesIn(D, Role) |-> Cardinality(SubjectsForRole(D, n, t))]
      /\ \A s \in Subject, p \in Perm :
           SubjectHasPermission(D, s, p, t) <=> p \in PermissionsForSubject(D, s, t)
      /\ PermissionsForRoles(D, Role) = [n \in NamesIn(D, Role) |-> RolePermissions(D, n)]
      /\ \A s \in Subject :
           {[role |-> w.role, source |-> w.source, tenant |-> w.tenant] :
              w \in ListRoleAssignments(D, [Everything EXCEPT !.subjects = {s},
                                                             !.tenants = {t, Global}])}
           = RoleAssignments(D, s, t)

List == SetToSeq(Assignments(D))

(* The in-memory store, which counts and joins in loops of its own, reads    *)
(* the same of the same rows as the SQL store.                               *)
MemoryReadsAgree ==
  input.alg = "store" =>
    \A t \in Tenant :
      /\ \A s \in Subject :
           /\ MemoryRolesForSubject(D, List, s, t) = RolesForSubject(D, s, t)
           /\ MemoryPermissionsForSubject(D, List, s, t) = PermissionsForSubject(D, s, t)
           /\ MemoryRoleAssignments(D, List, s, t) = RoleAssignments(D, s, t)
      /\ \A n \in Role :
           /\ Segments(MemorySubjectsForRole(D, List, n, t)) = SubjectsForRole(D, n, t)
           /\ MemoryCountSubjectsForRole(D, List, n, t) = CountSubjectsForRole(D, n, t)
      /\ MemoryCountSubjectsByRole(D, List, t) = CountSubjectsByRole(D, t)
      /\ MemoryPermissionsForRoles(D, Role) = PermissionsForRoles(D, Role)
      /\ MemoryListRoleAssignments(D, List, [Everything EXCEPT !.tenants = {t}])
           = ListRoleAssignments(D, [Everything EXCEPT !.tenants = {t}])

(* "The same visibility as getRolesForSubject": a preload gives each model of*)
(* the relation's type exactly the roles the store reports for it, each once,*)
(* whether its key and the pivot's column are numbers or text.               *)
RelationAgrees ==
  input.alg = "store" =>
    \A s \in Subject, t \in Tenant, type \in {"text", "number"} :
      LET rows == SetToSeq(RelationRows(D, s.type, t, Source))
          ids == PreloadedRoles(rows, input.column, KeyAs(type, s.id))
      IN  /\ IsInjective(ids)
          /\ Segments(ids) = Ids(D, RolesForSubject(D, s, t))
=============================================================================
