-------------------------- MODULE PermissionCache --------------------------
(***************************************************************************)
(* Concurrent checks of one subject, and the reads they share.  A check    *)
(* runs in a request, whose PermissionCache it shares with the request's   *)
(* other checks, or outside any, where it reads for itself alone.  A cache *)
(* keeps, per tenant, the promise of the effective roles, of the store's   *)
(* permissions and of the matcher made of both.  Meanwhile the application *)
(* and other requests grant and revoke, and reads fail.                    *)
(*                                                                         *)
(* A promise that settles with a value keeps it, and whoever awaits it goes*)
(* on later.  One that rejects is dropped from the cache before anyone who *)
(* awaits it goes on, as the handler that drops it was attached first.     *)
(***************************************************************************)
EXTENDS Naturals, Sequences

CONSTANTS
  Check, Request,
  None,             \* no request; the global tenant
  Unset,            \* no tenant given
  Tenant,
  Given,            \* the tenants callers give: some of Tenant, None and Unset
  Role, Perm,
  ContextRoles,     \* the global roles of the token
  RoleGrants,       \* [Role -> permissions], from the configuration
  ResolvedTenant,   \* what the configured tenant resolver says, or Unset
  ContextTenant,    \* [Request -> the tenant of its context, or Unset]
  MaxWrites, MaxFail

Scope == Tenant \cup {None}
Cache == Request \cup Check        \* a request's, or that of a lone check
Op == {"can", "canMany", "hasRole", "permissions"}
Dim == {"roles", "perms", "matcher"}

ASSUME CacheAssumption ==
  /\ Given \cup {ResolvedTenant} \subseteq Scope \cup {Unset}
  /\ ContextTenant \in [Request -> Scope \cup {Unset}]
  /\ ContextRoles \subseteq Role
  /\ RoleGrants \in [Role -> SUBSET Perm]
  /\ MaxWrites \in Nat /\ MaxFail \in Nat

VARIABLES
  app,      \* [Scope -> the roles the application's resolver answers]
  roles,    \* [Scope -> the store's roles]
  perms,    \* [Scope -> the store's permissions]
  slot,     \* [Cache -> [Scope -> [Dim -> the promise]]]
  check,    \* [Check -> what it asks and has so far]
  writes, fails,
  since     \* history: [Cache -> the states there were since it was created]

store == <<app, roles, perms>>
vars == <<store, slot, check, writes, fails, since>>

(* A promise is "none", "ok" with its value, "rejected", or pending: "app",  *)
(* then "store", are the reads of the roles, "store" the read of the         *)
(* permissions; the matcher awaits "roles", then "perms", and may be         *)
(* "rejecting".  reads counts the reads begun that have not failed.          *)
NoPromise == [st |-> "none", value |-> {}, reads |-> 0]

(* A check: where it runs (its request, or itself alone), the cache it uses, *)
(* its tenant, what it still awaits and what it has; from is how many reads  *)
(* had failed when it began, late that it met a matcher already rejecting.   *)
Idle == [pc |-> "idle", kind |-> "perms", home |-> None, cache |-> None, scope |-> None,
         todo |-> <<>>, roles |-> {}, perms |-> {}, from |-> 0, late |-> FALSE]

State == [app |-> app, roles |-> roles, perms |-> perms]

Init ==
  /\ app = [s \in Scope |-> {}] /\ roles = [s \in Scope |-> {}] /\ perms = [s \in Scope |-> {}]
  /\ slot = [k \in Cache |-> [s \in Scope |-> [d \in Dim |-> NoPromise]]]
  /\ check = [c \in Check |-> Idle]
  /\ writes = 0 /\ fails = 0
  /\ since = [k \in Cache |-> {}]

-----------------------------------------------------------------------------
(* Which cache and which key a check uses. *)

(* Mutant: one cache for the whole process. *)
RequestCacheGlobal(c, q) == CHOOSE r \in Request : TRUE

(* Mutant: every check reads for itself. *)
RequestCacheNone(c, q) == c

RequestCache(c, q) == IF q = None THEN c ELSE q

(* The tenant a check is about: given, else resolved, else the context's.    *)
CurrentScope(given, q) ==
  LET context == IF q = None THEN Unset ELSE ContextTenant[q]
      first == CHOOSE t \in {given, ResolvedTenant, context} :
                 t = IF given # Unset THEN given
                     ELSE IF ResolvedTenant # Unset THEN ResolvedTenant ELSE context
  IN  IF first = Unset THEN None ELSE first

(* What a check awaits, in order.  Without a cache the roles come first; the *)
(* effective permissions and the row scopes ask for them last.               *)
Awaits(op, q) ==
  CASE op = "hasRole" -> <<"roles">>
    [] op = "permissions" -> <<"perms", "roles">>
    [] op = "can" /\ q = None -> <<"roles", "perms">>
    [] OTHER -> <<"matcher">>

Grants(rs) == UNION {RoleGrants[r] : r \in rs}

-----------------------------------------------------------------------------
(* Asking a cache.  ps are its promises for one key. *)

(* Mutant: only a settled promise is shared. *)
NeedsReadPending(p) == p.st \in {"none", "app", "store"}

NeedsRead(p) == p.st = "none"

AskedRead(ps, d) ==
  IF NeedsRead(ps[d])
    THEN [ps EXCEPT ![d].st = IF d = "roles" THEN "app" ELSE "store", ![d].reads = @ + 1]
    ELSE ps

Asked(ps, d) ==
  CASE d # "matcher" -> AskedRead(ps, d)
    [] d = "matcher" /\ ps["matcher"].st = "none" ->
         [AskedRead(ps, "roles") EXCEPT !["matcher"].st = "roles"]
    [] OTHER -> ps

Start(c, q, op, given) ==
  LET home == IF q = None THEN c ELSE q
      k == RequestCache(c, q)
      s == CurrentScope(given, q)
      todo == Awaits(op, q)
  IN  /\ check[c].pc = "idle"
      /\ check' = [check EXCEPT ![c] =
           [Idle EXCEPT !.pc = "awaiting", !.home = home, !.cache = k, !.scope = s,
                        !.kind = IF op = "hasRole" THEN "roles" ELSE "perms", !.todo = todo,
                        !.from = fails, !.late = slot[k][s]["matcher"].st = "rejecting"]]
      /\ slot' = [slot EXCEPT ![k][s] = Asked(@, todo[1])]
      /\ since' = [since EXCEPT ![home] = @ \cup {State}]
      /\ UNCHANGED <<store, writes, fails>>

Promise(c) == slot[check[c].cache][check[c].scope][check[c].todo[1]]

(* The promise a check awaits has settled: it takes the value and asks for   *)
(* the next, or has its answer.                                              *)
Resume(c) ==
  LET me == check[c]
      d == me.todo[1]
      rest == Tail(me.todo)
      next == IF rest = <<>> THEN "answered" ELSE "awaiting"
  IN  /\ me.pc = "awaiting" /\ Promise(c).st \in {"ok", "rejected"}
      /\ IF Promise(c).st = "rejected"
           THEN check' = [check EXCEPT ![c].pc = "failed"] /\ UNCHANGED slot
           ELSE /\ check' = [check EXCEPT ![c].pc = next, ![c].todo = rest,
                     ![c].roles = IF d = "roles" THEN Promise(c).value ELSE @,
                     ![c].perms = IF d # "roles" THEN Promise(c).value ELSE @]
                /\ slot' = IF rest = <<>> THEN slot
                           ELSE [slot EXCEPT ![me.cache][me.scope] = Asked(@, rest[1])]
      /\ UNCHANGED <<store, writes, fails, since>>

-----------------------------------------------------------------------------
(* Reads, and the matcher. *)

Quiet == UNCHANGED <<store, check, writes, fails, since>>

(* A promise comes to the state st with the value v. *)
Reached(p, st, v) == [p EXCEPT !.st = st, !.value = v]

ReadApp(k, s) ==
  /\ slot[k][s]["roles"].st = "app"
  /\ slot' = [slot EXCEPT ![k][s]["roles"] = Reached(@, "store", ContextRoles \cup app[s])]
  /\ Quiet

ReadRoles(k, s) ==
  /\ slot[k][s]["roles"].st = "store"
  /\ slot' = [slot EXCEPT ![k][s]["roles"] = Reached(@, "ok", @.value \cup roles[s])]
  /\ Quiet

ReadPerms(k, s) ==
  /\ slot[k][s]["perms"].st = "store"
  /\ slot' = [slot EXCEPT ![k][s]["perms"] = Reached(@, "ok", perms[s])]
  /\ Quiet

MatcherGoesOn(k, s) ==
  LET ps == slot[k][s] IN
  /\ \/ /\ ps["matcher"].st = "roles" /\ ps["roles"].st = "ok"
        /\ slot' = [slot EXCEPT ![k][s] =
                      [AskedRead(ps, "perms") EXCEPT !["matcher"].st = "perms"]]
     \/ /\ ps["matcher"].st = "perms" /\ ps["perms"].st = "ok"
        /\ slot' = [slot EXCEPT ![k][s]["matcher"] =
                      Reached(@, "ok", ps["perms"].value \cup Grants(ps["roles"].value))]
  /\ Quiet

(* Mutant: a rejected promise stays in the cache. *)
DroppedKept(p) == [p EXCEPT !.st = "rejected"]

Dropped(p) == NoPromise

(* Mutant: the matcher does not hear of the rejection. *)
MatcherToldNot(m, d) == m

MatcherTold(m, d) == IF m.st = d THEN [m EXCEPT !.st = "rejecting"] ELSE m

FailWaiting(k, s, d) ==
  check' = [c \in Check |->
              IF /\ check[c].pc = "awaiting" /\ check[c].todo[1] = d
                 /\ check[c].cache = k /\ check[c].scope = s
              THEN [check[c] EXCEPT !.pc = "failed"] ELSE check[c]]

ReadFails(k, s, d) ==
  /\ fails < MaxFail /\ slot[k][s][d].st \in {"app", "store"}
  /\ fails' = fails + 1
  /\ LET ps == slot[k][s] IN
     slot' = [slot EXCEPT ![k][s] = [ps EXCEPT ![d] = Dropped(ps[d]),
                                               !["matcher"] = MatcherTold(ps["matcher"], d)]]
  /\ FailWaiting(k, s, d)
  /\ UNCHANGED <<store, writes, since>>

MatcherRejects(k, s) ==
  /\ slot[k][s]["matcher"].st = "rejecting"
  /\ slot' = [slot EXCEPT ![k][s]["matcher"] = Dropped(@)]
  /\ FailWaiting(k, s, "matcher")
  /\ UNCHANGED <<store, writes, fails, since>>

-----------------------------------------------------------------------------
(* Somebody grants or revokes. *)

Toggled(S, x) == (S \ {x}) \cup ({x} \ S)

Write(s) ==
  /\ writes < MaxWrites /\ writes' = writes + 1
  /\ \/ \E r \in Role : app' = [app EXCEPT ![s] = Toggled(@, r)] /\ UNCHANGED <<roles, perms>>
     \/ \E r \in Role : roles' = [roles EXCEPT ![s] = Toggled(@, r)] /\ UNCHANGED <<app, perms>>
     \/ \E p \in Perm : perms' = [perms EXCEPT ![s] = Toggled(@, p)] /\ UNCHANGED <<app, roles>>
  /\ since' = [k \in Cache |-> IF since[k] = {} THEN {} ELSE since[k] \cup {State'}]
  /\ UNCHANGED <<slot, check, fails>>

Settle(k, s) == ReadApp(k, s) \/ ReadRoles(k, s) \/ ReadPerms(k, s) \/ MatcherGoesOn(k, s)
                  \/ MatcherRejects(k, s)

Next ==
  \/ \E c \in Check, q \in Request \cup {None}, op \in Op, given \in Given :
       Start(c, q, op, given)
  \/ \E c \in Check : Resume(c)
  \/ \E k \in Cache, s \in Scope : Settle(k, s)
  \/ \E k \in Cache, s \in Scope, d \in {"roles", "perms"} : ReadFails(k, s, d)
  \/ \E s \in Scope : Write(s)

(* Every read settles and every continuation is run. *)
Fairness ==
  /\ \A c \in Check : WF_vars(Resume(c))
  /\ \A k \in Cache, s \in Scope : WF_vars(ReadApp(k, s) \/ ReadRoles(k, s))
                                   /\ WF_vars(ReadPerms(k, s))
                                   /\ WF_vars(MatcherGoesOn(k, s) \/ MatcherRejects(k, s))

Spec == Init /\ [][Next]_vars /\ Fairness

-----------------------------------------------------------------------------
(* Properties. *)

TypeOK ==
  /\ \A x \in {app, roles} : x \in [Scope -> SUBSET Role]
  /\ perms \in [Scope -> SUBSET Perm]
  /\ \A k \in Cache, s \in Scope, d \in Dim :
       /\ slot[k][s][d].st \in {"none", "app", "store", "ok", "roles", "perms", "rejecting"}
       /\ slot[k][s][d].value \subseteq IF d = "roles" THEN Role ELSE Perm
  /\ \A c \in Check : check[c].pc \in {"idle", "awaiting", "answered", "failed"}
  /\ writes \in 0 .. MaxWrites /\ fails \in 0 .. MaxFail

Answered(c) == check[c].pc = "answered"

(* What an answer is made of: hasRole's roles, or the permissions that the   *)
(* other calls match against.                                                *)
Answer(c) == IF check[c].kind = "roles" THEN check[c].roles
             ELSE check[c].perms \cup Grants(check[c].roles)

(* "All checks in one request share a single read": for each tenant at most  *)
(* one read per dimension is begun in a request and does not fail, however   *)
(* its checks overlap.                                                       *)
OneRead == \A k \in Cache, s \in Scope, d \in Dim : slot[k][s][d].reads <= 1

(* Snapshot semantics: the checks of one request about one tenant, early or  *)
(* late, answer from the same roles and the same permissions, whatever is    *)
(* granted or revoked between them and whichever reads failed.               *)
SameAnswers ==
  \A c, d \in Check :
    /\ Answered(c) /\ Answered(d)
    /\ check[c].home = check[d].home /\ check[c].scope = check[d].scope
    /\ check[c].kind = check[d].kind
    => Answer(c) = Answer(d)

(* "A grant or revocation made mid-request applies from the next request": an*)
(* answer is made of what the application and the store said of the check's  *)
(* own tenant, each at some moment since its request began to ask.           *)
AnswersWithinRequest ==
  \A c \in Check : Answered(c) =>
    \E x, y, z \in since[check[c].home] :
      LET held == ContextRoles \cup x.app[check[c].scope] \cup y.roles[check[c].scope]
      IN  Answer(c) = IF check[c].kind = "roles" THEN held
                      ELSE z.perms[check[c].scope] \cup Grants(held)

(* "A rejected read is dropped so the next check retries it": a check fails  *)
(* only for a read that failed after it began, or because it joined a matcher*)
(* that was already rejecting.                                               *)
FailsAfresh == \A c \in Check : check[c].pc = "failed" => check[c].from < fails \/ check[c].late

(* No check waits for ever on a promise it shares.                           *)
ChecksEnd == \A c \in Check : check[c].pc = "awaiting" ~> check[c].pc \in {"answered", "failed"}
=============================================================================
