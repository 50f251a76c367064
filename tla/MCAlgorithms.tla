---------------------------- MODULE MCAlgorithms ----------------------------
(***************************************************************************)
(* The pure algorithms against what they are documented to compute, on     *)
(* every input of the bounded sets below.                                  *)
(***************************************************************************)
EXTENDS Agreements, CerbosPlan

CONSTANTS segA, segB, permX, permY

SeqsUpTo(S, n) == UNION {[1 .. k -> S] : k \in 0 .. n}
UpTo(S, n) == {Segments(s) : s \in SeqsUpTo(S, n)}

-----------------------------------------------------------------------------
(* Permissions of up to three segments; grants in pairs. *)

Perms(S, n) == UNION {[1 .. k -> S] : k \in 1 .. n}

MatchInputs ==
  [alg : {"match"}, granted : UpTo(Perms({segA, segB, Star}, 3), 2),
   required : Perms({segA, segB}, 3)]

(* A page's list of grants, and the same array later on. *)
SharedInputs ==
  [alg : {"shared"}, first : SeqsUpTo(Perms({segA, Star}, 2), 2),
   later : SeqsUpTo(Perms({segA, Star}, 2), 2), required : Perms({segA}, 2)]

-----------------------------------------------------------------------------
(* Decisions on two permissions, the second granted to a role.             *)

P == {<<permX>>, <<permY>>}
Verdicts == {"allow", "deny", "none"}
RawVerdicts == {[kind |-> "nullish", allowed |-> FALSE], [kind |-> "throws", allowed |-> FALSE],
                [kind |-> "object", allowed |-> TRUE], [kind |-> "object", allowed |-> FALSE]}
Abstain == [q \in P |-> [kind |-> "nullish", allowed |-> FALSE]]

Env(provider, decide, many, hook, plan, filter) ==
  [alg : {"decision"}, user : {"none", "unmapped", "known"}, hook : hook,
   context : SUBSET {"member"}, superRoles : SUBSET {"member"}, app : SUBSET {"member"},
   store : SUBSET {"member"}, granted : {{}, {<<permX>>}},
   grants : {[r \in {"member"} |-> {<<permY>>}]}, provider : {provider},
   decide : decide, many : many, plan : plan, filter : filter]

(* Batches of three permissions, of which the hook takes any out. *)
MixedBatches ==
  LET Three == P \cup {<<permX, permY>>}
  IN  [alg : {"decision"}, user : {"known"}, hook : [Three -> {"none", "allow"}],
       context : {{}}, superRoles : {{}}, app : {{}}, store : SUBSET {"member"},
       granted : {{<<permX, Star>>}}, grants : {[r \in {"member"} |-> {<<permY>>}]},
       provider : {"batch"}, decide : [Three -> RawVerdicts], many : {"ok", "throws", "short"},
       plan : {"abstain"}, filter : {"rows"}]

DecisionInputs ==
  LET hooks == [P -> Verdicts]
      raw == [P -> RawVerdicts]
  IN  Env("none", {Abstain}, {"ok"}, hooks, {"abstain"}, {"rows"})
        \cup Env("single", raw, {"ok"}, [P -> {"none", "deny"}], {"abstain"}, {"rows"})
        \cup Env("batch", raw, {"ok", "throws", "short"}, [P -> {"none", "allow"}],
                 {"abstain"}, {"rows"})
        \cup Env("single", {Abstain}, {"ok"}, {[q \in P |-> w] : w \in Verdicts},
                 {"abstain", "all", "none", "rows"},
                 {"unregistered", "null", "false", "true", "rows"})
        \cup MixedBatches

-----------------------------------------------------------------------------
(* The members of a role, as the store and the resolvers list them. *)

Refs1 == [type : {<<>>, <<"user">>, <<"team">>}, id : {<<"1">>, <<"2">>}]

MemberInputs ==
  [alg : {"members"}, store : SeqsUpTo(Refs1, 2), members : SeqsUpTo(Refs1, 1),
   globals : SeqsUpTo(Refs1, 1)]

-----------------------------------------------------------------------------
(* Scopes of two levels of groups, on rows with a number n and a flag m.    *)

ValueRows == [n : {Null, 0, 1, 2}, m : {Null, 0, 1}]

Leaves ==
  {Where("n", "eq", 1), Where("n", "nin", <<>>), Where("n", "in", <<>>), Where("n", "isNull", Null)}
AnyLeaves ==
  {Where("n", op, w) : op \in {"eq", "ne", "lt", "lte", "gt", "gte"}, w \in {1, Null}}
    \cup {Where("n", op, w) : op \in {"in", "nin"}, w \in {<<>>, <<1>>, <<0, Null>>}}
    \cup {Where("n", op, Null) : op \in {"isNull", "isNotNull"}}

Groups(S) == [kind : {"and", "or"}, nodes : SeqsUpTo(S, 2)]
Made(S) == {Grouped(kind, nodes) : kind \in {"and", "or"}, nodes \in SeqsUpTo(S, 2)}

SqlInputs ==
  [alg : {"sql"}, query : {<<>>, <<Clause("condition", Where("m", "eq", 1))>>},
   scope : AnyLeaves \cup Made(AnyLeaves) \cup Groups(Leaves \cup Groups(Leaves))]

Built == ApplyScopeConstraint(input.query, input.scope)
Meant(row) == Least({SqlHolds(input.query, row), ScopeHolds(input.scope, row)})

(* Adding a scope to a query, never a row comes back that the query or the   *)
(* scope excludes, whatever is null.                                         *)
SqlNeverWidens ==
  input.alg = "sql" =>
    \A row \in ValueRows : SqlHolds(Built, row) = True => Meant(row) = True

(* And every row comes back that both admit, unless the scope has an OR with *)
(* an alternative that always holds, which the builder loses.                *)
SqlExact ==
  input.alg = "sql" /\ ~LosesAlternative(input.scope) =>
    \A row \in ValueRows : Meant(row) = True => SqlHolds(Built, row) = True

-----------------------------------------------------------------------------
(* Query plans of a comparison, and of up to two levels over a few of them.  *)

N == Variable("n")
Comparisons ==
  {Expr(op, args) : op \in DOMAIN COMPARISON \ {"in"},
     args \in UNION {{<<w, Lit(k)>>, <<Lit(k), w>>} :
                       w \in {N, Variable("nested")}, k \in {1, Null}}}
    \cup {Expr("in", <<N, ListOf(values)>>) : values \in {<<>>, <<1>>, <<0, 2>>}}
    \cup {Expr("in", <<Lit(1), N>>), Expr("in", <<N, Lit(1)>>), Expr("in", <<N, Lit(Null)>>),
           Expr("eq", <<N, N>>), Expr("size", <<N>>), Lit(1)}
    \cup {Bool(0), Bool(1), Variable("m")}
Few == {Expr("eq", <<N, Lit(1)>>), Expr("le", <<Lit(1), N>>), Expr("eq", <<N, Lit(Null)>>),
        Expr("in", <<N, ListOf(<<1>>)>>), Bool(1), Variable("m")}
Composed(S) ==
  {Expr("not", <<o>>) : o \in S} \cup {Expr(op, os) : op \in {"and", "or"}, os \in SeqsUpTo(S, 2)}

WithNull == Expr("in", <<N, ListOf(<<1, Null>>)>>)

PlanInputs ==
  [alg : {"plan with a null in a list"}, onFailure : {"deny"},
   plan : [kind : {"KIND_CONDITIONAL"},
           condition : Composed({WithNull, N}) \cup Composed(Composed({WithNull}))]]
  \cup
  [alg : {"plan"}, onFailure : {"deny", "abstain"},
   plan : {[kind |-> k, condition |-> o] :
             k \in {"KIND_ALWAYS_ALLOWED", "KIND_ALWAYS_DENIED", "KIND_OTHER"}, o \in {Bool(1)}}
          \cup [kind : {"KIND_CONDITIONAL"},
                condition : Comparisons \cup Composed(Comparisons) \cup Composed(Composed(Few))]]

Planned == PlanScope(input.onFailure, input.plan)
Selects(row) == SqlHolds(ApplyScopeConstraint(<<>>, Planned), row) = True
Allows(row) ==
  CASE input.plan.kind = "KIND_ALWAYS_ALLOWED" -> TRUE
    [] input.plan.kind = "KIND_CONDITIONAL" -> EngineHolds(input.plan.condition, row) = True
    [] OTHER -> FALSE

(* The rows a query plan's scope selects are rows the engine would allow,    *)
(* with nulls on either side and NOT at any depth; a plan that cannot be     *)
(* expressed selects none, or leaves the rows to the service's own rules.    *)
PlanNeverWidens ==
  /\ input.alg \in {"plan", "plan with a null in a list"}
  /\ Planned # PlanAbstains
  => \A row \in ValueRows : Selects(row) => Allows(row)

(* And without nulls in the row and in lists, and unless an alternative that *)
(* always holds is lost, a plan that can be expressed selects all of them.   *)
PlanExact ==
  /\ input.alg = "plan" /\ CerbosPlanToScope(input.plan) # Unsupported
  /\ ~LosesAlternative(Planned)
  => \A row \in [n : {0, 1, 2}, m : {0, 1}] :
       Allows(row) => Selects(row)

-----------------------------------------------------------------------------
(* Batches of the Cerbos provider. *)

Resources == {"k1", "k2", "k3"}

CerbosInputs ==
  [alg : {"cerbos"}, client : {TRUE}, principal : {TRUE}, onFailure : {"deny", "abstain"},
   maxBatchSize : 0 .. 2, down : SUBSET {"k1"}, silent : SUBSET {"k2"},
   policy : {{<<"k1", "read">>, <<"k2", "read">>, <<"k3", "edit">>}},
   requests : SeqsUpTo([key : {Nobody}, attr : {Nobody}, action : {"read"}]
                         \cup {[key |-> k, attr |-> k, action |-> act] :
                                 k \in Resources, act \in {"read", "edit"}}, 3)]
  \cup
  {[alg |-> "cerbos", client |-> c, principal |-> ~c, onFailure |-> "deny", maxBatchSize |-> 1,
    down |-> {"k1"}, silent |-> {}, policy |-> {<<"k1", "read">>},
    requests |-> <<[key |-> "k1", attr |-> "k1", action |-> "read"]>>] : c \in BOOLEAN}

-----------------------------------------------------------------------------
(* The reads of the stores, on small databases. *)

MCSubject == {[type |-> "user", id |-> "1"], [type |-> "team", id |-> "1"]}

StoreInputs ==
  {[alg |-> "store", column |-> column, db |-> names \cup grants \cup direct \cup assigned] :
     column \in {"text", "number"},
     names \in {{Named(1, "r1"), Named(3, "p1")},
                {Named(1, "r1"), Named(2, "r2"), Named(3, "p1")}},
     grants \in SUBSET {Granted(1, 3)},
     direct \in SUBSET {Direct([type |-> "team", id |-> "1"], 3)},
     assigned \in UpTo({Assigned(s, r, t, m) : s \in MCSubject, r \in {1, 2}, t \in Tenant,
                                              m \in Source}, 3)}

-----------------------------------------------------------------------------

Init == input = [alg |-> "none"]

Choose(S) == input.alg = "none" /\ input' \in S

Next ==
  \/ Choose(MatchInputs)  \/ Choose(SharedInputs) \/ Choose(DecisionInputs)
  \/ Choose(MemberInputs) \/ Choose(SqlInputs)    \/ Choose(PlanInputs)
  \/ Choose(CerbosInputs) \/ Choose(StoreInputs)

Spec == Init /\ [][Next]_input
=============================================================================
