----------------------------- MODULE RowScopes -----------------------------
(***************************************************************************)
(* Row scopes and their SQL.  A scope is "all", "none", or a tree of       *)
(* conditions under AND and OR groups.  applyScopeConstraint turns it into *)
(* clauses of a query builder: a sequence in which each clause says with   *)
(* which operator it joins the one before, and in which a group that gets  *)
(* no clause at all is left out by the builder.                            *)
(*                                                                         *)
(* Truth is SQL's: False < Unknown < True, AND is the least, OR the        *)
(* greatest, and only rows that come out True are returned.  A row maps    *)
(* columns to numbers, Null among them.                                    *)
(***************************************************************************)
EXTENDS Integers, Sequences

CONSTANT Null

False == 0
Unknown == 1
True == 2

Least(S) == CHOOSE x \in S : \A y \in S : x <= y
Greatest(S) == CHOOSE x \in S : \A y \in S : x >= y
Truth(b) == IF b THEN True ELSE False

(* The comparison itself, between numbers. *)
Compare(op, x, v) ==
  CASE op = "eq"  -> x = v
    [] op = "ne"  -> x # v
    [] op = "lt"  -> x < v
    [] op = "lte" -> x <= v
    [] op = "gt"  -> x > v
    [] op = "gte" -> x >= v

-----------------------------------------------------------------------------
(* Building scopes.  A condition is [kind, field, op, value]; the value of *)
(* "in" and "nin" is a sequence.                                           *)

All == [kind |-> "all"]
None == [kind |-> "none"]

Where(field, op, value) ==
  [kind |-> "condition", field |-> field, op |-> op, value |-> value]

(* No node is the group's identity, a single one stands for itself. *)
Grouped(kind, nodes) == CASE nodes = <<>> -> IF kind = "and" THEN All ELSE None
                          [] Len(nodes) = 1 -> nodes[1]
                          [] OTHER -> [kind |-> kind, nodes |-> nodes]

-----------------------------------------------------------------------------
(* Compiling scopes to clauses. *)

Clause(kind, x) == [join |-> "and", kind |-> kind, body |-> x]
Never == Clause("never", <<>>)                    \* 1 = 0

ApplyCondition(c) ==
  IF c.op \in {"in", "nin"} /\ c.value = <<>>
    THEN IF c.op = "in" THEN <<Never>> ELSE <<>>
    ELSE <<Clause("condition", c)>>

RECURSIVE Concat(_)
Concat(ss) == IF ss = <<>> THEN <<>> ELSE ss[1] \o Concat(Tail(ss))

(* Mutant: the alternatives are joined by AND. *)
JoinOfAnd(i) == "and"

JoinOf(i) == IF i = 1 THEN "and" ELSE "or"

(* The clauses a node adds to the builder it is applied to. *)
RECURSIVE ApplyNode(_)
ApplyNode(n) ==
  IF n.kind = "condition" THEN ApplyCondition(n)
  ELSE IF n.nodes = <<>> THEN IF n.kind = "or" THEN <<Never>> ELSE <<>>
  ELSE LET children == [i \in DOMAIN n.nodes |-> ApplyNode(n.nodes[i])]
       IN  <<Clause("group",
               IF n.kind = "and" THEN Concat(children)
               ELSE [i \in DOMAIN children |->
                       [Clause("group", children[i]) EXCEPT !.join = JoinOf(i)]])>>

(* Mutant: the scope's clauses are not wrapped in a group of their own. *)
ApplyScopeUngrouped(query, scope) ==
  CASE scope.kind = "all"  -> query
    [] scope.kind = "none" -> query \o <<Never>>
    [] scope.kind = "or"   -> query \o ApplyNode(scope)[1].body
    [] OTHER               -> query \o ApplyNode(scope)

ApplyScopeConstraint(query, scope) ==
  CASE scope.kind = "all"  -> query
    [] scope.kind = "none" -> query \o <<Clause("group", <<Never>>)>>
    [] OTHER               -> query \o <<Clause("group", ApplyNode(scope))>>

-----------------------------------------------------------------------------
(* What the database makes of a condition and of a query (external).  The    *)
(* query builder writes = NULL as IS NULL, != NULL as IS NOT NULL.           *)

SqlCondition(c, row) ==
  LET x == row[c.field]
      null == c.op \in {"isNull", "isNotNull"} \/ (c.op \in {"eq", "ne"} /\ c.value = Null)
      listed == {c.value[i] : i \in DOMAIN c.value}
      isIn == IF x = Null THEN Unknown
              ELSE IF x \in listed THEN True
              ELSE IF Null \in listed THEN Unknown ELSE False
  IN  CASE null          -> Truth((x = Null) = (c.op \in {"isNull", "eq"}))
        [] c.op = "in"   -> isIn
        [] c.op = "nin"  -> True - isIn
        [] ~null /\ c.op \notin {"in", "nin"} ->
             IF Null \in {x, c.value} THEN Unknown ELSE Truth(Compare(c.op, x, c.value))

(* A group of nothing but such groups is no clause. *)
RECURSIVE Vanishes(_)
Vanishes(c) == c.kind = "group" /\ \A i \in DOMAIN c.body : Vanishes(c.body[i])

(* AND binds tighter than OR: a clause joined by OR opens a new alternative.*)
RECURSIVE SqlHolds(_, _)
SqlHolds(clauses, row) ==
  LET live == SelectSeq(clauses, LAMBDA c : ~Vanishes(c))
      value(c) == CASE c.kind = "condition" -> SqlCondition(c.body, row)
                    [] c.kind = "never"     -> False
                    [] c.kind = "group"     -> SqlHolds(c.body, row)
      opens == {1} \cup {i \in DOMAIN live : live[i].join = "or"}
      together(s) == {j \in DOMAIN live : j >= s /\ \A k \in opens : k <= s \/ k > j}
  IN  IF live = <<>> THEN True
      ELSE Greatest({Least({value(live[j]) : j \in together(s)}) : s \in opens})

-----------------------------------------------------------------------------
(* What a scope means, from its definition: an empty AND holds, an empty OR*)
(* does not, "in" an empty list is false and "nin" an empty list true.     *)
RECURSIVE ScopeHolds(_, _)
ScopeHolds(n, row) ==
  CASE n.kind = "all"  -> True
    [] n.kind = "none" -> False
    [] n.kind = "and"  -> Least({True} \cup {ScopeHolds(n.nodes[i], row) : i \in DOMAIN n.nodes})
    [] n.kind = "or"   -> Greatest({False} \cup {ScopeHolds(n.nodes[i], row) : i \in DOMAIN n.nodes})
    [] n.kind = "condition" /\ n.op \in {"in", "nin"} /\ n.value = <<>> -> Truth(n.op = "nin")
    [] OTHER -> SqlCondition(n, row)

(* An OR with an alternative that adds no clause, which the builder drops. *)
RECURSIVE LosesAlternative(_)
LosesAlternative(n) ==
  /\ n.kind \in {"and", "or"}
  /\ \E i \in DOMAIN n.nodes :
       \/ LosesAlternative(n.nodes[i])
       \/ n.kind = "or" /\ \A k \in DOMAIN ApplyNode(n.nodes[i]) : Vanishes(ApplyNode(n.nodes[i])[k])
=============================================================================
