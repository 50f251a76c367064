----------------------------- MODULE CerbosPlan -----------------------------
(***************************************************************************)
(* A Cerbos query plan turned into a row scope, and what both mean.  An    *)
(* operand of a plan is a value, a variable, or an operator with operands. *)
(* Booleans are the values 0 and 1, marked as such, a list is a sequence.  *)
(***************************************************************************)
EXTENDS RowScopes

CONSTANT Mapped     \* the attributes that map to a column

Lit(v) == [kind |-> "value", type |-> "scalar", value |-> v]
ListOf(values) == [kind |-> "value", type |-> "list", value |-> values]
Bool(b) == [kind |-> "value", type |-> "boolean", value |-> b]
Variable(name) == [kind |-> "variable", name |-> name]
Expr(operator, operands) ==
  [kind |-> "expression", operator |-> operator, operands |-> operands]

(* cerbosPlanToScope throws. *)
Unsupported == [kind |-> "unsupported"]

COMPARISON == [eq |-> "eq", ne |-> "ne", lt |-> "lt", gt |-> "gt", le |-> "lte", ge |-> "gte",
               in |-> "in"]

(* Mutant: the boundary goes to both sides. *)
NegatedLoose == [eq |-> "ne", ne |-> "eq", lt |-> "gt", gte |-> "lt", gt |-> "lte", lte |-> "gt",
            in |-> "nin", nin |-> "in", isNull |-> "isNotNull", isNotNull |-> "isNull"]

NEGATED == [eq |-> "ne", ne |-> "eq", lt |-> "gte", gte |-> "lt", gt |-> "lte", lte |-> "gt",
            in |-> "nin", nin |-> "in", isNull |-> "isNotNull", isNotNull |-> "isNull"]

FLIPPED == [eq |-> "eq", ne |-> "ne", lt |-> "gt", gt |-> "lt", lte |-> "gte", gte |-> "lte"]

Always(allowed) == [kind |-> IF allowed THEN "and" ELSE "or", nodes |-> <<>>]

Leaf(name, op, value) == IF name \in Mapped THEN Where(name, op, value) ELSE Unsupported

(* One attribute against one value, in either order. *)
Comparison(o, negate) ==
  LET left == o.operands[1]
      right == o.operands[2]
      straight == left.kind = "variable" /\ right.kind = "value"
      turned == left.kind = "value" /\ right.kind = "variable"
      op == COMPARISON[o.operator]
      name == IF straight THEN left.name ELSE right.name
      operand == IF straight THEN right ELSE left
      value == operand.value
      sided == IF straight THEN op ELSE FLIPPED[op]
      effective == IF sided # "in" /\ value = Null /\ sided \in {"eq", "ne"}
                     THEN IF sided = "eq" THEN "isNull" ELSE "isNotNull"
                     ELSE sided
  IN  IF Len(o.operands) # 2 \/ ~(straight \/ turned) THEN Unsupported
      ELSE IF turned /\ op \notin DOMAIN FLIPPED THEN Unsupported
      ELSE IF effective = "in" /\ operand.type # "list" THEN Unsupported
      ELSE Leaf(name, IF negate THEN NEGATED[effective] ELSE effective, value)

(* Mutant: a negated AND stays an AND. *)
GroupOfSame(operator, negate) == operator

(* De Morgan. *)
GroupOf(operator, negate) ==
  IF negate THEN IF operator = "and" THEN "or" ELSE "and" ELSE operator

RECURSIVE ToNode(_, _)
ToNode(o, negate) ==
  CASE o.kind = "value" -> IF o.type = "boolean" THEN Always((o.value = 1) # negate) ELSE Unsupported
    [] o.kind = "variable" -> Leaf(o.name, "eq", IF negate THEN 0 ELSE 1)
    [] o.kind = "expression" /\ o.operator = "not" ->
         IF Len(o.operands) # 1 THEN Unsupported ELSE ToNode(o.operands[1], ~negate)
    [] o.kind = "expression" /\ o.operator \in {"and", "or"} ->
         LET nodes == [i \in DOMAIN o.operands |-> ToNode(o.operands[i], negate)]
         IN  IF \E i \in DOMAIN nodes : nodes[i] = Unsupported THEN Unsupported
             ELSE [kind |-> GroupOf(o.operator, negate), nodes |-> nodes]
    [] o.kind = "expression" /\ o.operator \in DOMAIN COMPARISON -> Comparison(o, negate)
    [] OTHER -> Unsupported

(* A plan is "KIND_ALWAYS_ALLOWED", "KIND_ALWAYS_DENIED" or a condition. *)
CerbosPlanToScope(plan) ==
  CASE plan.kind = "KIND_ALWAYS_ALLOWED" -> All
    [] plan.kind = "KIND_ALWAYS_DENIED"  -> None
    [] plan.kind = "KIND_CONDITIONAL"    -> ToNode(plan.condition, FALSE)
    [] OTHER -> Unsupported

(* planScope, for an engine that answers with this plan: a plan that cannot  *)
(* be expressed counts as a failure of the engine, as one that throws does.  *)
PlanAbstains == [kind |-> "abstain"]

PlanScope(onFailure, plan) ==
  LET scope == CerbosPlanToScope(plan)
  IN  IF scope # Unsupported THEN scope
      ELSE IF onFailure = "abstain" THEN PlanAbstains ELSE None

-----------------------------------------------------------------------------
(* What the engine decides of one row (external): null is a value that      *)
(* equals itself only and has no order, an error is Unknown, and only True  *)
(* allows.                                                                  *)

EngineValue(o, row) == IF o.kind = "variable" THEN row[o.name] ELSE o.value

RECURSIVE EngineHolds(_, _)
EngineHolds(o, row) ==
  CASE o.kind = "value" -> Truth(o.value = 1)
    [] o.kind = "variable" -> IF row[o.name] = Null THEN Unknown ELSE Truth(row[o.name] = 1)
    [] o.operator = "not" -> True - EngineHolds(o.operands[1], row)
    [] o.operator = "and" ->
         Least({True} \cup {EngineHolds(o.operands[i], row) : i \in DOMAIN o.operands})
    [] o.operator = "or" ->
         Greatest({False} \cup {EngineHolds(o.operands[i], row) : i \in DOMAIN o.operands})
    [] OTHER ->
         LET x == EngineValue(o.operands[1], row)
             y == EngineValue(o.operands[2], row)
             op == COMPARISON[o.operator]
             listed == o.operands[2].kind = "value" /\ o.operands[2].type = "list"
         IN  IF op = "in" THEN IF listed THEN Truth(\E i \in DOMAIN y : y[i] = x) ELSE Unknown
             ELSE IF op \in {"eq", "ne"} THEN Truth((x = y) = (op = "eq"))
             ELSE IF Null \in {x, y} THEN Unknown ELSE Truth(Compare(op, x, y))
=============================================================================
