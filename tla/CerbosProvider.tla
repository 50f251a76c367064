--------------------------- MODULE CerbosProvider ---------------------------
(***************************************************************************)
(* CerbosDecisionProvider's batch: the requests that map to a resource are *)
(* grouped by resource, asked about in chunks, and each gets back the      *)
(* answer for its resource and action.  A request is [key, attr, action];  *)
(* its key is None when it maps to no resource.  e is the world:           *)
(*   client, principal: whether there is one;  onFailure: "deny", "abstain"*)
(*   maxBatchSize;  down: the keys on which a call with them throws        *)
(*   silent: the keys without an answer;  policy: what is allowed          *)
(***************************************************************************)
EXTENDS Integers, Sequences, Listing

CONSTANT Nobody      \* no resource

FailureVerdict(e) == IF e.onFailure = "abstain" THEN "abstain" ELSE "deny"
Batch(e) == IF e.maxBatchSize < 1 THEN 1 ELSE e.maxBatchSize

(* One check per distinct resource, the first request's, with every action   *)
(* asked about it, in the order of the requests.                             *)
Checks(requests) ==
  LET keys == [i \in DOMAIN requests |-> requests[i].key]
      checks == [i \in DOMAIN requests |->
                   [key |-> keys[i], attr |-> requests[i].attr,
                    actions |-> {requests[j].action : j \in {x \in DOMAIN keys : keys[x] = keys[i]}}]]
  IN  Kept(checks, Firsts(keys, {i \in DOMAIN keys : keys[i] # Nobody}))

Slice(all, first, length) == {all[i] : i \in DOMAIN all \cap first .. (first + length - 1)}

(* Mutant: the next chunk starts one too far. *)
ChunkSkipping(e, all, n) == Slice(all, n * (Batch(e) + 1) + 1, Batch(e))

(* The n-th slice of maxBatchSize checks. *)
Chunk(e, all, n) == Slice(all, n * Batch(e) + 1, Batch(e))

Silent(e, chunk) == {c \in chunk : c.key \in e.silent}

(* One call: the answers it gives, none when it throws. *)
CheckResources(e, chunk) ==
  IF \E c \in chunk : c.key \in e.down THEN {}
  ELSE UNION {{[key |-> c.key, action |-> a, allowed |-> <<c.attr, a>> \in e.policy] :
                 a \in c.actions} : c \in chunk \ Silent(e, chunk)}

DecideMany(e, requests) ==
  LET all == Checks(requests)
      answers == UNION {CheckResources(e, Chunk(e, all, n)) : n \in 0 .. Len(all)}
      verdict(r) ==
        IF \E a \in answers : a.key = r.key /\ a.action = r.action
          THEN LET a == CHOOSE a \in answers : a.key = r.key /\ a.action = r.action
               IN  IF a.allowed THEN "allow" ELSE "deny"
          ELSE FailureVerdict(e)
  IN  [i \in DOMAIN requests |->
         IF requests[i].key = Nobody \/ ~e.client \/ ~e.principal THEN "abstain"
         ELSE verdict(requests[i])]

Decide(e, request) == DecideMany(e, <<request>>)[1]
=============================================================================
