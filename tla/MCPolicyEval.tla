----------------------------- MODULE MCPolicyEval -----------------------------
(* A small instance of PolicyEval: four policies that match by scope or by *)
(* condition, with and without allocating, for three requests.             *)
EXTENDS PolicyEval

Group == [type |-> "Group", id |-> "staff"]
Alice == [type |-> "User", id |-> "alice"]
Read  == [type |-> "Action", id |-> "read"]
Doc   == [type |-> "Doc", id |-> "d1"]

Request3(principal, parents) ==
  [principal |-> principal, principal_parents |-> parents,
   action |-> Read, action_parents |-> <<>>,
   resource |-> Doc, resource_parents |-> <<>>]

MCContext ==
  {Request3(Alice, <<>>), Request3(Alice, <<Group>>),
   Request3([type |-> "Robot", id |-> "alice"], <<Group>>)}

Anything == [constraint |-> "none", type |-> "", target |-> [node |-> "null"]]
InGroup  == [constraint |-> "in", type |-> "",
             target |-> [node |-> "set", elts |->
                           <<[node |-> "entity_ref", uid |-> Group]>>]]
IsUser   == [constraint |-> "is", type |-> "User", target |-> [node |-> "null"]]
OnDoc    == [constraint |-> "eq", type |-> "",
             target |-> [node |-> "entity_ref", uid |-> Doc]]

Cond(unless, b) ==
  [is_unless |-> unless, allocates |-> TRUE, val |-> [type |-> "BOOL", b |-> b]]
Failing ==
  [is_unless |-> TRUE, allocates |-> FALSE, val |-> [type |-> "ERROR"]]

MkPolicy(effect, principal, resource, conds) ==
  [effect |-> effect, principal |-> principal, action |-> Anything,
   resource |-> resource, conditions |-> conds]

MCPolicy ==
  {MkPolicy("permit", InGroup, OnDoc, <<>>),
   MkPolicy("permit", IsUser, Anything, <<Cond(FALSE, TRUE)>>),
   MkPolicy("forbid", InGroup, Anything, <<Cond(TRUE, FALSE)>>),
   MkPolicy("forbid", IsUser, Anything, <<Failing>>)}

(* What the comment on the evaluator says of an evaluation cut short       *)
(* (expr.c:2363-2365), that its error "propagates to the policy as deny":  *)
(* a forbid whose scope matches and whose condition errs should deny.  The *)
(* code takes the condition as not satisfied (eval.c:188-190), as it does  *)
(* for every error, and the forbid forbids nothing.                        *)
ErroredForbidDenies ==
  pc = "idle" /\ decision = "ALLOW" =>
    \A j \in DOMAIN policies :
      policies[j].effect = "forbid" /\ ScopesMatch(policies[j], ctx) =>
        \A k \in DOMAIN policies[j].conditions :
          policies[j].conditions[k].val.type # "ERROR"
===============================================================================
