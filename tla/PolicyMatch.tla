----------------------------- MODULE PolicyMatch -----------------------------
(***************************************************************************)
(* How one Cedar policy is matched against one request: the scope clauses, *)
(* the when/unless clauses and their conjunction                           *)
(* (nxe_cedar_eval.c, "scope matching" to nxe_cedar_policy_matches).       *)
(*                                                                         *)
(* An entity is a record [type, id].  A parents list is a sequence of      *)
(* entities, <<>> standing for a NULL array.  A scope clause is a record   *)
(* [constraint, type, target]; its target is a node of the policy's tree,  *)
(* [node |-> "entity_ref", uid |-> entity], [node |-> "set", elts |-> ...] *)
(* or [node |-> "null"].  The value of a condition is a record with a      *)
(* field "type" and, when that is "BOOL", a field "b".                     *)
(***************************************************************************)
EXTENDS Naturals, Sequences

(* Reflexive, then one scan of the flat parents list: the list is the      *)
(* closure the caller supplies, nothing is followed from it.               *)
EntityInTarget(entity, parents, target) ==
  entity = target \/ \E k \in DOMAIN parents : parents[k] = target

InEntityRef(entity, parents, target) ==
  target.node = "entity_ref" /\ EntityInTarget(entity, parents, target.uid)

InTarget(entity, parents, target) ==
  \/ InEntityRef(entity, parents, target)
  \/ /\ target.node = "set"
     /\ \E k \in DOMAIN target.elts :
          InEntityRef(entity, parents, target.elts[k])

ScopeMatches(scope, entity, parents) ==
  LET constraint == scope.constraint  target == scope.target IN
  \/ constraint = "none"
  \/ constraint = "is" /\ entity.type = scope.type
  \/ constraint = "is_in" /\ entity.type = scope.type
                          /\ InEntityRef(entity, parents, target)
  \/ constraint = "eq" /\ target.node = "entity_ref" /\ entity = target.uid
  \/ constraint = "in" /\ InTarget(entity, parents, target)

(* A condition that errors or is not a Boolean never matches, whichever    *)
(* keyword introduces it.                                                  *)
ConditionMatches(isUnless, val) ==
  val.type = "BOOL" /\ val.b # isUnless

(* The value of a condition when the pool cannot serve the allocations it  *)
(* makes: every allocation the evaluator attempts ends in an error value   *)
(* that the operators around it propagate.                                 *)
ConditionValue(cond, outOfMemory) ==
  IF outOfMemory /\ cond.allocates THEN [type |-> "ERROR"] ELSE cond.val

ScopesMatch(policy, ctx) ==
  /\ ScopeMatches(policy.principal, ctx.principal, ctx.principal_parents)
  /\ ScopeMatches(policy.action, ctx.action, ctx.action_parents)
  /\ ScopeMatches(policy.resource, ctx.resource, ctx.resource_parents)

PolicyMatches(policy, ctx, outOfMemory) ==
  /\ ScopesMatch(policy, ctx)
  /\ \A k \in DOMAIN policy.conditions :
       LET cond == policy.conditions[k] IN
       ConditionMatches(cond.is_unless, ConditionValue(cond, outOfMemory))
==============================================================================
