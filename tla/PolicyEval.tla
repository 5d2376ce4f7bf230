------------------------------ MODULE PolicyEval ------------------------------
(***************************************************************************)
(* nxe_cedar_eval and nxe_cedar_eval_detail: the forbid pass, the permit   *)
(* pass and the list of deciding policies that the detail variant grows in *)
(* ctx->pool (nxe_cedar_detail_push).  One action is one iteration of a    *)
(* pass, the end of a pass, or a call; the nginx pool, which may refuse    *)
(* any allocation, is the environment.                                     *)
(***************************************************************************)
EXTENDS PolicyMatch, FiniteSets

CONSTANTS
  Policy,        \* policies: [effect, principal, action, resource, conditions]
  Context,       \* evaluation contexts: the request's entities and parents
  MaxPolicies,   \* NXE_CEDAR_MAX_POLICIES
  InitialCap     \* capacity of the first list (4 in the source)

ASSUME PolicyAssumption == \A p \in Policy : p.effect \in {"permit", "forbid"}
ASSUME BoundsAssumption == MaxPolicies \in Nat /\ InitialCap \in Nat \ {0}

VARIABLES
  policies,      \* the policy set's array
  ctx,           \* the evaluation context
  detailed,      \* out # NULL
  pc,            \* "idle", or the pass being run: "forbid", "permit"
  i,             \* the loop index, from 1
  has,           \* has_forbid, then has_permit
  cap,           \* entries allocated for the list, as the loop believes
  out,           \* [policies |-> the array's cells, npolicies |-> cells used]
  decision,      \* the value last returned
  lost,          \* history: matches of this call lost to a failed allocation
  truncated      \* history: the list of this call was cut short

vars == <<policies, ctx, detailed, pc, i, has, cap, out, decision, lost,
          truncated>>

Index == 1..MaxPolicies
PolicySets == UNION {[1..n -> Policy] : n \in 0..MaxPolicies}
Unset == 0                                  \* a cell palloc left unwritten
NoDetail == [policies |-> <<>>, npolicies |-> 0]

-------------------------------------------------------------------------------
(* nxe_cedar_detail_push                                                   *)

Full(list, c) == list.npolicies >= c

\* Variant with a bug: doubling an empty list leaves it empty.
NewCapFromZero(c) == c * 2

NewCap(c) == IF c = 0 THEN InitialCap ELSE c * 2

\* palloc's fresh cells, the used ones copied over
Grown(list, newCap) ==
  [policies |-> [k \in 1..newCap |->
                   IF k <= list.npolicies THEN list.policies[k] ELSE Unset],
   npolicies |-> list.npolicies]

\* Variant with a bug: the loop has moved on before the policy is stored.
PushedLate(list, j) ==
  [policies  |-> [list.policies EXCEPT ![list.npolicies + 1] = j + 1],
   npolicies |-> list.npolicies + 1]

Pushed(list, j) ==
  [policies  |-> [list.policies EXCEPT ![list.npolicies + 1] = j],
   npolicies |-> list.npolicies + 1]

DetailPush(j) ==
  IF Full(out, cap)
  THEN /\ cap' = NewCap(cap)
       /\ out' = Pushed(Grown(out, NewCap(cap)), j)
  ELSE /\ cap' = cap
       /\ out' = Pushed(out, j)

-------------------------------------------------------------------------------
(* nxe_cedar_eval_detail                                                   *)

Matches(j, outOfMemory) == PolicyMatches(policies[j], ctx, outOfMemory)

Fallible(j) == Matches(j, FALSE) /\ ~Matches(j, TRUE)

\* Policy j is one the pass is about.
InPass(j) == policies[j].effect = pc

\* Variant with a bug: the permit pass returns what the forbid pass does.
PassDecisionCopied == "DENY"

PassDecision == IF pc = "forbid" THEN "DENY" ELSE "ALLOW"

Return(d) == pc' = "idle" /\ decision' = d

StartPass(pass) == pc' = pass /\ i' = 1 /\ has' = FALSE /\ cap' = 0

Call(ps, c, d) ==
  /\ pc = "idle"
  /\ policies' = ps /\ ctx' = c /\ detailed' = d
  /\ out' = IF d THEN NoDetail ELSE out
  /\ StartPass("forbid")
  /\ lost' = {} /\ truncated' = FALSE
  /\ UNCHANGED decision

\* policy_set, its array or ctx is NULL
CallNull(d) ==
  /\ pc = "idle"
  /\ policies' = <<>> /\ detailed' = d
  /\ out' = IF d THEN NoDetail ELSE out
  /\ Return("DENY")
  /\ lost' = {} /\ truncated' = FALSE
  /\ UNCHANGED <<ctx, i, has, cap>>

\* Variant with a bug: the last policy is never reached.
ExaminingButLast == pc # "idle" /\ i < Len(policies)

Examining == pc # "idle" /\ i <= Len(policies)

\* The policy is the other pass's, or does not match, or the pool refuses
\* an allocation one of its conditions needs.
SkipPolicy ==
  /\ Examining
  /\ \/ /\ ~(InPass(i) /\ Matches(i, FALSE))
        /\ UNCHANGED lost
     \/ /\ InPass(i) /\ Fallible(i)
        /\ lost' = lost \cup {i}
  /\ i' = i + 1
  /\ UNCHANGED <<policies, ctx, detailed, pc, has, cap, out, decision,
                 truncated>>

Matching == Examining /\ InPass(i) /\ Matches(i, FALSE)

\* out == NULL: the first match decides.
ReturnFirstMatch ==
  /\ Matching /\ ~detailed
  /\ has' = TRUE
  /\ Return(PassDecision)
  /\ UNCHANGED <<policies, ctx, detailed, i, cap, out, lost, truncated>>

ListMatch ==
  /\ Matching /\ detailed
  /\ has' = TRUE
  /\ DetailPush(i)
  /\ i' = i + 1
  /\ UNCHANGED <<policies, ctx, detailed, pc, decision, lost, truncated>>

\* Variant with a bug: the pass goes on after a failed push.
ListMatchFailsAndGoesOn ==
  /\ Matching /\ detailed /\ Full(out, cap)
  /\ has' = TRUE
  /\ truncated' = TRUE
  /\ i' = i + 1
  /\ UNCHANGED <<policies, ctx, detailed, pc, decision, cap, out, lost>>

\* palloc fails while the list is full: the pass ends with its decision.
ListMatchFails ==
  /\ Matching /\ detailed /\ Full(out, cap)
  /\ has' = TRUE
  /\ truncated' = TRUE
  /\ Return(PassDecision)
  /\ UNCHANGED <<policies, ctx, detailed, i, cap, out, lost>>

PassDone == pc # "idle" /\ i > Len(policies)

\* Variant with a bug: a permit overrides the forbids before it.
EndForbidPassAlwaysGoesOn ==
  /\ PassDone /\ pc = "forbid"
  /\ StartPass("permit") /\ UNCHANGED decision
  /\ UNCHANGED <<policies, ctx, detailed, out, lost, truncated>>

EndForbidPass ==
  /\ PassDone /\ pc = "forbid"
  /\ IF has THEN Return("DENY") /\ UNCHANGED <<i, has, cap>>
            ELSE StartPass("permit") /\ UNCHANGED decision
  /\ UNCHANGED <<policies, ctx, detailed, out, lost, truncated>>

EndPermitPass ==
  /\ PassDone /\ pc = "permit"
  /\ Return(IF has THEN "ALLOW" ELSE "DENY")
  /\ UNCHANGED <<policies, ctx, detailed, i, has, cap, out, lost, truncated>>

Init ==
  /\ policies = <<>> /\ ctx \in Context /\ detailed = FALSE
  /\ pc = "idle" /\ i = 1 /\ has = FALSE /\ cap = 0
  /\ out = NoDetail /\ decision = "DENY"
  /\ lost = {} /\ truncated = FALSE

\* What the evaluator does once called: nobody else runs until it returns.
Step ==
  \/ SkipPolicy
  \/ ReturnFirstMatch
  \/ ListMatch
  \/ ListMatchFails
  \/ EndForbidPass
  \/ EndPermitPass

Next ==
  \/ \E ps \in PolicySets, c \in Context, d \in BOOLEAN : Call(ps, c, d)
  \/ \E d \in BOOLEAN : CallNull(d)
  \/ Step

Spec == Init /\ [][Next]_vars

(* The evaluator is a call on the worker's only thread: once entered it    *)
(* runs, so a step of it that stays possible is taken.                     *)
FairSpec == Spec /\ WF_vars(Step)

-------------------------------------------------------------------------------
(* Properties                                                              *)

Contributing(effect) ==
  {j \in DOMAIN policies :
     policies[j].effect = effect /\ Matches(j, FALSE) /\ j \notin lost}

Listed == [k \in 1..out.npolicies |-> out.policies[k]]

Request ==
  [forbids     |-> {j \in DOMAIN policies :
                      policies[j].effect = "forbid" /\ Matches(j, FALSE)},
   permits     |-> {j \in DOMAIN policies :
                      policies[j].effect = "permit" /\ Matches(j, FALSE)},
   fallible    |-> {j \in DOMAIN policies : Fallible(j)},
   wantReasons |-> detailed]

Answer ==
  IF pc = "idle"
  THEN [decision |-> decision, reasons |-> IF detailed THEN Listed ELSE <<>>]
  ELSE [decision |-> "PENDING", reasons |-> <<>>]

Auth == INSTANCE Authorization WITH request <- Request, answer <- Answer

(* The variables hold what the C types and loops allow.                    *)
TypeOK ==
  /\ policies \in PolicySets /\ ctx \in Context /\ detailed \in BOOLEAN
  /\ pc \in {"idle", "forbid", "permit"}
  /\ i \in 1..MaxPolicies + 1 /\ has \in BOOLEAN /\ cap \in Nat
  /\ out \in [policies : Seq(Index \cup {Unset}), npolicies : 0..MaxPolicies]
  /\ decision \in {"ALLOW", "DENY"}
  /\ lost \in SUBSET Index /\ truncated \in BOOLEAN

(* The answer is ALLOW exactly when some permit contributes and no forbid  *)
(* does, counting as contributing every policy whose clauses all matched   *)
(* without running out of memory: neither the list's allocation failures   *)
(* nor the choice between the two variants of the call changes it          *)
(* (eval.c:1730, "allocation failure still produces a correct decision").  *)
DecisionSound ==
  pc = "idle" =>
    decision = IF Contributing("forbid") = {} /\ Contributing("permit") # {}
               THEN "ALLOW" ELSE "DENY"

(* The list names the contributing policies of the deciding effect in the  *)
(* set's order, all of them unless an allocation for the list failed, and  *)
(* then the first ones (eval.h:36-50); a default deny lists nothing.       *)
Deciding == IF Contributing("forbid") # {} THEN Contributing("forbid")
                                           ELSE Contributing("permit")

ListedPolicies == {out.policies[k] : k \in 1..out.npolicies}

ListedInOrder ==
  /\ \A k, l \in 1..out.npolicies : k < l => out.policies[k] < out.policies[l]
  /\ ListedPolicies \subseteq Deciding
  /\ \A j \in Deciding, m \in ListedPolicies : j < m => j \in ListedPolicies

ReasonsSound ==
  pc = "idle" /\ detailed =>
    ListedInOrder /\ (~truncated => ListedPolicies = Deciding)

(* The writes and the memcpy of nxe_cedar_detail_push stay inside the      *)
(* array ctx->pool gave it, and no cell it has not written is exposed:     *)
(* cap, which restarts at 0 for the permit pass, never overstates what is  *)
(* allocated nor falls behind what is used.                                *)
ListInBounds ==
  /\ pc # "idle" /\ detailed => out.npolicies <= cap /\ cap = Len(out.policies)
  /\ out.npolicies <= Len(out.policies)
  /\ \A k \in 1..out.npolicies : out.policies[k] # Unset

(* A caller sees no more than the one-step authorizer it was promised.     *)
Refines == Auth!Spec

(* Every call returns.                                                     *)
Terminates == pc # "idle" ~> pc = "idle"
===============================================================================
