---------------------------- MODULE Authorization ----------------------------
(***************************************************************************)
(* What the evaluator promises its caller (nxe_cedar_eval.h, the comments  *)
(* on nxe_cedar_eval and nxe_cedar_eval_detail), in one step per answer: a *)
(* matching forbid denies, otherwise a matching permit allows, otherwise   *)
(* the request is denied; the listed policies are those that decided, in   *)
(* the policy set's order, possibly cut short when memory runs out.        *)
(*                                                                         *)
(* A request gives the indices of the policies that match it, split by     *)
(* effect, and those of them whose conditions need memory: the evaluator   *)
(* may lose such a match, exactly as if its condition had errored.         *)
(***************************************************************************)
EXTENDS Naturals, Sequences

CONSTANT MaxPolicies   \* the largest number of policies of a policy set

VARIABLES
  request,       \* [forbids, permits, fallible, wantReasons]
  answer         \* [decision, reasons]

vars == <<request, answer>>

Index == 1..MaxPolicies

Request == [forbids : SUBSET Index, permits : SUBSET Index,
            fallible : SUBSET Index, wantReasons : BOOLEAN]

NullRequest(wantReasons) ==
  [forbids |-> {}, permits |-> {}, fallible |-> {}, wantReasons |-> wantReasons]

Answer == [decision : {"ALLOW", "DENY"}, reasons : Seq(Index)]

Pending == [decision |-> "PENDING", reasons |-> <<>>]

DefaultDeny == [decision |-> "DENY", reasons |-> <<>>]

(* s lists members of S in increasing order and leaves none out before the *)
(* last one it lists.                                                      *)
ListsPrefixOf(s, S) ==
  /\ \A k \in DOMAIN s : s[k] \in S
  /\ \A k, l \in DOMAIN s : k < l => s[k] < s[l]
  /\ \A k \in DOMAIN s : \A m \in S :
       m < s[k] => \E l \in DOMAIN s : s[l] = m

Decision(forbids, permits) ==
  IF forbids = {} /\ permits # {} THEN "ALLOW" ELSE "DENY"

Reasons(forbids, permits) == IF forbids # {} THEN forbids ELSE permits

Correct(a, forbids, permits, wantReasons) ==
  /\ a.decision = Decision(forbids, permits)
  /\ IF wantReasons THEN ListsPrefixOf(a.reasons, Reasons(forbids, permits))
                    ELSE a.reasons = <<>>

Init == request = NullRequest(FALSE) /\ answer = DefaultDeny

Submit ==
  /\ answer # Pending
  /\ request' \in Request
  /\ answer' = Pending

(* A missing policy set or context is answered at once.                    *)
Refuse ==
  /\ answer # Pending
  /\ \E wantReasons \in BOOLEAN : request' = NullRequest(wantReasons)
  /\ answer' = DefaultDeny

Decide ==
  /\ answer = Pending
  /\ answer' \in Answer
  /\ \E lost \in SUBSET request.fallible :
       Correct(answer', request.forbids \ lost, request.permits \ lost,
               request.wantReasons)
  /\ UNCHANGED request

Next == Submit \/ Refuse \/ Decide

Spec == Init /\ [][Next]_vars
==============================================================================
