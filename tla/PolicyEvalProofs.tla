--------------------------- MODULE PolicyEvalProofs ---------------------------
(***************************************************************************)
(* Proofs that every instance of PolicyEval, for any policies, contexts,   *)
(* bound on the policy set and first capacity, keeps its invariants and    *)
(* implements Authorization.                                               *)
(***************************************************************************)
EXTENDS PolicyEval, TLAPS

(* While a pass runs, the list holds exactly the contributing policies of  *)
(* its effect that the index has passed, in order.                         *)
Lists(effect) ==
  /\ \A k \in 1..out.npolicies :
       out.policies[k] \in Contributing(effect) /\ out.policies[k] < i
  /\ \A k, l \in 1..out.npolicies :
       k < l => out.policies[k] < out.policies[l]
  /\ \A j \in Contributing(effect) :
       j < i => \E k \in 1..out.npolicies : out.policies[k] = j

Found(effect) == \E j \in Contributing(effect) : j < i

PassInv ==
  pc # "idle" =>
    /\ i <= Len(policies) + 1
    /\ ~truncated
    /\ has <=> Found(pc)
    /\ ~detailed => ~has
    /\ detailed => Lists(pc) /\ out.npolicies < i
    /\ detailed /\ ~has => out.npolicies = 0 /\ Len(out.policies) = 0
    /\ \A j \in lost : j < i \/ (pc = "permit" /\ policies[j].effect = "forbid")
    /\ pc = "forbid" => \A j \in lost : policies[j].effect = "forbid"
    /\ pc = "permit" => Contributing("forbid") = {}

IInv == TypeOK /\ ListInBounds /\ PassInv /\ DecisionSound /\ ReasonsSound

-------------------------------------------------------------------------------

(* A policy set is a sequence of at most MaxPolicies policies.             *)
LEMMA PolicySetFacts ==
  ASSUME NEW ps \in PolicySets
  PROVE  /\ ps \in Seq(Policy) /\ Len(ps) \in 0..MaxPolicies
         /\ DOMAIN ps = 1..Len(ps)
         /\ \A j \in 1..Len(ps) : j \in Index /\ ps[j].effect \in {"permit", "forbid"}
<1>1. PICK n \in 0..MaxPolicies : ps \in [1..n -> Policy]
  BY DEF PolicySets
<1>2. n \in Nat /\ ps \in Seq(Policy) /\ Len(ps) = n
  BY <1>1, BoundsAssumption
<1> QED BY <1>1, <1>2, PolicyAssumption, BoundsAssumption DEF Index

(* The empty array, as a NULL policy set is shown, is one.                 *)
LEMMA EmptyPolicySet == <<>> \in PolicySets
<1>1. <<>> \in [1..0 -> Policy]
  OBVIOUS
<1> QED BY <1>1, BoundsAssumption DEF PolicySets

(* A list just reset is well typed.                                        *)
LEMMA NoDetailType ==
  NoDetail \in [policies : Seq(Index \cup {Unset}), npolicies : 0..MaxPolicies]
BY BoundsAssumption DEF NoDetail

(* The initial states satisfy the inductive invariant.                     *)
LEMMA InitInv == Init => IInv
<1> SUFFICES ASSUME Init PROVE IInv
  OBVIOUS
<1>1. TypeOK
  <2>1. out \in [policies : Seq(Index \cup {Unset}), npolicies : 0..MaxPolicies]
    BY NoDetailType DEF Init
  <2>2. i \in 1..MaxPolicies + 1 /\ cap \in Nat /\ lost \in SUBSET Index
    BY BoundsAssumption DEF Init
  <2>3. policies \in PolicySets
    BY EmptyPolicySet DEF Init
  <2> QED BY <2>1, <2>2, <2>3 DEF Init, TypeOK
<1>2. Contributing("forbid") = {} /\ Contributing("permit") = {}
  BY DEF Init, Contributing
<1>3. ListInBounds /\ PassInv
  BY DEF Init, ListInBounds, PassInv, NoDetail
<1>4. DecisionSound /\ ReasonsSound
  BY <1>2 DEF Init, DecisionSound, ReasonsSound
<1> QED BY <1>1, <1>3, <1>4 DEF IInv
-------------------------------------------------------------------------------
(* One iteration or the end of a pass                                      *)

(* A step inside a call can only remove the match it loses.                *)
LEMMA ContributingStep ==
  ASSUME UNCHANGED <<policies, ctx>>, lost \subseteq lost', NEW b
  PROVE  Contributing(b)' = Contributing(b) \ lost'
BY DEF Contributing, Matches

(* What a pass knows about the policy it examines.                         *)
LEMMA ExaminingFacts ==
  ASSUME TypeOK, PassInv, Examining
  PROVE  /\ policies \in Seq(Policy) /\ Len(policies) \in 0..MaxPolicies
         /\ i \in 1..Len(policies) /\ i \in DOMAIN policies /\ i \in Index
         /\ i + 1 \in 1..MaxPolicies + 1 /\ i + 1 <= Len(policies) + 1
         /\ policies[i].effect \in {"permit", "forbid"}
         /\ pc \in {"forbid", "permit"}
         /\ InPass(i) => i \notin lost
<1>1. policies \in Seq(Policy) /\ Len(policies) \in 0..MaxPolicies
      /\ DOMAIN policies = 1..Len(policies)
      /\ \A j \in 1..Len(policies) :
           j \in Index /\ policies[j].effect \in {"permit", "forbid"}
  BY PolicySetFacts DEF TypeOK
<1>2. i \in 1..Len(policies) /\ pc \in {"forbid", "permit"}
  BY <1>1, BoundsAssumption DEF TypeOK, Examining
<1>3. InPass(i) => i \notin lost
  BY <1>1, <1>2, BoundsAssumption DEF PassInv, InPass
<1> QED BY <1>1, <1>2, <1>3, BoundsAssumption

(* A policy that matches contributes to the pass that examines it.         *)
LEMMA MatchingContributes ==
  ASSUME TypeOK, PassInv, Matching
  PROVE  i \in Contributing(pc)
BY ExaminingFacts DEF Matching, InPass, Contributing

(* Passing over a policy keeps the pass's invariant.                       *)
LEMMA SkipPolicyInv == IInv /\ SkipPolicy => IInv'
<1> SUFFICES ASSUME IInv, SkipPolicy PROVE IInv'
  OBVIOUS
<1>a. TypeOK /\ ListInBounds /\ PassInv
  BY DEF IInv
<1>b. Examining /\ lost \subseteq lost' /\ i' = i + 1
  BY DEF SkipPolicy
<1>c. UNCHANGED <<policies, ctx, detailed, pc, has, cap, out, decision, truncated>>
  BY DEF SkipPolicy
<1>d. /\ i \in 1..Len(policies) /\ i \in Index /\ i \in DOMAIN policies
      /\ i + 1 \in 1..MaxPolicies + 1 /\ i + 1 <= Len(policies) + 1
      /\ pc \in {"forbid", "permit"} /\ policies[i].effect \in {"permit", "forbid"}
      /\ InPass(i) => i \notin lost
  BY <1>a, <1>b, ExaminingFacts
<1>e. lost' \in SUBSET Index
  BY <1>a, <1>d DEF SkipPolicy, TypeOK
<1>f. \A b : Contributing(b)' = Contributing(b) \ lost'
  BY <1>b, <1>c, ContributingStep
<1>g. lost' = lost \/ (lost' = lost \cup {i} /\ InPass(i))
  BY DEF SkipPolicy
<1>1. TypeOK'
  BY <1>a, <1>b, <1>c, <1>d, <1>e DEF TypeOK
<1>2. ListInBounds'
  BY <1>a, <1>b, <1>c DEF ListInBounds
<1>3. DecisionSound' /\ ReasonsSound'
  BY <1>b, <1>c DEF DecisionSound, ReasonsSound, Examining
<1>4. PassInv'
  <2>2. \A j \in Contributing(pc)' : j \in Contributing(pc) /\ j # i
    <3>1. ASSUME lost' = lost \cup {i}
          PROVE  \A j \in Contributing(pc)' : j \in Contributing(pc) /\ j # i
      BY <3>1, <1>c, <1>f
    <3>2. ASSUME ~(InPass(i) /\ Matches(i, FALSE)), lost' = lost
          PROVE  \A j \in Contributing(pc)' : j \in Contributing(pc) /\ j # i
      <4>1. i \notin Contributing(pc)
        BY <3>2 DEF Contributing, InPass
      <4> QED BY <4>1, <1>c, <1>f
    <3> QED BY <3>1, <3>2 DEF SkipPolicy
  <2>3. \A j \in Contributing(pc) : j \in Nat /\ (j < i => j \in Contributing(pc)')
    <3>1. \A j \in Contributing(pc) : j \in DOMAIN policies /\ j \notin lost
      BY DEF Contributing
    <3>2. \A j \in Contributing(pc) : j < i => j \notin lost'
      BY <3>1, <1>g, <1>d
    <3>3. \A j \in DOMAIN policies : j \in Nat
      BY <1>a, PolicySetFacts DEF TypeOK
    <3> QED BY <3>1, <3>2, <3>3, <1>c, <1>f
  <2>4. Found(pc)' <=> Found(pc)
    BY <2>2, <2>3, <1>b, <1>c, <1>d DEF Found
  <2>5. detailed => Lists(pc)' /\ out'.npolicies < i'
    <3> SUFFICES ASSUME detailed PROVE Lists(pc)' /\ out'.npolicies < i'
      OBVIOUS
    <3>1. Lists(pc) /\ out.npolicies < i
      BY <1>a, <1>d DEF PassInv
    <3>2. \A k \in 1..out.npolicies : out.policies[k] \in Contributing(pc)'
                                      /\ out.policies[k] < i + 1
      BY <3>1, <2>3, <1>d DEF Lists
    <3>3. \A j \in Contributing(pc)' : j < i + 1 => j < i
      BY <2>2, <2>3, <1>d
    <3>4. out'.npolicies < i'
      BY <3>1, <1>a, <1>b, <1>c, <1>d DEF TypeOK
    <3> QED BY <3>1, <3>2, <3>3, <3>4, <2>2, <1>b, <1>c DEF Lists
  <2>6. /\ \A j \in lost' : j < i' \/ (pc = "permit" /\ policies[j].effect = "forbid")
        /\ pc = "forbid" => \A j \in lost' : policies[j].effect = "forbid"
    BY <1>a, <1>b, <1>d, <1>g DEF PassInv, InPass, TypeOK, Index
  <2>7. pc = "permit" => Contributing("forbid")' = {}
    BY <1>a, <1>f DEF PassInv
  <2> QED BY <2>4, <2>5, <2>6, <2>7, <1>a, <1>b, <1>c, <1>d DEF PassInv
<1> QED BY <1>1, <1>2, <1>3, <1>4 DEF IInv

(* Ending a call with the decision of the pass is sound once a policy of   *)
(* that pass contributes.                                                  *)
LEMMA PassDecisionSound ==
  ASSUME TypeOK, PassInv, pc \in {"forbid", "permit"}, Contributing(pc) # {}
  PROVE  /\ PassDecision = IF Contributing("forbid") = {}
                             /\ Contributing("permit") # {}
                          THEN "ALLOW" ELSE "DENY"
         /\ Contributing(pc) = Deciding
BY DEF PassInv, PassDecision, Deciding

(* The list of a pass whose policies are the deciding ones is a prefix of  *)
(* them, and lists them all once the index has passed them.                *)
LEMMA ListsInOrder ==
  ASSUME TypeOK, NEW pass, Lists(pass), Contributing(pass) = Deciding
  PROVE  /\ ListedInOrder
         /\ (\A j \in Deciding : j < i) => ListedPolicies = Deciding
<1>1. \A j \in Deciding : j \in Nat
  <2>1. \A j \in DOMAIN policies : j \in Nat
    BY PolicySetFacts DEF TypeOK
  <2> QED BY <2>1 DEF Deciding, Contributing
<1>2. ListedPolicies \subseteq Deciding
  BY DEF Lists, ListedPolicies
<1>3. \A j \in Deciding : j < i => j \in ListedPolicies
  BY DEF Lists, ListedPolicies
<1>4. \A j \in Deciding, m \in ListedPolicies : j < m => j \in ListedPolicies
  <2> SUFFICES ASSUME NEW j \in Deciding, NEW m \in ListedPolicies, j < m
               PROVE  j < i
    BY <1>3
  <2>1. m < i /\ m \in Deciding
    BY <1>2 DEF Lists, ListedPolicies
  <2> QED BY <2>1, <1>1 DEF TypeOK
<1>5. (\A j \in Deciding : j < i) => ListedPolicies = Deciding
  BY <1>2, <1>3
<1> QED BY <1>2, <1>4, <1>5 DEF ListedInOrder, Lists

(* A step that leaves the request and the list alone leaves what the list  *)
(* says of the request alone.                                              *)
LEMMA ListedUnchanged ==
  ASSUME UNCHANGED <<policies, ctx, lost, out>>
  PROVE  /\ \A b : Contributing(b)' = Contributing(b)
         /\ Deciding' = Deciding
         /\ ListedPolicies' = ListedPolicies
         /\ ListedInOrder' = ListedInOrder
<1>1. \A b : Contributing(b)' = Contributing(b)
  BY DEF Contributing, Matches
<1>2. Deciding' = Deciding
  BY <1>1 DEF Deciding
<1>3. ListedPolicies' = ListedPolicies
  BY DEF ListedPolicies
<1> QED BY <1>1, <1>2, <1>3 DEF ListedInOrder

(* Returning at the first match without a list keeps the invariant.        *)
LEMMA ReturnFirstMatchInv == IInv /\ ReturnFirstMatch => IInv'
<1> SUFFICES ASSUME IInv, ReturnFirstMatch PROVE IInv'
  OBVIOUS
<1>a. TypeOK /\ ListInBounds /\ PassInv
  BY DEF IInv
<1>b. Matching /\ ~detailed /\ pc' = "idle" /\ decision' = PassDecision
  BY DEF ReturnFirstMatch, Return
<1>c. UNCHANGED <<policies, ctx, detailed, i, cap, out, lost, truncated>>
      /\ has' = TRUE
  BY DEF ReturnFirstMatch
<1>d. pc \in {"forbid", "permit"} /\ i \in Contributing(pc)
  BY <1>a, <1>b, ExaminingFacts, MatchingContributes DEF Matching
<1>e. \A b : Contributing(b)' = Contributing(b)
  BY <1>c, ListedUnchanged
<1>1. TypeOK'
  BY <1>a, <1>b, <1>c DEF TypeOK, PassDecision
<1>2. ListInBounds'
  BY <1>a, <1>b, <1>c DEF ListInBounds
<1>3. DecisionSound'
  BY <1>a, <1>b, <1>d, <1>e, PassDecisionSound DEF DecisionSound
<1>4. ReasonsSound' /\ PassInv'
  BY <1>b, <1>c DEF ReasonsSound, PassInv
<1> QED BY <1>1, <1>2, <1>3, <1>4 DEF IInv

(* A failed push ends the call with a list that stays a prefix.            *)
LEMMA ListMatchFailsInv == IInv /\ ListMatchFails => IInv'
<1> SUFFICES ASSUME IInv, ListMatchFails PROVE IInv'
  OBVIOUS
<1>a. TypeOK /\ ListInBounds /\ PassInv
  BY DEF IInv
<1>b. Matching /\ detailed /\ pc' = "idle" /\ decision' = PassDecision
  BY DEF ListMatchFails, Return
<1>c. UNCHANGED <<policies, ctx, detailed, i, cap, out, lost>> /\ has' = TRUE
      /\ truncated' = TRUE
  BY DEF ListMatchFails
<1>d. pc \in {"forbid", "permit"} /\ i \in Contributing(pc)
  BY <1>a, <1>b, ExaminingFacts, MatchingContributes DEF Matching
<1>e. (\A b : Contributing(b)' = Contributing(b)) /\ ListedInOrder' = ListedInOrder
  BY <1>c, ListedUnchanged
<1>1. TypeOK'
  BY <1>a, <1>b, <1>c DEF TypeOK, PassDecision
<1>2. ListInBounds'
  BY <1>a, <1>b, <1>c, <1>d DEF ListInBounds
<1>3. DecisionSound'
  BY <1>a, <1>b, <1>d, <1>e, PassDecisionSound DEF DecisionSound
<1>4. ReasonsSound'
  <2>1. Contributing(pc) = Deciding
    BY <1>a, <1>d, PassDecisionSound
  <2>2. Lists(pc)
    BY <1>a, <1>b, <1>d DEF PassInv
  <2>3. ListedInOrder
    BY <2>1, <2>2, <1>a, ListsInOrder
  <2> QED BY <2>3, <1>c, <1>e DEF ReasonsSound
<1>5. PassInv'
  BY <1>b DEF PassInv
<1> QED BY <1>1, <1>2, <1>3, <1>4, <1>5 DEF IInv

(* A push that finds or gets room keeps the cells in use, adds one after   *)
(* them and stays inside the array.                                        *)
LEMMA DetailPushFacts ==
  ASSUME TypeOK, ListInBounds, detailed, pc # "idle",
         NEW j \in Index, DetailPush(j), out.npolicies + 1 \in 0..MaxPolicies
  PROVE  /\ out' \in [policies : Seq(Index \cup {Unset}), npolicies : 0..MaxPolicies]
         /\ cap' \in Nat /\ cap' = Len(out'.policies)
         /\ out'.npolicies = out.npolicies + 1 /\ out'.npolicies <= cap'
         /\ \A k \in 1..out.npolicies : out'.policies[k] = out.policies[k]
         /\ out'.policies[out'.npolicies] = j
<1> DEFINE n == out.npolicies
           T == Index \cup {Unset}
<1>0. /\ n \in Nat /\ cap \in Nat /\ n <= cap /\ cap = Len(out.policies)
      /\ out.policies \in Seq(T) /\ j \in T /\ Unset \in T
  BY BoundsAssumption DEF TypeOK, ListInBounds
<1>1. CASE Full(out, cap)
  <2> DEFINE c == NewCap(cap)
             g == Grown(out, c).policies
             h == [g EXCEPT ![n + 1] = j]
  <2>1. c \in Nat /\ n + 1 \in 1..c
    BY <1>0, <1>1, BoundsAssumption DEF NewCap, Full
  <2>2. g = [k \in 1..c |-> IF k <= n THEN out.policies[k] ELSE Unset]
    BY DEF Grown
  <2>3. \A k \in 1..n : k \in 1..c /\ out.policies[k] \in T
    BY <1>0, <2>1
  <2> HIDE DEF c
  <2>4. g \in [1..c -> T] /\ \A k \in 1..n : g[k] = out.policies[k]
    <3>1. \A k \in 1..c : k <= n => k \in 1..n
      BY <1>0
    <3> QED BY <3>1, <2>2, <2>3, <1>0
  <2> HIDE DEF g
  <2>5. /\ h \in [1..c -> T] /\ h[n + 1] = j
        /\ \A k \in 1..n : h[k] = out.policies[k]
    BY <2>4, <2>3, <2>1, <1>0
  <2>7. cap' = c /\ out' = [policies |-> h, npolicies |-> n + 1]
    BY <1>1 DEF DetailPush, Pushed, Grown, c, g
  <2> HIDE DEF h
  <2>6. h \in Seq(T) /\ Len(h) = c
    BY <2>5, <2>1
  <2> QED BY <2>1, <2>5, <2>6, <2>7
<1>2. CASE ~Full(out, cap)
  <2> DEFINE h == [out.policies EXCEPT ![n + 1] = j]
  <2>1. n + 1 \in 1..cap
    BY <1>0, <1>2 DEF Full
  <2>2. h \in Seq(T) /\ Len(h) = cap /\ h[n + 1] = j
        /\ \A k \in 1..n : h[k] = out.policies[k]
    BY <2>1, <1>0
  <2>3. cap' = cap /\ out' = [policies |-> h, npolicies |-> n + 1]
    BY <1>2 DEF DetailPush, Pushed
  <2> HIDE DEF h
  <2> QED BY <2>1, <2>2, <2>3, <1>0
<1> QED BY <1>1, <1>2

(* Listing a match keeps the pass's invariant.                             *)
LEMMA ListMatchInv == IInv /\ ListMatch => IInv'
<1> SUFFICES ASSUME IInv, ListMatch PROVE IInv'
  OBVIOUS
<1>a. TypeOK /\ ListInBounds /\ PassInv
  BY DEF IInv
<1>b. Matching /\ Examining /\ InPass(i) /\ detailed /\ DetailPush(i)
      /\ i' = i + 1 /\ has' = TRUE
  BY DEF ListMatch, Matching
<1>c. UNCHANGED <<policies, ctx, detailed, pc, decision, lost, truncated>>
  BY DEF ListMatch
<1>d. /\ i \in 1..Len(policies) /\ i \in Index /\ i \in DOMAIN policies
      /\ i + 1 \in 1..MaxPolicies + 1 /\ i + 1 <= Len(policies) + 1
      /\ Len(policies) \in 0..MaxPolicies /\ pc \in {"forbid", "permit"}
  BY <1>a, <1>b, ExaminingFacts
<1>e. i \in Contributing(pc)
  BY <1>a, <1>b, MatchingContributes
<1>f. \A b : Contributing(b)' = Contributing(b)
  BY <1>c DEF Contributing, Matches
<1>g. Lists(pc) /\ out.npolicies < i
  BY <1>a, <1>b, <1>d DEF PassInv
<1>h. out.npolicies \in Nat /\ out.npolicies + 1 \in 0..MaxPolicies
  BY <1>a, <1>d, <1>g, BoundsAssumption DEF TypeOK
<1>i. /\ out' \in [policies : Seq(Index \cup {Unset}), npolicies : 0..MaxPolicies]
      /\ cap' \in Nat /\ cap' = Len(out'.policies)
      /\ out'.npolicies = out.npolicies + 1 /\ out'.npolicies <= cap'
      /\ \A k \in 1..out.npolicies : out'.policies[k] = out.policies[k]
      /\ out'.policies[out'.npolicies] = i
  BY <1>a, <1>b, <1>d, <1>h, DetailPushFacts
<1>1. TypeOK'
  BY <1>a, <1>b, <1>c, <1>d, <1>i DEF TypeOK
<1>2. ListInBounds'
  <2>1. i # Unset
    BY <1>d DEF Unset
  <2>2. \A k \in 1..out'.npolicies : k \in 1..out.npolicies \/ k = out'.npolicies
    BY <1>h, <1>i
  <2> QED BY <2>1, <2>2, <1>a, <1>h, <1>i DEF ListInBounds
<1>3. DecisionSound' /\ ReasonsSound'
  BY <1>c, <1>d DEF DecisionSound, ReasonsSound
<1>4. PassInv'
  <2>1. Lists(pc)'
    <3>1. \A k \in 1..out'.npolicies :
            \/ k \in 1..out.npolicies /\ out'.policies[k] = out.policies[k]
            \/ k = out.npolicies + 1 /\ out'.policies[k] = i
      BY <1>h, <1>i
    <3>2. \A k \in 1..out.npolicies : out.policies[k] \in Contributing(pc)
                                      /\ out.policies[k] < i
      BY <1>g DEF Lists
    <3>3. \A k \in 1..out.npolicies : out.policies[k] \in Nat
      <4>1. \A j \in DOMAIN policies : j \in Nat
        BY <1>a, PolicySetFacts DEF TypeOK
      <4>2. \A j \in Contributing(pc) : j \in DOMAIN policies
        BY DEF Contributing
      <4> QED BY <4>1, <4>2, <3>2
    <3>4. \A k \in 1..out'.npolicies :
            out'.policies[k] \in Contributing(pc)' /\ out'.policies[k] < i'
      BY <3>1, <3>2, <3>3, <1>b, <1>c, <1>d, <1>e, <1>f
    <3>5. \A k, l \in 1..out'.npolicies :
            k < l => out'.policies[k] < out'.policies[l]
      BY <3>1, <3>2, <1>g, <1>h DEF Lists
    <3>6. ASSUME NEW j \in Contributing(pc)', j < i'
          PROVE  \E k \in 1..out'.npolicies : out'.policies[k] = j
      <4>1. j \in Contributing(pc) /\ j \in Nat
        <5>1. j \in Contributing(pc)
          BY <1>c, <1>f, <3>6
        <5>2. \A m \in DOMAIN policies : m \in Nat
          BY <1>a, PolicySetFacts DEF TypeOK
        <5> QED BY <5>1, <5>2 DEF Contributing
      <4>2. CASE j = i
        BY <4>2, <1>h, <1>i
      <4>3. CASE j < i
        BY <4>1, <4>3, <1>g, <1>h, <1>i DEF Lists
      <4> QED BY <4>1, <4>2, <4>3, <3>6, <1>b, <1>d
    <3> QED BY <3>4, <3>5, <3>6, <1>c DEF Lists
  <2>2. Found(pc)'
    BY <1>b, <1>c, <1>d, <1>e, <1>f DEF Found
  <2>3. out'.npolicies < i'
    BY <1>b, <1>d, <1>g, <1>h, <1>i
  <2>4. \A j \in lost' : j < i' \/ (pc' = "permit" /\ policies'[j].effect = "forbid")
    BY <1>a, <1>b, <1>c, <1>d DEF PassInv, TypeOK, Index
  <2>5. /\ pc = "forbid" => \A j \in lost : policies[j].effect = "forbid"
        /\ pc = "permit" => Contributing("forbid")' = {}
        /\ ~truncated
    BY <1>a, <1>d, <1>f DEF PassInv
  <2> QED BY <2>1, <2>2, <2>3, <2>4, <2>5, <1>b, <1>c, <1>d DEF PassInv
<1> QED BY <1>1, <1>2, <1>3, <1>4 DEF IInv

(* The forbid pass ends in DENY, or in a permit pass that starts afresh    *)
(* because no forbid contributes.                                          *)
LEMMA EndForbidPassInv == IInv /\ EndForbidPass => IInv'
<1> SUFFICES ASSUME IInv, EndForbidPass PROVE IInv'
  OBVIOUS
<1>a. TypeOK /\ ListInBounds /\ PassInv
  BY DEF IInv
<1>b. pc = "forbid" /\ i > Len(policies)
  BY DEF EndForbidPass, PassDone
<1>c. UNCHANGED <<policies, ctx, detailed, out, lost, truncated>>
  BY DEF EndForbidPass
<1>d. /\ \A b : Contributing(b)' = Contributing(b)
      /\ Deciding' = Deciding /\ ListedPolicies' = ListedPolicies
      /\ ListedInOrder' = ListedInOrder
  BY <1>c, ListedUnchanged
<1>e. \A j \in Contributing("forbid") : j < i
  BY <1>a, <1>b, PolicySetFacts DEF Contributing, TypeOK
<1>f. has <=> Contributing("forbid") # {}
  BY <1>a, <1>b, <1>e DEF PassInv, Found
<1>1. CASE has
  <2>1. pc' = "idle" /\ decision' = "DENY" /\ UNCHANGED <<i, has, cap>>
    BY <1>1 DEF EndForbidPass, Return
  <2>2. TypeOK' /\ ListInBounds' /\ PassInv'
    BY <2>1, <1>a, <1>c DEF TypeOK, ListInBounds, PassInv
  <2>3. DecisionSound'
    BY <2>1, <1>1, <1>d, <1>f DEF DecisionSound
  <2>4. ReasonsSound'
    <3> SUFFICES ASSUME detailed PROVE ReasonsSound'
      BY <1>c DEF ReasonsSound
    <3>1. Contributing("forbid") = Deciding
      BY <1>1, <1>f DEF Deciding
    <3>2. Lists("forbid")
      BY <1>a, <1>b DEF PassInv
    <3>3. ListedInOrder /\ ListedPolicies = Deciding
      BY <3>1, <3>2, <1>a, <1>e, ListsInOrder
    <3> QED BY <3>3, <1>d DEF ReasonsSound
  <2> QED BY <2>2, <2>3, <2>4 DEF IInv
<1>2. CASE ~has
  <2>1. pc' = "permit" /\ i' = 1 /\ has' = FALSE /\ cap' = 0 /\ decision' = decision
    BY <1>2 DEF EndForbidPass, StartPass
  <2>2. Contributing("forbid") = {}
    BY <1>2, <1>f
  <2>3. detailed => out.npolicies = 0 /\ Len(out.policies) = 0
    BY <1>2, <1>a, <1>b DEF PassInv
  <2>4. TypeOK'
    <3>1. i' \in 1..MaxPolicies + 1 /\ cap' \in Nat
      BY <2>1, BoundsAssumption
    <3> QED BY <3>1, <2>1, <1>a, <1>c DEF TypeOK
  <2>5. ListInBounds'
    BY <2>1, <2>3, <1>a, <1>b, <1>c DEF ListInBounds
  <2>6. DecisionSound' /\ ReasonsSound'
    BY <2>1 DEF DecisionSound, ReasonsSound
  <2>7. PassInv'
    <3>1. \A j \in Contributing("permit")' : j \in Nat /\ ~(j < 1)
      <4>1. \A j \in DOMAIN policies : j \in Nat /\ ~(j < 1)
        BY <1>a, PolicySetFacts DEF TypeOK
      <4> QED BY <4>1, <1>d DEF Contributing
    <3>2. detailed => Lists("permit")'
      BY <2>1, <2>3, <3>1, <1>c DEF Lists
    <3>3. ~Found("permit")'
      BY <2>1, <3>1 DEF Found
    <3>4. /\ i' <= Len(policies') + 1 /\ ~truncated'
          /\ \A j \in lost' : policies'[j].effect = "forbid"
          /\ Contributing("forbid")' = {}
      BY <2>1, <2>2, <1>a, <1>b, <1>c, <1>d, PolicySetFacts DEF PassInv, TypeOK
    <3> QED BY <2>1, <2>3, <3>2, <3>3, <3>4, <1>c DEF PassInv
  <2> QED BY <2>4, <2>5, <2>6, <2>7 DEF IInv
<1> QED BY <1>1, <1>2, <1>a DEF TypeOK

(* The permit pass ends in ALLOW exactly when it found a permit.           *)
LEMMA EndPermitPassInv == IInv /\ EndPermitPass => IInv'
<1> SUFFICES ASSUME IInv, EndPermitPass PROVE IInv'
  OBVIOUS
<1>a. TypeOK /\ ListInBounds /\ PassInv
  BY DEF IInv
<1>b. /\ pc = "permit" /\ i > Len(policies)
      /\ pc' = "idle" /\ decision' = IF has THEN "ALLOW" ELSE "DENY"
  BY DEF EndPermitPass, PassDone, Return
<1>c. UNCHANGED <<policies, ctx, detailed, i, has, cap, out, lost, truncated>>
  BY DEF EndPermitPass
<1>d. /\ \A b : Contributing(b)' = Contributing(b)
      /\ Deciding' = Deciding /\ ListedPolicies' = ListedPolicies
      /\ ListedInOrder' = ListedInOrder
  BY <1>c, ListedUnchanged
<1>e. \A j \in Contributing("permit") : j < i
  BY <1>a, <1>b, PolicySetFacts DEF Contributing, TypeOK
<1>f. Contributing("forbid") = {} /\ (has <=> Contributing("permit") # {})
  BY <1>a, <1>b, <1>e DEF PassInv, Found
<1>1. TypeOK' /\ ListInBounds' /\ PassInv'
  BY <1>a, <1>b, <1>c DEF TypeOK, ListInBounds, PassInv
<1>2. DecisionSound'
  BY <1>b, <1>d, <1>f DEF DecisionSound
<1>3. ReasonsSound'
  <2> SUFFICES ASSUME detailed PROVE ReasonsSound'
    BY <1>c DEF ReasonsSound
  <2>1. Contributing("permit") = Deciding
    BY <1>f DEF Deciding
  <2>2. Lists("permit")
    BY <1>a, <1>b DEF PassInv
  <2>3. ListedInOrder /\ ListedPolicies = Deciding
    BY <2>1, <2>2, <1>a, <1>e, ListsInOrder
  <2> QED BY <2>3, <1>d DEF ReasonsSound
<1> QED BY <1>1, <1>2, <1>3 DEF IInv

-------------------------------------------------------------------------------
(* Calls                                                                   *)

(* A call starts the forbid pass with nothing found.                       *)
LEMMA CallInv ==
  ASSUME NEW ps \in PolicySets, NEW c \in Context, NEW d \in BOOLEAN
  PROVE  IInv /\ Call(ps, c, d) => IInv'
<1> SUFFICES ASSUME IInv, Call(ps, c, d) PROVE IInv'
  OBVIOUS
<1>a. TypeOK /\ ListInBounds
  BY DEF IInv
<1>b. /\ policies' = ps /\ ctx' = c /\ detailed' = d
      /\ out' = IF d THEN NoDetail ELSE out
      /\ pc' = "forbid" /\ i' = 1 /\ has' = FALSE /\ cap' = 0
      /\ lost' = {} /\ truncated' = FALSE /\ decision' = decision
  BY DEF Call, StartPass
<1>1. TypeOK'
  <2>1. out' \in [policies : Seq(Index \cup {Unset}), npolicies : 0..MaxPolicies]
    BY <1>a, <1>b, NoDetailType DEF TypeOK
  <2>2. i' \in 1..MaxPolicies + 1 /\ cap' \in Nat /\ lost' \in SUBSET Index
    BY <1>b, BoundsAssumption
  <2>3. policies' \in PolicySets /\ ctx' \in Context /\ detailed' \in BOOLEAN
    BY <1>b
  <2>4. decision' \in {"ALLOW", "DENY"}
    BY <1>a, <1>b DEF TypeOK
  <2> QED BY <2>1, <2>2, <2>3, <2>4, <1>b DEF TypeOK
<1>2. d => out'.npolicies = 0 /\ Len(out'.policies) = 0
  BY <1>b DEF NoDetail
<1>3. ListInBounds'
  BY <1>a, <1>b, <1>2 DEF ListInBounds
<1>4. DecisionSound' /\ ReasonsSound'
  BY <1>b DEF DecisionSound, ReasonsSound
<1>5. PassInv'
  <2>1. \A j \in Contributing("forbid")' : j \in Nat /\ ~(j < 1)
    <3>1. \A j \in DOMAIN ps : j \in Nat /\ ~(j < 1)
      BY PolicySetFacts
    <3> QED BY <3>1, <1>b DEF Contributing
  <2>2. d => Lists("forbid")'
    BY <2>1, <1>2, <1>b DEF Lists
  <2>3. ~Found("forbid")'
    BY <2>1, <1>b DEF Found
  <2>4. i' <= Len(policies') + 1
    BY <1>b, PolicySetFacts
  <2> QED BY <2>2, <2>3, <2>4, <1>2, <1>b DEF PassInv
<1> QED BY <1>1, <1>3, <1>4, <1>5 DEF IInv

(* A call with a missing argument is a default deny.                       *)
LEMMA CallNullInv ==
  ASSUME NEW d \in BOOLEAN
  PROVE  IInv /\ CallNull(d) => IInv'
<1> SUFFICES ASSUME IInv, CallNull(d) PROVE IInv'
  OBVIOUS
<1>a. TypeOK /\ ListInBounds
  BY DEF IInv
<1>b. /\ policies' = <<>> /\ detailed' = d /\ UNCHANGED <<ctx, i, has, cap>>
      /\ out' = IF d THEN NoDetail ELSE out
      /\ pc' = "idle" /\ decision' = "DENY"
      /\ lost' = {} /\ truncated' = FALSE
  BY DEF CallNull, Return
<1>1. TypeOK'
  <2>1. out' \in [policies : Seq(Index \cup {Unset}), npolicies : 0..MaxPolicies]
    BY <1>a, <1>b, NoDetailType DEF TypeOK
  <2>2. policies' \in PolicySets
    BY <1>b, EmptyPolicySet
  <2> QED BY <2>1, <2>2, <1>a, <1>b DEF TypeOK
<1>2. d => out'.npolicies = 0 /\ Len(out'.policies) = 0
  BY <1>b DEF NoDetail
<1>3. ListInBounds' /\ PassInv'
  BY <1>a, <1>b, <1>2 DEF ListInBounds, PassInv
<1>4. \A b : Contributing(b)' = {}
  BY <1>b DEF Contributing
<1>5. DecisionSound'
  BY <1>4, <1>b DEF DecisionSound
<1>6. ReasonsSound'
  <2> SUFFICES ASSUME d PROVE ReasonsSound'
    BY <1>b DEF ReasonsSound
  <2>1. Deciding' = {} /\ ListedPolicies' = {}
    BY <1>2, <1>4 DEF Deciding, ListedPolicies
  <2>2. ListedInOrder'
    BY <2>1, <1>2 DEF ListedInOrder
  <2> QED BY <2>1, <2>2 DEF ReasonsSound
<1> QED BY <1>1, <1>3, <1>5, <1>6 DEF IInv

-------------------------------------------------------------------------------
(* The theorems                                                            *)

(* Every step keeps the inductive invariant.                               *)
LEMMA NextInv == IInv /\ [Next]_vars => IInv'
<1> SUFFICES ASSUME IInv, [Next]_vars PROVE IInv'
  OBVIOUS
<1>1. CASE Step
  BY <1>1, SkipPolicyInv, ReturnFirstMatchInv, ListMatchInv, ListMatchFailsInv,
     EndForbidPassInv, EndPermitPassInv DEF Step
<1>2. ASSUME NEW ps \in PolicySets, NEW c \in Context, NEW d \in BOOLEAN,
             Call(ps, c, d)
      PROVE  IInv'
  BY <1>2, CallInv
<1>3. ASSUME NEW d \in BOOLEAN, CallNull(d) PROVE IInv'
  BY <1>3, CallNullInv
<1>4. CASE UNCHANGED vars
  <2>1. UNCHANGED <<policies, ctx, lost, out>>
    BY <1>4 DEF vars
  <2>2. /\ \A b : Contributing(b)' = Contributing(b)
        /\ Deciding' = Deciding /\ ListedPolicies' = ListedPolicies
        /\ ListedInOrder' = ListedInOrder
    BY <2>1, ListedUnchanged
  <2>3. \A b : Lists(b)' = Lists(b) /\ Found(b)' = Found(b)
    BY <2>2, <1>4 DEF Lists, Found, vars
  <2>4. TypeOK' /\ ListInBounds' /\ PassInv'
    BY <2>2, <2>3, <1>4 DEF IInv, TypeOK, ListInBounds, PassInv, vars
  <2> QED BY <2>2, <2>4, <1>4 DEF IInv, DecisionSound, ReasonsSound, vars
<1> QED BY <1>1, <1>2, <1>3, <1>4 DEF Next

(* The inductive invariant holds in every reachable state.                 *)
THEOREM Invariance == Spec => []IInv
BY InitInv, NextInv, PTL DEF Spec

(* For any policies, contexts and failures of the pool: the types hold.    *)
THEOREM TypeCorrect == Spec => []TypeOK
<1>1. IInv => TypeOK
  BY DEF IInv
<1> QED BY <1>1, Invariance, PTL

(* Every returned decision is the one forbid-priority prescribes.          *)
THEOREM DecisionCorrect == Spec => []DecisionSound
<1>1. IInv => DecisionSound
  BY DEF IInv
<1> QED BY <1>1, Invariance, PTL

(* Every returned list is an ordered prefix of the deciding policies,      *)
(* complete unless an allocation for it failed.                            *)
THEOREM ReasonsCorrect == Spec => []ReasonsSound
<1>1. IInv => ReasonsSound
  BY DEF IInv
<1> QED BY <1>1, Invariance, PTL

(* The list is never written or copied outside its array.                  *)
THEOREM ListMemorySafe == Spec => []ListInBounds
<1>1. IInv => ListInBounds
  BY DEF IInv
<1> QED BY <1>1, Invariance, PTL

-------------------------------------------------------------------------------
(* Refinement                                                              *)

(* Only matches whose evaluation allocates are lost.                       *)
LostInv == \A j \in lost : j \in DOMAIN policies /\ Fallible(j)

(* What is lost was fallible.                                              *)
LEMMA LostInvariance == Spec => []LostInv
<1>1. Init => LostInv
  BY DEF Init, LostInv
<1>2. IInv /\ LostInv /\ [Next]_vars => LostInv'
  <2> SUFFICES ASSUME IInv, LostInv, [Next]_vars PROVE LostInv'
    OBVIOUS
  <2>a. TypeOK /\ PassInv
    BY DEF IInv
  <2>1. CASE lost' = {}
    BY <2>1 DEF LostInv
  <2>2. CASE UNCHANGED <<policies, ctx, lost>>
    BY <2>2 DEF LostInv, Fallible, Matches
  <2>3. CASE SkipPolicy
    <3>1. UNCHANGED <<policies, ctx>>
      BY <2>3 DEF SkipPolicy
    <3>2. \A j : Fallible(j)' = Fallible(j)
      BY <3>1 DEF Fallible, Matches
    <3>3. i \in DOMAIN policies
      BY <2>a, <2>3, ExaminingFacts DEF SkipPolicy
    <3> QED BY <3>1, <3>2, <3>3, <2>3 DEF SkipPolicy, LostInv
  <2> QED BY <2>1, <2>2, <2>3 DEF Next, Step, Call, CallNull, ReturnFirstMatch,
        ListMatch, ListMatchFails, EndForbidPass, EndPermitPass, vars
<1> QED BY <1>1, <1>2, Invariance, PTL DEF Spec

(* Between calls the answer is one the abstract authorizer may give.       *)
Answered ==
  pc = "idle" =>
    /\ Answer \in Auth!Answer
    /\ lost \in SUBSET Request.fallible
    /\ Auth!Correct(Answer, Request.forbids \ lost, Request.permits \ lost,
                    Request.wantReasons)

(* The invariants are what that takes.                                     *)
LEMMA InvAnswered == IInv /\ LostInv => Answered
<1> SUFFICES ASSUME IInv, LostInv, pc = "idle"
             PROVE  /\ Answer \in Auth!Answer
                    /\ lost \in SUBSET Request.fallible
                    /\ Auth!Correct(Answer, Request.forbids \ lost,
                                    Request.permits \ lost, Request.wantReasons)
  BY DEF Answered
<1>a. TypeOK /\ ListInBounds /\ DecisionSound /\ ReasonsSound
  BY DEF IInv
<1>1. lost \in SUBSET Request.fallible
  BY DEF LostInv, Request
<1>2. /\ Request.forbids \ lost = Contributing("forbid")
      /\ Request.permits \ lost = Contributing("permit")
      /\ Request.wantReasons = detailed
  BY DEF Request, Contributing
<1>3. /\ Answer.decision = decision
      /\ Answer.reasons = IF detailed THEN Listed ELSE <<>>
      /\ Answer = [decision |-> decision,
                   reasons |-> IF detailed THEN Listed ELSE <<>>]
  BY DEF Answer
<1>4. out.npolicies \in Nat
  BY <1>a, BoundsAssumption DEF TypeOK
<1>5. /\ DOMAIN Listed = 1..out.npolicies
      /\ \A k \in 1..out.npolicies : Listed[k] = out.policies[k]
  BY DEF Listed
<1>6. Answer \in Auth!Answer
  <2>1. \A k \in 1..out.npolicies : out.policies[k] \in Index
    BY <1>a, <1>4 DEF TypeOK, ListInBounds
  <2>2. Listed \in [1..out.npolicies -> Index]
    BY <2>1 DEF Listed
  <2>3. Listed \in Seq(Index)
    BY <2>2, <1>4
  <2>4. (IF detailed THEN Listed ELSE <<>>) \in Seq(Index)
    BY <2>3
  <2> QED BY <2>4, <1>3, <1>a DEF Auth!Answer, Auth!Index, Index, TypeOK
<1>7. detailed => Auth!ListsPrefixOf(Listed, Deciding)
  <2> SUFFICES ASSUME detailed PROVE Auth!ListsPrefixOf(Listed, Deciding)
    OBVIOUS
  <2>1. ListedInOrder
    BY <1>a DEF ReasonsSound
  <2> QED BY <2>1, <1>5 DEF ListedInOrder, ListedPolicies, Auth!ListsPrefixOf
<1>8. /\ Auth!Decision(Contributing("forbid"), Contributing("permit")) = decision
      /\ Auth!Reasons(Contributing("forbid"), Contributing("permit")) = Deciding
  BY <1>a DEF Auth!Decision, Auth!Reasons, DecisionSound, Deciding
<1> QED BY <1>1, <1>2, <1>3, <1>6, <1>7, <1>8 DEF Auth!Correct

(* The request a step inside a call works on stays what the caller gave.   *)
LEMMA RequestStep ==
  ASSUME UNCHANGED <<policies, ctx, detailed>>
  PROVE  Request' = Request
BY DEF Request, Matches, Fallible

(* A step of the evaluator is a step of the authorizer or none.            *)
LEMMA StepRefines == IInv /\ Answered' /\ [Next]_vars => [Auth!Next]_(Auth!vars)
<1> SUFFICES ASSUME IInv, Answered', [Next]_vars
             PROVE  Auth!Next \/ UNCHANGED <<Request, Answer>>
  BY DEF Auth!vars
<1>a. TypeOK
  BY DEF IInv
<1>b. pc = "idle" => Answer # Auth!Pending
  BY <1>a DEF Answer, Auth!Pending, TypeOK
<1>c. pc # "idle" => Answer = Auth!Pending
  BY DEF Answer, Auth!Pending
<1>1. ASSUME NEW ps \in PolicySets, NEW c \in Context, NEW d \in BOOLEAN,
             Call(ps, c, d)
      PROVE  Auth!Submit
  <2>1. pc = "idle" /\ pc' = "forbid" /\ policies' = ps /\ detailed' = d
    BY <1>1 DEF Call, StartPass
  <2>2. Request' \in Auth!Request
    <3>1. DOMAIN ps \subseteq Auth!Index
      BY PolicySetFacts DEF Index, Auth!Index
    <3> QED BY <2>1, <3>1 DEF Request, Auth!Request
  <2> QED BY <2>1, <2>2, <1>b DEF Auth!Submit, Answer, Auth!Pending
<1>2. ASSUME NEW d \in BOOLEAN, CallNull(d) PROVE Auth!Refuse
  <2>1. /\ pc = "idle" /\ pc' = "idle" /\ policies' = <<>> /\ detailed' = d
        /\ decision' = "DENY" /\ out' = IF d THEN NoDetail ELSE out
    BY <1>2 DEF CallNull, Return
  <2>2. Request' = Auth!NullRequest(d)
    BY <2>1 DEF Request, Auth!NullRequest
  <2>3. d => Listed' = <<>>
    BY <2>1 DEF Listed, NoDetail
  <2>4. Answer' = Auth!DefaultDeny
    BY <2>1, <2>3 DEF Answer, Auth!DefaultDeny
  <2> QED BY <2>1, <2>2, <2>4, <1>b DEF Auth!Refuse
<1>3. CASE Step
  <2>1. pc # "idle" /\ UNCHANGED <<policies, ctx, detailed>>
    BY <1>3 DEF Step, SkipPolicy, ReturnFirstMatch, ListMatch, ListMatchFails,
       EndForbidPass, EndPermitPass, Matching, Examining, PassDone
  <2>2. Request' = Request
    BY <2>1, RequestStep
  <2>3. CASE pc' = "idle"
    BY <2>1, <2>2, <2>3, <1>c DEF Answered, Auth!Decide, Auth!Next
  <2>4. CASE pc' # "idle"
    BY <2>1, <2>2, <2>4 DEF Answer
  <2> QED BY <2>3, <2>4
<1>4. CASE UNCHANGED vars
  BY <1>4, RequestStep DEF vars, Answer, Listed
<1> QED BY <1>1, <1>2, <1>3, <1>4 DEF Next, Auth!Next

(* nxe_cedar_eval and nxe_cedar_eval_detail implement the one-step         *)
(* authorizer, whatever the pool refuses on the way.                       *)
THEOREM Refinement == Spec => Refines
<1>1. Init => Auth!Init
  <2> SUFFICES ASSUME Init PROVE Auth!Init
    OBVIOUS
  <2>1. Request = Auth!NullRequest(FALSE)
    <3>1. DOMAIN policies = {} /\ detailed = FALSE
      BY DEF Init
    <3> QED BY <3>1 DEF Request, Auth!NullRequest
  <2>2. Answer = Auth!DefaultDeny
    BY DEF Init, Answer, Auth!DefaultDeny
  <2> QED BY <2>1, <2>2 DEF Auth!Init
<1>2. IInv /\ Answered' /\ [Next]_vars => [Auth!Next]_(Auth!vars)
  BY StepRefines
<1>3. Spec => []Answered
  BY Invariance, LostInvariance, InvAnswered, PTL
<1> QED BY <1>1, <1>2, <1>3, Invariance, PTL DEF Spec, Refines, Auth!Spec
===============================================================================
