------------------------------- MODULE ParseEval -------------------------------
(***************************************************************************)
(* Parser and evaluator together: a policy text is parsed once, and the    *)
(* conditions of the policies it holds are then evaluated, in any order    *)
(* and again and again, in one context.                                    *)
(***************************************************************************)
EXTENDS Parser

CONSTANTS
  Context, Datum, Equals(_, _), LikeMatches(_, _), MakeExtension(_, _),
  AskDatetime(_, _), AskDatetimeWith(_, _, _), AskDuration(_, _),
  AskIp(_, _), InIpRange(_, _), MaxEvalDepth      \* as in ExprEval

ASSUME EvalDepthAssumption == MaxEvalDepth \in Nat \ {0}

VARIABLES ctx, root, frames, eval_depth, answer, fault

\* The conditions come from the parser, not from a set given beforehand.
E == INSTANCE ExprEval WITH stack <- frames, Node <- {}

evaluation == <<ctx, root, frames, eval_depth, answer, fault>>
bothVars == <<vars, evaluation>>

InitBoth == Init /\ E!Init

Parse == Next /\ UNCHANGED evaluation

\* The conditions the parser has handed over
Conditions ==
  IF ~Accepted THEN {}
  ELSE UNION {{ret.kids[i].conditions[k].expr : k \in DOMAIN ret.kids[i].conditions} :
                i \in DOMAIN ret.kids}

BeginCondition == \E n \in Conditions : E!Begin(n) /\ UNCHANGED vars

Evaluate == (E!Step \/ E!Take) /\ UNCHANGED vars

NextBoth == Parse \/ BeginCondition \/ Evaluate

Both == InitBoth /\ [][NextBoth]_bothVars

-------------------------------------------------------------------------------

\* The tallest tree of d nested expressions: in each a chain of || over one
\* of && over a comparison of chains of + over chains of * of member steps
HeightOf(d) == d * (4 * MaxBinopChain + MaxMemberChain + 2)

(* Whatever the parser accepts, the evaluator evaluates without meeting    *)
(* its limit on recursion, when that limit is at least the height the      *)
(* parser's limits allow: all of them together bound the tree.             *)
LimitsSuffice ==
  MaxEvalDepth >= HeightOf(MaxParseDepth) => fault # "depth"

(* What the comment at NXE_CEDAR_MAX_EVAL_DEPTH says of the limit the      *)
(* evaluator really has (types.h:410-412): any tree the parser accepts     *)
(* evaluates without spuriously hitting the cap.                           *)
NeverCutOff == fault # "depth"
================================================================================
