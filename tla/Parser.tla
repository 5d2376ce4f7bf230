-------------------------------- MODULE Parser --------------------------------
(***************************************************************************)
(* nxe_cedar_parse: recursive descent over the tokens of a policy text.    *)
(* The C stack is `stack', a frame per active call that waits for another; *)
(* `call' is the production being entered, or "return" when `ret' has just *)
(* been returned to the innermost frame.  An error sets a sticky flag and  *)
(* returns NULL; whether a caller reads the flag or goes on is modelled.   *)
(*                                                                         *)
(* A token is a record [t, v]: its kind, punctuation and keywords standing *)
(* for themselves, and its text or number.  A string that holds the escape *)
(* \* is of kind "pattern".  Trees are the nodes of ExprEval, scopes those *)
(* of PolicyMatch.  Where a refused construct stops is only logged: `pos'  *)
(* stays at its first token.                                               *)
(***************************************************************************)
EXTENDS Integers, Sequences, FiniteSets

CONSTANTS
  Token,             \* records [t, v]
  Text,              \* sequences of tokens
  MinLong, MaxLong,  \* INT64_MIN, INT64_MAX
  MaxParseDepth, MaxPolicies, MaxConditions, MaxSetElements, MaxAnnotations,
  MaxTypeParts, MaxRecordEntries, MaxMemberChain, MaxBinopChain

MaxRecordDepth == MaxMemberChain

ASSUME LimitAssumption ==
  /\ MaxParseDepth \in Nat \ {0} /\ MaxPolicies \in Nat /\ MaxConditions \in Nat
  /\ MaxSetElements \in Nat \ {0} /\ MaxAnnotations \in Nat
  /\ MaxTypeParts \in Nat \ {0} /\ MaxRecordEntries \in Nat \ {0}
  /\ MaxMemberChain \in Nat \ {0} /\ MaxBinopChain \in Nat
ASSUME TextAssumption == Text \subseteq Seq(Token)
\* The lexer gives "eof" once there is nothing more, and then for ever.
ASSUME TokenAssumption == \A k \in Token : k.t # "eof"

VARIABLES
  text,          \* the tokens the lexer will give
  pos,           \* the token in ctx->current
  error,         \* ctx->error
  depth,         \* ctx->depth
  record_depth,  \* ctx->record_depth
  stack,         \* frames [fn, note, acc, n], innermost last
  call, ret,     \* what is called next, or what was returned
  policies,      \* ps->policies, those complete
  oom            \* history: an allocation was refused

vars == <<text, pos, error, depth, record_depth, stack, call, ret, policies, oom>>

-------------------------------------------------------------------------------
(* Tokens                                                                  *)

Eof == [t |-> "eof", v |-> ""]
Tok(p) == IF p <= Len(text) THEN text[p] ELSE Eof
At(kinds) == Tok(pos).t \in kinds
\* The tokens from p on are of these kinds.
Ahead(p, kinds) == \A k \in DOMAIN kinds : Tok(p + k - 1).t = kinds[k]

Extension == {"ip", "decimal", "datetime", "duration"}
\* nxe_cedar_token_is_ident
Ident == {"ident"} \cup Extension
AttrName == Ident \cup {"string"}

\* A further part of a type name
Segment(p) == Ahead(p, <<"::", "ident">>)
Segments(p) == CHOOSE n \in 0..Len(text) :
                 /\ ~Segment(p + 2 * n) /\ \A i \in 0..n - 1 : Segment(p + 2 * i)

\* nxe_cedar_parse_type_name, at p: the name, the position after it
TypeAt(p) == [k \in 1..1 + Segments(p + 1) |-> Tok(p + 2 * (k - 1)).v]
TypeEnd(p) == p + 1 + 2 * Segments(p + 1)
IsType(p) == Tok(p).t = "ident" /\ Segments(p + 1) < MaxTypeParts
IsTypeName(p) == IsType(p) /\ Tok(TypeEnd(p)).t # "::"

\* nxe_cedar_parse_entity_ref_with_ident, its first identifier included
IsEntityRef(p) == IsType(p) /\ Ahead(TypeEnd(p), <<"::", "string">>)
EntityRefEnd(p) == TypeEnd(p) + 2
UidAt(p) == [type |-> TypeAt(p), id |-> Tok(TypeEnd(p) + 1).v]

-------------------------------------------------------------------------------
(* Trees                                                                   *)

Null == [op |-> "NULL"]
Leaf(val) == [op |-> "lit", kids |-> <<>>, val |-> val]
Ref(uid) == [op |-> "entity_ref", kids |-> <<>>, uid |-> uid]
Long(n) == Leaf([type |-> "LONG", n |-> n])

\* NXE_CEDAR_NODE_BINOP, by the token of its operator
Binary(t, l, r) ==
  CASE t \in {"<", "<=", ">", ">="} -> [op |-> "cmp", rel |-> t, kids |-> <<l, r>>]
    [] t \in {"+", "-", "*"}        -> [op |-> "arith", fn |-> t, kids |-> <<l, r>>]
    [] OTHER -> [op |-> CASE t = "&&" -> "and" [] t = "||" -> "or" [] t = "==" -> "eq"
                          [] t = "!=" -> "ne"  [] OTHER -> t,
                 kids |-> <<l, r>>]

-------------------------------------------------------------------------------
(* Calls and returns                                                       *)

\* The productions that are a chain of operators over the next production
Chain == {"or", "and", "add", "mult"}
Operand == [or |-> "and", and |-> "relation", add |-> "mult", mult |-> "unary"]
ChainOps == [or |-> {"||"}, and |-> {"&&"}, add |-> {"+", "-"}, mult |-> {"*"}]
Relop == {"==", "!=", "in", "<", ">", "<=", ">="}

\* Calls that have counted themselves in ctx->depth
Counted == {"expr", "ite", "unary"}

Top == stack[Len(stack)]
Below == SubSeq(stack, 1, Len(stack) - 1)

\* nxe_cedar_parser_advance, k times
Takes(k) == pos' = pos + k /\ error' = (error \/ Tok(pos + k).t = "error")
Stays == UNCHANGED <<pos, error>>
Fails == error' = TRUE /\ UNCHANGED pos

Calls(frames, f) == stack' = frames /\ call' = f /\ ret' = Null
\* A call that has no frame returns, or one that loops goes round.
Returns(frames, node) == stack' = frames /\ call' = "return" /\ ret' = node

\* A new frame: what it keeps for later, what it has so far, its loop count
Frame(f, note, acc) == [fn |-> f, note |-> note, acc |-> acc, n |-> 0]
Push(f, note) == Append(stack, Frame(f, note, <<>>))

\* The innermost call is over: what it counted it takes back.
Pops(node) ==
  /\ Returns(Below, node)
  /\ depth' = IF Top.fn \in Counted THEN depth - 1 ELSE depth
  /\ record_depth' = IF Top.fn = "record" THEN record_depth - 1 ELSE record_depth

Level == UNCHANGED <<depth, record_depth>>
Keep == UNCHANGED <<text, policies, oom>>

\* The production is refused on entry, or the innermost call refuses.
Refuses == Fails /\ Returns(stack, Null) /\ Level
PopsNull == Fails /\ Pops(Null)

\* Which callers test ctx->error when a call returns: nxe_cedar_parse_expr
\* passes on what it gets, and the loop of nxe_cedar_parse_member_expr only
\* looks for NULL once it has its first operand.
ReadsFlag(f) == f.fn # "expr" /\ (f.fn = "member" => f.n = 0)
Unwinds == \/ error /\ ReadsFlag(Top)
           \/ Top.fn = "member" /\ ret = Null

\* Control is back in the innermost call, of the production f.
Back(f) == call = "return" /\ stack # <<>> /\ Top.fn = f /\ ~Unwinds

Unwind ==
  /\ call = "return" /\ stack # <<>> /\ Unwinds
  /\ Stays /\ Pops(Null) /\ Keep

-------------------------------------------------------------------------------
(* Expressions                                                             *)

\* Variant with a bug: the depth is counted but not limited.
ParseExprUnlimited ==
  /\ call = "expr"
  /\ depth' = depth + 1 /\ UNCHANGED record_depth
  /\ \/ At({"if"}) /\ Takes(1) /\ Calls(Push("ite", ""), "expr")
     \/ ~At({"if"}) /\ Stays /\ Calls(Push("expr", ""), "or")
  /\ Keep

\* nxe_cedar_parse_expr
ParseExpr ==
  /\ call = "expr"
  /\ IF depth >= MaxParseDepth THEN Refuses
     ELSE /\ depth' = depth + 1 /\ UNCHANGED record_depth
          /\ \/ At({"if"}) /\ Takes(1) /\ Calls(Push("ite", ""), "expr")
             \/ ~At({"if"}) /\ Stays /\ Calls(Push("expr", ""), "or")
  /\ Keep

\* Variant with a bug: an error leaves without taking back its count.
EndExprKeepingDepth ==
  /\ Back("expr") /\ Stays /\ Keep
  /\ IF ret = Null THEN Returns(Below, Null) /\ Level ELSE Pops(ret)

EndExpr == Back("expr") /\ Stays /\ Pops(ret) /\ Keep

\* The operands so far are the condition, and the first branch after `then'.
EndIteOperand ==
  /\ Back("ite")
  /\ LET kids == Append(Top.acc, ret)
         word == <<"then", "else", "">>[Len(kids)] IN
     IF Len(kids) = 3 THEN Stays /\ Pops([op |-> "ite", kids |-> kids])
     ELSE IF At({word})
     THEN Takes(1) /\ Level /\ Calls(Append(Below, [Top EXCEPT !.acc = kids]), "expr")
     ELSE PopsNull
  /\ Keep

\* nxe_cedar_parse_or_expr, _and_expr, _add_expr, _mult_expr
ParseChain ==
  /\ call \in Chain
  /\ Stays /\ Level /\ Calls(Push(call, ""), Operand[call])
  /\ Keep

\* Variant with a bug: the chain has no limit.
EndChainOperandUnlimited ==
  /\ call = "return" /\ stack # <<>> /\ Top.fn \in Chain /\ ~Unwinds
  /\ LET left == IF Top.note = "" THEN ret ELSE Binary(Top.note, Top.acc[1], ret) IN
     IF ~At(ChainOps[Top.fn]) THEN Stays /\ Pops(left)
     ELSE /\ Takes(1) /\ Level
          /\ Calls(Append(Below, [Top EXCEPT !.note = Tok(pos).t, !.acc = <<left>>]),
                   Operand[Top.fn])
  /\ Keep

EndChainOperand ==
  /\ call = "return" /\ stack # <<>> /\ Top.fn \in Chain /\ ~Unwinds
  /\ LET left == IF Top.note = "" THEN ret ELSE Binary(Top.note, Top.acc[1], ret) IN
     IF ~At(ChainOps[Top.fn]) THEN Stays /\ Pops(left)
     ELSE IF Top.n >= MaxBinopChain THEN PopsNull
     ELSE /\ Takes(1) /\ Level
          /\ Calls(Append(Below, [Top EXCEPT !.note = Tok(pos).t, !.acc = <<left>>,
                                             !.n = @ + 1]), Operand[Top.fn])
  /\ Keep

\* nxe_cedar_parse_relation_expr
ParseRelation ==
  /\ call = "relation"
  /\ Stays /\ Level /\ Calls(Push("relation", ""), "add")
  /\ Keep

\* The second operand, of the operator or of `is ... in', is an add_expr.
AwaitsRight(k, op, v) ==
  /\ Takes(k) /\ Level
  /\ Calls(Append(Below, [Top EXCEPT !.note = <<op, v>>, !.acc = <<ret>>]), "add")

Is(left, type, rest) == [op |-> "is", kids |-> <<left>> \o rest, etype |-> type]

EndRelationLeft ==
  /\ Back("relation") /\ Top.acc = <<>>
  /\ \/ /\ At({"has"})
        /\ IF Tok(pos + 1).t \in AttrName
           THEN Takes(2) /\ Pops([op |-> "has", kids |-> <<ret>>, name |-> Tok(pos + 1).v])
           ELSE PopsNull
     \/ /\ At({"like"})
        /\ IF Tok(pos + 1).t \in {"string", "pattern"}
           THEN Takes(2) /\ Pops([op |-> "like", kids |-> <<ret>>,
                                  pattern |-> Tok(pos + 1).v])
           ELSE PopsNull
     \/ /\ At({"is"})
        /\ IF ~IsTypeName(pos + 1) THEN PopsNull
           ELSE IF Tok(TypeEnd(pos + 1)).t = "in"
           THEN AwaitsRight(TypeEnd(pos + 1) + 1 - pos, "is", TypeAt(pos + 1))
           ELSE Takes(TypeEnd(pos + 1) - pos) /\ Pops(Is(ret, TypeAt(pos + 1), <<>>))
     \/ At(Relop) /\ AwaitsRight(1, Tok(pos).t, "")
     \/ ~At(Relop \cup {"has", "like", "is"}) /\ Stays /\ Pops(ret)
  /\ Keep

EndRelationRight ==
  /\ Back("relation") /\ Top.acc # <<>>
  /\ Stays
  /\ Pops(IF Top.note[1] = "is" THEN Is(Top.acc[1], Top.note[2], <<ret>>)
          ELSE Binary(Top.note[1], Top.acc[1], ret))
  /\ Keep

\* nxe_cedar_parse_unary_expr: a minus and a number are one literal, which
\* no member access follows; otherwise it goes on to nxe_cedar_parse_member_expr.
ParseUnary ==
  /\ call = "unary"
  /\ IF Ahead(pos, <<"-", "number">>)
     THEN IF -Tok(pos + 1).v < MinLong THEN Refuses
          ELSE Takes(2) /\ Returns(stack, Long(-Tok(pos + 1).v)) /\ Level
     ELSE IF At({"-", "!"})
     THEN IF depth >= MaxParseDepth THEN Refuses
          ELSE /\ depth' = depth + 1 /\ UNCHANGED record_depth
               /\ Takes(1) /\ Calls(Push("unary", Tok(pos).t), "unary")
     ELSE Stays /\ Level /\ Calls(Push("member", ""), "primary")
  /\ Keep

EndUnary ==
  /\ Back("unary")
  /\ Stays /\ Pops([op |-> IF Top.note = "-" THEN "neg" ELSE "not", kids |-> <<ret>>])
  /\ Keep

\* One step of the loop of nxe_cedar_parse_member_expr over `object', with
\* nxe_cedar_parse_bracket_step and nxe_cedar_parse_dot_step
Access(k, object, name) ==
  /\ Takes(k) /\ Level
  /\ Returns(Append(Below, [Top EXCEPT !.n = @ + 1]),
             [op |-> "attr", kids |-> <<object>>, name |-> name])

Method(object, name, args) ==
  [op |-> "method", kids |-> <<object>> \o args, method |-> name]

MemberStep ==
  /\ Back("member")
  /\ LET name == Tok(pos + 1)
         object == ret
         counted == Append(Below, [Top EXCEPT !.n = @ + 1]) IN
     \/ ~At({".", "["}) /\ Stays /\ Pops(object)
     \/ /\ At({".", "["}) /\ Top.n < MaxMemberChain
        /\ \/ Ahead(pos, <<"[", "string", "]">>) /\ name.v # "" /\ Access(3, object, name.v)
           \/ /\ At({"."}) /\ name.t \in Ident
              /\ \/ Tok(pos + 2).t # "(" /\ Access(2, object, name.v)
                 \/ /\ Ahead(pos + 2, <<"(", ")">>)
                    /\ Takes(4) /\ Level /\ Returns(counted, Method(object, name.v, <<>>))
                 \/ /\ Tok(pos + 2).t = "(" /\ Tok(pos + 3).t # ")"
                    /\ Takes(3) /\ Level
                    /\ Calls(Append(counted, Frame("method", name.v, <<object>>)), "expr")
           \/ At({"["}) /\ ~(Ahead(pos, <<"[", "string", "]">>) /\ name.v # "") /\ PopsNull
           \/ At({"."}) /\ name.t \notin Ident /\ PopsNull
     \/ At({".", "["}) /\ Top.n >= MaxMemberChain /\ PopsNull
  /\ Keep

EndMethod ==
  /\ Back("method")
  /\ IF At({")"}) THEN Takes(1) /\ Pops(Method(Top.acc[1], Top.note, <<ret>>)) ELSE PopsNull
  /\ Keep

Boolean(b) == Leaf([type |-> "BOOL", b |-> b])
\* The primary expressions of one token
Atom(k) ==
  CASE k.t \in {"true", "false"} -> Boolean(k.t = "true")
    [] k.t = "number" -> Long(k.v)
    [] k.t = "string" -> Leaf([type |-> "STRING", s |-> k.v])
    [] OTHER          -> [op |-> "var", kids |-> <<>>, var |-> k.t]
Atoms == {"true", "false", "number", "string", "principal", "action", "resource", "context"}

\* Variant with a bug: a number out of range is NULL without the flag.
ParsePrimaryUnflagged ==
  /\ call = "primary"
  /\ IF At(Atoms)
     THEN /\ Takes(1) /\ Level
          /\ Returns(stack, IF At({"number"}) /\ Tok(pos).v > MaxLong THEN Null ELSE Atom(Tok(pos)))
     ELSE Refuses
  /\ Keep

\* nxe_cedar_parse_primary
ParsePrimary ==
  /\ call = "primary"
  /\ IF At(Atoms) /\ (At({"number"}) => Tok(pos).v <= MaxLong)
     THEN Takes(1) /\ Level /\ Returns(stack, Atom(Tok(pos)))
     ELSE IF At(Extension) /\ Ahead(pos + 1, <<"(", "string", ")">>)
     THEN /\ Takes(4) /\ Level
          /\ Returns(stack, [op |-> "ext", kids |-> <<>>, fn |-> Tok(pos).t,
                             text |-> Tok(pos + 2).v])
     ELSE IF IsEntityRef(pos)
     THEN /\ Takes(EntityRefEnd(pos) - pos) /\ Level
          /\ Returns(stack, Ref(UidAt(pos)))
     ELSE IF At({"("}) THEN Takes(1) /\ Level /\ Calls(Push("paren", ""), "expr")
     ELSE IF At({"["}) THEN Stays /\ Level /\ Calls(stack, "set")
     ELSE IF At({"{"}) THEN Stays /\ Level /\ Calls(stack, "record")
     ELSE Refuses
  /\ Keep

EndParen ==
  /\ Back("paren")
  /\ IF At({")"}) THEN Takes(1) /\ Pops(ret) ELSE PopsNull
  /\ Keep

SetOf(elts) == [op |-> "set", kids |-> elts]

\* nxe_cedar_parse_set_literal: no comma after the last element
ParseSet ==
  /\ call = "set"
  /\ Level
  /\ IF Tok(pos + 1).t = "]" THEN Takes(2) /\ Returns(stack, SetOf(<<>>))
     ELSE Takes(1) /\ Calls(Push("set", ""), "expr")
  /\ Keep

\* Variant with a bug: the limit is not looked at.
EndElementUnlimited ==
  /\ Back("set")
  /\ LET elts == Append(Top.acc, ret) IN
     IF At({","})
     THEN Takes(1) /\ Level /\ Calls(Append(Below, [Top EXCEPT !.acc = elts]), "expr")
     ELSE IF At({"]"}) THEN Takes(1) /\ Pops(SetOf(elts))
     ELSE PopsNull
  /\ Keep

EndElement ==
  /\ Back("set")
  /\ LET elts == Append(Top.acc, ret) IN
     IF At({","}) /\ Len(elts) < MaxSetElements
     THEN Takes(1) /\ Level /\ Calls(Append(Below, [Top EXCEPT !.acc = elts]), "expr")
     ELSE IF At({"]"}) THEN Takes(1) /\ Pops(SetOf(elts))
     ELSE PopsNull
  /\ Keep

\* An entry begins at p: its key is not one of those so far.
EntryAt(p, keys) ==
  /\ Tok(p).t \in AttrName /\ Tok(p + 1).t = ":"
  /\ \A k \in DOMAIN keys : keys[k] # Tok(p).v

RecordOf(keys, vals) == [op |-> "record", kids |-> vals, keys |-> keys]

\* nxe_cedar_parse_record_literal
ParseRecord ==
  /\ call = "record"
  /\ IF record_depth >= MaxRecordDepth THEN Refuses
     ELSE IF Tok(pos + 1).t = "}"
     THEN Takes(2) /\ Level /\ Returns(stack, RecordOf(<<>>, <<>>))
     ELSE IF EntryAt(pos + 1, <<>>)
     THEN /\ record_depth' = record_depth + 1 /\ UNCHANGED depth
          /\ Takes(3) /\ Calls(Push("record", <<Tok(pos + 1).v>>), "expr")
     ELSE Refuses
  /\ Keep

\* A comma may follow the last entry.
EndEntry ==
  /\ Back("record")
  /\ LET vals == Append(Top.acc, ret)
         node == RecordOf(Top.note, vals) IN
     IF At({"}"}) THEN Takes(1) /\ Pops(node)
     ELSE IF Ahead(pos, <<",", "}">>) THEN Takes(2) /\ Pops(node)
     ELSE IF At({","}) /\ Len(vals) < MaxRecordEntries /\ EntryAt(pos + 1, Top.note)
     THEN /\ Takes(3) /\ Level
          /\ Calls(Append(Below, [Top EXCEPT !.acc = vals,
                                             !.note = Append(@, Tok(pos + 1).v)]), "expr")
     ELSE PopsNull
  /\ Keep

-------------------------------------------------------------------------------
(* Policies                                                                *)

NoScope == [constraint |-> "none", type |-> <<>>, target |-> [node |-> "null"]]
Scope(constraint, type, target) ==
  [constraint |-> constraint, type |-> type, target |-> target]
Target(n) == [node |-> "entity_ref", uid |-> n.uid]

NewPolicy == [effect |-> "permit", annotations |-> <<>>, principal |-> NoScope,
              action |-> NoScope, resource |-> NoScope, conditions |-> <<>>]

PolicySet(ps) == [op |-> "policy_set", kids |-> ps]

\* The policy being built, in the frame of nxe_cedar_parse_policy
Policy == stack[1].acc[1]
Building(p) == <<[stack[1] EXCEPT !.acc = <<p>>]>>

\* The loop of nxe_cedar_parse, which returns NULL without the flag.
ParsePolicies ==
  /\ call = "policies"
  /\ Stays /\ Level
  /\ IF At({"permit", "forbid", "@"}) /\ Len(policies) < MaxPolicies
     THEN Calls(<<Frame("policy", "", <<NewPolicy>>)>>, "annotations")
     ELSE Returns(<<>>, IF At({"eof"}) THEN PolicySet(policies) ELSE Null)
  /\ Keep

\* Variant with a bug: what closes the value is not looked at.
AnnotatedUnclosed(p) ==
  /\ Len(Policy.annotations) < MaxAnnotations
  /\ Tok(p + 1).t \in Ident
  /\ Tok(p + 2).t = "(" => Tok(p + 3).t = "string"
  /\ \A k \in DOMAIN Policy.annotations : Policy.annotations[k].key # Tok(p + 1).v

\* nxe_cedar_parse_annotations: each key once, its value optional
Annotated(p) ==
  /\ Len(Policy.annotations) < MaxAnnotations
  /\ Tok(p + 1).t \in Ident
  /\ Tok(p + 2).t = "(" => Ahead(p + 3, <<"string", ")">>)
  /\ \A k \in DOMAIN Policy.annotations : Policy.annotations[k].key # Tok(p + 1).v

\* Variant with a bug: the last error of the loop is not tested, nor left.
ParseAnnotationStuck ==
  /\ call = "annotations" /\ At({"@"})
  /\ Level /\ Keep
  /\ IF Annotated(pos) THEN Takes(2) /\ Calls(stack, "annotations")
     ELSE Fails /\ Calls(stack, "annotations")

ParseAnnotation ==
  /\ call = "annotations" /\ At({"@"})
  /\ Level
  /\ LET valued == Tok(pos + 2).t = "("
         a == [key |-> Tok(pos + 1).v, value |-> IF valued THEN Tok(pos + 3).v ELSE ""] IN
     IF ~Annotated(pos) THEN Fails /\ Returns(stack, Null)
     ELSE /\ Takes(IF valued THEN 5 ELSE 2)
          /\ Calls(Building([Policy EXCEPT !.annotations = Append(@, a)]), "annotations")
  /\ Keep

\* nxe_cedar_parse_policy, up to the scopes
ParseEffect ==
  /\ call = "annotations" /\ ~At({"@"})
  /\ IF At({"permit", "forbid"}) /\ Tok(pos + 1).t = "("
     THEN Takes(2) /\ Level /\ Calls(Building([Policy EXCEPT !.effect = Tok(pos).t]), "principal")
     ELSE Refuses
  /\ Keep

ScopeVar == {"principal", "action", "resource"}
AfterScope == [principal |-> <<",", "action">>, action |-> <<",", "resource">>,
               resource |-> <<")", "conditions">>]

\* The clause that begins at p, after the variable v: at most one, and the
\* position after it.  `action in [...]' is not among them.
Clause(v, p) ==
  LET RefClause(c, type, q) ==
        IF IsEntityRef(q)
        THEN {[scope |-> Scope(c, type, Target(Ref(UidAt(q)))), end |-> EntityRefEnd(q)]}
        ELSE {} IN
  CASE Tok(p).t = "==" -> RefClause("eq", <<>>, p + 1)
    [] Tok(p).t = "in" -> RefClause("in", <<>>, p + 1)
    [] Tok(p).t = "is" ->
         IF v = "action" \/ ~IsTypeName(p + 1) THEN {}
         ELSE IF Tok(TypeEnd(p + 1)).t = "in"
         THEN RefClause("is_in", TypeAt(p + 1), TypeEnd(p + 1) + 1)
         ELSE {[scope |-> Scope("is", TypeAt(p + 1), [node |-> "null"]),
                end |-> TypeEnd(p + 1)]}
    [] OTHER -> {[scope |-> NoScope, end |-> p]}

\* nxe_cedar_parse_scope, and the separator after it
ParseScope ==
  /\ call \in ScopeVar
  /\ LET clauses == {c \in Clause(call, pos + 1) : Tok(c.end).t = AfterScope[call][1]} IN
     IF At({call}) /\ call = "action" /\ Ahead(pos + 1, <<"in", "[">>)
     THEN Takes(2) /\ Level /\ Calls(Push("scope", ""), "set")
     ELSE IF At({call}) /\ clauses # {}
     THEN /\ Level
          /\ \E c \in clauses :
               /\ Takes(c.end + 1 - pos)
               /\ Calls(Building([Policy EXCEPT ![call] = c.scope]), AfterScope[call][2])
     ELSE Refuses
  /\ Keep

\* The frame of the scope is over, with its clause in the policy.
EndScopeSet ==
  /\ Back("scope")
  /\ IF At({","}) /\ \A k \in DOMAIN ret.kids : ret.kids[k].op = "entity_ref"
     THEN /\ Takes(1) /\ Level
          /\ Calls(Building([Policy EXCEPT !.action = Scope("in", <<>>,
                      [node |-> "set", elts |-> [k \in DOMAIN ret.kids |->
                                                   Target(ret.kids[k])]])]), "resource")
     ELSE PopsNull
  /\ Keep

\* nxe_cedar_parse_condition, and the end of nxe_cedar_parse_policy
ParseCondition ==
  /\ call = "conditions"
  /\ IF At({"when", "unless"}) /\ Len(Policy.conditions) < MaxConditions
          /\ Tok(pos + 1).t = "{"
     THEN Takes(2) /\ Level /\ Calls(Push("condition", Tok(pos).t), "expr")
     ELSE IF At({";"})
     THEN Takes(1) /\ Level /\ Calls(<<>>, "policies")
     ELSE Refuses
  /\ UNCHANGED <<text, oom>>
  /\ policies' = IF At({";"}) THEN Append(policies, Policy) ELSE policies

EndCondition ==
  /\ Back("condition")
  /\ IF At({"}"})
     THEN /\ Takes(1) /\ Level
          /\ Calls(Building([Policy EXCEPT !.conditions = Append(@,
                     [is_unless |-> Top.note = "unless", expr |-> ret])]), "conditions")
     ELSE PopsNull
  /\ Keep

-------------------------------------------------------------------------------
(* Where memory is asked for: a node, an array, a further part of it or of *)
(* a type name                                                             *)

\* A scope has the node of an entity, or a type name of two parts.
ScopeAllocates ==
  /\ At({call})
  /\ \/ \E c \in {"==", "in"} : Ahead(pos + 1, <<c, "ident", "::">>)
     \/ /\ call # "action"
        /\ \/ Ahead(pos + 1, <<"is", "ident", "::">>)
           \/ Ahead(pos + 1, <<"is", "ident", "in", "ident", "::">>)

Allocates ==
  \/ call = "policies" /\ (policies = <<>> \/ At({"permit", "forbid", "@"}))
  \/ call = "annotations" /\ At({"@"})
  \/ call \in ScopeVar /\ ScopeAllocates
  \/ call = "conditions" /\ (Policy.conditions = <<>> \/ At({"when", "unless"}))
  \/ call \in {"set", "record"}
  \/ call = "expr" /\ At({"if"})
  \/ call = "primary" /\ ~At({"("})
  \/ call = "return" /\ stack # <<>> /\ ~Unwinds
     /\ \/ Top.fn \in {"unary", "set", "record"}
        \/ Top.fn \in Chain /\ Top.note # ""
        \/ Top.fn = "relation" /\ (Top.acc # <<>> \/ At(Relop \cup {"has", "is", "like"}))
        \/ Top.fn = "member" /\ At({".", "["})

\* nxe_cedar_parser_alloc_node, every ngx_array_push, the copies of names
AllocationFails ==
  /\ Allocates
  /\ Fails /\ oom' = TRUE
  /\ IF call = "return" THEN Pops(Null) ELSE Returns(stack, Null) /\ Level
  /\ UNCHANGED <<text, policies>>

Init ==
  /\ text \in Text
  /\ pos = 1 /\ error = (Tok(1).t = "error")
  /\ depth = 0 /\ record_depth = 0 /\ stack = <<>>
  /\ call = "policies" /\ ret = Null
  /\ policies = <<>> /\ oom = FALSE

ExprStep ==
  \/ ParseExpr \/ EndExpr \/ EndIteOperand
  \/ ParseChain \/ EndChainOperand \/ ParseRelation \/ EndRelationLeft \/ EndRelationRight
  \/ ParseUnary \/ EndUnary \/ MemberStep \/ EndMethod
  \/ ParsePrimary \/ EndParen \/ ParseSet \/ EndElement \/ ParseRecord \/ EndEntry

PolicyStep ==
  \/ ParsePolicies \/ ParseAnnotation \/ ParseEffect \/ ParseScope \/ EndScopeSet
  \/ ParseCondition \/ EndCondition

Step == ExprStep \/ PolicyStep \/ Unwind

Next == Step \/ AllocationFails

Spec == Init /\ [][Next]_vars

(* One call on one thread, which never waits; memory need not run out.     *)
FairSpec == Spec /\ WF_vars(Step)

-------------------------------------------------------------------------------
(* Properties                                                              *)

Done == call = "return" /\ stack = <<>>
Accepted == Done /\ ret # Null

Waiting == Chain \cup Counted \cup {"policy", "scope", "condition", "relation", "member",
  "method", "paren", "set", "record"}

Open(kinds, i) == {j \in 1..i : stack[j].fn \in kinds}

(* The two counters of the parser are the calls they count that are still  *)
(* active, however a call ended: an expression after another is allowed as *)
(* much nesting as the first (parser.c:1413-1424, 1568-1630, 566, 683).    *)
CountersExact ==
  /\ depth = Cardinality(Open(Counted, Len(stack)))
  /\ record_depth = Cardinality(Open({"record"}, Len(stack)))

(* However a policy is nested, by brackets, records, sets, method calls,   *)
(* conditionals or unary operators, the calls of the parser stay within a  *)
(* multiple of NXE_CEDAR_MAX_PARSE_DEPTH, which is what the limit is for:  *)
(* every way around the recursion is counted.                              *)
RecursionBounded == Len(stack) <= 8 * (MaxParseDepth + 1)

(* A caller that goes on after testing only ctx->error, or only for NULL,  *)
(* has been given a tree: no node that was not built is ever linked into   *)
(* another, or into a policy.                                              *)
NoNullLinked ==
  /\ \A i \in DOMAIN stack : \A k \in DOMAIN stack[i].acc : stack[i].acc[k] # Null
  /\ \A f \in Waiting : Back(f) /\ f # "expr" => ret # Null

(* The parser never reads past a token the lexer refused: every advance is *)
(* followed by a look at the token or at the sticky flag before the next   *)
(* (parser.c:73), so that nothing after the mistake becomes a policy.      *)
NeverPastError ==
  /\ \A i \in 1..pos - 1 : Tok(i).t # "error"
  /\ Accepted => pos = Len(text) + 1 /\ ~error

(* Parsing ends, whatever the text.                                        *)
Terminates == <>Done
===============================================================================
