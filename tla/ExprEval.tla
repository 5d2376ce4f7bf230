------------------------------- MODULE ExprEval -------------------------------
(***************************************************************************)
(* nxe_cedar_expr_eval: the recursive evaluation of one condition of a     *)
(* policy against one context.  The C stack is `stack', a frame per active *)
(* call that holds the operands it has so far; one step enters an operand, *)
(* returns a value to the caller's frame, or fails to allocate.            *)
(*                                                                         *)
(* A node is a record with a field op, its operands kids in the order the  *)
(* code evaluates them, and what else its op needs.  Literals carry their  *)
(* value, those of extension types the text it is made of.  A value is a   *)
(* record with a field type; an entity has a uid and the slot of the       *)
(* request it was read from.                                               *)
(***************************************************************************)
EXTENDS PolicyMatch, Integers

CONSTANTS
  Node,              \* the nodes a caller may evaluate, and their operands
  Context,           \* [uid, parents, attrs], functions of the slots
  Datum,             \* the values that literals and injected attributes give
  Equals(_, _),      \* nxe_cedar_value_equals: "yes", "no" or "error"
  LikeMatches(_, _), \* nxe_cedar_like_match
  MakeExtension(_, _),         \* nxe_cedar_make_ip and the three like it
  AskDatetime(_, _), AskDatetimeWith(_, _, _), AskDuration(_, _),
  AskIp(_, _), InIpRange(_, _),  \* the methods of the extension types
  MinLong, MaxLong,  \* INT64_MIN, INT64_MAX
  MaxEvalDepth       \* NXE_CEDAR_MAX_EVAL_DEPTH

Slot == {"principal", "action", "resource"}

ASSUME DepthAssumption == MaxEvalDepth \in Nat \ {0}

\* Two's complement
ASSUME LongAssumption ==
  MinLong \in Int /\ MaxLong \in Int /\ MinLong < 0 /\ MaxLong = -MinLong - 1

VARIABLES
  ctx,         \* the evaluation context
  root,        \* the condition being evaluated, a set of at most one node
  stack,       \* the frames [node, vals], innermost last
  eval_depth,  \* ctx->eval_depth
  answer,      \* what the evaluation returned, a set of at most one value
  fault        \* history: "memory" or "depth" if the evaluation met it

vars == <<ctx, root, stack, eval_depth, answer, fault>>

-------------------------------------------------------------------------------
(* Values                                                                  *)

Error == [type |-> "ERROR"]
Bool(b) == [type |-> "BOOL", b |-> b]
Long(n) == [type |-> "LONG", n |-> n]
Entity(uid, slot) == [type |-> "ENTITY", uid |-> uid, slot |-> slot]
Ordered == {"LONG", "DATETIME", "DURATION"}
Numeric == Ordered \cup {"DECIMAL"}

Types == {"BOOL", "STRING", "ENTITY", "SET", "RECORD", "ERROR", "IP"} \cup Numeric

IsBool(v, b) == v.type = "BOOL" /\ v.b = b

\* The values without contents that an evaluation makes itself
Plain == {Error} \cup [type : {"BOOL"}, b : BOOLEAN]
           \cup [type : Numeric, n : MinLong..MaxLong]

Values(attrs) == [k \in DOMAIN attrs |-> attrs[k].value]

\* What a value holds
Contents(v) == CASE v.type = "SET"    -> v.elts
                 [] v.type = "RECORD" -> Values(v.attrs)
                 [] OTHER             -> <<>>

NoError(V) == {v \in V : v.type # "ERROR"}

\* A name stands for one attribute.
Unique(names) == \A j, k \in DOMAIN names : names[j] = names[k] => j = k
NamesOf(attrs) == [k \in DOMAIN attrs |-> attrs[k].name]

\* A value such as a set or a record holds, and what it holds itself is in V
Formed(v, V) ==
  /\ v.type \in Types
  /\ v.type \in {"ERROR", "BOOL"} \cup Numeric => v \in Plain
  /\ v.type = "ENTITY" => v = Entity(v.uid, "none")
  /\ v.type = "RECORD" => Unique(NamesOf(v.attrs))
  /\ Contents(v) \in Seq(NoError(V))

ASSUME DatumAssumption == \A v \in Datum : Formed(v, Datum)

ASSUME ContextAssumption ==
  \A c \in Context :
    /\ DOMAIN c.uid = Slot /\ DOMAIN c.parents = Slot
    /\ DOMAIN c.attrs = Slot \cup {"context"}
    /\ \A var \in DOMAIN c.attrs :
         /\ Values(c.attrs[var]) \in Seq(NoError(Datum))
         /\ Unique(NamesOf(c.attrs[var]))

\* How many operands the node of an operator has
Arity(op) ==
  CASE op \in {"lit", "ext", "entity_ref", "var"}               -> {0}
    [] op \in {"attr", "has", "not", "neg", "like"}             -> {1}
    [] op \in {"is", "method"}                                  -> {1, 2}
    [] op \in {"and", "or", "eq", "ne", "in", "cmp", "arith"}   -> {2}
    [] op = "ite"                                               -> {3}
    [] op \in {"set", "record"}                                 -> Nat
    [] OTHER                                                    -> {}

ASSUME NodeAssumption ==
  \A n \in Node :
    /\ n.kids \in Seq(Node) /\ Len(n.kids) \in Arity(n.op)
    /\ n.op = "lit" => n.val \in Datum
    /\ n.op = "ext" => MakeExtension(n.fn, n.text) \in Datum
    /\ n.op = "var" => n.var \in Slot \cup {"context"}
    /\ n.op = "record" => Unique(n.keys) /\ DOMAIN n.keys = DOMAIN n.kids
    /\ n.op = "cmp" => n.rel \in {"<", "<=", ">", ">="}
    /\ n.op = "arith" => n.fn \in {"+", "-", "*"}

\* The methods of the extension types answer with values without contents.
Methods == {n.method : n \in {m \in Node : m.op = "method"}}
Addresses == {v \in Datum : v.type = "IP"}
ASSUME MethodAssumption ==
  \A method \in Methods :
    /\ \A k \in MinLong..MaxLong :
         /\ AskDatetime(method, k) \in Plain /\ AskDuration(method, k) \in Plain
         /\ \A v \in [type : Ordered, n : MinLong..MaxLong] :
              AskDatetimeWith(method, k, v) \in Plain
    /\ \A v \in Addresses : AskIp(method, v) \in Plain
    /\ \A v, w \in Addresses : InIpRange(v, w) \in BOOLEAN

ASSUME LikeAssumption ==
  \A v \in Datum, n \in Node :
    v.type = "STRING" /\ n.op = "like" => LikeMatches(v.s, n.pattern) \in BOOLEAN

\* Entities are equal that have one identity, whatever their slots.
Uids == {c.uid[s] : c \in Context, s \in Slot}
          \cup {n.uid : n \in {m \in Node : m.op = "entity_ref"}}
ASSUME EqualsAssumption ==
  \A u, w \in Uids, s, t \in Slot \cup {"none"} :
    Equals(Entity(u, s), Entity(w, t)) = IF u = w THEN "yes" ELSE "no"

\* Variant with a bug: the tag is kept.
KeepSlot(v) == v

ClearSlot(v) == IF v.type = "ENTITY" THEN [v EXCEPT !.slot = "none"] ELSE v

RequestSlot(uid) ==
  IF uid = ctx.uid["principal"] THEN "principal"
  ELSE IF uid = ctx.uid["action"] THEN "action"
  ELSE IF uid = ctx.uid["resource"] THEN "resource"
  ELSE "none"

\* Variant with a bug: looked up by identity, two slots may collapse.
LookupParentsByUid(slot) ==
  IF slot \in Slot THEN ctx.parents[RequestSlot(ctx.uid[slot])] ELSE <<>>

LookupParents(slot) == IF slot \in Slot THEN ctx.parents[slot] ELSE <<>>

First(S) == CHOOSE k \in S : \A l \in S : k <= l

Named(attrs, name) == {k \in DOMAIN attrs : attrs[k].name = name}

-------------------------------------------------------------------------------
(* What each kind of node makes of its operands                            *)

\* principal, action, resource and context are not evaluated to be accessed.
Operands(n) ==
  IF n.op \in {"attr", "has"} /\ n.kids[1].op = "var" THEN <<>> ELSE n.kids

\* Where .attr and `has' look: only what names a request entity has a store.
HasStore(n, vals) ==
  \/ n.kids[1].op = "var"
  \/ vals[1].type = "ENTITY" /\ vals[1].slot \in Slot
  \/ vals[1].type = "RECORD"

Store(n, vals) ==
  IF n.kids[1].op = "var" THEN ctx.attrs[n.kids[1].var]
  ELSE IF vals[1].type = "ENTITY" THEN ctx.attrs[vals[1].slot]
  ELSE vals[1].attrs

\* Variant with a bug: an entity literal has no attributes to read.
EvalAttrAccessNoEntity(n, vals) ==
  IF vals # <<>> /\ vals[1].type = "ENTITY" THEN Error
  ELSE IF HasStore(n, vals) /\ Named(Store(n, vals), n.name) # {}
  THEN Store(n, vals)[First(Named(Store(n, vals), n.name))].value
  ELSE Error

EvalAttrAccess(n, vals) ==
  IF HasStore(n, vals) /\ Named(Store(n, vals), n.name) # {}
  THEN Store(n, vals)[First(Named(Store(n, vals), n.name))].value
  ELSE Error

EvalHas(n, vals) ==
  IF HasStore(n, vals) THEN Bool(Named(Store(n, vals), n.name) # {}) ELSE Error

\* Variant with a bug: the first match hides what follows it in the set.
EvalInEager(left, right) ==
  LET InUid(uid) == EntityInTarget(left.uid, LookupParents(left.slot), uid)
      decided == {k \in DOMAIN right.elts :
                    \/ right.elts[k].type # "ENTITY"
                    \/ InUid(right.elts[k].uid)} IN
  IF left.type # "ENTITY" THEN Error
  ELSE IF right.type = "ENTITY" THEN Bool(InUid(right.uid))
  ELSE IF right.type # "SET" THEN Error
  ELSE IF decided = {} THEN Bool(FALSE)
  ELSE IF right.elts[First(decided)].type # "ENTITY" THEN Error
  ELSE Bool(TRUE)

EvalIn(left, right) ==
  LET InUid(uid) == EntityInTarget(left.uid, LookupParents(left.slot), uid) IN
  IF left.type # "ENTITY" THEN Error
  ELSE IF right.type = "ENTITY" THEN Bool(InUid(right.uid))
  ELSE IF right.type # "SET" THEN Error
  ELSE IF \E k \in DOMAIN right.elts : right.elts[k].type # "ENTITY" THEN Error
  ELSE Bool(\E k \in DOMAIN right.elts : InUid(right.elts[k].uid))

\* An object of another type is no error, and `in' is then not evaluated.
EvalIsCheck(n, vals) ==
  IF vals[1].type # "ENTITY" THEN Error
  ELSE IF vals[1].uid.type # n.etype THEN Bool(FALSE)
  ELSE IF Len(n.kids) = 1 THEN Bool(TRUE)
  ELSE EvalIn(vals[1], vals[2])

\* A loop over comparisons stops at the first that is not "no".
Scan(outcomes) ==
  LET hits == {k \in DOMAIN outcomes : outcomes[k] # "no"} IN
  IF hits = {} THEN "no" ELSE outcomes[First(hits)]

Outcome(o) == IF o = "error" THEN Error ELSE Bool(o = "yes")

Negated(v) == IF v.type = "BOOL" THEN Bool(~v.b) ELSE Error

EvalContains(set, v) ==
  Outcome(Scan([k \in DOMAIN set |-> Equals(set[k], v)]))

FoundIn(v, set) == Scan([k \in DOMAIN set |-> Equals(v, set[k])])

EvalContainsAny(set, arg) ==
  Outcome(Scan([k \in DOMAIN arg |-> FoundIn(arg[k], set)]))

EvalContainsAll(set, arg) ==
  LET misses == {k \in DOMAIN arg : FoundIn(arg[k], set) # "yes"} IN
  IF misses = {} THEN Bool(TRUE) ELSE Outcome(FoundIn(arg[First(misses)], set))

Relates(rel, m, n) ==
  CASE rel = "<"  -> m < n
    [] rel = "<=" -> m <= n
    [] rel = ">"  -> m > n
    [] OTHER      -> m >= n

Compare(rel, l, r) ==
  IF l.type # r.type \/ l.type \notin Ordered THEN Error
  ELSE Bool(Relates(rel, l.n, r.n))

\* A method without an argument
EvalMethod(method, obj) ==
  IF method = "isEmpty"
  THEN IF obj.type = "SET" THEN Bool(obj.elts = <<>>) ELSE Error
  ELSE CASE obj.type = "DATETIME" -> AskDatetime(method, obj.n)
         [] obj.type = "DURATION" -> AskDuration(method, obj.n)
         [] obj.type = "IP"       -> AskIp(method, obj)
         [] OTHER                 -> Error

EvalSetMethod(method, obj, arg) ==
  IF obj.type # "SET" THEN Error
  ELSE IF method = "contains" THEN EvalContains(obj.elts, arg)
  ELSE IF arg.type # "SET" THEN Error
  ELSE IF method = "containsAll" THEN EvalContainsAll(obj.elts, arg.elts)
  ELSE EvalContainsAny(obj.elts, arg.elts)

\* Decimals are ordered by methods only.
DecimalRelation == [lessThan |-> "<", lessThanOrEqual |-> "<=", greaterThan |-> ">",
                    greaterThanOrEqual |-> ">="]

\* A method with an argument
EvalMethodWith(method, obj, arg) ==
  IF method \in {"contains", "containsAll", "containsAny"}
  THEN EvalSetMethod(method, obj, arg)
  ELSE IF method = "isInRange"
  THEN IF {obj.type, arg.type} = {"IP"} THEN Bool(InIpRange(obj, arg)) ELSE Error
  ELSE IF obj.type = "DATETIME"
  THEN IF arg.type \in {"DATETIME", "DURATION"}
       THEN AskDatetimeWith(method, obj.n, arg) ELSE Error
  ELSE IF {obj.type, arg.type} = {"DECIMAL"} /\ method \in DOMAIN DecimalRelation
  THEN Bool(Relates(DecimalRelation[method], obj.n, arg.n))
  ELSE Error

EvalMethodCall(method, vals) ==
  IF Len(vals) = 1 THEN EvalMethod(method, vals[1])
  ELSE EvalMethodWith(method, vals[1], vals[2])

\* Variant with a bug: the result is not checked.
LongArithUnchecked(fn, l, r) ==
  LET exact == CASE fn = "+" -> l.n + r.n
                 [] fn = "-" -> l.n - r.n
                 [] OTHER    -> l.n * r.n IN
  IF l.type # "LONG" \/ r.type # "LONG" THEN Error
  ELSE Long(exact)

LongArith(fn, l, r) ==
  LET exact == CASE fn = "+" -> l.n + r.n
                 [] fn = "-" -> l.n - r.n
                 [] OTHER    -> l.n * r.n IN
  IF l.type # "LONG" \/ r.type # "LONG" THEN Error
  ELSE IF exact \in MinLong..MaxLong THEN Long(exact) ELSE Error

Negate(v) ==
  IF v.type = "LONG" /\ v.n # MinLong THEN Long(-v.n) ELSE Error

EvalLike(v, pattern) ==
  IF v.type = "STRING" THEN Bool(LikeMatches(v.s, pattern)) ELSE Error

EvalVar(var) ==
  IF var = "context" THEN [type |-> "RECORD", attrs |-> ctx.attrs[var]]
  ELSE Entity(ctx.uid[var], var)

MakeRecord(keys, vals) ==
  [type |-> "RECORD", attrs |-> [k \in DOMAIN vals |->
     [name |-> keys[k], value |-> ClearSlot(vals[k])]]]

\* The value of a node none of whose operands is an error
Value(n, vals) ==
  CASE n.op = "lit"        -> n.val
    [] n.op = "ext"        -> MakeExtension(n.fn, n.text)
    [] n.op = "entity_ref" -> Entity(n.uid, RequestSlot(n.uid))
    [] n.op = "var"        -> EvalVar(n.var)
    [] n.op = "attr"       -> EvalAttrAccess(n, vals)
    [] n.op = "has"        -> EvalHas(n, vals)
    [] n.op = "set"        -> [type |-> "SET", elts |->
                                 [k \in DOMAIN vals |-> ClearSlot(vals[k])]]
    [] n.op = "record"     -> MakeRecord(n.keys, vals)
    [] n.op \in {"and", "or"} ->
         IF vals[Len(vals)].type = "BOOL" THEN vals[Len(vals)] ELSE Error
    [] n.op = "eq"         -> Outcome(Equals(vals[1], vals[2]))
    [] n.op = "ne"         -> Negated(Outcome(Equals(vals[1], vals[2])))
    [] n.op = "in"         -> EvalIn(vals[1], vals[2])
    [] n.op = "cmp"        -> Compare(n.rel, vals[1], vals[2])
    [] n.op = "arith"      -> LongArith(n.fn, vals[1], vals[2])
    [] n.op = "not"        -> Negated(vals[1])
    [] n.op = "neg"        -> Negate(vals[1])
    [] n.op = "like"       -> EvalLike(vals[1], n.pattern)
    [] n.op = "method"     -> EvalMethodCall(n.method, vals)
    [] n.op = "is"         -> EvalIsCheck(n, vals)
    [] n.op = "ite"        ->
         IF vals[1].type = "BOOL" THEN ClearSlot(vals[2]) ELSE Error

Failed(vals) == \E k \in DOMAIN vals : vals[k].type = "ERROR"

\* nxe_cedar_expr_eval_body
Result(n, vals) == IF Failed(vals) THEN Error ELSE Value(n, vals)

\* With its first operand known, a node goes on to the second.
GoesOn(n, first) ==
  CASE n.op = "and" -> IsBool(first, TRUE)
    [] n.op = "or"  -> IsBool(first, FALSE)
    [] n.op = "is"  -> first.type = "ENTITY" /\ first.uid.type = n.etype
    [] OTHER        -> TRUE

\* The operand to evaluate next: none once the node is decided
Awaited(n, vals) ==
  LET done == Len(vals) IN
  {k \in DOMAIN Operands(n) :
     /\ ~Failed(vals)
     /\ IF n.op = "ite" /\ done > 0
        THEN done = 1 /\ \/ k = 2 /\ IsBool(vals[1], TRUE)
                         \/ k = 3 /\ IsBool(vals[1], FALSE)
        ELSE k = done + 1 /\ (done = 1 => GoesOn(n, vals[1]))}

-------------------------------------------------------------------------------
(* The calls                                                               *)

Top == stack[Len(stack)]
Below == SubSeq(stack, 1, Len(stack) - 1)

\* A call returns v to the frame under it, or to nxe_cedar_policy_matches.
Deliver(below, v) ==
  IF below = <<>> THEN stack' = <<>> /\ answer' = {v}
  ELSE /\ stack' = [below EXCEPT ![Len(below)].vals = Append(@, v)]
       /\ UNCHANGED answer

\* nxe_cedar_expr_eval
Call(n, below) ==
  IF eval_depth >= MaxEvalDepth
  THEN Deliver(below, Error) /\ fault' = "depth" /\ UNCHANGED eval_depth
  ELSE /\ stack' = Append(below, [node |-> n, vals |-> <<>>])
       /\ eval_depth' = eval_depth + 1
       /\ UNCHANGED <<answer, fault>>

\* nxe_cedar_policy_matches comes to a condition
Begin(n) ==
  /\ root = {}
  /\ root' = {n}
  /\ Call(n, <<>>)
  /\ UNCHANGED ctx

EvalOperand ==
  /\ stack # <<>>
  /\ \E k \in Awaited(Top.node, Top.vals) : Call(Top.node.kids[k], stack)
  /\ UNCHANGED <<ctx, root>>

\* Variant with a bug: an error leaves by a way that forgets the counter.
ReturnKeepingDepth ==
  /\ stack # <<>> /\ Awaited(Top.node, Top.vals) = {}
  /\ Deliver(Below, Result(Top.node, Top.vals))
  /\ eval_depth' = IF Failed(Top.vals) THEN eval_depth ELSE eval_depth - 1
  /\ UNCHANGED <<ctx, root, fault>>

Return ==
  /\ stack # <<>> /\ Awaited(Top.node, Top.vals) = {}
  /\ Deliver(Below, Result(Top.node, Top.vals))
  /\ eval_depth' = eval_depth - 1
  /\ UNCHANGED <<ctx, root, fault>>

\* Variant with a bug: a set or record that cannot be allocated is skipped.
AllocationYieldsFalse ==
  /\ stack # <<>> /\ Top.node.op \in {"set", "record"} /\ Top.vals = <<>>
  /\ Deliver(Below, Bool(FALSE))
  /\ eval_depth' = eval_depth - 1
  /\ fault' = "memory"
  /\ UNCHANGED <<ctx, root>>

\* The array of a set or record literal, made for all its elements before
\* the first is evaluated, is the only allocation of an evaluation.
AllocationFails ==
  /\ stack # <<>> /\ Top.node.op \in {"set", "record"} /\ Top.vals = <<>>
  /\ Deliver(Below, Error)
  /\ eval_depth' = eval_depth - 1
  /\ fault' = "memory"
  /\ UNCHANGED <<ctx, root>>

\* nxe_cedar_condition_matches takes the answer.
Take ==
  /\ answer # {}
  /\ root' = {} /\ answer' = {} /\ fault' = "none"
  /\ UNCHANGED <<ctx, stack, eval_depth>>

Init ==
  /\ ctx \in Context
  /\ root = {} /\ stack = <<>> /\ eval_depth = 0 /\ answer = {}
  /\ fault = "none"

Step == EvalOperand \/ Return \/ AllocationFails

Next == (\E n \in Node : Begin(n)) \/ Step \/ Take

Spec == Init /\ [][Next]_vars

(* The evaluation is one call on the worker's only thread.                 *)
FairSpec == Spec /\ WF_vars(Step)

-------------------------------------------------------------------------------
(* Properties                                                              *)

Typed(v) ==
  /\ v.type \in Types
  /\ v.type \in Numeric => v.n \in MinLong..MaxLong
  /\ v.type = "ENTITY" => v.slot \in Slot \cup {"none"}

(* The frames are a way down the condition, and hold values in the range   *)
(* of their C type, at most one for each operand.                          *)
TypeOK ==
  /\ ctx \in Context
  /\ stack # <<>> => root = {stack[1].node} /\ answer = {}
  /\ \A d \in DOMAIN stack :
       /\ d > 1 => \E k \in DOMAIN stack[d - 1].node.kids :
                     stack[d].node = stack[d - 1].node.kids[k]
       /\ Len(stack[d].vals) <= Len(stack[d].node.kids)
       /\ \A k \in DOMAIN stack[d].vals : Typed(stack[d].vals[k])
  /\ eval_depth \in 0..MaxEvalDepth
  /\ \A v \in answer : Typed(v)
  /\ fault \in {"none", "memory", "depth"}

Untagged(v) == v.type = "ENTITY" => v.slot = "none"

TagSound(v) ==
  /\ v.type = "ENTITY" /\ v.slot \in Slot => v.uid = ctx.uid[v.slot]
  /\ v.type = "SET" => \A k \in DOMAIN v.elts : Untagged(v.elts[k])
  /\ v.type = "RECORD" => \A k \in DOMAIN v.attrs : Untagged(v.attrs[k].value)

(* A slot tag is never stale: the entity that carries it is the request's  *)
(* entity of that slot, and nothing put into a set or a record carries one *)
(* any more (expr.c:880-898), so that `in' and attribute access through a  *)
(* tag read the arrays of the entity they are about.                       *)
SlotSound ==
  /\ \A d \in DOMAIN stack : \A k \in DOMAIN stack[d].vals :
       TagSound(stack[d].vals[k])
  /\ \A v \in answer : TagSound(v)

(* An evaluation that lacked memory or went too deep yields an error,      *)
(* whatever surrounds the place it happened at, so no operator turns the   *)
(* failure into a Boolean that could satisfy a clause.                     *)
FaultsErr == answer # {} /\ fault # "none" => answer = {Error}

(* `o has a && o.a ...': once the guard holds, reading the attribute of    *)
(* the same object does not err, whichever way either looks it up and      *)
(* whatever is then done with what it read.                                *)
Guarded(n) ==
  LET reads == n.kids[2].kids[1] IN
  /\ n.op = "and" /\ n.kids[1].op = "has"
  /\ n.kids[2].kids # <<>> /\ reads.op = "attr"
  /\ reads.kids = n.kids[1].kids /\ reads.name = n.kids[1].name

HasGuards ==
  \A d \in 1..Len(stack) - 1 :
    Guarded(stack[d].node) /\ Len(stack[d].vals) = 1
      /\ stack[d + 1].vals # <<>> /\ fault = "none"
      => stack[d + 1].vals[1].type # "ERROR"

(* The clause of a policy's scope that says the same as a condition on     *)
(* principal, action or resource, if there is one.                         *)
Reference(n) == [node |-> "entity_ref", uid |-> n.uid]

ScopeClauses(n) ==
  LET Clause(constraint, type, target) ==
        {[constraint |-> constraint, type |-> type, target |-> target]}
      refs == {k \in DOMAIN n.kids : n.kids[k].op = "entity_ref"} IN
  IF n.op = "eq" /\ 2 \in refs THEN Clause("eq", "", Reference(n.kids[2]))
  ELSE IF n.op = "in" /\ 2 \in refs THEN Clause("in", "", Reference(n.kids[2]))
  ELSE IF n.op = "in" /\ n.kids[2].op = "set"
          /\ \A k \in DOMAIN n.kids[2].kids : n.kids[2].kids[k].op = "entity_ref"
  THEN Clause("in", "", [node |-> "set", elts |->
         [k \in DOMAIN n.kids[2].kids |-> Reference(n.kids[2].kids[k])]])
  ELSE IF n.op = "is" /\ Len(n.kids) = 1 THEN Clause("is", n.etype, [node |-> "null"])
  ELSE IF n.op = "is" /\ 2 \in refs THEN Clause("is_in", n.etype, Reference(n.kids[2]))
  ELSE {}

(* What a policy says in its scope and what it says in a `when' clause in  *)
(* the same words is the same, although other code reads it, and also when *)
(* two entities of the request have one identity (eval.c:68-70).           *)
ScopeAgrees ==
  \A n \in root, v \in answer :
    n.kids # <<>> /\ n.kids[1].op = "var" /\ fault = "none" =>
      \A s \in Slot : n.kids[1].var = s =>
        \A scope \in ScopeClauses(n) :
          v = Bool(ScopeMatches(scope, ctx.uid[s], ctx.parents[s]))

\* The operands of some nodes, and those so many levels below a node
OperandsOf(S) == UNION {{m.kids[j] : j \in DOMAIN Operands(m)} : m \in S}

Level(n) ==
  LET level[k \in Nat] == IF k = 0 THEN {n} ELSE OperandsOf(level[k - 1]) IN level

(* The depth limit cuts off only conditions that are deeper than it: what  *)
(* an evaluation counts it takes back, however it ends, so that neither    *)
(* siblings nor the conditions of earlier policies, evaluated in the same  *)
(* context, use up the budget of the next (expr.c:2367-2391).              *)
CutOffOnlyDeep ==
  \A n \in root : fault = "depth" => Level(n)[MaxEvalDepth] # {}
===============================================================================
