-------------------------------- MODULE Grammar --------------------------------
(***************************************************************************)
(* What the parser should make of a text: the grammar in the comments of   *)
(* nxe_cedar_parser.c, with its limits, as the set of trees that each span *)
(* p..q - 1 of the tokens s can be read as.  d is how many more levels of  *)
(* nesting are allowed, r how many levels of record literals, n how many   *)
(* more operators, elements or steps in the chain or list at hand.         *)
(***************************************************************************)
EXTENDS Parser

Spells(s, p, q, kinds) ==
  q - p = Len(kinds) /\ \A k \in DOMAIN kinds : s[p + k - 1].t = kinds[k]

Where(s, p, q, kinds) == {m \in p..q - 1 : s[m].t \in kinds}

TypeNames(s, p, q) ==
  IF /\ (q - p) % 2 = 1 /\ q - p < 2 * MaxTypeParts
     /\ \A m \in p..q - 1 : s[m].t = IF (m - p) % 2 = 0 THEN "ident" ELSE "::"
  THEN {[k \in 1..(q - p + 1) \div 2 |-> s[p + 2 * k - 2].v]} ELSE {}

EntityRefs(s, p, q) ==
  IF q - p >= 3 /\ Spells(s, q - 2, q, <<"::", "string">>)
  THEN {[type |-> t, id |-> s[q - 1].v] : t \in TypeNames(s, p, q - 2)} ELSE {}

RECURSIVE Exprs(_, _, _, _, _), Chains(_, _, _, _, _, _, _), Elements(_, _, _, _, _, _),
          Entries(_, _, _, _, _, _), Members(_, _, _, _, _, _), Unaries(_, _, _, _, _)

Atomic(s, p, q) ==
  IF q - p # 1 \/ s[p].t \notin Atoms THEN {}
  ELSE IF s[p].t = "number" /\ s[p].v > MaxLong THEN {}
  ELSE {Atom(s[p])}

Elements(s, p, q, d, r, n) ==
  {<<e>> : e \in Exprs(s, p, q, d, r)} \cup
  (IF n <= 1 THEN {} ELSE
   UNION {{<<e>> \o rest : e \in Exprs(s, p, m, d, r),
                           rest \in Elements(s, m + 1, q, d, r, n - 1)} :
            m \in Where(s, p, q, {","})})

\* Sequences of <<key, expression>>
Entries(s, p, q, d, r, n) ==
  IF q - p < 3 \/ s[p].t \notin AttrName \/ s[p + 1].t # ":" THEN {}
  ELSE {<<<<s[p].v, e>>>> : e \in Exprs(s, p + 2, q, d, r)} \cup
       (IF n <= 1 THEN {} ELSE
        UNION {{<<<<s[p].v, e>>>> \o rest : e \in Exprs(s, p + 2, m, d, r),
                                           rest \in Entries(s, m + 1, q, d, r, n - 1)} :
                 m \in Where(s, p, q, {","})})

Distinct(keys) == \A i, j \in DOMAIN keys : keys[i] = keys[j] => i = j
KeysOf(es) == [k \in DOMAIN es |-> es[k][1]]
ValuesOf(es) == [k \in DOMAIN es |-> es[k][2]]

RecordLiterals(s, p, q, d, r) ==
  LET last == IF s[q - 2].t = "," THEN q - 2 ELSE q - 1 IN
  IF r = 0 THEN {}
  ELSE IF q - p = 2 THEN {RecordOf(<<>>, <<>>)}
  ELSE {RecordOf(KeysOf(es), ValuesOf(es)) :
          es \in {x \in Entries(s, p + 1, last, d, r - 1, MaxRecordEntries) :
                    Distinct(KeysOf(x))}}

Primaries(s, p, q, d, r) ==
  UNION {Atomic(s, p, q),
    {Ref(uid) : uid \in EntityRefs(s, p, q)},
    IF \E x \in Extension : Spells(s, p, q, <<x, "(", "string", ")">>)
    THEN {[op |-> "ext", kids |-> <<>>, fn |-> s[p].t, text |-> s[p + 2].v]} ELSE {},
    IF q - p < 2 THEN {}
    ELSE CASE s[p].t = "(" /\ s[q - 1].t = ")" -> Exprs(s, p + 1, q - 1, d, r)
           [] s[p].t = "[" /\ s[q - 1].t = "]" ->
                IF q - p = 2 THEN {SetOf(<<>>)}
                ELSE {SetOf(es) : es \in Elements(s, p + 1, q - 1, d, r, MaxSetElements)}
           [] s[p].t = "{" /\ s[q - 1].t = "}" -> RecordLiterals(s, p, q, d, r)
           [] OTHER -> {}}

Members(s, p, q, d, r, n) ==
  Primaries(s, p, q, d, r) \cup
  (IF n = 0 THEN {} ELSE
   {[op |-> "attr", kids |-> <<o>>, name |-> s[q - 1].v] :
      o \in IF q - p > 2 /\ s[q - 2].t = "." /\ s[q - 1].t \in Ident
            THEN Members(s, p, q - 2, d, r, n - 1) ELSE {}} \cup
   {[op |-> "attr", kids |-> <<o>>, name |-> s[q - 2].v] :
      o \in IF q - p > 3 /\ Spells(s, q - 3, q, <<"[", "string", "]">>) /\ s[q - 2].v # ""
            THEN Members(s, p, q - 3, d, r, n - 1) ELSE {}} \cup
   UNION {{Method(o, s[m + 1].v, args) :
             o \in Members(s, p, m, d, r, n - 1),
             args \in IF m + 4 = q THEN {<<>>}
                      ELSE {<<e>> : e \in Exprs(s, m + 3, q - 1, d, r)}} :
            m \in {x \in Where(s, p, q - 3, {"."}) :
                     s[x + 1].t \in Ident /\ s[x + 2].t = "(" /\ s[q - 1].t = ")"}})

\* A minus sign belongs to the number after it.
Unaries(s, p, q, d, r) ==
  Members(s, p, q, d, r, MaxMemberChain) \cup
  (IF q - p < 2 \/ s[p].t \notin {"-", "!"} THEN {}
   ELSE IF s[p].t = "-" /\ s[p + 1].t = "number"
   THEN IF q - p = 2 /\ -s[p + 1].v >= MinLong THEN {Long(-s[p + 1].v)} ELSE {}
   ELSE IF d = 0 THEN {}
   ELSE {[op |-> IF s[p].t = "-" THEN "neg" ELSE "not", kids |-> <<x>>] :
           x \in Unaries(s, p + 1, q, d - 1, r)})

Relations(s, p, q, d, r) ==
  LET Adds(a, b) == Chains("add", s, a, b, d, r, MaxBinopChain) IN
  UNION {Adds(p, q),
    UNION {{Binary(s[m].t, x, y) : x \in Adds(p, m), y \in Adds(m + 1, q)} :
             m \in Where(s, p, q, Relop)},
    IF q - p > 2 /\ s[q - 2].t = "has" /\ s[q - 1].t \in AttrName
    THEN {[op |-> "has", kids |-> <<x>>, name |-> s[q - 1].v] : x \in Adds(p, q - 2)} ELSE {},
    IF q - p > 2 /\ s[q - 2].t = "like" /\ s[q - 1].t \in {"string", "pattern"}
    THEN {[op |-> "like", kids |-> <<x>>, pattern |-> s[q - 1].v] : x \in Adds(p, q - 2)}
    ELSE {},
    UNION {{Is(x, t, <<>>) : x \in Adds(p, m), t \in TypeNames(s, m + 1, q)} :
             m \in Where(s, p, q, {"is"})},
    UNION {{Is(x, t, <<y>>) : x \in Adds(p, i), t \in TypeNames(s, i + 1, j),
                              y \in Adds(j + 1, q)} :
             i \in Where(s, p, q, {"is"}), j \in Where(s, p, q, {"in"})}}

Chains(f, s, p, q, d, r, n) ==
  LET Sub(a, b) == CASE f = "or"  -> Chains("and", s, a, b, d, r, MaxBinopChain)
                     [] f = "and" -> Relations(s, a, b, d, r)
                     [] f = "add" -> Chains("mult", s, a, b, d, r, MaxBinopChain)
                     [] OTHER     -> Unaries(s, a, b, d, r) IN
  IF p >= q THEN {} ELSE
  Sub(p, q) \cup
  (IF n = 0 THEN {} ELSE
   UNION {{Binary(s[m].t, x, y) : x \in Chains(f, s, p, m, d, r, n - 1), y \in Sub(m + 1, q)} :
            m \in Where(s, p + 1, q, ChainOps[f])})

Exprs(s, p, q, d, r) ==
  IF p >= q \/ d = 0 THEN {}
  ELSE IF s[p].t # "if" THEN Chains("or", s, p, q, d - 1, r, MaxBinopChain)
  ELSE UNION {{[op |-> "ite", kids |-> <<c, x, y>>] : c \in Exprs(s, p + 1, i, d - 1, r),
                 x \in Exprs(s, i + 1, j, d - 1, r), y \in Exprs(s, j + 1, q, d - 1, r)} :
                i \in Where(s, p, q, {"then"}), j \in Where(s, p, q, {"else"})}

-------------------------------------------------------------------------------

Targets(s, p, q) == {Target(Ref(uid)) : uid \in EntityRefs(s, p, q)}

\* The clause after the variable v, which is at p
Scopes(v, s, p, q) ==
  IF p >= q \/ s[p].t # v THEN {}
  ELSE IF q - p = 1 THEN {NoScope}
  ELSE IF s[p + 1].t = "==" THEN {Scope("eq", <<>>, t) : t \in Targets(s, p + 2, q)}
  ELSE IF s[p + 1].t = "in" THEN
       {Scope("in", <<>>, t) : t \in Targets(s, p + 2, q)} \cup
       (IF v # "action" \/ q - p < 4 THEN {} ELSE
        {Scope("in", <<>>, [node |-> "set", elts |-> [k \in DOMAIN x.kids |-> Target(x.kids[k])]]) :
           x \in {y \in Primaries(s, p + 2, q, MaxParseDepth, MaxRecordDepth) :
                    y.op = "set" /\ \A k \in DOMAIN y.kids : y.kids[k].op = "entity_ref"}})
  ELSE IF s[p + 1].t # "is" \/ v = "action" THEN {}
  ELSE {Scope("is", t, [node |-> "null"]) : t \in TypeNames(s, p + 2, q)} \cup
       UNION {{Scope("is_in", t, x) : t \in TypeNames(s, p + 2, m), x \in Targets(s, m + 1, q)} :
                m \in Where(s, p, q, {"in"})}

RECURSIVE Annotations(_, _, _), Conditions(_, _, _)

Annotations(s, p, q) ==
  IF p >= q THEN {<<>>}
  ELSE IF q - p < 2 \/ s[p].t # "@" \/ s[p + 1].t \notin Ident THEN {}
  ELSE IF q - p >= 5 /\ Spells(s, p + 2, p + 5, <<"(", "string", ")">>)
  THEN {<<[key |-> s[p + 1].v, value |-> s[p + 3].v]>> \o a : a \in Annotations(s, p + 5, q)}
  ELSE {<<[key |-> s[p + 1].v, value |-> ""]>> \o a : a \in Annotations(s, p + 2, q)}

Conditions(s, p, q) ==
  IF p >= q THEN {<<>>}
  ELSE IF q - p < 3 \/ s[p].t \notin {"when", "unless"} \/ s[p + 1].t # "{" THEN {}
  ELSE UNION {{<<[is_unless |-> s[p].t = "unless", expr |-> e]>> \o c :
                 e \in Exprs(s, p + 2, m, MaxParseDepth, MaxRecordDepth),
                 c \in Conditions(s, m + 1, q)} : m \in Where(s, p, q, {"}"})}

\* A policy that ends with the semicolon at q - 1
PolicyTrees(s, p, q) ==
  UNION {{[effect |-> s[h].t, annotations |-> a, principal |-> sp, action |-> sa,
           resource |-> sr, conditions |-> c] :
            a \in {x \in Annotations(s, p, h) :
                     /\ Len(x) <= MaxAnnotations
                     /\ Distinct([k \in DOMAIN x |-> x[k].key])},
            sp \in Scopes("principal", s, h + 2, i), sa \in Scopes("action", s, i + 1, j),
            sr \in Scopes("resource", s, j + 1, z),
            c \in {x \in Conditions(s, z + 1, q - 1) : Len(x) <= MaxConditions}} :
           h \in {x \in Where(s, p, q, {"permit", "forbid"}) : x + 1 < q /\ s[x + 1].t = "("},
           i \in Where(s, p, q, {","}), j \in Where(s, p, q, {","}),
           z \in {x \in Where(s, p, q - 1, {")"}) : s[x + 1].t \in {"when", "unless", ";"}}}

RECURSIVE PolicySets(_, _)
PolicySets(s, p) ==
  IF p > Len(s) THEN {<<>>}
  ELSE UNION {{<<x>> \o rest : x \in PolicyTrees(s, p, m + 1), rest \in PolicySets(s, m + 1)} :
                m \in Where(s, p, Len(s) + 1, {";"})}

\* What a text means: at most one sequence of policies
Meanings(s) == {x \in PolicySets(s, 1) : Len(x) <= MaxPolicies}
===============================================================================
