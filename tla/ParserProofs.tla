------------------------------ MODULE ParserProofs ------------------------------
(***************************************************************************)
(* Proofs that, for every text and every value of the limits, the counters *)
(* of the parser are the calls they count that are active, that the limits *)
(* on the counters bound the recursion, that no refused token is gone past *)
(* and that NULL is never linked into a tree; and that all the limits      *)
(* together bound how tall the trees are that the evaluator is given.      *)
(***************************************************************************)
EXTENDS ParseEval, Induction, FiniteSetTheorems, SequenceTheorems, TLAPS

IsFrame(f) ==
  /\ DOMAIN f = {"fn", "note", "acc", "n"}
  /\ f.fn \in Waiting /\ f.n \in Nat

IsStack(s) ==
  /\ \E S : s \in Seq(S)
  /\ \A i \in 1..Len(s) : IsFrame(s[i])

One(b) == IF b THEN 1 ELSE 0

Count(s, K, i) == Cardinality({j \in 1..i : s[j].fn \in K})

(* What a stack is with one frame more.                                    *)
LEMMA AppendStack ==
  ASSUME NEW s, IsStack(s), NEW f, IsFrame(f)
  PROVE  /\ IsStack(Append(s, f))
         /\ Len(s) \in Nat /\ Len(Append(s, f)) = Len(s) + 1
         /\ Append(s, f)[Len(s) + 1] = f
         /\ \A i \in 1..Len(s) : Append(s, f)[i] = s[i]
<1>1. PICK S : s \in Seq(S)
  BY DEF IsStack
<1>2. s \in Seq(S \cup {f})
  <2>1. Len(s) \in Nat /\ s \in [1..Len(s) -> S]
    BY <1>1
  <2>2. s \in [1..Len(s) -> S \cup {f}]
    BY <2>1
  <2> QED BY <2>1, <2>2
<1>3. /\ Append(s, f) \in Seq(S \cup {f}) /\ Len(s) \in Nat
      /\ Len(Append(s, f)) = Len(s) + 1 /\ Append(s, f)[Len(s) + 1] = f
      /\ \A i \in 1..Len(s) : Append(s, f)[i] = s[i]
  BY <1>2
<1>4. \A i \in 1..Len(s) + 1 : IsFrame(Append(s, f)[i])
  <2> TAKE i \in 1..Len(s) + 1
  <2>1. i \in 1..Len(s) \/ i = Len(s) + 1
    BY <1>3
  <2> QED BY <1>3, <2>1 DEF IsStack
<1> QED BY <1>3, <1>4 DEF IsStack

(* What a stack is without its last frame.                                 *)
LEMMA BelowStack ==
  ASSUME NEW s, IsStack(s), s # <<>>
  PROVE  LET b == SubSeq(s, 1, Len(s) - 1) IN
         /\ IsStack(b) /\ Len(s) \in Nat \ {0} /\ Len(b) = Len(s) - 1
         /\ \A i \in 1..Len(b) : b[i] = s[i]
         /\ IsFrame(s[Len(s)])
<1>1. PICK S : s \in Seq(S)
  BY DEF IsStack
<1> DEFINE m == Len(s)
           b == SubSeq(s, 1, m - 1)
<1>2. m \in Nat \ {0} /\ m - 1 \in Nat
  BY <1>1
<1>3. \A i \in 1..m - 1 : s[i] \in S
  BY <1>1, <1>2
<1>4. b \in Seq(S) /\ Len(b) = m - 1 /\ \A i \in 1..m - 1 : b[i] = s[i]
  <2> HIDE DEF m
  <2>1. m - 1 \in Int /\ 1 \in Int
    BY <1>2
  <2>2. /\ SubSeq(s, 1, m - 1) \in Seq(S)
        /\ Len(SubSeq(s, 1, m - 1)) = IF 1 <= m - 1 THEN (m - 1) - 1 + 1 ELSE 0
        /\ \A i \in 1..(m - 1) - 1 + 1 : SubSeq(s, 1, m - 1)[i] = s[1 + i - 1]
    BY <1>3, <2>1, SubSeqProperties
  <2> QED BY <1>2, <2>2
<1>5. \A i \in 1..m : IsFrame(s[i])
  BY DEF IsStack
<1> QED BY <1>2, <1>4, <1>5 DEF IsStack

(* Counts only depend on the productions of the frames counted.            *)
LEMMA CountSame ==
  ASSUME NEW s, NEW t, NEW K, NEW i \in Nat, \A j \in 1..i : s[j].fn = t[j].fn
  PROVE  Count(s, K, i) = Count(t, K, i)
BY DEF Count

(* One frame more is counted or not.                                       *)
LEMMA CountNext ==
  ASSUME NEW s, NEW K, NEW i \in Nat
  PROVE  /\ Count(s, K, i) \in Nat /\ Count(s, K, 0) = 0
         /\ Count(s, K, i + 1) = Count(s, K, i) + One(s[i + 1].fn \in K)
<1> DEFINE C(k) == {j \in 1..k : s[j].fn \in K}
<1>0. \A k : Count(s, K, k) = Cardinality(C(k))
  BY DEF Count
<1>1. IsFiniteSet(1..i)
  BY FS_Interval
<1>2. IsFiniteSet(C(i)) /\ Cardinality(C(i)) \in Nat
  BY <1>1, FS_Subset, FS_CardinalityType
<1>3. C(0) = {} /\ Cardinality({}) = 0
  <2>1. C(0) = {}
    OBVIOUS
  <2>2. Cardinality({}) = 0
    BY FS_EmptySet
  <2> QED BY <2>1, <2>2
<1>4. i + 1 \notin C(i)
  OBVIOUS
<1>5. CASE s[i + 1].fn \in K
  <2>1. C(i + 1) = C(i) \cup {i + 1}
    BY <1>5
  <2>2. Cardinality(C(i) \cup {i + 1}) = Cardinality(C(i)) + 1
    BY <1>2, <1>4, FS_AddElement
  <2> HIDE DEF C
  <2> QED BY <1>0, <1>2, <1>3, <1>5, <2>1, <2>2 DEF One
<1>6. CASE s[i + 1].fn \notin K
  <2>1. C(i + 1) = C(i)
    <3>1. \A j \in 1..i + 1 : j \in 1..i \/ j = i + 1
      OBVIOUS
    <3> QED BY <1>6, <3>1
  <2> HIDE DEF C
  <2> QED BY <1>0, <1>2, <1>3, <1>6, <2>1 DEF One
<1> QED BY <1>5, <1>6

-------------------------------------------------------------------------------
(* The C stack                                                             *)

(* The calls a call of g may be waiting for.                               *)
Inside(g, f) ==
  \/ g = "policy" /\ f \in {"scope", "condition"}
  \/ g = "scope" /\ f = "set"
  \/ g \in {"condition", "ite", "paren", "method", "set", "record"} /\ f \in {"expr", "ite"}
  \/ g = "expr" /\ f = "or"
  \/ g = "or" /\ f = "and"
  \/ g = "and" /\ f = "relation"
  \/ g = "relation" /\ f = "add"
  \/ g = "add" /\ f = "mult"
  \/ g \in {"mult", "unary"} /\ f \in {"unary", "member"}
  \/ g = "member" /\ f \in {"paren", "method", "set", "record"}

(* The productions a call of g may be about to enter.                      *)
Enters(g, c) ==
  \/ g = "policy" /\ c \in {"annotations", "principal", "action", "resource", "conditions"}
  \/ g = "scope" /\ c = "set"
  \/ g \in {"condition", "ite", "paren", "method", "set", "record"} /\ c = "expr"
  \/ g = "expr" /\ c = "or"
  \/ g = "or" /\ c = "and"
  \/ g = "and" /\ c = "relation"
  \/ g = "relation" /\ c = "add"
  \/ g = "add" /\ c = "mult"
  \/ g \in {"mult", "unary"} /\ c = "unary"
  \/ g = "member" /\ c \in {"primary", "set", "record"}

(* How many frames there are at most from a counted one up to this one.    *)
Rank(f) ==
  CASE f \in {"policy", "expr", "ite"} -> 1
    [] f \in {"scope", "condition", "or"} -> 2
    [] f = "and" -> 3
    [] f = "relation" -> 4
    [] f = "add" -> 5
    [] f \in {"mult", "unary"} -> 6
    [] f = "member" -> 7
    [] OTHER -> 8

(* What a stack s is with depth d and record depth r.                      *)
Good(s, d, r) ==
  /\ IsStack(s)
  /\ d = Count(s, Counted, Len(s)) /\ d <= MaxParseDepth
  /\ r = Count(s, {"record"}, Len(s)) /\ r <= MaxRecordDepth
  /\ s # <<>> => s[1].fn = "policy"
  /\ \A i \in 1..Len(s) - 1 : Inside(s[i].fn, s[i + 1].fn)
  /\ \A i \in 1..Len(s) : i <= 8 * Count(s, Counted, i) + Rank(s[i].fn)

MayCall(s, c) ==
  \/ c = "return"
  \/ c = "policies" /\ s = <<>>
  \/ s # <<>> /\ Enters(s[Len(s)].fn, c)

(* Inductive: what is on the stack, and what may be called with it.        *)
StackInv == Good(stack, depth, record_depth) /\ MayCall(stack, call)

LEMMA EmptyGood == Good(<<>>, 0, 0)
<1>1. IsStack(<<>>) /\ Len(<<>>) = 0
  BY DEF IsStack
<1>2. Count(<<>>, Counted, 0) = 0 /\ Count(<<>>, {"record"}, 0) = 0
  BY CountNext
<1> QED BY <1>1, <1>2, LimitAssumption DEF Good, MaxRecordDepth

LEMMA EmptyGoodOnly ==
  ASSUME NEW d, NEW r, Good(<<>>, d, r)
  PROVE  d = 0 /\ r = 0
<1>1. Len(<<>>) = 0
  OBVIOUS
<1> QED BY <1>1, CountNext DEF Good

LEMMA RankGrows ==
  ASSUME NEW g, NEW f, Inside(g, f)
  PROVE  /\ Rank(g) \in Nat /\ Rank(f) \in Nat
         /\ Rank(g) + 1 <= Rank(f) + 8 * One(f \in Counted)
BY DEF Inside, Rank, One, Counted

LEMMA PushGood ==
  ASSUME NEW s, NEW d, NEW r, Good(s, d, r), NEW f, IsFrame(f),
         IF s = <<>> THEN f.fn = "policy" ELSE Inside(s[Len(s)].fn, f.fn),
         f.fn \in Counted => d < MaxParseDepth,
         f.fn = "record" => r < MaxRecordDepth
  PROVE  Good(Append(s, f), d + One(f.fn \in Counted), r + One(f.fn = "record"))
<1> DEFINE t == Append(s, f)
           m == Len(s)
<1>1. /\ IsStack(t) /\ m \in Nat /\ Len(t) = m + 1
      /\ t[m + 1] = f /\ \A i \in 1..m : t[i] = s[i]
  BY AppendStack DEF Good
<1> HIDE DEF t, m
<1>2. ASSUME NEW K, NEW i \in 0..m
      PROVE  Count(t, K, i) = Count(s, K, i) /\ Count(s, K, i) \in Nat
  <2>1. i \in Nat /\ \A j \in 1..i : t[j].fn = s[j].fn
    BY <1>1
  <2>2. Count(t, K, i) = Count(s, K, i)
    BY <2>1, CountSame, Zenon
  <2>3. Count(s, K, i) \in Nat
    BY <2>1, CountNext, Zenon
  <2> QED BY <2>2, <2>3
<1>3. ASSUME NEW K
      PROVE  Count(t, K, m + 1) = Count(s, K, m) + One(f.fn \in K)
  <2>1. Count(t, K, m + 1) = Count(t, K, m) + One(t[m + 1].fn \in K)
    BY <1>1, CountNext, Zenon
  <2>2. Count(t, K, m) = Count(s, K, m)
    BY <1>1, <1>2
  <2> QED BY <1>1, <2>1, <2>2
<1>4. /\ d = Count(s, Counted, m) /\ r = Count(s, {"record"}, m)
      /\ d \in Nat /\ r \in Nat /\ d <= MaxParseDepth /\ r <= MaxRecordDepth
  BY <1>1, <1>2 DEF Good, m
<1>5. /\ d + One(f.fn \in Counted) = Count(t, Counted, m + 1)
      /\ d + One(f.fn \in Counted) <= MaxParseDepth
  BY <1>3, <1>4, LimitAssumption DEF One
<1>6. /\ r + One(f.fn = "record") = Count(t, {"record"}, m + 1)
      /\ r + One(f.fn = "record") <= MaxRecordDepth
  BY <1>3, <1>4, LimitAssumption DEF One, MaxRecordDepth
<1>7. m = 0 <=> s = <<>>
  <2>1. PICK S : s \in Seq(S)
    BY DEF Good, IsStack
  <2> QED BY <2>1 DEF m
<1>8. t[1].fn = "policy"
  BY <1>1, <1>7 DEF Good
<1>9. \A i \in 1..m : Inside(t[i].fn, t[i + 1].fn)
  <2> TAKE i \in 1..m
  <2>1. CASE i = m
    BY <1>1, <1>7, <2>1 DEF m
  <2>2. CASE i < m
    <3>1. i \in 1..m - 1 /\ i + 1 \in 1..m
      BY <1>1, <2>2
    <3>2. Inside(s[i].fn, s[i + 1].fn)
      BY <3>1 DEF Good, m
    <3> QED BY <1>1, <3>1, <3>2
  <2> QED BY <1>1, <2>1, <2>2
<1>10. \A i \in 1..m + 1 : i <= 8 * Count(t, Counted, i) + Rank(t[i].fn)
  <2> TAKE i \in 1..m + 1
  <2>1. CASE i <= m
    <3>1. i \in 1..m /\ i \in 0..m
      BY <1>1, <2>1
    <3>2. i <= 8 * Count(s, Counted, i) + Rank(s[i].fn)
      BY <3>1 DEF Good, m
    <3> QED BY <1>1, <1>2, <3>1, <3>2
  <2>2. CASE i = m + 1 /\ m = 0
    <3>1. Rank(f.fn) = 1 /\ One(f.fn \in Counted) \in Nat
      BY <1>7, <2>2 DEF Rank, One, Counted
    <3>2. Count(t, Counted, i) \in Nat
      BY <1>1, <2>2, CountNext
    <3> QED BY <1>1, <2>2, <3>1, <3>2
  <2>3. CASE i = m + 1 /\ m # 0
    <3>1. Inside(s[m].fn, f.fn)
      BY <1>7, <2>3 DEF m
    <3>2. m <= 8 * Count(s, Counted, m) + Rank(s[m].fn)
      BY <1>1, <2>3 DEF Good, m
    <3>3. /\ Rank(s[m].fn) \in Nat /\ Rank(f.fn) \in Nat
          /\ Rank(s[m].fn) + 1 <= Rank(f.fn) + 8 * One(f.fn \in Counted)
      BY <3>1, RankGrows
    <3>4. One(f.fn \in Counted) \in Nat
      BY DEF One
    <3>5. Count(t, Counted, i) = d + One(f.fn \in Counted)
      BY <1>3, <1>4, <2>3
    <3>6. t[i].fn = f.fn
      BY <1>1, <2>3
    <3>7. i <= 8 * d + Rank(s[m].fn) + 1
      BY <1>1, <1>4, <2>3, <3>2, <3>3
    <3>8. i <= 8 * d + (Rank(f.fn) + 8 * One(f.fn \in Counted))
      <4> i \in Nat
        BY <1>1, <2>3
      <4> QED BY <1>4, <3>3, <3>4, <3>7
    <3> QED BY <1>4, <3>3, <3>4, <3>5, <3>6, <3>8
  <2> QED BY <1>1, <2>1, <2>2, <2>3
<1> QED BY <1>1, <1>5, <1>6, <1>8, <1>9, <1>10 DEF Good, t

LEMMA PopGood ==
  ASSUME NEW s, NEW d, NEW r, Good(s, d, r), s # <<>>
  PROVE  LET b == SubSeq(s, 1, Len(s) - 1)
             f == s[Len(s)] IN
         /\ Good(b, d - One(f.fn \in Counted), r - One(f.fn = "record"))
         /\ IsFrame(f)
         /\ f.fn \in Counted => d > 0
         /\ f.fn = "record" => r > 0
         /\ IF b = <<>> THEN f.fn = "policy" ELSE Inside(b[Len(b)].fn, f.fn)
<1> DEFINE m == Len(s)
           b == SubSeq(s, 1, m - 1)
           f == s[m]
<1>1. /\ IsStack(b) /\ m \in Nat \ {0} /\ Len(b) = m - 1
      /\ \A i \in 1..m - 1 : b[i] = s[i]
      /\ IsFrame(f)
  BY BelowStack DEF Good
<1> HIDE DEF b, m
<1>2. ASSUME NEW K, NEW i \in 0..m - 1
      PROVE  Count(b, K, i) = Count(s, K, i) /\ Count(s, K, i) \in Nat
  <2>1. i \in Nat /\ \A j \in 1..i : b[j].fn = s[j].fn
    BY <1>1
  <2>2. Count(b, K, i) = Count(s, K, i)
    BY <2>1, CountSame, Zenon
  <2>3. Count(s, K, i) \in Nat
    BY <2>1, CountNext, Zenon
  <2> QED BY <2>2, <2>3
<1>3. ASSUME NEW K
      PROVE  /\ Count(s, K, m) = Count(b, K, m - 1) + One(f.fn \in K)
             /\ Count(b, K, m - 1) \in Nat
  <2>1. m - 1 \in Nat /\ m - 1 \in 0..m - 1 /\ (m - 1) + 1 = m
    BY <1>1
  <2>2. Count(s, K, (m - 1) + 1)
          = Count(s, K, m - 1) + One(s[(m - 1) + 1].fn \in K)
    BY <2>1, CountNext, Zenon
  <2>3. Count(b, K, m - 1) = Count(s, K, m - 1) /\ Count(s, K, m - 1) \in Nat
    BY <1>2, <2>1
  <2> QED BY <2>1, <2>2, <2>3
<1>4. /\ d = Count(s, Counted, m) /\ r = Count(s, {"record"}, m)
      /\ d <= MaxParseDepth /\ r <= MaxRecordDepth
  BY DEF Good, m
<1>5. /\ d - One(f.fn \in Counted) = Count(b, Counted, m - 1)
      /\ d - One(f.fn \in Counted) <= MaxParseDepth
      /\ f.fn \in Counted => d > 0
  BY <1>3, <1>4, LimitAssumption DEF One
<1>6. /\ r - One(f.fn = "record") = Count(b, {"record"}, m - 1)
      /\ r - One(f.fn = "record") <= MaxRecordDepth
      /\ f.fn = "record" => r > 0
  <2>1. f.fn \in {"record"} <=> f.fn = "record"
    OBVIOUS
  <2>2. Count(s, {"record"}, m) = Count(b, {"record"}, m - 1) + One(f.fn \in {"record"})
        /\ Count(b, {"record"}, m - 1) \in Nat
    BY <1>3
  <2> QED BY <1>4, <2>1, <2>2, LimitAssumption DEF One, MaxRecordDepth
<1>7. m - 1 = 0 <=> b = <<>>
  <2>1. PICK S : b \in Seq(S)
    BY <1>1 DEF IsStack
  <2> QED BY <1>1, <2>1
<1>8. b # <<>> => b[1].fn = "policy"
  BY <1>1, <1>7 DEF Good
<1>9. \A i \in 1..m - 1 : Inside(s[i].fn, s[i + 1].fn)
  BY DEF Good, m
<1>10. \A i \in 1..(m - 1) - 1 : Inside(b[i].fn, b[i + 1].fn)
  BY <1>1, <1>9
<1>11. \A i \in 1..m - 1 : i <= 8 * Count(b, Counted, i) + Rank(b[i].fn)
  <2> TAKE i \in 1..m - 1
  <2>1. i \in 1..m /\ i \in 0..m - 1
    BY <1>1
  <2>2. i <= 8 * Count(s, Counted, i) + Rank(s[i].fn)
    BY <2>1 DEF Good, m
  <2> QED BY <1>1, <1>2, <2>1, <2>2
<1>12. IF b = <<>> THEN f.fn = "policy" ELSE Inside(b[Len(b)].fn, f.fn)
  <2>1. CASE b = <<>>
    BY <1>1, <1>7, <2>1 DEF Good
  <2>2. CASE b # <<>>
    <3>1. m - 1 \in 1..m - 1 /\ (m - 1) + 1 = m
      BY <1>1, <1>7, <2>2
    <3> QED BY <1>1, <1>9, <2>2, <3>1
  <2> QED BY <2>1, <2>2
<1>13. Good(b, d - One(f.fn \in Counted), r - One(f.fn = "record"))
  BY <1>1, <1>5, <1>6, <1>8, <1>10, <1>11 DEF Good
<1> QED BY <1>1, <1>5, <1>6, <1>12, <1>13 DEF b, m

(* The innermost frame goes on with what it has so far.                    *)
LEMMA SwapGood ==
  ASSUME NEW s, NEW d, NEW r, Good(s, d, r), s # <<>>,
         NEW f, IsFrame(f), f.fn = s[Len(s)].fn
  PROVE  Good(Append(SubSeq(s, 1, Len(s) - 1), f), d, r)
<1> DEFINE b == SubSeq(s, 1, Len(s) - 1)
           x == One(f.fn \in Counted)
           y == One(f.fn = "record")
<1>1. /\ Good(b, d - x, r - y)
      /\ f.fn \in Counted => d > 0
      /\ f.fn = "record" => r > 0
      /\ IF b = <<>> THEN f.fn = "policy" ELSE Inside(b[Len(b)].fn, f.fn)
  BY PopGood
<1>2. d \in Nat /\ r \in Nat /\ d <= MaxParseDepth /\ r <= MaxRecordDepth
  <2>1. Len(s) \in Nat
    BY BelowStack DEF Good
  <2> QED BY <2>1, CountNext DEF Good
<1>3. /\ f.fn \in Counted => d - x < MaxParseDepth
      /\ f.fn = "record" => r - y < MaxRecordDepth
      /\ (d - x) + x = d /\ (r - y) + y = r
  BY <1>2, LimitAssumption DEF One, MaxRecordDepth
<1> HIDE DEF b
<1>4. Good(Append(b, f), (d - x) + x, (r - y) + y)
  BY <1>1, <1>3, PushGood
<1> QED BY <1>3, <1>4 DEF b

(* Below a policy there is nothing, below a clause of it only the policy.  *)
LEMMA PolicyAlone ==
  ASSUME NEW s, NEW d, NEW r, Good(s, d, r),
         s # <<>>, s[Len(s)].fn \in {"policy", "scope", "condition"}
  PROVE  d = 0 /\ r = 0 /\ IsFrame(s[1]) /\ s[1].fn = "policy"
<1> DEFINE m == Len(s)
<1>2. m \in Nat \ {0} /\ IsFrame(s[1]) /\ s[1].fn = "policy"
  BY BelowStack DEF Good, IsStack
<1>3. \A i \in 1..m - 1 : Inside(s[i].fn, s[i + 1].fn)
  BY DEF Good
<1>4. m = 1 \/ m = 2
  <2> HIDE DEF m
  <2> SUFFICES ASSUME m >= 3
               PROVE  FALSE
    BY <1>2
  <2>1. Inside(s[m - 1].fn, s[(m - 1) + 1].fn) /\ Inside(s[m - 2].fn, s[(m - 2) + 1].fn)
    BY <1>2, <1>3
  <2>2. (m - 1) + 1 = m /\ (m - 2) + 1 = m - 1
    BY <1>2
  <2>3. s[m - 1].fn = "policy"
    <3>1. Inside(s[m - 1].fn, s[m].fn) /\ s[m].fn \in {"policy", "scope", "condition"}
      BY <2>1, <2>2 DEF m
    <3> QED BY <3>1 DEF Inside
  <2>4. Inside(s[m - 2].fn, "policy")
    BY <2>1, <2>2, <2>3
  <2> QED BY <2>4 DEF Inside
<1>5. \A i \in 1..m : s[i].fn \notin Counted \cup {"record"}
  BY <1>2, <1>4 DEF Counted
<1>6. ASSUME NEW K, K \subseteq Counted \cup {"record"}
      PROVE  Count(s, K, m) = 0
  <2>1. {j \in 1..m : s[j].fn \in K} = {}
    BY <1>5, <1>6
  <2> QED BY <2>1, FS_EmptySet DEF Count
<1> QED BY <1>2, <1>6 DEF Good

-------------------------------------------------------------------------------
(* Steps                                                                   *)

LEMMA NewFrame ==
  ASSUME NEW f \in Waiting, NEW note, NEW acc
  PROVE  IsFrame(Frame(f, note, acc)) /\ Frame(f, note, acc).fn = f
BY DEF IsFrame, Frame

LEMMA FrameGoesOn ==
  ASSUME NEW f, IsFrame(f), NEW note, NEW acc
  PROVE  /\ LET g == [f EXCEPT !.acc = acc] IN IsFrame(g) /\ g.fn = f.fn
         /\ LET g == [f EXCEPT !.n = @ + 1] IN IsFrame(g) /\ g.fn = f.fn
         /\ LET g == [f EXCEPT !.note = note, !.acc = acc] IN IsFrame(g) /\ g.fn = f.fn
         /\ LET g == [f EXCEPT !.acc = acc, !.note = note] IN IsFrame(g) /\ g.fn = f.fn
         /\ LET g == [f EXCEPT !.note = note, !.acc = acc, !.n = @ + 1] IN
              IsFrame(g) /\ g.fn = f.fn
BY DEF IsFrame

LEMMA TopFrame ==
  ASSUME StackInv, stack # <<>>
  PROVE  IsFrame(Top)
BY PopGood DEF StackInv, Top

LEMMA Stands ==
  ASSUME StackInv, Level, stack' = stack, MayCall(stack, call')
  PROVE  StackInv'
BY DEF StackInv, Level

LEMMA PopStep ==
  ASSUME StackInv, stack # <<>>, NEW node, Pops(node)
  PROVE  StackInv'
<1>1. Good(Below, depth - One(Top.fn \in Counted), record_depth - One(Top.fn = "record"))
  BY PopGood DEF StackInv, Top, Below
<1>2. /\ depth' = depth - One(Top.fn \in Counted)
      /\ record_depth' = record_depth - One(Top.fn = "record")
  <2>1. depth \in Nat /\ record_depth \in Nat
    <3>1. Len(stack) \in Nat
      BY BelowStack DEF StackInv, Good
    <3> QED BY <3>1, CountNext DEF StackInv, Good
  <2> QED BY <2>1 DEF Pops, One
<1>3. stack' = Below /\ call' = "return"
  BY DEF Pops, Returns
<1> QED BY <1>1, <1>2, <1>3 DEF StackInv, MayCall

LEMMA PushStep ==
  ASSUME StackInv, stack # <<>>, NEW f, IsFrame(f), Inside(Top.fn, f.fn),
         NEW c, Enters(f.fn, c) \/ c = "return", Calls(Append(stack, f), c),
         IF f.fn \in Counted THEN depth < MaxParseDepth /\ depth' = depth + 1
         ELSE depth' = depth,
         IF f.fn = "record"
         THEN record_depth < MaxRecordDepth /\ record_depth' = record_depth + 1
         ELSE record_depth' = record_depth
  PROVE  StackInv'
<1>1. Good(Append(stack, f), depth + One(f.fn \in Counted), record_depth + One(f.fn = "record"))
  BY PushGood DEF StackInv, Top
<1>2. depth \in Nat /\ record_depth \in Nat
  <2>1. Len(stack) \in Nat
    BY BelowStack DEF StackInv, Good
  <2> QED BY <2>1, CountNext DEF StackInv, Good
<1>3. /\ depth' = depth + One(f.fn \in Counted)
      /\ record_depth' = record_depth + One(f.fn = "record")
  BY <1>2 DEF One
<1>4. MayCall(Append(stack, f), c)
  <2>1. Append(stack, f)[Len(stack) + 1] = f /\ Len(Append(stack, f)) = Len(stack) + 1
        /\ Len(stack) \in Nat
    BY AppendStack DEF StackInv, Good
  <2> QED BY <2>1 DEF MayCall
<1> QED BY <1>1, <1>3, <1>4 DEF StackInv, Calls

LEMMA SwapStep ==
  ASSUME StackInv, stack # <<>>, NEW f, IsFrame(f), f.fn = Top.fn, Level,
         Enters(f.fn, call') \/ call' = "return", stack' = Append(Below, f)
  PROVE  StackInv'
<1>1. Good(Append(Below, f), depth, record_depth)
  BY SwapGood DEF StackInv, Top, Below
<1>2. IsStack(Below)
  BY BelowStack DEF StackInv, Good, Below
<1>3. /\ Append(Below, f)[Len(Below) + 1] = f /\ Len(Append(Below, f)) = Len(Below) + 1
      /\ Len(Below) \in Nat
  BY <1>2, AppendStack
<1>4. MayCall(Append(Below, f), call')
  BY <1>3 DEF MayCall
<1> QED BY <1>1, <1>4 DEF StackInv, Level

(* The policy, with a clause of it done, goes on.                          *)
LEMMA PolicyStepGood ==
  ASSUME StackInv, stack # <<>>, Top.fn \in {"policy", "scope", "condition"}, Level,
         NEW p, NEW c, Calls(Building(p), c), Enters("policy", c)
  PROVE  StackInv'
<1>1. depth = 0 /\ record_depth = 0 /\ IsFrame(stack[1]) /\ stack[1].fn = "policy"
  BY PolicyAlone DEF StackInv, Top
<1> DEFINE f == [stack[1] EXCEPT !.acc = <<p>>]
<1>2. IsFrame(f) /\ f.fn = "policy"
  BY <1>1, FrameGoesOn
<1> HIDE DEF f
<1>3. Good(Append(<<>>, f), 0 + One(f.fn \in Counted), 0 + One(f.fn = "record"))
  BY <1>2, EmptyGood, PushGood DEF Counted
<1>4. Good(<<f>>, 0, 0)
  <2>1. One(f.fn \in Counted) = 0 /\ One(f.fn = "record") = 0
    BY <1>2 DEF One, Counted
  <2>2. Append(<<>>, f) = <<f>> /\ 0 + 0 = 0
    OBVIOUS
  <2> QED BY <1>3, <2>1, <2>2
<1>5. MayCall(<<f>>, c)
  <2>1. Len(<<f>>) = 1 /\ <<f>>[1] = f /\ <<f>> # <<>>
    OBVIOUS
  <2> QED BY <1>2, <2>1 DEF MayCall
<1>6. stack' = <<f>> /\ call' = c /\ depth' = 0 /\ record_depth' = 0
  BY <1>1 DEF Calls, Building, Level, f
<1> QED BY <1>4, <1>5, <1>6 DEF StackInv

LEMMA Caller ==
  ASSUME StackInv, call \notin {"return", "policies"}
  PROVE  stack # <<>> /\ Enters(Top.fn, call)
BY DEF StackInv, MayCall, Top

LEMMA CountersNat ==
  ASSUME StackInv
  PROVE  depth \in Nat /\ record_depth \in Nat
<1>1. Len(stack) \in Nat
  BY DEF StackInv, Good, IsStack
<1> QED BY <1>1, CountNext DEF StackInv, Good

LEMMA RefusesStep ==
  ASSUME StackInv, Refuses
  PROVE  StackInv'
BY Stands DEF Refuses, Returns, MayCall

LEMMA PopsNullStep ==
  ASSUME StackInv, stack # <<>>, PopsNull
  PROVE  StackInv'
BY PopStep DEF PopsNull

(* Every step of the parser over an expression keeps the stack good.       *)
LEMMA ExprStepGood ==
  ASSUME StackInv, ExprStep
  PROVE  StackInv'
<1>1. CASE ParseExpr
  <2>1. stack # <<>> /\ Enters(Top.fn, "expr")
    BY <1>1, Caller DEF ParseExpr
  <2>2. CASE depth >= MaxParseDepth
    BY <1>1, <2>2, RefusesStep DEF ParseExpr
  <2>3. CASE ~(depth >= MaxParseDepth)
    <3>1. ASSUME NEW f \in {"expr", "ite"}, NEW c, Calls(Push(f, ""), c), Enters(f, c)
          PROVE  StackInv'
      <4>1. IsFrame(Frame(f, "", <<>>)) /\ Frame(f, "", <<>>).fn = f
        BY NewFrame DEF Waiting, Counted
      <4>2. Inside(Top.fn, f)
        BY <2>1 DEF Enters, Inside
      <4>3. depth < MaxParseDepth /\ depth' = depth + 1 /\ record_depth' = record_depth
        <5>1. depth < MaxParseDepth
          BY <2>3, CountersNat, LimitAssumption
        <5>2. depth' = depth + 1 /\ record_depth' = record_depth
          BY <1>1, <2>3 DEF ParseExpr
        <5> QED BY <5>1, <5>2
      <4>4. f \in Counted /\ f # "record"
        BY DEF Counted
      <4> QED BY <2>1, <3>1, <4>1, <4>2, <4>3, <4>4, PushStep DEF Push
    <3>2. Calls(Push("ite", ""), "expr") \/ Calls(Push("expr", ""), "or")
      BY <1>1, <2>3 DEF ParseExpr
    <3> QED BY <3>1, <3>2 DEF Enters
  <2> QED BY <2>2, <2>3
<1>2. CASE EndExpr
  BY <1>2, PopStep DEF EndExpr, Back
<1>3. CASE EndIteOperand
  <2>1. stack # <<>> /\ Top.fn = "ite"
    BY <1>3 DEF EndIteOperand, Back
  <2>2. \/ \E node : Pops(node)
        \/ \E kids : Level /\ Calls(Append(Below, [Top EXCEPT !.acc = kids]), "expr")
    BY <1>3 DEF EndIteOperand, PopsNull
  <2>3. ASSUME NEW kids, Level, Calls(Append(Below, [Top EXCEPT !.acc = kids]), "expr")
        PROVE  StackInv'
    <3>1. IsFrame([Top EXCEPT !.acc = kids]) /\ [Top EXCEPT !.acc = kids].fn = "ite"
      BY <2>1, TopFrame, FrameGoesOn
    <3> QED BY <2>1, <2>3, <3>1, SwapStep DEF Calls, Enters
  <2> QED BY <2>1, <2>2, <2>3, PopStep
<1>4. CASE ParseChain
  <2>1. stack # <<>> /\ Enters(Top.fn, call) /\ call \in Chain
    BY <1>4, Caller DEF ParseChain, Chain
  <2>2. /\ Inside(Top.fn, call) /\ Enters(call, Operand[call])
        /\ call \in Waiting \ (Counted \cup {"record"})
    BY <2>1 DEF Enters, Inside, Operand, Chain, Waiting, Counted
  <2>3. IsFrame(Frame(call, "", <<>>)) /\ Frame(call, "", <<>>).fn = call
    BY <2>2, NewFrame
  <2>4. Level /\ Calls(Append(stack, Frame(call, "", <<>>)), Operand[call])
    BY <1>4 DEF ParseChain, Push
  <2> QED BY <2>1, <2>2, <2>3, <2>4, PushStep DEF Level
<1>5. CASE EndChainOperand
  <2>1. stack # <<>> /\ Top.fn \in Chain
    BY <1>5 DEF EndChainOperand
  <2>2. \/ \E node : Pops(node)
        \/ \E note, acc : Level /\
             Calls(Append(Below, [Top EXCEPT !.note = note, !.acc = acc, !.n = @ + 1]),
                   Operand[Top.fn])
    BY <1>5 DEF EndChainOperand, PopsNull
  <2>3. ASSUME NEW note, NEW acc, Level,
               Calls(Append(Below, [Top EXCEPT !.note = note, !.acc = acc, !.n = @ + 1]),
                     Operand[Top.fn])
        PROVE  StackInv'
    <3> DEFINE f == [Top EXCEPT !.note = note, !.acc = acc, !.n = @ + 1]
    <3>1. IsFrame(f) /\ f.fn = Top.fn
      <4>1. IsFrame(Top)
        BY <2>1, TopFrame
      <4> QED BY <2>1, <4>1 DEF IsFrame
    <3>2. Enters(Top.fn, Operand[Top.fn])
      BY <2>1 DEF Enters, Operand, Chain
    <3> HIDE DEF f
    <3> QED BY <2>1, <2>3, <3>1, <3>2, SwapStep DEF Calls, f
  <2> QED BY <2>1, <2>2, <2>3, PopStep
<1>6. CASE ParseRelation
  <2>1. stack # <<>> /\ Enters(Top.fn, "relation")
    BY <1>6, Caller DEF ParseRelation
  <2>2. /\ Inside(Top.fn, "relation") /\ Enters("relation", "add")
        /\ "relation" \in Waiting \ (Counted \cup {"record"})
    BY <2>1 DEF Enters, Inside, Waiting, Counted
  <2>3. IsFrame(Frame("relation", "", <<>>)) /\ Frame("relation", "", <<>>).fn = "relation"
    BY <2>2, NewFrame
  <2>4. Level /\ Calls(Append(stack, Frame("relation", "", <<>>)), "add")
    BY <1>6 DEF ParseRelation, Push
  <2> QED BY <2>1, <2>2, <2>3, <2>4, PushStep DEF Level
<1>7. CASE EndRelationLeft
  <2>1. stack # <<>> /\ Top.fn = "relation"
    BY <1>7 DEF EndRelationLeft, Back
  <2>2. (\E node : Pops(node)) \/ (\E k, op, v : AwaitsRight(k, op, v))
    BY <1>7 DEF EndRelationLeft, PopsNull
  <2>3. ASSUME NEW k, NEW op, NEW v, AwaitsRight(k, op, v)
        PROVE  StackInv'
    <3> DEFINE f == [Top EXCEPT !.note = <<op, v>>, !.acc = <<ret>>]
    <3>1. IsFrame(f) /\ f.fn = "relation"
      <4>1. IsFrame(Top)
        BY <2>1, TopFrame
      <4> QED BY <2>1, <4>1 DEF IsFrame
    <3>2. Level /\ Calls(Append(Below, f), "add")
      BY <2>3 DEF AwaitsRight
    <3> HIDE DEF f
    <3> QED BY <2>1, <3>1, <3>2, SwapStep DEF Calls, Enters
  <2> QED BY <2>1, <2>2, <2>3, PopStep
<1>8. CASE EndRelationRight
  BY <1>8, PopStep DEF EndRelationRight, Back
<1>9. CASE ParseUnary
  <2>1. stack # <<>> /\ Top.fn \in {"mult", "unary"}
    BY <1>9, Caller DEF ParseUnary, Enters
  <2>2. \/ Refuses
        \/ stack' = stack /\ call' = "return" /\ Level
        \/ /\ ~(depth >= MaxParseDepth) /\ depth' = depth + 1 /\ record_depth' = record_depth
           /\ Calls(Push("unary", Tok(pos).t), "unary")
        \/ Level /\ Calls(Push("member", ""), "primary")
    BY <1>9 DEF ParseUnary, Returns
  <2>3. CASE /\ ~(depth >= MaxParseDepth) /\ depth' = depth + 1 /\ record_depth' = record_depth
             /\ Calls(Push("unary", Tok(pos).t), "unary")
    <3> DEFINE f == Frame("unary", Tok(pos).t, <<>>)
    <3>1. IsFrame(f) /\ f.fn = "unary"
      BY NewFrame DEF Waiting, Counted
    <3>2. /\ Inside(Top.fn, "unary") /\ Enters("unary", "unary")
          /\ "unary" \in Counted /\ "unary" # "record"
      BY <2>1 DEF Inside, Enters, Counted
    <3>3. depth < MaxParseDepth
      BY <2>3, CountersNat, LimitAssumption
    <3>4. Calls(Append(stack, f), "unary")
      BY <2>3 DEF Push
    <3> HIDE DEF f
    <3> QED BY <2>1, <2>3, <3>1, <3>2, <3>3, <3>4, PushStep
  <2>4. CASE Level /\ Calls(Push("member", ""), "primary")
    <3> DEFINE f == Frame("member", "", <<>>)
    <3>1. IsFrame(f) /\ f.fn = "member"
      BY NewFrame DEF Waiting
    <3>2. /\ Inside(Top.fn, "member") /\ Enters("member", "primary")
          /\ "member" \notin Counted /\ "member" # "record"
      BY <2>1 DEF Inside, Enters, Counted
    <3>3. Calls(Append(stack, f), "primary")
      BY <2>4 DEF Push
    <3> HIDE DEF f
    <3> QED BY <2>1, <2>4, <3>1, <3>2, <3>3, PushStep DEF Level
  <2> QED BY <2>2, <2>3, <2>4, RefusesStep, Stands DEF MayCall
<1>10. CASE EndUnary
  BY <1>10, PopStep DEF EndUnary, Back
<1>11. CASE MemberStep
  <2>1. stack # <<>> /\ Top.fn = "member"
    BY <1>11 DEF MemberStep, Back
  <2> DEFINE g == [Top EXCEPT !.n = @ + 1]
  <2>2. IsFrame(g) /\ g.fn = "member"
    BY <2>1, TopFrame, FrameGoesOn
  <2>3. \/ \E node : Pops(node)
        \/ Level /\ stack' = Append(Below, g) /\ call' = "return"
        \/ \E name, args : Level /\
             Calls(Append(Append(Below, g), Frame("method", name, args)), "expr")
    BY <1>11 DEF MemberStep, Access, Returns, PopsNull
  <2>4. CASE Level /\ stack' = Append(Below, g) /\ call' = "return"
    BY <2>1, <2>2, <2>4, SwapStep
  <2>5. ASSUME NEW name, NEW args, Level,
               Calls(Append(Append(Below, g), Frame("method", name, args)), "expr")
        PROVE  StackInv'
    <3> DEFINE f == Frame("method", name, args)
               s == Append(Below, g)
    <3>1. IsFrame(f) /\ f.fn = "method"
      BY NewFrame DEF Waiting
    <3>2. Good(s, depth, record_depth)
      BY <2>1, <2>2, SwapGood DEF StackInv, Top, Below
    <3>3. s[Len(s)] = g /\ s # <<>>
      <4>1. IsStack(Below)
        BY <2>1, BelowStack DEF StackInv, Good, Below
      <4>2. s[Len(Below) + 1] = g /\ Len(s) = Len(Below) + 1 /\ Len(Below) \in Nat
        BY <2>2, <4>1, AppendStack
      <4> QED BY <4>2
    <3> HIDE DEF s, g, f
    <3>4. Inside(s[Len(s)].fn, f.fn) /\ f.fn \notin Counted /\ f.fn # "record"
      BY <2>2, <3>1, <3>3 DEF Inside, Counted
    <3>5. Good(Append(s, f), depth + One(f.fn \in Counted), record_depth + One(f.fn = "record"))
      BY <3>1, <3>2, <3>3, <3>4, PushGood
    <3>6. Good(Append(s, f), depth, record_depth)
      <4>1. One(f.fn \in Counted) = 0 /\ One(f.fn = "record") = 0
        BY <3>4 DEF One
      <4> QED BY <3>5, <4>1, CountersNat
    <3>7. MayCall(Append(s, f), "expr")
      <4>1. Append(s, f)[Len(s) + 1] = f /\ Len(Append(s, f)) = Len(s) + 1 /\ Len(s) \in Nat
        BY <3>1, <3>2, AppendStack DEF Good
      <4>2. Enters(f.fn, "expr")
        BY <3>1 DEF Enters
      <4> QED BY <4>1, <4>2 DEF MayCall
    <3> QED BY <2>5, <3>6, <3>7 DEF StackInv, Calls, Level, s, f
  <2> QED BY <2>1, <2>3, <2>4, <2>5, PopStep
<1>12. CASE EndMethod
  <2>1. stack # <<>> /\ \E node : Pops(node)
    BY <1>12 DEF EndMethod, Back, PopsNull
  <2> QED BY <2>1, PopStep
<1>13. CASE ParsePrimary
  <2>1. stack # <<>> /\ Top.fn = "member"
    BY <1>13, Caller DEF ParsePrimary, Enters
  <2>2. \/ Refuses
        \/ Level /\ stack' = stack /\ call' \in {"return", "set", "record"}
        \/ Level /\ Calls(Push("paren", ""), "expr")
    BY <1>13 DEF ParsePrimary, Returns, Calls
  <2>3. CASE Level /\ stack' = stack /\ call' \in {"return", "set", "record"}
    <3>1. MayCall(stack, call')
      BY <2>1, <2>3 DEF MayCall, Enters, Top
    <3> QED BY <2>3, <3>1, Stands
  <2>4. CASE Level /\ Calls(Push("paren", ""), "expr")
    <3> DEFINE f == Frame("paren", "", <<>>)
    <3>1. IsFrame(f) /\ f.fn = "paren"
      BY NewFrame DEF Waiting
    <3>2. /\ Inside(Top.fn, "paren") /\ Enters("paren", "expr")
          /\ "paren" \notin Counted /\ "paren" # "record"
      BY <2>1 DEF Inside, Enters, Counted
    <3>3. Calls(Append(stack, f), "expr")
      BY <2>4 DEF Push
    <3> HIDE DEF f
    <3> QED BY <2>1, <2>4, <3>1, <3>2, <3>3, PushStep DEF Level
  <2> QED BY <2>2, <2>3, <2>4, RefusesStep
<1>14. CASE EndParen
  <2>1. stack # <<>> /\ \E node : Pops(node)
    BY <1>14 DEF EndParen, Back, PopsNull
  <2> QED BY <2>1, PopStep
<1>15. CASE ParseSet
  <2>1. stack # <<>> /\ Top.fn \in {"scope", "member"}
    BY <1>15, Caller DEF ParseSet, Enters
  <2>2. Level /\ ((stack' = stack /\ call' = "return") \/ Calls(Push("set", ""), "expr"))
    BY <1>15 DEF ParseSet, Returns
  <2>3. CASE Calls(Push("set", ""), "expr")
    <3> DEFINE f == Frame("set", "", <<>>)
    <3>1. IsFrame(f) /\ f.fn = "set"
      BY NewFrame DEF Waiting
    <3>2. /\ Inside(Top.fn, "set") /\ Enters("set", "expr")
          /\ "set" \notin Counted /\ "set" # "record"
      BY <2>1 DEF Inside, Enters, Counted
    <3>3. Calls(Append(stack, f), "expr")
      BY <2>3 DEF Push
    <3> HIDE DEF f
    <3> QED BY <2>1, <2>2, <3>1, <3>2, <3>3, PushStep DEF Level
  <2> QED BY <2>2, <2>3, Stands DEF MayCall
<1>16. CASE EndElement
  <2>1. stack # <<>> /\ Top.fn = "set"
    BY <1>16 DEF EndElement, Back
  <2>2. \/ \E node : Pops(node)
        \/ \E elts : Level /\ Calls(Append(Below, [Top EXCEPT !.acc = elts]), "expr")
    BY <1>16 DEF EndElement, PopsNull
  <2>3. ASSUME NEW elts, Level, Calls(Append(Below, [Top EXCEPT !.acc = elts]), "expr")
        PROVE  StackInv'
    <3>1. IsFrame([Top EXCEPT !.acc = elts]) /\ [Top EXCEPT !.acc = elts].fn = "set"
      BY <2>1, TopFrame, FrameGoesOn
    <3> QED BY <2>1, <2>3, <3>1, SwapStep DEF Calls, Enters
  <2> QED BY <2>1, <2>2, <2>3, PopStep
<1>17. CASE ParseRecord
  <2>1. stack # <<>> /\ Top.fn = "member"
    BY <1>17, Caller DEF ParseRecord, Enters
  <2>2. \/ Refuses
        \/ Level /\ stack' = stack /\ call' = "return"
        \/ /\ ~(record_depth >= MaxRecordDepth)
           /\ record_depth' = record_depth + 1 /\ depth' = depth
           /\ Calls(Push("record", <<Tok(pos + 1).v>>), "expr")
    BY <1>17 DEF ParseRecord, Returns
  <2>3. CASE /\ ~(record_depth >= MaxRecordDepth)
             /\ record_depth' = record_depth + 1 /\ depth' = depth
             /\ Calls(Push("record", <<Tok(pos + 1).v>>), "expr")
    <3> DEFINE f == Frame("record", <<Tok(pos + 1).v>>, <<>>)
    <3>1. IsFrame(f) /\ f.fn = "record"
      BY NewFrame DEF Waiting
    <3>2. Inside(Top.fn, "record") /\ Enters("record", "expr") /\ "record" \notin Counted
      BY <2>1 DEF Inside, Enters, Counted
    <3>3. record_depth < MaxRecordDepth
      BY <2>3, CountersNat, LimitAssumption DEF MaxRecordDepth
    <3>4. Calls(Append(stack, f), "expr")
      BY <2>3 DEF Push
    <3> HIDE DEF f
    <3> QED BY <2>1, <2>3, <3>1, <3>2, <3>3, <3>4, PushStep
  <2> QED BY <2>2, <2>3, RefusesStep, Stands DEF MayCall
<1>18. CASE EndEntry
  <2>1. stack # <<>> /\ Top.fn = "record"
    BY <1>18 DEF EndEntry, Back
  <2>2. \/ \E node : Pops(node)
        \/ \E vals, keys : Level /\
             Calls(Append(Below, [Top EXCEPT !.acc = vals, !.note = keys]), "expr")
    BY <1>18 DEF EndEntry, PopsNull
  <2>3. ASSUME NEW vals, NEW keys, Level,
               Calls(Append(Below, [Top EXCEPT !.acc = vals, !.note = keys]), "expr")
        PROVE  StackInv'
    <3> DEFINE f == [Top EXCEPT !.acc = vals, !.note = keys]
    <3>1. IsFrame(f) /\ f.fn = "record"
      <4>1. IsFrame(Top)
        BY <2>1, TopFrame
      <4> QED BY <2>1, <4>1 DEF IsFrame
    <3> HIDE DEF f
    <3> QED BY <2>1, <2>3, <3>1, SwapStep DEF Calls, Enters, f
  <2> QED BY <2>1, <2>2, <2>3, PopStep
<1> QED BY <1>1, <1>2, <1>3, <1>4, <1>5, <1>6, <1>7, <1>8, <1>9, <1>10, <1>11, <1>12,
           <1>13, <1>14, <1>15, <1>16, <1>17, <1>18 DEF ExprStep

(* So does every step over the rest of a policy.                           *)
LEMMA PolicyStepsGood ==
  ASSUME StackInv, PolicyStep
  PROVE  StackInv'
<1>1. CASE ParsePolicies
  <2>1. stack = <<>> /\ depth = 0 /\ record_depth = 0 /\ Level
    <3>1. stack = <<>> /\ Good(stack, depth, record_depth)
      BY <1>1 DEF StackInv, MayCall, Enters, ParsePolicies
    <3>2. Good(<<>>, depth, record_depth)
      BY <3>1
    <3>3. depth = 0 /\ record_depth = 0
      BY <3>2, EmptyGoodOnly
    <3>4. Level
      BY <1>1 DEF ParsePolicies
    <3> QED BY <3>1, <3>3, <3>4
  <2>2. CASE stack' = <<>> /\ call' = "return"
    BY <2>1, <2>2, EmptyGood DEF StackInv, MayCall, Level
  <2>3. CASE Calls(<<Frame("policy", "", <<NewPolicy>>)>>, "annotations")
    <3> DEFINE f == Frame("policy", "", <<NewPolicy>>)
    <3>1. IsFrame(f) /\ f.fn = "policy"
      BY NewFrame DEF Waiting
    <3>2. stack' = <<f>> /\ call' = "annotations"
      BY <2>3 DEF Calls
    <3> HIDE DEF f
    <3>3. Good(Append(<<>>, f), 0 + One(f.fn \in Counted), 0 + One(f.fn = "record"))
      BY <3>1, EmptyGood, PushGood DEF Counted
    <3>4. /\ Append(<<>>, f) = <<f>> /\ Len(<<f>>) = 1 /\ <<f>>[1] = f /\ <<f>> # <<>>
          /\ 0 + One(f.fn \in Counted) = 0 /\ 0 + One(f.fn = "record") = 0
      BY <3>1 DEF One, Counted
    <3>5. MayCall(<<f>>, "annotations")
      BY <3>1, <3>4 DEF MayCall, Enters
    <3> QED BY <2>1, <3>2, <3>3, <3>4, <3>5 DEF StackInv, Level
  <2> QED BY <1>1, <2>2, <2>3 DEF ParsePolicies, Returns
<1>2. CASE ParseAnnotation
  <2>1. stack # <<>> /\ Top.fn = "policy"
    BY <1>2, Caller DEF ParseAnnotation, Enters
  <2>2. /\ Level
        /\ \/ stack' = stack /\ call' = "return"
           \/ \E p : Calls(Building(p), "annotations")
    BY <1>2 DEF ParseAnnotation, Returns
  <2> QED BY <2>1, <2>2, Stands, PolicyStepGood DEF MayCall, Enters
<1>3. CASE ParseEffect
  <2>1. stack # <<>> /\ Top.fn = "policy"
    BY <1>3, Caller DEF ParseEffect, Enters
  <2>2. Refuses \/ (Level /\ \E p : Calls(Building(p), "principal"))
    BY <1>3 DEF ParseEffect
  <2> QED BY <2>1, <2>2, RefusesStep, PolicyStepGood DEF Enters
<1>4. CASE ParseScope
  <2>1. stack # <<>> /\ Top.fn = "policy" /\ call \in ScopeVar
    BY <1>4, Caller DEF ParseScope, Enters, ScopeVar
  <2>2. \/ Refuses
        \/ Level /\ Calls(Push("scope", ""), "set")
        \/ Level /\ \E p : Calls(Building(p), AfterScope[call][2])
    BY <1>4 DEF ParseScope
  <2>3. CASE Level /\ Calls(Push("scope", ""), "set")
    <3> DEFINE f == Frame("scope", "", <<>>)
    <3>1. IsFrame(f) /\ f.fn = "scope"
      BY NewFrame DEF Waiting
    <3>2. /\ Inside(Top.fn, "scope") /\ Enters("scope", "set")
          /\ "scope" \notin Counted /\ "scope" # "record"
      BY <2>1 DEF Inside, Enters, Counted
    <3>3. Calls(Append(stack, f), "set")
      BY <2>3 DEF Push
    <3> HIDE DEF f
    <3> QED BY <2>1, <2>3, <3>1, <3>2, <3>3, PushStep DEF Level
  <2>4. Enters("policy", AfterScope[call][2])
    <3>1. AfterScope[call][2] \in {"action", "resource", "conditions"}
      <4>1. CASE call = "principal"
        BY <4>1 DEF AfterScope
      <4>2. CASE call = "action"
        BY <4>2 DEF AfterScope
      <4>3. CASE call = "resource"
        BY <4>3 DEF AfterScope
      <4> QED BY <2>1, <4>1, <4>2, <4>3 DEF ScopeVar
    <3> QED BY <3>1 DEF Enters
  <2> QED BY <2>1, <2>2, <2>3, <2>4, RefusesStep, PolicyStepGood
<1>5. CASE EndScopeSet
  <2>1. stack # <<>> /\ Top.fn = "scope"
    BY <1>5 DEF EndScopeSet, Back
  <2>2. PopsNull \/ (Level /\ \E p : Calls(Building(p), "resource"))
    BY <1>5 DEF EndScopeSet
  <2> QED BY <2>1, <2>2, PopsNullStep, PolicyStepGood DEF Enters
<1>6. CASE ParseCondition
  <2>1. stack # <<>> /\ Top.fn = "policy"
    BY <1>6, Caller DEF ParseCondition, Enters
  <2>2. \/ Refuses
        \/ Level /\ Calls(Push("condition", Tok(pos).t), "expr")
        \/ Level /\ Calls(<<>>, "policies")
    BY <1>6 DEF ParseCondition
  <2>3. CASE Level /\ Calls(Push("condition", Tok(pos).t), "expr")
    <3> DEFINE f == Frame("condition", Tok(pos).t, <<>>)
    <3>1. IsFrame(f) /\ f.fn = "condition"
      BY NewFrame DEF Waiting
    <3>2. /\ Inside(Top.fn, "condition") /\ Enters("condition", "expr")
          /\ "condition" \notin Counted /\ "condition" # "record"
      BY <2>1 DEF Inside, Enters, Counted
    <3>3. Calls(Append(stack, f), "expr")
      BY <2>3 DEF Push
    <3> HIDE DEF f
    <3> QED BY <2>1, <2>3, <3>1, <3>2, <3>3, PushStep DEF Level
  <2>4. CASE Level /\ Calls(<<>>, "policies")
    <3>1. depth = 0 /\ record_depth = 0
      BY <2>1, PolicyAlone DEF StackInv, Top
    <3> QED BY <2>4, <3>1, EmptyGood DEF StackInv, MayCall, Calls, Level
  <2> QED BY <2>2, <2>3, <2>4, RefusesStep
<1>7. CASE EndCondition
  <2>1. stack # <<>> /\ Top.fn = "condition"
    BY <1>7 DEF EndCondition, Back
  <2>2. PopsNull \/ (Level /\ \E p : Calls(Building(p), "conditions"))
    BY <1>7 DEF EndCondition
  <2> QED BY <2>1, <2>2, PopsNullStep, PolicyStepGood DEF Enters
<1> QED BY <1>1, <1>2, <1>3, <1>4, <1>5, <1>6, <1>7 DEF PolicyStep

-------------------------------------------------------------------------------
(* Theorems                                                                *)

(* Whatever the text and the limits, an active call is one the grammar has *)
(* there, the counters are the calls counted, and a call that is i deep is *)
(* at most eight further than eight times the counted ones up to it        *)
(* (nxe_cedar_parse_expr to nxe_cedar_parse_primary, nxe_cedar_parse).     *)
THEOREM StackInvariant == Spec => []StackInv
<1>1. Init => StackInv
  <2> SUFFICES ASSUME Init
               PROVE  StackInv
    OBVIOUS
  <2>1. stack = <<>> /\ depth = 0 /\ record_depth = 0 /\ call = "policies"
    BY DEF Init
  <2> QED BY <2>1, EmptyGood DEF StackInv, MayCall
<1>2. StackInv /\ [Next]_vars => StackInv'
  <2> SUFFICES ASSUME StackInv, [Next]_vars
               PROVE  StackInv'
    OBVIOUS
  <2>1. CASE ExprStep
    BY <2>1, ExprStepGood
  <2>2. CASE PolicyStep
    BY <2>2, PolicyStepsGood
  <2>3. CASE Unwind
    BY <2>3, PopStep DEF Unwind
  <2>4. CASE AllocationFails
    <3>1. CASE call = "return"
      <4>1. stack # <<>> /\ Pops(Null)
        BY <2>4, <3>1 DEF AllocationFails, Allocates, ScopeVar
      <4> QED BY <4>1, PopStep
    <3>2. CASE call # "return"
      BY <2>4, <3>2, Stands DEF AllocationFails, Returns, MayCall
    <3> QED BY <3>1, <3>2
  <2>5. CASE UNCHANGED vars
    BY <2>5 DEF StackInv, vars
  <2> QED BY <2>1, <2>2, <2>3, <2>4, <2>5 DEF Next, Step
<1> QED BY <1>1, <1>2, PTL DEF Spec

(* However a call ends, by a tree, an error or a refused allocation, the   *)
(* depth it took is given back (parser.c:1413-1424, 1568-1630, 566, 683).  *)
THEOREM CountersAreExact == Spec => []CountersExact
<1>1. StackInv => CountersExact
  BY DEF StackInv, Good, CountersExact, Count, Open
<1> QED BY <1>1, StackInvariant, PTL

(* For every NXE_CEDAR_MAX_PARSE_DEPTH, and whatever the other limits, the *)
(* C stack of a parse is bounded by a multiple of it.                      *)
THEOREM RecursionIsBounded == Spec => []RecursionBounded
<1>1. StackInv => RecursionBounded
  <2> SUFFICES ASSUME StackInv
               PROVE  RecursionBounded
    OBVIOUS
  <2> DEFINE m == Len(stack)
  <2>1. m \in Nat
    BY DEF StackInv, Good, IsStack
  <2>2. depth \in Nat /\ depth <= MaxParseDepth /\ depth = Count(stack, Counted, m)
    BY CountersNat DEF StackInv, Good
  <2>3. m # 0 => m <= 8 * depth + Rank(stack[m].fn)
    BY <2>1, <2>2 DEF StackInv, Good
  <2>4. Rank(stack[m].fn) \in 1..8
    BY DEF Rank
  <2> HIDE DEF m
  <2>5. m <= 8 * (MaxParseDepth + 1)
    BY <2>1, <2>2, <2>3, <2>4, LimitAssumption
  <2> QED BY <2>5 DEF RecursionBounded, m
<1> QED BY <1>1, StackInvariant, PTL

-------------------------------------------------------------------------------
(* Tokens                                                                  *)

\* A token that the grammar can want
Fine(p) == Tok(p).t \notin {"error", "eof"}

\* The tokens from p up to q are all ones that the grammar can want.
FineTo(p, q) == \A i \in p..q - 1 : Fine(i)

LEMMA FineJoin ==
  ASSUME NEW p \in Nat, NEW q \in Nat, NEW r \in Nat, FineTo(p, q), FineTo(q, r)
  PROVE  FineTo(p, r)
<1> SUFFICES ASSUME NEW i \in p..r - 1
             PROVE  Fine(i)
  BY DEF FineTo
<1>1. i \in p..q - 1 \/ i \in q..r - 1
  OBVIOUS
<1> QED BY <1>1 DEF FineTo

(* What is wanted after a position is the text's.                          *)
LEMMA FineWithin ==
  ASSUME text \in Text, NEW p \in Nat, Fine(p)
  PROVE  p <= Len(text)
BY DEF Fine, Tok, Eof

(* The parts of a type name end, where there is no further one.            *)
LEMMA SegmentsEnd ==
  ASSUME text \in Text, NEW p \in Nat
  PROVE  LET n == Segments(p) IN
         n \in Nat /\ ~Segment(p + 2 * n) /\ \A i \in 0..n - 1 : Segment(p + 2 * i)
<1> DEFINE L == Len(text)
           Begins(n) == \A i \in 0..n - 1 : Segment(p + 2 * i)
           Ends(n) == ~Segment(p + 2 * n) /\ Begins(n)
<1>1. L \in Nat
  BY TextAssumption
<1>2. \A q \in Nat : Segment(q) => q <= L
  <2> SUFFICES ASSUME NEW q \in Nat, Segment(q)
               PROVE  q <= L
    OBVIOUS
  <2>1. Tok(q + 1 - 1).t = "::"
    BY DEF Segment, Ahead
  <2>2. Fine(q)
    BY <2>1 DEF Fine
  <2> QED BY <2>2, FineWithin
<1>3. \E n \in 0..L : Ends(n)
  <2> SUFFICES ASSUME \A n \in 0..L : ~Ends(n)
               PROVE  FALSE
    OBVIOUS
  <2> DEFINE P == {n \in Nat : n <= L + 1 => Begins(n)}
  <2>1. 0 \in P
    OBVIOUS
  <2>2. ASSUME NEW n \in Nat, n \in P
        PROVE  n + 1 \in P
    <3> SUFFICES ASSUME n + 1 <= L + 1
                 PROVE  Begins(n + 1)
      OBVIOUS
    <3>1. Begins(n) /\ ~Ends(n)
      BY <1>1, <2>2
    <3>2. Segment(p + 2 * n)
      BY <3>1
    <3>3. \A i \in 0..n : i \in 0..n - 1 \/ i = n
      OBVIOUS
    <3> HIDE DEF P
    <3> QED BY <3>1, <3>2, <3>3
  <2>3. Begins(L + 1)
    <3> HIDE DEF P, Begins
    <3>1. Nat \subseteq P
      BY <2>1, <2>2, Induction
    <3> QED BY <1>1, <3>1 DEF P
  <2>4. Segment(p + 2 * L)
    BY <1>1, <2>3
  <2>5. p + 2 * L <= L
    BY <1>1, <1>2, <2>4
  <2>6. L = 0 /\ p = 0
    BY <1>1, <2>5
  <2>7. Tok(p + 1).t = "ident"
    BY <2>4, <2>6 DEF Segment, Ahead
  <2> QED BY <2>6, <2>7 DEF Tok, Eof
<1> HIDE DEF L, Begins
<1>4. Ends(Segments(p)) /\ Segments(p) \in 0..L
  BY <1>3 DEF Segments, L, Begins
<1> QED BY <1>1, <1>4 DEF Begins

(* The tokens of a type name, and where it ends.                           *)
LEMMA TypeReads ==
  ASSUME text \in Text, NEW p \in Nat, IsType(p)
  PROVE  TypeEnd(p) \in Nat /\ TypeEnd(p) > p /\ FineTo(p, TypeEnd(p))
<1> DEFINE n == Segments(p + 1)
<1>1. n \in Nat /\ \A i \in 0..n - 1 : Segment(p + 1 + 2 * i)
  BY SegmentsEnd
<1> HIDE DEF n
<1>2. TypeEnd(p) = p + 1 + 2 * n /\ Tok(p).t = "ident"
  BY DEF TypeEnd, IsType, n
<1>3. ASSUME NEW i \in p..TypeEnd(p) - 1
      PROVE  Fine(i)
  <2>1. CASE i = p
    BY <1>2, <2>1 DEF Fine
  <2>2. CASE i # p
    <3>1. PICK k \in 0..n - 1 : i = p + 1 + 2 * k \/ i = p + 2 + 2 * k
      <4> DEFINE d == i - p - 1
      <4>1. d \in 0..2 * n - 1
        BY <1>1, <1>2, <1>3, <2>2
      <4>2. d \div 2 \in 0..n - 1 /\ (d = 2 * (d \div 2) \/ d = 2 * (d \div 2) + 1)
        BY <1>1, <4>1
      <4> QED BY <4>2
    <3>2. Segment(p + 1 + 2 * k)
      BY <1>1
    <3>3. Tok(p + 1 + 2 * k).t = "::" /\ Tok(p + 2 + 2 * k).t = "ident"
      <4>1. p + 1 + 2 * k + 1 - 1 = p + 1 + 2 * k /\ p + 1 + 2 * k + 2 - 1 = p + 2 + 2 * k
        OBVIOUS
      <4> QED BY <3>2, <4>1 DEF Segment, Ahead
    <3> QED BY <3>1, <3>3 DEF Fine
  <2> QED BY <2>1, <2>2
<1> QED BY <1>1, <1>2, <1>3 DEF FineTo

LEMMA EntityRefReads ==
  ASSUME text \in Text, NEW p \in Nat, IsEntityRef(p)
  PROVE  EntityRefEnd(p) \in Nat /\ EntityRefEnd(p) > p /\ FineTo(p, EntityRefEnd(p))
<1> DEFINE e == TypeEnd(p)
<1>1. e \in Nat /\ e > p /\ FineTo(p, e)
  BY TypeReads DEF IsEntityRef
<1> HIDE DEF e
<1>2. Tok(e).t = "::" /\ Tok(e + 1).t = "string"
  <2>1. e + 1 - 1 = e /\ e + 2 - 1 = e + 1
    BY <1>1
  <2> QED BY <2>1 DEF IsEntityRef, Ahead, e
<1>3. FineTo(e, e + 2)
  BY <1>1, <1>2 DEF FineTo, Fine
<1>4. FineTo(p, e + 2)
  BY <1>1, <1>3, FineJoin
<1> QED BY <1>1, <1>4 DEF EntityRefEnd, e

(* The tokens of a clause of a scope.                                      *)
LEMMA ClauseReads ==
  ASSUME text \in Text, NEW v, NEW p \in Nat, NEW c \in Clause(v, p)
  PROVE  c.end \in Nat /\ c.end >= p /\ FineTo(p, c.end)
<1> DEFINE After(q) == q \in Nat /\ q > p /\ FineTo(p, q) /\ IsEntityRef(q) /\ c.end = EntityRefEnd(q)
<1>1. CASE c.end = p
  BY <1>1 DEF FineTo
<1>2. CASE \E q : After(q)
  <2>1. PICK q : After(q)
    BY <1>2
  <2>2. EntityRefEnd(q) \in Nat /\ EntityRefEnd(q) > q /\ FineTo(q, EntityRefEnd(q))
    BY <2>1, EntityRefReads
  <2>3. FineTo(p, EntityRefEnd(q))
    BY <2>1, <2>2, FineJoin
  <2> QED BY <2>1, <2>2, <2>3
<1>3. CASE /\ Tok(p).t = "is" /\ IsTypeName(p + 1)
           /\ c.end = TypeEnd(p + 1)
  <2>1. TypeEnd(p + 1) \in Nat /\ TypeEnd(p + 1) > p + 1 /\ FineTo(p + 1, TypeEnd(p + 1))
    BY <1>3, TypeReads DEF IsTypeName
  <2>2. FineTo(p, p + 1)
    BY <1>3 DEF FineTo, Fine
  <2>3. FineTo(p, TypeEnd(p + 1))
    BY <2>1, <2>2, FineJoin
  <2> QED BY <1>3, <2>1, <2>3
<1>4. CASE Tok(p).t \in {"==", "in"} /\ IsEntityRef(p + 1) /\ c.end = EntityRefEnd(p + 1)
  <2>1. FineTo(p, p + 1)
    BY <1>4 DEF FineTo, Fine
  <2> QED BY <1>2, <1>4, <2>1
<1>5. CASE /\ Tok(p).t = "is" /\ IsTypeName(p + 1) /\ Tok(TypeEnd(p + 1)).t = "in"
           /\ IsEntityRef(TypeEnd(p + 1) + 1) /\ c.end = EntityRefEnd(TypeEnd(p + 1) + 1)
  <2> DEFINE e == TypeEnd(p + 1)
  <2>1. e \in Nat /\ e > p + 1 /\ FineTo(p + 1, e)
    BY <1>5, TypeReads DEF IsTypeName
  <2>2. FineTo(p, p + 1)
    BY <1>5 DEF FineTo, Fine
  <2>3. FineTo(e, e + 1)
    BY <1>5, <2>1 DEF FineTo, Fine
  <2> HIDE DEF e
  <2>4. FineTo(p, e)
    BY <2>1, <2>2, FineJoin
  <2>5. FineTo(p, e + 1)
    BY <2>1, <2>3, <2>4, FineJoin
  <2>6. After(e + 1)
    BY <1>5, <2>1, <2>5 DEF e
  <2> QED BY <1>2, <2>6
<1> QED BY <1>1, <1>3, <1>4, <1>5 DEF Clause
-------------------------------------------------------------------------------
(* Reading                                                                 *)

(* Inductive: what has been read, what the sticky flag is for, and that a  *)
(* set or a record is entered at its bracket.                              *)
ReadInv ==
  /\ text \in Text /\ pos \in Nat \ {0} /\ pos <= Len(text) + 1
  /\ \A i \in 1..pos - 1 : Tok(i).t # "error"
  /\ error \in BOOLEAN
  /\ At({"error"}) => error
  /\ error => At({"error"}) \/ (call = "return" /\ ret = Null)
  /\ call = "set" => At({"["})
  /\ call = "record" => At({"{"})

(* The parser goes past k tokens that its grammar wants.                   *)
Passes(k) == k \in Nat \ {0} /\ Takes(k) /\ FineTo(pos, pos + k)

LEMMA PassesReads ==
  ASSUME ReadInv, text' = text, NEW k, Passes(k), ~(call = "return" /\ ret = Null),
         call' \notin {"record"}, call' = "set" => Tok(pos + k).t = "["
  PROVE  ReadInv'
<1>0. text \in Text /\ pos \in Nat \ {0} /\ k \in Nat \ {0}
  BY Zenon DEF ReadInv, Passes
<1>1. /\ pos' = pos + k /\ error' = (error \/ Tok(pos + k).t = "error")
      /\ \A i \in pos..pos + k - 1 : Fine(i)
  <2>1. pos' = pos + k
    BY DEF Passes, Takes
  <2>2. error' = (error \/ Tok(pos + k).t = "error")
    BY DEF Passes, Takes
  <2>3. \A i \in pos..(pos + k) - 1 : Fine(i)
    BY DEF Passes, FineTo
  <2>4. (pos + k) - 1 = pos + k - 1
    BY <1>0
  <2> QED BY <2>1, <2>2, <2>3, <2>4
<1>2. \A i : Tok(i)' = Tok(i)
  BY DEF Tok, Eof
<1>3. ~error
  <2>1. pos \in pos..pos + k - 1
    BY <1>0
  <2>2. ~At({"error"})
    BY <1>1, <2>1 DEF Fine, At
  <2> QED BY <2>2 DEF ReadInv
<1>4. pos + k - 1 <= Len(text)
  <2>1. pos + k - 1 \in pos..pos + k - 1 /\ pos + k - 1 \in Nat
    BY <1>0
  <2> QED BY <1>1, <1>0, <2>1, FineWithin
<1>5. \A i \in 1..pos + k - 1 : Tok(i).t # "error"
  <2> TAKE i \in 1..pos + k - 1
  <2>1. i \in 1..pos - 1 \/ i \in pos..pos + k - 1
    BY <1>0
  <2> QED BY <1>1, <2>1 DEF ReadInv, Fine
<1>6. Len(text) \in Nat
  BY <1>0, TextAssumption
<1>7. \A i \in 1..pos' - 1 : Tok(i)'.t # "error"
  <2>1. pos' - 1 = pos + k - 1
    BY <1>1, <1>0
  <2> QED BY <1>2, <1>5, <2>1
<1>8. Tok(pos)' = Tok(pos + k)
  BY <1>1 DEF Tok, Eof
<1>9. At({"error"})' <=> error'
  BY <1>1, <1>3, <1>8 DEF At
<1>10. text' \in Text /\ pos' \in Nat \ {0} /\ pos' <= Len(text') + 1
  BY <1>1, <1>0, <1>4, <1>6
<1>11. call' = "set" => At({"["})'
  BY <1>8 DEF At
<1>12. error' \in BOOLEAN
  BY <1>1
<1> QED BY <1>7, <1>9, <1>10, <1>11, <1>12 DEF ReadInv

LEMMA FailsReads ==
  ASSUME ReadInv, text' = text, Fails, call' = "return", ret' = Null
  PROVE  ReadInv'
BY DEF ReadInv, Fails, Tok, Eof, At

LEMMA StaysReads ==
  ASSUME ReadInv, text' = text, Stays,
         (call = "return" /\ ret = Null) => (call' = "return" /\ ret' = Null),
         call' = "set" => At({"["}), call' = "record" => At({"{"})
  PROVE  ReadInv'
BY DEF ReadInv, Stays, Tok, Eof, At
(* What reading does besides failing: nothing, or past tokens wanted.      *)
Goes == text' = text /\ (Stays \/ \E k : Passes(k))

LEMMA GoesFew ==
  ASSUME ReadInv, text' = text
  PROVE  /\ Stays => Goes
         /\ Takes(1) /\ Fine(pos) => Goes
         /\ Takes(2) /\ Fine(pos) /\ Fine(pos + 1) => Goes
         /\ Takes(3) /\ Fine(pos) /\ Fine(pos + 1) /\ Fine(pos + 2) => Goes
         /\ Takes(4) /\ Fine(pos) /\ Fine(pos + 1) /\ Fine(pos + 2) /\ Fine(pos + 3) => Goes
         /\ Takes(5) /\ Fine(pos) /\ Fine(pos + 1) /\ Fine(pos + 2) /\ Fine(pos + 3)
              /\ Fine(pos + 4) => Goes
<1>1. pos \in Nat
  BY DEF ReadInv
<1>2. ASSUME NEW k \in Nat \ {0}, Takes(k), \A i \in 0..k - 1 : Fine(pos + i)
      PROVE  Goes
  <2>1. ASSUME NEW i \in pos..(pos + k) - 1
        PROVE  Fine(i)
    <3>1. i - pos \in 0..k - 1 /\ pos + (i - pos) = i
      BY <1>1, <2>1
    <3> QED BY <1>2, <3>1
  <2>2. FineTo(pos, pos + k)
    BY <2>1 DEF FineTo
  <2> QED BY <1>2, <2>2 DEF Goes, Passes
<1>3. pos + 0 = pos
  BY <1>1
<1>4. Takes(1) /\ Fine(pos) => Goes
  <2>1. Fine(pos) => \A i \in 0..1 - 1 : Fine(pos + i)
    BY <1>3
  <2> QED BY <1>2, <2>1
<1>5. Takes(2) /\ Fine(pos) /\ Fine(pos + 1) => Goes
  <2>1. Fine(pos) /\ Fine(pos + 1) => \A i \in 0..2 - 1 : Fine(pos + i)
    BY <1>3
  <2> QED BY <1>2, <2>1
<1>6. Takes(3) /\ Fine(pos) /\ Fine(pos + 1) /\ Fine(pos + 2) => Goes
  <2>1. Fine(pos) /\ Fine(pos + 1) /\ Fine(pos + 2) => \A i \in 0..3 - 1 : Fine(pos + i)
    BY <1>3
  <2> QED BY <1>2, <2>1
<1>7. Takes(4) /\ Fine(pos) /\ Fine(pos + 1) /\ Fine(pos + 2) /\ Fine(pos + 3) => Goes
  <2>1. Fine(pos) /\ Fine(pos + 1) /\ Fine(pos + 2) /\ Fine(pos + 3)
          => \A i \in 0..4 - 1 : Fine(pos + i)
    BY <1>3
  <2> QED BY <1>2, <2>1
<1>8. Takes(5) /\ Fine(pos) /\ Fine(pos + 1) /\ Fine(pos + 2) /\ Fine(pos + 3)
        /\ Fine(pos + 4) => Goes
  <2>1. Fine(pos) /\ Fine(pos + 1) /\ Fine(pos + 2) /\ Fine(pos + 3) /\ Fine(pos + 4)
          => \A i \in 0..5 - 1 : Fine(pos + i)
    BY <1>3
  <2> QED BY <1>2, <2>1
<1> QED BY <1>4, <1>5, <1>6, <1>7, <1>8 DEF Goes

LEMMA GoesReads ==
  ASSUME ReadInv, Goes, ~(call = "return" /\ ret = Null), call' \notin {"set", "record"}
  PROVE  ReadInv'
<1>1. CASE Stays
  BY <1>1, StaysReads DEF Goes
<1>2. CASE \E k : Passes(k)
  BY <1>2, PassesReads DEF Goes
<1> QED BY <1>1, <1>2 DEF Goes

-------------------------------------------------------------------------------
(* Linking                                                                 *)

\* A sequence of trees that were built
Linked(a) == \E S : Null \notin S /\ a \in Seq(S)

\* What the frame f has so far
Filled(f) == Linked(f.acc) /\ (f.fn = "ite" => Len(f.acc) < 3)

AllFilled(s) ==
  /\ \A i \in 1..Len(s) : Filled(s[i])
  /\ s # <<>> => "effect" \in DOMAIN s[1].acc[1]

(* Inductive: no frame keeps NULL, and NULL is returned with the flag set. *)
LinkInv ==
  /\ AllFilled(stack)
  /\ stack # <<>> /\ call = "return" /\ ret = Null => error

LEMMA LinkedAppend ==
  ASSUME NEW a, Linked(a), NEW n, n # Null
  PROVE  Linked(Append(a, n)) /\ Len(Append(a, n)) = Len(a) + 1 /\ Len(a) \in Nat
<1>1. PICK S : Null \notin S /\ a \in Seq(S)
  BY DEF Linked
<1>2. a \in Seq(S \cup {n})
  <2>1. Len(a) \in Nat /\ a \in [1..Len(a) -> S]
    BY <1>1
  <2>2. a \in [1..Len(a) -> S \cup {n}]
    BY <2>1
  <2> QED BY <2>1, <2>2
<1>3. Append(a, n) \in Seq(S \cup {n}) /\ Null \notin S \cup {n}
  BY <1>1, <1>2
<1>4. Len(Append(a, n)) = Len(a) + 1 /\ Len(a) \in Nat
  BY <1>2
<1> QED BY <1>3, <1>4 DEF Linked

LEMMA LinkedFew ==
  /\ Linked(<<>>) /\ Len(<<>>) = 0
  /\ \A n : n # Null => Linked(<<n>>)
<1>1. Linked(<<>>) /\ Len(<<>>) = 0
  <2>1. Null \notin {} /\ <<>> \in Seq({})
    OBVIOUS
  <2> QED BY <2>1 DEF Linked
<1>2. ASSUME NEW n, n # Null
      PROVE  Linked(<<n>>)
  <2>1. Null \notin {n} /\ <<n>> \in Seq({n})
    BY <1>2
  <2> QED BY <2>1 DEF Linked
<1> QED BY <1>1, <1>2

LEMMA FilledBelow ==
  ASSUME NEW s, IsStack(s), s # <<>>, AllFilled(s)
  PROVE  AllFilled(SubSeq(s, 1, Len(s) - 1))
<1> DEFINE b == SubSeq(s, 1, Len(s) - 1)
<1>1. /\ IsStack(b) /\ Len(s) \in Nat \ {0} /\ Len(b) = Len(s) - 1
      /\ \A i \in 1..Len(b) : b[i] = s[i]
  BY BelowStack
<1>2. b # <<>> => Len(b) # 0
  <2>1. PICK S : b \in Seq(S)
    BY <1>1 DEF IsStack
  <2> HIDE DEF b
  <2> QED BY <2>1
<1> HIDE DEF b
<1>3. b # <<>> => b[1] = s[1]
  BY <1>1, <1>2
<1> QED BY <1>1, <1>3 DEF AllFilled, b

LEMMA FilledAppend ==
  ASSUME NEW s, IsStack(s), s # <<>>, AllFilled(s), NEW f, IsFrame(f), Filled(f)
  PROVE  AllFilled(Append(s, f))
<1> DEFINE t == Append(s, f)
<1>1. /\ Len(s) \in Nat /\ Len(t) = Len(s) + 1 /\ t[Len(s) + 1] = f
      /\ \A i \in 1..Len(s) : t[i] = s[i]
  BY AppendStack
<1>2. Len(s) # 0
  BY DEF IsStack
<1> HIDE DEF t
<1>3. t[1] = s[1]
  BY <1>1, <1>2
<1>4. \A i \in 1..Len(s) + 1 : i \in 1..Len(s) \/ i = Len(s) + 1
  BY <1>1
<1>5. \A i \in 1..Len(s) + 1 : Filled(t[i])
  BY <1>1, <1>4 DEF AllFilled
<1> QED BY <1>1, <1>3, <1>5 DEF AllFilled, t

(* Inductive: what is accepted was read to its end.                        *)
AcceptInv == Accepted => At({"eof"}) /\ ~error

WellRead == ReadInv /\ LinkInv /\ AcceptInv

LEMMA AcceptOnly ==
  ASSUME stack' # <<>> \/ call' # "return" \/ ret' = Null
  PROVE  AcceptInv'
BY DEF AcceptInv, Accepted, Done

LEMMA LinkPop ==
  ASSUME StackInv, LinkInv, stack # <<>>, NEW node, Pops(node), node = Null => error'
  PROVE  LinkInv'
<1>1. AllFilled(Below)
  BY FilledBelow DEF StackInv, Good, LinkInv, Below
<1> QED BY <1>1 DEF LinkInv, Pops, Returns

LEMMA LinkStand ==
  ASSUME LinkInv, stack' = stack, call' = "return" /\ ret' = Null => error'
  PROVE  LinkInv'
BY DEF LinkInv

LEMMA LinkPush ==
  ASSUME StackInv, LinkInv, stack # <<>>, NEW f, IsFrame(f), Filled(f),
         stack' = Append(stack, f), call' # "return"
  PROVE  LinkInv'
<1>1. AllFilled(Append(stack, f))
  BY FilledAppend DEF StackInv, Good, LinkInv
<1> QED BY <1>1 DEF LinkInv

LEMMA BelowTop ==
  ASSUME StackInv, stack # <<>>, Top.fn # "policy", LinkInv
  PROVE  IsStack(Below) /\ Below # <<>> /\ AllFilled(Below)
<1>1. IsStack(Below)
  BY BelowStack DEF StackInv, Good, Below
<1>2. Below # <<>>
  BY PopGood DEF StackInv, Below, Top
<1>3. AllFilled(Below)
  BY FilledBelow DEF StackInv, Good, LinkInv, Below
<1> QED BY <1>1, <1>2, <1>3

LEMMA LinkSwap ==
  ASSUME StackInv, LinkInv, stack # <<>>, Top.fn # "policy", NEW f, IsFrame(f), Filled(f),
         stack' = Append(Below, f), call' = "return" => ret' # Null
  PROVE  LinkInv'
<1>1. AllFilled(Append(Below, f))
  BY BelowTop, FilledAppend
<1> QED BY <1>1 DEF LinkInv

LEMMA TopFilled ==
  ASSUME StackInv, LinkInv, stack # <<>>
  PROVE  IsFrame(Top) /\ Filled(Top)
<1>1. Len(stack) \in 1..Len(stack)
  BY BelowStack DEF StackInv, Good
<1> QED BY <1>1, TopFrame DEF LinkInv, AllFilled, Top

(* A production that is back with what it called for has it, unless it is  *)
(* nxe_cedar_parse_expr, which passes on what it got.                      *)
LEMMA BackGives ==
  ASSUME LinkInv, NEW f, Back(f), f # "expr"
  PROVE  stack # <<>> /\ Top.fn = f /\ ret # Null
BY DEF LinkInv, Back, Unwinds, ReadsFlag
(* What the productions build is not NULL.                                 *)
LEMMA TreesBuilt ==
  /\ \A v : Leaf(v) # Null /\ Ref(v) # Null /\ Long(v) # Null /\ Boolean(v) # Null
            /\ Atom(v) # Null /\ SetOf(v) # Null /\ PolicySet(v) # Null
  /\ \A x, y, z : Binary(x, y, z) # Null /\ Is(x, y, z) # Null /\ Method(x, y, z) # Null
                  /\ RecordOf(x, y) # Null
  /\ \A x, y, z : /\ [op |-> x, kids |-> y] # Null /\ [op |-> x, kids |-> y, name |-> z] # Null
                  /\ [op |-> x, kids |-> y, pattern |-> z] # Null
  /\ \A x, y, z, w : [op |-> x, kids |-> y, fn |-> z, text |-> w] # Null
  /\ \A p : "effect" \in DOMAIN p => p # Null
<1>1. "kids" \notin DOMAIN Null /\ "effect" \notin DOMAIN Null
  BY DEF Null
<1>2. \A n : "kids" \in DOMAIN n => n # Null
  BY <1>1
<1>3. \A v : "kids" \in DOMAIN Leaf(v) /\ "kids" \in DOMAIN Ref(v) /\ "kids" \in DOMAIN SetOf(v)
             /\ "kids" \in DOMAIN PolicySet(v)
  BY DEF Leaf, Ref, SetOf, PolicySet
<1>4. \A v : "kids" \in DOMAIN Long(v) /\ "kids" \in DOMAIN Boolean(v)
  BY <1>3 DEF Long, Boolean
<1>5. \A v : "kids" \in DOMAIN Atom(v)
  <2> TAKE v
  <2>1. CASE v.t \in {"true", "false"}
    BY <1>4, <2>1 DEF Atom
  <2>2. CASE v.t = "number"
    BY <1>4, <2>2 DEF Atom
  <2>3. CASE v.t = "string"
    BY <1>3, <2>3 DEF Atom
  <2>4. CASE v.t \notin {"true", "false", "number", "string"}
    BY <2>4 DEF Atom
  <2> QED BY <2>1, <2>2, <2>3, <2>4
<1>6. \A x, y, z : "kids" \in DOMAIN Binary(x, y, z)
  BY DEF Binary
<1>7. \A x, y, z : /\ "kids" \in DOMAIN Is(x, y, z) /\ "kids" \in DOMAIN Method(x, y, z)
                   /\ "kids" \in DOMAIN RecordOf(x, y)
  BY DEF Is, Method, RecordOf
<1>8. \A x, y, z, w :
         /\ "kids" \in DOMAIN [op |-> x, kids |-> y]
         /\ "kids" \in DOMAIN [op |-> x, kids |-> y, name |-> z]
         /\ "kids" \in DOMAIN [op |-> x, kids |-> y, pattern |-> z]
         /\ "kids" \in DOMAIN [op |-> x, kids |-> y, fn |-> z, text |-> w]
  OBVIOUS
<1> QED BY <1>1, <1>2, <1>3, <1>4, <1>5, <1>6, <1>7, <1>8, Zenon

LEMMA WellFails ==
  ASSUME StackInv, WellRead, text' = text, Refuses \/ (stack # <<>> /\ PopsNull)
  PROVE  WellRead'
<1>1. CASE Refuses
  <2>1. Fails /\ stack' = stack /\ call' = "return" /\ ret' = Null /\ error'
    BY <1>1 DEF Refuses, Returns, Fails
  <2> QED BY <2>1, FailsReads, LinkStand, AcceptOnly DEF WellRead
<1>2. CASE stack # <<>> /\ PopsNull
  <2>1. Fails /\ Pops(Null) /\ call' = "return" /\ ret' = Null /\ error'
    BY <1>2 DEF PopsNull, Pops, Returns, Fails
  <2> QED BY <1>2, <2>1, FailsReads, LinkPop, AcceptOnly DEF WellRead
<1> QED BY <1>1, <1>2

LEMMA WellPops ==
  ASSUME StackInv, WellRead, stack # <<>>, Top.fn # "policy", Goes,
         ~(call = "return" /\ ret = Null), NEW node, Pops(node), node # Null
  PROVE  WellRead'
<1>1. call' = "return" /\ stack' = Below
  BY DEF Pops, Returns
<1>2. stack' # <<>>
  BY <1>1, BelowTop DEF WellRead
<1> QED BY <1>1, <1>2, GoesReads, LinkPop, AcceptOnly DEF WellRead

LEMMA WellStands ==
  ASSUME WellRead, stack # <<>>, Goes, ~(call = "return" /\ ret = Null), stack' = stack,
         call' \notin {"set", "record"}, call' = "return" => ret' # Null
  PROVE  WellRead'
BY GoesReads, LinkStand, AcceptOnly DEF WellRead

LEMMA WellCalls ==
  ASSUME StackInv, WellRead, stack # <<>>, Goes, ~(call = "return" /\ ret = Null),
         NEW f \in Waiting, NEW note, NEW c, Calls(Push(f, note), c),
         c \notin {"set", "record", "return"}
  PROVE  WellRead'
<1> DEFINE g == Frame(f, note, <<>>)
<1>1. IsFrame(g) /\ g.acc = <<>>
  BY NewFrame DEF Frame
<1>2. Filled(g)
  BY <1>1, LinkedFew DEF Filled
<1>3. stack' = Append(stack, g) /\ call' = c
  BY DEF Calls, Push
<1> HIDE DEF g
<1> QED BY <1>1, <1>2, <1>3, GoesReads, LinkPush, AcceptOnly DEF WellRead

LEMMA WellSwap ==
  ASSUME StackInv, WellRead, stack # <<>>, Top.fn # "policy", Goes,
         ~(call = "return" /\ ret = Null), NEW f, IsFrame(f), Filled(f),
         stack' = Append(Below, f), call' \notin {"set", "record"},
         call' = "return" => ret' # Null
  PROVE  WellRead'
<1>1. stack' # <<>>
  <2>1. IsStack(Below)
    BY BelowTop DEF WellRead
  <2>2. Len(Append(Below, f)) # 0 /\ Len(<<>>) = 0
    BY <2>1, AppendStack
  <2> QED BY <2>2
<1> QED BY <1>1, GoesReads, LinkSwap, AcceptOnly DEF WellRead

LEMMA WellBuilding ==
  ASSUME StackInv, WellRead, stack # <<>>, Top.fn \in {"policy", "scope", "condition"}, Goes,
         ~(call = "return" /\ ret = Null), NEW p, "effect" \in DOMAIN p,
         NEW c, Calls(Building(p), c), c \notin {"set", "record", "return"}
  PROVE  WellRead'
<1>1. IsFrame(stack[1]) /\ stack[1].fn = "policy"
  BY PolicyAlone DEF StackInv, Top
<1> DEFINE f == [stack[1] EXCEPT !.acc = <<p>>]
<1>2. f.fn = "policy" /\ f.acc = <<p>>
  BY <1>1 DEF IsFrame
<1>3. Filled(f)
  BY <1>2, LinkedFew, TreesBuilt DEF Filled
<1>4. stack' = <<f>> /\ call' = c
  BY DEF Calls, Building
<1>5. f.acc[1] = p
  BY <1>2
<1> HIDE DEF f
<1>6. AllFilled(<<f>>)
  BY <1>3, <1>5 DEF AllFilled
<1> QED BY <1>4, <1>6, GoesReads, AcceptOnly DEF WellRead, LinkInv

(* What a frame has when one more operand is there.                        *)
LEMMA FillsTop ==
  ASSUME StackInv, LinkInv, stack # <<>>, NEW note, NEW acc, Linked(acc),
         Top.fn # "ite" \/ Len(acc) < 3
  PROVE  /\ LET g == [Top EXCEPT !.acc = acc] IN IsFrame(g) /\ Filled(g)
         /\ LET g == [Top EXCEPT !.note = note, !.acc = acc] IN IsFrame(g) /\ Filled(g)
         /\ LET g == [Top EXCEPT !.acc = acc, !.note = note] IN IsFrame(g) /\ Filled(g)
         /\ LET g == [Top EXCEPT !.note = note, !.acc = acc, !.n = @ + 1] IN
              IsFrame(g) /\ Filled(g)
BY TopFilled DEF IsFrame, Filled

(* Every step of the parser over an expression reads and links well.       *)
LEMMA ExprStepReads ==
  ASSUME StackInv, WellRead, ExprStep
  PROVE  WellRead'
<1>0. text \in Text /\ pos \in Nat /\ ReadInv /\ LinkInv
  BY DEF WellRead, ReadInv
<1>1. CASE ParseExpr
  <2>1. text' = text /\ stack # <<>> /\ ~(call = "return" /\ ret = Null)
    BY <1>1, Caller DEF ParseExpr, Keep
  <2>2. CASE At({"if"}) /\ Takes(1) /\ Calls(Push("ite", ""), "expr")
    <3>1. Goes
      BY <1>0, <2>1, <2>2, GoesFew DEF At, Fine
    <3> QED BY <2>1, <2>2, <3>1, WellCalls DEF Waiting, Counted
  <2>3. CASE Stays /\ Calls(Push("expr", ""), "or")
    <3>1. Goes
      BY <1>0, <2>1, <2>3, GoesFew
    <3> QED BY <2>1, <2>3, <3>1, WellCalls DEF Waiting, Counted
  <2> QED BY <1>1, <2>1, <2>2, <2>3, WellFails DEF ParseExpr
<1>2. CASE EndExpr
  <2>1. /\ text' = text /\ stack # <<>> /\ Stays /\ Pops(ret)
        /\ call = "return" /\ call' = "return" /\ ret' = ret
    BY <1>2 DEF EndExpr, Back, Keep, Pops, Returns
  <2>2. ReadInv'
    BY <1>0, <2>1, StaysReads
  <2>3. ret = Null => error'
    BY <1>0, <2>1 DEF LinkInv, Stays
  <2>4. stack' # <<>>
    BY <1>0, <1>2, <2>1, BelowTop DEF EndExpr, Back, Pops, Returns
  <2> QED BY <1>0, <2>1, <2>2, <2>3, <2>4, LinkPop, AcceptOnly DEF WellRead
<1>3. CASE EndIteOperand
  <2> DEFINE kids == Append(Top.acc, ret)
             word == <<"then", "else", "">>[Len(kids)]
             f == [Top EXCEPT !.acc = kids]
  <2>1. text' = text /\ stack # <<>> /\ Top.fn = "ite" /\ ret # Null
    BY <1>0, <1>3, BackGives DEF EndIteOperand, Keep
  <2>2. Filled(Top)
    BY <1>0, <2>1, TopFilled
  <2>3. Linked(kids) /\ Len(kids) \in {1, 2, 3}
    BY <2>1, <2>2, LinkedAppend DEF Filled
  <2>4. CASE Len(kids) = 3
    <3>1. Stays /\ Pops([op |-> "ite", kids |-> kids])
      BY <1>3, <2>4 DEF EndIteOperand
    <3>2. Goes
      BY <1>0, <2>1, <3>1, GoesFew
    <3>3. [op |-> "ite", kids |-> kids] # Null
      BY TreesBuilt
    <3> HIDE DEF kids
    <3> QED BY <2>1, <3>1, <3>2, <3>3, WellPops
  <2>5. CASE Len(kids) \in {1, 2}
    <3>1. word \in {"then", "else"} /\ Len(kids) # 3 /\ Len(kids) < 3
      <4> HIDE DEF kids
      <4>1. CASE Len(kids) = 1
        BY <4>1
      <4>2. CASE Len(kids) = 2
        BY <4>2
      <4> QED BY <2>5, <4>1, <4>2
    <3>2. CASE At({word}) /\ Takes(1) /\ Calls(Append(Below, f), "expr")
      <4>1. Goes
        <5> HIDE DEF word
        <5> QED BY <1>0, <2>1, <3>1, <3>2, GoesFew DEF At, Fine
      <4>2. IsFrame(f) /\ Filled(f)
        <5> HIDE DEF kids
        <5> QED BY <1>0, <2>1, <2>3, <3>1, FillsTop
      <4>3. stack' = Append(Below, f) /\ call' = "expr"
        BY <3>2 DEF Calls
      <4> HIDE DEF f
      <4> QED BY <2>1, <4>1, <4>2, <4>3, WellSwap
    <3>3. (At({word}) /\ Takes(1) /\ Calls(Append(Below, f), "expr")) \/ PopsNull
      BY <1>3, <3>1 DEF EndIteOperand
    <3> QED BY <2>1, <3>2, <3>3, WellFails
  <2> HIDE DEF kids
  <2> QED BY <2>3, <2>4, <2>5
<1>4. CASE ParseChain
  <2>1. text' = text /\ stack # <<>> /\ ~(call = "return" /\ ret = Null)
    BY <1>4, Caller DEF ParseChain, Keep, Chain
  <2>2. Goes
    BY <1>0, <1>4, <2>1, GoesFew DEF ParseChain
  <2>3. call \in Waiting /\ Operand[call] \in {"and", "relation", "mult", "unary"}
    <3>1. call \in {"or", "and", "add", "mult"}
      BY <1>4 DEF ParseChain, Chain
    <3>2. call \in Waiting
      BY <3>1 DEF Chain, Waiting
    <3> QED BY <3>1, <3>2 DEF Operand
  <2>4. Calls(Push(call, ""), Operand[call])
    BY <1>4 DEF ParseChain
  <2> QED BY <2>1, <2>2, <2>3, <2>4, WellCalls
<1>5. CASE EndChainOperand
  <2> DEFINE left == IF Top.note = "" THEN ret ELSE Binary(Top.note, Top.acc[1], ret)
             f == [Top EXCEPT !.note = Tok(pos).t, !.acc = <<left>>, !.n = @ + 1]
  <2>1. text' = text /\ stack # <<>> /\ Top.fn \in Chain /\ Top.fn # "policy" /\ ~(call = "return" /\ ret = Null)
    <3>1. text' = text /\ stack # <<>> /\ Top.fn \in Chain /\ Top.fn # "policy"
      BY <1>5 DEF EndChainOperand, Keep, Chain
    <3>2. Back(Top.fn) /\ Top.fn # "expr"
      BY <1>5 DEF EndChainOperand, Back, Chain
    <3> QED BY <1>0, <3>1, <3>2, BackGives
  <2>2. left # Null
    BY <1>5, <2>1, TreesBuilt DEF EndChainOperand
  <2> HIDE DEF left
  <2>3. CASE Stays /\ Pops(left)
    <3>1. Goes
      BY <1>0, <2>1, <2>3, GoesFew
    <3> QED BY <2>1, <2>2, <2>3, <3>1, WellPops
  <2>4. CASE /\ At(ChainOps[Top.fn]) /\ Takes(1)
             /\ Calls(Append(Below, f), Operand[Top.fn])
    <3>1. /\ ChainOps[Top.fn] \subseteq {"||", "&&", "+", "-", "*"}
          /\ Operand[Top.fn] \in {"and", "relation", "mult", "unary"}
          /\ Top.fn \notin {"policy", "ite"}
      BY <2>1 DEF ChainOps, Operand, Chain
    <3>2. Goes
      BY <1>0, <2>1, <2>4, <3>1, GoesFew DEF At, Fine
    <3>3. Linked(<<left>>)
      BY <2>2, LinkedFew
    <3>4. IsFrame(f) /\ Filled(f)
      BY <1>0, <2>1, <3>1, <3>3, FillsTop
    <3>5. stack' = Append(Below, f) /\ call' \in {"and", "relation", "mult", "unary"}
      BY <2>4, <3>1 DEF Calls
    <3> HIDE DEF f
    <3> QED BY <2>1, <3>1, <3>2, <3>4, <3>5, WellSwap
  <2>5. \/ Stays /\ Pops(left)
        \/ PopsNull
        \/ At(ChainOps[Top.fn]) /\ Takes(1) /\ Calls(Append(Below, f), Operand[Top.fn])
    BY <1>5 DEF EndChainOperand, left
  <2> QED BY <2>1, <2>3, <2>4, <2>5, WellFails
<1>6. CASE ParseRelation
  <2>1. text' = text /\ stack # <<>> /\ ~(call = "return" /\ ret = Null)
    BY <1>6, Caller DEF ParseRelation, Keep
  <2>2. Goes
    BY <1>0, <1>6, <2>1, GoesFew DEF ParseRelation
  <2>3. Calls(Push("relation", ""), "add")
    BY <1>6 DEF ParseRelation
  <2> QED BY <2>1, <2>2, <2>3, WellCalls DEF Waiting
<1>7. CASE EndRelationLeft
  <2>1. text' = text /\ stack # <<>> /\ Top.fn = "relation" /\ ret # Null
    BY <1>0, <1>7, BackGives DEF EndRelationLeft, Keep
  <2>2. ASSUME NEW k, NEW op, NEW v, AwaitsRight(k, op, v), Goes
        PROVE  WellRead'
    <3> DEFINE f == [Top EXCEPT !.note = <<op, v>>, !.acc = <<ret>>]
    <3>1. IsFrame(f) /\ Filled(f)
      <4>1. Linked(<<ret>>)
        BY <2>1, LinkedFew
      <4> QED BY <1>0, <2>1, <4>1, FillsTop
    <3>2. stack' = Append(Below, f) /\ call' = "add"
      BY <2>2 DEF AwaitsRight, Calls
    <3> HIDE DEF f
    <3> QED BY <2>1, <2>2, <3>1, <3>2, WellSwap
  <2>3. CASE /\ At({"has"}) /\ Tok(pos + 1).t \in AttrName /\ Takes(2)
             /\ Pops([op |-> "has", kids |-> <<ret>>, name |-> Tok(pos + 1).v])
    <3>1. Goes
      BY <1>0, <2>1, <2>3, GoesFew DEF At, Fine, AttrName, Ident, Extension
    <3> QED BY <2>1, <2>3, <3>1, TreesBuilt, WellPops
  <2>4. CASE /\ At({"like"}) /\ Tok(pos + 1).t \in {"string", "pattern"} /\ Takes(2)
             /\ Pops([op |-> "like", kids |-> <<ret>>, pattern |-> Tok(pos + 1).v])
    <3>1. Goes
      BY <1>0, <2>1, <2>4, GoesFew DEF At, Fine
    <3> QED BY <2>1, <2>4, <3>1, TreesBuilt, WellPops
  <2> DEFINE e == TypeEnd(pos + 1)
  <2>5. CASE At({"is"}) /\ IsTypeName(pos + 1)
    <3>1. e \in Nat /\ e > pos + 1 /\ FineTo(pos + 1, e)
      <4>1. text \in Text /\ pos + 1 \in Nat
        BY <1>0
      <4>2. IsType(pos + 1)
        BY <2>5 DEF IsTypeName
      <4> QED BY <4>1, <4>2, TypeReads
    <3>2. FineTo(pos, pos + 1)
      BY <1>0, <2>5 DEF FineTo, Fine, At
    <3> HIDE DEF e
    <3>3. FineTo(pos, e)
      BY <1>0, <3>1, <3>2, FineJoin
    <3>4. CASE Takes(e - pos) /\ Pops(Is(ret, TypeAt(pos + 1), <<>>))
      <4>1. e - pos \in Nat \ {0} /\ pos + (e - pos) = e
        BY <1>0, <3>1
      <4>2. Goes
        BY <2>1, <3>3, <3>4, <4>1 DEF Goes, Passes
      <4> QED BY <2>1, <3>4, <4>2, TreesBuilt, WellPops
    <3>5. CASE Tok(e).t = "in" /\ AwaitsRight(e + 1 - pos, "is", TypeAt(pos + 1))
      <4>1. e + 1 - pos \in Nat \ {0} /\ pos + (e + 1 - pos) = e + 1
        BY <1>0, <3>1
      <4>2. FineTo(e, e + 1)
        BY <3>1, <3>5 DEF FineTo, Fine
      <4>3. FineTo(pos, e + 1)
        BY <1>0, <3>1, <3>3, <4>2, FineJoin
      <4>4. Goes
        BY <2>1, <3>5, <4>1, <4>3 DEF Goes, Passes, AwaitsRight
      <4> QED BY <2>2, <3>5, <4>4
    <3>6. ~At({"has"}) /\ ~At({"like"}) /\ ~At(Relop) /\ At(Relop \cup {"has", "like", "is"})
      BY <2>5 DEF At, Relop
    <3> QED BY <1>7, <2>5, <3>4, <3>5, <3>6 DEF EndRelationLeft, e
  <2>6. CASE At(Relop) /\ AwaitsRight(1, Tok(pos).t, "")
    <3>1. Goes
      BY <1>0, <2>1, <2>6, GoesFew DEF At, Fine, Relop, AwaitsRight
    <3> QED BY <2>2, <2>6, <3>1
  <2>7. CASE Stays /\ Pops(ret)
    <3>1. Goes
      BY <1>0, <2>1, <2>7, GoesFew
    <3> QED BY <2>1, <2>7, <3>1, WellPops
  <2> QED BY <1>7, <2>1, <2>3, <2>4, <2>5, <2>6, <2>7, WellFails DEF EndRelationLeft
<1>8. CASE EndRelationRight
  <2>1. text' = text /\ stack # <<>> /\ Top.fn = "relation" /\ ret # Null
    BY <1>0, <1>8, BackGives DEF EndRelationRight, Keep
  <2>2. Goes
    BY <1>0, <1>8, <2>1, GoesFew DEF EndRelationRight
  <2>3. \E node : Pops(node) /\ node # Null
    BY <1>8, TreesBuilt DEF EndRelationRight
  <2> QED BY <2>1, <2>2, <2>3, WellPops
<1>9. CASE ParseUnary
  <2>1. text' = text /\ stack # <<>> /\ ~(call = "return" /\ ret = Null)
    BY <1>9, Caller DEF ParseUnary, Keep
  <2>2. CASE Ahead(pos, <<"-", "number">>) /\ Takes(2) /\ Returns(stack, Long(-Tok(pos + 1).v))
    <3>1. Fine(pos) /\ Fine(pos + 1)
      <4>1. pos + 1 - 1 = pos /\ pos + 2 - 1 = pos + 1
        BY <1>0
      <4> QED BY <2>2, <4>1 DEF Ahead, Fine
    <3>2. Goes
      BY <1>0, <2>1, <2>2, <3>1, GoesFew
    <3>3. stack' = stack /\ call' = "return" /\ ret' # Null
      BY <2>2, TreesBuilt DEF Returns
    <3> QED BY <2>1, <3>2, <3>3, WellStands
  <2>3. CASE At({"-", "!"}) /\ Takes(1) /\ Calls(Push("unary", Tok(pos).t), "unary")
    <3>1. Goes
      BY <1>0, <2>1, <2>3, GoesFew DEF At, Fine
    <3> QED BY <2>1, <2>3, <3>1, WellCalls DEF Waiting, Counted
  <2>4. CASE Stays /\ Calls(Push("member", ""), "primary")
    <3>1. Goes
      BY <1>0, <2>1, <2>4, GoesFew
    <3> QED BY <2>1, <2>4, <3>1, WellCalls DEF Waiting
  <2> QED BY <1>9, <2>1, <2>2, <2>3, <2>4, WellFails DEF ParseUnary
<1>10. CASE EndUnary
  <2>1. text' = text /\ stack # <<>> /\ Top.fn = "unary" /\ ret # Null
    BY <1>0, <1>10, BackGives DEF EndUnary, Keep
  <2>2. Goes
    BY <1>0, <1>10, <2>1, GoesFew DEF EndUnary
  <2>3. \E op, kids : Pops([op |-> op, kids |-> kids])
    BY <1>10 DEF EndUnary
  <2> QED BY <2>1, <2>2, <2>3, TreesBuilt, WellPops
<1>11. CASE MemberStep
  <2> DEFINE name == Tok(pos + 1)
             object == ret
             g == [Top EXCEPT !.n = @ + 1]
             method == Frame("method", name.v, <<object>>)
  <2>1. text' = text /\ stack # <<>> /\ Top.fn = "member" /\ ret # Null
    BY <1>0, <1>11, BackGives DEF MemberStep, Keep
  <2>2. IsFrame(g) /\ Filled(g)
    <3>1. IsFrame(Top) /\ Filled(Top)
      BY <1>0, <2>1, TopFilled
    <3> QED BY <3>1 DEF IsFrame, Filled
  <2> HIDE DEF g
  <2>3. ASSUME Goes, NEW node, Returns(Append(Below, g), node), node # Null
        PROVE  WellRead'
    <3>1. stack' = Append(Below, g) /\ call' = "return" /\ ret' # Null
      BY <2>3 DEF Returns
    <3> QED BY <2>1, <2>2, <2>3, <3>1, WellSwap
  <2>4. CASE ~At({".", "["}) /\ Stays /\ Pops(object)
    <3>1. Goes
      BY <1>0, <2>1, <2>4, GoesFew
    <3> QED BY <2>1, <2>4, <3>1, WellPops
  <2>5. CASE PopsNull
    BY <2>1, <2>5, WellFails
  <2>6. CASE Ahead(pos, <<"[", "string", "]">>) /\ Takes(3) /\ \E n : Returns(Append(Below, g), n) /\ n # Null
    <3>1. Fine(pos) /\ Fine(pos + 1) /\ Fine(pos + 2)
      <4>1. pos + 1 - 1 = pos /\ pos + 2 - 1 = pos + 1 /\ pos + 3 - 1 = pos + 2
        BY <1>0
      <4> QED BY <2>6, <4>1 DEF Ahead, Fine
    <3>2. Goes
      BY <1>0, <2>1, <2>6, <3>1, GoesFew
    <3> QED BY <2>3, <2>6, <3>2
  <2>7. ASSUME At({"."}), name.t \in Ident
        PROVE  Fine(pos) /\ Fine(pos + 1)
    BY <2>7 DEF At, Fine, Ident, Extension
  <2>8. CASE /\ At({"."}) /\ name.t \in Ident /\ Takes(2)
             /\ \E n : Returns(Append(Below, g), n) /\ n # Null
    <3>1. Goes
      BY <1>0, <2>1, <2>7, <2>8, GoesFew
    <3> QED BY <2>3, <2>8, <3>1
  <2>9. CASE /\ At({"."}) /\ name.t \in Ident /\ Ahead(pos + 2, <<"(", ")">>) /\ Takes(4)
             /\ \E n : Returns(Append(Below, g), n) /\ n # Null
    <3>1. Fine(pos + 2) /\ Fine(pos + 3)
      <4>1. pos + 2 + 1 - 1 = pos + 2 /\ pos + 2 + 2 - 1 = pos + 3
        BY <1>0
      <4> QED BY <2>9, <4>1 DEF Ahead, Fine
    <3>2. Goes
      BY <1>0, <2>1, <2>7, <2>9, <3>1, GoesFew
    <3> QED BY <2>3, <2>9, <3>2
  <2>10. CASE /\ At({"."}) /\ name.t \in Ident /\ Tok(pos + 2).t = "(" /\ Takes(3)
              /\ Calls(Append(Append(Below, g), method), "expr")
    <3>1. Goes
      BY <1>0, <2>1, <2>7, <2>10, GoesFew DEF Fine
    <3>2. IsFrame(method) /\ Filled(method)
      <4>1. IsFrame(method) /\ method.fn = "method" /\ method.acc = <<ret>>
        BY NewFrame DEF Waiting, Frame
      <4> HIDE DEF method
      <4> QED BY <2>1, <4>1, LinkedFew DEF Filled
    <3>3. IsStack(Append(Below, g)) /\ AllFilled(Append(Below, g)) /\ Append(Below, g) # <<>>
      <4>1. IsStack(Below) /\ Below # <<>> /\ AllFilled(Below)
        BY <1>0, <2>1, BelowTop
      <4>2. IsStack(Append(Below, g)) /\ Len(Append(Below, g)) # 0
        <5>1. IsStack(Append(Below, g)) /\ Len(Append(Below, g)) = Len(Below) + 1
              /\ Len(Below) \in Nat
          BY <2>2, <4>1, AppendStack
        <5> QED BY <5>1
      <4>3. AllFilled(Append(Below, g))
        BY <2>2, <4>1, FilledAppend
      <4>4. Len(<<>>) = 0
        OBVIOUS
      <4> QED BY <4>2, <4>3, <4>4, Zenon
    <3>4. stack' = Append(Append(Below, g), method) /\ call' = "expr"
      BY <2>10 DEF Calls
    <3> HIDE DEF method
    <3>5. AllFilled(stack')
      BY <3>2, <3>3, <3>4, FilledAppend
    <3>6. LinkInv'
      BY <3>4, <3>5 DEF LinkInv
    <3>7. ReadInv'
      BY <1>0, <2>1, <3>1, <3>4, GoesReads
    <3> QED BY <3>4, <3>6, <3>7, AcceptOnly DEF WellRead
  <2>11. \/ ~At({".", "["}) /\ Stays /\ Pops(object)
         \/ PopsNull
         \/ Ahead(pos, <<"[", "string", "]">>) /\ Access(3, object, name.v)
         \/ At({"."}) /\ name.t \in Ident /\ Access(2, object, name.v)
         \/ /\ At({"."}) /\ name.t \in Ident /\ Ahead(pos + 2, <<"(", ")">>)
            /\ Takes(4) /\ Returns(Append(Below, g), Method(object, name.v, <<>>))
         \/ /\ At({"."}) /\ name.t \in Ident /\ Tok(pos + 2).t = "("
            /\ Takes(3) /\ Calls(Append(Append(Below, g), method), "expr")
    BY <1>11 DEF MemberStep, g
  <2>12. ASSUME NEW k, Access(k, object, name.v)
         PROVE  Takes(k) /\ \E n : Returns(Append(Below, g), n) /\ n # Null
    BY <2>12, TreesBuilt DEF Access, g
  <2>13. Method(object, name.v, <<>>) # Null
    BY TreesBuilt
  <2> HIDE DEF name, object, method
  <2> QED BY <2>4, <2>5, <2>6, <2>8, <2>9, <2>10, <2>11, <2>12, <2>13
<1>12. CASE EndMethod
  <2>1. text' = text /\ stack # <<>> /\ Top.fn = "method" /\ ret # Null
    BY <1>0, <1>12, BackGives DEF EndMethod, Keep
  <2>2. CASE At({")"}) /\ Takes(1) /\ Pops(Method(Top.acc[1], Top.note, <<ret>>))
    <3>1. Goes
      BY <1>0, <2>1, <2>2, GoesFew DEF At, Fine
    <3> QED BY <2>1, <2>2, <3>1, TreesBuilt, WellPops
  <2> QED BY <1>12, <2>1, <2>2, WellFails DEF EndMethod
<1>13. CASE ParsePrimary
  <2>1. text' = text /\ stack # <<>> /\ ~(call = "return" /\ ret = Null)
    BY <1>13, Caller DEF ParsePrimary, Keep
  <2>2. ASSUME Goes, NEW node, Returns(stack, node), node # Null
        PROVE  WellRead'
    <3>1. stack' = stack /\ call' = "return" /\ ret' # Null
      BY <2>2 DEF Returns
    <3> QED BY <2>1, <2>2, <3>1, WellStands
  <2>3. CASE At(Atoms) /\ Takes(1) /\ Returns(stack, Atom(Tok(pos)))
    <3>1. Goes
      BY <1>0, <2>1, <2>3, GoesFew DEF At, Fine, Atoms
    <3> QED BY <2>2, <2>3, <3>1, TreesBuilt
  <2>4. CASE /\ At(Extension) /\ Ahead(pos + 1, <<"(", "string", ")">>) /\ Takes(4)
             /\ Returns(stack, [op |-> "ext", kids |-> <<>>, fn |-> Tok(pos).t,
                                text |-> Tok(pos + 2).v])
    <3>1. Fine(pos)
      BY <2>4 DEF At, Fine, Extension
    <3>2. Fine(pos + 1) /\ Fine(pos + 2) /\ Fine(pos + 3)
      <4>1. pos + 1 + 1 - 1 = pos + 1 /\ pos + 1 + 2 - 1 = pos + 2 /\ pos + 1 + 3 - 1 = pos + 3
        BY <1>0
      <4> QED BY <2>4, <4>1 DEF Ahead, Fine
    <3>3. Goes
      BY <1>0, <2>1, <2>4, <3>1, <3>2, GoesFew
    <3> QED BY <2>2, <2>4, <3>3, TreesBuilt
  <2>5. CASE /\ IsEntityRef(pos) /\ Takes(EntityRefEnd(pos) - pos)
             /\ Returns(stack, Ref(UidAt(pos)))
    <3>1. LET e == EntityRefEnd(pos) IN e \in Nat /\ e > pos /\ FineTo(pos, e)
      BY <1>0, <2>5, EntityRefReads
    <3>2. LET e == EntityRefEnd(pos) IN e - pos \in Nat \ {0} /\ pos + (e - pos) = e
      BY <1>0, <3>1
    <3>3. Goes
      BY <2>1, <2>5, <3>1, <3>2 DEF Goes, Passes
    <3> QED BY <2>2, <2>5, <3>3, TreesBuilt
  <2>6. CASE At({"("}) /\ Takes(1) /\ Calls(Push("paren", ""), "expr")
    <3>1. Goes
      BY <1>0, <2>1, <2>6, GoesFew DEF At, Fine
    <3> QED BY <2>1, <2>6, <3>1, WellCalls DEF Waiting
  <2>7. CASE /\ Stays
             /\ \/ At({"["}) /\ Calls(stack, "set")
                \/ At({"{"}) /\ Calls(stack, "record")
    <3>1. ReadInv'
      BY <1>0, <2>1, <2>7, StaysReads DEF Calls
    <3>2. LinkInv'
      BY <1>0, <2>7, LinkStand DEF Calls
    <3>3. AcceptInv'
      BY <2>7, AcceptOnly DEF Calls
    <3> QED BY <3>1, <3>2, <3>3 DEF WellRead
  <2> QED BY <1>13, <2>1, <2>3, <2>4, <2>5, <2>6, <2>7, WellFails DEF ParsePrimary
<1>14. CASE EndParen
  <2>1. text' = text /\ stack # <<>> /\ Top.fn = "paren" /\ ret # Null
    BY <1>0, <1>14, BackGives DEF EndParen, Keep
  <2>2. CASE At({")"}) /\ Takes(1) /\ Pops(ret)
    <3>1. Goes
      BY <1>0, <2>1, <2>2, GoesFew DEF At, Fine
    <3> QED BY <2>1, <2>2, <3>1, WellPops
  <2> QED BY <1>14, <2>1, <2>2, WellFails DEF EndParen
<1>15. CASE ParseSet
  <2>1. text' = text /\ stack # <<>> /\ ~(call = "return" /\ ret = Null)
    BY <1>15, Caller DEF ParseSet, Keep
  <2>2. Fine(pos)
    BY <1>0, <1>15 DEF ReadInv, ParseSet, At, Fine
  <2>3. CASE Tok(pos + 1).t = "]" /\ Takes(2) /\ Returns(stack, SetOf(<<>>))
    <3>1. Goes
      BY <1>0, <2>1, <2>2, <2>3, GoesFew DEF Fine
    <3>2. stack' = stack /\ call' = "return" /\ ret' # Null
      BY <2>3, TreesBuilt DEF Returns
    <3> QED BY <2>1, <3>1, <3>2, WellStands
  <2>4. CASE Takes(1) /\ Calls(Push("set", ""), "expr")
    <3>1. Goes
      BY <1>0, <2>1, <2>2, <2>4, GoesFew
    <3> QED BY <2>1, <2>4, <3>1, WellCalls DEF Waiting
  <2> QED BY <1>15, <2>3, <2>4 DEF ParseSet
<1>16. CASE EndElement
  <2> DEFINE elts == Append(Top.acc, ret)
             f == [Top EXCEPT !.acc = elts]
  <2>1. text' = text /\ stack # <<>> /\ Top.fn = "set" /\ ret # Null
    BY <1>0, <1>16, BackGives DEF EndElement, Keep
  <2>2. Linked(elts)
    <3>1. Linked(Top.acc)
      BY <1>0, <2>1, TopFilled DEF Filled
    <3> QED BY <2>1, <3>1, LinkedAppend
  <2>3. CASE At({","}) /\ Takes(1) /\ Calls(Append(Below, f), "expr")
    <3>1. Goes
      BY <1>0, <2>1, <2>3, GoesFew DEF At, Fine
    <3>2. IsFrame(f) /\ Filled(f)
      <4> HIDE DEF elts
      <4> QED BY <1>0, <2>1, <2>2, FillsTop
    <3>3. stack' = Append(Below, f) /\ call' = "expr"
      BY <2>3 DEF Calls
    <3> HIDE DEF f
    <3> QED BY <2>1, <3>1, <3>2, <3>3, WellSwap
  <2>4. CASE At({"]"}) /\ Takes(1) /\ Pops(SetOf(elts))
    <3>1. Goes
      BY <1>0, <2>1, <2>4, GoesFew DEF At, Fine
    <3> HIDE DEF elts
    <3> QED BY <2>1, <2>4, <3>1, TreesBuilt, WellPops
  <2> QED BY <1>16, <2>1, <2>3, <2>4, WellFails DEF EndElement
<1>17. CASE ParseRecord
  <2>1. text' = text /\ stack # <<>> /\ ~(call = "return" /\ ret = Null)
    BY <1>17, Caller DEF ParseRecord, Keep
  <2>2. Fine(pos)
    BY <1>0, <1>17 DEF ReadInv, ParseRecord, At, Fine
  <2>3. CASE Tok(pos + 1).t = "}" /\ Takes(2) /\ Returns(stack, RecordOf(<<>>, <<>>))
    <3>1. Goes
      BY <1>0, <2>1, <2>2, <2>3, GoesFew DEF Fine
    <3>2. stack' = stack /\ call' = "return" /\ ret' # Null
      BY <2>3, TreesBuilt DEF Returns
    <3> QED BY <2>1, <3>1, <3>2, WellStands
  <2>4. CASE /\ EntryAt(pos + 1, <<>>) /\ Takes(3)
             /\ Calls(Push("record", <<Tok(pos + 1).v>>), "expr")
    <3>1. Fine(pos + 1) /\ Fine(pos + 2)
      <4>1. pos + 1 + 1 = pos + 2
        BY <1>0
      <4> QED BY <2>4, <4>1 DEF EntryAt, Fine, AttrName, Ident, Extension
    <3>2. Goes
      BY <1>0, <2>1, <2>2, <2>4, <3>1, GoesFew
    <3>3. "record" \in Waiting
      BY DEF Waiting
    <3>4. Calls(Push("record", <<Tok(pos + 1).v>>), "expr")
      BY <2>4
    <3> QED BY <2>1, <3>2, <3>3, <3>4, WellCalls
  <2>5. \/ Refuses
        \/ Tok(pos + 1).t = "}" /\ Takes(2) /\ Returns(stack, RecordOf(<<>>, <<>>))
        \/ /\ EntryAt(pos + 1, <<>>) /\ Takes(3)
           /\ Calls(Push("record", <<Tok(pos + 1).v>>), "expr")
    BY <1>17 DEF ParseRecord
  <2>6. CASE Refuses
    BY <2>1, <2>6, WellFails
  <2> QED BY <2>3, <2>4, <2>5, <2>6, Zenon
<1>18. CASE EndEntry
  <2> DEFINE vals == Append(Top.acc, ret)
             keys == Append(Top.note, Tok(pos + 1).v)
             f == [Top EXCEPT !.acc = vals, !.note = keys]
  <2>1. text' = text /\ stack # <<>> /\ Top.fn = "record" /\ ret # Null
    BY <1>0, <1>18, BackGives DEF EndEntry, Keep
  <2>2. Linked(vals)
    <3>1. Linked(Top.acc)
      BY <1>0, <2>1, TopFilled DEF Filled
    <3> QED BY <2>1, <3>1, LinkedAppend
  <2>3. CASE At({"}"}) /\ Takes(1) /\ Pops(RecordOf(Top.note, vals))
    <3>1. Goes
      BY <1>0, <2>1, <2>3, GoesFew DEF At, Fine
    <3> HIDE DEF vals
    <3> QED BY <2>1, <2>3, <3>1, TreesBuilt, WellPops
  <2>4. CASE Ahead(pos, <<",", "}">>) /\ Takes(2) /\ Pops(RecordOf(Top.note, vals))
    <3>1. Fine(pos) /\ Fine(pos + 1)
      <4>1. 1 \in DOMAIN <<",", "}">> /\ 2 \in DOMAIN <<",", "}">>
        OBVIOUS
      <4>2. Tok(pos + 1 - 1).t = "," /\ Tok(pos + 2 - 1).t = "}"
        BY <2>4, <4>1 DEF Ahead
      <4>3. pos + 1 - 1 = pos /\ pos + 2 - 1 = pos + 1
        BY <1>0
      <4> QED BY <4>2, <4>3 DEF Fine
    <3>2. Goes
      BY <1>0, <2>1, <2>4, <3>1, GoesFew
    <3> HIDE DEF vals
    <3> QED BY <2>1, <2>4, <3>2, TreesBuilt, WellPops
  <2>5. CASE /\ At({","}) /\ EntryAt(pos + 1, Top.note) /\ Takes(3)
             /\ Calls(Append(Below, f), "expr")
    <3>1. Fine(pos) /\ Fine(pos + 1) /\ Fine(pos + 2)
      <4>1. pos + 1 + 1 = pos + 2
        BY <1>0
      <4> QED BY <2>5, <4>1 DEF At, EntryAt, Fine, AttrName, Ident, Extension
    <3>2. Goes
      BY <1>0, <2>1, <2>5, <3>1, GoesFew
    <3>3. IsFrame(f) /\ Filled(f)
      <4> HIDE DEF vals, keys
      <4> QED BY <1>0, <2>1, <2>2, FillsTop
    <3>4. stack' = Append(Below, f) /\ call' = "expr"
      BY <2>5 DEF Calls
    <3> HIDE DEF f
    <3> QED BY <2>1, <3>2, <3>3, <3>4, WellSwap
  <2>6. \/ At({"}"}) /\ Takes(1) /\ Pops(RecordOf(Top.note, vals))
        \/ Ahead(pos, <<",", "}">>) /\ Takes(2) /\ Pops(RecordOf(Top.note, vals))
        \/ /\ At({","}) /\ EntryAt(pos + 1, Top.note) /\ Takes(3)
           /\ Calls(Append(Below, f), "expr")
        \/ PopsNull
    <3>1. f = [Top EXCEPT !.acc = vals, !.note = Append(@, Tok(pos + 1).v)]
      <4>1. IsFrame(Top)
        BY <2>1, TopFrame
      <4> HIDE DEF vals
      <4> QED BY <4>1 DEF IsFrame
    <3> HIDE DEF f
    <3> QED BY <1>18, <3>1 DEF EndEntry
  <2> HIDE DEF f, vals
  <2> QED BY <2>1, <2>3, <2>4, <2>5, <2>6, WellFails
<1> QED BY <1>1, <1>2, <1>3, <1>4, <1>5, <1>6, <1>7, <1>8, <1>9, <1>10, <1>11, <1>12,
           <1>13, <1>14, <1>15, <1>16, <1>17, <1>18 DEF ExprStep

(* Nothing is left of a policy when it is added to the set, but its tree.  *)
LEMMA PolicyBuilt ==
  ASSUME StackInv, LinkInv, stack # <<>>
  PROVE  "effect" \in DOMAIN Policy
BY DEF LinkInv, AllFilled, Policy

(* So does every step over the rest of a policy.                           *)
LEMMA PolicyStepReads ==
  ASSUME StackInv, WellRead, PolicyStep
  PROVE  WellRead'
<1>0. text \in Text /\ pos \in Nat /\ ReadInv /\ LinkInv
  BY DEF WellRead, ReadInv
<1>1. CASE ParsePolicies
  <2>1. text' = text /\ Stays /\ call # "return"
    BY <1>1 DEF ParsePolicies, Keep
  <2>2. Goes
    BY <1>0, <2>1, GoesFew
  <2>3. CASE Calls(<<Frame("policy", "", <<NewPolicy>>)>>, "annotations")
    <3> DEFINE f == Frame("policy", "", <<NewPolicy>>)
    <3>1. "effect" \in DOMAIN NewPolicy
      BY DEF NewPolicy
    <3>2. f.fn = "policy" /\ f.acc = <<NewPolicy>> /\ f.acc[1] = NewPolicy
      BY DEF Frame
    <3>3. Filled(f)
      BY <3>1, <3>2, LinkedFew, TreesBuilt DEF Filled
    <3>4. stack' = <<f>> /\ call' = "annotations"
      BY <2>3 DEF Calls
    <3> HIDE DEF f
    <3>5. AllFilled(<<f>>)
      BY <3>1, <3>2, <3>3 DEF AllFilled
    <3> QED BY <1>0, <2>1, <2>2, <3>4, <3>5, GoesReads, AcceptOnly DEF WellRead, LinkInv
  <2>4. CASE Returns(<<>>, IF At({"eof"}) THEN PolicySet(policies) ELSE Null)
    <3>1. AllFilled(<<>>)
      BY DEF AllFilled
    <3>2. LinkInv'
      BY <2>4, <3>1 DEF LinkInv, Returns
    <3>3. ReadInv'
      BY <1>0, <2>1, <2>2, <2>4, GoesReads DEF Returns
    <3>4. CASE At({"eof"})
      <4>1. ~error
        BY <1>0, <2>1, <3>4 DEF ReadInv, At
      <4> QED BY <2>1, <3>2, <3>3, <3>4, <4>1
              DEF WellRead, AcceptInv, Stays, At, Tok, Eof
    <3>5. CASE ~At({"eof"})
      <4>1. ret' = Null
        BY <2>4, <3>5 DEF Returns
      <4> QED BY <3>2, <3>3, <4>1, AcceptOnly DEF WellRead
    <3> QED BY <3>4, <3>5
  <2> QED BY <1>1, <2>3, <2>4 DEF ParsePolicies
<1>2. CASE ParseAnnotation
  <2> DEFINE valued == Tok(pos + 2).t = "("
             a == [key |-> Tok(pos + 1).v, value |-> IF valued THEN Tok(pos + 3).v ELSE ""]
             p == [Policy EXCEPT !.annotations = Append(@, a)]
  <2>1. /\ text' = text /\ stack # <<>> /\ Top.fn = "policy"
        /\ ~(call = "return" /\ ret = Null)
    BY <1>2, Caller DEF ParseAnnotation, Keep, Enters
  <2>2. CASE Fails /\ Level /\ Returns(stack, Null)
    BY <2>1, <2>2, WellFails DEF Refuses
  <2>3. CASE /\ Annotated(pos) /\ Takes(IF valued THEN 5 ELSE 2)
             /\ Calls(Building(p), "annotations")
    <3>1. Fine(pos) /\ Fine(pos + 1)
      BY <1>2, <2>3 DEF ParseAnnotation, At, Annotated, Fine, Ident, Extension
    <3>2. ASSUME valued
          PROVE  Goes
      <4>1. Fine(pos + 2) /\ Fine(pos + 3) /\ Fine(pos + 4)
        <5>1. pos + 3 + 1 - 1 = pos + 3 /\ pos + 3 + 2 - 1 = pos + 4
          BY <1>0
        <5> QED BY <2>3, <3>2, <5>1 DEF Annotated, Ahead, Fine
      <4>2. Takes(5)
        BY <2>3, <3>2
      <4> QED BY <1>0, <2>1, <3>1, <4>1, <4>2, GoesFew
    <3>3. Goes
      <4>1. ~valued => Takes(2)
        BY <2>3
      <4> HIDE DEF valued
      <4> QED BY <1>0, <2>1, <3>1, <3>2, <4>1, GoesFew
    <3>4. "effect" \in DOMAIN p
      <4>1. "effect" \in DOMAIN Policy
        BY <1>0, <2>1, PolicyBuilt
      <4> HIDE DEF a
      <4> QED BY <4>1
    <3>5. Calls(Building(p), "annotations")
      BY <2>3
    <3> HIDE DEF p
    <3> QED BY <2>1, <3>3, <3>4, <3>5, WellBuilding
  <2>4. \/ Fails /\ Level /\ Returns(stack, Null)
        \/ /\ Annotated(pos) /\ Takes(IF valued THEN 5 ELSE 2)
           /\ Calls(Building(p), "annotations")
    BY <1>2 DEF ParseAnnotation
  <2> HIDE DEF valued, p
  <2> QED BY <2>2, <2>3, <2>4
<1>3. CASE ParseEffect
  <2> DEFINE p == [Policy EXCEPT !.effect = Tok(pos).t]
  <2>1. /\ text' = text /\ stack # <<>> /\ Top.fn = "policy"
        /\ ~(call = "return" /\ ret = Null)
    BY <1>3, Caller DEF ParseEffect, Keep, Enters
  <2>2. CASE /\ At({"permit", "forbid"}) /\ Tok(pos + 1).t = "(" /\ Takes(2)
             /\ Calls(Building(p), "principal")
    <3>1. Goes
      BY <1>0, <2>1, <2>2, GoesFew DEF At, Fine
    <3>2. "effect" \in DOMAIN p
      <4>1. "effect" \in DOMAIN Policy
        BY <1>0, <2>1, PolicyBuilt
      <4> QED BY <4>1
    <3>3. Calls(Building(p), "principal")
      BY <2>2
    <3> HIDE DEF p
    <3> QED BY <2>1, <3>1, <3>2, <3>3, WellBuilding
  <2> QED BY <1>3, <2>1, <2>2, WellFails DEF ParseEffect
<1>4. CASE ParseScope
  <2>1. /\ text' = text /\ stack # <<>> /\ Top.fn = "policy" /\ call \in ScopeVar
        /\ ~(call = "return" /\ ret = Null)
    BY <1>4, Caller DEF ParseScope, Keep, Enters, ScopeVar
  <2>2. CASE /\ At({call}) /\ Ahead(pos + 1, <<"in", "[">>) /\ Takes(2)
             /\ Calls(Push("scope", ""), "set")
    <3> DEFINE g == Frame("scope", "", <<>>)
    <3>1. Tok(pos + 1).t = "in" /\ Tok(pos + 2).t = "[" /\ Fine(pos)
      <4>1. pos + 1 + 1 - 1 = pos + 1 /\ pos + 1 + 2 - 1 = pos + 2
        BY <1>0
      <4>2. 1 \in DOMAIN <<"in", "[">> /\ 2 \in DOMAIN <<"in", "[">>
        OBVIOUS
      <4>3. Tok(pos + 1 + 1 - 1).t = "in" /\ Tok(pos + 1 + 2 - 1).t = "["
        BY <2>2, <4>2 DEF Ahead
      <4>4. Fine(pos)
        BY <2>1, <2>2 DEF At, Fine, ScopeVar
      <4> QED BY <4>1, <4>3, <4>4
    <3>2. FineTo(pos, pos + 2)
      <4>1. \A i \in pos..(pos + 2) - 1 : i = pos \/ i = pos + 1
        BY <1>0
      <4> QED BY <3>1, <4>1 DEF FineTo, Fine
    <3>3. Passes(2)
      <4>1. Takes(2)
        BY <2>2
      <4>2. 2 \in Nat \ {0}
        OBVIOUS
      <4> QED BY <3>2, <4>1, <4>2 DEF Passes
    <3>4. stack' = Append(stack, g) /\ call' = "set"
      BY <2>2 DEF Calls, Push
    <3>5. ReadInv'
      BY <1>0, <2>1, <3>1, <3>3, <3>4, PassesReads
    <3>6. IsFrame(g) /\ g.acc = <<>> /\ g.fn = "scope"
      BY NewFrame DEF Waiting, Frame
    <3> HIDE DEF g
    <3>7. Filled(g)
      BY <3>6, LinkedFew DEF Filled
    <3>8. LinkInv'
      BY <1>0, <2>1, <3>4, <3>6, <3>7, LinkPush
    <3> QED BY <3>4, <3>5, <3>8, AcceptOnly DEF WellRead
  <2>3. ASSUME At({call}),
               NEW c \in Clause(call, pos + 1), Tok(c.end).t = AfterScope[call][1],
               Takes(c.end + 1 - pos),
               Calls(Building([Policy EXCEPT ![call] = c.scope]), AfterScope[call][2])
        PROVE  WellRead'
    <3> DEFINE e == c.end
               p == [Policy EXCEPT ![call] = c.scope]
    <3>1. e \in Nat /\ e >= pos + 1 /\ FineTo(pos + 1, e)
      <4>1. pos + 1 \in Nat
        BY <1>0
      <4> QED BY <1>0, <4>1, ClauseReads
    <3>2. /\ AfterScope[call][1] \in {",", ")"}
          /\ AfterScope[call][2] \in {"action", "resource", "conditions"}
      <4>1. CASE call = "principal"
        BY <4>1 DEF AfterScope
      <4>2. CASE call = "action"
        BY <4>2 DEF AfterScope
      <4>3. CASE call = "resource"
        BY <4>3 DEF AfterScope
      <4> QED BY <2>1, <4>1, <4>2, <4>3 DEF ScopeVar
    <3>3. FineTo(pos, pos + 1)
      <4>1. Fine(pos)
        BY <2>1, <2>3 DEF At, Fine, ScopeVar
      <4> QED BY <1>0, <4>1 DEF FineTo
    <3>4. FineTo(e, e + 1)
      <4>1. Fine(e)
        BY <2>3, <3>2 DEF Fine
      <4> HIDE DEF e
      <4> QED BY <3>1, <4>1 DEF FineTo
    <3>5. Takes(e + 1 - pos)
      BY <2>3
    <3> HIDE DEF e
    <3>6. FineTo(pos, e)
      BY <1>0, <3>1, <3>3, FineJoin
    <3>7. FineTo(pos, e + 1)
      BY <1>0, <3>1, <3>4, <3>6, FineJoin
    <3>8. e + 1 - pos \in Nat \ {0} /\ pos + (e + 1 - pos) = e + 1
      BY <1>0, <3>1
    <3>9. Goes
      BY <2>1, <3>5, <3>7, <3>8 DEF Goes, Passes
    <3>10. "effect" \in DOMAIN p
      <4>1. "effect" \in DOMAIN Policy
        BY <1>0, <2>1, PolicyBuilt
      <4> QED BY <4>1
    <3>11. Calls(Building(p), AfterScope[call][2])
      BY <2>3
    <3> HIDE DEF p
    <3> QED BY <2>1, <3>2, <3>9, <3>10, <3>11, WellBuilding
  <2>4. \/ Refuses
        \/ /\ At({call}) /\ Ahead(pos + 1, <<"in", "[">>) /\ Takes(2)
           /\ Calls(Push("scope", ""), "set")
        \/ /\ At({call})
           /\ \E c \in Clause(call, pos + 1) :
                /\ Tok(c.end).t = AfterScope[call][1]
                /\ Takes(c.end + 1 - pos)
                /\ Calls(Building([Policy EXCEPT ![call] = c.scope]), AfterScope[call][2])
    BY <1>4, Zenon DEF ParseScope
  <2> QED BY <2>1, <2>2, <2>3, <2>4, WellFails
<1>5. CASE EndScopeSet
  <2>1. text' = text /\ stack # <<>> /\ Top.fn = "scope" /\ ret # Null
    BY <1>0, <1>5, BackGives DEF EndScopeSet, Keep
  <2>2. ASSUME NEW act, At({","}), Takes(1),
               Calls(Building([Policy EXCEPT !.action = act]), "resource")
        PROVE  WellRead'
    <3> DEFINE p == [Policy EXCEPT !.action = act]
    <3>1. Goes
      BY <1>0, <2>1, <2>2, GoesFew DEF At, Fine
    <3>2. "effect" \in DOMAIN p
      <4>1. "effect" \in DOMAIN Policy
        BY <1>0, <2>1, PolicyBuilt
      <4> QED BY <4>1
    <3>3. Calls(Building(p), "resource")
      BY <2>2
    <3> HIDE DEF p
    <3> QED BY <2>1, <3>1, <3>2, <3>3, WellBuilding
  <2> QED BY <1>5, <2>1, <2>2, WellFails DEF EndScopeSet
<1>6. CASE ParseCondition
  <2>1. /\ text' = text /\ stack # <<>> /\ Top.fn = "policy"
        /\ ~(call = "return" /\ ret = Null)
    BY <1>6, Caller DEF ParseCondition, Enters
  <2>2. CASE /\ At({"when", "unless"}) /\ Tok(pos + 1).t = "{" /\ Takes(2)
             /\ Calls(Push("condition", Tok(pos).t), "expr")
    <3>1. Goes
      BY <1>0, <2>1, <2>2, GoesFew DEF At, Fine
    <3>2. "condition" \in Waiting
      BY DEF Waiting
    <3>3. Calls(Push("condition", Tok(pos).t), "expr")
      BY <2>2
    <3> QED BY <2>1, <3>1, <3>2, <3>3, WellCalls
  <2>3. CASE At({";"}) /\ Takes(1) /\ Calls(<<>>, "policies")
    <3>1. Goes
      BY <1>0, <2>1, <2>3, GoesFew DEF At, Fine
    <3>2. stack' = <<>> /\ call' = "policies"
      BY <2>3 DEF Calls
    <3>3. AllFilled(<<>>)
      BY DEF AllFilled
    <3> QED BY <1>0, <2>1, <3>1, <3>2, <3>3, GoesReads, AcceptOnly DEF WellRead, LinkInv
  <2> QED BY <1>6, <2>1, <2>2, <2>3, WellFails DEF ParseCondition
<1>7. CASE EndCondition
  <2>1. text' = text /\ stack # <<>> /\ Top.fn = "condition" /\ ret # Null
    BY <1>0, <1>7, BackGives DEF EndCondition, Keep
  <2>2. ASSUME NEW cs, At({"}"}), Takes(1),
               Calls(Building([Policy EXCEPT !.conditions = cs]), "conditions")
        PROVE  WellRead'
    <3> DEFINE p == [Policy EXCEPT !.conditions = cs]
    <3>1. Goes
      BY <1>0, <2>1, <2>2, GoesFew DEF At, Fine
    <3>2. "effect" \in DOMAIN p
      <4>1. "effect" \in DOMAIN Policy
        BY <1>0, <2>1, PolicyBuilt
      <4> QED BY <4>1
    <3>3. Calls(Building(p), "conditions")
      BY <2>2
    <3> HIDE DEF p
    <3> QED BY <2>1, <3>1, <3>2, <3>3, WellBuilding
  <2> QED BY <1>7, <2>1, <2>2, WellFails DEF EndCondition
<1> QED BY <1>1, <1>2, <1>3, <1>4, <1>5, <1>6, <1>7 DEF PolicyStep

(* A refused allocation is an error like another.                          *)
LEMMA AllocationReads ==
  ASSUME StackInv, WellRead, AllocationFails
  PROVE  WellRead'
<1>1. text' = text /\ Fails
  BY DEF AllocationFails
<1>2. CASE call = "return"
  <2>1. stack # <<>> /\ Pops(Null)
    BY <1>2 DEF AllocationFails, Allocates, ScopeVar
  <2> QED BY <1>1, <2>1, WellFails DEF PopsNull
<1>3. CASE call # "return"
  <2>1. Returns(stack, Null) /\ Level
    BY <1>3 DEF AllocationFails
  <2> QED BY <1>1, <2>1, WellFails DEF Refuses
<1> QED BY <1>2, <1>3

(* What an error sets in motion only takes frames away.                    *)
LEMMA UnwindReads ==
  ASSUME StackInv, WellRead, Unwind
  PROVE  WellRead'
<1>1. /\ text' = text /\ stack # <<>> /\ Stays /\ Pops(Null)
      /\ call = "return" /\ call' = "return" /\ ret' = Null
  BY DEF Unwind, Keep, Pops, Returns
<1>2. error'
  <2>1. error \/ ret = Null
    BY DEF Unwind, Unwinds
  <2> QED BY <1>1, <2>1 DEF WellRead, LinkInv, Stays
<1>3. ReadInv'
  BY <1>1, StaysReads DEF WellRead
<1> QED BY <1>1, <1>2, <1>3, LinkPop, AcceptOnly DEF WellRead

-------------------------------------------------------------------------------
(* Theorems                                                                *)

(* In every reachable state the token that was read, the nodes that wait   *)
(* to be linked and what was accepted fit together: no token before the    *)
(* current one is an error token unless the parser has failed, and a frame *)
(* has something for every place it will link (parser.c:67-112).           *)
THEOREM ReadInvariant == Spec => []WellRead
<1>1. Init => WellRead
  <2> SUFFICES ASSUME Init
               PROVE  WellRead
    OBVIOUS
  <2>1. /\ text \in Text /\ pos = 1 /\ error = (Tok(1).t = "error")
        /\ stack = <<>> /\ call = "policies"
    BY DEF Init
  <2>2. Len(text) \in Nat
    BY <2>1, TextAssumption
  <2>3. ReadInv
    <3>1. error \in BOOLEAN /\ (error <=> At({"error"}))
      BY <2>1 DEF At
    <3>2. pos \in Nat \ {0} /\ pos <= Len(text) + 1 /\ 1..pos - 1 = {}
      BY <2>1, <2>2
    <3> QED BY <2>1, <3>1, <3>2 DEF ReadInv
  <2>4. LinkInv
    BY <2>1 DEF LinkInv, AllFilled
  <2> QED BY <2>1, <2>3, <2>4 DEF WellRead, AcceptInv, Accepted, Done
<1>2. StackInv /\ WellRead /\ [Next]_vars => WellRead'
  <2> SUFFICES ASSUME StackInv, WellRead, [Next]_vars
               PROVE  WellRead'
    OBVIOUS
  <2>1. CASE UNCHANGED vars
    BY <2>1 DEF vars, WellRead, ReadInv, LinkInv, AcceptInv, Accepted, Done, AllFilled, Filled,
                Linked, At, Tok, Eof
  <2> QED BY <2>1, ExprStepReads, PolicyStepReads, UnwindReads, AllocationReads DEF Next, Step
<1> QED BY <1>1, <1>2, StackInvariant, PTL DEF Spec

(* Whatever the text, the parser goes past no token that the lexer refused *)
(* (parser.c:73), and what it accepts it has read to the end, unflagged    *)
(* (parser.c:2098).                                                        *)
THEOREM ErrorsAreNeverPassed == Spec => []NeverPastError
<1>1. WellRead => NeverPastError
  <2> SUFFICES ASSUME WellRead
               PROVE  NeverPastError
    OBVIOUS
  <2>1. /\ text \in Text /\ pos \in Nat \ {0} /\ pos <= Len(text) + 1
        /\ \A i \in 1..pos - 1 : Tok(i).t # "error"
    BY DEF WellRead, ReadInv
  <2>2. ASSUME Accepted
        PROVE  pos = Len(text) + 1 /\ ~error
    <3>1. At({"eof"}) /\ ~error
      BY <2>2 DEF WellRead, AcceptInv
    <3>2. Len(text) \in Nat /\ \A i \in 1..Len(text) : text[i].t # "eof"
      BY <2>1, TextAssumption, TokenAssumption
    <3>3. ~(pos <= Len(text))
      BY <2>1, <3>1, <3>2 DEF At, Tok
    <3> QED BY <2>1, <3>1, <3>2, <3>3
  <2> QED BY <2>1, <2>2 DEF NeverPastError
<1> QED BY <1>1, ReadInvariant, PTL

(* Whatever the text, the limits and the allocations refused, no frame     *)
(* keeps NULL and no production goes on with it: a caller that tests only  *)
(* ctx->error, or only for NULL, has been given a tree.                    *)
THEOREM NullIsNeverLinked == Spec => []NoNullLinked
<1>1. StackInv /\ WellRead => NoNullLinked
  <2> SUFFICES ASSUME StackInv, WellRead
               PROVE  NoNullLinked
    OBVIOUS
  <2>1. PICK S : stack \in Seq(S)
    BY DEF StackInv, Good, IsStack
  <2>2. DOMAIN stack = 1..Len(stack)
    BY <2>1
  <2>3. ASSUME NEW a, Linked(a), NEW k \in DOMAIN a
        PROVE  a[k] # Null
    <3>1. PICK T : Null \notin T /\ a \in Seq(T)
      BY <2>3 DEF Linked
    <3>2. a[k] \in T
      BY <3>1
    <3> QED BY <3>1, <3>2
  <2>4. \A i \in DOMAIN stack : \A k \in DOMAIN stack[i].acc : stack[i].acc[k] # Null
    <3>1. \A i \in 1..Len(stack) : Linked(stack[i].acc)
      BY DEF WellRead, LinkInv, AllFilled, Filled
    <3> QED BY <2>2, <2>3, <3>1
  <2>5. \A f \in Waiting : Back(f) /\ f # "expr" => ret # Null
    BY BackGives DEF WellRead
  <2> QED BY <2>4, <2>5 DEF NoNullLinked
<1> QED BY <1>1, StackInvariant, ReadInvariant, PTL

-------------------------------------------------------------------------------
(* How tall trees are                                                      *)

\* L[j] holds trees of at most j levels, t among those of h.
Levels(L, t, h) ==
  /\ L[0] = {} /\ t \in L[h]
  /\ \A j \in 1..h : \A x \in L[j] : \A k \in DOMAIN x.kids : x.kids[k] \in L[j - 1]

\* The tree t has at most h levels.
Within(t, h) == \E L : Levels(L, t, h)

(* An operand has a level less.                                            *)
LEMMA WithinKid ==
  ASSUME NEW t, NEW h \in Nat, Within(t, h), NEW k \in DOMAIN t.kids
  PROVE  h # 0 /\ Within(t.kids[k], h - 1)
<1>1. PICK L : Levels(L, t, h)
  BY DEF Within
<1>2. h # 0
  BY <1>1 DEF Levels
<1>3. h \in 1..h /\ \A j \in 1..h - 1 : j \in 1..h
  BY <1>2
<1>4. Levels(L, t.kids[k], h - 1)
  BY <1>1, <1>3 DEF Levels
<1> QED BY <1>2, <1>4 DEF Within

(* A tree of few levels has at most more.                                  *)
LEMMA WithinMore ==
  ASSUME NEW t, NEW h \in Nat, Within(t, h), NEW g \in Nat, h <= g
  PROVE  Within(t, g)
<1>1. PICK L : Levels(L, t, h)
  BY DEF Within
<1> DEFINE d == g - h
           K == [j \in 0..g |-> IF j <= d THEN {} ELSE L[j - d]]
<1>2. h # 0
  BY <1>1 DEF Levels
<1>3. d \in Nat /\ g - d = h /\ g > d /\ g \in 0..g /\ 0 \in 0..g
  BY <1>2
<1>4. K[0] = {} /\ t \in K[g]
  BY <1>1, <1>3 DEF Levels
<1>5. ASSUME NEW j \in 1..g, NEW x \in K[j], NEW k \in DOMAIN x.kids
      PROVE  x.kids[k] \in K[j - 1]
  <2>1. j > d /\ x \in L[j - d] /\ j \in 0..g
    BY <1>3, <1>5
  <2>2. j - d \in 1..h
    BY <1>3, <2>1
  <2>3. x.kids[k] \in L[(j - d) - 1]
    BY <1>1, <2>1, <2>2 DEF Levels
  <2>4. (j - d) - 1 # 0
    BY <1>1, <2>3 DEF Levels
  <2>5. j - 1 \in 0..g /\ ~(j - 1 <= d) /\ (j - 1) - d = (j - d) - 1
    BY <1>3, <2>1, <2>2, <2>4
  <2> QED BY <2>3, <2>5
<1> HIDE DEF K
<1>6. Levels(K, t, g)
  BY <1>4, <1>5 DEF Levels
<1> QED BY <1>6 DEF Within

(* A tree has a level more than the tallest of its operands.               *)
LEMMA WithinBuild ==
  ASSUME NEW t, NEW h \in Nat, \A k \in DOMAIN t.kids : Within(t.kids[k], h)
  PROVE  Within(t, h + 1)
<1> DEFINE W(k) == CHOOSE L : Levels(L, t.kids[k], h)
           K == [j \in 0..h + 1 |->
                   IF j = h + 1 THEN {t} ELSE UNION {W(k)[j] : k \in DOMAIN t.kids}]
<1>1. \A k \in DOMAIN t.kids : Levels(W(k), t.kids[k], h)
  BY DEF Within
<1> HIDE DEF W
<1>2. /\ h + 1 \in 0..h + 1 /\ h + 1 # 0
      /\ \A j \in 0..h : j \in 0..h + 1 /\ j # h + 1
      /\ 0 \in 0..h /\ h \in 0..h
  OBVIOUS
<1>3. K[h + 1] = {t}
  BY <1>2
<1>4. \A j \in 0..h : K[j] = UNION {W(k)[j] : k \in DOMAIN t.kids}
  BY <1>2
<1> HIDE DEF K
<1>5. K[0] = {} /\ t \in K[h + 1]
  <2>1. \A k \in DOMAIN t.kids : W(k)[0] = {}
    BY <1>1 DEF Levels
  <2> QED BY <1>2, <1>3, <1>4, <2>1
<1>6. ASSUME NEW j \in 1..h + 1, NEW x \in K[j], NEW k \in DOMAIN x.kids
      PROVE  x.kids[k] \in K[j - 1]
  <2>1. CASE j = h + 1
    <3>1. x = t /\ j - 1 = h
      BY <1>3, <1>6, <2>1
    <3>2. t.kids[k] \in W(k)[h]
      BY <1>1, <1>6, <3>1 DEF Levels
    <3> QED BY <1>2, <1>4, <1>6, <3>1, <3>2
  <2>2. CASE j # h + 1
    <3>1. j \in 1..h /\ j \in 0..h /\ j - 1 \in 0..h
      BY <2>2
    <3>2. PICK m \in DOMAIN t.kids : x \in W(m)[j]
      BY <1>4, <1>6, <3>1
    <3>3. x.kids[k] \in W(m)[j - 1]
      BY <1>1, <3>1, <3>2 DEF Levels
    <3> QED BY <1>4, <3>1, <3>2, <3>3
  <2> QED BY <2>1, <2>2
<1>7. Levels(K, t, h + 1)
  BY <1>5, <1>6 DEF Levels
<1> QED BY <1>7 DEF Within

(* A tree without operands has one level.                                  *)
LEMMA WithinLeaf ==
  ASSUME NEW t, t.kids = <<>>, NEW h \in Nat \ {0}
  PROVE  Within(t, h)
<1>1. \A k \in DOMAIN t.kids : Within(t.kids[k], 0)
  OBVIOUS
<1>2. Within(t, 0 + 1)
  BY <1>1, WithinBuild
<1>3. 0 + 1 \in Nat /\ 0 + 1 <= h
  OBVIOUS
<1> QED BY <1>2, <1>3, WithinMore

(* A level more over one tree, or over two.                                *)
LEMMA WithinOver ==
  ASSUME NEW t, NEW h \in Nat
  PROVE  /\ \A a : t.kids = <<a>> /\ Within(a, h) => Within(t, h + 1)
         /\ \A a, b : t.kids = <<a, b>> /\ Within(a, h) /\ Within(b, h) => Within(t, h + 1)
<1>1. ASSUME NEW a, t.kids = <<a>>, Within(a, h)
      PROVE  Within(t, h + 1)
  <2>1. \A k \in DOMAIN t.kids : t.kids[k] = a
    BY <1>1
  <2> QED BY <1>1, <2>1, WithinBuild
<1>2. ASSUME NEW a, NEW b, t.kids = <<a, b>>, Within(a, h), Within(b, h)
      PROVE  Within(t, h + 1)
  <2>1. \A k \in DOMAIN t.kids : t.kids[k] \in {a, b}
    BY <1>2
  <2> QED BY <1>2, <2>1, WithinBuild
<1> QED BY <1>1, <1>2

-------------------------------------------------------------------------------
(* What is allowed of a frame                                              *)

\* What may be below a member expression with all its steps
Base(r) == HeightOf(r) + MaxMemberChain + 1

\* How tall the tree may be that a call of f is given, when r more counted
\* calls are allowed.
Budget(f, r) ==
  CASE f.fn = "expr"     -> Base(r) + 4 * MaxBinopChain + 1
    [] f.fn = "or"       -> Base(r) + 3 * MaxBinopChain + 1
    [] f.fn = "and"      -> Base(r) + 2 * MaxBinopChain + 1
    [] f.fn = "relation" -> Base(r) + 2 * MaxBinopChain
    [] f.fn = "add"      -> Base(r) + MaxBinopChain
    [] f.fn \in {"mult", "unary"} -> Base(r)
    [] f.fn = "member"   -> HeightOf(r) + 1 + f.n
    [] OTHER             -> HeightOf(r)

\* How tall a tree f may return, when it was called from g.
Yields(f, g, r) ==
  CASE f.fn \in Chain  -> Budget(f, r) + MaxBinopChain
    [] f.fn = "method" -> Budget(f, r) + g.n + 1
    [] f.fn \in {"relation", "unary", "ite", "set", "record"} -> Budget(f, r) + 1
    [] OTHER           -> Budget(f, r)

\* The conditions of p are such as the limits allow.
Sound(p) ==
  /\ "conditions" \in DOMAIN p
  /\ \E S : /\ p.conditions \in Seq(S)
            /\ \A c \in S : Within(c.expr, HeightOf(MaxParseDepth))

AllSound(ps) == \E S : ps \in Seq(S) /\ \A p \in S : Sound(p)

\* A chain that has no operator yet
Fresh(f) == f.note = ""

\* The frame f has no taller trees than it may, called from g.
Fits(f, g, r) ==
  /\ f.fn = "policy" => Sound(f.acc[1])
  /\ f.fn \in Chain =>
       /\ f.n <= MaxBinopChain
       /\ ~Fresh(f) => f.n >= 1 /\ Within(f.acc[1], Budget(f, r) + f.n - 1)
  /\ f.fn = "method" => Within(f.acc[1], Budget(f, r) + g.n)
  /\ f.fn = "member" => f.n <= MaxMemberChain
  /\ f.fn \in {"ite", "set", "record", "relation"} =>
       \A k \in DOMAIN f.acc : Within(f.acc[k], Budget(f, r))

\* The counted calls still allowed inside the i-th frame
Rest(s, i) == MaxParseDepth - Count(s, Counted, i)

AllFit(s) ==
  \A i \in 1..Len(s) : Fits(s[i], s[IF i = 1 THEN 1 ELSE i - 1], Rest(s, i))

(* Inductive: whatever waits, was returned or is kept is within its bound. *)
HeightInv ==
  /\ AllFit(stack)
  /\ call = "return" /\ stack # <<>> /\ ret # Null /\ Top.fn \notin {"policy", "scope"}
       => Within(ret, Budget(Top, MaxParseDepth - depth))
  /\ AllSound(policies)
  /\ Accepted => AllSound(ret.kids)

-------------------------------------------------------------------------------

(* With another counted call allowed, a tree may be taller by all the      *)
(* chains and steps of an expression.                                      *)
LEMMA HeightGrows ==
  ASSUME NEW r \in Nat
  PROVE  /\ HeightOf(r) \in Nat
         /\ HeightOf(r + 1) = HeightOf(r) + 4 * MaxBinopChain + MaxMemberChain + 2
<1> DEFINE w == 4 * MaxBinopChain + MaxMemberChain + 2
<1>1. w \in Nat
  BY LimitAssumption
<1>2. HeightOf(r) = r * w /\ HeightOf(r + 1) = (r + 1) * w
  BY DEF HeightOf
<1> HIDE DEF w
<1>3. r * w \in Nat /\ (r + 1) * w = r * w + w
  BY <1>1
<1>4. HeightOf(r) \in Nat /\ HeightOf(r + 1) = HeightOf(r) + w
  BY <1>2, <1>3
<1> QED BY <1>4, LimitAssumption DEF w

(* What a call may be given is a number, and not 0 where a tree without    *)
(* operands may be.                                                        *)
LEMMA BudgetNat ==
  ASSUME NEW f, f.n \in Nat, NEW r \in Nat
  PROVE  /\ Base(r) \in Nat /\ HeightOf(r) \in Nat
         /\ Budget(f, r) \in Nat
         /\ f.fn \in Waiting \ {"policy", "scope", "condition", "ite", "paren", "method",
                                "set", "record"} => Budget(f, r) > 0
<1>1. HeightOf(r) \in Nat
  BY HeightGrows
<1>2. Base(r) \in Nat /\ Base(r) > 0
  BY <1>1, LimitAssumption DEF Base
<1>3. f.fn \in Waiting \ {"policy", "scope", "condition", "ite", "paren", "method",
                                "set", "record"}
        => f.fn \in {"expr", "or", "and", "relation", "add", "mult", "unary", "member"}
  BY DEF Waiting, Chain, Counted
<1>4. Budget(f, r) \in Nat
      /\ (f.fn \in {"expr", "or", "and", "relation", "add", "mult", "unary", "member"}
            => Budget(f, r) > 0)
  BY <1>1, <1>2, LimitAssumption DEF Budget
<1> QED BY <1>1, <1>2, <1>3, <1>4

(* What a call may return, its caller may be given.                        *)
LEMMA YieldsFit ==
  ASSUME NEW f, f.n \in Nat, NEW g, g.n \in Nat, NEW r \in Nat,
         Inside(g.fn, f.fn), g.fn \notin {"policy", "scope"},
         f.fn = "member" => f.n <= MaxMemberChain
  PROVE  LET q == r + One(f.fn \in Counted) IN
         Yields(f, g, r) \in Nat /\ Budget(g, q) \in Nat /\ Yields(f, g, r) <= Budget(g, q)
<1> DEFINE q == r + One(f.fn \in Counted)
<1>1. q \in Nat /\ (f.fn \in Counted => q = r + 1) /\ (f.fn \notin Counted => q = r)
  BY DEF One
<1> HIDE DEF q
<1>2. Budget(g, q) \in Nat /\ Budget(f, r) \in Nat
  BY <1>1, BudgetNat
<1>3. /\ HeightOf(r) \in Nat
      /\ HeightOf(r + 1) = HeightOf(r) + 4 * MaxBinopChain + MaxMemberChain + 2
      /\ MaxBinopChain \in Nat /\ MaxMemberChain \in Nat
  BY HeightGrows, LimitAssumption
<1>4. Yields(f, g, r) \in Nat
  BY <1>2, <1>3 DEF Yields
<1>5. CASE f.fn = "expr"
  <2>1. q = r + 1 /\ g.fn \in {"condition", "ite", "paren", "method", "set", "record"}
    BY <1>1, <1>5 DEF Counted, Inside
  <2>2. Budget(g, q) = HeightOf(r + 1)
    BY <2>1 DEF Budget
  <2>3. Yields(f, g, r) = Base(r) + 4 * MaxBinopChain + 1
    BY <1>5 DEF Yields, Budget, Chain
  <2> QED BY <1>2, <1>3, <1>4, <2>2, <2>3 DEF Base, q
<1>6. CASE f.fn = "ite"
  <2>1. q = r + 1 /\ g.fn \in {"condition", "ite", "paren", "method", "set", "record"}
    BY <1>1, <1>6 DEF Counted, Inside
  <2>2. Budget(g, q) = HeightOf(r + 1)
    BY <2>1 DEF Budget
  <2>3. Yields(f, g, r) = HeightOf(r) + 1
    BY <1>6 DEF Yields, Budget, Chain
  <2> QED BY <1>2, <1>3, <1>4, <2>2, <2>3 DEF q
<1>7. CASE f.fn = "unary"
  <2>1. q = r + 1 /\ g.fn \in {"mult", "unary"}
    BY <1>1, <1>7 DEF Counted, Inside
  <2>2. Budget(g, q) = Base(r + 1)
    BY <2>1 DEF Budget
  <2>3. Yields(f, g, r) = Base(r) + 1
    BY <1>7 DEF Yields, Budget, Chain
  <2> QED BY <1>2, <1>3, <1>4, <2>2, <2>3 DEF Base, q
<1>8. CASE f.fn = "or"
  <2>1. q = r /\ g.fn = "expr"
    BY <1>1, <1>8 DEF Counted, Inside
  <2>2. Budget(g, q) = Base(r) + 4 * MaxBinopChain + 1
    BY <2>1 DEF Budget
  <2>3. Yields(f, g, r) = Base(r) + 3 * MaxBinopChain + 1 + MaxBinopChain
    BY <1>8 DEF Yields, Budget, Chain
  <2> QED BY <1>2, <1>3, <1>4, <2>2, <2>3 DEF Base, q
<1>9. CASE f.fn = "and"
  <2>1. q = r /\ g.fn = "or"
    BY <1>1, <1>9 DEF Counted, Inside
  <2>2. Budget(g, q) = Base(r) + 3 * MaxBinopChain + 1
    BY <2>1 DEF Budget
  <2>3. Yields(f, g, r) = Base(r) + 2 * MaxBinopChain + 1 + MaxBinopChain
    BY <1>9 DEF Yields, Budget, Chain
  <2> QED BY <1>2, <1>3, <1>4, <2>2, <2>3 DEF Base, q
<1>10. CASE f.fn = "relation"
  <2>1. q = r /\ g.fn = "and"
    BY <1>1, <1>10 DEF Counted, Inside
  <2>2. Budget(g, q) = Base(r) + 2 * MaxBinopChain + 1
    BY <2>1 DEF Budget
  <2>3. Yields(f, g, r) = Base(r) + 2 * MaxBinopChain + 1
    BY <1>10 DEF Yields, Budget, Chain
  <2> QED BY <1>2, <1>3, <1>4, <2>2, <2>3 DEF Base, q
<1>11. CASE f.fn = "add"
  <2>1. q = r /\ g.fn = "relation"
    BY <1>1, <1>11 DEF Counted, Inside
  <2>2. Budget(g, q) = Base(r) + 2 * MaxBinopChain
    BY <2>1 DEF Budget
  <2>3. Yields(f, g, r) = Base(r) + MaxBinopChain + MaxBinopChain
    BY <1>11 DEF Yields, Budget, Chain
  <2> QED BY <1>2, <1>3, <1>4, <2>2, <2>3 DEF Base, q
<1>12. CASE f.fn = "mult"
  <2>1. q = r /\ g.fn = "add"
    BY <1>1, <1>12 DEF Counted, Inside
  <2>2. Budget(g, q) = Base(r) + MaxBinopChain
    BY <2>1 DEF Budget
  <2>3. Yields(f, g, r) = Base(r) + MaxBinopChain
    BY <1>12 DEF Yields, Budget, Chain
  <2> QED BY <1>2, <1>3, <1>4, <2>2, <2>3 DEF Base, q
<1>13. CASE f.fn = "member"
  <2>1. q = r /\ g.fn \in {"mult", "unary"}
    BY <1>1, <1>13 DEF Counted, Inside
  <2>2. Budget(g, q) = Base(r)
    BY <2>1 DEF Budget
  <2>3. Yields(f, g, r) = HeightOf(r) + 1 + f.n /\ f.n <= MaxMemberChain
    BY <1>13 DEF Yields, Budget, Chain
  <2> QED BY <1>2, <1>3, <1>4, <2>2, <2>3 DEF Base, q
<1>14. CASE f.fn \in {"paren", "set", "record", "method"}
  <2>1. q = r /\ g.fn = "member"
    BY <1>1, <1>14 DEF Counted, Inside
  <2>2. Budget(g, q) = HeightOf(r) + 1 + g.n
    BY <2>1 DEF Budget
  <2>3. Yields(f, g, r) \in {HeightOf(r), HeightOf(r) + 1, HeightOf(r) + g.n + 1}
    BY <1>14 DEF Yields, Budget, Chain
  <2> QED BY <1>2, <1>3, <1>4, <2>2, <2>3 DEF q
<1>15. f.fn \in {"expr", "ite", "unary", "or", "and", "relation", "add", "mult", "member",
                 "paren", "set", "record", "method"}
  BY DEF Inside
<1> QED BY <1>5, <1>6, <1>7, <1>8, <1>9, <1>10, <1>11, <1>12, <1>13, <1>14, <1>15

-------------------------------------------------------------------------------

(* One frame more, that fits on top of those there are.                    *)
LEMMA FitAppend ==
  ASSUME NEW s, IsStack(s), s # <<>>, AllFit(s), NEW f, IsFrame(f),
         Fits(f, s[Len(s)], Rest(s, Len(s)) - One(f.fn \in Counted))
  PROVE  AllFit(Append(s, f))
<1> DEFINE t == Append(s, f)
           m == Len(s)
<1>1. /\ m \in Nat /\ Len(t) = m + 1 /\ t[m + 1] = f
      /\ \A i \in 1..m : t[i] = s[i]
  BY AppendStack
<1>2. m # 0
  BY DEF IsStack
<1> HIDE DEF t, m
<1>3. ASSUME NEW i \in 0..m
      PROVE  Count(t, Counted, i) = Count(s, Counted, i) /\ Count(s, Counted, i) \in Nat
  <2>1. i \in Nat /\ \A j \in 1..i : t[j].fn = s[j].fn
    BY <1>1
  <2>2. Count(t, Counted, i) = Count(s, Counted, i)
    BY <2>1, CountSame, Zenon
  <2>3. Count(s, Counted, i) \in Nat
    BY <2>1, CountNext, Zenon
  <2> QED BY <2>2, <2>3
<1>4. Rest(t, m + 1) = Rest(s, m) - One(f.fn \in Counted)
  <2>1. Count(t, Counted, m + 1) = Count(t, Counted, m) + One(t[m + 1].fn \in Counted)
    BY <1>1, CountNext, Zenon
  <2>2. Count(t, Counted, m) = Count(s, Counted, m) /\ Count(s, Counted, m) \in Nat
    BY <1>1, <1>3
  <2>3. One(f.fn \in Counted) \in Nat
    BY DEF One
  <2> QED BY <1>1, <2>1, <2>2, <2>3, LimitAssumption DEF Rest
<1>5. ASSUME NEW i \in 1..m + 1
      PROVE  Fits(t[i], t[IF i = 1 THEN 1 ELSE i - 1], Rest(t, i))
  <2>1. CASE i = m + 1
    <3>1. t[IF i = 1 THEN 1 ELSE i - 1] = s[m]
      BY <1>1, <1>2, <2>1
    <3> QED BY <1>1, <1>4, <2>1, <3>1 DEF m
  <2>2. CASE i \in 1..m
    <3>1. Rest(t, i) = Rest(s, i)
      BY <1>3, <2>2 DEF Rest
    <3>2. t[IF i = 1 THEN 1 ELSE i - 1] = s[IF i = 1 THEN 1 ELSE i - 1] /\ t[i] = s[i]
      BY <1>1, <2>2
    <3> QED BY <2>2, <3>1, <3>2 DEF AllFit, m
  <2> QED BY <1>1, <2>1, <2>2
<1> QED BY <1>1, <1>5 DEF AllFit, t

(* What fits still does without the innermost frame.                       *)
LEMMA FitBelow ==
  ASSUME NEW s, IsStack(s), s # <<>>, AllFit(s)
  PROVE  LET b == SubSeq(s, 1, Len(s) - 1) IN
         /\ AllFit(b)
         /\ Rest(s, Len(s)) = Rest(b, Len(b)) - One(s[Len(s)].fn \in Counted)
         /\ b # <<>> => Fits(s[Len(s)], b[Len(b)], Rest(s, Len(s)))
<1> DEFINE m == Len(s)
           b == SubSeq(s, 1, m - 1)
<1>1. /\ IsStack(b) /\ m \in Nat \ {0} /\ Len(b) = m - 1
      /\ \A i \in 1..m - 1 : b[i] = s[i]
  BY BelowStack
<1> HIDE DEF b, m
<1>2. ASSUME NEW i \in 0..m - 1
      PROVE  Count(b, Counted, i) = Count(s, Counted, i) /\ Count(s, Counted, i) \in Nat
  <2>1. i \in Nat /\ \A j \in 1..i : b[j].fn = s[j].fn
    BY <1>1
  <2>2. Count(b, Counted, i) = Count(s, Counted, i)
    BY <2>1, CountSame, Zenon
  <2>3. Count(s, Counted, i) \in Nat
    BY <2>1, CountNext, Zenon
  <2> QED BY <2>2, <2>3
<1>3. AllFit(b)
  <2> SUFFICES ASSUME NEW i \in 1..m - 1
               PROVE  Fits(b[i], b[IF i = 1 THEN 1 ELSE i - 1], Rest(b, i))
    BY <1>1 DEF AllFit
  <2>1. Rest(b, i) = Rest(s, i)
    BY <1>2 DEF Rest
  <2>2. b[IF i = 1 THEN 1 ELSE i - 1] = s[IF i = 1 THEN 1 ELSE i - 1] /\ b[i] = s[i]
    BY <1>1
  <2>3. i \in 1..m
    BY <1>1
  <2> QED BY <2>1, <2>2, <2>3 DEF AllFit, m
<1>4. Rest(s, m) = Rest(b, m - 1) - One(s[m].fn \in Counted)
  <2>1. m - 1 \in Nat /\ m - 1 \in 0..m - 1 /\ (m - 1) + 1 = m
    BY <1>1
  <2>2. Count(s, Counted, (m - 1) + 1)
          = Count(s, Counted, m - 1) + One(s[(m - 1) + 1].fn \in Counted)
    BY <2>1, CountNext, Zenon
  <2>3. Count(b, Counted, m - 1) = Count(s, Counted, m - 1) /\ Count(s, Counted, m - 1) \in Nat
    BY <1>2, <2>1
  <2>4. One(s[m].fn \in Counted) \in Nat
    BY DEF One
  <2> QED BY <2>1, <2>2, <2>3, <2>4, LimitAssumption DEF Rest
<1>5. ASSUME b # <<>>
      PROVE  Fits(s[m], b[m - 1], Rest(s, m))
  <2>1. m - 1 # 0
    <3>1. PICK S : b \in Seq(S)
      BY <1>1 DEF IsStack
    <3> QED BY <1>1, <1>5, <3>1
  <2>2. m \in 1..m /\ s[IF m = 1 THEN 1 ELSE m - 1] = b[m - 1]
    BY <1>1, <2>1
  <2> QED BY <2>2 DEF AllFit, m
<1> QED BY <1>1, <1>3, <1>4, <1>5 DEF b, m

\* The counted calls allowed inside the innermost frame
Rem == MaxParseDepth - depth

(* They are those the counter leaves.                                      *)
LEMMA RemNat ==
  ASSUME StackInv
  PROVE  Rem \in Nat /\ Rem = Rest(stack, Len(stack)) /\ depth \in Nat
BY CountersNat, LimitAssumption DEF StackInv, Good, Rem, Rest

(* What is known of the innermost frame and its caller.                    *)
LEMMA TopFits ==
  ASSUME StackInv, HeightInv, stack # <<>>, Top.fn # "policy"
  PROVE  /\ IsFrame(Top) /\ Below # <<>> /\ IsStack(Below) /\ AllFit(Below)
         /\ LET g == Below[Len(Below)]
                q == Rem + One(Top.fn \in Counted) IN
            /\ IsFrame(g) /\ Inside(g.fn, Top.fn)
            /\ Fits(Top, g, Rem)
            /\ q \in Nat /\ Rest(Below, Len(Below)) = q
            /\ MaxParseDepth - (depth - One(Top.fn \in Counted)) = q
<1>1. IsStack(stack) /\ AllFit(stack)
  BY DEF StackInv, Good, HeightInv
<1>2. IsFrame(Top) /\ IsStack(Below) /\ (Below # <<>> => IsFrame(Below[Len(Below)]))
  BY <1>1, BelowStack DEF Top, Below
<1>3. Below # <<>> /\ Inside(Below[Len(Below)].fn, Top.fn)
  BY PopGood DEF StackInv, Top, Below
<1>4. /\ AllFit(Below)
      /\ Rest(stack, Len(stack)) = Rest(Below, Len(Below)) - One(Top.fn \in Counted)
      /\ Fits(Top, Below[Len(Below)], Rest(stack, Len(stack)))
  BY <1>1, <1>3, FitBelow DEF Top, Below
<1>5. Rem \in Nat /\ Rem = Rest(stack, Len(stack)) /\ depth \in Nat /\ Rem = MaxParseDepth - depth
  BY RemNat DEF Rem
<1>6. One(Top.fn \in Counted) \in {0, 1}
  BY DEF One
<1>7. Rest(Below, Len(Below)) \in Int
  <2>1. Len(Below) \in Nat
    BY <1>2, BelowStack
  <2> QED BY <2>1, CountNext, LimitAssumption DEF Rest
<1>8. LET q == Rem + One(Top.fn \in Counted) IN
      /\ q \in Nat /\ Rest(Below, Len(Below)) = q
      /\ MaxParseDepth - (depth - One(Top.fn \in Counted)) = q
  BY <1>4, <1>5, <1>6, <1>7, LimitAssumption
<1> QED BY <1>2, <1>3, <1>4, <1>5, <1>8

(* A call that leaves the frames alone returns what the innermost may be   *)
(* given.                                                                  *)
LEMMA HeightStands ==
  ASSUME StackInv, HeightInv, stack # <<>>, stack' = stack, Level, policies' = policies,
         call' = "return" => \/ ret' = Null \/ Top.fn \in {"policy", "scope"}
                             \/ Within(ret', Budget(Top, Rem))
  PROVE  HeightInv'
<1>1. Top' = Top /\ depth' = depth
  BY DEF Top, Level
<1>2. ~Accepted'
  BY DEF Accepted, Done
<1> QED BY <1>1, <1>2 DEF HeightInv, Rem

(* NULL is no tree, however it is returned.                                *)
LEMMA HeightPopsNull ==
  ASSUME StackInv, HeightInv, stack # <<>>, Pops(Null), policies' = policies
  PROVE  HeightInv'
<1>1. AllFit(Below)
  BY FitBelow DEF StackInv, Good, HeightInv, Below
<1>2. stack' = Below /\ call' = "return" /\ ret' = Null
  BY DEF Pops, Returns
<1> QED BY <1>1, <1>2 DEF HeightInv, Accepted

(* The innermost call returns a tree that its caller may be given.         *)
LEMMA HeightPops ==
  ASSUME StackInv, HeightInv, stack # <<>>, Top.fn # "policy", NEW node, Pops(node),
         policies' = policies,
         Top.fn \notin {"scope", "condition"} =>
           Within(node, Yields(Top, Below[Len(Below)], Rem))
  PROVE  HeightInv'
<1> DEFINE g == Below[Len(Below)]
           q == Rem + One(Top.fn \in Counted)
<1>1. stack' = Below /\ call' = "return" /\ ret' = node
  BY DEF Pops, Returns
<1>2. /\ IsFrame(Top) /\ Below # <<>> /\ IsFrame(g) /\ Inside(g.fn, Top.fn)
      /\ Fits(Top, g, Rem) /\ AllFit(Below)
      /\ MaxParseDepth - (depth - One(Top.fn \in Counted)) = q
  BY TopFits
<1>3. depth \in Nat /\ Rem \in Nat
  BY RemNat
<1>4. MaxParseDepth - depth' = q
  <2>1. depth' = depth - One(Top.fn \in Counted)
    BY <1>3 DEF Pops, One
  <2> QED BY <1>2, <2>1
<1>5. Top' = g
  BY <1>1 DEF Top
<1> HIDE DEF g, q
<1>6. g.fn \notin {"policy", "scope"} => Within(node, Budget(g, q))
  <2> SUFFICES ASSUME g.fn \notin {"policy", "scope"}
               PROVE  Within(node, Budget(g, q))
    OBVIOUS
  <2>1. Top.fn \notin {"scope", "condition"}
    BY <1>2 DEF Inside
  <2>2. Within(node, Yields(Top, g, Rem))
    BY <2>1 DEF g
  <2>3. Top.n \in Nat /\ g.n \in Nat /\ (Top.fn = "member" => Top.n <= MaxMemberChain)
    BY <1>2 DEF IsFrame, Fits
  <2>4. Yields(Top, g, Rem) \in Nat /\ Budget(g, q) \in Nat
        /\ Yields(Top, g, Rem) <= Budget(g, q)
    BY <1>2, <1>3, <2>3, YieldsFit DEF q
  <2> QED BY <2>2, <2>4, WithinMore
<1>7. ~Accepted'
  BY <1>1, <1>2 DEF Accepted, Done
<1> QED BY <1>1, <1>2, <1>4, <1>5, <1>6, <1>7 DEF HeightInv

(* One call more, with what fits it.                                       *)
LEMMA HeightPush ==
  ASSUME StackInv, HeightInv, stack # <<>>, NEW f, IsFrame(f), stack' = Append(stack, f),
         call' # "return", policies' = policies,
         Fits(f, Top, Rem - One(f.fn \in Counted))
  PROVE  HeightInv'
<1>1. IsStack(stack) /\ AllFit(stack) /\ Rem = Rest(stack, Len(stack))
  BY RemNat DEF StackInv, Good, HeightInv
<1>2. AllFit(Append(stack, f))
  BY <1>1, FitAppend DEF Top
<1> QED BY <1>2 DEF HeightInv, Accepted, Done

(* The innermost call goes on with what fits it.                           *)
LEMMA HeightSwap ==
  ASSUME StackInv, HeightInv, stack # <<>>, Top.fn # "policy", NEW f, IsFrame(f),
         f.fn = Top.fn, stack' = Append(Below, f), Level, policies' = policies,
         Fits(f, Below[Len(Below)], Rem),
         call' = "return" => Within(ret', Budget(f, Rem))
  PROVE  HeightInv'
<1> DEFINE q == Rem + One(Top.fn \in Counted)
<1>1. /\ Below # <<>> /\ IsStack(Below) /\ AllFit(Below)
      /\ q \in Nat /\ Rest(Below, Len(Below)) = q
  BY TopFits
<1>2. Rem \in Nat /\ depth' = depth
  BY RemNat DEF Level
<1>3. Rest(Below, Len(Below)) - One(f.fn \in Counted) = Rem
  BY <1>1, <1>2 DEF One
<1>4. AllFit(Append(Below, f))
  BY <1>1, <1>3, FitAppend
<1>5. /\ Append(Below, f)[Len(Append(Below, f))] = f
      /\ Append(Below, f) # <<>>
  <2>1. Append(Below, f)[Len(Below) + 1] = f /\ Len(Append(Below, f)) = Len(Below) + 1
        /\ Len(Below) \in Nat
    BY <1>1, AppendStack
  <2>2. Len(<<>>) = 0
    OBVIOUS
  <2>3. Len(Append(Below, f)) # 0
    BY <2>1
  <2> QED BY <2>1, <2>2, <2>3
<1>6. Top' = f
  BY <1>5 DEF Top
<1> QED BY <1>2, <1>4, <1>5, <1>6 DEF HeightInv, Accepted, Done, Rem

(* The policy being built has only conditions that the limits allow.       *)
LEMMA PolicySound ==
  ASSUME StackInv, HeightInv, stack # <<>>
  PROVE  Sound(Policy)
<1>1. 1 \in 1..Len(stack) /\ stack[1].fn = "policy"
  <2>1. Len(stack) \in Nat \ {0}
    BY BelowStack DEF StackInv, Good
  <2> QED BY <2>1 DEF StackInv, Good
<1>2. Fits(stack[1], stack[IF 1 = 1 THEN 1 ELSE 1 - 1], Rest(stack, 1))
  BY <1>1, Zenon DEF HeightInv, AllFit
<1> QED BY <1>1, <1>2 DEF Fits, Policy

(* The policy being built goes on as another such policy.                  *)
LEMMA HeightBuilding ==
  ASSUME StackInv, HeightInv, stack # <<>>, Top.fn \in {"policy", "scope", "condition"},
         NEW p, Sound(p), NEW c, c # "return", Calls(Building(p), c), policies' = policies
  PROVE  HeightInv'
<1>1. IsFrame(stack[1]) /\ stack[1].fn = "policy"
  BY PolicyAlone DEF StackInv, Top
<1> DEFINE f == [stack[1] EXCEPT !.acc = <<p>>]
<1>2. f.fn = "policy" /\ f.acc[1] = p
  BY <1>1 DEF IsFrame
<1>3. stack' = <<f>> /\ call' = c
  BY DEF Calls, Building
<1> HIDE DEF f
<1>4. ASSUME NEW g, NEW r
      PROVE  Fits(f, g, r)
  BY <1>2 DEF Fits, Chain
<1>5. AllFit(<<f>>)
  BY <1>4 DEF AllFit
<1> QED BY <1>3, <1>5 DEF HeightInv, Accepted, Done

(* A call that has nothing yet fits.                                       *)
LEMMA NewFits ==
  ASSUME NEW g, g.fn \notin {"policy", "method"}, g.acc = <<>>, g.n = 0,
         g.fn \in Chain => Fresh(g), NEW h, NEW r
  PROVE  Fits(g, h, r)
BY LimitAssumption DEF Fits

(* One call more that has nothing yet.                                     *)
LEMMA HeightCalls ==
  ASSUME StackInv, HeightInv, stack # <<>>, NEW f \in Waiting \ {"policy", "method"}, NEW note,
         f \in Chain => Fresh(Frame(f, note, <<>>)),
         NEW c, c # "return", Calls(Push(f, note), c), policies' = policies
  PROVE  HeightInv'
<1> DEFINE g == Frame(f, note, <<>>)
<1>1. /\ IsFrame(g) /\ g.fn = f /\ g.acc = <<>> /\ g.n = 0
      /\ g.fn \in Chain => Fresh(g)
  BY NewFrame DEF Frame
<1>2. stack' = Append(stack, g) /\ call' = c
  BY DEF Calls, Push
<1> HIDE DEF g
<1>3. Fits(g, Top, Rem - One(g.fn \in Counted))
  BY <1>1, NewFits
<1> QED BY <1>1, <1>2, <1>3, HeightPush

(* What came back is within what the innermost call may be given.          *)
LEMMA BackWithin ==
  ASSUME StackInv, HeightInv, NEW f, Back(f), f \notin {"policy", "scope"}, ret # Null
  PROVE  /\ stack # <<>> /\ Top.fn = f /\ call = "return"
         /\ Within(ret, Budget(Top, Rem)) /\ Budget(Top, Rem) \in Nat
         /\ IsFrame(Top) /\ Rem \in Nat
<1>1. stack # <<>> /\ Top.fn = f /\ call = "return"
  BY DEF Back
<1>2. Within(ret, Budget(Top, Rem))
  BY <1>1 DEF HeightInv, Rem
<1>3. IsFrame(Top) /\ Rem \in Nat
  BY <1>1, TopFrame, RemNat
<1>4. Budget(Top, Rem) \in Nat
  BY <1>3, BudgetNat DEF IsFrame
<1> QED BY <1>1, <1>2, <1>3, <1>4

(* An error returns NULL.                                                  *)
LEMMA HeightFails ==
  ASSUME StackInv, HeightInv, policies' = policies, stack # <<>>, Refuses \/ PopsNull
  PROVE  HeightInv'
<1>1. CASE Refuses
  BY <1>1, HeightStands DEF Refuses, Returns
<1>2. CASE PopsNull
  BY <1>2, HeightPopsNull DEF PopsNull
<1> QED BY <1>1, <1>2

(* One tree more.                                                          *)
LEMMA WithinAppend ==
  ASSUME NEW a, Linked(a), NEW h, \A k \in DOMAIN a : Within(a[k], h),
         NEW t, Within(t, h)
  PROVE  \A k \in DOMAIN Append(a, t) : Within(Append(a, t)[k], h)
<1>1. PICK S : a \in Seq(S)
  BY DEF Linked
<1>2. a \in Seq(S \cup {t})
  <2>1. Len(a) \in Nat /\ a \in [1..Len(a) -> S]
    BY <1>1
  <2>2. a \in [1..Len(a) -> S \cup {t}]
    BY <2>1
  <2> QED BY <2>1, <2>2
<1>3. /\ DOMAIN Append(a, t) = 1..Len(a) + 1 /\ DOMAIN a = 1..Len(a) /\ Len(a) \in Nat
      /\ Append(a, t)[Len(a) + 1] = t /\ \A k \in 1..Len(a) : Append(a, t)[k] = a[k]
  BY <1>2
<1>4. \A k \in 1..Len(a) + 1 : k \in 1..Len(a) \/ k = Len(a) + 1
  BY <1>3
<1> QED BY <1>3, <1>4

(* A list of one and another.                                              *)
LEMMA ConcatPair ==
  ASSUME NEW x, NEW z
  PROVE  <<x>> \o <<>> = <<x>> /\ <<x>> \o <<z>> = <<x, z>>
<1>1. <<x>> \in Seq({x, z}) /\ <<z>> \in Seq({x, z}) /\ <<x, z>> \in Seq({x, z})
  OBVIOUS
<1>2. <<x>> \o <<>> = <<x>>
  BY <1>1, ConcatEmptySeq
<1>3. /\ Len(<<x>> \o <<z>>) = 2 /\ <<x>> \o <<z>> \in Seq({x, z})
      /\ (<<x>> \o <<z>>)[1] = x /\ (<<x>> \o <<z>>)[2] = z
  BY <1>1, ConcatProperties
<1>4. Len(<<x, z>>) = 2 /\ <<x, z>>[1] = x /\ <<x, z>>[2] = z
  OBVIOUS
<1>5. \A i \in 1..2 : (<<x>> \o <<z>>)[i] = <<x, z>>[i]
  BY <1>3, <1>4
<1> DEFINE u == <<x>> \o <<z>>
           v == <<x, z>>
<1> HIDE DEF u, v
<1>6. /\ u \in Seq({x, z}) /\ v \in Seq({x, z}) /\ Len(u) = Len(v)
      /\ \A i \in 1..Len(u) : u[i] = v[i]
  BY <1>1, <1>3, <1>4, <1>5 DEF u, v
<1>7. u = v
  BY <1>6, SeqEqual
<1> QED BY <1>2, <1>7 DEF u, v

(* What the productions link into what they build.                         *)
LEMMA KidsBuilt ==
  /\ \A v : Leaf(v).kids = <<>> /\ Ref(v).kids = <<>> /\ Long(v).kids = <<>>
            /\ Boolean(v).kids = <<>> /\ Atom(v).kids = <<>> /\ SetOf(v).kids = v
  /\ \A x, y, z : Binary(x, y, z).kids = <<y, z>> /\ RecordOf(x, y).kids = y
  /\ \A x, y, z : Is(x, y, <<>>).kids = <<x>> /\ Is(x, y, <<z>>).kids = <<x, z>>
  /\ \A x, y, z : Method(x, y, <<>>).kids = <<x>> /\ Method(x, y, <<z>>).kids = <<x, z>>
<1>1. \A v : Leaf(v).kids = <<>> /\ Ref(v).kids = <<>> /\ SetOf(v).kids = v
  BY DEF Leaf, Ref, SetOf
<1>2. \A v : Long(v).kids = <<>> /\ Boolean(v).kids = <<>>
  BY <1>1 DEF Long, Boolean
<1>3. \A v : Atom(v).kids = <<>>
  <2> TAKE v
  <2>1. CASE v.t \in {"true", "false"}
    BY <1>2, <2>1 DEF Atom
  <2>2. CASE v.t = "number"
    BY <1>2, <2>2 DEF Atom
  <2>3. CASE v.t = "string"
    BY <1>1, <2>3 DEF Atom
  <2>4. CASE v.t \notin {"true", "false", "number", "string"}
    BY <2>4 DEF Atom
  <2> QED BY <2>1, <2>2, <2>3, <2>4
<1>4. \A x, y, z : Binary(x, y, z).kids = <<y, z>> /\ RecordOf(x, y).kids = y
  BY DEF Binary, RecordOf
<1>5. \A x, y, z : Is(x, y, <<>>).kids = <<x>> /\ Is(x, y, <<z>>).kids = <<x, z>>
  BY ConcatPair DEF Is
<1>6. \A x, y, z : Method(x, y, <<>>).kids = <<x>> /\ Method(x, y, <<z>>).kids = <<x, z>>
  BY ConcatPair DEF Method
<1>7. \A v : Leaf(v).kids = <<>> /\ Ref(v).kids = <<>> /\ Long(v).kids = <<>>
               /\ Boolean(v).kids = <<>> /\ Atom(v).kids = <<>> /\ SetOf(v).kids = v
  BY <1>1, <1>2, <1>3, Zenon
<1> QED BY <1>4, <1>5, <1>6, <1>7

(* What a call may be given depends on its production and its steps.       *)
LEMMA SameBudget ==
  ASSUME NEW f, NEW g, f.fn = g.fn, f.fn # "member" \/ f.n = g.n, NEW r
  PROVE  Budget(f, r) = Budget(g, r)
BY DEF Budget

(* The innermost frame with the operands acc so far.                       *)
LEMMA FitsOperands ==
  ASSUME NEW f, IsFrame(f), f.fn \in {"ite", "set", "record", "relation"}, NEW g, NEW r,
         NEW acc, \A k \in DOMAIN acc : Within(acc[k], Budget(f, r)), NEW note
  PROVE  /\ Fits([f EXCEPT !.acc = acc], g, r)
         /\ Fits([f EXCEPT !.note = note, !.acc = acc], g, r)
         /\ Fits([f EXCEPT !.acc = acc, !.note = note], g, r)
<1>1. ASSUME NEW h, IsFrame(h), h.fn = f.fn, h.n = f.n, h.acc = acc
      PROVE  Fits(h, g, r)
  <2>1. Budget(h, r) = Budget(f, r)
    BY <1>1, SameBudget
  <2>2. h.fn \in {"ite", "set", "record", "relation"}
    BY <1>1
  <2> QED BY <1>1, <2>1, <2>2 DEF Fits, Chain
<1> QED BY <1>1 DEF IsFrame

(* What a frame has so far, and what came back.                            *)
LEMMA OperandsWithin ==
  ASSUME StackInv, LinkInv, HeightInv, stack # <<>>, Top.fn \in {"ite", "set", "record"},
         Within(ret, Budget(Top, Rem))
  PROVE  LET acc == Append(Top.acc, ret) IN
         \A k \in DOMAIN acc : Within(acc[k], Budget(Top, Rem))
<1>1. Linked(Top.acc)
  BY TopFilled DEF Filled
<1>2. Fits(Top, Below[Len(Below)], Rem)
  BY TopFits
<1>3. \A k \in DOMAIN Top.acc : Within(Top.acc[k], Budget(Top, Rem))
  BY <1>2 DEF Fits
<1> QED BY <1>1, <1>3, WithinAppend

(* A tree without operands may be given to a call that waits for one.      *)
LEMMA GivenLeaf ==
  ASSUME StackInv, stack # <<>>, Top.fn \in {"mult", "unary", "member"},
         NEW t, t.kids = <<>>
  PROVE  Within(t, Budget(Top, Rem))
<1>1. IsFrame(Top) /\ Rem \in Nat
  BY TopFrame, RemNat
<1>2. Budget(Top, Rem) \in Nat /\ Budget(Top, Rem) > 0
  BY <1>1, BudgetNat DEF IsFrame
<1> QED BY <1>2, WithinLeaf

(* Every step of the parser over an expression keeps within the bounds.    *)
LEMMA ExprStepHeights ==
  ASSUME StackInv, WellRead, HeightInv, ExprStep
  PROVE  HeightInv'
<1>0. LinkInv
  BY DEF WellRead
<1>k. ASSUME Keep
      PROVE  policies' = policies
  BY <1>k DEF Keep
<1>1. CASE ParseExpr
  <2>1. stack # <<>> /\ policies' = policies
    BY <1>1, <1>k, Caller DEF ParseExpr
  <2>2. \/ Refuses \/ Calls(Push("ite", ""), "expr") \/ Calls(Push("expr", ""), "or")
    BY <1>1 DEF ParseExpr
  <2>3. {"ite", "expr"} \subseteq Waiting \ {"policy", "method"} /\ "ite" \notin Chain
        /\ "expr" \notin Chain
    BY DEF Waiting, Counted, Chain
  <2> QED BY <2>1, <2>2, <2>3, HeightFails, HeightCalls
<1>2. CASE EndExpr
  <2>1. stack # <<>> /\ Top.fn = "expr" /\ Pops(ret) /\ policies' = policies
    BY <1>2, <1>k DEF EndExpr, Back
  <2>2. CASE ret # Null
    <3>1. Within(ret, Budget(Top, Rem))
      BY <1>2, <2>2, BackWithin DEF EndExpr
    <3>2. Yields(Top, Below[Len(Below)], Rem) = Budget(Top, Rem)
      BY <2>1 DEF Yields, Chain
    <3> QED BY <2>1, <3>1, <3>2, HeightPops
  <2> QED BY <2>1, <2>2, HeightPopsNull
<1>3. CASE EndIteOperand
  <2> DEFINE kids == Append(Top.acc, ret)
             b == Budget(Top, Rem)
  <2>1. Back("ite") /\ ret # Null /\ policies' = policies
    BY <1>0, <1>3, <1>k, BackGives DEF EndIteOperand
  <2>2. /\ stack # <<>> /\ Top.fn = "ite" /\ Within(ret, b) /\ b \in Nat /\ IsFrame(Top)
    BY <2>1, BackWithin
  <2> HIDE DEF b
  <2>4. \A k \in DOMAIN kids : Within(kids[k], b)
    BY <1>0, <2>2, OperandsWithin DEF b
  <2> HIDE DEF kids
  <2>5. CASE Pops([op |-> "ite", kids |-> kids])
    <3>1. Within([op |-> "ite", kids |-> kids], b + 1)
      BY <2>2, <2>4, WithinBuild
    <3>2. Yields(Top, Below[Len(Below)], Rem) = b + 1
      BY <2>2 DEF Yields, Chain, b
    <3> QED BY <2>1, <2>2, <2>5, <3>1, <3>2, HeightPops
  <2>6. CASE Level /\ Calls(Append(Below, [Top EXCEPT !.acc = kids]), "expr")
    <3> DEFINE f == [Top EXCEPT !.acc = kids]
    <3>1. IsFrame(f) /\ f.fn = Top.fn
      BY <2>2, FrameGoesOn
    <3>2. Fits(f, Below[Len(Below)], Rem)
      BY <2>2, <2>4, FitsOperands DEF b
    <3>3. stack' = Append(Below, f) /\ call' = "expr"
      BY <2>6 DEF Calls
    <3> HIDE DEF f
    <3> QED BY <2>1, <2>2, <2>6, <3>1, <3>2, <3>3, HeightSwap
  <2> QED BY <1>3, <2>1, <2>2, <2>5, <2>6, HeightFails DEF EndIteOperand, kids
<1>4. CASE ParseChain
  <2>1. stack # <<>> /\ policies' = policies
    BY <1>4, <1>k, Caller DEF ParseChain, Chain
  <2>2. Calls(Push(call, ""), Operand[call]) /\ call \in Chain
    BY <1>4 DEF ParseChain
  <2>3. call \in Waiting \ {"policy", "method"} /\ Operand[call] # "return"
    <3>1. call \in {"or", "and", "add", "mult"}
      BY <2>2 DEF Chain
    <3>2. call \in Waiting
      BY <3>1 DEF Chain, Waiting
    <3> QED BY <3>1, <3>2 DEF Operand
  <2>4. Fresh(Frame(call, "", <<>>))
    BY Zenon DEF Fresh, Frame
  <2> QED BY <2>1, <2>2, <2>3, <2>4, HeightCalls
<1>5. CASE EndChainOperand
  <2> DEFINE b == Budget(Top, Rem)
             n == Top.n
             op == Binary(Top.note, Top.acc[1], ret)
  <2>1. Back(Top.fn) /\ Top.fn \in Chain /\ Top.fn \notin {"expr", "policy", "scope"}
    BY <1>5 DEF EndChainOperand, Back, Chain
  <2>2. ret # Null /\ policies' = policies
    BY <1>0, <1>5, <1>k, <2>1, BackGives DEF EndChainOperand
  <2>3. stack # <<>> /\ Within(ret, b) /\ b \in Nat /\ IsFrame(Top) /\ Rem \in Nat
    BY <2>1, <2>2, BackWithin
  <2>4. Fits(Top, Below[Len(Below)], Rem)
    BY <2>1, <2>3, TopFits
  <2>5. n \in Nat /\ n <= MaxBinopChain /\ MaxBinopChain \in Nat
    BY <2>1, <2>3, <2>4, LimitAssumption DEF Fits, IsFrame
  <2>6. PICK left : /\ \/ Fresh(Top) /\ left = ret
                       \/ ~Fresh(Top) /\ left = op
                    /\ \/ Pops(left)
                       \/ PopsNull
                       \/ /\ Top.n < MaxBinopChain /\ Level
                          /\ Calls(Append(Below, [Top EXCEPT !.note = Tok(pos).t,
                                                             !.acc = <<left>>, !.n = @ + 1]),
                                   Operand[Top.fn])
    <3> DEFINE l == IF Fresh(Top) THEN ret ELSE op
    <3>1. \/ Pops(l)
          \/ PopsNull
          \/ /\ ~(Top.n >= MaxBinopChain) /\ Level
             /\ Calls(Append(Below, [Top EXCEPT !.note = Tok(pos).t,
                                                !.acc = <<l>>, !.n = @ + 1]),
                      Operand[Top.fn])
      BY <1>5, Zenon DEF EndChainOperand, Fresh
    <3>2. ~(Top.n >= MaxBinopChain) <=> Top.n < MaxBinopChain
      BY <2>5
    <3>3. \/ Fresh(Top) /\ l = ret
          \/ ~Fresh(Top) /\ l = op
      OBVIOUS
    <3> HIDE DEF l, op
    <3> QED BY <3>1, <3>2, <3>3
  <2>7. Within(left, b + n)
    <3>1. CASE left = ret
      BY <2>3, <2>5, <3>1, WithinMore
    <3>2. CASE ~Fresh(Top) /\ left = op
      <4>1. n >= 1 /\ Within(Top.acc[1], b + n - 1)
        BY <2>1, <2>4, <3>2 DEF Fits
      <4> HIDE DEF b, n
      <4>2. b + n - 1 \in Nat /\ b <= b + n - 1 /\ (b + n - 1) + 1 = b + n
        BY <2>3, <2>5, <4>1
      <4>3. Within(ret, b + n - 1)
        BY <2>3, <4>2, WithinMore
      <4>4. op.kids = <<Top.acc[1], ret>>
        BY KidsBuilt
      <4> HIDE DEF op
      <4>5. Within(op, (b + n - 1) + 1)
        BY <4>1, <4>2, <4>3, <4>4, WithinOver
      <4> QED BY <3>2, <4>2, <4>5
    <3> QED BY <2>6, <3>1, <3>2
  <2>8. CASE Pops(left)
    <3>1. Yields(Top, Below[Len(Below)], Rem) = b + MaxBinopChain
      <4>1. Top.fn \notin {"method", "relation", "unary", "ite", "set", "record"}
        BY <2>1 DEF Chain
      <4> QED BY <2>1, <4>1, Zenon DEF Yields
    <3> HIDE DEF b, n
    <3>2. b + n \in Nat /\ b + MaxBinopChain \in Nat /\ b + n <= b + MaxBinopChain
      BY <2>3, <2>5
    <3>3. Within(left, b + MaxBinopChain)
      BY <2>7, <3>2, WithinMore
    <3> QED BY <2>1, <2>2, <2>3, <2>8, <3>1, <3>3, HeightPops
  <2>9. CASE /\ Top.n < MaxBinopChain /\ Level
             /\ Calls(Append(Below, [Top EXCEPT !.note = Tok(pos).t,
                                                !.acc = <<left>>, !.n = @ + 1]),
                      Operand[Top.fn])
    <3> DEFINE f == [Top EXCEPT !.note = Tok(pos).t, !.acc = <<left>>, !.n = @ + 1]
    <3>1. IsFrame(f) /\ f.fn = Top.fn /\ f.n = n + 1 /\ f.acc = <<left>>
      BY <2>3 DEF IsFrame
    <3>2. stack' = Append(Below, f) /\ call' # "return"
      BY <2>1, <2>9 DEF Calls, Operand, Chain
    <3> HIDE DEF f
    <3>3. Budget(f, Rem) = b
      BY <2>1, <3>1, SameBudget DEF Chain
    <3>4. f.n <= MaxBinopChain /\ f.n >= 1 /\ b + f.n - 1 = b + n
      <4> HIDE DEF b
      <4> QED BY <2>3, <2>5, <2>9, <3>1
    <3>5. Within(f.acc[1], Budget(f, Rem) + f.n - 1)
      <4>1. f.acc[1] = left
        BY <3>1
      <4> QED BY <2>7, <3>3, <3>4, <4>1
    <3>6. f.fn \in Chain /\ f.fn \notin {"policy", "method", "member", "ite", "set", "record", "relation"}
      BY <2>1, <3>1 DEF Chain
    <3>7. Fits(f, Below[Len(Below)], Rem)
      <4> HIDE DEF b, n
      <4> QED BY <3>4, <3>5, <3>6 DEF Fits
    <3> QED BY <2>1, <2>2, <2>3, <2>9, <3>1, <3>2, <3>7, HeightSwap
  <2> QED BY <2>2, <2>3, <2>6, <2>8, <2>9, HeightFails
<1>6. CASE ParseRelation
  <2>1. stack # <<>> /\ policies' = policies /\ Calls(Push("relation", ""), "add")
    BY <1>6, <1>k, Caller DEF ParseRelation
  <2>2. "relation" \in Waiting \ {"policy", "method"} /\ "relation" \notin Chain
    BY DEF Waiting, Chain
  <2> QED BY <2>1, <2>2, HeightCalls
<1>7. CASE EndRelationLeft
  <2> DEFINE b == Budget(Top, Rem)
  <2>1. Back("relation") /\ ret # Null /\ policies' = policies
    BY <1>0, <1>7, <1>k, BackGives DEF EndRelationLeft
  <2>2. stack # <<>> /\ Top.fn = "relation" /\ Within(ret, b) /\ b \in Nat /\ IsFrame(Top)
    BY <2>1, BackWithin
  <2>3. Yields(Top, Below[Len(Below)], Rem) = b + 1
    BY <2>2 DEF Yields, Chain
  <2>4. ASSUME NEW node, Pops(node), node = ret \/ node.kids = <<ret>>
        PROVE  HeightInv'
    <3> HIDE DEF b
    <3>1. b + 1 \in Nat /\ b <= b + 1
      BY <2>2
    <3>2. Within(ret, b + 1)
      BY <2>2, <3>1, WithinMore
    <3>3. Within(node, b + 1)
      BY <2>2, <2>4, <3>2, WithinOver
    <3> QED BY <2>1, <2>2, <2>3, <2>4, <3>3, HeightPops
  <2>5. ASSUME NEW k, NEW op, NEW v, AwaitsRight(k, op, v)
        PROVE  HeightInv'
    <3> DEFINE f == [Top EXCEPT !.note = <<op, v>>, !.acc = <<ret>>]
    <3>1. IsFrame(f) /\ f.fn = Top.fn
      BY <2>2 DEF IsFrame
    <3>2. Fits(f, Below[Len(Below)], Rem)
      <4>1. \A j \in DOMAIN <<ret>> : Within(<<ret>>[j], b)
        BY <2>2
      <4> QED BY <2>2, <4>1, FitsOperands
    <3>3. stack' = Append(Below, f) /\ call' = "add" /\ Level
      BY <2>5 DEF AwaitsRight, Calls
    <3> HIDE DEF f
    <3> QED BY <2>1, <2>2, <3>1, <3>2, <3>3, HeightSwap
  <2>6. \/ PopsNull
        \/ \E name : Pops([op |-> "has", kids |-> <<ret>>, name |-> name])
        \/ \E p : Pops([op |-> "like", kids |-> <<ret>>, pattern |-> p])
        \/ \E t : Pops(Is(ret, t, <<>>))
        \/ Pops(ret)
        \/ \E k, op, v : AwaitsRight(k, op, v)
    BY <1>7 DEF EndRelationLeft
  <2>7. \A x : /\ [op |-> "has", kids |-> <<ret>>, name |-> x].kids = <<ret>>
               /\ [op |-> "like", kids |-> <<ret>>, pattern |-> x].kids = <<ret>>
               /\ Is(ret, x, <<>>).kids = <<ret>>
    BY KidsBuilt
  <2> QED BY <2>1, <2>2, <2>4, <2>5, <2>6, <2>7, HeightFails
<1>8. CASE EndRelationRight
  <2> DEFINE b == Budget(Top, Rem)
  <2>1. Back("relation") /\ ret # Null /\ policies' = policies /\ Top.acc # <<>>
    BY <1>0, <1>8, <1>k, BackGives DEF EndRelationRight
  <2>2. stack # <<>> /\ Top.fn = "relation" /\ Within(ret, b) /\ b \in Nat /\ IsFrame(Top)
    BY <2>1, BackWithin
  <2>3. Yields(Top, Below[Len(Below)], Rem) = b + 1
    BY <2>2 DEF Yields, Chain
  <2>4. Within(Top.acc[1], b)
    <3>1. Fits(Top, Below[Len(Below)], Rem)
      BY <2>2, TopFits
    <3>2. 1 \in DOMAIN Top.acc
      <4>1. PICK S : Top.acc \in Seq(S)
        BY <1>0, <2>2, TopFilled DEF Filled, Linked
      <4> QED BY <2>1, <4>1
    <3> QED BY <2>2, <3>1, <3>2 DEF Fits
  <2>5. PICK node : Pops(node) /\ node.kids = <<Top.acc[1], ret>>
    BY <1>8, KidsBuilt DEF EndRelationRight
  <2> HIDE DEF b
  <2>6. Within(node, b + 1)
    BY <2>2, <2>4, <2>5, WithinOver
  <2> QED BY <2>1, <2>2, <2>3, <2>5, <2>6, HeightPops
<1>9. CASE ParseUnary
  <2>1. stack # <<>> /\ Top.fn \in {"mult", "unary"} /\ policies' = policies
    BY <1>9, <1>k, Caller DEF ParseUnary, Enters
  <2>2. \/ Refuses
        \/ \E n : Returns(stack, Long(n)) /\ Level
        \/ Calls(Push("unary", Tok(pos).t), "unary")
        \/ Calls(Push("member", ""), "primary")
    BY <1>9 DEF ParseUnary
  <2>3. ASSUME NEW n, Returns(stack, Long(n)), Level
        PROVE  HeightInv'
    <3>1. Within(Long(n), Budget(Top, Rem))
      BY <2>1, GivenLeaf, KidsBuilt
    <3> QED BY <2>1, <2>3, <3>1, HeightStands DEF Returns
  <2>4. {"unary", "member"} \subseteq Waiting \ {"policy", "method"}
        /\ "unary" \notin Chain /\ "member" \notin Chain
    BY DEF Waiting, Counted, Chain
  <2> QED BY <2>1, <2>2, <2>3, <2>4, HeightFails, HeightCalls
<1>10. CASE EndUnary
  <2> DEFINE b == Budget(Top, Rem)
  <2>1. Back("unary") /\ ret # Null /\ policies' = policies
    BY <1>0, <1>10, <1>k, BackGives DEF EndUnary
  <2>2. stack # <<>> /\ Top.fn = "unary" /\ Within(ret, b) /\ b \in Nat
    BY <2>1, BackWithin
  <2>3. Yields(Top, Below[Len(Below)], Rem) = b + 1
    BY <2>2 DEF Yields, Chain
  <2>4. PICK node : Pops(node) /\ node.kids = <<ret>>
    BY <1>10 DEF EndUnary
  <2> HIDE DEF b
  <2>5. Within(node, b + 1)
    BY <2>2, <2>4, WithinOver
  <2> QED BY <2>1, <2>2, <2>3, <2>4, <2>5, HeightPops
<1>11. CASE MemberStep
  <2> DEFINE b == Budget(Top, Rem)
             g == [Top EXCEPT !.n = @ + 1]
             h == Below[Len(Below)]
  <2>1. Back("member") /\ ret # Null /\ policies' = policies
    BY <1>0, <1>11, <1>k, BackGives DEF MemberStep
  <2>2. /\ stack # <<>> /\ Top.fn = "member" /\ Within(ret, b) /\ b \in Nat
        /\ IsFrame(Top) /\ Rem \in Nat
    BY <2>1, BackWithin
  <2>3. IsFrame(g) /\ g.fn = "member" /\ g.n = Top.n + 1 /\ Top.n \in Nat
    BY <2>2 DEF IsFrame
  <2> HIDE DEF g
  <2>4. /\ Budget(g, Rem) = b + 1
        /\ HeightOf(Rem) + g.n = b
    <3>1. HeightOf(Rem) \in Nat
      BY <2>2, HeightGrows
    <3>2. b = HeightOf(Rem) + 1 + Top.n
      BY <2>2 DEF Budget
    <3>3. Budget(g, Rem) = HeightOf(Rem) + 1 + g.n
      BY <2>3 DEF Budget
    <3> HIDE DEF b
    <3> QED BY <2>3, <3>1, <3>2, <3>3
  <2>5. ASSUME Top.n < MaxMemberChain
        PROVE  Fits(g, h, Rem)
    <3>1. g.n <= MaxMemberChain
      BY <2>3, <2>5, LimitAssumption
    <3> QED BY <2>3, <3>1 DEF Fits, Chain
  <2>6. /\ IsStack(Below) /\ Below # <<>> /\ AllFit(Below)
        /\ Rest(Below, Len(Below)) = Rem
    <3>1. One(Top.fn \in Counted) = 0
      BY <2>2 DEF One, Counted
    <3> QED BY <2>2, <3>1, TopFits
  <2>7. CASE Pops(ret)
    <3>1. Yields(Top, h, Rem) = b
      BY <2>2 DEF Yields, Chain
    <3> QED BY <2>1, <2>2, <2>7, <3>1, HeightPops
  <2>8. ASSUME Top.n < MaxMemberChain, Level, NEW node, Returns(Append(Below, g), node),
               node.kids = <<ret>>
        PROVE  HeightInv'
    <3>1. Within(node, b + 1)
      <4> HIDE DEF b
      <4> QED BY <2>2, <2>8, WithinOver
    <3>2. stack' = Append(Below, g) /\ ret' = node
      BY <2>8 DEF Returns
    <3> HIDE DEF h, b
    <3> QED BY <2>1, <2>2, <2>3, <2>4, <2>5, <2>8, <3>1, <3>2, HeightSwap DEF h
  <2>9. ASSUME Top.n < MaxMemberChain, NEW name,
               Calls(Append(Append(Below, g), Frame("method", name, <<ret>>)), "expr")
        PROVE  HeightInv'
    <3> DEFINE f == Frame("method", name, <<ret>>)
               s == Append(Below, g)
    <3>1. IsFrame(f) /\ f.fn = "method" /\ f.acc[1] = ret
      BY NewFrame DEF Waiting, Frame
    <3>2. /\ IsStack(s) /\ s[Len(s)] = g /\ s # <<>>
      <4>1. IsStack(s) /\ Len(s) = Len(Below) + 1 /\ Len(Below) \in Nat /\ s[Len(Below) + 1] = g
        BY <2>3, <2>6, AppendStack
      <4>2. Len(<<>>) = 0
        OBVIOUS
      <4> HIDE DEF s
      <4>3. Len(s) # 0
        BY <4>1
      <4> QED BY <4>1, <4>2, <4>3
    <3>3. AllFit(s)
      <4>1. One(g.fn \in Counted) = 0
        BY <2>3 DEF One, Counted
      <4>2. Fits(g, Below[Len(Below)], Rest(Below, Len(Below)) - One(g.fn \in Counted))
        BY <2>2, <2>5, <2>6, <2>9, <4>1
      <4> QED BY <2>3, <2>6, <4>2, FitAppend
    <3>4. Rest(s, Len(s)) = Rem
      <4>1. Len(Below) \in Nat /\ Len(s) = Len(Below) + 1 /\ s[Len(Below) + 1] = g
            /\ \A j \in 1..Len(Below) : s[j] = Below[j]
        BY <2>3, <2>6, AppendStack
      <4> HIDE DEF s
      <4>2. /\ Count(s, Counted, Len(Below) + 1)
                 = Count(s, Counted, Len(Below)) + One(s[Len(Below) + 1].fn \in Counted)
            /\ Count(s, Counted, Len(Below)) \in Nat
        BY <4>1, CountNext, Zenon
      <4>3. Count(s, Counted, Len(Below)) = Count(Below, Counted, Len(Below))
        <5>1. \A j \in 1..Len(Below) : s[j].fn = Below[j].fn
          BY <4>1
        <5> QED BY <4>1, <5>1, CountSame, Zenon
      <4>4. One(g.fn \in Counted) = 0
        BY <2>3 DEF One, Counted
      <4>5. Count(s, Counted, Len(s)) = Count(Below, Counted, Len(Below))
        BY <4>1, <4>2, <4>3, <4>4
      <4> QED BY <2>6, <4>5 DEF Rest
    <3>5. Fits(f, g, Rem - One(f.fn \in Counted))
      <4>1. Rem - One(f.fn \in Counted) = Rem
        <5>1. One(f.fn \in Counted) = 0
          BY <3>1 DEF One, Counted
        <5> QED BY <2>2, <5>1
      <4>2. Budget(f, Rem) = HeightOf(Rem)
        BY <3>1 DEF Budget
      <4> HIDE DEF f, b
      <4>3. Within(f.acc[1], Budget(f, Rem) + g.n)
        BY <2>2, <2>4, <3>1, <4>2
      <4>4. Fits(f, g, Rem)
        BY <3>1, <4>3 DEF Fits, Chain
      <4> QED BY <4>1, <4>4
    <3>6. stack' = Append(s, f) /\ call' = "expr"
      BY <2>9 DEF Calls
    <3> HIDE DEF s, f
    <3>7. AllFit(Append(s, f))
      BY <3>1, <3>2, <3>3, <3>4, <3>5, FitAppend
    <3> QED BY <2>1, <3>6, <3>7 DEF HeightInv, Accepted, Done
  <2>10. \/ Pops(ret)
         \/ PopsNull
         \/ /\ Top.n < MaxMemberChain
            /\ \/ \E k, name : Access(k, ret, name)
               \/ \E name : Level /\ Returns(Append(Below, g), Method(ret, name, <<>>))
               \/ \E name : Calls(Append(Append(Below, g), Frame("method", name, <<ret>>)), "expr")
    BY <1>11 DEF MemberStep, g
  <2>11. ASSUME NEW k, NEW name, Access(k, ret, name)
         PROVE  \E n : Level /\ Returns(Append(Below, g), n) /\ n.kids = <<ret>>
    BY <2>11 DEF Access, g
  <2>12. \A name : Method(ret, name, <<>>).kids = <<ret>>
    BY KidsBuilt
  <2> HIDE DEF b, h
  <2> QED BY <2>1, <2>2, <2>7, <2>8, <2>9, <2>10, <2>11, <2>12, HeightFails
<1>12. CASE EndMethod
  <2> DEFINE b == Budget(Top, Rem)
             g == Below[Len(Below)]
  <2>1. Back("method") /\ ret # Null /\ policies' = policies
    BY <1>0, <1>12, <1>k, BackGives DEF EndMethod
  <2>2. stack # <<>> /\ Top.fn = "method" /\ Within(ret, b) /\ b \in Nat
    BY <2>1, BackWithin
  <2>3. Yields(Top, g, Rem) = b + g.n + 1
    BY <2>2 DEF Yields, Chain
  <2>4. Fits(Top, g, Rem) /\ IsFrame(g)
    BY <2>2, TopFits
  <2>5. Within(Top.acc[1], b + g.n) /\ g.n \in Nat
    BY <2>2, <2>4 DEF Fits, IsFrame
  <2>6. CASE Pops(Method(Top.acc[1], Top.note, <<ret>>))
    <3> DEFINE node == Method(Top.acc[1], Top.note, <<ret>>)
    <3>1. node.kids = <<Top.acc[1], ret>>
      BY KidsBuilt
    <3> HIDE DEF b, g, node
    <3>2. b + g.n \in Nat /\ b <= b + g.n
      BY <2>2, <2>5
    <3>3. Within(ret, b + g.n)
      BY <2>2, <3>2, WithinMore
    <3>4. Within(node, b + g.n + 1)
      BY <2>5, <3>1, <3>2, <3>3, WithinOver
    <3> QED BY <2>1, <2>2, <2>3, <2>6, <3>4, HeightPops DEF node, g
  <2> QED BY <1>12, <2>1, <2>2, <2>6, HeightFails DEF EndMethod
<1>13. CASE ParsePrimary
  <2>1. stack # <<>> /\ Top.fn = "member" /\ policies' = policies
    BY <1>13, <1>k, Caller DEF ParsePrimary, Enters
  <2>2. \/ Refuses
        \/ \E node : Level /\ Returns(stack, node) /\ node.kids = <<>>
        \/ Calls(Push("paren", ""), "expr")
        \/ \E c \in {"set", "record"} : Level /\ Calls(stack, c)
    <3>1. \A v : Atom(v).kids = <<>> /\ Ref(v).kids = <<>>
      BY KidsBuilt
    <3>2. \A x, y : [op |-> "ext", kids |-> <<>>, fn |-> x, text |-> y].kids = <<>>
      OBVIOUS
    <3>3. \/ Refuses
          \/ Level /\ Returns(stack, Atom(Tok(pos)))
          \/ Level /\ \E x, y : Returns(stack, [op |-> "ext", kids |-> <<>>, fn |-> x, text |-> y])
          \/ Level /\ Returns(stack, Ref(UidAt(pos)))
          \/ Calls(Push("paren", ""), "expr")
          \/ Level /\ Calls(stack, "set")
          \/ Level /\ Calls(stack, "record")
      BY <1>13 DEF ParsePrimary
    <3> QED BY <3>1, <3>2, <3>3
  <2>3. ASSUME NEW node, Level, Returns(stack, node), node.kids = <<>>
        PROVE  HeightInv'
    <3>1. Within(node, Budget(Top, Rem))
      BY <2>1, <2>3, GivenLeaf
    <3> QED BY <2>1, <2>3, <3>1, HeightStands DEF Returns
  <2>4. ASSUME NEW c \in {"set", "record"}, Level, Calls(stack, c)
        PROVE  HeightInv'
    <3>1. stack' = stack /\ call' # "return"
      BY <2>4 DEF Calls
    <3> QED BY <2>1, <2>4, <3>1, HeightStands
  <2>5. "paren" \in Waiting \ {"policy", "method"} /\ "paren" \notin Chain
    BY DEF Waiting, Chain
  <2> QED BY <2>1, <2>2, <2>3, <2>4, <2>5, HeightFails, HeightCalls
<1>14. CASE EndParen
  <2>1. Back("paren") /\ ret # Null /\ policies' = policies
    BY <1>0, <1>14, <1>k, BackGives DEF EndParen
  <2>2. stack # <<>> /\ Top.fn = "paren" /\ Within(ret, Budget(Top, Rem))
    BY <2>1, BackWithin
  <2>3. Yields(Top, Below[Len(Below)], Rem) = Budget(Top, Rem)
    BY <2>2 DEF Yields, Chain
  <2>4. PopsNull \/ Pops(ret)
    BY <1>14 DEF EndParen
  <2> QED BY <2>1, <2>2, <2>3, <2>4, HeightPops, HeightFails
<1>15. CASE ParseSet
  <2>1. stack # <<>> /\ Top.fn \in {"scope", "member"} /\ policies' = policies
    BY <1>15, <1>k, Caller DEF ParseSet, Enters
  <2>2. (Level /\ Returns(stack, SetOf(<<>>))) \/ Calls(Push("set", ""), "expr")
    BY <1>15 DEF ParseSet
  <2>3. CASE Level /\ Returns(stack, SetOf(<<>>))
    <3>1. SetOf(<<>>).kids = <<>>
      BY KidsBuilt
    <3>2. Top.fn = "scope" \/ Within(SetOf(<<>>), Budget(Top, Rem))
      BY <2>1, <3>1, GivenLeaf
    <3> QED BY <2>1, <2>3, <3>2, HeightStands DEF Returns
  <2>4. "set" \in Waiting \ {"policy", "method"} /\ "set" \notin Chain
    BY DEF Waiting, Chain
  <2> QED BY <2>1, <2>2, <2>3, <2>4, HeightCalls
<1>16. CASE EndElement
  <2> DEFINE elts == Append(Top.acc, ret)
             b == Budget(Top, Rem)
  <2>1. Back("set") /\ ret # Null /\ policies' = policies
    BY <1>0, <1>16, <1>k, BackGives DEF EndElement
  <2>2. stack # <<>> /\ Top.fn = "set" /\ Within(ret, b) /\ b \in Nat /\ IsFrame(Top)
    BY <2>1, BackWithin
  <2> HIDE DEF b
  <2>3. \A k \in DOMAIN elts : Within(elts[k], b)
    BY <1>0, <2>2, OperandsWithin DEF b
  <2> HIDE DEF elts
  <2>4. CASE Pops(SetOf(elts))
    <3>1. Within(SetOf(elts), b + 1)
      BY <2>2, <2>3, KidsBuilt, WithinBuild
    <3>2. Yields(Top, Below[Len(Below)], Rem) = b + 1
      BY <2>2 DEF Yields, Chain, b
    <3> QED BY <2>1, <2>2, <2>4, <3>1, <3>2, HeightPops
  <2>5. CASE Level /\ Calls(Append(Below, [Top EXCEPT !.acc = elts]), "expr")
    <3> DEFINE f == [Top EXCEPT !.acc = elts]
    <3>1. IsFrame(f) /\ f.fn = Top.fn
      BY <2>2, FrameGoesOn
    <3>2. Fits(f, Below[Len(Below)], Rem)
      BY <2>2, <2>3, FitsOperands DEF b
    <3>3. stack' = Append(Below, f) /\ call' = "expr"
      BY <2>5 DEF Calls
    <3> HIDE DEF f
    <3> QED BY <2>1, <2>2, <2>5, <3>1, <3>2, <3>3, HeightSwap
  <2> QED BY <1>16, <2>1, <2>2, <2>4, <2>5, HeightFails DEF EndElement, elts
<1>17. CASE ParseRecord
  <2>1. stack # <<>> /\ Top.fn = "member" /\ policies' = policies
    BY <1>17, <1>k, Caller DEF ParseRecord, Enters
  <2>2. \/ Refuses
        \/ Level /\ Returns(stack, RecordOf(<<>>, <<>>))
        \/ Calls(Push("record", <<Tok(pos + 1).v>>), "expr")
    BY <1>17 DEF ParseRecord
  <2>3. CASE Level /\ Returns(stack, RecordOf(<<>>, <<>>))
    <3>1. RecordOf(<<>>, <<>>).kids = <<>>
      BY KidsBuilt
    <3>2. Within(RecordOf(<<>>, <<>>), Budget(Top, Rem))
      BY <2>1, <3>1, GivenLeaf
    <3> QED BY <2>1, <2>3, <3>2, HeightStands DEF Returns
  <2>4. "record" \in Waiting \ {"policy", "method"} /\ "record" \notin Chain
    BY DEF Waiting, Chain
  <2> QED BY <2>1, <2>2, <2>3, <2>4, HeightFails, HeightCalls
<1>18. CASE EndEntry
  <2> DEFINE vals == Append(Top.acc, ret)
             b == Budget(Top, Rem)
  <2>1. Back("record") /\ ret # Null /\ policies' = policies
    BY <1>0, <1>18, <1>k, BackGives DEF EndEntry
  <2>2. stack # <<>> /\ Top.fn = "record" /\ Within(ret, b) /\ b \in Nat /\ IsFrame(Top)
    BY <2>1, BackWithin
  <2> HIDE DEF b
  <2>3. \A k \in DOMAIN vals : Within(vals[k], b)
    BY <1>0, <2>2, OperandsWithin DEF b
  <2> HIDE DEF vals
  <2>4. CASE Pops(RecordOf(Top.note, vals))
    <3>1. Within(RecordOf(Top.note, vals), b + 1)
      <4>1. RecordOf(Top.note, vals).kids = vals
        BY KidsBuilt
      <4> QED BY <2>2, <2>3, <4>1, WithinBuild
    <3>2. Yields(Top, Below[Len(Below)], Rem) = b + 1
      BY <2>2 DEF Yields, Chain, b
    <3> QED BY <2>1, <2>2, <2>4, <3>1, <3>2, HeightPops
  <2>5. ASSUME NEW keys, Level,
               Calls(Append(Below, [Top EXCEPT !.acc = vals, !.note = keys]), "expr")
        PROVE  HeightInv'
    <3> DEFINE f == [Top EXCEPT !.acc = vals, !.note = keys]
    <3>1. IsFrame(f) /\ f.fn = Top.fn
      BY <2>2 DEF IsFrame
    <3>2. Fits(f, Below[Len(Below)], Rem)
      BY <2>2, <2>3, FitsOperands DEF b
    <3>3. stack' = Append(Below, f) /\ call' = "expr"
      BY <2>5 DEF Calls
    <3> HIDE DEF f
    <3> QED BY <2>1, <2>2, <2>5, <3>1, <3>2, <3>3, HeightSwap
  <2>6. \/ Pops(RecordOf(Top.note, vals)) \/ PopsNull
        \/ \E keys : Level /\ Calls(Append(Below, [Top EXCEPT !.acc = vals, !.note = keys]), "expr")
    BY <1>18 DEF EndEntry, vals
  <2> QED BY <2>1, <2>2, <2>4, <2>5, <2>6, HeightFails
<1> QED BY <1>1, <1>2, <1>3, <1>4, <1>5, <1>6, <1>7, <1>8, <1>9, <1>10, <1>11, <1>12,
           <1>13, <1>14, <1>15, <1>16, <1>17, <1>18 DEF ExprStep

(* A sequence with one member more.                                        *)
LEMMA SeqOneMore ==
  ASSUME NEW S, NEW a \in Seq(S), NEW x
  PROVE  Append(a, x) \in Seq(S \cup {x})
<1>1. a \in Seq(S \cup {x})
  <2>1. Len(a) \in Nat /\ a \in [1..Len(a) -> S]
    OBVIOUS
  <2>2. a \in [1..Len(a) -> S \cup {x}]
    BY <2>1
  <2> QED BY <2>1, <2>2
<1> QED BY <1>1

(* A policy has no condition at first, and only nxe_cedar_parse_condition  *)
(* gives it one.                                                           *)
LEMMA SoundNew == Sound(NewPolicy)
<1>1. NewPolicy.conditions = <<>> /\ "conditions" \in DOMAIN NewPolicy
  BY DEF NewPolicy
<1>2. <<>> \in Seq({})
  OBVIOUS
<1> QED BY <1>1, <1>2 DEF Sound

(* Nothing but a condition matters to that.                                *)
LEMMA SoundOther ==
  ASSUME NEW p, Sound(p), NEW x, x # "conditions", NEW v
  PROVE  Sound([p EXCEPT ![x] = v])
<1> DEFINE q == [p EXCEPT ![x] = v]
<1>1. "conditions" \in DOMAIN q /\ q.conditions = p.conditions
  BY DEF Sound
<1> HIDE DEF q
<1> QED BY <1>1 DEF Sound

(* A condition that the limits allow may be added.                         *)
LEMMA SoundCondition ==
  ASSUME NEW p, Sound(p), NEW u, NEW n, Within(n, HeightOf(MaxParseDepth))
  PROVE  Sound([p EXCEPT !.conditions = Append(@, [is_unless |-> u, expr |-> n])])
<1> DEFINE c == [is_unless |-> u, expr |-> n]
           q == [p EXCEPT !.conditions = Append(@, c)]
<1>1. PICK S : /\ p.conditions \in Seq(S)
               /\ \A x \in S : Within(x.expr, HeightOf(MaxParseDepth))
  BY DEF Sound
<1>2. c.expr = n
  OBVIOUS
<1> HIDE DEF c
<1>3. "conditions" \in DOMAIN q /\ q.conditions = Append(p.conditions, c)
  BY DEF Sound
<1> HIDE DEF q
<1>4. Append(p.conditions, c) \in Seq(S \cup {c})
  BY <1>1, SeqOneMore
<1>5. \A x \in S \cup {c} : Within(x.expr, HeightOf(MaxParseDepth))
  BY <1>1, <1>2
<1>6. Sound(q)
  BY <1>3, <1>4, <1>5 DEF Sound
<1> QED BY <1>6 DEF q, c

(* So may a policy that has only such conditions.                          *)
LEMMA AllSoundNext ==
  ASSUME NEW ps, AllSound(ps), NEW p, Sound(p)
  PROVE  AllSound(Append(ps, p))
<1>1. PICK S : ps \in Seq(S) /\ \A x \in S : Sound(x)
  BY DEF AllSound
<1>2. Append(ps, p) \in Seq(S \cup {p}) /\ \A x \in S \cup {p} : Sound(x)
  BY <1>1, SeqOneMore
<1> QED BY <1>2 DEF AllSound

(* Every step over the rest of a policy keeps within the bounds.           *)
LEMMA PolicyStepHeights ==
  ASSUME StackInv, WellRead, HeightInv, PolicyStep
  PROVE  HeightInv'
<1>0. LinkInv
  BY DEF WellRead
<1>k. ASSUME Keep
      PROVE  policies' = policies
  BY <1>k DEF Keep
<1>1. CASE ParsePolicies
  <2>1. policies' = policies /\ AllSound(policies)
    BY <1>1, <1>k DEF ParsePolicies, HeightInv
  <2>2. CASE Calls(<<Frame("policy", "", <<NewPolicy>>)>>, "annotations")
    <3> DEFINE f == Frame("policy", "", <<NewPolicy>>)
    <3>1. f.fn = "policy" /\ f.acc[1] = NewPolicy
      BY DEF Frame
    <3>2. stack' = <<f>> /\ call' = "annotations"
      BY <2>2 DEF Calls
    <3> HIDE DEF f
    <3>3. ASSUME NEW g, NEW r
          PROVE  Fits(f, g, r)
      BY <3>1, SoundNew DEF Fits, Chain
    <3>4. AllFit(<<f>>)
      BY <3>3 DEF AllFit
    <3> QED BY <2>1, <3>2, <3>4 DEF HeightInv, Accepted, Done
  <2>3. CASE Returns(<<>>, IF At({"eof"}) THEN PolicySet(policies) ELSE Null)
    <3>1. stack' = <<>> /\ (ret' = Null \/ ret' = PolicySet(policies))
      BY <2>3 DEF Returns
    <3>2. AllFit(<<>>)
      BY DEF AllFit
    <3>3. PolicySet(policies).kids = policies
      BY DEF PolicySet
    <3> QED BY <2>1, <3>1, <3>2, <3>3 DEF HeightInv, Accepted
  <2> QED BY <1>1, <2>2, <2>3 DEF ParsePolicies
<1>2. CASE ParseAnnotation
  <2>1. stack # <<>> /\ Top.fn = "policy" /\ policies' = policies
    BY <1>2, <1>k, Caller DEF ParseAnnotation, Enters
  <2>2. CASE Fails /\ Level /\ Returns(stack, Null)
    BY <2>1, <2>2, HeightFails DEF Refuses
  <2>3. ASSUME NEW a, Calls(Building([Policy EXCEPT !.annotations = Append(@, a)]), "annotations")
        PROVE  HeightInv'
    <3> DEFINE p == [Policy EXCEPT !.annotations = Append(Policy.annotations, a)]
    <3>1. Sound(p)
      BY <2>1, PolicySound, SoundOther
    <3>2. Calls(Building(p), "annotations")
      BY <2>3
    <3> HIDE DEF p
    <3> QED BY <2>1, <3>1, <3>2, HeightBuilding
  <2>4. \/ Fails /\ Level /\ Returns(stack, Null)
        \/ \E a : Calls(Building([Policy EXCEPT !.annotations = Append(@, a)]), "annotations")
    BY <1>2 DEF ParseAnnotation
  <2> QED BY <2>2, <2>3, <2>4
<1>3. CASE ParseEffect
  <2> DEFINE p == [Policy EXCEPT !.effect = Tok(pos).t]
  <2>1. stack # <<>> /\ Top.fn = "policy" /\ policies' = policies
    BY <1>3, <1>k, Caller DEF ParseEffect, Enters
  <2>2. Sound(p)
    BY <2>1, PolicySound, SoundOther
  <2>3. Refuses \/ Calls(Building(p), "principal")
    BY <1>3 DEF ParseEffect
  <2> HIDE DEF p
  <2> QED BY <2>1, <2>2, <2>3, HeightBuilding, HeightFails
<1>4. CASE ParseScope
  <2>1. /\ stack # <<>> /\ Top.fn = "policy" /\ policies' = policies
        /\ call \in {"principal", "action", "resource"}
    BY <1>4, <1>k, Caller DEF ParseScope, Enters, ScopeVar
  <2>2. AfterScope[call][2] # "return"
    <3>1. CASE call = "principal"
      BY <3>1 DEF AfterScope
    <3>2. CASE call = "action"
      BY <3>2 DEF AfterScope
    <3>3. CASE call = "resource"
      BY <3>3 DEF AfterScope
    <3> QED BY <2>1, <3>1, <3>2, <3>3
  <2>3. ASSUME NEW c, Calls(Building([Policy EXCEPT ![call] = c.scope]), AfterScope[call][2])
        PROVE  HeightInv'
    <3> DEFINE p == [Policy EXCEPT ![call] = c.scope]
    <3>1. Sound(p)
      BY <2>1, PolicySound, SoundOther
    <3>2. Calls(Building(p), AfterScope[call][2])
      BY <2>3
    <3> HIDE DEF p
    <3> QED BY <2>1, <2>2, <3>1, <3>2, HeightBuilding
  <2>4. \/ Refuses \/ Calls(Push("scope", ""), "set")
        \/ \E c : Calls(Building([Policy EXCEPT ![call] = c.scope]), AfterScope[call][2])
    BY <1>4, Zenon DEF ParseScope
  <2>5. "scope" \in Waiting \ {"policy", "method"} /\ "scope" \notin Chain
    BY DEF Waiting, Chain
  <2> QED BY <2>1, <2>3, <2>4, <2>5, HeightCalls, HeightFails
<1>5. CASE EndScopeSet
  <2>1. stack # <<>> /\ Top.fn = "scope" /\ policies' = policies
    BY <1>5, <1>k DEF EndScopeSet, Back
  <2>2. ASSUME NEW act, Calls(Building([Policy EXCEPT !.action = act]), "resource")
        PROVE  HeightInv'
    <3> DEFINE p == [Policy EXCEPT !.action = act]
    <3>1. Sound(p)
      BY <2>1, PolicySound, SoundOther
    <3>2. Calls(Building(p), "resource")
      BY <2>2
    <3> HIDE DEF p
    <3> QED BY <2>1, <3>1, <3>2, HeightBuilding
  <2>3. PopsNull \/ \E act : Calls(Building([Policy EXCEPT !.action = act]), "resource")
    BY <1>5 DEF EndScopeSet
  <2> QED BY <2>1, <2>2, <2>3, HeightFails
<1>6. CASE ParseCondition
  <2>1. stack # <<>> /\ Top.fn = "policy"
    BY <1>6, Caller DEF ParseCondition, Enters
  <2>2. "condition" \in Waiting \ {"policy", "method"} /\ "condition" \notin Chain
    BY DEF Waiting, Chain
  <2>3. CASE At({"when", "unless"}) /\ Calls(Push("condition", Tok(pos).t), "expr")
    <3>1. policies' = policies
      BY <1>6, <2>3 DEF ParseCondition, At
    <3> QED BY <2>1, <2>2, <2>3, <3>1, HeightCalls
  <2>4. CASE Calls(<<>>, "policies") /\ At({";"})
    <3>1. policies' = Append(policies, Policy)
      BY <1>6, <2>4 DEF ParseCondition
    <3>2. AllSound(policies')
      BY <2>1, <3>1, PolicySound, AllSoundNext DEF HeightInv
    <3>3. AllFit(<<>>)
      BY DEF AllFit
    <3> QED BY <2>4, <3>2, <3>3 DEF HeightInv, Calls, Accepted, Done
  <2>5. CASE Refuses /\ ~At({";"})
    <3>1. policies' = policies
      BY <1>6, <2>5 DEF ParseCondition
    <3> QED BY <2>1, <2>5, <3>1, HeightFails
  <2> QED BY <1>6, <2>3, <2>4, <2>5 DEF ParseCondition
<1>7. CASE EndCondition
  <2>1. Back("condition") /\ ret # Null /\ policies' = policies
    BY <1>0, <1>7, <1>k, BackGives DEF EndCondition
  <2>2. stack # <<>> /\ Top.fn = "condition" /\ Within(ret, Budget(Top, Rem))
    BY <2>1, BackWithin
  <2>3. depth = 0
    BY <2>2, PolicyAlone DEF StackInv, Top
  <2>4. Budget(Top, Rem) = HeightOf(MaxParseDepth)
    <3>1. Rem = MaxParseDepth
      BY <2>3, LimitAssumption DEF Rem
    <3>2. Budget(Top, Rem) = HeightOf(Rem)
      BY <2>2 DEF Budget
    <3> QED BY <3>1, <3>2
  <2>5. ASSUME NEW u, Calls(Building([Policy EXCEPT !.conditions = Append(@,
                        [is_unless |-> u, expr |-> ret])]), "conditions")
        PROVE  HeightInv'
    <3> DEFINE p == [Policy EXCEPT !.conditions = Append(@, [is_unless |-> u, expr |-> ret])]
    <3>1. Sound(p)
      BY <2>2, <2>4, PolicySound, SoundCondition
    <3>2. Calls(Building(p), "conditions")
      BY <2>5
    <3> HIDE DEF p
    <3> QED BY <2>1, <2>2, <3>1, <3>2, HeightBuilding
  <2>6. PopsNull \/ \E u : Calls(Building([Policy EXCEPT !.conditions = Append(@,
                             [is_unless |-> u, expr |-> ret])]), "conditions")
    BY <1>7 DEF EndCondition
  <2> QED BY <2>1, <2>2, <2>5, <2>6, HeightFails
<1> QED BY <1>1, <1>2, <1>3, <1>4, <1>5, <1>6, <1>7 DEF PolicyStep

(* Whatever the text, what the limits of the parser allow bounds how tall  *)
(* every tree is that waits, was returned or is kept (parser.c:59, 566).   *)
THEOREM HeightInvariant == Spec => []HeightInv
<1>1. Init => HeightInv
  <2> SUFFICES ASSUME Init
               PROVE  HeightInv
    OBVIOUS
  <2>1. stack = <<>> /\ call = "policies" /\ policies = <<>>
    BY DEF Init
  <2>2. <<>> \in Seq({}) /\ AllFit(<<>>)
    BY DEF AllFit
  <2> QED BY <2>1, <2>2 DEF HeightInv, AllSound, Accepted, Done
<1>2. StackInv /\ WellRead /\ HeightInv /\ [Next]_vars => HeightInv'
  <2> SUFFICES ASSUME StackInv, WellRead, HeightInv, [Next]_vars
               PROVE  HeightInv'
    OBVIOUS
  <2>1. CASE UNCHANGED vars
    <3>1. /\ stack' = stack /\ call' = call /\ ret' = ret /\ depth' = depth
          /\ policies' = policies
      BY <2>1 DEF vars
    <3> QED BY <3>1 DEF HeightInv, Top, Accepted, Done
  <2>2. CASE Unwind
    <3>1. stack # <<>> /\ Pops(Null) /\ policies' = policies
      BY <2>2 DEF Unwind, Keep
    <3> QED BY <3>1, HeightPopsNull
  <2>3. CASE AllocationFails
    <3>1. policies' = policies /\ Fails
      BY <2>3 DEF AllocationFails
    <3>2. CASE call = "return"
      BY <2>3, <3>1, <3>2, HeightPopsNull DEF AllocationFails, Allocates, ScopeVar
    <3>3. CASE call # "return"
      <4>1. Level /\ Returns(stack, Null)
        BY <2>3, <3>3 DEF AllocationFails
      <4>2. CASE stack # <<>>
        BY <3>1, <4>1, <4>2, HeightFails DEF Refuses
      <4>3. CASE stack = <<>>
        <5>1. stack' = <<>> /\ ret' = Null
          BY <4>1, <4>3 DEF Returns
        <5> QED BY <3>1, <4>3, <5>1 DEF HeightInv, Accepted
      <4> QED BY <4>2, <4>3
    <3> QED BY <3>2, <3>3
  <2> QED BY <2>1, <2>2, <2>3, ExprStepHeights, PolicyStepHeights DEF Next, Step
<1> QED BY <1>1, <1>2, StackInvariant, ReadInvariant, PTL DEF Spec

-------------------------------------------------------------------------------
(* The evaluation of what was parsed                                       *)

\* How tall the tree of a condition may be
Tall == HeightOf(MaxParseDepth)

\* A frame is for a tree one level less tall for every frame below it.
Descends(s) ==
  /\ \E S : s \in Seq(S)
  /\ \A i \in 1..Len(s) :
       "node" \in DOMAIN s[i] /\ i <= Tall /\ Within(s[i].node, Tall - i + 1)

(* Inductive: the evaluation is inside a tree the parser allowed.          *)
EvalInv ==
  /\ Descends(frames) /\ eval_depth = Len(frames)
  /\ root = {} => frames = <<>> /\ answer = {}
  /\ answer # {} => frames = <<>>
  /\ MaxEvalDepth >= Tall => fault # "depth"

(* The bound is a number.                                                  *)
LEMMA TallNat == Tall \in Nat
BY HeightGrows, LimitAssumption DEF Tall

(* A value that is delivered leaves the nodes of the frames as they were.  *)
LEMMA DeliverDescends ==
  ASSUME NEW below, Descends(below), NEW v, E!Deliver(below, v)
  PROVE  /\ Descends(frames') /\ Len(frames') = Len(below)
         /\ below = <<>> => frames' = <<>> /\ answer' = {v}
         /\ below # <<>> => frames' # <<>> /\ answer' = answer
<1>1. CASE below = <<>>
  <2>1. frames' = <<>> /\ answer' = {v}
    BY <1>1 DEF E!Deliver
  <2> QED BY <1>1, <2>1
<1>2. CASE below # <<>>
  <2> DEFINE m == Len(below)
             f == [below[m] EXCEPT !.vals = Append(below[m].vals, v)]
  <2>1. frames' = [below EXCEPT ![m] = f] /\ answer' = answer
    BY <1>2 DEF E!Deliver
  <2>2. PICK S : below \in Seq(S)
    BY DEF Descends
  <2>3. m \in Nat \ {0} /\ m \in 1..m /\ below \in [1..m -> S]
    BY <1>2, <2>2
  <2>4. "node" \in DOMAIN below[m]
    BY <2>3 DEF Descends
  <2>5. "node" \in DOMAIN f /\ f.node = below[m].node
    BY <2>4
  <2> HIDE DEF f
  <2>6. frames' \in [1..m -> S \cup {f}]
    <3> HIDE DEF m
    <3> QED BY <2>1, <2>3
  <2>7. frames' \in Seq(S \cup {f}) /\ Len(frames') = m /\ frames' # <<>>
    <3>1. frames' \in Seq(S \cup {f})
      BY <2>3, <2>6
    <3>2. Len(frames') = m
      BY <2>3, <2>6, <3>1
    <3> QED BY <2>3, <3>1, <3>2
  <2>8. \A i \in 1..m : frames'[i] = IF i = m THEN f ELSE below[i]
    <3> HIDE DEF m
    <3> QED BY <2>1, <2>3
  <2>9. Descends(frames')
    <3> SUFFICES ASSUME NEW i \in 1..m
                 PROVE  /\ "node" \in DOMAIN frames'[i] /\ i <= Tall
                        /\ Within(frames'[i].node, Tall - i + 1)
      BY <2>7 DEF Descends
    <3>1. "node" \in DOMAIN below[i] /\ i <= Tall /\ Within(below[i].node, Tall - i + 1)
      BY DEF Descends
    <3> HIDE DEF m
    <3> QED BY <2>5, <2>8, <3>1
  <2> QED BY <1>2, <2>1, <2>7, <2>9
<1> QED BY <1>1, <1>2

(* Entering an operand is one level down, and is cut off only at the limit *)
(* on recursion.                                                           *)
LEMMA CallDescends ==
  ASSUME NEW below, Descends(below), NEW n, Len(below) < Tall,
         Within(n, Tall - Len(below)), eval_depth = Len(below), E!Call(n, below),
         MaxEvalDepth >= Tall => fault # "depth"
  PROVE  /\ Descends(frames') /\ eval_depth' = Len(frames')
         /\ MaxEvalDepth >= Tall => fault' # "depth"
         /\ \/ answer' = answer /\ frames' # <<>>
            \/ below = <<>> /\ frames' = <<>>
<1> DEFINE m == Len(below)
<1>0. PICK S : below \in Seq(S)
  BY DEF Descends
<1>1. m \in Nat /\ Tall \in Nat /\ MaxEvalDepth \in Nat
  BY <1>0, TallNat, EvalDepthAssumption
<1>2. CASE eval_depth >= MaxEvalDepth
  <2>1. E!Deliver(below, E!Error) /\ eval_depth' = eval_depth
    BY <1>2 DEF E!Call
  <2>2. ~(MaxEvalDepth >= Tall)
    BY <1>1, <1>2
  <2> QED BY <2>1, <2>2, DeliverDescends
<1>3. CASE ~(eval_depth >= MaxEvalDepth)
  <2> DEFINE f == [node |-> n, vals |-> <<>>]
  <2>1. /\ frames' = Append(below, f) /\ eval_depth' = eval_depth + 1
        /\ answer' = answer /\ fault' = fault
    BY <1>3 DEF E!Call
  <2>2. "node" \in DOMAIN f /\ f.node = n
    OBVIOUS
  <2> HIDE DEF f
  <2>3. frames' \in Seq(S \cup {f})
    BY <1>0, <2>1, SeqOneMore
  <2>4. /\ Len(frames') = m + 1 /\ frames'[m + 1] = f
        /\ \A i \in 1..m : frames'[i] = below[i]
    BY <1>0, <2>1
  <2>5. Descends(frames')
    <3> SUFFICES ASSUME NEW i \in 1..m + 1
                 PROVE  /\ "node" \in DOMAIN frames'[i] /\ i <= Tall
                        /\ Within(frames'[i].node, Tall - i + 1)
      BY <2>3, <2>4 DEF Descends
    <3>1. CASE i = m + 1
      <4>1. Tall - i + 1 = Tall - m /\ i <= Tall
        BY <1>1, <3>1
      <4> QED BY <2>2, <2>4, <3>1, <4>1
    <3>2. CASE i \in 1..m
      BY <2>4, <3>2 DEF Descends
    <3> QED BY <1>1, <3>1, <3>2
  <2>6. frames' # <<>>
    BY <1>1, <2>3, <2>4
  <2> QED BY <2>1, <2>4, <2>5, <2>6
<1> QED BY <1>2, <1>3

(* What a call returns, it takes its frame away with.                      *)
LEMMA ReturnDescends ==
  ASSUME EvalInv, frames # <<>>, NEW v, E!Deliver(E!Below, v),
         eval_depth' = eval_depth - 1, root' = root, fault' \in {fault, "memory"}
  PROVE  EvalInv'
<1> DEFINE m == Len(frames)
           b == SubSeq(frames, 1, m - 1)
<1>1. PICK S : frames \in Seq(S)
  BY DEF EvalInv, Descends
<1>2. m \in Nat \ {0} /\ m - 1 \in Nat /\ \A i \in 1..m - 1 : frames[i] \in S
  BY <1>1
<1>3. b \in Seq(S) /\ Len(b) = m - 1 /\ \A i \in 1..m - 1 : b[i] = frames[i]
  <2> HIDE DEF m
  <2>1. m - 1 \in Int /\ 1 \in Int
    BY <1>2
  <2>2. /\ SubSeq(frames, 1, m - 1) \in Seq(S)
        /\ Len(SubSeq(frames, 1, m - 1)) = IF 1 <= m - 1 THEN (m - 1) - 1 + 1 ELSE 0
        /\ \A i \in 1..(m - 1) - 1 + 1 : SubSeq(frames, 1, m - 1)[i] = frames[1 + i - 1]
    BY <1>2, <2>1, SubSeqProperties
  <2> QED BY <1>2, <2>2
<1>4. Descends(b)
  <2>1. \A i \in 1..m - 1 : i \in 1..m
    BY <1>2
  <2> QED BY <1>3, <2>1 DEF Descends, EvalInv
<1>5. E!Deliver(b, v)
  BY DEF E!Below
<1> HIDE DEF b
<1>6. /\ Descends(frames') /\ Len(frames') = m - 1
      /\ b = <<>> => frames' = <<>> /\ answer' = {v}
      /\ b # <<>> => frames' # <<>> /\ answer' = answer
  BY <1>4, <1>5, <1>3, DeliverDescends
<1>7. eval_depth' = m - 1 /\ answer = {} /\ root' # {} /\ (MaxEvalDepth >= Tall => fault' # "depth")
  BY DEF EvalInv
<1> QED BY <1>6, <1>7 DEF EvalInv

(* The conditions the evaluator is given are as tall as the limits allow.  *)
LEMMA ConditionsWithin ==
  ASSUME HeightInv, NEW n \in Conditions
  PROVE  Within(n, Tall)
<1>1. Accepted /\ AllSound(ret.kids)
  BY DEF Conditions, HeightInv
<1>2. PICK i \in DOMAIN ret.kids :
        n \in {ret.kids[i].conditions[k].expr : k \in DOMAIN ret.kids[i].conditions}
  BY <1>1 DEF Conditions
<1> DEFINE p == ret.kids[i]
<1>3. Sound(p)
  <2>1. PICK S : ret.kids \in Seq(S) /\ \A x \in S : Sound(x)
    BY <1>1 DEF AllSound
  <2>2. p \in S
    BY <2>1
  <2> QED BY <2>1, <2>2
<1>4. PICK k \in DOMAIN p.conditions : n = p.conditions[k].expr
  BY <1>2
<1> HIDE DEF p
<1>5. PICK S : p.conditions \in Seq(S) /\ \A c \in S : Within(c.expr, Tall)
  BY <1>3 DEF Sound, Tall
<1>6. p.conditions[k] \in S
  BY <1>4, <1>5
<1> QED BY <1>4, <1>5, <1>6

(* Every step of the evaluator keeps within the tree.                      *)
LEMMA EvalStep ==
  ASSUME HeightInv, EvalInv, BeginCondition \/ Evaluate
  PROVE  EvalInv'
<1>0. Tall \in Nat
  BY TallNat
<1>1. CASE BeginCondition
  <2>1. PICK n \in Conditions : E!Begin(n)
    BY <1>1 DEF BeginCondition
  <2>2. root = {} /\ root' = {n} /\ E!Call(n, <<>>) /\ frames = <<>> /\ answer = {}
    BY <2>1 DEF E!Begin, EvalInv
  <2>3. Within(n, Tall) /\ Tall # 0
    <3>1. Within(n, Tall)
      BY ConditionsWithin
    <3> QED BY <3>1 DEF Within, Levels
  <2>4. Len(<<>>) = 0 /\ Tall - 0 = Tall
    BY <1>0
  <2>5. /\ Descends(frames') /\ eval_depth' = Len(frames')
        /\ MaxEvalDepth >= Tall => fault' # "depth"
        /\ \/ answer' = answer /\ frames' # <<>>
           \/ frames' = <<>>
    BY <1>0, <2>2, <2>3, <2>4, CallDescends DEF EvalInv
  <2> QED BY <2>2, <2>5 DEF EvalInv
<1>2. CASE E!EvalOperand
  <2> DEFINE m == Len(frames)
             t == frames[m].node
  <2>1. PICK S : frames \in Seq(S)
    BY DEF EvalInv, Descends
  <2>2. frames # <<>> /\ m \in Nat \ {0} /\ m \in 1..m
    BY <1>2, <2>1 DEF E!EvalOperand
  <2>3. PICK k \in E!Awaited(E!Top.node, E!Top.vals) : E!Call(E!Top.node.kids[k], frames)
    BY <1>2 DEF E!EvalOperand
  <2>4. k \in DOMAIN t.kids /\ E!Call(t.kids[k], frames)
    <3>1. E!Top.node = t
      BY DEF E!Top
    <3>2. k \in DOMAIN E!Operands(t)
      BY <2>3, <3>1 DEF E!Awaited
    <3>3. E!Operands(t) = <<>> \/ E!Operands(t) = t.kids
      BY DEF E!Operands
    <3> QED BY <2>3, <3>1, <3>2, <3>3
  <2>5. m <= Tall /\ Within(t, Tall - m + 1) /\ eval_depth = m /\ Descends(frames)
    BY <2>2 DEF EvalInv, Descends
  <2> HIDE DEF m, t
  <2>6. Tall - m + 1 \in Nat /\ (Tall - m + 1) - 1 = Tall - m
    BY <1>0, <2>2, <2>5
  <2>7. Within(t.kids[k], Tall - m)
    BY <2>4, <2>5, <2>6, WithinKid
  <2>8. m < Tall
    <3>1. Tall - m # 0
      BY <2>7 DEF Within, Levels
    <3> QED BY <1>0, <2>2, <2>5, <3>1
  <2>9. /\ Descends(frames') /\ eval_depth' = Len(frames')
        /\ MaxEvalDepth >= Tall => fault' # "depth"
        /\ answer' = answer /\ frames' # <<>>
    BY <2>2, <2>4, <2>5, <2>7, <2>8, CallDescends DEF EvalInv, m
  <2>10. root' = root
    BY <1>2 DEF E!EvalOperand
  <2> QED BY <2>2, <2>9, <2>10 DEF EvalInv
<1>3. CASE E!Return
  BY <1>3, ReturnDescends DEF E!Return
<1>4. CASE E!AllocationFails
  BY <1>4, ReturnDescends DEF E!AllocationFails
<1>5. CASE E!Take
  BY <1>5 DEF E!Take, EvalInv
<1> QED BY <1>1, <1>2, <1>3, <1>4, <1>5 DEF Evaluate, E!Step

(* The parser of the composition is the parser.                            *)
LEMMA BothParses == Both => Spec
<1>1. InitBoth => Init
  BY DEF InitBoth
<1>2. [NextBoth]_bothVars => [Next]_vars
  <2> SUFFICES ASSUME [NextBoth]_bothVars
               PROVE  [Next]_vars
    OBVIOUS
  <2>1. CASE UNCHANGED bothVars
    BY <2>1 DEF bothVars
  <2> QED BY <2>1 DEF NextBoth, Parse, BeginCondition, Evaluate
<1> QED BY <1>1, <1>2, PTL DEF Both, Spec

(* Whatever the text and every value of the limits: when the limit on the  *)
(* evaluator's recursion is at least the height that the parser's limits   *)
(* allow, no evaluation of what was parsed meets it (types.h:403-413).     *)
THEOREM LimitsAreEnough == Both => []LimitsSuffice
<1>1. InitBoth => EvalInv
  <2> SUFFICES ASSUME InitBoth
               PROVE  EvalInv
    OBVIOUS
  <2>1. frames = <<>> /\ eval_depth = 0 /\ root = {} /\ answer = {} /\ fault = "none"
    BY DEF InitBoth, E!Init
  <2>2. <<>> \in Seq({}) /\ Len(<<>>) = 0
    OBVIOUS
  <2> QED BY <2>1, <2>2 DEF EvalInv, Descends
<1>2. HeightInv /\ EvalInv /\ [NextBoth]_bothVars => EvalInv'
  <2> SUFFICES ASSUME HeightInv, EvalInv, [NextBoth]_bothVars
               PROVE  EvalInv'
    OBVIOUS
  <2>1. CASE UNCHANGED evaluation
    BY <2>1 DEF evaluation, EvalInv
  <2>2. CASE UNCHANGED bothVars
    BY <2>1, <2>2 DEF bothVars
  <2> QED BY <2>1, <2>2, EvalStep DEF NextBoth, Parse
<1>3. EvalInv => LimitsSuffice
  BY DEF EvalInv, LimitsSuffice, Tall
<1> QED BY <1>1, <1>2, <1>3, BothParses, HeightInvariant, PTL DEF Both
===============================================================================
