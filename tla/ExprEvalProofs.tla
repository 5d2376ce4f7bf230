---------------------------- MODULE ExprEvalProofs ----------------------------
(***************************************************************************)
(* Proofs, for any conditions, contexts and equality of values: a failure  *)
(* inside an evaluation reaches the caller as an error; the recursion      *)
(* counter is exact, and only too many levels are cut off; a slot tag is   *)
(* never stale; an answer is the value that the rules alone give, so that  *)
(* `has' guards an access, and scopes and conditions agree; and what the   *)
(* rules give is what the condition means (ExprMeaning).                   *)
(***************************************************************************)
EXTENDS ExprMeaning, Induction, SequenceTheorems, TLAPS

Frame(V) == [node : Node, vals : Seq(V)]

\* Whatever the values are, the C stack is a sequence of frames.
StackType == \E V : stack \in Seq(Frame(V))

\* Between two evaluations nothing is left of the last one.
Idle == root = {} => stack = <<>> /\ answer = {} /\ fault = "none"

AnswersLast == stack # <<>> => answer = {}

\* A failure is in the hands of the innermost frame, or was answered.
FaultCarried ==
  fault # "none" =>
    IF stack = <<>> THEN answer = {} \/ answer = {Error} ELSE Failed(Top.vals)

DepthCounted == eval_depth = Len(stack) /\ eval_depth <= MaxEvalDepth

FaultType == fault \in {"none", "memory", "depth"}

IInv == StackType /\ Idle /\ AnswersLast /\ FaultCarried /\ DepthCounted /\ FaultType

-------------------------------------------------------------------------------

(* A sequence over some values is one over more values.                    *)
LEMMA SeqWiden ==
  ASSUME NEW V, NEW W, V \subseteq W, NEW s \in Seq(V)
  PROVE  s \in Seq(W)
<1>1. Len(s) \in Nat /\ s \in [1..Len(s) -> V]
  OBVIOUS
<1>2. \A k \in 1..Len(s) : s[k] \in W
  BY <1>1
<1>3. s = [k \in 1..Len(s) |-> s[k]]
  BY <1>1
<1>4. s \in [1..Len(s) -> W]
  BY <1>2, <1>3
<1> QED BY <1>1, <1>4

(* A longer list of values is a sequence over more values.                 *)
LEMMA AppendValue ==
  ASSUME NEW V, NEW vals \in Seq(V), NEW v
  PROVE  /\ Append(vals, v) \in Seq(V \cup {v})
         /\ Append(vals, v)[Len(vals) + 1] = v
         /\ Len(vals) + 1 \in DOMAIN Append(vals, v)
<1>1. vals \in Seq(V \cup {v})
  BY SeqWiden
<1> QED BY <1>1

LEMMA FramesWiden ==
  ASSUME NEW V, NEW v, NEW st \in Seq(Frame(V))
  PROVE  st \in Seq(Frame(V \cup {v}))
<1>1. \A vals \in Seq(V) : vals \in Seq(V \cup {v})
  BY SeqWiden
<1>2. Frame(V) \subseteq Frame(V \cup {v})
  BY <1>1 DEF Frame
<1> HIDE DEF Frame
<1> QED BY <1>2, SeqWiden

(* Delivering a value ends the evaluation or extends the caller's frame.   *)
LEMMA DeliverFacts ==
  ASSUME NEW V, NEW below \in Seq(Frame(V)), NEW v, Deliver(below, v)
  PROVE  /\ StackType'
         /\ Len(stack') = Len(below)
         /\ below = <<>> => stack' = <<>> /\ answer' = {v}
         /\ below # <<>> => stack' # <<>> /\ answer' = answer
         /\ below # <<>> /\ v = Error => Failed(Top'.vals)
<1>1. CASE below = <<>>
  <2>1. stack' = <<>> /\ answer' = {v}
    BY <1>1 DEF Deliver
  <2>2. stack' \in Seq(Frame({}))
    BY <2>1
  <2> QED BY <1>1, <2>1, <2>2 DEF StackType
<1>2. CASE below # <<>>
  <2> DEFINE m == Len(below)
             W == V \cup {v}
             f == [below[m] EXCEPT !.vals = Append(below[m].vals, v)]
  <2>1. stack' = [below EXCEPT ![m] = f] /\ answer' = answer
    BY <1>2 DEF Deliver
  <2>2. m \in Nat \ {0} /\ m \in DOMAIN below
    BY <1>2
  <2>3. below[m] \in Frame(V)
    BY <2>2
  <2>4. f.vals = Append(below[m].vals, v) /\ f \in Frame(W)
    <3>1. \A S, T : \A b \in [node : Node, vals : S], x \in T :
            /\ [b EXCEPT !.vals = x] \in [node : Node, vals : T]
            /\ [b EXCEPT !.vals = x].vals = x
      OBVIOUS
    <3>2. Append(below[m].vals, v) \in Seq(W)
      <4>1. below[m].vals \in Seq(V)
        BY <2>3 DEF Frame
      <4> QED BY <4>1, AppendValue
    <3> QED BY <2>3, <3>1, <3>2 DEF Frame
  <2>5. below \in Seq(Frame(W))
    BY FramesWiden
  <2> HIDE DEF f, W
  <2>6. stack' \in Seq(Frame(W)) /\ Len(stack') = m /\ stack'[m] = f
    BY <2>1, <2>2, <2>4, <2>5
  <2>7. StackType'
    BY <2>6 DEF StackType
  <2>8. stack' # <<>>
    BY <2>2, <2>6
  <2>9. ASSUME v = Error PROVE Failed(Top'.vals)
    <3>1. Top' = f
      BY <2>6 DEF Top
    <3>2. below[m].vals \in Seq(V)
      BY <2>3 DEF Frame
    <3>3. Append(below[m].vals, v)[Len(below[m].vals) + 1] = v
          /\ Len(below[m].vals) + 1 \in DOMAIN Append(below[m].vals, v)
      BY <3>2, AppendValue
    <3> QED BY <2>4, <2>9, <3>1, <3>3 DEF Failed, Error
  <2> QED BY <1>2, <2>1, <2>6, <2>7, <2>8, <2>9
<1> QED BY <1>1, <1>2

(* A call adds a frame, or delivers an error when the counter is full.     *)
LEMMA CallFacts ==
  ASSUME NEW V, NEW below \in Seq(Frame(V)), NEW n \in Node, Call(n, below),
         eval_depth = Len(below), eval_depth <= MaxEvalDepth
  PROVE  /\ StackType' /\ DepthCounted'
         /\ \/ fault' = fault /\ stack' # <<>> /\ answer' = answer
            \/ fault' = "depth" /\ Deliver(below, Error)
<1>1. CASE eval_depth >= MaxEvalDepth
  <2>1. Deliver(below, Error) /\ fault' = "depth" /\ eval_depth' = eval_depth
    BY <1>1 DEF Call
  <2> QED BY <2>1, DeliverFacts DEF DepthCounted
<1>2. CASE ~(eval_depth >= MaxEvalDepth)
  <2> DEFINE f == [node |-> n, vals |-> <<>>]
  <2>1. /\ stack' = Append(below, f) /\ eval_depth' = eval_depth + 1
        /\ answer' = answer /\ fault' = fault
    BY <1>2 DEF Call
  <2>2. f \in Frame(V)
    BY DEF Frame
  <2> HIDE DEF f
  <2>3. stack' \in Seq(Frame(V)) /\ Len(stack') = Len(below) + 1
    BY <2>1, <2>2
  <2>4. stack' # <<>>
    BY <2>3
  <2> QED BY <1>2, <2>1, <2>3, <2>4, DepthAssumption DEF StackType, DepthCounted
<1> QED BY <1>1, <1>2

(* A return delivers to what is under the top frame.                       *)
LEMMA ReturnFacts ==
  ASSUME IInv, stack # <<>>, NEW v, Deliver(Below, v), eval_depth' = eval_depth - 1
  PROVE  /\ StackType' /\ DepthCounted'
         /\ stack' = <<>> => answer' = {v}
         /\ stack' # <<>> => answer' = {}
         /\ stack' # <<>> /\ v = Error => Failed(Top'.vals)
<1>1. PICK V : stack \in Seq(Frame(V))
  BY DEF IInv, StackType
<1>2. Below \in Seq(Frame(V)) /\ Len(Below) = Len(stack) - 1
  <2> DEFINE m == Len(stack)
  <2>1. m \in Nat \ {0} /\ m - 1 \in 0..m
    BY <1>1
  <2>2. SubSeq(stack, 1, m - 1) \in Seq(Frame(V))
        /\ Len(SubSeq(stack, 1, m - 1)) = m - 1
    <3>1. \A i \in 1 .. m - 1 : stack[i] \in Frame(V)
      <4> HIDE DEF Frame
      <4> QED BY <1>1, <2>1
    <3>2. m - 1 \in Int /\ 1 \in Int
      BY <2>1
    <3> HIDE DEF Frame, m
    <3>3. /\ SubSeq(stack, 1, m - 1) \in Seq(Frame(V))
          /\ Len(SubSeq(stack, 1, m - 1)) =
               IF 1 <= m - 1 THEN (m - 1) - 1 + 1 ELSE 0
      BY <3>1, <3>2, SubSeqProperties
    <3> QED BY <2>1, <3>3
  <2> QED BY <2>2 DEF Below
<1>3. Len(stack) \in Nat /\ answer = {} /\ DepthCounted
  BY <1>1 DEF IInv, AnswersLast
<1> HIDE DEF Below
<1>4. /\ StackType' /\ Len(stack') = Len(Below)
      /\ Below = <<>> => stack' = <<>> /\ answer' = {v}
      /\ Below # <<>> => stack' # <<>> /\ answer' = answer
      /\ Below # <<>> /\ v = Error => Failed(Top'.vals)
  BY <1>2, DeliverFacts
<1>5. DepthCounted'
  BY <1>2, <1>3, <1>4, DepthAssumption DEF DepthCounted
<1> QED BY <1>3, <1>4, <1>5

(* The initial states satisfy the inductive invariant.                     *)
LEMMA InitInv == Init => IInv
<1> SUFFICES ASSUME Init PROVE IInv
  OBVIOUS
<1>1. stack \in Seq(Frame({})) /\ Len(stack) = 0
  BY DEF Init
<1> QED BY <1>1, DepthAssumption DEF Init, IInv, StackType, Idle, AnswersLast,
                                     FaultCarried, DepthCounted, FaultType

(* Every step keeps the inductive invariant.                               *)
LEMMA NextInv == IInv /\ [Next]_vars => IInv'
<1> SUFFICES ASSUME IInv, [Next]_vars PROVE IInv'
  OBVIOUS
<1>1. PICK V : stack \in Seq(Frame(V))
  BY DEF IInv, StackType
<1>2. /\ Idle /\ AnswersLast /\ FaultCarried /\ FaultType
      /\ eval_depth = Len(stack) /\ eval_depth <= MaxEvalDepth /\ Len(stack) \in Nat
  BY <1>1 DEF IInv, DepthCounted
<1>3. ASSUME NEW n \in Node, Begin(n) PROVE IInv'
  <2>1. /\ root' = {n} /\ stack = <<>> /\ answer = {} /\ fault = "none"
        /\ Call(n, <<>>)
    BY <1>2, <1>3 DEF Begin, Idle
  <2>2. <<>> \in Seq(Frame(V)) /\ Len(<<>>) = 0 /\ eval_depth = Len(<<>>)
    BY <1>2, <2>1
  <2>3. /\ StackType' /\ DepthCounted'
        /\ \/ fault' = fault /\ stack' # <<>> /\ answer' = answer
           \/ fault' = "depth" /\ Deliver(<<>>, Error)
    BY <1>2, <2>1, <2>2, CallFacts
  <2>4. Deliver(<<>>, Error) => stack' = <<>> /\ answer' = {Error}
    BY DEF Deliver
  <2> QED BY <2>1, <2>3, <2>4 DEF IInv, Idle, AnswersLast, FaultCarried, FaultType
<1>4. CASE EvalOperand
  <2>1. PICK k \in Awaited(Top.node, Top.vals) : Call(Top.node.kids[k], stack)
    BY <1>4 DEF EvalOperand
  <2>2. stack # <<>> /\ answer = {} /\ root # {} /\ root' = root
    BY <1>2, <1>4 DEF EvalOperand, AnswersLast, Idle
  <2>3. ~Failed(Top.vals) /\ k \in DOMAIN Operands(Top.node)
    BY <2>1 DEF Awaited
  <2>4. fault = "none"
    BY <1>2, <2>2, <2>3 DEF FaultCarried
  <2>5. Top.node.kids[k] \in Node
    <3>1. Top.node \in Node
      <4>1. Len(stack) \in DOMAIN stack
        BY <1>1, <2>2
      <4>2. Top \in Frame(V)
        BY <1>1, <4>1 DEF Top
      <4> QED BY <4>2 DEF Frame
    <3>2. k \in DOMAIN Top.node.kids
      BY <2>3 DEF Operands
    <3>3. Top.node.kids \in Seq(Node)
      BY <3>1, NodeAssumption
    <3> HIDE DEF Top
    <3> QED BY <3>2, <3>3
  <2>6. /\ StackType' /\ DepthCounted'
        /\ \/ fault' = fault /\ stack' # <<>> /\ answer' = answer
           \/ fault' = "depth" /\ Deliver(stack, Error)
    BY <1>1, <1>2, <2>1, <2>5, CallFacts
  <2>7. Deliver(stack, Error) =>
          stack' # <<>> /\ answer' = answer /\ Failed(Top'.vals)
    BY <1>1, <2>2, DeliverFacts
  <2> QED BY <2>2, <2>4, <2>6, <2>7 DEF IInv, Idle, AnswersLast, FaultCarried, FaultType
<1>5. CASE Return
  <2> DEFINE v == Result(Top.node, Top.vals)
  <2>1. /\ stack # <<>> /\ Deliver(Below, v) /\ eval_depth' = eval_depth - 1
        /\ root' = root /\ fault' = fault
    BY <1>5 DEF Return
  <2>2. root # {}
    BY <1>2, <2>1 DEF Idle
  <2>3. fault # "none" => v = Error
    BY <1>2, <2>1 DEF FaultCarried, Result
  <2> HIDE DEF v
  <2> QED BY <2>1, <2>2, <2>3, ReturnFacts DEF IInv, Idle, AnswersLast, FaultCarried, FaultType
<1>6. CASE AllocationFails
  <2>1. /\ stack # <<>> /\ Deliver(Below, Error) /\ eval_depth' = eval_depth - 1
        /\ root' = root /\ fault' = "memory"
    BY <1>6 DEF AllocationFails
  <2>2. root # {}
    BY <1>2, <2>1 DEF Idle
  <2> QED BY <2>1, <2>2, ReturnFacts DEF IInv, Idle, AnswersLast, FaultCarried, FaultType
<1>7. CASE Take
  <2>1. stack = <<>>
    BY <1>2, <1>7 DEF Take, AnswersLast
  <2> QED BY <1>2, <1>7, <2>1 DEF Take, IInv, StackType, Idle, AnswersLast,
                                  FaultCarried, DepthCounted, FaultType
<1>8. CASE UNCHANGED vars
  BY <1>8 DEF vars, IInv, StackType, Idle, AnswersLast, FaultCarried,
              DepthCounted, FaultType, Top
<1> QED BY <1>3, <1>4, <1>5, <1>6, <1>7, <1>8 DEF Next, Step

(* The inductive invariant holds of every reachable state.                 *)
THEOREM Invariance == Spec => []IInv
BY InitInv, NextInv, PTL DEF Spec

(* Whatever the condition and wherever in it memory or depth runs out, the *)
(* caller gets an error: a failing pool can make a clause not match, but   *)
(* never match (expr.c:2019-2084, 2377-2383).                              *)
THEOREM FaultsBecomeErrors == Spec => []FaultsErr
<1>1. IInv => FaultsErr
  BY DEF IInv, FaultCarried, AnswersLast, FaultsErr
<1> QED BY <1>1, Invariance, PTL

(* ctx->eval_depth is the number of calls on the C stack, never more than  *)
(* the limit, and 0 between the conditions that share the context.         *)
THEOREM DepthIsExact == Spec => []DepthCounted
<1>1. IInv => DepthCounted
  BY DEF IInv
<1> QED BY <1>1, Invariance, PTL

-------------------------------------------------------------------------------
(* What the values are: each is a request entity with the tag of its slot, *)
(* or lies in a set of values that has what they hold, all untagged.       *)

Closed(U) == \A v \in U : Formed(v, U) /\ (v.type \in {"IP", "STRING"} => v \in Datum)
Deep(v) == \E U : Closed(U) /\ v \in U
Sound(v) == Deep(v) \/ \E s \in Slot : v = Entity(ctx.uid[s], s)

AllSound(vals) == \A k \in DOMAIN vals : Sound(vals[k])

(* The least of some positions of a sequence is one of them.               *)
LEMMA FirstIn ==
  ASSUME NEW S, S \subseteq Nat, S # {}
  PROVE  First(S) \in S
<1>1. \E k \in S : \A l \in S : k <= l
  BY LeastNumber
<1> QED BY <1>1 DEF First

(* Values that are together in one set are still in any larger one.        *)
LEMMA FormedWiden ==
  ASSUME NEW U, NEW W, U \subseteq W, NEW v, Formed(v, U)
  PROVE  Formed(v, W)
<1>1. Contents(v) \in Seq(NoError(U))
  BY DEF Formed
<1> DEFINE A == NoError(U)
           B == NoError(W)
<1>2. A \subseteq B /\ Contents(v) \in Seq(A)
  BY <1>1 DEF NoError
<1>3. Contents(v) \in Seq(B)
  <2> HIDE DEF A, B
  <2> QED BY <1>2, SeqWiden
<1> QED BY <1>3 DEF Formed

LEMMA ClosedUnion ==
  ASSUME NEW S, \A U \in S : Closed(U)
  PROVE  Closed(UNION S)
<1> SUFFICES ASSUME NEW U \in S, NEW v \in U
             PROVE  Formed(v, UNION S) /\ (v.type \in {"IP", "STRING"} => v \in Datum)
  BY DEF Closed
<1>1. Formed(v, U) /\ (v.type \in {"IP", "STRING"} => v \in Datum)
  BY DEF Closed
<1>2. U \subseteq UNION S
  OBVIOUS
<1> QED BY <1>1, <1>2, FormedWiden

(* A number, a Boolean or an error holds nothing.                          *)
LEMMA PlainDeep ==
  ASSUME NEW v \in Plain
  PROVE  Deep(v)
<1>1. /\ v.type \in {"ERROR", "BOOL"} \cup Numeric
      /\ v.type \notin {"SET", "RECORD", "ENTITY", "IP", "STRING"}
  BY DEF Plain, Error, Numeric, Ordered
<1>2. Contents(v) = <<>>
  BY <1>1 DEF Contents
<1>3. Contents(v) \in Seq(NoError({v}))
  BY <1>2, EmptySeq
<1>4. Formed(v, {v})
  BY <1>1, <1>3 DEF Formed, Types
<1>5. Closed({v})
  BY <1>1, <1>4 DEF Closed
<1> QED BY <1>5 DEF Deep

LEMMA DatumDeep ==
  ASSUME NEW v \in Datum
  PROVE  Deep(v)
BY DatumAssumption DEF Deep, Closed

LEMMA UntaggedDeep ==
  ASSUME NEW uid
  PROVE  Deep(Entity(uid, "none"))
<1> DEFINE v == Entity(uid, "none")
<1>1. v.type = "ENTITY" /\ v.uid = uid
  BY DEF Entity
<1>2. Contents(v) = <<>>
  BY <1>1 DEF Contents
<1>3. Contents(v) \in Seq(NoError({v}))
  BY <1>2, EmptySeq
<1>4. v = Entity(v.uid, "none")
  BY <1>1
<1> HIDE DEF v
<1>5. Formed(v, {v})
  BY <1>1, <1>3, <1>4 DEF Formed, Types, Numeric, Ordered
<1>6. Closed({v})
  BY <1>1, <1>5 DEF Closed
<1>7. Deep(v)
  BY <1>6 DEF Deep
<1> QED BY <1>7 DEF v

(* What can be said of a value of a type.                                  *)
LEMMA DeepFacts ==
  ASSUME NEW v, Deep(v)
  PROVE  /\ v.type \in Types
         /\ v.type \in {"ERROR", "BOOL"} \cup Numeric => v \in Plain
         /\ v.type = "ENTITY" => v = Entity(v.uid, "none")
         /\ v.type \in {"IP", "STRING"} => v \in Datum
         /\ v.type = "RECORD" => Unique(NamesOf(v.attrs))
         /\ \E W : Contents(v) \in Seq(W)
         /\ \A k \in DOMAIN Contents(v) :
              Deep(Contents(v)[k]) /\ Contents(v)[k].type # "ERROR"
<1>1. PICK U : Closed(U) /\ v \in U
  BY DEF Deep
<1>2. Formed(v, U) /\ (v.type \in {"IP", "STRING"} => v \in Datum)
  BY <1>1 DEF Closed
<1>3. Contents(v) \in Seq(NoError(U))
  BY <1>2 DEF Formed
<1>4. ASSUME NEW k \in DOMAIN Contents(v)
      PROVE  Deep(Contents(v)[k]) /\ Contents(v)[k].type # "ERROR"
  <2>1. Contents(v)[k] \in U /\ Contents(v)[k].type # "ERROR"
    BY <1>3 DEF NoError
  <2> QED BY <1>1, <2>1 DEF Deep
<1> QED BY <1>2, <1>3, <1>4 DEF Formed

LEMMA SoundBool ==
  ASSUME NEW v, Sound(v), v.type = "BOOL"
  PROVE  v \in Plain /\ v.b \in BOOLEAN
<1>1. Deep(v)
  BY DEF Sound, Entity
<1>2. v \in Plain
  BY <1>1, DeepFacts
<1> QED BY <1>2 DEF Plain, Error, Numeric, Ordered

(* Values that can be held can be held together.                           *)
LEMMA TogetherDeep ==
  ASSUME NEW V, NEW s \in Seq(V),
         \A k \in DOMAIN s : Deep(s[k]) /\ s[k].type # "ERROR"
  PROVE  \E U : Closed(U) /\ s \in Seq(NoError(U))
<1> DEFINE Of(k) == CHOOSE U : Closed(U) /\ s[k] \in U
           S == {Of(k) : k \in DOMAIN s}
           All == UNION S
           W == NoError(All)
<1>1. \A k \in DOMAIN s : Closed(Of(k)) /\ s[k] \in Of(k)
  BY DEF Deep
<1> HIDE DEF Of
<1>2. Closed(All)
  <2>1. \A X \in S : Closed(X)
    BY <1>1
  <2> HIDE DEF S
  <2> QED BY <2>1, ClosedUnion
<1>3. \A k \in DOMAIN s : s[k] \in W
  BY <1>1 DEF NoError
<1>4. s \in Seq(W)
  <2> HIDE DEF W
  <2>1. Len(s) \in Nat /\ s = [k \in 1..Len(s) |-> s[k]]
    OBVIOUS
  <2>2. \A k \in 1..Len(s) : s[k] \in W
    BY <1>3
  <2> QED BY <2>1, <2>2
<1> QED BY <1>2, <1>4

(* A value that holds only such values is one itself.                      *)
LEMMA HolderDeep ==
  ASSUME NEW v, v.type \in {"SET", "RECORD"}, NEW V, Contents(v) \in Seq(V),
         v.type = "RECORD" => Unique(NamesOf(v.attrs)),
         \A k \in DOMAIN Contents(v) :
           Deep(Contents(v)[k]) /\ Contents(v)[k].type # "ERROR"
  PROVE  Deep(v)
<1> DEFINE s == Contents(v)
<1>1. PICK U : Closed(U) /\ s \in Seq(NoError(U))
  <2>1. s \in Seq(V) /\ \A k \in DOMAIN s : Deep(s[k]) /\ s[k].type # "ERROR"
    OBVIOUS
  <2> HIDE DEF s
  <2> QED BY <2>1, TogetherDeep
<1> DEFINE W == U \cup {v}
<1>2. \A w \in U : Formed(w, W)
  BY <1>1, FormedWiden DEF Closed
<1>3. Formed(v, U)
  BY <1>1 DEF Formed, Types, Numeric, Ordered
<1>4. Formed(v, W)
  BY <1>3, FormedWiden
<1>5. Closed(W)
  BY <1>1, <1>2, <1>4 DEF Closed
<1> QED BY <1>5 DEF Deep

(* A sound value satisfies what the runs check of it.                      *)
LEMMA SoundFacts ==
  ASSUME NEW v, Sound(v), ctx \in Context
  PROVE  Typed(v) /\ TagSound(v)
<1>1. CASE Deep(v)
  <2>1. /\ v.type \in Types
        /\ v.type \in {"ERROR", "BOOL"} \cup Numeric => v \in Plain
        /\ v.type = "ENTITY" => v = Entity(v.uid, "none")
        /\ \A k \in DOMAIN Contents(v) : Deep(Contents(v)[k])
    BY <1>1, DeepFacts
  <2>2. v.type = "ENTITY" => v.slot = "none"
    BY <2>1 DEF Entity
  <2>3. v.type \in Numeric => v.n \in MinLong..MaxLong
    BY <2>1 DEF Plain, Error, Numeric, Ordered
  <2>4. \A k \in DOMAIN Contents(v) : Untagged(Contents(v)[k])
    <3> SUFFICES ASSUME NEW k \in DOMAIN Contents(v)
                 PROVE  Untagged(Contents(v)[k])
      OBVIOUS
    <3> DEFINE w == Contents(v)[k]
    <3>1. w.type = "ENTITY" => w = Entity(w.uid, "none")
      BY <2>1, DeepFacts
    <3> HIDE DEF w
    <3>2. Untagged(w)
      BY <3>1 DEF Untagged, Entity
    <3> QED BY <3>2 DEF w
  <2>5. v.type = "SET" => \A k \in DOMAIN v.elts : Untagged(v.elts[k])
    BY <2>4 DEF Contents
  <2>6. v.type = "RECORD" => \A k \in DOMAIN v.attrs : Untagged(v.attrs[k].value)
    <3> SUFFICES ASSUME v.type = "RECORD", NEW k \in DOMAIN v.attrs
                 PROVE  Untagged(v.attrs[k].value)
      OBVIOUS
    <3>1. Contents(v) = Values(v.attrs)
      BY DEF Contents
    <3>2. k \in DOMAIN Contents(v) /\ Contents(v)[k] = v.attrs[k].value
      BY <3>1 DEF Values
    <3> QED BY <2>4, <3>2
  <2> QED BY <2>1, <2>2, <2>3, <2>5, <2>6 DEF Typed, TagSound, Slot
<1>2. CASE \E s \in Slot : v = Entity(ctx.uid[s], s)
  BY <1>2 DEF Typed, TagSound, Entity, Types, Numeric, Ordered
<1> QED BY <1>1, <1>2 DEF Sound

-------------------------------------------------------------------------------
(* What a node makes of sound operands is sound.                           *)

LEMMA ErrorPlain == Error \in Plain
BY DEF Plain

LEMMA BoolPlain ==
  ASSUME NEW b \in BOOLEAN
  PROVE  Bool(b) \in Plain
BY DEF Plain, Bool

LEMMA NegatedPlain ==
  ASSUME NEW v, v.type = "BOOL" => v \in Plain
  PROVE  Negated(v) \in Plain
<1>1. CASE v.type = "BOOL"
  <2>1. v.b \in BOOLEAN
    BY <1>1 DEF Plain, Error, Numeric, Ordered
  <2>2. (~v.b) \in BOOLEAN
    BY <2>1
  <2> QED BY <1>1, <2>2, BoolPlain DEF Negated
<1>2. CASE v.type # "BOOL"
  BY <1>2, ErrorPlain DEF Negated
<1> QED BY <1>1, <1>2

LEMMA OutcomePlain ==
  ASSUME NEW o
  PROVE  Outcome(o) \in Plain /\ Negated(Outcome(o)) \in Plain
<1>1. Outcome(o) \in Plain
  <2>1. (o = "yes") \in BOOLEAN
    OBVIOUS
  <2> QED BY <2>1, ErrorPlain, BoolPlain DEF Outcome
<1> QED BY <1>1, NegatedPlain

LEMMA PlainSound ==
  ASSUME NEW v \in Plain
  PROVE  Sound(v)
BY PlainDeep DEF Sound

(* Attributes whose values lie in a sequence are found by position.        *)
LEMMA ValuesFacts ==
  ASSUME NEW attrs, NEW W, Values(attrs) \in Seq(W)
  PROVE  /\ DOMAIN attrs \subseteq Nat
         /\ \A k \in DOMAIN attrs : k \in DOMAIN Values(attrs)
                                    /\ Values(attrs)[k] = attrs[k].value
                                    /\ attrs[k].value \in W
<1>1. DOMAIN Values(attrs) = DOMAIN attrs
      /\ \A k \in DOMAIN attrs : Values(attrs)[k] = attrs[k].value
  BY DEF Values
<1>2. DOMAIN Values(attrs) \subseteq Nat
      /\ \A k \in DOMAIN Values(attrs) : Values(attrs)[k] \in W
  OBVIOUS
<1> QED BY <1>1, <1>2

(* Wherever an attribute is looked for, what is found can be held.         *)
LEMMA StoreSound ==
  ASSUME NEW n \in Node, n.op \in {"attr", "has"}, NEW vals,
         n.kids[1].op # "var" => Sound(vals[1]),
         HasStore(n, vals), ctx \in Context
  PROVE  /\ DOMAIN Store(n, vals) \subseteq Nat
         /\ \A k \in DOMAIN Store(n, vals) :
              Deep(Store(n, vals)[k].value) /\ Store(n, vals)[k].value.type # "ERROR"
<1>1. n.kids[1] \in Node
  <2>1. n.kids \in Seq(Node) /\ Len(n.kids) = 1
    BY NodeAssumption DEF Arity
  <2> QED BY <2>1
<1>2. ASSUME NEW var \in Slot \cup {"context"}, Store(n, vals) = ctx.attrs[var]
      PROVE  /\ DOMAIN Store(n, vals) \subseteq Nat
             /\ \A k \in DOMAIN Store(n, vals) :
                  /\ Deep(Store(n, vals)[k].value)
                  /\ Store(n, vals)[k].value.type # "ERROR"
  <2> DEFINE st == ctx.attrs[var]
  <2>1. Values(st) \in Seq(NoError(Datum))
    BY ContextAssumption
  <2> HIDE DEF st
  <2>2. DOMAIN st \subseteq Nat /\ \A k \in DOMAIN st : st[k].value \in NoError(Datum)
    BY <2>1, ValuesFacts
  <2>3. \A k \in DOMAIN st : Deep(st[k].value) /\ st[k].value.type # "ERROR"
    BY <2>2, DatumDeep DEF NoError
  <2> QED BY <1>2, <2>2, <2>3 DEF st
<1>3. CASE n.kids[1].op = "var"
  <2>1. n.kids[1].var \in Slot \cup {"context"}
    BY <1>1, <1>3, NodeAssumption
  <2>2. Store(n, vals) = ctx.attrs[n.kids[1].var]
    BY <1>3 DEF Store
  <2> QED BY <1>2, <2>1, <2>2
<1>4. CASE n.kids[1].op # "var" /\ vals[1].type = "ENTITY"
  <2>1. vals[1].slot \in Slot
    BY <1>4 DEF HasStore
  <2>2. Store(n, vals) = ctx.attrs[vals[1].slot]
    BY <1>4 DEF Store
  <2> QED BY <1>2, <2>1, <2>2
<1>5. CASE n.kids[1].op # "var" /\ vals[1].type # "ENTITY"
  <2> DEFINE v == vals[1]
             st == v.attrs
  <2>1. v.type = "RECORD" /\ Store(n, vals) = st
    BY <1>5 DEF HasStore, Store
  <2>2. Sound(v)
    BY <1>5
  <2> HIDE DEF v
  <2>3. Deep(v)
    BY <2>1, <2>2 DEF Sound, Entity
  <2>4. Contents(v) = Values(st)
    BY <2>1 DEF Contents
  <2>5. PICK W : Values(st) \in Seq(W)
    BY <2>3, <2>4, DeepFacts
  <2>6. \A k \in DOMAIN Values(st) : Deep(Values(st)[k]) /\ Values(st)[k].type # "ERROR"
    BY <2>3, <2>4, DeepFacts
  <2> HIDE DEF st
  <2>7. DOMAIN st \subseteq Nat
        /\ \A k \in DOMAIN st : k \in DOMAIN Values(st) /\ Values(st)[k] = st[k].value
    BY <2>5, ValuesFacts
  <2> QED BY <2>1, <2>6, <2>7
<1> QED BY <1>3, <1>4, <1>5

LEMMA AttrSound ==
  ASSUME NEW n \in Node, n.op = "attr", NEW vals,
         n.kids[1].op # "var" => Sound(vals[1]), ctx \in Context
  PROVE  /\ Sound(EvalAttrAccess(n, vals))
         /\ HasStore(n, vals) /\ Named(Store(n, vals), n.name) # {}
              => EvalAttrAccess(n, vals).type # "ERROR"
<1>1. CASE ~(HasStore(n, vals) /\ Named(Store(n, vals), n.name) # {})
  BY <1>1, ErrorPlain, PlainSound DEF EvalAttrAccess
<1>2. CASE HasStore(n, vals) /\ Named(Store(n, vals), n.name) # {}
  <2> DEFINE st == Store(n, vals)
             found == Named(st, n.name)
  <2>1. DOMAIN st \subseteq Nat
        /\ \A k \in DOMAIN st : Deep(st[k].value) /\ st[k].value.type # "ERROR"
    BY <1>2, StoreSound
  <2>2. EvalAttrAccess(n, vals) = st[First(found)].value
    BY <1>2 DEF EvalAttrAccess
  <2>3. found \subseteq DOMAIN st /\ found # {}
    BY <1>2 DEF Named
  <2> HIDE DEF st, found
  <2>4. First(found) \in DOMAIN st
    BY <2>1, <2>3, FirstIn
  <2> QED BY <2>1, <2>2, <2>4 DEF Sound
<1> QED BY <1>1, <1>2

LEMMA InPlain ==
  ASSUME NEW left, NEW right
  PROVE  EvalIn(left, right) \in Plain
<1> DEFINE InUid(uid) == EntityInTarget(left.uid, LookupParents(left.slot), uid)
           a == InUid(right.uid)
           b == \E k \in DOMAIN right.elts : InUid(right.elts[k].uid)
<1>1. EvalIn(left, right) \in {Error, Bool(a), Bool(b)}
  BY DEF EvalIn
<1>2. a \in BOOLEAN /\ b \in BOOLEAN
  BY DEF EntityInTarget
<1> HIDE DEF a, b
<1> QED BY <1>1, <1>2, ErrorPlain, BoolPlain

LEMMA RelatesBool ==
  ASSUME NEW rel, NEW l \in Int, NEW r \in Int
  PROVE  Relates(rel, l, r) \in BOOLEAN
<1>1. Relates(rel, l, r) \in {l < r, l <= r, l > r, l >= r}
  BY DEF Relates
<1>2. {l < r, l <= r, l > r, l >= r} \subseteq BOOLEAN
  OBVIOUS
<1> QED BY <1>1, <1>2

(* The numbers a value is about are in the range of their C type.          *)
LEMMA NumberFacts ==
  ASSUME NEW v, Sound(v), v.type \in Numeric
  PROVE  v \in [type : {v.type}, n : MinLong..MaxLong] /\ v.n \in Int
<1>1. v \in Plain
  BY DeepFacts DEF Sound, Entity, Numeric, Ordered
<1> QED BY <1>1, LongAssumption DEF Plain, Error, Numeric, Ordered

LEMMA ComparePlain ==
  ASSUME NEW rel, NEW l, NEW r, Sound(l), Sound(r)
  PROVE  Compare(rel, l, r) \in Plain
<1>1. CASE l.type # r.type \/ l.type \notin Ordered
  BY <1>1, ErrorPlain DEF Compare
<1>2. CASE ~(l.type # r.type \/ l.type \notin Ordered)
  <2>1. l.n \in Int /\ r.n \in Int
    BY <1>2, NumberFacts DEF Numeric
  <2>2. Relates(rel, l.n, r.n) \in BOOLEAN
    BY <2>1, RelatesBool
  <2> QED BY <1>2, <2>2, BoolPlain DEF Compare
<1> QED BY <1>1, <1>2

LEMMA ArithPlain ==
  ASSUME NEW fn, NEW l, NEW r
  PROVE  LongArith(fn, l, r) \in Plain
<1> DEFINE exact == CASE fn = "+" -> l.n + r.n
                      [] fn = "-" -> l.n - r.n
                      [] OTHER    -> l.n * r.n
<1>1. \/ LongArith(fn, l, r) = Error
      \/ exact \in MinLong..MaxLong /\ LongArith(fn, l, r) = Long(exact)
  BY DEF LongArith
<1> HIDE DEF exact
<1>2. exact \in MinLong..MaxLong => Long(exact) \in Plain
  BY DEF Plain, Long, Numeric, Ordered
<1> QED BY <1>1, <1>2, ErrorPlain

LEMMA NegatePlain ==
  ASSUME NEW v, Sound(v)
  PROVE  Negate(v) \in Plain
<1>1. CASE ~(v.type = "LONG" /\ v.n # MinLong)
  BY <1>1, ErrorPlain DEF Negate
<1>2. CASE v.type = "LONG" /\ v.n # MinLong
  <2>1. v.n \in MinLong..MaxLong
    BY <1>2, NumberFacts DEF Numeric, Ordered
  <2>2. -v.n \in MinLong..MaxLong
    BY <1>2, <2>1, LongAssumption
  <2> QED BY <1>2, <2>2 DEF Negate, Plain, Long, Numeric, Ordered
<1> QED BY <1>1, <1>2

(* Every method of a sound receiver, with a sound argument or none         *)
LEMMA MethodPlain ==
  ASSUME NEW m \in Methods, NEW obj, Sound(obj)
  PROVE  EvalMethod(m, obj) \in Plain
<1>1. CASE m = "isEmpty"
  BY <1>1, ErrorPlain, BoolPlain DEF EvalMethod
<1>2. CASE m # "isEmpty" /\ obj.type \in {"DATETIME", "DURATION"}
  <2>1. obj.n \in MinLong..MaxLong
    BY <1>2, NumberFacts DEF Numeric, Ordered
  <2> QED BY <1>2, <2>1, MethodAssumption DEF EvalMethod
<1>3. CASE m # "isEmpty" /\ obj.type = "IP"
  <2>1. obj \in Addresses
    BY <1>3, DeepFacts DEF Sound, Entity, Addresses
  <2> QED BY <1>3, <2>1, MethodAssumption DEF EvalMethod
<1>4. CASE m # "isEmpty" /\ obj.type \notin {"DATETIME", "DURATION", "IP"}
  BY <1>4, ErrorPlain DEF EvalMethod
<1> QED BY <1>1, <1>2, <1>3, <1>4

LEMMA SetMethodPlain ==
  ASSUME NEW method, NEW obj, NEW arg
  PROVE  EvalSetMethod(method, obj, arg) \in Plain
<1>1. EvalContains(obj.elts, arg) \in Plain
  BY OutcomePlain DEF EvalContains
<1>2. EvalContainsAny(obj.elts, arg.elts) \in Plain
  BY OutcomePlain DEF EvalContainsAny
<1>3. EvalContainsAll(obj.elts, arg.elts) \in Plain
  BY OutcomePlain, BoolPlain DEF EvalContainsAll
<1> QED BY <1>1, <1>2, <1>3, ErrorPlain DEF EvalSetMethod

LEMMA MethodWithPlain ==
  ASSUME NEW m \in Methods, NEW obj, NEW arg, Sound(obj), Sound(arg)
  PROVE  EvalMethodWith(m, obj, arg) \in Plain
<1> DEFINE ofSets == m \in {"contains", "containsAll", "containsAny"}
<1>1. CASE ofSets
  BY <1>1, SetMethodPlain DEF EvalMethodWith
<1>2. CASE ~ofSets /\ m = "isInRange"
  <2>1. CASE {obj.type, arg.type} = {"IP"}
    <3>1. obj.type = "IP" /\ arg.type = "IP"
      BY <2>1
    <3>2. obj \in Addresses /\ arg \in Addresses
      BY <3>1, DeepFacts DEF Sound, Entity, Addresses
    <3>3. InIpRange(obj, arg) \in BOOLEAN
      BY <3>2, MethodAssumption
    <3> QED BY <1>2, <2>1, <3>3, BoolPlain DEF EvalMethodWith
  <2>2. CASE {obj.type, arg.type} # {"IP"}
    BY <1>2, <2>2, ErrorPlain DEF EvalMethodWith
  <2> QED BY <2>1, <2>2
<1>3. CASE ~ofSets /\ m # "isInRange" /\ obj.type = "DATETIME"
  <2>1. CASE arg.type \in {"DATETIME", "DURATION"}
    <3>1. obj.n \in MinLong..MaxLong /\ arg \in [type : Ordered, n : MinLong..MaxLong]
      BY <1>3, <2>1, NumberFacts DEF Numeric, Ordered
    <3>2. AskDatetimeWith(m, obj.n, arg) \in Plain
      BY <3>1, MethodAssumption
    <3> QED BY <1>3, <2>1, <3>2 DEF EvalMethodWith
  <2>2. CASE arg.type \notin {"DATETIME", "DURATION"}
    BY <1>3, <2>2, ErrorPlain DEF EvalMethodWith
  <2> QED BY <2>1, <2>2
<1>4. CASE ~ofSets /\ m # "isInRange" /\ obj.type # "DATETIME"
  <2> DEFINE r == Relates(DecimalRelation[m], obj.n, arg.n)
  <2>1. CASE {obj.type, arg.type} = {"DECIMAL"} /\ m \in DOMAIN DecimalRelation
    <3>1. obj.type = "DECIMAL" /\ arg.type = "DECIMAL"
      BY <2>1
    <3>2. obj.n \in Int /\ arg.n \in Int
      BY <3>1, NumberFacts DEF Numeric
    <3>3. r \in BOOLEAN
      BY <3>2, RelatesBool
    <3>4. EvalMethodWith(m, obj, arg) = Bool(r)
      BY <1>4, <2>1 DEF EvalMethodWith
    <3> QED BY <3>3, <3>4, BoolPlain
  <2>2. CASE ~({obj.type, arg.type} = {"DECIMAL"} /\ m \in DOMAIN DecimalRelation)
    BY <1>4, <2>2, ErrorPlain DEF EvalMethodWith
  <2> QED BY <2>1, <2>2
<1> QED BY <1>1, <1>2, <1>3, <1>4

(* The operands of a node are nodes, at most as many as its kids.          *)
LEMMA OperandsFacts ==
  ASSUME NEW n \in Node
  PROVE  /\ n.kids \in Seq(Node) /\ Operands(n) \in Seq(Node)
         /\ DOMAIN Operands(n) \subseteq DOMAIN n.kids
         /\ Len(Operands(n)) <= Len(n.kids)
         /\ \A k \in DOMAIN Operands(n) : Operands(n)[k] = n.kids[k]
         /\ n.op \notin {"attr", "has"} => Operands(n) = n.kids
<1>1. n.kids \in Seq(Node)
  BY NodeAssumption
<1>2. <<>> \in Seq(Node) /\ Len(<<>>) = 0 /\ DOMAIN <<>> = {}
  OBVIOUS
<1> QED BY <1>1, <1>2 DEF Operands

(* A node that awaits no operand has those it needs, unless one failed.    *)
LEMMA Decided ==
  ASSUME NEW n \in Node, NEW V, NEW vals \in Seq(V), ~Failed(vals),
         Len(vals) <= Len(Operands(n)), Awaited(n, vals) = {}
  PROVE  /\ n.op \notin {"and", "or", "is", "ite"} => Len(vals) = Len(Operands(n))
         /\ n.op \in {"and", "or", "is", "ite"} => Len(vals) >= 1
         /\ n.op = "ite" /\ vals[1].type = "BOOL" /\ vals[1].b \in BOOLEAN
              => Len(vals) >= 2
<1> DEFINE next == Len(vals) + 1
<1>1. Len(vals) \in Nat /\ Operands(n) \in Seq(Node) /\ Len(Operands(n)) \in Nat
      /\ DOMAIN Operands(n) = 1..Len(Operands(n))
  BY OperandsFacts
<1>2. ASSUME n.op \notin {"and", "or", "is", "ite"}, Len(vals) # Len(Operands(n))
      PROVE  FALSE
  <2>1. next \in DOMAIN Operands(n)
    BY <1>1, <1>2
  <2>2. GoesOn(n, vals[1])
    BY <1>2 DEF GoesOn
  <2>3. next \in Awaited(n, vals)
    BY <1>2, <2>1, <2>2 DEF Awaited
  <2> QED BY <2>3
<1>3. ASSUME n.op \in {"and", "or", "is", "ite"}, Len(vals) = 0
      PROVE  FALSE
  <2>1. Arity(n.op) \subseteq {1, 2, 3}
    BY <1>3 DEF Arity
  <2>2. Len(n.kids) >= 1
    BY <2>1, NodeAssumption
  <2>3. Operands(n) = n.kids
    BY <1>3, OperandsFacts
  <2>4. 1 \in DOMAIN Operands(n)
    BY <1>1, <2>2, <2>3
  <2>5. 1 \in Awaited(n, vals)
    BY <1>3, <2>4 DEF Awaited
  <2> QED BY <2>5
<1>4. ASSUME n.op = "ite", vals[1].type = "BOOL", vals[1].b \in BOOLEAN, Len(vals) = 1
      PROVE  FALSE
  <2>1. DOMAIN Operands(n) = 1..3
    BY <1>1, <1>4, NodeAssumption, OperandsFacts DEF Arity
  <2>2. CASE vals[1].b
    <3>1. 2 \in Awaited(n, vals)
      BY <1>4, <2>1, <2>2 DEF Awaited, IsBool
    <3> QED BY <3>1
  <2>3. CASE ~vals[1].b
    <3>1. 3 \in Awaited(n, vals)
      BY <1>4, <2>1, <2>3 DEF Awaited, IsBool
    <3> QED BY <3>1
  <2> QED BY <2>2, <2>3
<1>5. n.op = "ite" => n.op \in {"and", "or", "is", "ite"}
  OBVIOUS
<1>6. \A l \in Nat : (l # 0 => l >= 1) /\ (l # 0 /\ l # 1 => l >= 2)
  OBVIOUS
<1> HIDE DEF next
<1>7. n.op \in {"and", "or", "is", "ite"} => Len(vals) >= 1
  BY <1>1, <1>3, <1>6
<1>8. n.op = "ite" /\ vals[1].type = "BOOL" /\ vals[1].b \in BOOLEAN => Len(vals) >= 2
  BY <1>1, <1>3, <1>4, <1>5, <1>6
<1> QED BY <1>2, <1>7, <1>8

(* Without its tag a value can be held.                                    *)
LEMMA ClearSlotDeep ==
  ASSUME NEW v, Sound(v)
  PROVE  Deep(ClearSlot(v)) /\ (v.type # "ERROR" => ClearSlot(v).type # "ERROR")
<1>1. CASE v.type # "ENTITY"
  BY <1>1 DEF ClearSlot, Sound, Entity
<1>2. CASE v.type = "ENTITY"
  <2>1. PICK uid, slot : v = Entity(uid, slot)
    BY <1>2, DeepFacts DEF Sound
  <2>2. ClearSlot(v) = Entity(uid, "none")
    BY <2>1 DEF ClearSlot, Entity
  <2> QED BY <2>2, UntaggedDeep DEF Entity
<1> QED BY <1>1, <1>2

(* So can all the operands of a set or record literal.                     *)
LEMMA ClearedTogether ==
  ASSUME NEW V, NEW vals \in Seq(V), AllSound(vals), ~Failed(vals),
         NEW v, v.type \in {"SET", "RECORD"}, v.type = "RECORD" => Unique(NamesOf(v.attrs)),
         Contents(v) = [k \in DOMAIN vals |-> ClearSlot(vals[k])]
  PROVE  Deep(v)
<1> DEFINE s == [k \in DOMAIN vals |-> ClearSlot(vals[k])]
           W == {ClearSlot(vals[k]) : k \in DOMAIN vals}
<1>1. Len(vals) \in Nat /\ DOMAIN vals = 1..Len(vals)
  OBVIOUS
<1>2. \A k \in DOMAIN vals : ClearSlot(vals[k]) \in W
  OBVIOUS
<1>3. \A k \in DOMAIN vals : Deep(ClearSlot(vals[k])) /\ ClearSlot(vals[k]).type # "ERROR"
  BY ClearSlotDeep DEF AllSound, Failed
<1> HIDE DEF W
<1>4. s \in Seq(W)
  BY <1>1, <1>2
<1>5. \A k \in DOMAIN s : Deep(s[k]) /\ s[k].type # "ERROR"
  BY <1>3
<1>6. Contents(v) \in Seq(W)
      /\ \A k \in DOMAIN Contents(v) : Deep(Contents(v)[k]) /\ Contents(v)[k].type # "ERROR"
  BY <1>4, <1>5
<1> QED BY <1>6, HolderDeep

(* Literals and the request's entities                                     *)
LEMMA LeafSound ==
  ASSUME NEW n \in Node, n.op \in {"lit", "ext", "entity_ref", "var"}, NEW vals,
         ctx \in Context
  PROVE  Sound(Value(n, vals))
<1>1. CASE n.op = "lit"
  <2>1. Value(n, vals) = n.val /\ n.val \in Datum
    BY <1>1, NodeAssumption DEF Value
  <2> QED BY <2>1, DatumDeep DEF Sound
<1>2. CASE n.op = "ext"
  <2>1. Value(n, vals) = MakeExtension(n.fn, n.text) /\ MakeExtension(n.fn, n.text) \in Datum
    BY <1>2, NodeAssumption DEF Value
  <2> QED BY <2>1, DatumDeep DEF Sound
<1>3. CASE n.op = "entity_ref"
  <2> DEFINE slot == RequestSlot(n.uid)
  <2>1. Value(n, vals) = Entity(n.uid, slot)
    BY <1>3 DEF Value
  <2>2. \/ slot = "none"
        \/ slot \in Slot /\ n.uid = ctx.uid[slot]
    BY DEF RequestSlot, Slot
  <2> HIDE DEF slot
  <2> QED BY <2>1, <2>2, UntaggedDeep DEF Sound
<1>4. CASE n.op = "var" /\ n.var # "context"
  <2>1. Value(n, vals) = Entity(ctx.uid[n.var], n.var) /\ n.var \in Slot
    BY <1>4, NodeAssumption DEF Value, EvalVar
  <2> QED BY <2>1 DEF Sound
<1>5. CASE n.op = "var" /\ n.var = "context"
  <2> DEFINE attrs == ctx.attrs["context"]
             v == [type |-> "RECORD", attrs |-> attrs]
  <2>1. Value(n, vals) = v
    BY <1>5 DEF Value, EvalVar
  <2>2. Contents(v) = Values(attrs)
    BY DEF Contents
  <2>3. Values(attrs) \in Seq(NoError(Datum))
    BY ContextAssumption
  <2>4. \A k \in DOMAIN Values(attrs) : Values(attrs)[k] \in NoError(Datum)
    BY <2>3
  <2>5. \A k \in DOMAIN Contents(v) : Deep(Contents(v)[k]) /\ Contents(v)[k].type # "ERROR"
    BY <2>2, <2>4, DatumDeep DEF NoError
  <2>6. Deep(v)
    <3>1. v.type \in {"SET", "RECORD"} /\ Contents(v) \in Seq(NoError(Datum))
          /\ Unique(NamesOf(v.attrs))
      BY <2>2, <2>3, ContextAssumption
    <3> HIDE DEF v
    <3> QED BY <2>5, <3>1, HolderDeep
  <2> QED BY <2>1, <2>6 DEF Sound
<1> QED BY <1>1, <1>2, <1>3, <1>4, <1>5

LEMMA LikePlain ==
  ASSUME NEW n \in Node, n.op = "like", NEW v, Sound(v)
  PROVE  EvalLike(v, n.pattern) \in Plain
<1>1. CASE v.type = "STRING"
  <2>1. v \in Datum
    BY <1>1, DeepFacts DEF Sound, Entity
  <2>2. LikeMatches(v.s, n.pattern) \in BOOLEAN
    BY <1>1, <2>1, LikeAssumption
  <2> QED BY <1>1, <2>2, BoolPlain DEF EvalLike
<1>2. CASE v.type # "STRING"
  BY <1>2, ErrorPlain DEF EvalLike
<1> QED BY <1>1, <1>2

(* Operators whose value holds nothing                                     *)
LEMMA OperatorPlain ==
  ASSUME NEW n \in Node, NEW vals, Sound(vals[1]),
         n.op \in {"cmp", "method"} /\ Len(vals) # 1 => Sound(vals[2]),
         n.op \in {"eq", "ne", "in", "cmp", "arith", "not", "neg", "like", "method",
                   "is", "has"},
         n.op = "cmp" => Len(vals) # 1
  PROVE  Value(n, vals) \in Plain
<1>1. CASE n.op \in {"eq", "ne"}
  BY <1>1, OutcomePlain DEF Value
<1>2. CASE n.op = "in"
  BY <1>2, InPlain DEF Value
<1>3. CASE n.op = "cmp"
  BY <1>3, ComparePlain DEF Value
<1>4. CASE n.op = "arith"
  BY <1>4, ArithPlain DEF Value
<1>5. CASE n.op = "not"
  <2>1. vals[1].type = "BOOL" => vals[1] \in Plain
    BY SoundBool
  <2> QED BY <1>5, <2>1, NegatedPlain DEF Value
<1>6. CASE n.op = "neg"
  BY <1>6, NegatePlain DEF Value
<1>7. CASE n.op = "like"
  BY <1>7, LikePlain DEF Value
<1>8. CASE n.op = "method"
  <2>1. n.method \in Methods
    BY <1>8 DEF Methods
  <2>2. Value(n, vals) = EvalMethodCall(n.method, vals)
    BY <1>8 DEF Value
  <2>3. CASE Len(vals) = 1
    BY <2>1, <2>2, <2>3, MethodPlain DEF EvalMethodCall
  <2>4. CASE Len(vals) # 1
    BY <1>8, <2>1, <2>2, <2>4, MethodWithPlain DEF EvalMethodCall
  <2> QED BY <2>3, <2>4
<1>9. CASE n.op = "is"
  <2>1. Value(n, vals) = EvalIsCheck(n, vals)
    BY <1>9 DEF Value
  <2> QED BY <2>1, ErrorPlain, BoolPlain, InPlain DEF EvalIsCheck
<1>10. CASE n.op = "has"
  <2>1. Value(n, vals) = EvalHas(n, vals)
    BY <1>10 DEF Value
  <2>2. (Named(Store(n, vals), n.name) # {}) \in BOOLEAN
    OBVIOUS
  <2> QED BY <2>1, <2>2, ErrorPlain, BoolPlain DEF EvalHas
<1> QED BY <1>1, <1>2, <1>3, <1>4, <1>5, <1>6, <1>7, <1>8, <1>9, <1>10

(* The attributes of a record literal are named by its keys.               *)
LEMMA KeysUnique ==
  ASSUME NEW n \in Node, n.op = "record", NEW V, NEW vals \in Seq(V),
         Len(vals) = Len(Operands(n))
  PROVE  Unique(NamesOf(MakeRecord(n.keys, vals).attrs))
<1>1. Unique(n.keys) /\ DOMAIN n.keys = DOMAIN n.kids /\ n.kids \in Seq(Node)
  BY NodeAssumption
<1>2. Operands(n) = n.kids
  BY OperandsFacts
<1>3. DOMAIN vals = DOMAIN n.keys
  BY <1>1, <1>2
<1> DEFINE names == NamesOf(MakeRecord(n.keys, vals).attrs)
<1>4. DOMAIN names = DOMAIN n.keys /\ \A k \in DOMAIN n.keys : names[k] = n.keys[k]
  BY <1>3 DEF NamesOf, MakeRecord
<1> HIDE DEF names
<1>5. Unique(names)
  BY <1>1, <1>4 DEF Unique
<1> QED BY <1>5 DEF names

(* Whatever a node returns is sound when its operands are.                 *)
LEMMA ResultSound ==
  ASSUME NEW n \in Node, NEW V, NEW vals \in Seq(V), AllSound(vals),
         Len(vals) <= Len(Operands(n)), Awaited(n, vals) = {}, ctx \in Context
  PROVE  Sound(Result(n, vals))
<1>1. CASE Failed(vals)
  BY <1>1, ErrorPlain, PlainSound DEF Result
<1>2. ASSUME ~Failed(vals) PROVE Sound(Value(n, vals))
  <2>1. /\ Len(n.kids) \in Arity(n.op) /\ n.kids \in Seq(Node)
        /\ n.op \notin {"attr", "has"} => Operands(n) = n.kids
    BY NodeAssumption, OperandsFacts
  <2>2. /\ n.op \notin {"and", "or", "is", "ite"} => Len(vals) = Len(Operands(n))
        /\ n.op \in {"and", "or", "is", "ite"} => Len(vals) >= 1
        /\ n.op = "ite" /\ vals[1].type = "BOOL" /\ vals[1].b \in BOOLEAN
             => Len(vals) >= 2
    BY <1>2, Decided
  <2>3. Len(vals) \in Nat /\ DOMAIN vals = 1..Len(vals)
    OBVIOUS
  <2>4. \A k \in 1..Len(vals) : Sound(vals[k])
    BY <2>3 DEF AllSound
  <2>5. CASE n.op \in {"lit", "ext", "entity_ref", "var"}
    BY <2>5, LeafSound
  <2>6. CASE n.op = "attr"
    <3>1. n.kids[1].op # "var" => Operands(n) = n.kids /\ Len(n.kids) = 1
      BY <2>1, <2>6 DEF Operands, Arity
    <3>2. n.kids[1].op # "var" => Sound(vals[1])
      BY <2>2, <2>4, <2>6, <3>1
    <3> QED BY <2>6, <3>2, AttrSound DEF Value
  <2>7. CASE n.op = "has"
    <3>1. CASE n.kids[1].op # "var"
      <4>1. Operands(n) = n.kids /\ Len(n.kids) = 1
        BY <2>1, <2>7, <3>1 DEF Operands, Arity
      <4>2. Len(vals) = 1
        BY <2>2, <2>7, <4>1
      <4>3. Sound(vals[1])
        BY <2>4, <4>2
      <4>4. Value(n, vals) \in Plain
        BY <2>7, <4>2, <4>3, OperatorPlain
      <4> QED BY <4>4, PlainSound
    <3>2. CASE n.kids[1].op = "var"
      <4>1. Value(n, vals) = Bool(Named(Store(n, vals), n.name) # {})
        BY <2>7, <3>2 DEF Value, EvalHas, HasStore
      <4>2. (Named(Store(n, vals), n.name) # {}) \in BOOLEAN
        OBVIOUS
      <4> QED BY <4>1, <4>2, BoolPlain, PlainSound
    <3> QED BY <3>1, <3>2
  <2>8. CASE n.op = "set"
    <3> DEFINE elts == [k \in DOMAIN vals |-> ClearSlot(vals[k])]
               v == [type |-> "SET", elts |-> elts]
    <3>1. Value(n, vals) = v
      BY <2>8 DEF Value
    <3>2. Contents(v) = elts /\ v.type = "SET"
      BY DEF Contents
    <3> HIDE DEF v
    <3>3. Deep(v)
      BY <1>2, <3>2, ClearedTogether
    <3> QED BY <3>1, <3>3 DEF Sound
  <2>9. CASE n.op = "record"
    <3> DEFINE v == MakeRecord(n.keys, vals)
    <3>1. Value(n, vals) = v
      BY <2>9 DEF Value
    <3>2. Contents(v) = [k \in DOMAIN vals |-> ClearSlot(vals[k])]
          /\ v.type \in {"SET", "RECORD"}
      BY DEF Contents, MakeRecord, Values
    <3>3. Unique(NamesOf(v.attrs))
      BY <1>2, <2>2, <2>9, KeysUnique
    <3> HIDE DEF v
    <3>4. Deep(v)
      BY <1>2, <3>2, <3>3, ClearedTogether
    <3> QED BY <3>1, <3>4 DEF Sound
  <2>10. CASE n.op \in {"and", "or"}
    <3>1. Len(vals) \in 1..Len(vals)
      BY <2>2, <2>3, <2>10
    <3>2. Value(n, vals) \in {vals[Len(vals)], Error}
      BY <2>10 DEF Value
    <3> QED BY <2>4, <3>1, <3>2, ErrorPlain, PlainSound
  <2>11. CASE n.op = "ite"
    <3>1. CASE vals[1].type # "BOOL"
      BY <2>11, <3>1, ErrorPlain, PlainSound DEF Value
    <3>2. CASE vals[1].type = "BOOL"
      <4>1. Sound(vals[1])
        BY <2>2, <2>3, <2>4, <2>11
      <4>2. vals[1].b \in BOOLEAN
        BY <3>2, <4>1, SoundBool
      <4>3. Sound(vals[2])
        BY <2>2, <2>3, <2>4, <2>11, <3>2, <4>2
      <4>4. Value(n, vals) = ClearSlot(vals[2])
        BY <2>11, <3>2 DEF Value
      <4> QED BY <4>3, <4>4, ClearSlotDeep DEF Sound
    <3> QED BY <3>1, <3>2
  <2>12. CASE n.op \in {"eq", "ne", "in", "cmp", "arith", "not", "neg", "like",
                         "method", "is"}
    <3>1. Sound(vals[1])
      <4>1. Arity(n.op) \subseteq {1, 2} /\ Operands(n) = n.kids
        BY <2>1, <2>12 DEF Arity
      <4>2. Len(vals) >= 1
        BY <2>1, <2>2, <2>12, <4>1
      <4> QED BY <2>3, <2>4, <4>2
    <3>2. n.op \in {"cmp", "method"} => Len(vals) \in {1, 2}
      BY <2>1, <2>2 DEF Arity
    <3>3. n.op = "cmp" => Len(vals) # 1
      <4> SUFFICES ASSUME n.op = "cmp" PROVE Len(vals) # 1
        OBVIOUS
      <4>1. Len(n.kids) = 2 /\ Operands(n) = n.kids /\ Len(vals) = Len(Operands(n))
        BY <2>1, <2>2 DEF Arity
      <4> QED BY <4>1
    <3>4. n.op \in {"cmp", "method"} /\ Len(vals) # 1 => Sound(vals[2])
      BY <2>4, <3>2
    <3>5. Value(n, vals) \in Plain
      BY <2>12, <3>1, <3>3, <3>4, OperatorPlain
    <3> QED BY <3>5, PlainSound
  <2>13. n.op \in {"lit", "ext", "entity_ref", "var", "attr", "has", "set", "record",
                   "and", "or", "ite", "eq", "ne", "in", "cmp", "arith", "not", "neg",
                   "like", "method", "is"}
    BY <2>1 DEF Arity
  <2> QED BY <2>5, <2>6, <2>7, <2>8, <2>9, <2>10, <2>11, <2>12, <2>13
<1> QED BY <1>1, <1>2 DEF Result

-------------------------------------------------------------------------------
(* The frames are a way down the condition, each call the operand that its *)
(* caller awaits, and everything in them is sound.                         *)

Descends(st) ==
  \A d \in 1..Len(st) - 1 :
    \E k \in Awaited(st[d].node, st[d].vals) : st[d + 1].node = st[d].node.kids[k]

Holds(st) ==
  \A d \in DOMAIN st : /\ AllSound(st[d].vals)
                       /\ Len(st[d].vals) <= Len(Operands(st[d].node))

Rooted == stack # <<>> => root = {stack[1].node}
AnswersSound == \A v \in answer : Sound(v)

SoundInv ==
  ctx \in Context /\ Rooted /\ Descends(stack) /\ Holds(stack) /\ AnswersSound

(* A node that awaits an operand has room for it.                          *)
LEMMA AwaitedRoom ==
  ASSUME NEW n \in Node, NEW V, NEW vals \in Seq(V), NEW k \in Awaited(n, vals)
  PROVE  /\ Len(vals) < Len(Operands(n)) /\ k \in DOMAIN n.kids
         /\ n.kids[k] \in Node /\ ~Failed(vals)
<1>1. /\ Len(vals) \in Nat /\ Operands(n) \in Seq(Node) /\ Len(Operands(n)) \in Nat
      /\ DOMAIN Operands(n) = 1..Len(Operands(n))
      /\ DOMAIN Operands(n) \subseteq DOMAIN n.kids /\ n.kids \in Seq(Node)
  BY OperandsFacts
<1>2. k \in DOMAIN Operands(n) /\ ~Failed(vals)
      /\ (k = Len(vals) + 1 \/ (Len(vals) = 1 /\ k \in {2, 3}))
  BY DEF Awaited
<1>3. k \in 1..Len(Operands(n))
  BY <1>1, <1>2
<1>4. k > Len(vals)
  <2>1. CASE k = Len(vals) + 1
    BY <1>1, <2>1
  <2>2. CASE Len(vals) = 1 /\ k \in {2, 3}
    BY <2>2
  <2> QED BY <1>2, <2>1, <2>2
<1> QED BY <1>1, <1>2, <1>3, <1>4

(* What the frames under the top one are.                                  *)
LEMMA BelowFacts ==
  ASSUME NEW V, stack \in Seq(Frame(V)), stack # <<>>
  PROVE  /\ Below \in Seq(Frame(V)) /\ Len(Below) = Len(stack) - 1
         /\ \A d \in DOMAIN Below : d \in DOMAIN stack /\ Below[d] = stack[d]
         /\ Top \in Frame(V) /\ Top = stack[Len(stack)] /\ Len(stack) \in DOMAIN stack
<1> DEFINE m == Len(stack)
<1>1. m \in Nat \ {0} /\ DOMAIN stack = 1..m
  OBVIOUS
<1>2. \A i \in 1..m - 1 : stack[i] \in Frame(V)
  BY <1>1
<1>3. m - 1 \in Nat
  BY <1>1
<1> HIDE DEF m, Frame
<1>4. /\ SubSeq(stack, 1, m - 1) \in Seq(Frame(V))
      /\ Len(SubSeq(stack, 1, m - 1)) = IF 1 <= m - 1 THEN (m - 1) - 1 + 1 ELSE 0
      /\ \A i \in 1..m - 1 : SubSeq(stack, 1, m - 1)[i] = stack[i]
  BY <1>2, <1>3, SubSeqProperties
<1>5. Len(SubSeq(stack, 1, m - 1)) = m - 1
  BY <1>3, <1>4
<1>6. Below = SubSeq(stack, 1, m - 1) /\ Top = stack[m]
  BY DEF Below, Top, m
<1>7. DOMAIN Below = 1..m - 1
  BY <1>4, <1>5, <1>6
<1>8. Top \in Frame(V)
  BY <1>1, <1>6
<1>9. \A d \in 1..m - 1 : d \in 1..m
  BY <1>1
<1>10. m \in DOMAIN stack
  BY <1>1
<1>11. \A d \in DOMAIN Below : d \in DOMAIN stack /\ Below[d] = stack[d]
  BY <1>1, <1>4, <1>6, <1>7, <1>9
<1> QED BY <1>4, <1>5, <1>6, <1>8, <1>10, <1>11 DEF m

Delivered(below, v) == [below EXCEPT ![Len(below)].vals = Append(@, v)]
Called(below, n) == Append(below, [node |-> n, vals |-> <<>>])

(* A sound value delivered to a caller with room for it                    *)
LEMMA DeliverShape ==
  ASSUME NEW V, NEW below \in Seq(Frame(V)), below # <<>>,
         Descends(below), Holds(below), NEW v, Sound(v),
         Len(below[Len(below)].vals) < Len(Operands(below[Len(below)].node)),
         NEW st, st = Delivered(below, v)
  PROVE  /\ Descends(st) /\ Holds(st) /\ Len(st) = Len(below)
         /\ \A d \in DOMAIN below : st[d].node = below[d].node
<1> DEFINE m == Len(below)
           top == below[m]
           f == [top EXCEPT !.vals = Append(top.vals, v)]
<1>1. m \in Nat \ {0} /\ m \in DOMAIN below /\ DOMAIN below = 1..m
  OBVIOUS
<1>2. top \in Frame(V)
  BY <1>1
<1>3. top.vals \in Seq(V) /\ top.node \in Node /\ f.node = top.node
      /\ f.vals = Append(top.vals, v)
  BY <1>2 DEF Frame
<1>4. st = [below EXCEPT ![m] = f]
  BY DEF Delivered
<1> HIDE DEF f, Frame
<1>5. DOMAIN st = 1..m /\ st[m] = f /\ \A d \in 1..m : d # m => st[d] = below[d]
  BY <1>1, <1>4
<1>6. Len(st) = m
  <2> DEFINE X == {st[d] : d \in 1..m}
  <2>1. \A d \in 1..m : st[d] \in X
    OBVIOUS
  <2> HIDE DEF X
  <2>2. st = [d \in 1..m |-> st[d]]
    BY <1>1, <1>4
  <2>3. st \in [1..m -> X]
    BY <2>1, <2>2
  <2>4. m \in Nat
    BY <1>1
  <2> QED BY <2>3, <2>4
<1> HIDE DEF m, top
<1>7. \A d \in 1..m : st[d].node = below[d].node
  BY <1>3, <1>5 DEF top
<1>8. Descends(st)
  <2> SUFFICES ASSUME NEW d \in 1..m - 1
               PROVE  \E k \in Awaited(st[d].node, st[d].vals) :
                        st[d + 1].node = st[d].node.kids[k]
    BY <1>6 DEF Descends
  <2>1. d \in 1..m /\ d # m /\ d + 1 \in 1..m
    BY <1>1
  <2>2. st[d] = below[d] /\ st[d + 1].node = below[d + 1].node
    BY <1>5, <1>7, <2>1
  <2>3. \E k \in Awaited(below[d].node, below[d].vals) :
          below[d + 1].node = below[d].node.kids[k]
    BY DEF Descends, m
  <2> QED BY <2>2, <2>3
<1>9. Holds(st)
  <2> SUFFICES ASSUME NEW d \in 1..m
               PROVE  /\ AllSound(st[d].vals)
                      /\ Len(st[d].vals) <= Len(Operands(st[d].node))
    BY <1>5 DEF Holds
  <2>1. CASE d # m
    <3>1. AllSound(below[d].vals) /\ Len(below[d].vals) <= Len(Operands(below[d].node))
      BY <1>1 DEF Holds
    <3> QED BY <1>5, <2>1, <3>1
  <2>2. CASE d = m
    <3>1. AllSound(top.vals) /\ Len(top.vals) < Len(Operands(top.node))
      BY <1>1 DEF Holds, top, m
    <3>2. /\ Len(Append(top.vals, v)) = Len(top.vals) + 1
          /\ DOMAIN Append(top.vals, v) = 1..Len(top.vals) + 1
          /\ Append(top.vals, v)[Len(top.vals) + 1] = v
          /\ \A k \in 1..Len(top.vals) : k \in DOMAIN top.vals
                                         /\ Append(top.vals, v)[k] = top.vals[k]
      BY <1>3
    <3>3. Len(top.vals) \in Nat /\ Len(Operands(top.node)) \in Nat
      BY <1>3, OperandsFacts
    <3>4. AllSound(Append(top.vals, v))
      <4> SUFFICES ASSUME NEW k \in 1..Len(top.vals) + 1
                   PROVE  Sound(Append(top.vals, v)[k])
        BY <3>2 DEF AllSound
      <4>1. k = Len(top.vals) + 1 \/ k \in 1..Len(top.vals)
        BY <3>3
      <4> QED BY <3>1, <3>2, <4>1 DEF AllSound
    <3>5. st[d].vals = Append(top.vals, v) /\ st[d].node = top.node
      BY <1>3, <1>5, <2>2
    <3>6. Len(Append(top.vals, v)) <= Len(Operands(top.node))
      <4>1. Len(top.vals) + 1 <= Len(Operands(top.node))
        BY <3>1, <3>3
      <4> QED BY <3>2, <4>1
    <3> QED BY <3>4, <3>5, <3>6
  <2> QED BY <2>1, <2>2
<1> QED BY <1>1, <1>6, <1>7, <1>8, <1>9 DEF m

(* A call of an operand that the top frame awaits                          *)
LEMMA CallShape ==
  ASSUME NEW V, NEW below \in Seq(Frame(V)), Descends(below), Holds(below),
         NEW n \in Node,
         below # <<>> => \E k \in Awaited(below[Len(below)].node, below[Len(below)].vals) :
                           n = below[Len(below)].node.kids[k],
         NEW st, st = Called(below, n)
  PROVE  /\ Descends(st) /\ Holds(st) /\ Len(st) = Len(below) + 1
         /\ st[Len(below) + 1].node = n
         /\ \A d \in DOMAIN below : st[d] = below[d]
<1> DEFINE m == Len(below)
           f == [node |-> n, vals |-> <<>>]
<1>1. m \in Nat /\ DOMAIN below = 1..m /\ (below # <<>> <=> m # 0)
  OBVIOUS
<1>2. f.node = n /\ f.vals = <<>> /\ st = Append(below, f)
  BY DEF Called
<1> HIDE DEF f
<1>3. /\ Len(st) = m + 1 /\ DOMAIN st = 1..m + 1 /\ st[m + 1] = f
      /\ \A d \in 1..m : st[d] = below[d]
  BY <1>1, <1>2
<1>4. Descends(st)
  <2> SUFFICES ASSUME NEW d \in 1..m
               PROVE  \E k \in Awaited(st[d].node, st[d].vals) :
                        st[d + 1].node = st[d].node.kids[k]
    BY <1>1, <1>3 DEF Descends
  <2>1. CASE d = m
    BY <1>1, <1>2, <1>3, <2>1
  <2>2. CASE d # m
    <3>1. d \in 1..m - 1 /\ d + 1 \in 1..m
      <4>1. m \in Nat /\ d \in 1..m
        BY <1>1
      <4> HIDE DEF m
      <4> QED BY <2>2, <4>1
    <3>2. \E k \in Awaited(below[d].node, below[d].vals) :
            below[d + 1].node = below[d].node.kids[k]
      BY <3>1 DEF Descends
    <3> QED BY <1>3, <3>1, <3>2
  <2> QED BY <2>1, <2>2
<1>5. Holds(st)
  <2> SUFFICES ASSUME NEW d \in 1..m + 1
               PROVE  /\ AllSound(st[d].vals)
                      /\ Len(st[d].vals) <= Len(Operands(st[d].node))
    BY <1>3 DEF Holds
  <2>1. CASE d = m + 1
    <3>1. Len(Operands(n)) \in Nat
      BY OperandsFacts
    <3>2. AllSound(<<>>) /\ Len(<<>>) = 0
      BY DEF AllSound
    <3> QED BY <1>2, <1>3, <2>1, <3>1, <3>2
  <2>2. CASE d # m + 1
    <3>1. d \in 1..m
      BY <1>1, <2>2
    <3> QED BY <1>1, <1>3, <3>1 DEF Holds
  <2> QED BY <2>1, <2>2
<1> QED BY <1>1, <1>2, <1>3, <1>4, <1>5

(* Soundness is about the context, which no step of an evaluation changes. *)
LEMMA SoundNext ==
  ASSUME ctx' = ctx
  PROVE  /\ Holds(stack') => Holds(stack)'
         /\ Holds(stack) /\ stack' = stack => Holds(stack)'
         /\ AnswersSound /\ answer' = answer => AnswersSound'
         /\ \A v : Sound(v) /\ answer' = {v} => AnswersSound'
BY DEF Holds, AllSound, AnswersSound, Sound

(* A sound value delivered, to a frame with room for it or as the answer   *)
LEMMA DeliverSound ==
  ASSUME NEW V, NEW below \in Seq(Frame(V)), Descends(below), Holds(below),
         NEW v, Sound(v), AnswersSound, ctx' = ctx, Deliver(below, v),
         below # <<>> =>
           Len(below[Len(below)].vals) < Len(Operands(below[Len(below)].node))
  PROVE  /\ Descends(stack)' /\ Holds(stack)' /\ AnswersSound'
         /\ stack' # <<>> => below # <<>> /\ stack'[1].node = below[1].node
<1>1. CASE below = <<>>
  <2>1. stack' = <<>> /\ answer' = {v}
    BY <1>1 DEF Deliver
  <2>2. Descends(stack)' /\ Holds(stack')
    BY <2>1 DEF Descends, Holds
  <2> QED BY <2>1, <2>2, SoundNext
<1>2. CASE below # <<>>
  <2>1. stack' = Delivered(below, v) /\ answer' = answer
    BY <1>2 DEF Deliver, Delivered
  <2>2. /\ Descends(stack') /\ Holds(stack')
        /\ \A d \in DOMAIN below : stack'[d].node = below[d].node
    BY <1>2, <2>1, DeliverShape
  <2>3. Descends(stack)'
    BY <2>2 DEF Descends
  <2>4. 1 \in DOMAIN below
    BY <1>2
  <2> QED BY <1>2, <2>1, <2>2, <2>3, <2>4, SoundNext
<1> QED BY <1>1, <1>2

(* A call adds a frame with nothing in it yet, or delivers an error.       *)
LEMMA CallSound ==
  ASSUME NEW V, NEW below \in Seq(Frame(V)), Descends(below), Holds(below),
         NEW n \in Node, AnswersSound, ctx' = ctx, Call(n, below),
         below # <<>> => \E k \in Awaited(below[Len(below)].node, below[Len(below)].vals) :
                           n = below[Len(below)].node.kids[k]
  PROVE  /\ Descends(stack)' /\ Holds(stack)' /\ AnswersSound'
         /\ stack' # <<>> => stack'[1].node = IF below = <<>> THEN n ELSE below[1].node
<1>1. CASE eval_depth >= MaxEvalDepth
  <2>1. Deliver(below, Error)
    BY <1>1 DEF Call
  <2>2. Sound(Error)
    BY ErrorPlain, PlainSound
  <2>3. ASSUME below # <<>>
        PROVE  Len(below[Len(below)].vals) < Len(Operands(below[Len(below)].node))
    <3> DEFINE top == below[Len(below)]
    <3>1. top \in Frame(V)
      <4>1. Len(below) \in DOMAIN below
        BY <2>3
      <4> QED BY <4>1
    <3>2. top.node \in Node /\ top.vals \in Seq(V)
      BY <3>1 DEF Frame
    <3>3. PICK k : k \in Awaited(top.node, top.vals)
      BY <2>3
    <3> HIDE DEF top
    <3>4. Len(top.vals) < Len(Operands(top.node))
      BY <3>2, <3>3, AwaitedRoom
    <3> QED BY <3>4 DEF top
  <2> QED BY <2>1, <2>2, <2>3, DeliverSound
<1>2. CASE ~(eval_depth >= MaxEvalDepth)
  <2>1. stack' = Called(below, n) /\ answer' = answer
    BY <1>2 DEF Call, Called
  <2>2. /\ Descends(stack') /\ Holds(stack')
        /\ stack'[Len(below) + 1].node = n
        /\ \A d \in DOMAIN below : stack'[d] = below[d]
    BY <2>1, CallShape
  <2>3. Descends(stack)'
    BY <2>2 DEF Descends
  <2>4. CASE below = <<>>
    <3>1. Len(below) + 1 = 1
      BY <2>4
    <3> QED BY <2>1, <2>2, <2>3, <2>4, <3>1, SoundNext
  <2>5. CASE below # <<>>
    <3>1. 1 \in DOMAIN below
      BY <2>5
    <3> QED BY <2>1, <2>2, <2>3, <2>5, <3>1, SoundNext
  <2> QED BY <2>4, <2>5
<1> QED BY <1>1, <1>2

(* What a returning frame delivers to is below it on the way down.         *)
LEMMA BelowShape ==
  ASSUME NEW V, stack \in Seq(Frame(V)), stack # <<>>, Descends(stack), Holds(stack)
  PROVE  /\ Below \in Seq(Frame(V)) /\ Descends(Below) /\ Holds(Below)
         /\ Below # <<>> =>
              /\ Len(Below[Len(Below)].vals) < Len(Operands(Below[Len(Below)].node))
              /\ Below[1].node = stack[1].node
<1> DEFINE m == Len(stack)
<1>1. /\ Below \in Seq(Frame(V)) /\ Len(Below) = m - 1 /\ m \in Nat \ {0}
      /\ \A d \in 1..m - 1 : d \in 1..m /\ Below[d] = stack[d]
      /\ DOMAIN Below = 1..m - 1 /\ DOMAIN stack = 1..m
  <2>1. Below \in Seq(Frame(V)) /\ Len(Below) = m - 1
        /\ \A d \in DOMAIN Below : Below[d] = stack[d]
    BY BelowFacts
  <2>2. m \in Nat \ {0} /\ DOMAIN stack = 1..m /\ DOMAIN Below = 1..Len(Below)
    BY <2>1
  <2> QED BY <2>1, <2>2
<1> HIDE DEF m
<1>2. Descends(Below)
  <2> SUFFICES ASSUME NEW d \in 1..(m - 1) - 1
               PROVE  \E k \in Awaited(Below[d].node, Below[d].vals) :
                        Below[d + 1].node = Below[d].node.kids[k]
    BY <1>1 DEF Descends
  <2>1. d \in 1..m - 1 /\ d + 1 \in 1..m - 1
    BY <1>1
  <2>2. \E k \in Awaited(stack[d].node, stack[d].vals) :
          stack[d + 1].node = stack[d].node.kids[k]
    BY <2>1 DEF Descends, m
  <2> QED BY <1>1, <2>1, <2>2
<1>3. Holds(Below)
  BY <1>1 DEF Holds
<1>4. ASSUME Below # <<>>
      PROVE  /\ Len(Below[Len(Below)].vals) < Len(Operands(Below[Len(Below)].node))
             /\ Below[1].node = stack[1].node
  <2>1. m - 1 \in 1..m - 1 /\ 1 \in 1..m - 1
    <3>1. Len(Below) # 0
      BY <1>1, <1>4
    <3> QED BY <1>1, <3>1
  <2> DEFINE top == Below[m - 1]
  <2>2. top \in Frame(V)
    BY <1>1, <2>1
  <2>3. top.node \in Node /\ top.vals \in Seq(V)
    BY <2>2 DEF Frame
  <2>4. top = stack[m - 1]
    BY <1>1, <2>1
  <2>5. PICK k : k \in Awaited(top.node, top.vals)
    BY <2>1, <2>4 DEF Descends, m
  <2> HIDE DEF top
  <2>6. Len(top.vals) < Len(Operands(top.node))
    BY <2>3, <2>5, AwaitedRoom
  <2> QED BY <1>1, <2>1, <2>6 DEF top
<1> QED BY <1>1, <1>2, <1>3, <1>4

LEMMA SoundInit == Init => SoundInv
<1> SUFFICES ASSUME Init PROVE SoundInv
  OBVIOUS
<1>1. ctx \in Context /\ stack = <<>> /\ answer = {}
  BY DEF Init
<1>2. Descends(stack) /\ Holds(stack)
  BY <1>1 DEF Descends, Holds
<1> QED BY <1>1, <1>2 DEF SoundInv, Rooted, AnswersSound

LEMMA SoundStep == SoundInv /\ IInv /\ [Next]_vars => SoundInv'
<1> SUFFICES ASSUME SoundInv, IInv, [Next]_vars PROVE SoundInv'
  OBVIOUS
<1>1. PICK V : stack \in Seq(Frame(V))
  BY DEF IInv, StackType
<1>2. /\ ctx \in Context /\ Rooted /\ Descends(stack) /\ Holds(stack) /\ AnswersSound
      /\ Idle /\ AnswersLast
  BY DEF SoundInv, IInv
<1>3. ASSUME NEW n \in Node, Begin(n) PROVE SoundInv'
  <2>1. stack = <<>> /\ root' = {n} /\ Call(n, <<>>) /\ ctx' = ctx
    BY <1>2, <1>3 DEF Begin, Idle
  <2>2. <<>> \in Seq(Frame(V)) /\ Descends(<<>>) /\ Holds(<<>>)
    BY <1>2, <2>1, <1>1
  <2>3. /\ Descends(stack)' /\ Holds(stack)' /\ AnswersSound'
        /\ stack' # <<>> => stack'[1].node = n
    BY <1>2, <2>1, <2>2, CallSound
  <2> QED BY <1>2, <2>1, <2>3 DEF SoundInv, Rooted
<1>4. CASE EvalOperand
  <2>1. stack # <<>> /\ ctx' = ctx /\ root' = root
    BY <1>4 DEF EvalOperand
  <2>2. PICK k \in Awaited(Top.node, Top.vals) : Call(Top.node.kids[k], stack)
    BY <1>4 DEF EvalOperand
  <2>3. Top \in Frame(V) /\ Top = stack[Len(stack)]
    BY <1>1, <2>1, BelowFacts
  <2>4. Top.node \in Node /\ Top.vals \in Seq(V)
    BY <2>3 DEF Frame
  <2> DEFINE n == Top.node.kids[k]
  <2>5. n \in Node
    <3> HIDE DEF Top
    <3> QED BY <2>2, <2>4, AwaitedRoom
  <2>6. Call(n, stack)
        /\ \E j \in Awaited(stack[Len(stack)].node, stack[Len(stack)].vals) :
             n = stack[Len(stack)].node.kids[j]
    BY <2>2, <2>3
  <2> HIDE DEF n
  <2>7. /\ Descends(stack)' /\ Holds(stack)' /\ AnswersSound'
        /\ stack' # <<>> => stack'[1].node = stack[1].node
    BY <1>1, <1>2, <2>1, <2>5, <2>6, CallSound
  <2> QED BY <1>2, <2>1, <2>7 DEF SoundInv, Rooted
<1>5. ASSUME NEW v, Sound(v), stack # <<>>, Deliver(Below, v), ctx' = ctx, root' = root
      PROVE  SoundInv'
  <2>1. /\ Below \in Seq(Frame(V)) /\ Descends(Below) /\ Holds(Below)
        /\ Below # <<>> =>
             /\ Len(Below[Len(Below)].vals) < Len(Operands(Below[Len(Below)].node))
             /\ Below[1].node = stack[1].node
    BY <1>1, <1>2, <1>5, BelowShape
  <2> HIDE DEF Below
  <2>2. /\ Descends(stack)' /\ Holds(stack)' /\ AnswersSound'
        /\ stack' # <<>> => Below # <<>> /\ stack'[1].node = Below[1].node
    BY <1>2, <1>5, <2>1, DeliverSound
  <2> QED BY <1>2, <1>5, <2>1, <2>2 DEF SoundInv, Rooted
<1>6. CASE Return
  <2> DEFINE v == Result(Top.node, Top.vals)
  <2>1. /\ stack # <<>> /\ Deliver(Below, v) /\ ctx' = ctx /\ root' = root
        /\ Awaited(Top.node, Top.vals) = {}
    BY <1>6 DEF Return
  <2>2. Top \in Frame(V) /\ Top = stack[Len(stack)] /\ Len(stack) \in DOMAIN stack
    BY <1>1, <2>1, BelowFacts
  <2>3. Top.node \in Node /\ Top.vals \in Seq(V)
    BY <2>2 DEF Frame
  <2>4. AllSound(Top.vals) /\ Len(Top.vals) <= Len(Operands(Top.node))
    BY <1>2, <2>2 DEF Holds
  <2>5. Sound(v)
    <3> HIDE DEF Top
    <3> QED BY <1>2, <2>1, <2>3, <2>4, ResultSound
  <2> HIDE DEF v
  <2> QED BY <1>5, <2>1, <2>5
<1>7. CASE AllocationFails
  <2>1. stack # <<>> /\ Deliver(Below, Error) /\ ctx' = ctx /\ root' = root
    BY <1>7 DEF AllocationFails
  <2> QED BY <1>5, <2>1, ErrorPlain, PlainSound
<1>8. CASE Take
  <2>1. stack = <<>> /\ stack' = stack /\ ctx' = ctx /\ answer' = {}
    BY <1>2, <1>8 DEF Take, AnswersLast
  <2>2. Descends(stack)' /\ Holds(stack)'
    BY <2>1 DEF Descends, Holds
  <2> QED BY <1>2, <2>1, <2>2 DEF SoundInv, Rooted, AnswersSound
<1>9. CASE UNCHANGED vars
  <2>1. ctx' = ctx /\ root' = root /\ stack' = stack /\ answer' = answer
    BY <1>9 DEF vars
  <2>2. Descends(stack)'
    BY <1>2, <2>1 DEF Descends
  <2> QED BY <1>2, <2>1, <2>2, SoundNext DEF SoundInv, Rooted
<1> QED BY <1>3, <1>4, <1>6, <1>7, <1>8, <1>9 DEF Next, Step

(* In every reachable state the frames are a way down the condition and    *)
(* what they hold is sound.                                                *)
THEOREM Soundness == Spec => [](IInv /\ SoundInv)
<1>1. Init => IInv /\ SoundInv
  BY InitInv, SoundInit
<1>2. (IInv /\ SoundInv) /\ [Next]_vars => (IInv /\ SoundInv)'
  BY NextInv, SoundStep
<1> QED BY <1>1, <1>2, PTL DEF Spec

(* A slot tag is never stale and never survives in a set or a record       *)
(* (expr.c:880-898): whatever the condition, `in' and attribute access     *)
(* through a tag read what belongs to the entity they are about.           *)
THEOREM SlotsAreSound == Spec => []SlotSound
<1>1. IInv /\ SoundInv => SlotSound
  <2> SUFFICES ASSUME IInv, SoundInv PROVE SlotSound
    OBVIOUS
  <2>1. ctx \in Context /\ Holds(stack) /\ AnswersSound
    BY DEF SoundInv
  <2>2. \A v : Sound(v) => TagSound(v)
    BY <2>1, SoundFacts
  <2> QED BY <2>1, <2>2 DEF SlotSound, Holds, AllSound, AnswersSound
<1> QED BY <1>1, Soundness, PTL

(* The C stack is a way down the condition, no node gets more operands     *)
(* than it has, and every number stays in the range of its C type          *)
(* (expr.c:900-916, 2296-2309).                                            *)
THEOREM TypesAreKept == Spec => []TypeOK
<1>1. IInv /\ SoundInv => TypeOK
  <2> SUFFICES ASSUME IInv, SoundInv PROVE TypeOK
    OBVIOUS
  <2>1. /\ ctx \in Context /\ Rooted /\ Descends(stack) /\ Holds(stack) /\ AnswersSound
        /\ AnswersLast /\ DepthCounted
    BY DEF SoundInv, IInv
  <2>2. PICK V : stack \in Seq(Frame(V))
    BY DEF IInv, StackType
  <2>3. \A v : Sound(v) => Typed(v)
    BY <2>1, SoundFacts
  <2>4. ASSUME NEW d \in DOMAIN stack
        PROVE  /\ d > 1 => \E k \in DOMAIN stack[d - 1].node.kids :
                              stack[d].node = stack[d - 1].node.kids[k]
               /\ Len(stack[d].vals) <= Len(stack[d].node.kids)
               /\ \A k \in DOMAIN stack[d].vals : Typed(stack[d].vals[k])
    <3>1. \A e \in DOMAIN stack : stack[e].node \in Node /\ stack[e].vals \in Seq(V)
      <4>1. \A e \in DOMAIN stack : stack[e] \in Frame(V)
        BY <2>2
      <4> QED BY <4>1 DEF Frame
    <3>2. ASSUME d > 1
          PROVE  \E k \in DOMAIN stack[d - 1].node.kids :
                   stack[d].node = stack[d - 1].node.kids[k]
      <4> DEFINE e == d - 1
      <4>1. e \in 1..Len(stack) - 1 /\ e \in DOMAIN stack /\ e + 1 = d
        BY <2>2, <3>2
      <4> HIDE DEF e
      <4>2. PICK k \in Awaited(stack[e].node, stack[e].vals) :
              stack[e + 1].node = stack[e].node.kids[k]
        BY <2>1, <4>1 DEF Descends
      <4>3. k \in DOMAIN stack[e].node.kids
        BY <3>1, <4>1, AwaitedRoom
      <4> QED BY <4>1, <4>2, <4>3 DEF e
    <3>3. Len(stack[d].vals) <= Len(stack[d].node.kids)
      <4> DEFINE n == stack[d].node
                 vals == stack[d].vals
      <4>1. n \in Node /\ Len(vals) \in Nat
        BY <3>1
      <4>2. Len(vals) <= Len(Operands(n))
        BY <2>1 DEF Holds
      <4> HIDE DEF n, vals
      <4>3. Len(Operands(n)) <= Len(n.kids) /\ Len(Operands(n)) \in Nat
            /\ Len(n.kids) \in Nat
        BY <4>1, OperandsFacts
      <4>4. Len(vals) <= Len(n.kids)
        BY <4>1, <4>2, <4>3
      <4> QED BY <4>4 DEF n, vals
    <3> QED BY <2>1, <2>3, <3>2, <3>3 DEF Holds, AllSound
  <2>5. eval_depth \in 0..MaxEvalDepth
    BY <2>1, <2>2, DepthAssumption DEF DepthCounted
  <2>6. fault \in {"none", "memory", "depth"}
    BY DEF IInv, FaultType
  <2>7. \A v \in answer : Typed(v)
    BY <2>1, <2>3 DEF AnswersSound
  <2> QED BY <2>1, <2>4, <2>5, <2>6, <2>7 DEF TypeOK, Rooted, AnswersLast
<1> QED BY <1>1, Soundness, PTL

-------------------------------------------------------------------------------
(* The levels of a condition, and that the frames go down them             *)

LEMMA LevelSteps ==
  ASSUME NEW n \in Node
  PROVE  /\ Level(n)[0] = {n}
         /\ \A k \in Nat : Level(n)[k + 1] = OperandsOf(Level(n)[k])
<1> DEFINE S == SUBSET Node
           step == [k \in Nat |-> [X \in S |-> OperandsOf(X)]]
           G(g) == [k \in Nat |-> IF k = 0 THEN {n} ELSE OperandsOf(g[k - 1])]
<1>1. \A X \in S : OperandsOf(X) \in S
  <2> SUFFICES ASSUME NEW X \in S, NEW m \in X, NEW j \in DOMAIN Operands(m)
               PROVE  m.kids[j] \in Node
    BY DEF OperandsOf
  <2>1. m \in Node
    OBVIOUS
  <2>2. m.kids \in Seq(Node) /\ j \in DOMAIN m.kids
    BY <2>1, OperandsFacts
  <2> QED BY <2>2
<1>2. {n} \in S
  OBVIOUS
<1>3. step \in [Nat -> [S -> S]]
  <2> HIDE DEF S
  <2> QED BY <1>1
<1>4. PICK f : f \in [Nat -> S] /\ f[0] = {n} /\ \A k \in Nat : f[k + 1] = step[k][f[k]]
  <2>1. \E f : Iterates(f, S, {n}, step)
    <3> HIDE DEF S, step
    <3> QED BY <1>2, <1>3, Recursion
  <2> HIDE DEF S, step
  <2> QED BY <2>1 DEF Iterates
<1> HIDE DEF S
<1>5. \A k \in Nat : f[k + 1] = OperandsOf(f[k])
  BY <1>4
<1>6. f = G(f)
  <2>1. ASSUME NEW k \in Nat PROVE f[k] = G(f)[k]
    <3>1. CASE k = 0
      BY <1>4, <3>1
    <3>2. CASE k # 0
      <4>1. k - 1 \in Nat /\ (k - 1) + 1 = k
        BY <3>2
      <4> QED BY <1>5, <3>2, <4>1
    <3> QED BY <3>1, <3>2
  <2>2. DOMAIN f = Nat /\ DOMAIN G(f) = Nat
    BY <1>4
  <2>3. f = [k \in Nat |-> f[k]]
    BY <1>4
  <2> HIDE DEF G
  <2>4. G(f) = [k \in Nat |-> G(f)[k]]
    BY DEF G
  <2> QED BY <2>1, <2>3, <2>4
<1>7. Level(n) = CHOOSE g : g = G(g)
  BY DEF Level
<1>8. Level(n) = G(Level(n))
  <2> HIDE DEF G
  <2> QED BY <1>6, <1>7
<1> DEFINE L == Level(n)
<1>9. L[0] = {n}
  BY <1>8
<1>10. \A k \in Nat : L[k + 1] = OperandsOf(L[k])
  <2> SUFFICES ASSUME NEW k \in Nat PROVE L[k + 1] = OperandsOf(L[k])
    OBVIOUS
  <2>1. k + 1 \in Nat /\ k + 1 # 0 /\ (k + 1) - 1 = k
    OBVIOUS
  <2> HIDE DEF L
  <2> QED BY <1>8, <2>1 DEF L
<1> QED BY <1>9, <1>10

LEMMA FramesGoDown ==
  ASSUME NEW V, stack \in Seq(Frame(V)), stack # <<>>, Descends(stack)
  PROVE  \A d \in 1..Len(stack) : stack[d].node \in Level(stack[1].node)[d - 1]
<1> DEFINE m == Len(stack)
           n == stack[1].node
           P == {k \in Nat : k + 1 <= m => stack[k + 1].node \in Level(n)[k]}
<1>1. m \in Nat \ {0} /\ \A d \in 1..m : stack[d] \in Frame(V)
  OBVIOUS
<1>2. \A d \in 1..m : stack[d].node \in Node /\ stack[d].vals \in Seq(V)
  BY <1>1 DEF Frame
<1>3. n \in Node
  BY <1>1, <1>2
<1> HIDE DEF m
<1>4. 0 \in P
  <2>1. Level(n)[0] = {n}
    BY <1>3, LevelSteps
  <2> QED BY <2>1
<1>5. ASSUME NEW k \in Nat, k \in P PROVE k + 1 \in P
  <2> SUFFICES ASSUME (k + 1) + 1 <= m PROVE stack[(k + 1) + 1].node \in Level(n)[k + 1]
    OBVIOUS
  <2> DEFINE d == k + 1
  <2>1. d \in 1..m - 1 /\ d \in 1..m
    BY <1>1
  <2>2. PICK j \in Awaited(stack[d].node, stack[d].vals) :
          stack[d + 1].node = stack[d].node.kids[j]
    BY <2>1 DEF Descends, m
  <2>3. stack[d].node \in Level(n)[k]
    BY <1>1, <1>5
  <2>4. j \in DOMAIN Operands(stack[d].node)
    BY <2>2 DEF Awaited
  <2>5. stack[d + 1].node \in OperandsOf(Level(n)[k])
    BY <2>2, <2>3, <2>4 DEF OperandsOf
  <2>6. Level(n)[k + 1] = OperandsOf(Level(n)[k])
    BY <1>3, LevelSteps
  <2> QED BY <2>5, <2>6
<1>6. Nat \subseteq P
  <2> HIDE DEF P
  <2> QED BY <1>4, <1>5, Induction
<1>7. ASSUME NEW d \in 1..m PROVE stack[d].node \in Level(n)[d - 1]
  <2>1. d - 1 \in Nat /\ (d - 1) + 1 = d /\ d <= m
    BY <1>1
  <2>2. d - 1 \in P
    BY <1>6, <2>1
  <2> QED BY <2>1, <2>2
<1> QED BY <1>7 DEF m

(* The limit is met by an operand of a frame that deep.                    *)
LEMMA CutOffStep ==
  ASSUME IInv, SoundInv, CutOffOnlyDeep, [Next]_vars
  PROVE  CutOffOnlyDeep'
<1>1. PICK V : stack \in Seq(Frame(V))
  BY DEF IInv, StackType
<1>2. /\ Rooted /\ Descends(stack) /\ Idle /\ AnswersLast /\ FaultCarried
      /\ eval_depth = Len(stack) /\ eval_depth <= MaxEvalDepth /\ Len(stack) \in Nat
  BY <1>1 DEF SoundInv, IInv, DepthCounted
<1>3. ASSUME root' = root, fault' = fault \/ fault' # "depth" PROVE CutOffOnlyDeep'
  BY <1>3 DEF CutOffOnlyDeep
<1>4. ASSUME NEW n \in Node, Begin(n) PROVE CutOffOnlyDeep'
  <2>1. fault = "none" /\ stack = <<>> /\ Call(n, <<>>)
    BY <1>2, <1>4 DEF Begin, Idle
  <2>2. ~(eval_depth >= MaxEvalDepth)
    BY <1>2, <2>1, DepthAssumption
  <2>3. fault' = "none"
    BY <2>1, <2>2 DEF Call
  <2> QED BY <2>3 DEF CutOffOnlyDeep
<1>5. CASE EvalOperand
  <2>1. stack # <<>> /\ root' = root
    BY <1>5 DEF EvalOperand
  <2>2. PICK k \in Awaited(Top.node, Top.vals) : Call(Top.node.kids[k], stack)
    BY <1>5 DEF EvalOperand
  <2>3. CASE ~(eval_depth >= MaxEvalDepth)
    BY <1>3, <2>1, <2>2, <2>3 DEF Call
  <2>4. CASE eval_depth >= MaxEvalDepth
    <3> DEFINE n == stack[1].node
               m == Len(stack)
    <3>1. m = MaxEvalDepth /\ m \in 1..m /\ m - 1 \in Nat /\ (m - 1) + 1 = m
      BY <1>2, <2>4, DepthAssumption
    <3>2. Top = stack[m] /\ stack[m].node \in Level(n)[m - 1]
      BY <1>1, <1>2, <2>1, <3>1, FramesGoDown DEF Top
    <3>3. k \in DOMAIN Operands(Top.node)
      BY <2>2 DEF Awaited
    <3>4. Top.node.kids[k] \in OperandsOf(Level(n)[m - 1])
      BY <3>2, <3>3 DEF OperandsOf
    <3>5. n \in Node
      <4>1. stack[1] \in Frame(V)
        BY <1>1, <2>1
      <4> QED BY <4>1 DEF Frame
    <3> HIDE DEF m, n
    <3>6. Level(n)[(m - 1) + 1] = OperandsOf(Level(n)[m - 1])
      BY <3>1, <3>5, LevelSteps
    <3>7. Level(n)[MaxEvalDepth] # {}
      BY <3>1, <3>4, <3>6
    <3>8. root' = {n}
      BY <1>2, <2>1 DEF Rooted, n
    <3> QED BY <3>7, <3>8 DEF CutOffOnlyDeep
  <2> QED BY <2>3, <2>4
<1>6. CASE Return
  BY <1>3, <1>6 DEF Return
<1>7. CASE AllocationFails
  BY <1>3, <1>7 DEF AllocationFails
<1>8. CASE Take
  BY <1>8 DEF Take, CutOffOnlyDeep
<1>9. CASE UNCHANGED vars
  BY <1>3, <1>9 DEF vars
<1> QED BY <1>4, <1>5, <1>6, <1>7, <1>8, <1>9 DEF Next, Step

(* Whatever was evaluated before in the context, only a condition with     *)
(* more levels of operands than the limit is cut off (expr.c:2367-2391).   *)
THEOREM OnlyDeepIsCutOff == Spec => []CutOffOnlyDeep
<1>1. Init => CutOffOnlyDeep
  BY DEF Init, CutOffOnlyDeep
<1>2. (IInv /\ SoundInv) /\ CutOffOnlyDeep /\ [Next]_vars => CutOffOnlyDeep'
  BY CutOffStep
<1> QED BY <1>1, <1>2, Soundness, PTL DEF Spec

-------------------------------------------------------------------------------
(* The value of a node, without a stack: a table of nodes and values, each *)
(* with a rank, justifies an entry by entries of the rank below for the    *)
(* operands that are evaluated.  The ranks make the justification finite.  *)

\* The operand that the j-th value is of
Held(n, vals, j) ==
  IF n.op = "ite" /\ j = 2 THEN IF IsBool(vals[1], TRUE) THEN 2 ELSE 3 ELSE j

\* vals are values that R gives of the operands a node starts with.
Reads(n, vals, R, rank) ==
  /\ \E V : vals \in Seq(V)
  /\ Len(vals) <= Len(Operands(n))
  /\ \A j \in DOMAIN vals : <<n.kids[Held(n, vals, j)], vals[j], rank>> \in R
  /\ \A j \in DOMAIN vals : j < Len(vals) => vals[j].type # "ERROR"
  /\ Len(vals) >= 2 => GoesOn(n, vals[1])
  /\ n.op = "ite" /\ Len(vals) >= 2 =>
       Len(vals) = 2 /\ (IsBool(vals[1], TRUE) \/ IsBool(vals[1], FALSE))

Justified(n, v, rank, R) ==
  \E vals : Reads(n, vals, R, rank) /\ Awaited(n, vals) = {} /\ v = Result(n, vals)

Table(R) ==
  \A t \in R : \E n, v, rank :
    /\ t = <<n, v, rank + 1>> /\ n \in Node /\ rank \in Nat
    /\ Sound(v) /\ Justified(n, v, rank, R)

Evaluates(n, v) == \E R, rank : Table(R) /\ <<n, v, rank>> \in R

LEMMA ReadsWiden ==
  ASSUME NEW n, NEW vals, NEW R, NEW W, R \subseteq W, NEW rank, Reads(n, vals, R, rank)
  PROVE  Reads(n, vals, W, rank)
BY DEF Reads

LEMMA NothingRead ==
  ASSUME NEW n \in Node, NEW R, NEW rank
  PROVE  Reads(n, <<>>, R, rank)
<1>1. Len(Operands(n)) \in Nat
  BY OperandsFacts
<1>2. <<>> \in Seq({}) /\ Len(<<>>) = 0 /\ DOMAIN <<>> = {}
  OBVIOUS
<1> QED BY <1>1, <1>2 DEF Reads

(* An entry of a table                                                     *)
LEMMA TableEntry ==
  ASSUME NEW R, Table(R), NEW n, NEW v, NEW rank, <<n, v, rank>> \in R
  PROVE  /\ n \in Node /\ Sound(v) /\ rank \in Nat \ {0}
         /\ Justified(n, v, rank - 1, R)
<1>1. PICK m, w, k :
        /\ <<n, v, rank>> = <<m, w, k + 1>> /\ m \in Node /\ k \in Nat
        /\ Sound(w) /\ Justified(m, w, k, R)
  BY DEF Table
<1>2. n = m /\ v = w /\ rank = k + 1
  BY <1>1
<1>3. k = rank - 1
  BY <1>1, <1>2
<1> QED BY <1>1, <1>2, <1>3

(* A node that awaits an operand reads its value next.                     *)
LEMMA ReadsNext ==
  ASSUME NEW n \in Node, NEW vals, NEW R, NEW rank, Reads(n, vals, R, rank),
         NEW k \in Awaited(n, vals), NEW v, <<n.kids[k], v, rank>> \in R
  PROVE  Reads(n, Append(vals, v), R, rank)
<1> DEFINE new == Append(vals, v)
           l == Len(vals)
<1>1. PICK V : vals \in Seq(V)
  BY DEF Reads
<1>2. /\ new \in Seq(V \cup {v}) /\ l \in Nat /\ DOMAIN vals = 1..l
      /\ Len(new) = l + 1 /\ DOMAIN new = 1..l + 1 /\ new[l + 1] = v
      /\ \A j \in 1..l : new[j] = vals[j]
  <2>1. new \in Seq(V \cup {v})
    BY <1>1, AppendValue
  <2> QED BY <1>1, <2>1
<1> HIDE DEF new
<1>3. l < Len(Operands(n)) /\ ~Failed(vals) /\ Len(Operands(n)) \in Nat
  BY <1>1, AwaitedRoom, OperandsFacts
<1>4. /\ n.op = "ite" /\ l > 0 =>
            l = 1 /\ ((k = 2 /\ IsBool(vals[1], TRUE)) \/ (k = 3 /\ IsBool(vals[1], FALSE)))
      /\ ~(n.op = "ite" /\ l > 0) => k = l + 1 /\ (l = 1 => GoesOn(n, vals[1]))
  BY DEF Awaited
<1>5. \A j \in 1..l : Held(n, new, j) = Held(n, vals, j)
  <2> SUFFICES ASSUME NEW j \in 1..l PROVE Held(n, new, j) = Held(n, vals, j)
    OBVIOUS
  <2>1. 1 \in 1..l
    BY <1>2
  <2>2. new[1] = vals[1]
    BY <1>2, <2>1
  <2> QED BY <2>2 DEF Held
<1>6. Held(n, new, l + 1) = k
  <2>1. CASE n.op = "ite" /\ l > 0
    <3>1. l = 1 /\ l + 1 = 2 /\ new[1] = vals[1]
      <4>1. l = 1
        BY <1>4, <2>1
      <4>2. 1 \in 1..l
        BY <4>1
      <4> QED BY <1>2, <4>1, <4>2
    <3>2. (k = 2 /\ IsBool(vals[1], TRUE)) \/ (k = 3 /\ ~IsBool(vals[1], TRUE))
      BY <1>4, <2>1 DEF IsBool
    <3> QED BY <2>1, <3>1, <3>2 DEF Held
  <2>2. CASE ~(n.op = "ite" /\ l > 0)
    <3>1. n.op = "ite" => l + 1 # 2
      BY <1>2, <2>2
    <3> QED BY <1>4, <2>2, <3>1 DEF Held
  <2> QED BY <2>1, <2>2
<1>7. \A j \in DOMAIN new : <<n.kids[Held(n, new, j)], new[j], rank>> \in R
  <2> SUFFICES ASSUME NEW j \in 1..l + 1
               PROVE  <<n.kids[Held(n, new, j)], new[j], rank>> \in R
    BY <1>2
  <2>1. CASE j = l + 1
    BY <1>2, <1>6, <2>1
  <2>2. CASE j # l + 1
    <3>1. j \in 1..l
      BY <1>2, <2>2
    <3>2. <<n.kids[Held(n, vals, j)], vals[j], rank>> \in R
      BY <1>2, <3>1 DEF Reads
    <3> QED BY <1>2, <1>5, <3>1, <3>2
  <2> QED BY <2>1, <2>2
<1>8. \A j \in DOMAIN new : j < Len(new) => new[j].type # "ERROR"
  <2> SUFFICES ASSUME NEW j \in 1..l PROVE new[j].type # "ERROR"
    BY <1>2
  <2> QED BY <1>2, <1>3 DEF Failed
<1>9. ASSUME l >= 1 PROVE l > 0 /\ new[1] = vals[1]
  <2>1. 1 \in 1..l
    BY <1>2, <1>9
  <2> QED BY <1>2, <1>9, <2>1
<1>10. Len(new) >= 2 => GoesOn(n, new[1])
  <2> SUFFICES ASSUME l >= 1 PROVE GoesOn(n, vals[1])
    BY <1>2, <1>9
  <2>1. CASE l = 1 /\ n.op # "ite"
    BY <1>4, <2>1
  <2>2. CASE n.op = "ite"
    BY <2>2 DEF GoesOn
  <2>3. CASE l >= 2
    BY <2>3 DEF Reads
  <2> QED BY <1>2, <2>1, <2>2, <2>3
<1>11. n.op = "ite" /\ Len(new) >= 2 =>
         Len(new) = 2 /\ (IsBool(new[1], TRUE) \/ IsBool(new[1], FALSE))
  <2> SUFFICES ASSUME n.op = "ite", Len(new) >= 2
               PROVE  Len(new) = 2 /\ (IsBool(new[1], TRUE) \/ IsBool(new[1], FALSE))
    OBVIOUS
  <2>1. l >= 1
    BY <1>2
  <2>2. l > 0 /\ new[1] = vals[1]
    BY <1>9, <2>1
  <2>3. l = 1 /\ (IsBool(vals[1], TRUE) \/ IsBool(vals[1], FALSE))
    BY <1>4, <2>2
  <2>4. Len(new) = 2
    BY <1>2, <2>3
  <2> QED BY <2>2, <2>3, <2>4, Zenon
<1>12. Len(new) <= Len(Operands(n))
  BY <1>2, <1>3
<1>13. Reads(n, new, R, rank)
  BY <1>2, <1>7, <1>8, <1>10, <1>11, <1>12 DEF Reads
<1> QED BY <1>13 DEF new

(* Of two readings that agree where both go, none that awaits nothing is   *)
(* the shorter one.                                                        *)
LEMMA ReadsAsLong ==
  ASSUME NEW n \in Node, NEW a, NEW b, NEW R, NEW S, NEW i, NEW j,
         Reads(n, a, R, i), Reads(n, b, S, j), Awaited(n, a) = {},
         \A k \in DOMAIN a : k \in DOMAIN b => a[k] = b[k]
  PROVE  Len(b) <= Len(a)
<1>1. /\ Len(a) \in Nat /\ DOMAIN a = 1..Len(a)
      /\ Len(b) \in Nat /\ DOMAIN b = 1..Len(b)
      /\ Len(Operands(n)) \in Nat /\ DOMAIN Operands(n) = 1..Len(Operands(n))
  BY OperandsFacts DEF Reads
<1> SUFFICES ASSUME Len(a) < Len(b) PROVE FALSE
  BY <1>1
<1>2. \A k \in 1..Len(a) : k \in 1..Len(b) /\ k < Len(b) /\ a[k] = b[k]
  BY <1>1
<1>3. ~Failed(a)
  BY <1>1, <1>2 DEF Failed, Reads
<1>4. Len(a) + 1 \in DOMAIN Operands(n)
  BY <1>1 DEF Reads
<1>5. Len(a) >= 1 => a[1] = b[1]
  <2>1. Len(a) >= 1 => 1 \in 1..Len(a)
    BY <1>1
  <2> QED BY <1>2, <2>1
<1>6. CASE n.op = "ite" /\ Len(a) > 0
  <2>1. Len(b) >= 2 /\ Len(a) >= 1
    BY <1>1, <1>6
  <2>2. Len(b) = 2 /\ (IsBool(b[1], TRUE) \/ IsBool(b[1], FALSE))
    BY <1>6, <2>1 DEF Reads
  <2>3. Len(a) = 1 /\ a[1] = b[1]
    BY <1>1, <1>5, <2>1, <2>2
  <2>4. DOMAIN Operands(n) = 1..3
    <3>1. Len(n.kids) = 3 /\ Operands(n) = n.kids
      BY <1>6, NodeAssumption, OperandsFacts DEF Arity
    <3> QED BY <1>1, <3>1
  <2>5. 2 \in DOMAIN Operands(n) /\ 3 \in DOMAIN Operands(n)
    BY <2>4
  <2>6. ASSUME NEW k \in DOMAIN Operands(n),
               (k = 2 /\ IsBool(a[1], TRUE)) \/ (k = 3 /\ IsBool(a[1], FALSE))
        PROVE  FALSE
    <3>1. n.op = "ite" /\ Len(a) > 0 /\ Len(a) = 1
      BY <1>6, <2>3
    <3>2. k \in Awaited(n, a)
      BY <1>3, <2>6, <3>1 DEF Awaited
    <3> QED BY <3>2
  <2>7. IsBool(a[1], TRUE) \/ IsBool(a[1], FALSE)
    BY <2>2, <2>3, Zenon
  <2> QED BY <2>5, <2>6, <2>7
<1>7. CASE ~(n.op = "ite" /\ Len(a) > 0)
  <2>1. Len(a) = 1 => GoesOn(n, a[1])
    <3> SUFFICES ASSUME Len(a) = 1 PROVE GoesOn(n, a[1])
      OBVIOUS
    <3>1. Len(b) >= 2 /\ a[1] = b[1]
      BY <1>1, <1>5
    <3> QED BY <3>1 DEF Reads
  <2>2. Len(a) + 1 \in Awaited(n, a)
    BY <1>3, <1>4, <1>7, <2>1 DEF Awaited
  <2> QED BY <2>2
<1> QED BY <1>6, <1>7

(* A node has one value, whatever the table.                               *)
LEMMA OneValue ==
  ASSUME NEW n, NEW v, NEW w, Evaluates(n, v), Evaluates(n, w)
  PROVE  v = w
<1>1. PICK R, i : Table(R) /\ <<n, v, i>> \in R
  BY DEF Evaluates
<1>2. PICK S, j : Table(S) /\ <<n, w, j>> \in S
  BY DEF Evaluates
<1> DEFINE P == {k \in Nat : \A m, x, y, l : <<m, x, k>> \in R /\ <<m, y, l>> \in S => x = y}
<1>3. 0 \in P
  <2> SUFFICES ASSUME NEW m, NEW x, <<m, x, 0>> \in R PROVE FALSE
    OBVIOUS
  <2>1. 0 \in Nat \ {0}
    BY <1>1, TableEntry
  <2> QED BY <2>1
<1>4. ASSUME NEW k \in Nat, k \in P PROVE k + 1 \in P
  <2> SUFFICES ASSUME NEW m, NEW x, NEW y, NEW l, <<m, x, k + 1>> \in R, <<m, y, l>> \in S
               PROVE  x = y
    OBVIOUS
  <2>1. m \in Node /\ Justified(m, x, k, R)
    <3>1. m \in Node /\ Justified(m, x, (k + 1) - 1, R)
      BY <1>1, TableEntry
    <3>2. (k + 1) - 1 = k
      OBVIOUS
    <3> QED BY <3>1, <3>2
  <2>2. Justified(m, y, l - 1, S)
    BY <1>2, TableEntry
  <2>3. PICK a : Reads(m, a, R, k) /\ Awaited(m, a) = {} /\ x = Result(m, a)
    BY <2>1 DEF Justified
  <2>4. PICK b : Reads(m, b, S, l - 1) /\ Awaited(m, b) = {} /\ y = Result(m, b)
    BY <2>2 DEF Justified
  <2>5. \A p, q, r : <<p, q, k>> \in R /\ <<p, r, l - 1>> \in S => q = r
    BY <1>4
  <2> HIDE DEF P
  <2>6. /\ \A h \in DOMAIN a : <<m.kids[Held(m, a, h)], a[h], k>> \in R
        /\ \A h \in DOMAIN b : <<m.kids[Held(m, b, h)], b[h], l - 1>> \in S
        /\ Len(a) \in Nat /\ DOMAIN a = 1..Len(a)
        /\ Len(b) \in Nat /\ DOMAIN b = 1..Len(b)
    BY <2>3, <2>4 DEF Reads
  <2>7. ASSUME 1 \in DOMAIN a, 1 \in DOMAIN b PROVE a[1] = b[1]
    <3>1. Held(m, a, 1) = 1 /\ Held(m, b, 1) = 1
      BY DEF Held
    <3>2. <<m.kids[1], a[1], k>> \in R /\ <<m.kids[1], b[1], l - 1>> \in S
      BY <2>6, <2>7, <3>1
    <3> QED BY <2>5, <3>2
  <2>8. ASSUME NEW h \in DOMAIN a, h \in DOMAIN b PROVE a[h] = b[h]
    <3>1. 1 \in DOMAIN a /\ 1 \in DOMAIN b
      BY <2>6, <2>8
    <3>2. Held(m, a, h) = Held(m, b, h)
      BY <2>7, <3>1 DEF Held
    <3>3. <<m.kids[Held(m, a, h)], a[h], k>> \in R
          /\ <<m.kids[Held(m, a, h)], b[h], l - 1>> \in S
      BY <2>6, <2>8, <3>2
    <3> QED BY <2>5, <3>3
  <2>9. Len(b) <= Len(a) /\ Len(a) <= Len(b)
    <3>1. \A h \in DOMAIN b : h \in DOMAIN a => b[h] = a[h]
      BY <2>8
    <3> QED BY <2>1, <2>3, <2>4, <2>8, <3>1, ReadsAsLong
  <2>10. a = b
    <3>1. Len(a) = Len(b)
      <4>1. Len(a) \in Nat /\ Len(b) \in Nat
        BY <2>6
      <4> QED BY <2>9, <4>1
    <3>2. \A h \in 1..Len(a) : a[h] = b[h]
      BY <2>6, <2>8, <3>1
    <3>3. a = [h \in 1..Len(a) |-> a[h]] /\ b = [h \in 1..Len(a) |-> b[h]]
      <4>1. (\E V : a \in Seq(V)) /\ (\E V : b \in Seq(V))
        BY <2>3, <2>4 DEF Reads
      <4>2. a = [h \in 1..Len(a) |-> a[h]]
        BY <4>1
      <4>3. b = [h \in 1..Len(b) |-> b[h]]
        BY <4>1
      <4> QED BY <3>1, <4>2, <4>3
    <3> QED BY <3>2, <3>3
  <2> QED BY <2>3, <2>4, <2>10
<1>5. Nat \subseteq P
  <2> HIDE DEF P
  <2> QED BY <1>3, <1>4, Induction
<1>6. i \in Nat
  BY <1>1, TableEntry
<1>7. i \in P
  BY <1>5, <1>6
<1> QED BY <1>1, <1>2, <1>7

(* What nodes evaluate to depends on the context, which no evaluation      *)
(* changes.                                                                *)
LEMMA LookupsSame ==
  ASSUME ctx' = ctx
  PROVE  /\ \A uid : RequestSlot(uid)' = RequestSlot(uid)
         /\ \A slot : LookupParents(slot)' = LookupParents(slot)
         /\ \A var : EvalVar(var)' = EvalVar(var)
         /\ \A n, vals : Store(n, vals)' = Store(n, vals)
<1>1. \A uid : RequestSlot(uid)' = RequestSlot(uid)
  BY DEF RequestSlot
<1>2. \A slot : LookupParents(slot)' = LookupParents(slot)
  BY DEF LookupParents
<1>3. \A var : EvalVar(var)' = EvalVar(var)
  BY DEF EvalVar
<1>4. \A n, vals : Store(n, vals)' = Store(n, vals)
  BY DEF Store
<1> QED BY <1>1, <1>2, <1>3, <1>4

LEMMA ResultSame ==
  ASSUME ctx' = ctx, NEW n, NEW vals
  PROVE  Result(n, vals)' = Result(n, vals)
<1>1. \A left, right : EvalIn(left, right)' = EvalIn(left, right)
  <2> SUFFICES ASSUME NEW left, NEW right PROVE EvalIn(left, right)' = EvalIn(left, right)
    OBVIOUS
  <2>1. LookupParents(left.slot)' = LookupParents(left.slot)
    BY LookupsSame
  <2>2. \A uid : EntityInTarget(left.uid, LookupParents(left.slot), uid)'
                  = EntityInTarget(left.uid, LookupParents(left.slot), uid)
    BY <2>1 DEF EntityInTarget
  <2> QED BY <2>2 DEF EvalIn
<1>2. EvalAttrAccess(n, vals)' = EvalAttrAccess(n, vals)
  BY LookupsSame DEF EvalAttrAccess
<1>3. EvalHas(n, vals)' = EvalHas(n, vals)
  BY LookupsSame DEF EvalHas
<1>4. EvalIsCheck(n, vals)' = EvalIsCheck(n, vals)
  BY <1>1 DEF EvalIsCheck
<1>5. Value(n, vals)' = Value(n, vals)
  BY <1>1, <1>2, <1>3, <1>4, LookupsSame DEF Value
<1> QED BY <1>5 DEF Result

LEMMA TableSame ==
  ASSUME ctx' = ctx, NEW R
  PROVE  Table(R)' <=> Table(R)
<1>1. \A v : Sound(v)' <=> Sound(v)
  BY DEF Sound
<1>2. \A n, v, rank : Justified(n, v, rank, R)' <=> Justified(n, v, rank, R)
  BY ResultSame DEF Justified
<1> QED BY <1>1, <1>2 DEF Table

\* Every frame has read what a table gives, the innermost at the lowest rank.
Reading(st, R) ==
  \A d \in DOMAIN st : Reads(st[d].node, st[d].vals, R, MaxEvalDepth - d)

Answered(R) == \A n \in root, v \in answer : <<n, v, MaxEvalDepth>> \in R

\* Without a fault, what was read and answered is what nodes evaluate to.
Worked == fault = "none" => \E R : Table(R) /\ Reading(stack, R) /\ Answered(R)

LEMMA DeliverReads ==
  ASSUME NEW V, NEW below \in Seq(Frame(V)), below # <<>>, NEW R, Reading(below, R),
         NEW k \in Awaited(below[Len(below)].node, below[Len(below)].vals),
         NEW v, <<below[Len(below)].node.kids[k], v, MaxEvalDepth - Len(below)>> \in R,
         NEW st, st = Delivered(below, v)
  PROVE  Reading(st, R)
<1> DEFINE m == Len(below)
           top == below[m]
           f == [top EXCEPT !.vals = Append(top.vals, v)]
<1>1. m \in DOMAIN below
  OBVIOUS
<1>2. top \in Frame(V)
  BY <1>1
<1>3. top.node \in Node /\ f.node = top.node /\ f.vals = Append(top.vals, v)
  BY <1>2 DEF Frame
<1>4. st = [below EXCEPT ![m] = f]
  BY DEF Delivered
<1> HIDE DEF f
<1>5. DOMAIN st = DOMAIN below /\ st[m] = f /\ \A d \in DOMAIN below : d # m => st[d] = below[d]
  BY <1>1, <1>4
<1>6. Reads(top.node, top.vals, R, MaxEvalDepth - m)
  BY <1>1 DEF Reading
<1>7. Reads(top.node, Append(top.vals, v), R, MaxEvalDepth - m)
  <2> HIDE DEF top
  <2> QED BY <1>3, <1>6, ReadsNext DEF top
<1> SUFFICES ASSUME NEW d \in DOMAIN below
             PROVE  Reads(st[d].node, st[d].vals, R, MaxEvalDepth - d)
  BY <1>5 DEF Reading
<1>8. CASE d = m
  BY <1>3, <1>5, <1>7, <1>8
<1>9. CASE d # m
  BY <1>5, <1>9 DEF Reading
<1> QED BY <1>8, <1>9

LEMMA CallReads ==
  ASSUME NEW V, NEW below \in Seq(Frame(V)), NEW R, Reading(below, R), NEW n \in Node,
         NEW st, st = Called(below, n)
  PROVE  Reading(st, R)
<1> DEFINE m == Len(below)
           f == [node |-> n, vals |-> <<>>]
<1>1. m \in Nat /\ DOMAIN below = 1..m /\ st = Append(below, f)
  BY DEF Called
<1>2. f.node = n /\ f.vals = <<>>
  OBVIOUS
<1> HIDE DEF f
<1>3. DOMAIN st = 1..m + 1 /\ st[m + 1] = f /\ \A d \in 1..m : st[d] = below[d]
  BY <1>1
<1> SUFFICES ASSUME NEW d \in 1..m + 1
             PROVE  Reads(st[d].node, st[d].vals, R, MaxEvalDepth - d)
  BY <1>3 DEF Reading
<1>4. CASE d = m + 1
  BY <1>2, <1>3, <1>4, NothingRead
<1>5. CASE d # m + 1
  <2>1. d \in 1..m
    BY <1>1, <1>5
  <2> QED BY <1>1, <1>3, <2>1 DEF Reading
<1> QED BY <1>4, <1>5

LEMMA WorkedNext ==
  ASSUME ctx' = ctx, NEW R, Table(R), Reading(stack', R),
         \A n \in root', v \in answer' : <<n, v, MaxEvalDepth>> \in R
  PROVE  Worked'
<1>1. Table(R)'
  BY TableSame
<1>2. Reading(stack, R)' /\ Answered(R)'
  BY DEF Reading, Answered
<1> QED BY <1>1, <1>2 DEF Worked

(* A frame that returns adds what it evaluates to to the table.            *)
LEMMA ReturnReads ==
  ASSUME NEW V, stack \in Seq(Frame(V)), Len(stack) <= MaxEvalDepth, SoundInv,
         AnswersLast, Return, NEW R, Table(R), Reading(stack, R)
  PROVE  Worked'
<1> DEFINE m == Len(stack)
           n == stack[m].node
           vals == stack[m].vals
           v == Result(n, vals)
           rank == MaxEvalDepth - m
           t == <<n, v, rank + 1>>
           W == R \cup {t}
<1>1. /\ stack # <<>> /\ Awaited(n, vals) = {} /\ Deliver(Below, v)
      /\ ctx' = ctx /\ root' = root /\ fault' = fault
  BY DEF Return, Top
<1>2. /\ ctx \in Context /\ Descends(stack) /\ Holds(stack) /\ root = {stack[1].node}
  BY <1>1 DEF SoundInv, Rooted
<1>3. m \in Nat \ {0} /\ m \in DOMAIN stack /\ DOMAIN stack = 1..m
  BY <1>1
<1>4. stack[m] \in Frame(V)
  BY <1>3
<1>5. n \in Node /\ vals \in Seq(V)
  BY <1>4 DEF Frame
<1>6. AllSound(vals) /\ Len(vals) <= Len(Operands(n)) /\ Reads(n, vals, R, rank)
  BY <1>2, <1>3 DEF Holds, Reading
<1>7. rank \in Nat
  BY <1>3, DepthAssumption
<1> HIDE DEF m, n, vals
<1>8. Sound(v)
  BY <1>1, <1>2, <1>5, <1>6, ResultSound
<1> HIDE DEF v, rank
<1>9. R \subseteq W
  OBVIOUS
<1> HIDE DEF W
<1>10. \A i, w, k : Justified(i, w, k, R) => Justified(i, w, k, W)
  BY <1>9, ReadsWiden DEF Justified
<1>11. Justified(n, v, rank, W)
  <2>1. Reads(n, vals, W, rank)
    BY <1>6, <1>9, ReadsWiden
  <2> QED BY <1>1, <2>1 DEF Justified, v
<1>12. Table(W)
  <2> SUFFICES ASSUME NEW s \in W
               PROVE  \E i, w, k :
                        /\ s = <<i, w, k + 1>> /\ i \in Node /\ k \in Nat
                        /\ Sound(w) /\ Justified(i, w, k, W)
    BY DEF Table
  <2>1. CASE s \in R
    <3>1. PICK i, w, k :
            /\ s = <<i, w, k + 1>> /\ i \in Node /\ k \in Nat
            /\ Sound(w) /\ Justified(i, w, k, R)
      BY <2>1 DEF Table
    <3> QED BY <1>10, <3>1
  <2>2. CASE s = t
    BY <1>5, <1>7, <1>8, <1>11, <2>2
  <2> QED BY <2>1, <2>2 DEF W
<1>13. Reading(stack, W)
  BY <1>9, ReadsWiden DEF Reading
<1>14. t \in W
  BY DEF W
<1>15. /\ Below \in Seq(Frame(V)) /\ Len(Below) = m - 1
       /\ \A d \in DOMAIN Below : d \in DOMAIN stack /\ Below[d] = stack[d]
  BY <1>1, BelowFacts DEF m
<1>16. Reading(Below, W)
  BY <1>13, <1>15 DEF Reading
<1> HIDE DEF Below
<1>17. CASE Below = <<>>
  <2>1. stack' = <<>> /\ answer' = {v}
    BY <1>1, <1>17 DEF Deliver
  <2>2. Reading(stack', W)
    BY <2>1 DEF Reading
  <2>3. m = 1
    BY <1>3, <1>15, <1>17
  <2>4. rank + 1 = MaxEvalDepth /\ root' = {n}
    BY <1>1, <1>2, <2>3, DepthAssumption DEF rank, n
  <2> QED BY <1>1, <1>12, <1>14, <2>1, <2>2, <2>4, WorkedNext
<1>18. CASE Below # <<>>
  <2> DEFINE l == Len(Below)
  <2>1. stack' = Delivered(Below, v) /\ answer' = {}
    BY <1>1, <1>18 DEF Deliver, Delivered, AnswersLast
  <2>2. l \in 1..m - 1 /\ l \in DOMAIN Below /\ l + 1 = m
    BY <1>3, <1>15, <1>18
  <2>3. PICK k \in Awaited(Below[l].node, Below[l].vals) : n = Below[l].node.kids[k]
    BY <1>2, <1>15, <2>2 DEF Descends, m, n
  <2>4. rank + 1 = MaxEvalDepth - l
    BY <1>3, <2>2, DepthAssumption DEF rank
  <2>5. <<Below[l].node.kids[k], v, MaxEvalDepth - l>> \in W
    BY <1>14, <2>3, <2>4
  <2>6. Reading(stack', W)
    BY <1>15, <1>16, <1>18, <2>1, <2>3, <2>5, DeliverReads
  <2> QED BY <1>1, <1>12, <2>1, <2>6, WorkedNext
<1> QED BY <1>17, <1>18

LEMMA WorkedStep == IInv /\ SoundInv /\ Worked /\ [Next]_vars => Worked'
<1> SUFFICES ASSUME IInv, SoundInv, Worked, [Next]_vars, fault' = "none" PROVE Worked'
  BY DEF Worked
<1>1. PICK V : stack \in Seq(Frame(V))
  BY DEF IInv, StackType
<1>2. /\ ctx \in Context /\ Idle /\ AnswersLast /\ eval_depth = Len(stack)
      /\ eval_depth <= MaxEvalDepth
  BY DEF SoundInv, IInv, DepthCounted
<1>3. Table({}) /\ \A n, v : Reading(<<>>, {})
  BY DEF Table, Reading
<1>4. ASSUME NEW n \in Node, NEW R, Table(R), Reading(stack, R), Call(n, stack),
             AnswersLast, stack = <<>> => answer = {}, ctx' = ctx
      PROVE  Worked'
  <2>1. stack' = Called(stack, n) /\ answer' = {}
    BY <1>4 DEF Call, Called, AnswersLast
  <2>2. Reading(stack', R)
    BY <1>1, <1>4, <2>1, CallReads
  <2> QED BY <1>4, <2>1, <2>2, WorkedNext
<1>5. ASSUME NEW n \in Node, Begin(n) PROVE Worked'
  <2>1. stack = <<>> /\ answer = {} /\ Call(n, stack) /\ ctx' = ctx
    BY <1>2, <1>5 DEF Begin, Idle
  <2> QED BY <1>2, <1>3, <1>4, <1>5, <2>1
<1>6. ASSUME fault = "none"
      PROVE  \E R : Table(R) /\ Reading(stack, R) /\ Answered(R)
  BY <1>6 DEF Worked
<1>7. CASE EvalOperand
  <2>1. stack # <<>> /\ ctx' = ctx
    BY <1>7 DEF EvalOperand
  <2>2. PICK k \in Awaited(Top.node, Top.vals) : Call(Top.node.kids[k], stack)
    BY <1>7 DEF EvalOperand
  <2>3. fault = "none"
    BY <2>2 DEF Call
  <2>4. PICK R : Table(R) /\ Reading(stack, R)
    BY <1>6, <2>3
  <2>5. Top \in Frame(V)
    BY <1>1, <2>1, BelowFacts
  <2>6. Top.node.kids[k] \in Node
    <3>1. Top.node \in Node /\ Top.vals \in Seq(V)
      BY <2>5 DEF Frame
    <3> HIDE DEF Top
    <3> QED BY <2>2, <3>1, AwaitedRoom
  <2> QED BY <1>2, <1>4, <2>1, <2>2, <2>4, <2>6
<1>8. CASE Return
  <2>1. fault = "none"
    BY <1>8 DEF Return
  <2>2. PICK R : Table(R) /\ Reading(stack, R)
    BY <1>6, <2>1
  <2> QED BY <1>1, <1>2, <1>8, <2>2, ReturnReads
<1>9. CASE AllocationFails
  BY <1>9 DEF AllocationFails
<1>10. CASE Take
  <2>1. stack' = <<>> /\ answer' = {} /\ ctx' = ctx
    BY <1>2, <1>10 DEF Take, AnswersLast
  <2> QED BY <1>3, <2>1, WorkedNext
<1>11. CASE UNCHANGED vars
  <2>1. ctx' = ctx /\ stack' = stack /\ answer' = answer /\ root' = root /\ fault = "none"
    BY <1>11 DEF vars
  <2>2. PICK R : Table(R) /\ Reading(stack, R) /\ Answered(R)
    BY <1>6, <2>1
  <2> QED BY <2>1, <2>2, WorkedNext DEF Answered
<1> QED BY <1>5, <1>7, <1>8, <1>9, <1>10, <1>11 DEF Next, Step

(* In every reachable state the values that frames hold have a table that  *)
(* justifies them, each by those of its node's operands.                   *)
THEOREM Working == Spec => [](IInv /\ SoundInv /\ Worked)
<1>1. Init => Worked
  <2> SUFFICES ASSUME Init PROVE Worked
    OBVIOUS
  <2>1. stack = <<>> /\ answer = {}
    BY DEF Init
  <2>2. Table({}) /\ Reading(stack, {}) /\ Answered({})
    BY <2>1 DEF Table, Reading, Answered
  <2> QED BY <2>2 DEF Worked
<1> QED BY <1>1, Soundness, WorkedStep, PTL DEF Spec

(* A condition whose evaluation met no fault yields a value that the       *)
(* values of its operands justify in turn, so by OneValue the value that   *)
(* the condition has in the context: nothing else the evaluator did before *)
(* or in between bears on it (expr.c:2270-2391).                           *)
AnswersEvaluate ==
  \A n \in root, v \in answer : fault = "none" => Evaluates(n, v) /\ Sound(v)

(* Whatever the condition and the context, an answer is the value that the *)
(* rules alone give it, or the evaluation met a fault.                     *)
THEOREM AnswersAreValues == Spec => []AnswersEvaluate
<1>1. SoundInv /\ Worked => AnswersEvaluate
  BY DEF SoundInv, AnswersSound, Worked, Answered, AnswersEvaluate, Evaluates
<1> QED BY <1>1, Working, PTL

-------------------------------------------------------------------------------
(* What follows of the values of a node's operands                         *)

\* vals are the values of the operands that decide a node.
Decides(n, vals) ==
  /\ \E V : vals \in Seq(V)
  /\ Len(vals) <= Len(Operands(n)) /\ Awaited(n, vals) = {}
  /\ \A j \in DOMAIN vals :
       Sound(vals[j]) /\ Evaluates(n.kids[Held(n, vals, j)], vals[j])

LEMMA EvaluatesFrom ==
  ASSUME NEW n, NEW v, Evaluates(n, v)
  PROVE  n \in Node /\ Sound(v) /\ \E vals : Decides(n, vals) /\ v = Result(n, vals)
<1>1. PICK R, rank : Table(R) /\ <<n, v, rank>> \in R
  BY DEF Evaluates
<1>2. n \in Node /\ Sound(v) /\ Justified(n, v, rank - 1, R)
  BY <1>1, TableEntry
<1>3. PICK vals : Reads(n, vals, R, rank - 1) /\ Awaited(n, vals) = {} /\ v = Result(n, vals)
  BY <1>2 DEF Justified
<1>4. ASSUME NEW j \in DOMAIN vals
      PROVE  Sound(vals[j]) /\ Evaluates(n.kids[Held(n, vals, j)], vals[j])
  <2>1. <<n.kids[Held(n, vals, j)], vals[j], rank - 1>> \in R
    BY <1>3 DEF Reads
  <2> QED BY <1>1, <2>1, TableEntry DEF Evaluates
<1> QED BY <1>2, <1>3, <1>4 DEF Decides, Reads

(* The same for a frame that has read some values                          *)
LEMMA ReadingFacts ==
  ASSUME NEW st, NEW R, Table(R), Reading(st, R), NEW d \in DOMAIN st,
         NEW j \in DOMAIN st[d].vals
  PROVE  Evaluates(st[d].node.kids[Held(st[d].node, st[d].vals, j)], st[d].vals[j])
<1>1. <<st[d].node.kids[Held(st[d].node, st[d].vals, j)], st[d].vals[j], MaxEvalDepth - d>> \in R
  BY DEF Reading, Reads
<1> QED BY <1>1 DEF Evaluates

(* A store that `has' found an attribute in is there for the access too.   *)
LEMMA GuardHolds ==
  ASSUME NEW h, h.op = "has", NEW a, Evaluates(h, a), IsBool(a, TRUE),
         NEW r, r.op = "attr", r.kids = h.kids, r.name = h.name,
         NEW x, Evaluates(r, x), ctx \in Context
  PROVE  x.type # "ERROR"
<1>1. h \in Node /\ r \in Node
  BY EvaluatesFrom
<1>2. PICK hv : Decides(h, hv) /\ a = Result(h, hv)
  BY EvaluatesFrom
<1>3. PICK rv : Decides(r, rv) /\ x = Result(r, rv)
  BY EvaluatesFrom
<1>4. ~Failed(hv) /\ a = EvalHas(h, hv)
  BY <1>2 DEF Result, Value, Error, IsBool
<1>5. HasStore(h, hv) /\ Named(Store(h, hv), h.name) # {}
  BY <1>4 DEF EvalHas, Error, Bool, IsBool
<1>6. ~Failed(rv) /\ HasStore(r, rv) /\ Store(r, rv) = Store(h, hv)
      /\ (r.kids[1].op # "var" => Sound(rv[1]))
  <2>1. CASE h.kids[1].op = "var"
    <3>1. Operands(r) = <<>>
      BY <2>1 DEF Operands
    <3>2. DOMAIN rv = {}
      <4>1. PICK V : rv \in Seq(V)
        BY <1>3 DEF Decides
      <4>2. Len(rv) <= 0
        BY <1>3, <3>1 DEF Decides
      <4> QED BY <4>1, <4>2
    <3> QED BY <2>1, <3>2 DEF Failed, HasStore, Store
  <2>2. CASE h.kids[1].op # "var"
    <3>1. Operands(h) = h.kids /\ Operands(r) = h.kids /\ Len(h.kids) = 1
      BY <1>1, <2>2, NodeAssumption DEF Operands, Arity
    <3>2. PICK V : hv \in Seq(V)
      BY <1>2 DEF Decides
    <3>3. PICK W : rv \in Seq(W)
      BY <1>3 DEF Decides
    <3>4. Len(hv) = 1
      BY <1>1, <1>2, <1>4, <3>1, <3>2, Decided DEF Decides
    <3>5. 1 \in DOMAIN hv
      BY <3>2, <3>4
    <3>6. Evaluates(h.kids[1], hv[1]) /\ Sound(hv[1])
      BY <1>2, <3>5 DEF Decides, Held
    <3>7. \A j \in DOMAIN rv : j = 1
      BY <1>3, <3>1, <3>3 DEF Decides
    <3>8. ASSUME 1 \in DOMAIN rv PROVE rv[1] = hv[1]
      <4>1. Evaluates(h.kids[1], rv[1])
        BY <1>3, <3>8 DEF Decides, Held
      <4> QED BY <3>6, <4>1, OneValue
    <3>9. hv[1].type # "ERROR"
      BY <1>5, <2>2 DEF HasStore
    <3>10. ~Failed(rv)
      BY <3>7, <3>8, <3>9 DEF Failed
    <3>11. Len(rv) = 1
      BY <1>1, <1>3, <3>1, <3>3, <3>10, Decided DEF Decides
    <3>12. rv[1] = hv[1]
      BY <3>3, <3>8, <3>11
    <3> QED BY <1>5, <2>2, <3>6, <3>10, <3>12 DEF HasStore, Store
  <2> QED BY <2>1, <2>2
<1>7. x = EvalAttrAccess(r, rv)
  BY <1>3, <1>6 DEF Result, Value
<1> QED BY <1>1, <1>5, <1>6, <1>7, AttrSound

(* `o has a && o.a ...' never errs at the access: no way to evaluate o     *)
(* twice gives two objects, and `has' and the access look the attribute up *)
(* in the same store (expr.c:230-348, 418-534).                            *)
THEOREM HasGuardsAccess == Spec => []HasGuards
<1>1. IInv /\ SoundInv /\ Worked => HasGuards
  <2> SUFFICES ASSUME IInv, SoundInv, Worked, NEW d \in 1..Len(stack) - 1,
                      Guarded(stack[d].node), Len(stack[d].vals) = 1,
                      stack[d + 1].vals # <<>>, fault = "none"
               PROVE  stack[d + 1].vals[1].type # "ERROR"
    BY DEF HasGuards
  <2> DEFINE n == stack[d].node
             vals == stack[d].vals
             g == stack[d + 1].node
             reads == stack[d + 1].vals
  <2>1. PICK V : stack \in Seq(Frame(V))
    BY DEF IInv, StackType
  <2>2. d \in DOMAIN stack /\ d + 1 \in DOMAIN stack
    BY <2>1
  <2>3. stack[d] \in Frame(V) /\ stack[d + 1] \in Frame(V)
    BY <2>1, <2>2
  <2>4. n \in Node /\ vals \in Seq(V) /\ g \in Node /\ reads \in Seq(V)
    BY <2>3 DEF Frame
  <2>5. PICK R : Table(R) /\ Reading(stack, R)
    BY DEF Worked
  <2>6. PICK k \in Awaited(n, vals) : g = n.kids[k]
    BY DEF SoundInv, Descends
  <2>7. n.op = "and" /\ k = 2 /\ IsBool(vals[1], TRUE)
    <3>1. n.op = "and" /\ Len(vals) = 1
      BY DEF Guarded
    <3> HIDE DEF n, vals
    <3>2. k = Len(vals) + 1 /\ GoesOn(n, vals[1])
      BY <2>6, <3>1 DEF Awaited
    <3>3. k = 2
      BY <3>1, <3>2
    <3>4. IsBool(vals[1], TRUE)
      BY <3>1, <3>2 DEF GoesOn
    <3> QED BY <3>1, <3>3, <3>4
  <2>8. 1 \in DOMAIN vals /\ 1 \in DOMAIN reads
    BY <2>4
  <2>9. Evaluates(n.kids[1], vals[1]) /\ Evaluates(g.kids[1], reads[1])
    <3>1. Held(n, vals, 1) = 1 /\ Held(g, reads, 1) = 1
      BY DEF Held
    <3> QED BY <2>2, <2>5, <2>8, <3>1, ReadingFacts
  <2>10. /\ n.kids[1].op = "has" /\ g.kids[1].op = "attr"
         /\ g.kids[1].kids = n.kids[1].kids /\ g.kids[1].name = n.kids[1].name
    BY <2>6, <2>7 DEF Guarded
  <2> HIDE DEF n, vals, g, reads
  <2>11. reads[1].type # "ERROR"
    BY <2>7, <2>9, <2>10, GuardHolds DEF SoundInv
  <2> QED BY <2>11 DEF reads
<1> QED BY <1>1, Working, PTL

(* Names of entities evaluate to the entities they name.                   *)
LEMMA NameValues ==
  ASSUME NEW n, NEW v, Evaluates(n, v)
  PROVE  /\ n.op = "var" /\ n.var \in Slot => v = Entity(ctx.uid[n.var], n.var)
         /\ n.op = "entity_ref" => v = Entity(n.uid, RequestSlot(n.uid))
<1> SUFFICES ASSUME n.op \in {"var", "entity_ref"}
             PROVE  /\ n.op = "var" /\ n.var \in Slot => v = Entity(ctx.uid[n.var], n.var)
                    /\ n.op = "entity_ref" => v = Entity(n.uid, RequestSlot(n.uid))
  OBVIOUS
<1>1. n \in Node
  BY EvaluatesFrom
<1>2. PICK vals : Decides(n, vals) /\ v = Result(n, vals)
  BY EvaluatesFrom
<1>3. Operands(n) = n.kids /\ Len(n.kids) = 0
  BY <1>1, NodeAssumption DEF Operands, Arity
<1>4. DOMAIN vals = {}
  <2>1. PICK V : vals \in Seq(V)
    BY <1>2 DEF Decides
  <2>2. Len(vals) <= 0
    BY <1>2, <1>3 DEF Decides
  <2> QED BY <2>1, <2>2
<1>5. v = Value(n, vals)
  BY <1>2, <1>4 DEF Result, Failed
<1> QED BY <1>5 DEF Value, EvalVar, Slot

(* Operands that are no errors decide a node of two together.              *)
LEMMA TwoValues ==
  ASSUME NEW n \in Node, n.op \in {"eq", "in"}, NEW vals, Decides(n, vals),
         \A w : Evaluates(n.kids[1], w) => w.type # "ERROR",
         \A w : Evaluates(n.kids[2], w) => w.type # "ERROR"
  PROVE  ~Failed(vals) /\ Evaluates(n.kids[1], vals[1]) /\ Evaluates(n.kids[2], vals[2])
<1>1. Operands(n) = n.kids /\ Len(n.kids) = 2
  BY NodeAssumption DEF Operands, Arity
<1>2. PICK V : vals \in Seq(V)
  BY DEF Decides
<1>3. ASSUME NEW j \in DOMAIN vals PROVE j \in {1, 2} /\ Evaluates(n.kids[j], vals[j])
  <2>1. Len(vals) \in Nat /\ DOMAIN vals = 1..Len(vals) /\ Len(vals) <= 2
    BY <1>1, <1>2 DEF Decides
  <2>2. j \in {1, 2}
    BY <2>1
  <2>3. Held(n, vals, j) = j
    BY DEF Held
  <2> QED BY <2>2, <2>3 DEF Decides
<1>4. ~Failed(vals)
  BY <1>3 DEF Failed
<1>5. Len(vals) = 2
  BY <1>1, <1>2, <1>4, Decided DEF Decides
<1>6. 1 \in DOMAIN vals /\ 2 \in DOMAIN vals
  BY <1>2, <1>5
<1> QED BY <1>3, <1>4, <1>6

(* A set literal of names holds the entities, without their tags.          *)
LEMMA SetValue ==
  ASSUME NEW n, n.op = "set", \A k \in DOMAIN n.kids : n.kids[k].op = "entity_ref",
         NEW v, Evaluates(n, v)
  PROVE  /\ v.type = "SET" /\ DOMAIN v.elts = DOMAIN n.kids
         /\ \A k \in DOMAIN n.kids : v.elts[k] = Entity(n.kids[k].uid, "none")
<1>1. n \in Node
  BY EvaluatesFrom
<1>2. PICK vals : Decides(n, vals) /\ v = Result(n, vals)
  BY EvaluatesFrom
<1>3. Operands(n) = n.kids /\ n.kids \in Seq(Node)
  BY <1>1, NodeAssumption DEF Operands
<1>4. PICK V : vals \in Seq(V)
  BY <1>2 DEF Decides
<1>5. DOMAIN vals = 1..Len(vals) /\ DOMAIN n.kids = 1..Len(n.kids)
      /\ Len(vals) \in Nat /\ Len(n.kids) \in Nat /\ Len(vals) <= Len(n.kids)
  BY <1>2, <1>3, <1>4 DEF Decides
<1>6. ASSUME NEW j \in DOMAIN vals
      PROVE  vals[j] = Entity(n.kids[j].uid, RequestSlot(n.kids[j].uid))
  <2>1. Evaluates(n.kids[j], vals[j])
    BY <1>2 DEF Decides, Held
  <2>2. n.kids[j].op = "entity_ref"
    BY <1>5
  <2> QED BY <2>1, <2>2, NameValues
<1>7. ~Failed(vals)
  BY <1>6 DEF Failed, Entity
<1>8. Len(vals) = Len(n.kids)
  BY <1>1, <1>2, <1>3, <1>4, <1>7, Decided DEF Decides
<1>9. v = [type |-> "SET", elts |-> [k \in DOMAIN vals |-> ClearSlot(vals[k])]]
  BY <1>2, <1>7 DEF Result, Value
<1>10. \A j \in DOMAIN vals : ClearSlot(vals[j]) = Entity(n.kids[j].uid, "none")
  BY <1>6 DEF ClearSlot, Entity
<1> QED BY <1>5, <1>8, <1>9, <1>10

-------------------------------------------------------------------------------
(* The scope clauses and the conditions that say the same                  *)

\* What names the entity of a slot
LEMMA SlotFacts ==
  ASSUME ctx \in Context, NEW s \in Slot, NEW m, NEW w, m.op = "entity_ref",
         Evaluates(m, w)
  PROVE  /\ w.type = "ENTITY" /\ w.uid = m.uid
         /\ Equals(Entity(ctx.uid[s], s), w) = IF ctx.uid[s] = m.uid THEN "yes" ELSE "no"
<1>1. w = Entity(m.uid, RequestSlot(m.uid)) /\ m \in Node
  BY NameValues, EvaluatesFrom
<1>2. RequestSlot(m.uid) \in Slot \cup {"none"}
  BY DEF RequestSlot, Slot
<1>3. ctx.uid[s] \in Uids /\ m.uid \in Uids
  BY <1>1 DEF Uids
<1> HIDE DEF Slot
<1>4. Equals(Entity(ctx.uid[s], s), Entity(m.uid, RequestSlot(m.uid)))
        = IF ctx.uid[s] = m.uid THEN "yes" ELSE "no"
  BY <1>2, <1>3, EqualsAssumption
<1> QED BY <1>1, <1>4 DEF Entity

LEMMA ScopeCases ==
  ASSUME NEW n, NEW scope \in ScopeClauses(n)
  PROVE  \/ /\ n.op = "eq" /\ n.kids[2].op = "entity_ref" /\ 2 \in DOMAIN n.kids
            /\ scope.constraint = "eq" /\ scope.target = Reference(n.kids[2])
         \/ /\ n.op = "in" /\ n.kids[2].op = "entity_ref" /\ 2 \in DOMAIN n.kids
            /\ scope.constraint = "in" /\ scope.target = Reference(n.kids[2])
         \/ /\ n.op = "in" /\ n.kids[2].op = "set"
            /\ \A k \in DOMAIN n.kids[2].kids : n.kids[2].kids[k].op = "entity_ref"
            /\ scope.constraint = "in" /\ scope.target.node = "set"
            /\ scope.target.elts =
                 [k \in DOMAIN n.kids[2].kids |-> Reference(n.kids[2].kids[k])]
         \/ /\ n.op = "is" /\ Len(n.kids) = 1
            /\ scope.constraint = "is" /\ scope.type = n.etype
         \/ /\ n.op = "is" /\ n.kids[2].op = "entity_ref" /\ 2 \in DOMAIN n.kids
            /\ scope.constraint = "is_in" /\ scope.type = n.etype
            /\ scope.target = Reference(n.kids[2])
<1> DEFINE m == n.kids[2]
           named == 2 \in DOMAIN n.kids /\ m.op = "entity_ref"
           listed == /\ m.op = "set"
                     /\ \A k \in DOMAIN m.kids : m.kids[k].op = "entity_ref"
           elts == [k \in DOMAIN m.kids |-> Reference(m.kids[k])]
           Clause(c, t, g) == [constraint |-> c, type |-> t, target |-> g]
<1>1. CASE n.op = "eq" /\ named
  <2>1. scope = Clause("eq", "", Reference(m))
    BY <1>1 DEF ScopeClauses
  <2>2. scope.constraint = "eq" /\ scope.target = Reference(m)
    BY <2>1
  <2> QED BY <1>1, <2>2
<1>2. CASE n.op = "in" /\ named
  <2>1. scope = Clause("in", "", Reference(m))
    BY <1>2 DEF ScopeClauses
  <2>2. scope.constraint = "in" /\ scope.target = Reference(m)
    BY <2>1
  <2> QED BY <1>2, <2>2
<1>3. CASE n.op = "in" /\ ~named /\ listed
  <2> DEFINE target == [node |-> "set", elts |-> elts]
  <2>1. scope = Clause("in", "", target)
    BY <1>3 DEF ScopeClauses
  <2>2. target.node = "set" /\ target.elts = elts
    OBVIOUS
  <2> HIDE DEF target, elts
  <2>3. scope.constraint = "in" /\ scope.target.node = "set" /\ scope.target.elts = elts
    BY <2>1, <2>2
  <2> QED BY <1>3, <2>3 DEF elts
<1>4. CASE n.op = "is"
  BY <1>4 DEF ScopeClauses
<1>5. CASE ~(n.op = "eq" /\ named) /\ ~(n.op = "in" /\ (named \/ listed)) /\ n.op # "is"
  BY <1>5 DEF ScopeClauses
<1> QED BY <1>1, <1>2, <1>3, <1>4, <1>5

(* == and `in' with an entity                                             *)
LEMMA BinaryAgrees ==
  ASSUME ctx \in Context, NEW n, n.op \in {"eq", "in"}, NEW v, Evaluates(n, v),
         n.kids[1].op = "var", NEW s \in Slot, n.kids[1].var = s,
         n.kids[2].op = "entity_ref"
  PROVE  v = IF n.op = "eq" THEN Bool(ctx.uid[s] = n.kids[2].uid)
             ELSE Bool(EntityInTarget(ctx.uid[s], ctx.parents[s], n.kids[2].uid))
<1>1. n \in Node
  BY EvaluatesFrom
<1>2. PICK vals : Decides(n, vals) /\ v = Result(n, vals)
  BY EvaluatesFrom
<1> DEFINE e == Entity(ctx.uid[s], s)
           m == n.kids[2]
           w == vals[2]
<1>3. \A x : Evaluates(n.kids[1], x) => x = e
  BY NameValues
<1>4. e.type = "ENTITY" /\ e.uid = ctx.uid[s] /\ LookupParents(e.slot) = ctx.parents[s]
  BY DEF Entity, LookupParents
<1>5. \A x : Evaluates(n.kids[1], x) => x.type # "ERROR"
  BY <1>3, <1>4
<1> HIDE DEF e
<1>6. \A x : Evaluates(m, x) =>
        /\ x.type = "ENTITY" /\ x.uid = m.uid
        /\ Equals(e, x) = IF ctx.uid[s] = m.uid THEN "yes" ELSE "no"
  BY SlotFacts DEF e
<1>7. ~Failed(vals) /\ vals[1] = e /\ Evaluates(m, w)
  BY <1>1, <1>2, <1>3, <1>5, <1>6, TwoValues
<1>8. w.type = "ENTITY" /\ w.uid = m.uid
      /\ Equals(e, w) = IF ctx.uid[s] = m.uid THEN "yes" ELSE "no"
  BY <1>6, <1>7
<1> HIDE DEF w
<1>9. n.op = "eq" => v = Outcome(Equals(e, w))
  BY <1>2, <1>7 DEF Result, Value, w
<1>10. n.op = "in" => v = EvalIn(e, w)
  BY <1>2, <1>7 DEF Result, Value, w
<1>11. Outcome(Equals(e, w)) = Bool(ctx.uid[s] = m.uid)
  BY <1>8 DEF Outcome, Bool
<1>12. EvalIn(e, w) = Bool(EntityInTarget(ctx.uid[s], ctx.parents[s], m.uid))
  BY <1>4, <1>8 DEF EvalIn
<1> QED BY <1>9, <1>10, <1>11, <1>12

(* `in' with a set of entities                                             *)
LEMMA SetAgrees ==
  ASSUME ctx \in Context, NEW n, n.op = "in", NEW v, Evaluates(n, v),
         n.kids[1].op = "var", NEW s \in Slot, n.kids[1].var = s, n.kids[2].op = "set",
         \A k \in DOMAIN n.kids[2].kids : n.kids[2].kids[k].op = "entity_ref"
  PROVE  v = Bool(\E k \in DOMAIN n.kids[2].kids :
                    EntityInTarget(ctx.uid[s], ctx.parents[s], n.kids[2].kids[k].uid))
<1>1. n \in Node
  BY EvaluatesFrom
<1>2. PICK vals : Decides(n, vals) /\ v = Result(n, vals)
  BY EvaluatesFrom
<1> DEFINE e == Entity(ctx.uid[s], s)
           m == n.kids[2]
           w == vals[2]
<1>3. \A x : Evaluates(n.kids[1], x) => x = e
  BY NameValues
<1>4. e.type = "ENTITY" /\ e.uid = ctx.uid[s] /\ LookupParents(e.slot) = ctx.parents[s]
  BY DEF Entity, LookupParents
<1>5. \A x : Evaluates(n.kids[1], x) => x.type # "ERROR"
  BY <1>3, <1>4
<1> HIDE DEF e
<1>6. \A x : Evaluates(m, x) =>
        /\ x.type = "SET" /\ DOMAIN x.elts = DOMAIN m.kids
        /\ \A k \in DOMAIN m.kids : x.elts[k] = Entity(m.kids[k].uid, "none")
  BY SetValue
<1>7. ~Failed(vals) /\ vals[1] = e /\ Evaluates(m, w)
  BY <1>1, <1>2, <1>3, <1>5, <1>6, TwoValues
<1>8. /\ w.type = "SET" /\ DOMAIN w.elts = DOMAIN m.kids
      /\ \A k \in DOMAIN m.kids :
           w.elts[k].type = "ENTITY" /\ w.elts[k].uid = m.kids[k].uid
  <2>1. w.type = "SET" /\ DOMAIN w.elts = DOMAIN m.kids
    BY <1>6, <1>7
  <2>2. \A k \in DOMAIN m.kids : w.elts[k] = Entity(m.kids[k].uid, "none")
    BY <1>6, <1>7
  <2>3. \A u : Entity(u, "none").type = "ENTITY" /\ Entity(u, "none").uid = u
    BY DEF Entity
  <2> HIDE DEF w, m
  <2> QED BY <2>1, <2>2, <2>3
<1> HIDE DEF w
<1>9. v = EvalIn(e, w)
  BY <1>2, <1>7 DEF Result, Value, w
<1>10. EvalIn(e, w) = Bool(\E k \in DOMAIN w.elts :
                            EntityInTarget(ctx.uid[s], ctx.parents[s], w.elts[k].uid))
  BY <1>4, <1>8 DEF EvalIn
<1>11. (\E k \in DOMAIN w.elts :
          EntityInTarget(ctx.uid[s], ctx.parents[s], w.elts[k].uid))
       = (\E k \in DOMAIN m.kids :
            EntityInTarget(ctx.uid[s], ctx.parents[s], m.kids[k].uid))
  BY <1>8
<1> QED BY <1>9, <1>10, <1>11

(* `is', with and without `in'                                             *)
LEMMA IsAgrees ==
  ASSUME ctx \in Context, NEW n, n.op = "is", NEW v, Evaluates(n, v),
         n.kids[1].op = "var", NEW s \in Slot, n.kids[1].var = s,
         Len(n.kids) = 1 \/ n.kids[2].op = "entity_ref"
  PROVE  v = Bool(/\ ctx.uid[s].type = n.etype
                  /\ \/ Len(n.kids) = 1
                     \/ EntityInTarget(ctx.uid[s], ctx.parents[s], n.kids[2].uid))
<1> DEFINE e == Entity(ctx.uid[s], s)
           m == n.kids[2]
<1>1. n \in Node
  BY EvaluatesFrom
<1>2. PICK vals : Decides(n, vals) /\ v = Result(n, vals)
  BY EvaluatesFrom
<1>3. Operands(n) = n.kids /\ Len(n.kids) \in {1, 2} /\ DOMAIN n.kids = 1..Len(n.kids)
  <2>1. n.kids \in Seq(Node) /\ Len(n.kids) \in Arity(n.op)
    BY <1>1, NodeAssumption
  <2>2. Arity(n.op) = {1, 2} /\ Operands(n) = n.kids
    BY DEF Arity, Operands
  <2>3. DOMAIN n.kids = 1..Len(n.kids)
    BY <2>1
  <2> QED BY <2>1, <2>2, <2>3
<1>4. PICK V : vals \in Seq(V)
  BY <1>2 DEF Decides
<1>5. /\ Len(vals) \in Nat /\ DOMAIN vals = 1..Len(vals) /\ Len(vals) <= Len(n.kids)
      /\ Awaited(n, vals) = {}
  BY <1>2, <1>3, <1>4 DEF Decides
<1>6. e.type = "ENTITY" /\ e.uid = ctx.uid[s] /\ LookupParents(e.slot) = ctx.parents[s]
  BY DEF Entity, LookupParents
<1>7. \A j \in DOMAIN vals : Evaluates(n.kids[j], vals[j])
  BY <1>2 DEF Decides, Held
<1>8. 1 \in DOMAIN vals => vals[1] = e
  BY <1>7, NameValues
<1>9. Len(n.kids) # 1 =>
        \A w : Evaluates(m, w) => w.type = "ENTITY" /\ w.uid = m.uid
  BY SlotFacts
<1> HIDE DEF e
<1>10. ~Failed(vals)
  <2> SUFFICES ASSUME NEW j \in DOMAIN vals PROVE vals[j].type # "ERROR"
    BY DEF Failed
  <2>1. CASE j = 1
    BY <1>6, <1>8, <2>1
  <2>2. CASE j # 1
    <3> DEFINE l == Len(vals)
               k == Len(n.kids)
    <3>1. j \in 1..l /\ l \in Nat /\ l <= k /\ k \in {1, 2}
      BY <1>3, <1>5
    <3> HIDE DEF l, k
    <3>2. j = 2 /\ k # 1
      BY <2>2, <3>1
    <3>3. Evaluates(m, vals[j])
      BY <1>7, <3>2
    <3> QED BY <1>9, <3>2, <3>3 DEF k
  <2> QED BY <2>1, <2>2
<1>11. vals[1] = e
  <2>1. Len(vals) >= 1
    BY <1>1, <1>2, <1>4, <1>10, Decided DEF Decides
  <2> QED BY <1>5, <1>8, <2>1
<1>12. v = EvalIsCheck(n, vals)
  BY <1>2, <1>10 DEF Result, Value
<1>13. CASE ctx.uid[s].type # n.etype
  BY <1>6, <1>11, <1>12, <1>13 DEF EvalIsCheck, Bool
<1>14. CASE ctx.uid[s].type = n.etype /\ Len(n.kids) = 1
  BY <1>6, <1>11, <1>12, <1>14 DEF EvalIsCheck, Bool
<1>15. CASE ctx.uid[s].type = n.etype /\ Len(n.kids) # 1
  <2>1. Len(vals) # 1
    <3> SUFFICES ASSUME Len(vals) = 1 PROVE FALSE
      OBVIOUS
    <3>1. 2 \in DOMAIN Operands(n) /\ 2 = Len(vals) + 1
      BY <1>3, <1>15
    <3>2. GoesOn(n, vals[1])
      BY <1>6, <1>11, <1>15 DEF GoesOn
    <3>3. 2 \in Awaited(n, vals)
      BY <1>10, <3>1, <3>2 DEF Awaited
    <3> QED BY <1>5, <3>3
  <2>2. Len(vals) >= 1
    BY <1>1, <1>2, <1>4, <1>10, Decided DEF Decides
  <2>3. 2 \in DOMAIN vals
    <3>1. Len(vals) >= 2
      BY <1>5, <2>1, <2>2
    <3> QED BY <1>5, <3>1
  <2> DEFINE w == vals[2]
  <2>4. w.type = "ENTITY" /\ w.uid = m.uid
    BY <1>7, <1>9, <1>15, <2>3
  <2>5. v = EvalIn(e, w)
    BY <1>6, <1>11, <1>12, <1>15 DEF EvalIsCheck
  <2> HIDE DEF w, m
  <2>6. v = Bool(EntityInTarget(ctx.uid[s], ctx.parents[s], m.uid))
    BY <1>6, <2>4, <2>5 DEF EvalIn
  <2> DEFINE p == EntityInTarget(ctx.uid[s], ctx.parents[s], m.uid)
  <2>7. (/\ ctx.uid[s].type = n.etype /\ (Len(n.kids) = 1 \/ p)) = p
    BY <1>15 DEF EntityInTarget
  <2> QED BY <2>6, <2>7 DEF m
<1> QED BY <1>13, <1>14, <1>15

(* A policy's scope and a `when' clause that says the same agree, although *)
(* eval.c:60-189 and expr.c:571-633, 1052-1090, 1216-1274 read the request *)
(* each in their own way.                                                  *)
THEOREM ScopesAgree == Spec => []ScopeAgrees
<1>1. IInv /\ SoundInv /\ Worked => ScopeAgrees
  <2> SUFFICES ASSUME SoundInv, Worked, NEW n \in root, NEW v \in answer,
                      n.kids[1].op = "var", fault = "none", NEW s \in Slot,
                      n.kids[1].var = s, NEW scope \in ScopeClauses(n)
               PROVE  v = Bool(ScopeMatches(scope, ctx.uid[s], ctx.parents[s]))
    BY DEF ScopeAgrees
  <2>1. ctx \in Context /\ Evaluates(n, v)
    BY DEF SoundInv, Worked, Answered, Evaluates
  <2> DEFINE m == n.kids[2]
             uid == ctx.uid[s]
             parents == ctx.parents[s]
             match == ScopeMatches(scope, uid, parents)
  <2>2. CASE n.op = "eq" /\ m.op = "entity_ref"
             /\ scope.constraint = "eq" /\ scope.target = Reference(m)
    <3>1. v = Bool(uid = m.uid)
      BY <2>1, <2>2, BinaryAgrees
    <3>2. scope.target.node = "entity_ref" /\ scope.target.uid = m.uid
      BY <2>2 DEF Reference
    <3>3. (uid = m.uid) <=> match
      BY <2>2, <3>2 DEF ScopeMatches
    <3>4. (uid = m.uid) = match
      BY <3>3 DEF ScopeMatches
    <3> QED BY <3>1, <3>4
  <2>3. CASE n.op = "in" /\ m.op = "entity_ref"
             /\ scope.constraint = "in" /\ scope.target = Reference(m)
    <3>1. v = Bool(EntityInTarget(uid, parents, m.uid))
      BY <2>1, <2>3, BinaryAgrees
    <3>2. scope.target.node = "entity_ref" /\ scope.target.uid = m.uid
      BY <2>3 DEF Reference
    <3>3. EntityInTarget(uid, parents, m.uid) <=> match
      BY <2>3, <3>2 DEF ScopeMatches, InTarget, InEntityRef, EntityInTarget
    <3>4. EntityInTarget(uid, parents, m.uid) = match
      BY <3>3 DEF EntityInTarget, ScopeMatches
    <3> QED BY <3>1, <3>4
  <2>4. CASE /\ n.op = "in" /\ m.op = "set"
             /\ \A k \in DOMAIN m.kids : m.kids[k].op = "entity_ref"
             /\ scope.constraint = "in" /\ scope.target.node = "set"
             /\ scope.target.elts = [k \in DOMAIN m.kids |-> Reference(m.kids[k])]
    <3> DEFINE In(k) == EntityInTarget(uid, parents, m.kids[k].uid)
    <3>1. v = Bool(\E k \in DOMAIN m.kids : In(k))
      <4>1. \A k \in DOMAIN m.kids : m.kids[k].op = "entity_ref"
        BY <2>4
      <4>2. n.op = "in" /\ m.op = "set"
        BY <2>4
      <4> QED BY <2>1, <4>1, <4>2, SetAgrees, Zenon
    <3>2. DOMAIN scope.target.elts = DOMAIN m.kids
          /\ \A k \in DOMAIN m.kids : InEntityRef(uid, parents, scope.target.elts[k]) = In(k)
      BY <2>4 DEF InEntityRef, Reference, EntityInTarget
    <3>3. match = InTarget(uid, parents, scope.target)
      BY <2>4 DEF ScopeMatches, InTarget, InEntityRef
    <3> HIDE DEF In
    <3>4. (\E k \in DOMAIN m.kids : In(k)) = InTarget(uid, parents, scope.target)
      BY <2>4, <3>2 DEF InTarget, InEntityRef
    <3> QED BY <3>1, <3>3, <3>4
  <2>5. CASE n.op = "is" /\ Len(n.kids) = 1
             /\ scope.constraint = "is" /\ scope.type = n.etype
    <3> DEFINE p == uid.type = n.etype
                    /\ (Len(n.kids) = 1 \/ EntityInTarget(uid, parents, m.uid))
    <3>1. v = Bool(p)
      BY <2>1, <2>5, IsAgrees
    <3>2. p = match
      BY <2>5 DEF ScopeMatches
    <3> QED BY <3>1, <3>2
  <2>6. CASE n.op = "is" /\ m.op = "entity_ref" /\ 2 \in DOMAIN n.kids
             /\ scope.constraint = "is_in" /\ scope.type = n.etype
             /\ scope.target = Reference(m)
    <3> DEFINE p == uid.type = n.etype
                    /\ (Len(n.kids) = 1 \/ EntityInTarget(uid, parents, m.uid))
    <3>1. v = Bool(p)
      BY <2>1, <2>6, IsAgrees
    <3>2. Len(n.kids) # 1
      <4>1. n.kids \in Seq(Node)
        BY <2>1, EvaluatesFrom, NodeAssumption
      <4> QED BY <2>6, <4>1
    <3>3. scope.target.node = "entity_ref" /\ scope.target.uid = m.uid
      BY <2>6 DEF Reference
    <3>4. p <=> match
      BY <2>6, <3>2, <3>3 DEF ScopeMatches, InEntityRef, EntityInTarget
    <3>5. p = match
      BY <3>4 DEF ScopeMatches
    <3> QED BY <3>1, <3>5
  <2> QED BY <2>2, <2>3, <2>4, <2>5, <2>6, ScopeCases
<1> QED BY <1>1, Working, PTL

-------------------------------------------------------------------------------
(* That every node means something: the nodes of one level, then of two    *)

(* OfHeight is the function that its definition says it is.                *)
LEMMA HeightSteps ==
  /\ OfHeight[0] = {}
  /\ \A h \in Nat : OfHeight[h + 1] =
       {n \in Node : \A k \in DOMAIN n.kids : n.kids[k] \in OfHeight[h]}
<1> DEFINE S == SUBSET Node
           Over(X) == {n \in Node : \A k \in DOMAIN n.kids : n.kids[k] \in X}
           step == [h \in Nat |-> [X \in S |-> Over(X)]]
           G(g) == [h \in Nat |-> IF h = 0 THEN {} ELSE Over(g[h - 1])]
<1>1. \A X \in S : Over(X) \in S
  OBVIOUS
<1>2. {} \in S
  OBVIOUS
<1>3. step \in [Nat -> [S -> S]]
  <2> HIDE DEF S, Over
  <2> QED BY <1>1
<1>4. PICK f : f \in [Nat -> S] /\ f[0] = {} /\ \A h \in Nat : f[h + 1] = step[h][f[h]]
  <2>1. \E f : Iterates(f, S, {}, step)
    <3> HIDE DEF S, step
    <3> QED BY <1>2, <1>3, Recursion
  <2> HIDE DEF S, step
  <2> QED BY <2>1 DEF Iterates
<1> HIDE DEF S, Over
<1>5. \A h \in Nat : f[h + 1] = Over(f[h])
  BY <1>4
<1>6. f = G(f)
  <2>1. ASSUME NEW h \in Nat PROVE f[h] = G(f)[h]
    <3>1. CASE h = 0
      BY <1>4, <3>1
    <3>2. CASE h # 0
      <4>1. h - 1 \in Nat /\ (h - 1) + 1 = h
        BY <3>2
      <4> QED BY <1>5, <3>2, <4>1
    <3> QED BY <3>1, <3>2
  <2>2. f = [h \in Nat |-> f[h]]
    BY <1>4
  <2> HIDE DEF G
  <2>3. G(f) = [h \in Nat |-> G(f)[h]]
    BY DEF G
  <2> QED BY <2>1, <2>2, <2>3
<1>7. OfHeight = CHOOSE g : g = G(g)
  BY DEF OfHeight, Over
<1>8. OfHeight = G(OfHeight)
  <2> HIDE DEF G
  <2> QED BY <1>6, <1>7
<1> DEFINE L == OfHeight
<1>9. L[0] = {}
  BY <1>8
<1>10. ASSUME NEW h \in Nat PROVE L[h + 1] = Over(L[h])
  <2>1. h + 1 \in Nat /\ h + 1 # 0 /\ (h + 1) - 1 = h
    OBVIOUS
  <2> HIDE DEF L
  <2> QED BY <1>8, <2>1 DEF L
<1> QED BY <1>9, <1>10 DEF Over

(* A node of few levels is one of more.                                    *)
LEMMA HeightGrows ==
  ASSUME NEW h \in Nat
  PROVE  OfHeight[h] \subseteq OfHeight[h + 1]
<1> DEFINE L == OfHeight
           P == {k \in Nat : L[k] \subseteq L[k + 1]}
<1>1. L[0] = {} /\ \A k \in Nat : L[k + 1] =
        {n \in Node : \A j \in DOMAIN n.kids : n.kids[j] \in L[k]}
  BY HeightSteps
<1> HIDE DEF L
<1>2. 0 \in P
  BY <1>1
<1>3. ASSUME NEW k \in Nat, k \in P PROVE k + 1 \in P
  <2>1. k + 1 \in Nat /\ L[k] \subseteq L[k + 1]
    BY <1>3
  <2>2. L[k + 1] = {n \in Node : \A j \in DOMAIN n.kids : n.kids[j] \in L[k]}
    BY <1>1
  <2>3. L[(k + 1) + 1] = {n \in Node : \A j \in DOMAIN n.kids : n.kids[j] \in L[k + 1]}
    BY <1>1, <2>1
  <2>4. L[k + 1] \subseteq L[(k + 1) + 1]
    BY <2>1, <2>2, <2>3
  <2> QED BY <2>1, <2>4
<1>4. Nat \subseteq P
  <2> HIDE DEF P
  <2> QED BY <1>2, <1>3, Induction
<1> QED BY <1>4 DEF L

(* What a node means is made of what its operands mean.                    *)
LEMMA MeaningSteps ==
  ASSUME NEW c, NEW n \in Node
  PROVE  Meaning(n, c) = Denotation(n, OperandMeanings(n, c), c)
<1> DEFINE Of(f, x) == [k \in DOMAIN x.kids |-> f[x.kids[k]]]
           Body(f, x) == Denotation(x, Of(f, x), c)
           P == {h \in Nat : \E f : f = [x \in OfHeight[h] |-> Body(f, x)]}
<1> HIDE DEF Body
<1>1. 0 \in P
  <2>1. OfHeight[0] = {}
    BY HeightSteps
  <2> DEFINE f == [x \in {} |-> 0]
  <2>2. f = [x \in OfHeight[0] |-> Body(f, x)]
    BY <2>1
  <2> QED BY <2>2
<1>2. ASSUME NEW h \in Nat, h \in P PROVE h + 1 \in P
  <2>1. PICK f : f = [x \in OfHeight[h] |-> Body(f, x)]
    BY <1>2
  <2> DEFINE g == [x \in OfHeight[h + 1] |-> Body(f, x)]
  <2>2. ASSUME NEW x \in OfHeight[h + 1] PROVE Body(g, x) = Body(f, x)
    <3>1. \A k \in DOMAIN x.kids : x.kids[k] \in OfHeight[h]
      BY <2>2, HeightSteps
    <3>2. \A y \in OfHeight[h] : y \in OfHeight[h + 1]
      BY HeightGrows
    <3>3. \A y \in OfHeight[h] : f[y] = Body(f, y)
      BY <2>1
    <3>4. \A y \in OfHeight[h] : g[y] = f[y]
      BY <3>2, <3>3
    <3> HIDE DEF g
    <3>5. Of(g, x) = Of(f, x)
      BY <3>1, <3>4
    <3> HIDE DEF Of
    <3> QED BY <3>5 DEF Body
  <2>3. g = [x \in OfHeight[h + 1] |-> Body(g, x)]
    BY <2>2
  <2>4. \E e : e = [x \in OfHeight[h + 1] |-> Body(e, x)]
    <3> HIDE DEF g
    <3> QED BY <2>3
  <2> QED BY <2>4
<1>3. MaxHeight \in P
  <2>1. Nat \subseteq P
    <3> HIDE DEF P
    <3> QED BY <1>1, <1>2, Induction
  <2> QED BY <2>1, HeightAssumption
<1>4. \E f : f = [x \in Node |-> Body(f, x)]
  BY <1>3, HeightAssumption
<1> DEFINE M == Meanings(c)
<1>5. M = CHOOSE f : f = [x \in Node |-> Body(f, x)]
  BY DEF Meanings, Body
<1>6. M = [x \in Node |-> Body(M, x)]
  <2> HIDE DEF M
  <2> QED BY <1>4, <1>5
<1>7. M[n] = Body(M, n)
  <2> HIDE DEF M
  <2> QED BY <1>6
<1> QED BY <1>7 DEF Meaning, OperandMeanings, Body

(* A condition that is covered has operands that are.                      *)
LEMMA CoveredSteps ==
  ASSUME NEW c, NEW n \in Node, Covered(c)[n]
  PROVE  /\ AsksNamedEntities(n, c)
         /\ Comparands(n, OperandMeanings(n, c)) \subseteq Comparable \cup {Error}
         /\ \A k \in DOMAIN n.kids : Covered(c)[n.kids[k]]
<1> DEFINE Here(x) == /\ AsksNamedEntities(x, c)
                      /\ Comparands(x, OperandMeanings(x, c)) \subseteq Comparable \cup {Error}
           Body(f, x) == Here(x) /\ \A k \in DOMAIN x.kids : f[x.kids[k]]
           P == {h \in Nat : \E f : f = [x \in OfHeight[h] |-> Body(f, x)]}
<1> HIDE DEF Here, Body
<1>1. 0 \in P
  <2>1. OfHeight[0] = {}
    BY HeightSteps
  <2> DEFINE f == [x \in {} |-> 0]
  <2>2. f = [x \in OfHeight[0] |-> Body(f, x)]
    BY <2>1
  <2> QED BY <2>2
<1>2. ASSUME NEW h \in Nat, h \in P PROVE h + 1 \in P
  <2>1. PICK f : f = [x \in OfHeight[h] |-> Body(f, x)]
    BY <1>2
  <2> DEFINE g == [x \in OfHeight[h + 1] |-> Body(f, x)]
  <2>2. ASSUME NEW x \in OfHeight[h + 1] PROVE Body(g, x) = Body(f, x)
    <3>1. \A k \in DOMAIN x.kids : x.kids[k] \in OfHeight[h]
      BY <2>2, HeightSteps
    <3>2. \A y \in OfHeight[h] : y \in OfHeight[h + 1]
      BY HeightGrows
    <3>3. \A y \in OfHeight[h] : f[y] = Body(f, y)
      BY <2>1
    <3>4. \A y \in OfHeight[h] : g[y] = f[y]
      BY <3>2, <3>3
    <3> HIDE DEF g
    <3>5. (\A k \in DOMAIN x.kids : g[x.kids[k]]) = (\A k \in DOMAIN x.kids : f[x.kids[k]])
      BY <3>1, <3>4
    <3> QED BY <3>5 DEF Body
  <2>3. g = [x \in OfHeight[h + 1] |-> Body(g, x)]
    BY <2>2
  <2>4. \E e : e = [x \in OfHeight[h + 1] |-> Body(e, x)]
    <3> HIDE DEF g
    <3> QED BY <2>3
  <2> QED BY <2>4
<1>3. MaxHeight \in P
  <2>1. Nat \subseteq P
    <3> HIDE DEF P
    <3> QED BY <1>1, <1>2, Induction
  <2> QED BY <2>1, HeightAssumption
<1>4. \E f : f = [x \in Node |-> Body(f, x)]
  BY <1>3, HeightAssumption
<1> DEFINE C == Covered(c)
<1>5. C = CHOOSE f : f = [x \in Node |-> Body(f, x)]
  BY DEF Covered, Body, Here
<1>6. C = [x \in Node |-> Body(C, x)]
  <2> HIDE DEF C
  <2> QED BY <1>4, <1>5
<1>7. C[n] = Body(C, n)
  <2> HIDE DEF C
  <2> QED BY <1>6
<1>8. Body(C, n)
  BY <1>7
<1> QED BY <1>8 DEF Body, Here

-------------------------------------------------------------------------------
(* Values without their tags                                               *)

(* An entity without its tag is one with the slot "none".                  *)
LEMMA ClearEntity ==
  ASSUME NEW uid, NEW slot
  PROVE  ClearSlot(Entity(uid, slot)) = Entity(uid, "none")
<1>1. Entity(uid, slot).type = "ENTITY"
  BY DEF Entity
<1>2. [Entity(uid, slot) EXCEPT !.slot = "none"] = Entity(uid, "none")
  BY DEF Entity
<1> QED BY <1>1, <1>2 DEF ClearSlot

(* What a set or a record can hold carries no tag already.                 *)
LEMMA DeepCleared ==
  ASSUME NEW v, Deep(v)
  PROVE  ClearSlot(v) = v
<1>1. CASE v.type = "ENTITY"
  <2>1. v = Entity(v.uid, "none")
    BY <1>1, DeepFacts
  <2> DEFINE u == v.uid
  <2>2. v = Entity(u, "none")
    BY <2>1
  <2> HIDE DEF u
  <2> QED BY <2>2, ClearEntity
<1>2. CASE v.type # "ENTITY"
  BY <1>2 DEF ClearSlot
<1> QED BY <1>1, <1>2

(* Only an entity changes, and it keeps its identity.                      *)
LEMMA Cleared ==
  ASSUME NEW v, Sound(v)
  PROVE  /\ v.type # "ENTITY" => ClearSlot(v) = v
         /\ v.type = "ENTITY" =>
              /\ \E slot \in Slot \cup {"none"} : v = Entity(v.uid, slot)
              /\ v.slot \in Slot => ctx.uid[v.slot] = v.uid
              /\ v.slot \notin Slot => v.slot = "none"
              /\ ClearSlot(v) = Entity(v.uid, "none")
         /\ ClearSlot(v).type = v.type
         /\ v.type = "ERROR" <=> ClearSlot(v) = Error
<1>1. CASE v.type # "ENTITY"
  <2>1. ClearSlot(v) = v
    BY <1>1 DEF ClearSlot
  <2>2. v.type = "ERROR" => v = Error
    <3> SUFFICES ASSUME v.type = "ERROR" PROVE v = Error
      OBVIOUS
    <3>1. v \in Plain
      BY <1>1, DeepFacts DEF Sound, Entity
    <3> QED BY <3>1 DEF Plain, Numeric, Ordered
  <2>3. Error.type = "ERROR"
    BY DEF Error
  <2> QED BY <1>1, <2>1, <2>2, <2>3
<1>2. CASE v.type = "ENTITY"
  <2>1. PICK uid, slot : v = Entity(uid, slot) /\ slot \in Slot \cup {"none"}
                         /\ (slot \in Slot => uid = ctx.uid[slot])
    <3>1. CASE Deep(v)
      <4>1. v = Entity(v.uid, "none")
        BY <1>2, <3>1, DeepFacts
      <4>2. "none" \notin Slot
        BY DEF Slot
      <4> QED BY <4>1, <4>2
    <3>2. CASE ~Deep(v)
      BY <3>2 DEF Sound
    <3> QED BY <3>1, <3>2
  <2>2. v.uid = uid /\ v.slot = slot
    BY <2>1 DEF Entity
  <2>3. ClearSlot(v) = Entity(uid, "none")
    BY <2>1, ClearEntity
  <2>4. Entity(uid, "none").type = "ENTITY" /\ Entity(uid, "none") # Error
    BY DEF Entity, Error
  <2> QED BY <1>2, <2>1, <2>2, <2>3, <2>4
<1> QED BY <1>1, <1>2

(* There are two Booleans.                                                 *)
LEMMA BoolValue ==
  ASSUME NEW v, Sound(v), v.type = "BOOL"
  PROVE  ClearSlot(v) = v /\ (v = Bool(TRUE) \/ v = Bool(FALSE)) /\ Bool(TRUE) # Bool(FALSE)
         /\ (IsBool(v, TRUE) <=> v = Bool(TRUE)) /\ (IsBool(v, FALSE) <=> v = Bool(FALSE))
<1>1. v \in Plain
  BY SoundBool
<1>2. v \in [type : {"BOOL"}, b : BOOLEAN]
  BY <1>1 DEF Plain, Error, Numeric, Ordered
<1>3. v = Bool(TRUE) \/ v = Bool(FALSE)
  BY <1>2 DEF Bool
<1>4. Bool(TRUE).b = TRUE /\ Bool(FALSE).b = FALSE /\ Bool(TRUE).type = "BOOL"
      /\ Bool(FALSE).type = "BOOL"
  BY DEF Bool
<1> QED BY <1>3, <1>4 DEF IsBool, ClearSlot

(* Truth and Bool make the same value of a Boolean.                        *)
LEMMA TruthBool ==
  ASSUME NEW b \in BOOLEAN
  PROVE  Truth(b) = Bool(b) /\ ClearSlot(Bool(b)) = Bool(b)
<1>1. Bool(b).type = "BOOL"
  BY DEF Bool
<1>2. ClearSlot(Bool(b)) = Bool(b)
  BY <1>1 DEF ClearSlot
<1>3. b = TRUE \/ b = FALSE
  OBVIOUS
<1> QED BY <1>2, <1>3 DEF Truth

(* Numbers, Booleans and errors have no tag to lose.                       *)
LEMMA PlainCleared ==
  ASSUME NEW v \in Plain
  PROVE  ClearSlot(v) = v
BY PlainDeep, DeepCleared

-------------------------------------------------------------------------------
(* Entities and where they are found                                       *)

\* v's tag leads to the arrays of its identity, if there are any.
Placed(v) ==
  v.type = "ENTITY" =>
    \/ v.slot \in Slot /\ ctx.uid[v.slot] = v.uid
    \/ v.slot = "none" /\ SlotsOf(v.uid, ctx) = {}

(* RequestSlot finds a slot of the identity if there is one.               *)
LEMMA RequestSlotFacts ==
  ASSUME NEW uid, ctx \in Context
  PROVE  \/ RequestSlot(uid) \in Slot /\ ctx.uid[RequestSlot(uid)] = uid
         \/ RequestSlot(uid) = "none" /\ SlotsOf(uid, ctx) = {}
<1>1. DOMAIN ctx.uid = Slot
  BY ContextAssumption
<1> QED BY <1>1 DEF RequestSlot, SlotsOf, Slot

(* Entities that a condition may ask are placed.                           *)
LEMMA AskedPlaced ==
  ASSUME NEW n \in Node, n.op \in {"in", "is", "attr", "has"}, AsksNamedEntities(n, ctx),
         ctx \in Context, NEW v, Evaluates(n.kids[1], v), Sound(v),
         ClearSlot(v) = Meaning(n.kids[1], ctx)
  PROVE  Placed(v)
<1> DEFINE k == n.kids[1]
<1>1. k \in Node
  BY EvaluatesFrom
<1> SUFFICES ASSUME v.type = "ENTITY" PROVE Placed(v)
  BY DEF Placed
<1>2. ClearSlot(v) = Entity(v.uid, "none") /\ (v.slot \in Slot => ctx.uid[v.slot] = v.uid)
      /\ (v.slot \notin Slot => v.slot = "none")
  BY Cleared
<1>3. CASE k.op = "var"
  <2>1. k.var # "context"
    <3> SUFFICES ASSUME k.var = "context" PROVE FALSE
      OBVIOUS
    <3>1. Meaning(k, ctx) = [type |-> "RECORD", attrs |-> ctx.attrs[k.var]]
      BY <1>1, <1>3, MeaningSteps DEF Denotation
    <3> DEFINE w == ClearSlot(v)
    <3>2. w = [type |-> "RECORD", attrs |-> ctx.attrs[k.var]]
      BY <3>1
    <3>3. w = Entity(v.uid, "none")
      BY <1>2
    <3> HIDE DEF w, k
    <3>4. w.type = "RECORD"
      BY <3>2
    <3>5. w.type = "ENTITY"
      BY <3>3 DEF Entity
    <3> QED BY <3>4, <3>5
  <2>2. k.var \in Slot
    BY <1>1, <1>3, <2>1, NodeAssumption
  <2> DEFINE s == k.var
  <2>3. v = Entity(ctx.uid[s], s)
    BY <1>3, <2>2, NameValues
  <2> HIDE DEF s
  <2>4. v.slot = s /\ v.uid = ctx.uid[s]
    BY <2>3 DEF Entity
  <2> QED BY <2>2, <2>4 DEF Placed, s
<1>4. CASE k.op = "entity_ref"
  <2> DEFINE s == RequestSlot(k.uid)
  <2>1. v = Entity(k.uid, s)
    BY <1>4, NameValues
  <2>2. (s \in Slot /\ ctx.uid[s] = k.uid) \/ (s = "none" /\ SlotsOf(k.uid, ctx) = {})
    BY RequestSlotFacts
  <2> HIDE DEF s
  <2>3. v.slot = s /\ v.uid = k.uid
    BY <2>1 DEF Entity
  <2> QED BY <2>2, <2>3 DEF Placed
<1>5. CASE k.op \notin {"var", "entity_ref"}
  <2>1. SlotsOf(v.uid, ctx) = {}
    <3>1. Meaning(k, ctx).type = "ENTITY" /\ Meaning(k, ctx).uid = v.uid
      BY <1>2 DEF Entity
    <3> QED BY <1>5, <3>1 DEF AsksNamedEntities
  <2>2. v.slot \notin Slot
    <3> SUFFICES ASSUME v.slot \in Slot PROVE FALSE
      OBVIOUS
    <3>1. v.slot \in SlotsOf(v.uid, ctx)
      BY <1>2, ContextAssumption DEF SlotsOf
    <3> QED BY <2>1, <3>1
  <2> QED BY <1>2, <2>1, <2>2 DEF Placed
<1> QED BY <1>3, <1>4, <1>5

(* What stands in one slot of an identity stands in all.                   *)
LEMMA OneEntity ==
  ASSUME ctx \in Context, Consistent(ctx), NEW s \in Slot, NEW uid, ctx.uid[s] = uid
  PROVE  /\ s \in SlotsOf(uid, ctx)
         /\ Ancestors(uid, ctx) = Elements(ctx.parents[s])
         /\ {Elements(ctx.attrs[t]) : t \in SlotsOf(uid, ctx)} = {Elements(ctx.attrs[s])}
<1>1. DOMAIN ctx.uid = Slot
  BY ContextAssumption
<1>2. s \in SlotsOf(uid, ctx)
  BY <1>1 DEF SlotsOf
<1>3. \A t \in SlotsOf(uid, ctx) :
        ctx.attrs[t] = ctx.attrs[s] /\ ctx.parents[t] = ctx.parents[s]
  BY <1>1 DEF SlotsOf, Consistent
<1>4. Ancestors(uid, ctx) = Elements(ctx.parents[s])
  <2> DEFINE E(t) == Elements(ctx.parents[t])
  <2>1. \A t \in SlotsOf(uid, ctx) : E(t) = E(s)
    BY <1>3
  <2>2. Ancestors(uid, ctx) = UNION {E(t) : t \in SlotsOf(uid, ctx)}
    BY DEF Ancestors
  <2> HIDE DEF E
  <2>3. UNION {E(t) : t \in SlotsOf(uid, ctx)} = E(s)
    BY <1>2, <2>1
  <2> QED BY <2>2, <2>3 DEF E
<1>5. {Elements(ctx.attrs[t]) : t \in SlotsOf(uid, ctx)} = {Elements(ctx.attrs[s])}
  BY <1>2, <1>3
<1> QED BY <1>2, <1>4, <1>5

(* The parents that a tag leads to are the ancestors of the identity.      *)
LEMMA LookupMeans ==
  ASSUME ctx \in Context, Consistent(ctx), NEW v, v.type = "ENTITY", Placed(v), NEW uid
  PROVE  EntityInTarget(v.uid, LookupParents(v.slot), uid) <=> UidIn(v.uid, uid, ctx)
<1>1. CASE v.slot \in Slot
  <2>1. ctx.uid[v.slot] = v.uid
    BY <1>1 DEF Placed, Slot
  <2>2. Ancestors(v.uid, ctx) = Elements(ctx.parents[v.slot])
    BY <1>1, <2>1, OneEntity
  <2> QED BY <1>1, <2>2 DEF EntityInTarget, LookupParents, UidIn, Elements
<1>2. CASE v.slot \notin Slot
  <2>1. Ancestors(v.uid, ctx) = {}
    BY <1>2 DEF Placed, Ancestors
  <2>2. LookupParents(v.slot) = <<>>
    BY <1>2 DEF LookupParents
  <2> QED BY <2>1, <2>2 DEF EntityInTarget, UidIn
<1> QED BY <1>1, <1>2

(* `in' asks the ancestors of the entity its left side names.              *)
LEMMA InMeans ==
  ASSUME ctx \in Context, Consistent(ctx), NEW l, NEW r, Sound(l), Sound(r), Placed(l)
  PROVE  EvalIn(l, r) = InMeaning(ClearSlot(l), ClearSlot(r), ctx)
<1> DEFINE Here(uid) == EntityInTarget(l.uid, LookupParents(l.slot), uid)
           There(uid) == UidIn(l.uid, uid, ctx)
<1>1. CASE l.type # "ENTITY"
  <2>1. ClearSlot(l).type # "ENTITY"
    BY <1>1, Cleared
  <2> QED BY <1>1, <2>1 DEF EvalIn, InMeaning
<1>2. CASE l.type = "ENTITY"
  <2>1. ClearSlot(l).type = "ENTITY" /\ ClearSlot(l).uid = l.uid
    BY <1>2, Cleared DEF Entity
  <2>2. \A uid : (Here(uid) <=> There(uid)) /\ Here(uid) \in BOOLEAN /\ There(uid) \in BOOLEAN
    <3> SUFFICES ASSUME NEW uid
                 PROVE  (Here(uid) <=> There(uid)) /\ Here(uid) \in BOOLEAN
                        /\ There(uid) \in BOOLEAN
      OBVIOUS
    <3>1. Here(uid) \in BOOLEAN /\ There(uid) \in BOOLEAN
      BY DEF EntityInTarget, UidIn
    <3> QED BY <1>2, <3>1, LookupMeans
  <2>3. CASE r.type = "ENTITY"
    <3>1. ClearSlot(r).type = "ENTITY" /\ ClearSlot(r).uid = r.uid
      BY <2>3, Cleared DEF Entity
    <3>2. EvalIn(l, r) = Bool(Here(r.uid))
      BY <1>2, <2>3 DEF EvalIn
    <3>3. InMeaning(ClearSlot(l), ClearSlot(r), ctx) = Truth(There(r.uid))
      BY <2>1, <3>1 DEF InMeaning
    <3> HIDE DEF Here, There
    <3>4. Here(r.uid) = There(r.uid)
      BY <2>2
    <3> QED BY <2>2, <3>2, <3>3, <3>4, TruthBool
  <2>4. CASE r.type = "SET"
    <3>1. ClearSlot(r) = r
      BY <2>4, Cleared
    <3>2. CASE \E k \in DOMAIN r.elts : r.elts[k].type # "ENTITY"
      <4>1. EvalIn(l, r) = Error
        BY <1>2, <2>4, <3>2 DEF EvalIn
      <4>2. ~\A e \in Elements(r.elts) : e.type = "ENTITY"
        BY <3>2 DEF Elements
      <4> QED BY <2>1, <2>4, <3>1, <4>1, <4>2 DEF InMeaning
    <3>3. CASE ~\E k \in DOMAIN r.elts : r.elts[k].type # "ENTITY"
      <4> DEFINE a == \E k \in DOMAIN r.elts : Here(r.elts[k].uid)
                 b == \E e \in Elements(r.elts) : There(e.uid)
      <4>1. EvalIn(l, r) = Bool(a)
        BY <1>2, <2>4, <3>3 DEF EvalIn
      <4>2. \A e \in Elements(r.elts) : e.type = "ENTITY"
        BY <3>3 DEF Elements
      <4>3. InMeaning(ClearSlot(l), ClearSlot(r), ctx) = Truth(b)
        BY <2>1, <2>4, <3>1, <4>2 DEF InMeaning
      <4> HIDE DEF Here, There
      <4>4. a = b
        BY <2>2 DEF Elements
      <4>5. b \in BOOLEAN
        OBVIOUS
      <4> HIDE DEF a, b
      <4> QED BY <4>1, <4>3, <4>4, <4>5, TruthBool
    <3> QED BY <3>2, <3>3
  <2>5. CASE r.type \notin {"ENTITY", "SET"}
    <3>1. ClearSlot(r).type = r.type
      BY Cleared
    <3> QED BY <1>2, <2>1, <2>5, <3>1 DEF EvalIn, InMeaning
  <2> QED BY <2>3, <2>4, <2>5
<1> QED BY <1>1, <1>2

-------------------------------------------------------------------------------
(* What a node makes of operands that have the values they mean            *)

\* vals decide the node n, and are what its operands mean.
Tells(n, vals) ==
  /\ Decides(n, vals)
  /\ Len(vals) >= 2 => GoesOn(n, vals[1])
  /\ n.op = "ite" /\ Len(vals) >= 2 =>
       Len(vals) = 2 /\ (IsBool(vals[1], TRUE) \/ IsBool(vals[1], FALSE))
  /\ \A j \in DOMAIN vals : ClearSlot(vals[j]) = Meaning(n.kids[Held(n, vals, j)], ctx)

(* The meanings of the operands are a sequence, one for each.              *)
LEMMA OperandMeaningsFacts ==
  ASSUME NEW n \in Node, NEW c
  PROVE  /\ \E W : OperandMeanings(n, c) \in Seq(W)
         /\ Len(OperandMeanings(n, c)) = Len(n.kids) /\ Len(n.kids) \in Nat
         /\ DOMAIN OperandMeanings(n, c) = 1..Len(n.kids)
         /\ \A k \in 1..Len(n.kids) : OperandMeanings(n, c)[k] = Meaning(n.kids[k], c)
<1> DEFINE L == Len(n.kids)
           F(k) == Meaning(n.kids[k], c)
           m == [k \in 1..L |-> F(k)]
           W == {F(k) : k \in 1..L}
<1>1. L \in Nat /\ DOMAIN n.kids = 1..L
  BY NodeAssumption
<1>2. OperandMeanings(n, c) = m
  BY <1>1 DEF OperandMeanings
<1> HIDE DEF L, F
<1>3. m \in [1..L -> W]
  OBVIOUS
<1>4. DOMAIN m = 1..L /\ \A k \in 1..L : m[k] = F(k)
  OBVIOUS
<1> HIDE DEF m, W
<1>5. m \in Seq(W) /\ Len(m) = L
  BY <1>1, <1>3
<1> QED BY <1>1, <1>2, <1>4, <1>5 DEF L, F

(* The values that a node has read mean what they stand for, in order.     *)
LEMMA TellsFacts ==
  ASSUME NEW n \in Node, NEW vals, Tells(n, vals)
  PROVE  /\ \E V : vals \in Seq(V)
         /\ Len(vals) \in Nat /\ DOMAIN vals = 1..Len(vals)
         /\ Len(vals) <= Len(Operands(n)) /\ Len(Operands(n)) <= Len(n.kids)
         /\ \A j \in 1..Len(vals) :
              /\ Sound(vals[j])
              /\ n.op # "ite" \/ j # 2 =>
                   /\ ClearSlot(vals[j]) = OperandMeanings(n, ctx)[j]
                   /\ Evaluates(n.kids[j], vals[j])
         /\ n.op = "ite" /\ Len(vals) >= 2 =>
              /\ IsBool(vals[1], TRUE) => ClearSlot(vals[2]) = OperandMeanings(n, ctx)[2]
              /\ ~IsBool(vals[1], TRUE) => ClearSlot(vals[2]) = OperandMeanings(n, ctx)[3]
<1>1. PICK V : vals \in Seq(V)
  BY DEF Tells, Decides
<1>2. Len(vals) \in Nat /\ DOMAIN vals = 1..Len(vals)
  BY <1>1
<1>3. Len(vals) <= Len(Operands(n)) /\ Len(Operands(n)) <= Len(n.kids)
      /\ Len(n.kids) \in Nat /\ Len(Operands(n)) \in Nat
  BY OperandsFacts DEF Tells, Decides
<1>4. \A j \in 1..Len(vals) :
        /\ Sound(vals[j]) /\ Evaluates(n.kids[Held(n, vals, j)], vals[j])
        /\ ClearSlot(vals[j]) = Meaning(n.kids[Held(n, vals, j)], ctx)
  BY <1>2 DEF Tells, Decides
<1> DEFINE m == OperandMeanings(n, ctx)
<1>5. \A k \in 1..Len(n.kids) : m[k] = Meaning(n.kids[k], ctx)
  BY OperandMeaningsFacts
<1> HIDE DEF m
<1>6. ASSUME NEW j \in 1..Len(vals), n.op # "ite" \/ j # 2
      PROVE  ClearSlot(vals[j]) = m[j] /\ Evaluates(n.kids[j], vals[j])
  <2>1. Held(n, vals, j) = j
    BY <1>6 DEF Held
  <2>2. j \in 1..Len(n.kids)
    BY <1>2, <1>3
  <2> QED BY <1>4, <1>5, <2>1, <2>2
<1>7. ASSUME n.op = "ite", Len(vals) >= 2
      PROVE  /\ IsBool(vals[1], TRUE) => ClearSlot(vals[2]) = m[2]
             /\ ~IsBool(vals[1], TRUE) => ClearSlot(vals[2]) = m[3]
  <2>1. 2 \in 1..Len(vals)
    BY <1>2, <1>7
  <2>2. 2 \in 1..Len(n.kids) /\ 3 \in 1..Len(n.kids)
    <3>1. Len(n.kids) = 3
      BY <1>7, NodeAssumption DEF Arity
    <3> QED BY <3>1
  <2>3. Held(n, vals, 2) = IF IsBool(vals[1], TRUE) THEN 2 ELSE 3
    BY <1>7 DEF Held
  <2> QED BY <1>4, <1>5, <2>1, <2>2, <2>3
<1> QED BY <1>1, <1>2, <1>3, <1>4, <1>6, <1>7 DEF m

(* A value is a Boolean if it means one.                                   *)
LEMMA BoolMeans ==
  ASSUME NEW v, Sound(v)
  PROVE  /\ ClearSlot(v) = Bool(TRUE) <=> IsBool(v, TRUE)
         /\ ClearSlot(v) = Bool(FALSE) <=> IsBool(v, FALSE)
         /\ ~(IsBool(v, TRUE) /\ IsBool(v, FALSE))
         /\ v.type = "BOOL" <=> IsBool(v, TRUE) \/ IsBool(v, FALSE)
         /\ ClearSlot(v).type = v.type
         /\ v.type = "BOOL" => ClearSlot(v) = v
<1>1. ClearSlot(v).type = v.type
  BY Cleared
<1>2. Bool(TRUE).type = "BOOL" /\ Bool(FALSE).type = "BOOL"
  BY DEF Bool
<1>3. CASE v.type = "BOOL"
  BY <1>1, <1>3, BoolValue
<1>4. CASE v.type # "BOOL"
  <2>1. ~IsBool(v, TRUE) /\ ~IsBool(v, FALSE)
    BY <1>4 DEF IsBool
  <2> QED BY <1>1, <1>2, <1>4, <2>1
<1> QED BY <1>3, <1>4

(* The values of a node that is decided by its first operand, or its two   *)
LEMMA ShortFacts ==
  ASSUME NEW n \in Node, n.op \in {"and", "or", "ite", "is"}, NEW vals, Tells(n, vals)
  PROVE  /\ Len(vals) \in {1, 2} /\ Sound(vals[1])
         /\ ClearSlot(vals[1]) = OperandMeanings(n, ctx)[1]
         /\ Len(vals) = 2 => Sound(vals[2]) /\ GoesOn(n, vals[1])
         /\ Failed(vals) <=>
              vals[1].type = "ERROR" \/ (Len(vals) = 2 /\ vals[2].type = "ERROR")
         /\ vals[1].type # "ERROR" /\ Len(vals) = 1 /\ n.op # "ite"
              => ~GoesOn(n, vals[1]) \/ Len(n.kids) = 1
<1>1. /\ Len(vals) \in Nat /\ DOMAIN vals = 1..Len(vals)
      /\ Len(vals) <= Len(Operands(n)) /\ Len(Operands(n)) <= Len(n.kids)
      /\ \A j \in 1..Len(vals) : Sound(vals[j])
  BY TellsFacts
<1>2. PICK V : vals \in Seq(V)
  BY TellsFacts
<1>3. Operands(n) = n.kids /\ n.kids \in Seq(Node) /\ Len(n.kids) \in Arity(n.op)
  BY OperandsFacts, NodeAssumption
<1>4. n.op # "ite" => Len(n.kids) \in {1, 2}
  BY <1>3 DEF Arity
<1>5. Len(vals) >= 1
  <2>1. CASE Failed(vals)
    BY <1>1, <2>1 DEF Failed
  <2>2. CASE ~Failed(vals)
    BY <1>1, <1>2, <2>2, Decided DEF Tells, Decides
  <2> QED BY <2>1, <2>2
<1>6. Len(vals) \in {1, 2}
  <2> DEFINE l == Len(vals)
  <2>1. l \in Nat /\ l >= 1
    BY <1>1, <1>5
  <2>2. l <= 2
    <3>1. CASE n.op = "ite"
      <4>1. l >= 2 => l = 2
        BY <3>1 DEF Tells
      <4> HIDE DEF l
      <4> QED BY <2>1, <4>1
    <3>2. CASE n.op # "ite"
      <4> DEFINE k == Len(n.kids)
      <4>1. k \in {1, 2}
        BY <1>4, <3>2
      <4>2. l <= k
        BY <1>1, <1>3
      <4> HIDE DEF l, k
      <4> QED BY <2>1, <4>1, <4>2
    <3> QED BY <3>1, <3>2
  <2> HIDE DEF l
  <2>3. l \in {1, 2}
    BY <2>1, <2>2
  <2> QED BY <2>3 DEF l
<1>7. 1 \in 1..Len(vals) /\ (Len(vals) = 2 => 2 \in 1..Len(vals))
  BY <1>6
<1>8. Sound(vals[1]) /\ ClearSlot(vals[1]) = OperandMeanings(n, ctx)[1]
  <2>1. 1 # 2
    OBVIOUS
  <2> QED BY <1>7, <2>1, TellsFacts
<1>9. Len(vals) = 2 => Sound(vals[2]) /\ GoesOn(n, vals[1])
  BY <1>1, <1>7 DEF Tells
<1>10. Failed(vals) <=> vals[1].type = "ERROR" \/ (Len(vals) = 2 /\ vals[2].type = "ERROR")
  <2>1. DOMAIN vals = {1} \/ (Len(vals) = 2 /\ DOMAIN vals = {1, 2})
    BY <1>1, <1>6
  <2> QED BY <1>6, <2>1 DEF Failed
<1>11. ASSUME vals[1].type # "ERROR", Len(vals) = 1, n.op # "ite", GoesOn(n, vals[1]),
              Len(n.kids) # 1
       PROVE  FALSE
  <2>1. ~Failed(vals)
    BY <1>10, <1>11
  <2>2. 2 \in DOMAIN Operands(n)
    <3>1. Len(Operands(n)) = 2
      BY <1>3, <1>4, <1>11
    <3> QED BY <1>3, <3>1
  <2>3. 2 = Len(vals) + 1
    BY <1>11
  <2>4. 2 \in Awaited(n, vals)
    BY <1>11, <2>1, <2>2, <2>3 DEF Awaited
  <2> QED BY <2>4 DEF Tells, Decides
<1> QED BY <1>6, <1>8, <1>9, <1>10, <1>11

(* && and ||, which leave out the second operand that does not matter      *)
LEMMA LogicMeans ==
  ASSUME NEW n \in Node, n.op \in {"and", "or"}, NEW vals, Tells(n, vals)
  PROVE  ClearSlot(Result(n, vals)) = Meaning(n, ctx)
<1> DEFINE m == OperandMeanings(n, ctx)
           a == vals[1]
           b == vals[2]
<1>1. Len(n.kids) = 2
  BY NodeAssumption DEF Arity
<1>2. DOMAIN m = {1, 2}
  <2>1. DOMAIN m = 1..2
    BY <1>1, OperandMeaningsFacts
  <2> HIDE DEF m
  <2> QED BY <2>1
<1>3. /\ Len(vals) \in {1, 2} /\ Sound(a) /\ ClearSlot(a) = m[1]
      /\ Len(vals) = 2 => Sound(b) /\ GoesOn(n, a)
      /\ Failed(vals) <=> a.type = "ERROR" \/ (Len(vals) = 2 /\ b.type = "ERROR")
      /\ a.type # "ERROR" /\ Len(vals) = 1 => ~GoesOn(n, a)
  BY <1>1, ShortFacts
<1>4. Len(vals) = 2 => ClearSlot(b) = m[2]
  <2>1. Len(vals) = 2 => 2 \in 1..Len(vals)
    OBVIOUS
  <2> QED BY <2>1, TellsFacts
<1>5. Meaning(n, ctx) = Denotation(n, m, ctx)
  BY MeaningSteps
<1>6. /\ m[1] = Bool(TRUE) <=> IsBool(a, TRUE)
      /\ m[1] = Bool(FALSE) <=> IsBool(a, FALSE)
      /\ ~(IsBool(a, TRUE) /\ IsBool(a, FALSE))
      /\ a.type = "BOOL" <=> IsBool(a, TRUE) \/ IsBool(a, FALSE)
      /\ m[1].type = a.type
      /\ a.type = "BOOL" => m[1] = a
  <2> HIDE DEF m, a
  <2>1. ClearSlot(a) = m[1] /\ Sound(a)
    BY <1>3
  <2> QED BY <2>1, BoolMeans
<1>7. Len(vals) = 2 =>
        /\ m[2] = Bool(TRUE) <=> IsBool(b, TRUE)
        /\ m[2] = Bool(FALSE) <=> IsBool(b, FALSE)
        /\ ~(IsBool(b, TRUE) /\ IsBool(b, FALSE))
        /\ b.type = "BOOL" <=> IsBool(b, TRUE) \/ IsBool(b, FALSE)
        /\ m[2].type = b.type
        /\ b.type = "BOOL" => m[2] = b
  <2> SUFFICES ASSUME Len(vals) = 2
               PROVE  /\ m[2] = Bool(TRUE) <=> IsBool(b, TRUE)
                      /\ m[2] = Bool(FALSE) <=> IsBool(b, FALSE)
                      /\ ~(IsBool(b, TRUE) /\ IsBool(b, FALSE))
                      /\ b.type = "BOOL" <=> IsBool(b, TRUE) \/ IsBool(b, FALSE)
                      /\ m[2].type = b.type
                      /\ b.type = "BOOL" => m[2] = b
    OBVIOUS
  <2> HIDE DEF m, b
  <2>1. ClearSlot(b) = m[2] /\ Sound(b)
    BY <1>3, <1>4
  <2> QED BY <2>1, BoolMeans
<1>8. AllOfType(m, "BOOL") <=> m[1].type = "BOOL" /\ m[2].type = "BOOL"
  BY <1>2 DEF AllOfType
<1>9. Result(n, vals) = IF Failed(vals) THEN Error
                        ELSE IF Len(vals) = 1 THEN IF a.type = "BOOL" THEN a ELSE Error
                        ELSE IF b.type = "BOOL" THEN b ELSE Error
  BY <1>3 DEF Result, Value
<1>10. Error.type = "ERROR" /\ ClearSlot(Error) = Error /\ Bool(TRUE) # Bool(FALSE)
       /\ Bool(TRUE).type = "BOOL" /\ Bool(FALSE).type = "BOOL"
       /\ ClearSlot(Bool(TRUE)) = Bool(TRUE) /\ ClearSlot(Bool(FALSE)) = Bool(FALSE)
  <2>1. Bool(TRUE).b = TRUE /\ Bool(FALSE).b = FALSE
    BY DEF Bool
  <2> QED BY <2>1, ErrorPlain, BoolPlain, PlainCleared DEF Error, Bool
<1> HIDE DEF m, a, b
<1>11. CASE n.op = "and"
  <2>1. Denotation(n, m, ctx) =
          IF m[1] = Bool(FALSE) \/ (m[1] = Bool(TRUE) /\ m[2] = Bool(FALSE)) THEN Bool(FALSE)
          ELSE IF AllOfType(m, "BOOL") THEN Bool(TRUE) ELSE Error
    BY <1>11 DEF Denotation
  <2>2. GoesOn(n, a) <=> IsBool(a, TRUE)
    BY <1>11 DEF GoesOn
  <2>3. CASE Len(vals) = 1
    BY <1>3, <1>5, <1>6, <1>8, <1>9, <1>10, <2>1, <2>2, <2>3
  <2>4. CASE Len(vals) = 2
    BY <1>3, <1>5, <1>6, <1>7, <1>8, <1>9, <1>10, <2>1, <2>2, <2>4
  <2> QED BY <1>3, <2>3, <2>4
<1>12. CASE n.op = "or"
  <2>1. Denotation(n, m, ctx) =
          IF m[1] = Bool(TRUE) \/ (m[1] = Bool(FALSE) /\ m[2] = Bool(TRUE)) THEN Bool(TRUE)
          ELSE IF AllOfType(m, "BOOL") THEN Bool(FALSE) ELSE Error
    BY <1>12 DEF Denotation
  <2>2. GoesOn(n, a) <=> IsBool(a, FALSE)
    BY <1>12 DEF GoesOn
  <2>3. CASE Len(vals) = 1
    BY <1>3, <1>5, <1>6, <1>8, <1>9, <1>10, <2>1, <2>2, <2>3
  <2>4. CASE Len(vals) = 2
    BY <1>3, <1>5, <1>6, <1>7, <1>8, <1>9, <1>10, <2>1, <2>2, <2>4
  <2> QED BY <1>3, <2>3, <2>4
<1> QED BY <1>11, <1>12

(* if-then-else, which evaluates one branch                                *)
LEMMA IfMeans ==
  ASSUME NEW n \in Node, n.op = "ite", NEW vals, Tells(n, vals)
  PROVE  ClearSlot(Result(n, vals)) = Meaning(n, ctx)
<1> DEFINE m == OperandMeanings(n, ctx)
           a == vals[1]
           b == vals[2]
<1>1. /\ Len(vals) \in {1, 2} /\ Sound(a) /\ ClearSlot(a) = m[1]
      /\ Len(vals) = 2 => Sound(b)
      /\ Failed(vals) <=> a.type = "ERROR" \/ (Len(vals) = 2 /\ b.type = "ERROR")
  BY ShortFacts
<1>2. Len(vals) = 2 => /\ IsBool(a, TRUE) \/ IsBool(a, FALSE)
                       /\ IsBool(a, TRUE) => ClearSlot(b) = m[2]
                       /\ ~IsBool(a, TRUE) => ClearSlot(b) = m[3]
  <2>1. Len(vals) = 2 => Len(vals) >= 2
    OBVIOUS
  <2> QED BY <2>1, TellsFacts DEF Tells
<1>3. Meaning(n, ctx) = IF m[1] = Bool(TRUE) THEN m[2]
                        ELSE IF m[1] = Bool(FALSE) THEN m[3] ELSE Error
  BY MeaningSteps DEF Denotation
<1>4. /\ m[1] = Bool(TRUE) <=> IsBool(a, TRUE)
      /\ m[1] = Bool(FALSE) <=> IsBool(a, FALSE)
      /\ ~(IsBool(a, TRUE) /\ IsBool(a, FALSE))
      /\ a.type = "BOOL" <=> IsBool(a, TRUE) \/ IsBool(a, FALSE)
  <2> HIDE DEF m, a
  <2>1. ClearSlot(a) = m[1] /\ Sound(a)
    BY <1>1
  <2> QED BY <2>1, BoolMeans
<1>5. Result(n, vals) = IF Failed(vals) THEN Error
                        ELSE IF a.type = "BOOL" THEN ClearSlot(b) ELSE Error
  BY DEF Result, Value
<1>6. Error.type = "ERROR" /\ ClearSlot(Error) = Error
  BY ErrorPlain, PlainCleared DEF Error
<1> HIDE DEF m, a, b
<1>7. CASE Len(vals) = 1
  <2>1. a.type = "ERROR" \/ a.type # "BOOL"
    <3> SUFFICES ASSUME a.type = "BOOL" PROVE FALSE
      OBVIOUS
    <3>1. ~Failed(vals)
      BY <1>1, <1>7
    <3>2. a.b \in BOOLEAN
      BY <1>1, SoundBool
    <3>3. PICK V : vals \in Seq(V)
      BY TellsFacts
    <3>4. Len(vals) >= 2
      BY <3>1, <3>2, <3>3, Decided DEF Tells, Decides, a
    <3> QED BY <1>7, <3>4
  <2>2. a.type # "BOOL"
    BY <2>1
  <2> QED BY <1>3, <1>4, <1>5, <1>6, <2>2
<1>8. CASE Len(vals) = 2
  <2>1. a.type = "BOOL"
    BY <1>2, <1>4, <1>8
  <2>2. b.type = "ERROR" <=> ClearSlot(b) = Error
    BY <1>1, <1>8, Cleared
  <2>3. ClearSlot(ClearSlot(b)) = ClearSlot(b)
    BY <1>1, <1>8, ClearSlotDeep, DeepCleared
  <2>4. Meaning(n, ctx) = ClearSlot(b)
    BY <1>2, <1>3, <1>4, <1>8
  <2>5. Failed(vals) <=> b.type = "ERROR"
    BY <1>1, <1>8, <2>1
  <2> QED BY <1>5, <1>6, <2>1, <2>2, <2>3, <2>4, <2>5
<1> QED BY <1>1, <1>7, <1>8

(* `is' and `is in', which evaluate the second operand for the type only   *)
LEMMA IsMeans ==
  ASSUME NEW n \in Node, n.op = "is", NEW vals, Tells(n, vals),
         ctx \in Context, Consistent(ctx), AsksNamedEntities(n, ctx)
  PROVE  ClearSlot(Result(n, vals)) = Meaning(n, ctx)
<1> DEFINE m == OperandMeanings(n, ctx)
           a == vals[1]
           b == vals[2]
<1>1. /\ Len(vals) \in {1, 2} /\ Sound(a) /\ ClearSlot(a) = m[1]
      /\ Len(vals) = 2 => Sound(b) /\ GoesOn(n, a)
      /\ Failed(vals) <=> a.type = "ERROR" \/ (Len(vals) = 2 /\ b.type = "ERROR")
      /\ a.type # "ERROR" /\ Len(vals) = 1 => ~GoesOn(n, a) \/ Len(n.kids) = 1
  BY ShortFacts
<1>2. Len(n.kids) \in {1, 2}
  BY NodeAssumption DEF Arity
<1>3. Len(vals) = 2 => ClearSlot(b) = m[2] /\ Len(n.kids) = 2
  <2>1. Len(vals) = 2 => 2 \in 1..Len(vals)
    OBVIOUS
  <2>2. Len(vals) <= Len(n.kids)
    <3>1. Operands(n) = n.kids
      BY OperandsFacts
    <3>2. Len(vals) <= Len(Operands(n))
      BY TellsFacts
    <3> QED BY <3>1, <3>2
  <2>3. Len(vals) = 2 => Len(n.kids) = 2
    BY <1>2, <2>2
  <2>4. Len(vals) = 2 => ClearSlot(b) = m[2]
    BY <2>1, TellsFacts
  <2> QED BY <2>3, <2>4
<1>4. Placed(a)
  <2>1. 1 \in 1..Len(vals) /\ 1 \in 1..Len(n.kids)
    <3> DEFINE i == Len(vals)
               j == Len(n.kids)
    <3>1. i \in {1, 2} /\ j \in {1, 2}
      BY <1>1, <1>2
    <3> HIDE DEF i, j
    <3>2. 1 \in 1..i /\ 1 \in 1..j
      BY <3>1
    <3> QED BY <3>2 DEF i, j
  <2>2. Evaluates(n.kids[1], a) /\ m[1] = Meaning(n.kids[1], ctx)
    <3>1. Evaluates(n.kids[1], a)
      BY <2>1, TellsFacts
    <3> QED BY <2>1, <3>1, OperandMeaningsFacts
  <2>3. Sound(a) /\ ClearSlot(a) = Meaning(n.kids[1], ctx)
    BY <1>1, <2>2
  <2> HIDE DEF a, m
  <2> QED BY <2>2, <2>3, AskedPlaced
<1>5. Meaning(n, ctx) =
         IF m[1].type # "ENTITY" THEN Error
         ELSE IF m[1].uid.type # n.etype THEN Bool(FALSE)
         ELSE IF Len(n.kids) = 1 THEN Bool(TRUE) ELSE InMeaning(m[1], m[2], ctx)
  BY MeaningSteps DEF Denotation
<1>6. GoesOn(n, a) <=> a.type = "ENTITY" /\ a.uid.type = n.etype
  BY DEF GoesOn
<1>7. Result(n, vals) =
        IF Failed(vals) \/ a.type # "ENTITY" THEN Error
        ELSE IF a.uid.type # n.etype THEN Bool(FALSE)
        ELSE IF Len(n.kids) = 1 THEN Bool(TRUE)
        ELSE EvalIn(a, b)
  BY DEF Result, Value, EvalIsCheck
<1>8. ClearSlot(Error) = Error /\ ClearSlot(Bool(TRUE)) = Bool(TRUE)
      /\ ClearSlot(Bool(FALSE)) = Bool(FALSE) /\ ClearSlot(EvalIn(a, b)) = EvalIn(a, b)
  BY ErrorPlain, BoolPlain, InPlain, PlainCleared
<1> HIDE DEF m, a, b
<1>9. m[1].type = a.type
  BY <1>1, Cleared
<1>10. a.type = "ENTITY" => m[1].uid = a.uid
  BY <1>1, Cleared DEF Entity
<1>11. Len(vals) = 2 /\ b.type # "ERROR" => EvalIn(a, b) = InMeaning(m[1], m[2], ctx)
  <2> SUFFICES ASSUME Len(vals) = 2 PROVE EvalIn(a, b) = InMeaning(m[1], m[2], ctx)
    OBVIOUS
  <2>1. Sound(a) /\ Sound(b) /\ m[1] = ClearSlot(a) /\ m[2] = ClearSlot(b)
    BY <1>1, <1>3
  <2> QED BY <1>4, <2>1, InMeans
<1>12. Len(vals) = 2 /\ b.type = "ERROR" => InMeaning(m[1], m[2], ctx) = Error
  <2> SUFFICES ASSUME Len(vals) = 2, b.type = "ERROR"
               PROVE  InMeaning(m[1], m[2], ctx) = Error
    OBVIOUS
  <2>1. m[2].type = "ERROR"
    BY <1>1, <1>3, Cleared
  <2> QED BY <2>1 DEF InMeaning
<1>13. CASE a.type # "ENTITY"
  BY <1>5, <1>7, <1>8, <1>9, <1>13
<1>14. CASE a.type = "ENTITY" /\ a.uid.type # n.etype
  BY <1>1, <1>5, <1>6, <1>7, <1>8, <1>9, <1>10, <1>14
<1>15. CASE a.type = "ENTITY" /\ a.uid.type = n.etype /\ Len(vals) = 1
  <2>1. ~Failed(vals) /\ Len(n.kids) = 1
    BY <1>1, <1>6, <1>15
  <2>2. Result(n, vals) = Bool(TRUE)
    BY <1>7, <1>15, <2>1
  <2>3. Meaning(n, ctx) = Bool(TRUE)
    BY <1>5, <1>9, <1>10, <1>15, <2>1
  <2> QED BY <1>8, <2>2, <2>3
<1>16. CASE a.type = "ENTITY" /\ a.uid.type = n.etype /\ Len(vals) = 2
  <2>1. Len(n.kids) # 1
    BY <1>3, <1>16
  <2>2. Meaning(n, ctx) = InMeaning(m[1], m[2], ctx)
    BY <1>5, <1>9, <1>10, <1>16, <2>1
  <2>3. CASE b.type = "ERROR"
    <3>1. Result(n, vals) = Error
      BY <1>1, <1>7, <1>16, <2>3
    <3> QED BY <1>8, <1>12, <1>16, <2>2, <2>3, <3>1
  <2>4. CASE b.type # "ERROR"
    <3>1. ~Failed(vals)
      BY <1>1, <1>16, <2>4
    <3>2. Result(n, vals) = EvalIn(a, b)
      BY <1>7, <1>16, <2>1, <3>1
    <3> QED BY <1>8, <1>11, <1>16, <2>2, <2>4, <3>2
  <2> QED BY <2>3, <2>4
<1> QED BY <1>1, <1>13, <1>14, <1>15, <1>16

-------------------------------------------------------------------------------
(* Literals, extension values and names                                    *)
LEMMA LeafMeans ==
  ASSUME NEW n \in Node, n.op \in {"lit", "ext", "entity_ref", "var"}, NEW vals,
         Tells(n, vals), ctx \in Context
  PROVE  ClearSlot(Result(n, vals)) = Meaning(n, ctx)
<1>1. DOMAIN vals = {}
  <2>1. Len(n.kids) = 0 /\ Operands(n) = n.kids
    BY NodeAssumption, OperandsFacts DEF Arity
  <2>2. Len(vals) \in Nat /\ DOMAIN vals = 1..Len(vals) /\ Len(vals) <= Len(Operands(n))
    BY TellsFacts
  <2>3. Len(vals) <= 0
    BY <2>1, <2>2
  <2> QED BY <2>2, <2>3
<1>2. Result(n, vals) = Value(n, vals)
  BY <1>1 DEF Result, Failed
<1>3. CASE n.op = "lit"
  <2>1. Value(n, vals) = n.val /\ Meaning(n, ctx) = n.val
    BY <1>3, MeaningSteps DEF Value, Denotation
  <2>2. Deep(n.val)
    BY <1>3, NodeAssumption, DatumDeep
  <2> QED BY <1>2, <2>1, <2>2, DeepCleared
<1>4. CASE n.op = "ext"
  <2> DEFINE v == MakeExtension(n.fn, n.text)
  <2>1. Value(n, vals) = v /\ Meaning(n, ctx) = v
    BY <1>4, MeaningSteps DEF Value, Denotation
  <2>2. Deep(v)
    BY <1>4, NodeAssumption, DatumDeep
  <2> HIDE DEF v
  <2> QED BY <1>2, <2>1, <2>2, DeepCleared
<1>5. CASE n.op = "entity_ref"
  <2>1. Value(n, vals) = Entity(n.uid, RequestSlot(n.uid))
    BY <1>5 DEF Value
  <2>2. Meaning(n, ctx) = Entity(n.uid, "none")
    BY <1>5, MeaningSteps DEF Denotation
  <2> QED BY <1>2, <2>1, <2>2, ClearEntity
<1>6. CASE n.op = "var" /\ n.var = "context"
  <2> DEFINE v == [type |-> "RECORD", attrs |-> ctx.attrs[n.var]]
  <2>1. Value(n, vals) = v /\ Meaning(n, ctx) = v
    BY <1>6, MeaningSteps DEF Value, EvalVar, Denotation
  <2>2. v.type # "ENTITY"
    OBVIOUS
  <2> HIDE DEF v
  <2> QED BY <1>2, <2>1, <2>2 DEF ClearSlot
<1>7. CASE n.op = "var" /\ n.var # "context"
  <2>1. Value(n, vals) = Entity(ctx.uid[n.var], n.var)
    BY <1>7 DEF Value, EvalVar
  <2>2. Meaning(n, ctx) = Entity(ctx.uid[n.var], "none")
    BY <1>7, MeaningSteps DEF Denotation
  <2> QED BY <1>2, <2>1, <2>2, ClearEntity
<1> QED BY <1>3, <1>4, <1>5, <1>6, <1>7

\* n needs the values of all its operands.
Strict(n) ==
  n.op \notin {"lit", "ext", "entity_ref", "var", "and", "or", "ite", "is"}

(* Their meaning, from those of the operands                               *)
LEMMA StrictSteps ==
  ASSUME NEW n \in Node, Strict(n)
  PROVE  Meaning(n, ctx) = LET m == OperandMeanings(n, ctx) IN
                           IF Error \in Elements(m) THEN Error ELSE StrictMeaning(n, m, ctx)
<1> DEFINE m == OperandMeanings(n, ctx)
<1>1. Meaning(n, ctx) = Denotation(n, m, ctx)
  BY MeaningSteps
<1> HIDE DEF m
<1>2. Denotation(n, m, ctx) = IF Error \in Elements(m) THEN Error ELSE StrictMeaning(n, m, ctx)
  BY DEF Denotation, Strict
<1> QED BY <1>1, <1>2 DEF m

(* A node that needs the values of all its operands errs if one errs.      *)
LEMMA StrictFacts ==
  ASSUME NEW n \in Node, Strict(n), Operands(n) = n.kids, NEW vals, Tells(n, vals)
  PROVE  /\ Failed(vals) => Result(n, vals) = Error /\ Meaning(n, ctx) = Error
         /\ ~Failed(vals) =>
              /\ Len(vals) = Len(n.kids) /\ DOMAIN vals = 1..Len(n.kids)
              /\ Result(n, vals) = Value(n, vals)
              /\ Meaning(n, ctx) = StrictMeaning(n, OperandMeanings(n, ctx), ctx)
              /\ \A k \in 1..Len(n.kids) :
                   /\ Sound(vals[k]) /\ vals[k].type # "ERROR"
                   /\ OperandMeanings(n, ctx)[k] = ClearSlot(vals[k])
                   /\ Evaluates(n.kids[k], vals[k])
<1> DEFINE m == OperandMeanings(n, ctx)
<1>1. DOMAIN m = 1..Len(n.kids) /\ Len(n.kids) \in Nat
  BY OperandMeaningsFacts
<1>2. Meaning(n, ctx) = IF Error \in Elements(m) THEN Error ELSE StrictMeaning(n, m, ctx)
  BY StrictSteps
<1>3. PICK V : vals \in Seq(V)
  BY TellsFacts
<1>4. /\ Len(vals) \in Nat /\ DOMAIN vals = 1..Len(vals) /\ Len(vals) <= Len(Operands(n))
      /\ \A j \in 1..Len(vals) : Sound(vals[j])
  BY TellsFacts
<1>5. n.op # "ite"
  BY DEF Strict
<1>6. \A j \in 1..Len(vals) : ClearSlot(vals[j]) = m[j] /\ Evaluates(n.kids[j], vals[j])
  BY <1>5, TellsFacts
<1> HIDE DEF m
<1>7. \A j \in 1..Len(vals) : j \in DOMAIN m
  <2> DEFINE l == Len(vals)
             k == Len(n.kids)
  <2>1. l \in Nat /\ k \in Nat /\ l <= k /\ DOMAIN m = 1..k
    BY <1>1, <1>4
  <2> HIDE DEF l, k
  <2>2. \A j \in 1..l : j \in DOMAIN m
    BY <2>1
  <2> QED BY <2>2 DEF l
<1>8. \A j \in 1..Len(vals) : vals[j].type = "ERROR" <=> m[j] = Error
  <2> SUFFICES ASSUME NEW j \in 1..Len(vals) PROVE vals[j].type = "ERROR" <=> m[j] = Error
    OBVIOUS
  <2> DEFINE v == vals[j]
  <2>1. Sound(v) /\ ClearSlot(v) = m[j]
    BY <1>4, <1>6
  <2> HIDE DEF v
  <2>2. v.type = "ERROR" <=> m[j] = Error
    BY <2>1, Cleared
  <2> QED BY <2>2 DEF v
<1>9. ASSUME Failed(vals) PROVE Result(n, vals) = Error /\ Meaning(n, ctx) = Error
  <2>1. PICK j \in 1..Len(vals) : vals[j].type = "ERROR"
    BY <1>4, <1>9 DEF Failed
  <2>2. Error \in Elements(m)
    <3>1. j \in DOMAIN m /\ m[j] = Error
      BY <1>7, <1>8, <2>1
    <3> QED BY <3>1 DEF Elements
  <2> QED BY <1>2, <1>9, <2>2 DEF Result
<1>10. ASSUME ~Failed(vals)
       PROVE  /\ Len(vals) = Len(n.kids) /\ DOMAIN vals = 1..Len(n.kids)
              /\ Result(n, vals) = Value(n, vals)
              /\ Meaning(n, ctx) = StrictMeaning(n, m, ctx)
              /\ \A k \in 1..Len(n.kids) :
                   /\ Sound(vals[k]) /\ vals[k].type # "ERROR"
                   /\ m[k] = ClearSlot(vals[k]) /\ Evaluates(n.kids[k], vals[k])
  <2>1. n.op \notin {"and", "or", "is", "ite"}
    BY DEF Strict
  <2>2. Len(vals) = Len(n.kids)
    BY <1>3, <1>10, <2>1, Decided DEF Tells, Decides
  <2>3. DOMAIN vals = 1..Len(n.kids)
    BY <1>4, <2>2
  <2>4. \A k \in 1..Len(n.kids) : vals[k].type # "ERROR"
    BY <1>10, <2>3 DEF Failed
  <2>5. Error \notin Elements(m)
    <3>1. \A j \in 1..Len(n.kids) : m[j] # Error
      BY <1>8, <2>2, <2>4
    <3> QED BY <1>1, <3>1 DEF Elements
  <2> QED BY <1>2, <1>4, <1>6, <1>10, <2>2, <2>3, <2>4, <2>5 DEF Result
<1> QED BY <1>9, <1>10 DEF m

-------------------------------------------------------------------------------
(* Attributes                                                              *)

(* What is found by position in a sequence of attributes with one name     *)
(* each is what is found by name in their set.                             *)
LEMMA FirstNamed ==
  ASSUME NEW st, DOMAIN st \subseteq Nat, Unique(NamesOf(st)), NEW v, NEW name,
         AttrSets(v, ctx) = {Elements(st)}
  PROVE  /\ NamedValues(v, name, ctx) = {} <=> Named(st, name) = {}
         /\ Named(st, name) # {} =>
              /\ First(Named(st, name)) \in DOMAIN st
              /\ (CHOOSE x \in NamedValues(v, name, ctx) : TRUE)
                   = st[First(Named(st, name))].value
<1> DEFINE found == Named(st, name)
           values == NamedValues(v, name, ctx)
<1>1. UNION AttrSets(v, ctx) = Elements(st)
  OBVIOUS
<1>2. values = {st[k].value : k \in found}
  <2>1. values = {a.value : a \in {a \in Elements(st) : a.name = name}}
    BY <1>1 DEF NamedValues
  <2> HIDE DEF values
  <2>2. ASSUME NEW x PROVE x \in values <=> \E k \in found : x = st[k].value
    <3>1. x \in values <=> \E a \in Elements(st) : a.name = name /\ x = a.value
      BY <2>1
    <3>2. (\E a \in Elements(st) : a.name = name /\ x = a.value)
            <=> \E k \in DOMAIN st : st[k].name = name /\ x = st[k].value
      BY DEF Elements
    <3> QED BY <3>1, <3>2 DEF Named
  <2> HIDE DEF found
  <2> QED BY <2>2
<1>3. \A j, k \in found : j = k
  <2>1. \A j, k \in DOMAIN st : st[j].name = st[k].name => j = k
    <3> DEFINE names == NamesOf(st)
    <3>1. DOMAIN names = DOMAIN st /\ \A k \in DOMAIN st : names[k] = st[k].name
      BY DEF NamesOf
    <3> HIDE DEF names
    <3>2. Unique(names)
      BY DEF names
    <3> QED BY <3>1, <3>2 DEF Unique
  <2> QED BY <2>1 DEF Named
<1>4. found \subseteq Nat /\ found \subseteq DOMAIN st
  BY DEF Named
<1> HIDE DEF found, values
<1>5. ASSUME found # {}
      PROVE  First(found) \in DOMAIN st /\ (CHOOSE x \in values : TRUE) = st[First(found)].value
  <2>1. First(found) \in found
    BY <1>4, <1>5, FirstIn
  <2>2. values = {st[First(found)].value}
    BY <1>2, <1>3, <2>1
  <2> QED BY <1>4, <2>1, <2>2
<1>6. values = {} <=> found = {}
  BY <1>2
<1> QED BY <1>5, <1>6 DEF found, values

(* An access looks where the attributes of the object are, if it has some. *)
LEMMA StoreMeans ==
  ASSUME NEW n \in Node, n.op \in {"attr", "has"}, NEW vals, NEW v,
         ctx \in Context, Consistent(ctx),
         \/ /\ n.kids[1].op = "var" /\ v = Meaning(n.kids[1], ctx)
         \/ /\ n.kids[1].op # "var" /\ v = ClearSlot(vals[1])
            /\ Sound(vals[1]) /\ Placed(vals[1])
  PROVE  /\ HasStore(n, vals) => /\ AttrSets(v, ctx) = {Elements(Store(n, vals))}
                                 /\ Unique(NamesOf(Store(n, vals)))
                                 /\ DOMAIN Store(n, vals) \subseteq Nat
         /\ ~HasStore(n, vals) => AttrSets(v, ctx) = {}
<1> DEFINE k == n.kids[1]
           st == Store(n, vals)
<1>1. k \in Node
  <2>1. n.kids \in Seq(Node) /\ Len(n.kids) = 1
    BY NodeAssumption DEF Arity
  <2> QED BY <2>1
<1>2. ASSUME NEW var \in Slot \cup {"context"}
      PROVE  DOMAIN ctx.attrs[var] \subseteq Nat /\ Unique(NamesOf(ctx.attrs[var]))
  <2>1. Values(ctx.attrs[var]) \in Seq(NoError(Datum)) /\ Unique(NamesOf(ctx.attrs[var]))
    BY ContextAssumption
  <2> DEFINE W == NoError(Datum)
  <2> HIDE DEF W
  <2>2. Values(ctx.attrs[var]) \in Seq(W)
    BY <2>1 DEF W
  <2> QED BY <2>1, <2>2, ValuesFacts
<1>3. ASSUME NEW s \in Slot, NEW uid, ctx.uid[s] = uid, NEW w, w.type = "ENTITY", w.uid = uid
      PROVE  AttrSets(w, ctx) = {Elements(ctx.attrs[s])}
  <2>1. AttrSets(w, ctx) = {Elements(ctx.attrs[t]) : t \in SlotsOf(uid, ctx)}
    BY <1>3 DEF AttrSets
  <2> QED BY <1>3, <2>1, OneEntity
<1>4. CASE k.op = "var" /\ k.var = "context"
  <2>1. HasStore(n, vals) /\ st = ctx.attrs["context"]
    BY <1>4 DEF HasStore, Store
  <2>2. v = [type |-> "RECORD", attrs |-> ctx.attrs["context"]]
    BY <1>1, <1>4, MeaningSteps DEF Denotation
  <2>3. v.type = "RECORD" /\ v.attrs = st
    BY <2>1, <2>2
  <2>4. AttrSets(v, ctx) = {Elements(st)}
    BY <2>3 DEF AttrSets
  <2> QED BY <1>2, <2>1, <2>4
<1>5. CASE k.op = "var" /\ k.var # "context"
  <2> DEFINE s == k.var
  <2>1. s \in Slot
    BY <1>1, <1>5, NodeAssumption
  <2>2. HasStore(n, vals) /\ st = ctx.attrs[s]
    BY <1>5 DEF HasStore, Store
  <2>3. v = Entity(ctx.uid[s], "none")
    BY <1>1, <1>5, MeaningSteps DEF Denotation
  <2>4. v.type = "ENTITY" /\ v.uid = ctx.uid[s]
    BY <2>3 DEF Entity
  <2> HIDE DEF s
  <2>5. AttrSets(v, ctx) = {Elements(st)}
    BY <1>3, <2>1, <2>2, <2>4
  <2> QED BY <1>2, <2>1, <2>2, <2>5
<1>6. CASE k.op # "var"
  <2> DEFINE w == vals[1]
  <2>1. Sound(w) /\ Placed(w) /\ v = ClearSlot(w)
    BY <1>6
  <2>2. HasStore(n, vals) <=> (w.type = "ENTITY" /\ w.slot \in Slot) \/ w.type = "RECORD"
    BY <1>6 DEF HasStore
  <2>3. st = IF w.type = "ENTITY" THEN ctx.attrs[w.slot] ELSE w.attrs
    BY <1>6 DEF Store
  <2> HIDE DEF w, st, k
  <2>4. CASE w.type = "ENTITY"
    <3>1. v.type = "ENTITY" /\ v.uid = w.uid
      BY <2>1, <2>4, Cleared DEF Entity
    <3>2. CASE w.slot \in Slot
      <4>1. ctx.uid[w.slot] = w.uid
        BY <2>1, <2>4, <3>2, Cleared
      <4>2. AttrSets(v, ctx) = {Elements(ctx.attrs[w.slot])}
        BY <1>3, <3>1, <3>2, <4>1
      <4> QED BY <1>2, <2>2, <2>3, <2>4, <3>2, <4>2 DEF st
    <3>3. CASE w.slot \notin Slot
      <4>1. SlotsOf(w.uid, ctx) = {}
        BY <2>1, <2>4, <3>3 DEF Placed
      <4>2. AttrSets(v, ctx) = {}
        BY <3>1, <4>1 DEF AttrSets
      <4> QED BY <2>2, <2>4, <3>3, <4>2
    <3> QED BY <3>2, <3>3
  <2>5. CASE w.type = "RECORD"
    <3>1. v = w
      BY <2>1, <2>5, Cleared
    <3>2. Deep(w)
      BY <2>1, <2>5 DEF Sound, Entity
    <3>3. Unique(NamesOf(w.attrs))
      BY <2>5, <3>2, DeepFacts
    <3>4. DOMAIN w.attrs \subseteq Nat
      <4>1. PICK W : Contents(w) \in Seq(W)
        BY <3>2, DeepFacts
      <4>2. Values(w.attrs) \in Seq(W)
        BY <2>5, <4>1 DEF Contents
      <4> QED BY <4>2, ValuesFacts
    <3>5. AttrSets(v, ctx) = {Elements(w.attrs)}
      BY <2>5, <3>1 DEF AttrSets
    <3> QED BY <2>2, <2>3, <2>5, <3>3, <3>4, <3>5 DEF st
  <2>6. CASE w.type \notin {"ENTITY", "RECORD"}
    <3>1. v.type \notin {"ENTITY", "RECORD"}
      BY <2>1, <2>6, Cleared
    <3> QED BY <2>2, <2>6, <3>1 DEF AttrSets
  <2> QED BY <2>4, <2>5, <2>6
<1> QED BY <1>4, <1>5, <1>6

(* .attr and `has', whichever way they look the object up                  *)
LEMMA AccessMeans ==
  ASSUME NEW n \in Node, n.op \in {"attr", "has"}, NEW vals, Tells(n, vals),
         ctx \in Context, Consistent(ctx), AsksNamedEntities(n, ctx)
  PROVE  ClearSlot(Result(n, vals)) = Meaning(n, ctx)
<1> DEFINE m == OperandMeanings(n, ctx)
           v == m[1]
           k == n.kids[1]
           st == Store(n, vals)
           found == Named(st, n.name)
           values == NamedValues(v, n.name, ctx)
<1>1. Strict(n)
  BY DEF Strict
<1>2. Len(n.kids) = 1 /\ n.kids \in Seq(Node)
  BY NodeAssumption DEF Arity
<1>3. m[1] = Meaning(k, ctx) /\ DOMAIN m = 1..1
  <2>1. 1 \in 1..Len(n.kids)
    BY <1>2
  <2>2. DOMAIN m = 1..Len(n.kids) /\ m[1] = Meaning(k, ctx)
    BY <2>1, OperandMeaningsFacts
  <2> QED BY <1>2, <2>2
<1>4. Failed(vals) => Result(n, vals) = Error /\ Meaning(n, ctx) = Error
  <2>1. CASE k.op # "var"
    BY <1>1, <2>1, StrictFacts DEF Operands
  <2>2. CASE k.op = "var"
    <3>1. Operands(n) = <<>>
      BY <2>2 DEF Operands
    <3>2. DOMAIN vals = 1..Len(vals) /\ Len(vals) \in Nat /\ Len(vals) <= 0
      BY <3>1, TellsFacts
    <3>3. DOMAIN vals = {}
      BY <3>2
    <3> QED BY <3>3 DEF Failed
  <2> QED BY <2>1, <2>2
<1>5. ASSUME ~Failed(vals)
      PROVE  /\ Result(n, vals) = Value(n, vals) /\ Meaning(n, ctx) = StrictMeaning(n, m, ctx)
             /\ k.op = "var" \/ (v = ClearSlot(vals[1]) /\ Sound(vals[1]) /\ Placed(vals[1]))
  <2>1. CASE k.op # "var"
    <3>1. Operands(n) = n.kids
      BY <2>1 DEF Operands
    <3>2. 1 \in 1..Len(n.kids)
      BY <1>2
    <3>3. /\ Result(n, vals) = Value(n, vals) /\ Meaning(n, ctx) = StrictMeaning(n, m, ctx)
          /\ Sound(vals[1]) /\ m[1] = ClearSlot(vals[1]) /\ Evaluates(n.kids[1], vals[1])
      BY <1>1, <1>5, <3>1, <3>2, StrictFacts
    <3>4. ClearSlot(vals[1]) = Meaning(n.kids[1], ctx)
      BY <1>3, <3>3
    <3>5. Placed(vals[1])
      BY <3>3, <3>4, AskedPlaced
    <3> QED BY <3>3, <3>5
  <2>2. CASE k.op = "var"
    <3>1. k \in Node
      BY <1>2
    <3>2. v # Error
      <4>1. v.type \in {"RECORD", "ENTITY"}
        <5>1. Meaning(k, ctx) = IF k.var = "context"
                                THEN [type |-> "RECORD", attrs |-> ctx.attrs[k.var]]
                                ELSE Entity(ctx.uid[k.var], "none")
          BY <2>2, <3>1, MeaningSteps DEF Denotation
        <5> HIDE DEF v, k
        <5>2. CASE k.var = "context"
          <6>1. v = [type |-> "RECORD", attrs |-> ctx.attrs[k.var]]
            BY <1>3, <5>1, <5>2 DEF v
          <6> QED BY <6>1
        <5>3. CASE k.var # "context"
          <6>1. v = Entity(ctx.uid[k.var], "none")
            BY <1>3, <5>1, <5>3 DEF v
          <6> QED BY <6>1 DEF Entity
        <5> QED BY <5>2, <5>3
      <4> HIDE DEF v
      <4> QED BY <4>1 DEF Error
    <3> HIDE DEF v, k
    <3>3. Error \notin Elements(m)
      BY <1>3, <3>2 DEF Elements, v
    <3>4. Meaning(n, ctx) = StrictMeaning(n, m, ctx)
      <4>1. Meaning(n, ctx) =
              IF Error \in Elements(m) THEN Error ELSE StrictMeaning(n, m, ctx)
        BY <1>1, StrictSteps
      <4> QED BY <3>3, <4>1
    <3>5. Result(n, vals) = Value(n, vals)
      BY <1>5 DEF Result
    <3> QED BY <2>2, <3>4, <3>5
  <2> QED BY <2>1, <2>2
<1>6. Error.type = "ERROR" /\ ClearSlot(Error) = Error
  BY ErrorPlain, PlainCleared DEF Error
<1>7. ASSUME ~Failed(vals) PROVE ClearSlot(Value(n, vals)) = StrictMeaning(n, m, ctx)
  <2>1. /\ HasStore(n, vals) => /\ AttrSets(v, ctx) = {Elements(st)}
                                /\ Unique(NamesOf(st)) /\ DOMAIN st \subseteq Nat
        /\ ~HasStore(n, vals) => AttrSets(v, ctx) = {}
    <3>1. \/ k.op = "var" /\ v = Meaning(k, ctx)
          \/ k.op # "var" /\ v = ClearSlot(vals[1]) /\ Sound(vals[1]) /\ Placed(vals[1])
      BY <1>3, <1>5, <1>7
    <3> HIDE DEF v
    <3> QED BY <3>1, StoreMeans
  <2>2. HasStore(n, vals) =>
          /\ values = {} <=> found = {}
          /\ found # {} => /\ First(found) \in DOMAIN st
                           /\ (CHOOSE x \in values : TRUE) = st[First(found)].value
    <3> HIDE DEF v, st
    <3> QED BY <2>1, FirstNamed
  <2>3. ~HasStore(n, vals) => values = {}
    BY <2>1 DEF NamedValues
  <2>4. HasStore(n, vals) => \A j \in DOMAIN st : Deep(st[j].value)
    BY <1>5, <1>7, StoreSound
  <2>5. CASE n.op = "attr"
    <3>1. Value(n, vals) =
            IF HasStore(n, vals) /\ found # {} THEN st[First(found)].value ELSE Error
      BY <2>5 DEF Value, EvalAttrAccess
    <3>2. StrictMeaning(n, m, ctx) = IF values = {} THEN Error ELSE CHOOSE x \in values : TRUE
      BY <2>5 DEF StrictMeaning
    <3>3. CASE HasStore(n, vals) /\ found # {}
      <4> HIDE DEF st, found, values
      <4> QED BY <2>2, <2>4, <3>1, <3>2, <3>3, DeepCleared
    <3>4. CASE ~(HasStore(n, vals) /\ found # {})
      <4> HIDE DEF st, found, values
      <4>1. values = {}
        BY <2>2, <2>3, <3>4
      <4>2. Value(n, vals) = Error
        BY <3>1, <3>4
      <4> QED BY <1>6, <3>2, <4>1, <4>2
    <3> QED BY <3>3, <3>4
  <2>6. CASE n.op = "has"
    <3> DEFINE b == found # {}
    <3>1. Value(n, vals) = IF HasStore(n, vals) THEN Bool(b) ELSE Error
      BY <2>6 DEF Value, EvalHas
    <3>2. StrictMeaning(n, m, ctx) =
            IF AttrSets(v, ctx) = {} THEN Error ELSE Truth(values # {})
      BY <2>6 DEF StrictMeaning
    <3>3. CASE HasStore(n, vals)
      <4> HIDE DEF st, found, values, v
      <4>1. AttrSets(v, ctx) # {}
        BY <2>1, <3>3
      <4>2. (values # {}) = b /\ b \in BOOLEAN
        BY <2>2, <3>3
      <4> HIDE DEF b
      <4> QED BY <3>1, <3>2, <3>3, <4>1, <4>2, TruthBool
    <3>4. CASE ~HasStore(n, vals)
      BY <1>6, <2>1, <3>1, <3>2, <3>4
    <3> QED BY <3>3, <3>4
  <2> QED BY <2>5, <2>6
<1>8. CASE Failed(vals)
  BY <1>4, <1>6, <1>8
<1>9. CASE ~Failed(vals)
  BY <1>5, <1>7, <1>9
<1> QED BY <1>8, <1>9

-------------------------------------------------------------------------------
(* Operators that need the values of all their operands                    *)

(* It is enough to look at operands none of which errs.                    *)
LEMMA StrictCase ==
  ASSUME NEW n \in Node, Strict(n), Operands(n) = n.kids, NEW vals, Tells(n, vals),
         ~Failed(vals) =>
           ClearSlot(Value(n, vals)) = StrictMeaning(n, OperandMeanings(n, ctx), ctx)
  PROVE  ClearSlot(Result(n, vals)) = Meaning(n, ctx)
<1>1. ClearSlot(Error) = Error
  BY ErrorPlain, PlainCleared
<1> QED BY <1>1, StrictFacts

(* The operand of a node of one, and the operands of a node of two         *)
LEMMA OneOperand ==
  ASSUME NEW n \in Node, Strict(n), Operands(n) = n.kids, Len(n.kids) = 1, NEW vals,
         Tells(n, vals), ~Failed(vals)
  PROVE  /\ Sound(vals[1]) /\ OperandMeanings(n, ctx)[1] = ClearSlot(vals[1])
         /\ DOMAIN OperandMeanings(n, ctx) = {1} /\ Len(vals) = 1
         /\ Len(OperandMeanings(n, ctx)) = 1
<1>1. 1 \in 1..Len(n.kids)
  OBVIOUS
<1>2. DOMAIN OperandMeanings(n, ctx) = 1..1
  BY OperandMeaningsFacts
<1>3. Len(vals) = 1 /\ Len(OperandMeanings(n, ctx)) = 1
  BY StrictFacts, OperandMeaningsFacts
<1>4. Sound(vals[1]) /\ OperandMeanings(n, ctx)[1] = ClearSlot(vals[1])
  BY <1>1, StrictFacts
<1> QED BY <1>2, <1>3, <1>4

LEMMA TwoOperands ==
  ASSUME NEW n \in Node, Strict(n), Operands(n) = n.kids, Len(n.kids) = 2, NEW vals,
         Tells(n, vals), ~Failed(vals)
  PROVE  /\ Sound(vals[1]) /\ OperandMeanings(n, ctx)[1] = ClearSlot(vals[1])
         /\ Sound(vals[2]) /\ OperandMeanings(n, ctx)[2] = ClearSlot(vals[2])
         /\ DOMAIN OperandMeanings(n, ctx) = {1, 2} /\ Len(vals) = 2
         /\ Len(OperandMeanings(n, ctx)) = 2
         /\ Evaluates(n.kids[1], vals[1])
<1>1. 1 \in 1..Len(n.kids) /\ 2 \in 1..Len(n.kids)
  OBVIOUS
<1>2. DOMAIN OperandMeanings(n, ctx) = 1..2
  BY OperandMeaningsFacts
<1>3. DOMAIN OperandMeanings(n, ctx) = {1, 2}
  <2> DEFINE D == DOMAIN OperandMeanings(n, ctx)
  <2> HIDE DEF D
  <2>1. D = 1..2
    BY <1>2 DEF D
  <2>2. D = {1, 2}
    BY <2>1
  <2> QED BY <2>2 DEF D
<1>4. Len(vals) = 2 /\ Len(OperandMeanings(n, ctx)) = 2
  BY StrictFacts, OperandMeaningsFacts
<1>5. /\ Sound(vals[1]) /\ OperandMeanings(n, ctx)[1] = ClearSlot(vals[1])
      /\ Evaluates(n.kids[1], vals[1])
  BY <1>1, StrictFacts
<1>6. Sound(vals[2]) /\ OperandMeanings(n, ctx)[2] = ClearSlot(vals[2])
  BY <1>1, StrictFacts
<1> QED BY <1>3, <1>4, <1>5, <1>6

(* Within the limits, equality does not see the tags.                      *)
LEMMA EqualsMeans ==
  ASSUME NEW a, NEW b, Sound(a), Sound(b),
         ClearSlot(a) \in Comparable, ClearSlot(b) \in Comparable
  PROVE  Equals(a, b) = IF SameAs(ClearSlot(a), ClearSlot(b)) THEN "yes" ELSE "no"
<1>1. ASSUME NEW v, Sound(v) PROVE v \in Tagged(ClearSlot(v))
  <2>1. CASE v.type = "ENTITY"
    <3>1. PICK slot \in Slot \cup {"none"} : v = Entity(v.uid, slot)
      BY <1>1, <2>1, Cleared
    <3> DEFINE u == v.uid
    <3>2. ClearSlot(v) = Entity(u, "none")
      BY <1>1, <2>1, Cleared
    <3>3. v = Entity(u, slot)
      BY <3>1
    <3> HIDE DEF u
    <3>4. Entity(u, "none").type = "ENTITY" /\ Entity(u, "none").uid = u
      BY DEF Entity
    <3>5. Tagged(Entity(u, "none")) = {Entity(u, s) : s \in Slot \cup {"none"}}
      BY <3>4 DEF Tagged
    <3> QED BY <3>1, <3>2, <3>3, <3>5
  <2>2. CASE v.type # "ENTITY"
    BY <1>1, <2>2, Cleared DEF Tagged
  <2> QED BY <2>1, <2>2
<1> DEFINE v == ClearSlot(a)
           w == ClearSlot(b)
<1>2. v \in Comparable /\ w \in Comparable /\ a \in Tagged(v) /\ b \in Tagged(w)
  BY <1>1
<1> HIDE DEF v, w
<1>3. Equals(a, b) = IF SameAs(v, w) THEN "yes" ELSE "no"
  BY <1>2, SameAssumption
<1> QED BY <1>3 DEF v, w

(* Truth values have no tag to lose.                                       *)
LEMMA TruthCleared ==
  ASSUME NEW b
  PROVE  ClearSlot(Truth(b)) = Truth(b)
<1>1. Truth(b) = Bool(TRUE) \/ Truth(b) = Bool(FALSE)
  BY DEF Truth
<1>2. ClearSlot(Bool(TRUE)) = Bool(TRUE) /\ ClearSlot(Bool(FALSE)) = Bool(FALSE)
  BY BoolPlain, PlainCleared
<1> QED BY <1>1, <1>2

(* == and != of values within the limits                                   *)
LEMMA EqualityMeans ==
  ASSUME NEW n \in Node, n.op \in {"eq", "ne"}, NEW vals, Tells(n, vals),
         Comparands(n, OperandMeanings(n, ctx)) \subseteq Comparable \cup {Error}
  PROVE  ClearSlot(Result(n, vals)) = Meaning(n, ctx)
<1>1. Strict(n) /\ Operands(n) = n.kids /\ Len(n.kids) = 2
  BY NodeAssumption DEF Strict, Operands, Arity
<1> DEFINE m == OperandMeanings(n, ctx)
           a == vals[1]
           b == vals[2]
           same == SameAs(m[1], m[2])
<1>2. ASSUME ~Failed(vals) PROVE ClearSlot(Value(n, vals)) = StrictMeaning(n, m, ctx)
  <2>1. /\ Sound(a) /\ m[1] = ClearSlot(a) /\ Sound(b) /\ m[2] = ClearSlot(b)
        /\ DOMAIN m = {1, 2}
    BY <1>1, <1>2, TwoOperands
  <2>2. m[1] \in Comparable /\ m[2] \in Comparable
    <3>1. Comparands(n, m) = Elements(m)
      BY DEF Comparands
    <3>2. m[1] \in Elements(m) /\ m[2] \in Elements(m)
      BY <2>1 DEF Elements
    <3>3. m[1] # Error /\ m[2] # Error
      <4>1. \A k \in 1..2 : vals[k].type # "ERROR"
        BY <1>1, <1>2, StrictFacts
      <4>2. a.type # "ERROR" /\ b.type # "ERROR"
        BY <4>1
      <4> HIDE DEF a, b, m
      <4> QED BY <2>1, <4>2, Cleared
    <3> HIDE DEF m
    <3> QED BY <3>1, <3>2, <3>3 DEF m
  <2>3. Equals(a, b) = IF same THEN "yes" ELSE "no"
    <3>1. Equals(a, b) = IF SameAs(ClearSlot(a), ClearSlot(b)) THEN "yes" ELSE "no"
      <4> HIDE DEF a, b
      <4> QED BY <2>1, <2>2, EqualsMeans
    <3> QED BY <2>1, <3>1
  <2>4. Outcome(Equals(a, b)) = Truth(same) /\ Negated(Outcome(Equals(a, b))) = Truth(~same)
    <3>1. Bool(TRUE).type = "BOOL" /\ Bool(TRUE).b = TRUE
          /\ Bool(FALSE).type = "BOOL" /\ Bool(FALSE).b = FALSE
      BY DEF Bool
    <3>2. ("yes" = "yes") = TRUE /\ ("no" = "yes") = FALSE /\ "yes" # "error" /\ "no" # "error"
      OBVIOUS
    <3>3. Outcome("yes") = Bool(TRUE) /\ Outcome("no") = Bool(FALSE)
      BY <3>2 DEF Outcome
    <3>4. Negated(Bool(TRUE)) = Bool(FALSE) /\ Negated(Bool(FALSE)) = Bool(TRUE)
      <4>1. (~TRUE) = FALSE /\ (~FALSE) = TRUE
        OBVIOUS
      <4> QED BY <3>1, <4>1 DEF Negated
    <3>5. CASE same
      BY <2>3, <3>3, <3>4, <3>5 DEF Truth
    <3>6. CASE ~same
      BY <2>3, <3>3, <3>4, <3>6 DEF Truth
    <3> QED BY <3>5, <3>6
  <2>5. CASE n.op = "eq"
    <3>1. Value(n, vals) = Truth(same)
      BY <2>4, <2>5 DEF Value
    <3>2. StrictMeaning(n, m, ctx) = Truth(same)
      BY <2>5 DEF StrictMeaning
    <3> QED BY <3>1, <3>2, TruthCleared
  <2>6. CASE n.op = "ne"
    <3>1. Value(n, vals) = Truth(~same)
      BY <2>4, <2>6 DEF Value
    <3>2. StrictMeaning(n, m, ctx) = Truth(~same)
      BY <2>6 DEF StrictMeaning
    <3> QED BY <3>1, <3>2, TruthCleared
  <2> QED BY <2>5, <2>6
<1> QED BY <1>1, <1>2, StrictCase

(* `in'                                                                    *)
LEMMA InsideMeans ==
  ASSUME NEW n \in Node, n.op = "in", NEW vals, Tells(n, vals),
         ctx \in Context, Consistent(ctx), AsksNamedEntities(n, ctx)
  PROVE  ClearSlot(Result(n, vals)) = Meaning(n, ctx)
<1>1. Strict(n) /\ Operands(n) = n.kids /\ Len(n.kids) = 2
  BY NodeAssumption DEF Strict, Operands, Arity
<1> DEFINE m == OperandMeanings(n, ctx)
           a == vals[1]
           b == vals[2]
<1>2. ASSUME ~Failed(vals) PROVE ClearSlot(Value(n, vals)) = StrictMeaning(n, m, ctx)
  <2>1. /\ Sound(a) /\ m[1] = ClearSlot(a) /\ Sound(b) /\ m[2] = ClearSlot(b)
        /\ Evaluates(n.kids[1], a)
    BY <1>1, <1>2, TwoOperands
  <2>2. m[1] = Meaning(n.kids[1], ctx)
    <3>1. 1 \in 1..Len(n.kids)
      BY <1>1
    <3> QED BY <3>1, OperandMeaningsFacts
  <2>3. Value(n, vals) = EvalIn(a, b) /\ StrictMeaning(n, m, ctx) = InMeaning(m[1], m[2], ctx)
    BY DEF Value, StrictMeaning
  <2> HIDE DEF a, b, m
  <2>4. ClearSlot(a) = Meaning(n.kids[1], ctx)
    BY <2>1, <2>2
  <2>5. Placed(a)
    BY <2>1, <2>4, AskedPlaced
  <2>6. EvalIn(a, b) = InMeaning(m[1], m[2], ctx)
    BY <2>1, <2>5, InMeans
  <2> QED BY <2>3, <2>6, InPlain, PlainCleared
<1> QED BY <1>1, <1>2, StrictCase

(* Set and record literals, whose elements lose their tags                 *)
LEMMA LiteralMeans ==
  ASSUME NEW n \in Node, n.op \in {"set", "record"}, NEW vals, Tells(n, vals)
  PROVE  ClearSlot(Result(n, vals)) = Meaning(n, ctx)
<1>1. Strict(n) /\ Operands(n) = n.kids
  BY DEF Strict, Operands
<1> DEFINE m == OperandMeanings(n, ctx)
           c == [k \in DOMAIN vals |-> ClearSlot(vals[k])]
<1>2. ASSUME ~Failed(vals) PROVE ClearSlot(Value(n, vals)) = StrictMeaning(n, m, ctx)
  <2>1. /\ DOMAIN vals = 1..Len(n.kids)
        /\ \A k \in 1..Len(n.kids) : m[k] = ClearSlot(vals[k])
    BY <1>1, <1>2, StrictFacts
  <2>2. DOMAIN m = 1..Len(n.kids)
    BY OperandMeaningsFacts
  <2>3. m = [k \in DOMAIN n.kids |-> m[k]]
    BY DEF OperandMeanings
  <2>4. DOMAIN m = DOMAIN n.kids
    BY DEF OperandMeanings
  <2> HIDE DEF m
  <2>5. m = c
    BY <2>1, <2>2, <2>3, <2>4
  <2>6. CASE n.op = "set"
    <3> DEFINE v == [type |-> "SET", elts |-> m]
    <3>1. Value(n, vals) = [type |-> "SET", elts |-> c] /\ StrictMeaning(n, m, ctx) = v
      BY <2>6 DEF Value, StrictMeaning
    <3>2. v.type # "ENTITY"
      OBVIOUS
    <3> HIDE DEF c
    <3>3. Value(n, vals) = v
      BY <2>5, <3>1
    <3> HIDE DEF v
    <3> QED BY <3>1, <3>2, <3>3 DEF ClearSlot
  <2>7. CASE n.op = "record"
    <3> DEFINE v == [type |-> "RECORD", attrs |->
                      [k \in DOMAIN m |-> [name |-> n.keys[k], value |-> m[k]]]]
    <3>1. Value(n, vals) = MakeRecord(n.keys, vals) /\ StrictMeaning(n, m, ctx) = v
      BY <2>7 DEF Value, StrictMeaning
    <3>2. v.type # "ENTITY"
      OBVIOUS
    <3>3. [k \in DOMAIN m |-> [name |-> n.keys[k], value |-> m[k]]]
            = [k \in DOMAIN vals |-> [name |-> n.keys[k], value |-> ClearSlot(vals[k])]]
      BY <2>1, <2>2
    <3>4. Value(n, vals) = v
      BY <3>1, <3>3 DEF MakeRecord
    <3> HIDE DEF v
    <3> QED BY <3>1, <3>2, <3>4 DEF ClearSlot
  <2> QED BY <2>6, <2>7
<1> QED BY <1>1, <1>2, StrictCase

-------------------------------------------------------------------------------
(* Numbers and texts                                                       *)

(* The four relations                                                      *)
LEMMA RelatesMeans ==
  ASSUME NEW rel \in {"<", "<=", ">", ">="}, NEW x \in Int, NEW y \in Int
  PROVE  Bool(Relates(rel, x, y)) = Truth(Ordering(rel, x, y))
<1>1. Relates(rel, x, y) = Ordering(rel, x, y)
  <2>1. CASE rel = "<"
    <3>1. Relates(rel, x, y) = (x < y)
      BY <2>1 DEF Relates
    <3>2. Ordering(rel, x, y) <=> x < y
      BY <2>1 DEF Ordering
    <3>3. (x < y) \in BOOLEAN /\ Ordering(rel, x, y) \in BOOLEAN
      BY DEF Ordering
    <3> QED BY <3>1, <3>2, <3>3
  <2>2. CASE rel = "<="
    <3>1. Relates(rel, x, y) = (x <= y)
      BY <2>2 DEF Relates
    <3>2. Ordering(rel, x, y) <=> x <= y
      BY <2>2 DEF Ordering
    <3>3. (x <= y) \in BOOLEAN /\ Ordering(rel, x, y) \in BOOLEAN
      BY DEF Ordering
    <3> QED BY <3>1, <3>2, <3>3
  <2>3. CASE rel = ">"
    <3>1. Relates(rel, x, y) = (x > y)
      BY <2>3 DEF Relates
    <3>2. Ordering(rel, x, y) <=> x > y
      BY <2>3 DEF Ordering
    <3>3. (x > y) \in BOOLEAN /\ Ordering(rel, x, y) \in BOOLEAN
      BY DEF Ordering
    <3> QED BY <3>1, <3>2, <3>3
  <2>4. CASE rel = ">="
    <3>1. Relates(rel, x, y) = (x >= y)
      BY <2>4 DEF Relates
    <3>2. Ordering(rel, x, y) <=> x >= y
      BY <2>4 DEF Ordering
    <3>3. (x >= y) \in BOOLEAN /\ Ordering(rel, x, y) \in BOOLEAN
      BY DEF Ordering
    <3> QED BY <3>1, <3>2, <3>3
  <2> QED BY <2>1, <2>2, <2>3, <2>4
<1>2. Ordering(rel, x, y) \in BOOLEAN
  BY DEF Ordering
<1> HIDE DEF Relates, Ordering
<1> QED BY <1>1, <1>2, TruthBool

(* <, <=, > and >= of Longs, datetimes and durations                       *)
LEMMA ComparesMean ==
  ASSUME NEW n \in Node, n.op = "cmp", NEW vals, Tells(n, vals)
  PROVE  ClearSlot(Result(n, vals)) = Meaning(n, ctx)
<1>1. Strict(n) /\ Operands(n) = n.kids /\ Len(n.kids) = 2
  BY NodeAssumption DEF Strict, Operands, Arity
<1> DEFINE m == OperandMeanings(n, ctx)
           a == vals[1]
           b == vals[2]
           ordered == a.type = b.type /\ a.type \in Ordered
<1>2. ASSUME ~Failed(vals) PROVE ClearSlot(Value(n, vals)) = StrictMeaning(n, m, ctx)
  <2>1. /\ Sound(a) /\ m[1] = ClearSlot(a) /\ Sound(b) /\ m[2] = ClearSlot(b)
        /\ DOMAIN m = {1, 2}
    BY <1>1, <1>2, TwoOperands
  <2>2. Value(n, vals) = IF ordered THEN Bool(Relates(n.rel, a.n, b.n)) ELSE Error
    BY DEF Value, Compare
  <2>3. StrictMeaning(n, m, ctx) =
          IF \E type \in Ordered : AllOfType(m, type)
          THEN Truth(Ordering(n.rel, m[1].n, m[2].n)) ELSE Error
    BY DEF StrictMeaning, Ordered
  <2> HIDE DEF a, b, m
  <2>4. m[1].type = a.type /\ m[2].type = b.type
    BY <2>1, Cleared
  <2>5. (\E type \in Ordered : AllOfType(m, type)) <=> ordered
    BY <2>1, <2>4 DEF AllOfType
  <2>6. CASE ordered
    <3>1. m[1] = a /\ m[2] = b
      <4>1. a.type # "ENTITY" /\ b.type # "ENTITY"
        BY <2>6 DEF Ordered
      <4> QED BY <2>1, <4>1, Cleared
    <3>2. a.n \in Int /\ b.n \in Int
      BY <2>1, <2>6, NumberFacts DEF Numeric
    <3>3. Bool(Relates(n.rel, a.n, b.n)) = Truth(Ordering(n.rel, a.n, b.n))
      BY <3>2, NodeAssumption, RelatesMeans
    <3>4. Value(n, vals) = Truth(Ordering(n.rel, a.n, b.n))
      BY <2>2, <2>6, <3>3
    <3>5. StrictMeaning(n, m, ctx) = Truth(Ordering(n.rel, a.n, b.n))
      BY <2>3, <2>5, <2>6, <3>1
    <3> QED BY <3>4, <3>5, TruthCleared
  <2>7. CASE ~ordered
    BY <2>2, <2>3, <2>5, <2>7, ErrorPlain, PlainCleared
  <2> QED BY <2>6, <2>7
<1> QED BY <1>1, <1>2, StrictCase

(* +, - and * with their overflows                                         *)
LEMMA ArithMeans ==
  ASSUME NEW n \in Node, n.op = "arith", NEW vals, Tells(n, vals)
  PROVE  ClearSlot(Result(n, vals)) = Meaning(n, ctx)
<1>1. Strict(n) /\ Operands(n) = n.kids /\ Len(n.kids) = 2
  BY NodeAssumption DEF Strict, Operands, Arity
<1> DEFINE m == OperandMeanings(n, ctx)
           a == vals[1]
           b == vals[2]
<1>2. ASSUME ~Failed(vals) PROVE ClearSlot(Value(n, vals)) = StrictMeaning(n, m, ctx)
  <2>1. /\ Sound(a) /\ m[1] = ClearSlot(a) /\ Sound(b) /\ m[2] = ClearSlot(b)
        /\ DOMAIN m = {1, 2}
    BY <1>1, <1>2, TwoOperands
  <2>2. Value(n, vals) = LongArith(n.fn, a, b)
    BY DEF Value
  <2>3. StrictMeaning(n, m, ctx) =
         IF ~AllOfType(m, "LONG") THEN Error
         ELSE Represented(CASE n.fn = "+" -> m[1].n + m[2].n
                            [] n.fn = "-" -> m[1].n - m[2].n
                            [] n.fn = "*" -> m[1].n * m[2].n)
    BY DEF StrictMeaning
  <2> HIDE DEF a, b, m
  <2>4. m[1].type = a.type /\ m[2].type = b.type
    BY <2>1, Cleared
  <2>5. AllOfType(m, "LONG") <=> a.type = "LONG" /\ b.type = "LONG"
    BY <2>1, <2>4 DEF AllOfType
  <2>6. CASE a.type = "LONG" /\ b.type = "LONG"
    <3>1. m[1] = a /\ m[2] = b
      BY <2>1, <2>6, Cleared
    <3>2. a.n \in Int /\ b.n \in Int
      BY <2>1, <2>6, NumberFacts DEF Numeric, Ordered
    <3>3. PICK e \in Int : /\ n.fn = "+" => e = a.n + b.n
                           /\ n.fn = "-" => e = a.n - b.n
                           /\ n.fn = "*" => e = a.n * b.n
      <4>1. a.n + b.n \in Int /\ a.n - b.n \in Int /\ a.n * b.n \in Int
        BY <3>2
      <4>2. n.fn = "+" \/ n.fn = "-" \/ n.fn = "*"
        BY NodeAssumption
      <4> QED BY <4>1, <4>2
    <3>4. n.fn = "+" \/ n.fn = "-" \/ n.fn = "*"
      BY NodeAssumption
    <3>5. LongArith(n.fn, a, b) = IF e \in MinLong..MaxLong THEN Long(e) ELSE Error
      BY <2>6, <3>3, <3>4 DEF LongArith
    <3>6. StrictMeaning(n, m, ctx) = Represented(e)
      BY <2>3, <2>5, <2>6, <3>1, <3>3, <3>4
    <3>7. Represented(e) = LongArith(n.fn, a, b)
      BY <3>5, LongAssumption DEF Represented
    <3> QED BY <2>1, <2>2, <3>6, <3>7, ArithPlain, PlainCleared
  <2>7. CASE ~(a.type = "LONG" /\ b.type = "LONG")
    <3>1. LongArith(n.fn, a, b) = Error
      BY <2>7 DEF LongArith
    <3> QED BY <2>2, <2>3, <2>5, <2>7, <3>1, ErrorPlain, PlainCleared
  <2> QED BY <2>6, <2>7
<1> QED BY <1>1, <1>2, StrictCase

(* !, unary - and `like'                                                   *)
LEMMA UnaryMeans ==
  ASSUME NEW n \in Node, n.op \in {"not", "neg", "like"}, NEW vals, Tells(n, vals)
  PROVE  ClearSlot(Result(n, vals)) = Meaning(n, ctx)
<1>1. Strict(n) /\ Operands(n) = n.kids /\ Len(n.kids) = 1
  BY NodeAssumption DEF Strict, Operands, Arity
<1> DEFINE m == OperandMeanings(n, ctx)
           a == vals[1]
<1>2. ASSUME ~Failed(vals) PROVE ClearSlot(Value(n, vals)) = StrictMeaning(n, m, ctx)
  <2>1. Sound(a) /\ m[1] = ClearSlot(a) /\ DOMAIN m = {1}
    BY <1>1, <1>2, OneOperand
  <2>2. ClearSlot(Error) = Error
    BY ErrorPlain, PlainCleared
  <2>3. CASE n.op = "not"
    <3>1. Value(n, vals) = Negated(a)
      BY <2>3 DEF Value
    <3>2. StrictMeaning(n, m, ctx) =
            IF AllOfType(m, "BOOL") THEN Truth(m[1] = Bool(FALSE)) ELSE Error
      BY <2>3 DEF StrictMeaning
    <3> HIDE DEF a, m
    <3>3. m[1].type = a.type /\ (a.type # "ENTITY" => m[1] = a)
      BY <2>1, Cleared
    <3>4. AllOfType(m, "BOOL") <=> a.type = "BOOL"
      BY <2>1, <3>3 DEF AllOfType
    <3>5. CASE a.type = "BOOL"
      <4>1. (a = Bool(TRUE) \/ a = Bool(FALSE)) /\ Bool(TRUE) # Bool(FALSE)
        BY <2>1, <3>5, BoolValue
      <4>2. Bool(TRUE).type = "BOOL" /\ Bool(FALSE).type = "BOOL"
            /\ Bool(TRUE).b = TRUE /\ Bool(FALSE).b = FALSE
        BY DEF Bool
      <4>3. (~TRUE) = FALSE /\ (~FALSE) = TRUE
        OBVIOUS
      <4>4. Negated(a) = Truth(a = Bool(FALSE))
        <5>1. CASE a = Bool(TRUE)
          BY <4>1, <4>2, <4>3, <5>1 DEF Negated, Truth
        <5>2. CASE a = Bool(FALSE)
          BY <4>1, <4>2, <4>3, <5>2 DEF Negated, Truth
        <5> QED BY <4>1, <5>1, <5>2
      <4>5. StrictMeaning(n, m, ctx) = Truth(a = Bool(FALSE))
        BY <3>2, <3>3, <3>4, <3>5
      <4> QED BY <3>1, <4>4, <4>5, TruthCleared
    <3>6. CASE a.type # "BOOL"
      <4>1. Negated(a) = Error
        BY <3>6 DEF Negated
      <4> QED BY <2>2, <3>1, <3>2, <3>4, <3>6, <4>1
    <3> QED BY <3>5, <3>6
  <2>4. CASE n.op = "neg"
    <3>1. Value(n, vals) = Negate(a)
      BY <2>4 DEF Value
    <3>2. StrictMeaning(n, m, ctx) =
            IF AllOfType(m, "LONG") THEN Represented(-m[1].n) ELSE Error
      BY <2>4 DEF StrictMeaning
    <3> HIDE DEF a, m
    <3>3. m[1].type = a.type /\ (a.type # "ENTITY" => m[1] = a)
      BY <2>1, Cleared
    <3>4. AllOfType(m, "LONG") <=> a.type = "LONG"
      BY <2>1, <3>3 DEF AllOfType
    <3>5. CASE a.type = "LONG"
      <4>1. a.n \in MinLong..MaxLong
        BY <2>1, <3>5, NumberFacts DEF Numeric, Ordered
      <4>2. StrictMeaning(n, m, ctx) = Represented(-a.n)
        BY <3>2, <3>3, <3>4, <3>5
      <4> DEFINE x == a.n
      <4>3. Negate(a) = IF x # MinLong THEN Long(-x) ELSE Error
        BY <3>5 DEF Negate
      <4> HIDE DEF x
      <4>4. (x # MinLong) <=> (MinLong <= -x /\ -x <= MaxLong)
        BY <4>1, LongAssumption DEF x
      <4>5. Represented(-x) = IF x # MinLong THEN Long(-x) ELSE Error
        BY <4>4 DEF Represented
      <4>6. Negate(a) = Represented(-x)
        BY <4>3, <4>5
      <4> QED BY <2>1, <3>1, <4>2, <4>6, NegatePlain, PlainCleared DEF x
    <3>6. CASE a.type # "LONG"
      <4>1. Negate(a) = Error
        BY <3>6 DEF Negate
      <4> QED BY <2>2, <3>1, <3>2, <3>4, <3>6, <4>1
    <3> QED BY <3>5, <3>6
  <2>5. CASE n.op = "like"
    <3>1. Value(n, vals) = EvalLike(a, n.pattern)
      BY <2>5 DEF Value
    <3>2. StrictMeaning(n, m, ctx) =
            IF AllOfType(m, "STRING") THEN Truth(LikeMatches(m[1].s, n.pattern)) ELSE Error
      BY <2>5 DEF StrictMeaning
    <3> HIDE DEF a, m
    <3>3. m[1].type = a.type /\ (a.type # "ENTITY" => m[1] = a)
      BY <2>1, Cleared
    <3>4. AllOfType(m, "STRING") <=> a.type = "STRING"
      BY <2>1, <3>3 DEF AllOfType
    <3>5. CASE a.type = "STRING"
      <4>1. a \in Datum
        BY <2>1, <3>5, DeepFacts DEF Sound, Entity
      <4>2. LikeMatches(a.s, n.pattern) \in BOOLEAN
        BY <2>5, <3>5, <4>1, LikeAssumption
      <4>3. EvalLike(a, n.pattern) = Truth(LikeMatches(a.s, n.pattern))
        BY <3>5, <4>2, TruthBool DEF EvalLike
      <4>4. StrictMeaning(n, m, ctx) = Truth(LikeMatches(a.s, n.pattern))
        BY <3>2, <3>3, <3>4, <3>5
      <4> QED BY <3>1, <4>3, <4>4, TruthCleared
    <3>6. CASE a.type # "STRING"
      <4>1. EvalLike(a, n.pattern) = Error
        BY <3>6 DEF EvalLike
      <4> QED BY <2>2, <3>1, <3>2, <3>4, <3>6, <4>1
    <3> QED BY <3>5, <3>6
  <2> QED BY <2>3, <2>4, <2>5
<1> QED BY <1>1, <1>2, StrictCase

-------------------------------------------------------------------------------
(* Sets are searched in order, which does not matter: no comparison within *)
(* the limits errs.                                                        *)

(* A loop that meets no error tells whether there is a "yes".              *)
LEMMA ScanFinds ==
  ASSUME NEW outcomes, DOMAIN outcomes \subseteq Nat,
         \A k \in DOMAIN outcomes : outcomes[k] \in {"yes", "no"}
  PROVE  Scan(outcomes) = IF \E k \in DOMAIN outcomes : outcomes[k] = "yes" THEN "yes" ELSE "no"
<1> DEFINE hits == {k \in DOMAIN outcomes : outcomes[k] # "no"}
<1>1. Scan(outcomes) = IF hits = {} THEN "no" ELSE outcomes[First(hits)]
  BY DEF Scan
<1>2. \A k \in DOMAIN outcomes : k \in hits <=> outcomes[k] = "yes"
  OBVIOUS
<1>3. hits \subseteq Nat /\ hits \subseteq DOMAIN outcomes
  OBVIOUS
<1> HIDE DEF hits
<1>4. CASE hits = {}
  BY <1>1, <1>2, <1>4
<1>5. CASE hits # {}
  <2>1. First(hits) \in hits
    BY <1>3, <1>5, FirstIn
  <2>2. outcomes[First(hits)] = "yes"
    BY <1>2, <1>3, <2>1
  <2> QED BY <1>1, <1>3, <1>5, <2>1, <2>2
<1> QED BY <1>4, <1>5

(* An outcome that is no error is a truth value.                           *)
LEMMA OutcomeTruth ==
  ASSUME NEW b
  PROVE  Outcome(IF b THEN "yes" ELSE "no") = Truth(b)
<1>1. ("yes" = "yes") = TRUE /\ ("no" = "yes") = FALSE /\ "yes" # "error" /\ "no" # "error"
  OBVIOUS
<1>2. Outcome("yes") = Bool(TRUE) /\ Outcome("no") = Bool(FALSE)
  BY <1>1 DEF Outcome
<1> QED BY <1>2 DEF Truth

\* What a value of a set within the limits is
Member(v) == Sound(v) /\ ClearSlot(v) = v /\ v \in Comparable

(* A member of a set is compared from either side alike.                   *)
LEMMA MembersEqual ==
  ASSUME NEW a, Member(a), NEW b, Sound(b), ClearSlot(b) \in Comparable
  PROVE  /\ Equals(a, b) = IF SameAs(a, ClearSlot(b)) THEN "yes" ELSE "no"
         /\ Equals(b, a) = IF SameAs(a, ClearSlot(b)) THEN "yes" ELSE "no"
<1>1. /\ Equals(a, b) = IF SameAs(ClearSlot(a), ClearSlot(b)) THEN "yes" ELSE "no"
      /\ Equals(b, a) = IF SameAs(ClearSlot(b), ClearSlot(a)) THEN "yes" ELSE "no"
  BY EqualsMeans DEF Member
<1>2. SameAs(ClearSlot(b), a) <=> SameAs(a, ClearSlot(b))
  BY SameAssumption DEF Member
<1> QED BY <1>1, <1>2 DEF Member

\* A value is in a set, as the loops of the set methods go through it.
LEMMA FoundMeans ==
  ASSUME NEW set, DOMAIN set \subseteq Nat, \A k \in DOMAIN set : Member(set[k]),
         NEW v, Sound(v), ClearSlot(v) \in Comparable
  PROVE  LET has == \E w \in Elements(set) : SameAs(w, ClearSlot(v)) IN
         /\ EvalContains(set, v) = Truth(has)
         /\ FoundIn(v, set) = IF has THEN "yes" ELSE "no"
<1> DEFINE has == \E w \in Elements(set) : SameAs(w, ClearSlot(v))
           f == [k \in DOMAIN set |-> Equals(set[k], v)]
           g == [k \in DOMAIN set |-> Equals(v, set[k])]
<1>1. \A k \in DOMAIN set :
        /\ Equals(set[k], v) = IF SameAs(set[k], ClearSlot(v)) THEN "yes" ELSE "no"
        /\ Equals(v, set[k]) = IF SameAs(set[k], ClearSlot(v)) THEN "yes" ELSE "no"
  BY MembersEqual
<1>2. \A k \in DOMAIN set : /\ f[k] \in {"yes", "no"} /\ g[k] \in {"yes", "no"}
                            /\ f[k] = "yes" <=> SameAs(set[k], ClearSlot(v))
                            /\ g[k] = "yes" <=> SameAs(set[k], ClearSlot(v))
  <2> SUFFICES ASSUME NEW k \in DOMAIN set
               PROVE  /\ f[k] \in {"yes", "no"} /\ g[k] \in {"yes", "no"}
                      /\ f[k] = "yes" <=> SameAs(set[k], ClearSlot(v))
                      /\ g[k] = "yes" <=> SameAs(set[k], ClearSlot(v))
    OBVIOUS
  <2>1. f[k] = IF SameAs(set[k], ClearSlot(v)) THEN "yes" ELSE "no"
    BY <1>1
  <2>2. g[k] = IF SameAs(set[k], ClearSlot(v)) THEN "yes" ELSE "no"
    BY <1>1
  <2> HIDE DEF f, g
  <2> QED BY <2>1, <2>2
<1>3. DOMAIN f = DOMAIN set /\ DOMAIN g = DOMAIN set
  OBVIOUS
<1>4. EvalContains(set, v) = Outcome(Scan(f)) /\ FoundIn(v, set) = Scan(g)
  BY DEF EvalContains, FoundIn
<1> HIDE DEF f, g
<1>5. has <=> \E k \in DOMAIN set : SameAs(set[k], ClearSlot(v))
  BY DEF Elements
<1>6. Scan(f) = IF \E k \in DOMAIN f : f[k] = "yes" THEN "yes" ELSE "no"
  BY <1>2, <1>3, ScanFinds
<1>7. Scan(g) = IF \E k \in DOMAIN g : g[k] = "yes" THEN "yes" ELSE "no"
  BY <1>2, <1>3, ScanFinds
<1> HIDE DEF has
<1>8. Scan(f) = IF has THEN "yes" ELSE "no"
  BY <1>2, <1>3, <1>5, <1>6
<1>9. Scan(g) = IF has THEN "yes" ELSE "no"
  BY <1>2, <1>3, <1>5, <1>7
<1> QED BY <1>4, <1>8, <1>9, OutcomeTruth DEF has

(* containsAll and containsAny are the quantifiers over the argument.      *)
LEMMA SetsMean ==
  ASSUME NEW set, DOMAIN set \subseteq Nat, \A k \in DOMAIN set : Member(set[k]),
         NEW arg, DOMAIN arg \subseteq Nat, \A k \in DOMAIN arg : Member(arg[k])
  PROVE  LET Has(v) == \E w \in Elements(set) : SameAs(w, v) IN
         /\ EvalContainsAll(set, arg) = Truth(\A v \in Elements(arg) : Has(v))
         /\ EvalContainsAny(set, arg) = Truth(\E v \in Elements(arg) : Has(v))
<1> DEFINE Has(v) == \E w \in Elements(set) : SameAs(w, v)
           all == \A v \in Elements(arg) : Has(v)
           some == \E v \in Elements(arg) : Has(v)
           f == [k \in DOMAIN arg |-> FoundIn(arg[k], set)]
           misses == {k \in DOMAIN arg : FoundIn(arg[k], set) # "yes"}
<1>1. ASSUME NEW k \in DOMAIN arg
      PROVE  FoundIn(arg[k], set) = IF Has(arg[k]) THEN "yes" ELSE "no"
  <2> DEFINE v == arg[k]
  <2>1. Sound(v) /\ ClearSlot(v) = v /\ v \in Comparable
    BY DEF Member
  <2> HIDE DEF v
  <2>2. FoundIn(v, set) = IF \E w \in Elements(set) : SameAs(w, ClearSlot(v)) THEN "yes" ELSE "no"
    BY <2>1, FoundMeans
  <2> QED BY <2>1, <2>2 DEF v
<1> HIDE DEF Has
<1>2. \A k \in DOMAIN arg : f[k] \in {"yes", "no"} /\ (f[k] = "yes" <=> Has(arg[k]))
  <2> SUFFICES ASSUME NEW k \in DOMAIN arg
               PROVE  f[k] \in {"yes", "no"} /\ (f[k] = "yes" <=> Has(arg[k]))
    OBVIOUS
  <2>1. f[k] = IF Has(arg[k]) THEN "yes" ELSE "no"
    BY <1>1
  <2> HIDE DEF f
  <2> QED BY <2>1
<1>3. EvalContainsAny(set, arg) = Truth(some)
  <2>1. EvalContainsAny(set, arg) = Outcome(Scan(f))
    BY DEF EvalContainsAny
  <2>2. DOMAIN f = DOMAIN arg
    OBVIOUS
  <2>3. some <=> \E k \in DOMAIN arg : Has(arg[k])
    BY DEF Elements
  <2> HIDE DEF f, some
  <2>4. Scan(f) = IF \E k \in DOMAIN f : f[k] = "yes" THEN "yes" ELSE "no"
    BY <1>2, <2>2, ScanFinds
  <2>5. Scan(f) = IF some THEN "yes" ELSE "no"
    BY <1>2, <2>2, <2>3, <2>4
  <2> QED BY <2>1, <2>5, OutcomeTruth
<1>4. EvalContainsAll(set, arg) = Truth(all)
  <2>1. EvalContainsAll(set, arg) =
          IF misses = {} THEN Bool(TRUE) ELSE Outcome(FoundIn(arg[First(misses)], set))
    BY DEF EvalContainsAll
  <2>2. \A k \in DOMAIN arg : k \in misses <=> ~Has(arg[k])
    BY <1>1
  <2>3. all <=> \A k \in DOMAIN arg : Has(arg[k])
    BY DEF Elements
  <2>4. misses \subseteq DOMAIN arg /\ misses \subseteq Nat
    OBVIOUS
  <2> HIDE DEF misses, all
  <2>5. CASE misses = {}
    BY <2>1, <2>2, <2>3, <2>5 DEF Truth
  <2>6. CASE misses # {}
    <3>1. First(misses) \in misses
      BY <2>4, <2>6, FirstIn
    <3>2. First(misses) \in DOMAIN arg /\ ~Has(arg[First(misses)]) /\ ~all
      BY <2>2, <2>3, <2>4, <3>1
    <3>3. FoundIn(arg[First(misses)], set) = "no"
      BY <1>1, <3>2
    <3>4. Outcome("no") = Bool(FALSE)
      <4>1. ("no" = "yes") = FALSE /\ "no" # "error"
        OBVIOUS
      <4> QED BY <4>1 DEF Outcome
    <3> QED BY <2>1, <2>6, <3>2, <3>3, <3>4 DEF Truth
  <2> QED BY <2>5, <2>6
<1> QED BY <1>3, <1>4 DEF Has

-------------------------------------------------------------------------------
(* Methods                                                                 *)

(* Which receivers and arguments no method takes                           *)
LEMMA TakesOne ==
  ASSUME NEW method, NEW m, Len(m) = 1, method # "isEmpty",
         m[1].type \notin {"DATETIME", "DURATION", "IP"}
  PROVE  ~Takes(method, m)
<1>1. \A s, t : ~Both(m, s, t)
  BY DEF Both
<1>2. ~Alone(m, "DATETIME") /\ ~Alone(m, "DURATION") /\ ~Alone(m, "IP") /\ Len(m) # 2
  BY DEF Alone
<1> QED BY <1>1, <1>2 DEF Takes

LEMMA TakesTwo ==
  ASSUME NEW method, NEW m, Len(m) = 2, Takes(method, m)
  PROVE  \/ method = "contains" /\ m[1].type = "SET"
         \/ method \in {"containsAll", "containsAny"} /\ m[1].type = "SET" /\ m[2].type = "SET"
         \/ method = "isInRange" /\ m[1].type = "IP" /\ m[2].type = "IP"
         \/ /\ method \in {"lessThan", "lessThanOrEqual", "greaterThan", "greaterThanOrEqual"}
            /\ m[1].type = "DECIMAL" /\ m[2].type = "DECIMAL"
         \/ method = "offset" /\ m[1].type = "DATETIME" /\ m[2].type = "DURATION"
         \/ method = "durationSince" /\ m[1].type = "DATETIME" /\ m[2].type = "DATETIME"
<1>1. \A s : ~Alone(m, s)
  BY DEF Alone
<1>2. \A s, t : Both(m, s, t) => m[1].type = s /\ m[2].type = t
  BY DEF Both
<1> QED BY <1>1, <1>2 DEF Takes

(* A method without an argument, by the type of its receiver               *)
LEMMA MethodAlone ==
  ASSUME NEW method \in Methods, NEW a, Sound(a), a.type # "ERROR",
         NEW W, NEW m \in Seq(W), Len(m) = 1, m[1] = ClearSlot(a)
  PROVE  EvalMethod(method, a) = MethodMeaning(method, m)
<1>1. m = <<m[1]>>
  OBVIOUS
<1>2. m[1].type = a.type /\ (a.type # "ENTITY" => m[1] = a)
  BY Cleared
<1>3. CASE method = "isEmpty"
  <2>1. Takes(method, m) <=> a.type = "SET"
    <3>1. Takes(method, m) = Alone(m, "SET")
      BY <1>3 DEF Takes
    <3> QED BY <1>2, <3>1 DEF Alone
  <2>2. CASE a.type = "SET"
    <3> DEFINE b == a.elts = <<>>
    <3>1. MethodMeaning(method, m) = Truth(m[1].elts = <<>>)
      BY <1>3, <2>1, <2>2 DEF MethodMeaning
    <3>2. MethodMeaning(method, m) = Truth(b)
      BY <1>2, <2>2, <3>1
    <3>3. EvalMethod(method, a) = Bool(b)
      BY <1>3, <2>2 DEF EvalMethod
    <3>4. b \in BOOLEAN
      OBVIOUS
    <3> HIDE DEF b
    <3> QED BY <3>2, <3>3, <3>4, TruthBool
  <2>3. CASE a.type # "SET"
    <3>1. MethodMeaning(method, m) = Error
      BY <2>1, <2>3 DEF MethodMeaning
    <3>2. EvalMethod(method, a) = Error
      BY <1>3, <2>3 DEF EvalMethod
    <3> QED BY <3>1, <3>2
  <2> QED BY <2>2, <2>3
<1>4. CASE method # "isEmpty" /\ a.type \in {"DATETIME", "DURATION"}
  <2>1. Deep(a)
    BY <1>4 DEF Sound, Entity
  <2>2. a \in Plain
    BY <1>4, <2>1, DeepFacts DEF Numeric, Ordered
  <2>3. a.n \in MinLong..MaxLong /\ a = [type |-> a.type, n |-> a.n]
    BY <1>4, <2>2 DEF Plain, Error, Numeric, Ordered
  <2>4. m[1] = a
    BY <1>2, <1>4
  <2>5. CASE a.type = "DATETIME"
    <3>1. a = [type |-> "DATETIME", n |-> a.n]
      BY <2>3, <2>5
    <3>2. AskDatetime(method, a.n) = MethodMeaning(method, <<[type |-> "DATETIME", n |-> a.n]>>)
      BY <2>3, ExtensionAssumption
    <3>3. EvalMethod(method, a) = AskDatetime(method, a.n)
      BY <1>4, <2>5 DEF EvalMethod
    <3> QED BY <1>1, <2>4, <3>1, <3>2, <3>3
  <2>6. CASE a.type = "DURATION"
    <3>1. a = [type |-> "DURATION", n |-> a.n]
      BY <2>3, <2>6
    <3>2. AskDuration(method, a.n) = MethodMeaning(method, <<[type |-> "DURATION", n |-> a.n]>>)
      BY <2>3, ExtensionAssumption
    <3>3. EvalMethod(method, a) = AskDuration(method, a.n)
      BY <1>4, <2>6 DEF EvalMethod
    <3> QED BY <1>1, <2>4, <3>1, <3>2, <3>3
  <2> QED BY <1>4, <2>5, <2>6
<1>5. CASE method # "isEmpty" /\ a.type = "IP"
  <2>1. a \in Addresses
    BY <1>5, DeepFacts DEF Sound, Entity, Addresses
  <2>2. EvalMethod(method, a) = AskIp(method, a)
    BY <1>5 DEF EvalMethod
  <2>3. m = <<a>>
    BY <1>1, <1>2, <1>5
  <2>4. AskIp(method, a) = MethodMeaning(method, <<a>>)
    BY <2>1, ExtensionAssumption
  <2> QED BY <2>2, <2>3, <2>4
<1>6. CASE method # "isEmpty" /\ a.type \notin {"DATETIME", "DURATION", "IP"}
  <2>1. ~Takes(method, m)
    BY <1>2, <1>6, TakesOne
  <2>2. EvalMethod(method, a) = Error
    BY <1>6 DEF EvalMethod
  <2> QED BY <2>1, <2>2 DEF MethodMeaning
<1> QED BY <1>3, <1>4, <1>5, <1>6

\* The elements of a set are values as sets hold them.
LEMMA ElementsFacts ==
  ASSUME NEW a, Sound(a), a.type = "SET", Elements(a.elts) \subseteq Comparable \cup {Error}
  PROVE  /\ DOMAIN a.elts \subseteq Nat
         /\ \A k \in DOMAIN a.elts : Member(a.elts[k])
<1>1. Deep(a)
  BY DEF Sound, Entity
<1>2. Contents(a) = a.elts
  BY DEF Contents
<1>3. PICK W : a.elts \in Seq(W)
  BY <1>1, <1>2, DeepFacts
<1>4. ASSUME NEW k \in DOMAIN a.elts PROVE Member(a.elts[k])
  <2> DEFINE v == a.elts[k]
  <2>1. Deep(v) /\ v.type # "ERROR"
    BY <1>1, <1>2, DeepFacts
  <2>2. v \in Comparable \cup {Error}
    BY DEF Elements
  <2> HIDE DEF v
  <2>3. v # Error
    BY <2>1 DEF Error
  <2>4. Member(v)
    BY <2>1, <2>2, <2>3, DeepCleared DEF Member, Sound
  <2> QED BY <2>4 DEF v
<1> QED BY <1>3, <1>4

(* contains, containsAll and containsAny                                   *)
LEMMA SetMethodMeans ==
  ASSUME NEW method \in {"contains", "containsAll", "containsAny"},
         NEW n, n.op = "method", n.method = method,
         NEW a, NEW b, Sound(a), Sound(b), a.type # "ERROR", b.type # "ERROR",
         NEW m, Len(m) = 2, m[1] = ClearSlot(a), m[2] = ClearSlot(b),
         Comparands(n, m) \subseteq Comparable \cup {Error}
  PROVE  EvalSetMethod(method, a, b) = MethodMeaning(method, m)
<1>1. /\ m[1].type = a.type /\ (a.type # "ENTITY" => m[1] = a)
      /\ m[2].type = b.type /\ (b.type # "ENTITY" => m[2] = b)
  BY Cleared
<1>2. CASE method = "contains"
  <2>1. Takes(method, m) <=> a.type = "SET"
    <3>1. Takes(method, m) <=> Len(m) = 2 /\ m[1].type = "SET"
      BY <1>2 DEF Takes
    <3> QED BY <1>1, <3>1
  <2>2. CASE a.type = "SET"
    <3> DEFINE has == \E w \in Elements(a.elts) : SameAs(w, ClearSlot(b))
    <3>1. Comparands(n, m) = Elements(a.elts) \cup {m[2]}
      BY <1>1, <1>2, <2>1, <2>2 DEF Comparands
    <3>2. DOMAIN a.elts \subseteq Nat /\ \A k \in DOMAIN a.elts : Member(a.elts[k])
      BY <2>2, <3>1, ElementsFacts
    <3>3. ClearSlot(b) \in Comparable
      <4>1. m[2] # Error
        BY Cleared
      <4> QED BY <3>1, <4>1
    <3>4. EvalContains(a.elts, b) = Truth(has)
      BY <3>2, <3>3, FoundMeans
    <3>5. MethodMeaning(method, m) = Truth(\E w \in Elements(m[1].elts) : SameAs(w, m[2]))
      BY <1>2, <2>1, <2>2 DEF MethodMeaning
    <3>6. MethodMeaning(method, m) = Truth(has)
      BY <1>1, <2>2, <3>5
    <3>7. EvalSetMethod(method, a, b) = EvalContains(a.elts, b)
      BY <1>2, <2>2 DEF EvalSetMethod
    <3> HIDE DEF has
    <3> QED BY <3>4, <3>6, <3>7
  <2>3. CASE a.type # "SET"
    BY <2>1, <2>3 DEF MethodMeaning, EvalSetMethod
  <2> QED BY <2>2, <2>3
<1>3. CASE method # "contains"
  <2>1. Takes(method, m) <=> a.type = "SET" /\ b.type = "SET"
    <3>1. Takes(method, m) = Both(m, "SET", "SET")
      BY <1>3 DEF Takes
    <3> QED BY <1>1, <3>1 DEF Both
  <2>2. CASE a.type = "SET" /\ b.type = "SET"
    <3> DEFINE Has(v) == \E w \in Elements(a.elts) : SameAs(w, v)
               all == \A v \in Elements(b.elts) : Has(v)
               some == \E v \in Elements(b.elts) : Has(v)
    <3>0. m[1] = a /\ m[2] = b
      BY <1>1, <2>2
    <3>1. Comparands(n, m) = Elements(a.elts) \cup Elements(b.elts)
      BY <1>3, <2>1, <2>2, <3>0 DEF Comparands
    <3>2. /\ DOMAIN a.elts \subseteq Nat /\ \A k \in DOMAIN a.elts : Member(a.elts[k])
          /\ DOMAIN b.elts \subseteq Nat /\ \A k \in DOMAIN b.elts : Member(b.elts[k])
      BY <2>2, <3>1, ElementsFacts
    <3>3. /\ EvalContainsAll(a.elts, b.elts) = Truth(all)
          /\ EvalContainsAny(a.elts, b.elts) = Truth(some)
      BY <3>2, SetsMean
    <3>4. CASE method = "containsAll"
      <4>1. MethodMeaning(method, m) = Truth(all)
        BY <2>1, <2>2, <3>0, <3>4 DEF MethodMeaning
      <4>2. EvalSetMethod(method, a, b) = EvalContainsAll(a.elts, b.elts)
        BY <2>2, <3>4 DEF EvalSetMethod
      <4> HIDE DEF all
      <4> QED BY <3>3, <4>1, <4>2
    <3>5. CASE method = "containsAny"
      <4>1. MethodMeaning(method, m) = Truth(some)
        BY <2>1, <2>2, <3>0, <3>5 DEF MethodMeaning
      <4>2. EvalSetMethod(method, a, b) = EvalContainsAny(a.elts, b.elts)
        BY <2>2, <3>5 DEF EvalSetMethod
      <4> HIDE DEF some
      <4> QED BY <3>3, <4>1, <4>2
    <3> QED BY <1>3, <3>4, <3>5
  <2>3. CASE ~(a.type = "SET" /\ b.type = "SET")
    BY <1>3, <2>1, <2>3 DEF MethodMeaning, EvalSetMethod
  <2> QED BY <2>2, <2>3
<1> QED BY <1>2, <1>3

(* The methods that order decimals                                         *)
LEMMA DecimalMeans ==
  ASSUME NEW method \in DOMAIN DecimalRelation, NEW m, Len(m) = 2,
         m[1].type = "DECIMAL", m[2].type = "DECIMAL", m[1].n \in Int, m[2].n \in Int
  PROVE  MethodMeaning(method, m) = Bool(Relates(DecimalRelation[method], m[1].n, m[2].n))
<1> DEFINE x == m[1].n
           y == m[2].n
<1>1. method \in {"lessThan", "lessThanOrEqual", "greaterThan", "greaterThanOrEqual"}
  BY DEF DecimalRelation
<1>2. Takes(method, m)
  <2>1. Both(m, "DECIMAL", "DECIMAL")
    BY DEF Both
  <2>2. Takes(method, m) = Both(m, "DECIMAL", "DECIMAL")
    BY <1>1 DEF Takes
  <2> QED BY <2>1, <2>2
<1>3. CASE method = "lessThan"
  <2> DEFINE b == x < y
  <2>1. MethodMeaning(method, m) = Truth(b)
    BY <1>2, <1>3 DEF MethodMeaning
  <2>2. Relates(DecimalRelation[method], x, y) = b
    BY <1>3 DEF DecimalRelation, Relates
  <2>3. b \in BOOLEAN
    OBVIOUS
  <2> HIDE DEF b
  <2> QED BY <2>1, <2>2, <2>3, TruthBool
<1>4. CASE method = "lessThanOrEqual"
  <2> DEFINE b == x <= y
  <2>1. MethodMeaning(method, m) = Truth(b)
    BY <1>2, <1>4 DEF MethodMeaning
  <2>2. Relates(DecimalRelation[method], x, y) = b
    BY <1>4 DEF DecimalRelation, Relates
  <2>3. b \in BOOLEAN
    OBVIOUS
  <2> HIDE DEF b
  <2> QED BY <2>1, <2>2, <2>3, TruthBool
<1>5. CASE method = "greaterThan"
  <2> DEFINE b == x > y
  <2>1. MethodMeaning(method, m) = Truth(b)
    BY <1>2, <1>5 DEF MethodMeaning
  <2>2. Relates(DecimalRelation[method], x, y) = b
    BY <1>5 DEF DecimalRelation, Relates
  <2>3. b \in BOOLEAN
    OBVIOUS
  <2> HIDE DEF b
  <2> QED BY <2>1, <2>2, <2>3, TruthBool
<1>6. CASE method = "greaterThanOrEqual"
  <2> DEFINE b == x >= y
  <2>1. MethodMeaning(method, m) = Truth(b)
    BY <1>2, <1>6 DEF MethodMeaning
  <2>2. Relates(DecimalRelation[method], x, y) = b
    BY <1>6 DEF DecimalRelation, Relates
  <2>3. b \in BOOLEAN
    OBVIOUS
  <2> HIDE DEF b
  <2> QED BY <2>1, <2>2, <2>3, TruthBool
<1> QED BY <1>1, <1>3, <1>4, <1>5, <1>6

(* A method with an argument, by the types of the two                      *)
LEMMA MethodBoth ==
  ASSUME NEW n, n.op = "method", NEW method \in Methods, n.method = method,
         NEW a, NEW b, Sound(a), Sound(b), a.type # "ERROR", b.type # "ERROR",
         NEW W, NEW m \in Seq(W), Len(m) = 2, m[1] = ClearSlot(a), m[2] = ClearSlot(b),
         Comparands(n, m) \subseteq Comparable \cup {Error}
  PROVE  EvalMethodWith(method, a, b) = MethodMeaning(method, m)
<1> DEFINE ofSets == method \in {"contains", "containsAll", "containsAny"}
<1>1. m = <<m[1], m[2]>>
  OBVIOUS
<1>2. /\ m[1].type = a.type /\ (a.type # "ENTITY" => m[1] = a)
      /\ m[2].type = b.type /\ (b.type # "ENTITY" => m[2] = b)
  BY Cleared
<1>3. CASE ofSets
  <2>1. EvalMethodWith(method, a, b) = EvalSetMethod(method, a, b)
    BY <1>3 DEF EvalMethodWith
  <2> QED BY <1>3, <2>1, SetMethodMeans
<1>4. CASE method = "isInRange" /\ a.type = "IP" /\ b.type = "IP"
  <2>1. {a.type, b.type} = {"IP"}
    BY <1>4
  <2>2. EvalMethodWith(method, a, b) = Bool(InIpRange(a, b))
    BY <1>4, <2>1 DEF EvalMethodWith
  <2>3. a \in Addresses /\ b \in Addresses
    BY <1>4, DeepFacts DEF Sound, Entity, Addresses
  <2>4. Bool(InIpRange(a, b)) = MethodMeaning("isInRange", <<a, b>>)
    BY <2>3, ExtensionAssumption
  <2>5. m = <<a, b>>
    BY <1>1, <1>2, <1>4
  <2> QED BY <1>4, <2>2, <2>4, <2>5
<1>5. CASE method = "isInRange" /\ ~(a.type = "IP" /\ b.type = "IP")
  <2>1. {a.type, b.type} # {"IP"}
    BY <1>5
  <2>2. EvalMethodWith(method, a, b) = Error
    BY <1>5, <2>1 DEF EvalMethodWith
  <2>3. ~Takes(method, m)
    BY <1>2, <1>5, TakesTwo
  <2> QED BY <2>2, <2>3 DEF MethodMeaning
<1>6. CASE /\ ~ofSets /\ method # "isInRange" /\ a.type = "DATETIME"
           /\ b.type \in {"DATETIME", "DURATION"}
  <2>1. EvalMethodWith(method, a, b) = AskDatetimeWith(method, a.n, b)
    BY <1>6 DEF EvalMethodWith
  <2>2. Deep(a) /\ Deep(b)
    BY <1>6 DEF Sound, Entity
  <2>3. a \in Plain /\ b \in Plain
    BY <1>6, <2>2, DeepFacts DEF Numeric, Ordered
  <2>4. a.n \in MinLong..MaxLong /\ a = [type |-> "DATETIME", n |-> a.n]
    BY <1>6, <2>3 DEF Plain, Error, Numeric, Ordered
  <2>5. b \in [type : {"DATETIME", "DURATION"}, n : MinLong..MaxLong]
    BY <1>6, <2>3 DEF Plain, Error, Numeric, Ordered
  <2>6. AskDatetimeWith(method, a.n, b)
          = MethodMeaning(method, <<[type |-> "DATETIME", n |-> a.n], b>>)
    BY <2>4, <2>5, ExtensionAssumption
  <2>7. m = <<a, b>>
    BY <1>1, <1>2, <1>6
  <2> QED BY <2>1, <2>4, <2>6, <2>7
<1>7. CASE /\ ~ofSets /\ method # "isInRange" /\ a.type = "DATETIME"
           /\ b.type \notin {"DATETIME", "DURATION"}
  <2>1. EvalMethodWith(method, a, b) = Error
    BY <1>7 DEF EvalMethodWith
  <2>2. ~Takes(method, m)
    BY <1>2, <1>7, TakesTwo
  <2> QED BY <2>1, <2>2 DEF MethodMeaning
<1>8. CASE /\ ~ofSets /\ method # "isInRange"
           /\ a.type = "DECIMAL" /\ b.type = "DECIMAL" /\ method \in DOMAIN DecimalRelation
  <2>1. {a.type, b.type} = {"DECIMAL"}
    BY <1>8
  <2>2. EvalMethodWith(method, a, b) = Bool(Relates(DecimalRelation[method], a.n, b.n))
    BY <1>8, <2>1 DEF EvalMethodWith
  <2>3. a.n \in Int /\ b.n \in Int
    BY <1>8, NumberFacts DEF Numeric
  <2>4. m[1] = a /\ m[2] = b
    BY <1>2, <1>8
  <2>5. MethodMeaning(method, m) = Bool(Relates(DecimalRelation[method], m[1].n, m[2].n))
    BY <1>8, <2>3, <2>4, DecimalMeans
  <2> QED BY <2>2, <2>4, <2>5
<1>9. CASE /\ ~ofSets /\ method # "isInRange" /\ a.type # "DATETIME"
           /\ ~(a.type = "DECIMAL" /\ b.type = "DECIMAL" /\ method \in DOMAIN DecimalRelation)
  <2>1. ~({a.type, b.type} = {"DECIMAL"} /\ method \in DOMAIN DecimalRelation)
    BY <1>9
  <2>2. EvalMethodWith(method, a, b) = Error
    BY <1>9, <2>1 DEF EvalMethodWith
  <2>3. DOMAIN DecimalRelation =
          {"lessThan", "lessThanOrEqual", "greaterThan", "greaterThanOrEqual"}
    BY DEF DecimalRelation
  <2>4. ~Takes(method, m)
    BY <1>2, <1>9, <2>3, TakesTwo
  <2> QED BY <2>2, <2>4 DEF MethodMeaning
<1> QED BY <1>3, <1>4, <1>5, <1>6, <1>7, <1>8, <1>9

(* Method calls                                                            *)
LEMMA MethodMeans ==
  ASSUME NEW n \in Node, n.op = "method", NEW vals, Tells(n, vals),
         Comparands(n, OperandMeanings(n, ctx)) \subseteq Comparable \cup {Error}
  PROVE  ClearSlot(Result(n, vals)) = Meaning(n, ctx)
<1>1. Strict(n) /\ Operands(n) = n.kids /\ Len(n.kids) \in {1, 2}
  BY NodeAssumption DEF Strict, Operands, Arity
<1> DEFINE m == OperandMeanings(n, ctx)
           a == vals[1]
           b == vals[2]
<1>2. n.method \in Methods
  BY DEF Methods
<1>3. ASSUME ~Failed(vals) PROVE ClearSlot(Value(n, vals)) = StrictMeaning(n, m, ctx)
  <2>1. Value(n, vals) = EvalMethodCall(n.method, vals)
        /\ StrictMeaning(n, m, ctx) = MethodMeaning(n.method, m)
    BY DEF Value, StrictMeaning
  <2>2. PICK W : m \in Seq(W)
    BY OperandMeaningsFacts
  <2>3. \A k \in 1..Len(n.kids) : vals[k].type # "ERROR"
    BY <1>1, <1>3, StrictFacts
  <2>4. CASE Len(n.kids) = 1
    <3>1. Sound(a) /\ m[1] = ClearSlot(a) /\ Len(vals) = 1 /\ Len(m) = 1
      BY <1>1, <1>3, <2>4, OneOperand
    <3>2. a.type # "ERROR"
      BY <2>3, <2>4
    <3>3. EvalMethodCall(n.method, vals) = EvalMethod(n.method, a)
      BY <3>1 DEF EvalMethodCall
    <3> HIDE DEF a, m
    <3>4. EvalMethod(n.method, a) = MethodMeaning(n.method, m)
      BY <1>2, <2>2, <3>1, <3>2, MethodAlone
    <3>5. EvalMethod(n.method, a) \in Plain
      BY <1>2, <3>1, MethodPlain
    <3> QED BY <2>1, <3>3, <3>4, <3>5, PlainCleared
  <2>5. CASE Len(n.kids) = 2
    <3>1. /\ Sound(a) /\ m[1] = ClearSlot(a) /\ Sound(b) /\ m[2] = ClearSlot(b)
          /\ Len(vals) = 2 /\ Len(m) = 2
      BY <1>1, <1>3, <2>5, TwoOperands
    <3>2. a.type # "ERROR" /\ b.type # "ERROR"
      BY <2>3, <2>5
    <3>3. EvalMethodCall(n.method, vals) = EvalMethodWith(n.method, a, b)
      BY <3>1 DEF EvalMethodCall
    <3>4. Comparands(n, m) \subseteq Comparable \cup {Error}
      OBVIOUS
    <3> HIDE DEF a, b, m
    <3>5. EvalMethodWith(n.method, a, b) = MethodMeaning(n.method, m)
      BY <1>2, <2>2, <3>1, <3>2, <3>4, MethodBoth
    <3>6. EvalMethodWith(n.method, a, b) \in Plain
      BY <1>2, <3>1, MethodWithPlain
    <3> QED BY <2>1, <3>3, <3>5, <3>6, PlainCleared
  <2> QED BY <1>1, <2>4, <2>5
<1> QED BY <1>1, <1>3, StrictCase

-------------------------------------------------------------------------------
(* One node means what it makes of operands that have the values they mean.*)
LEMMA NodeMeans ==
  ASSUME NEW n \in Node, NEW vals, Tells(n, vals), ctx \in Context, Consistent(ctx),
         Covered(ctx)[n]
  PROVE  ClearSlot(Result(n, vals)) = Meaning(n, ctx)
<1>1. /\ AsksNamedEntities(n, ctx)
      /\ Comparands(n, OperandMeanings(n, ctx)) \subseteq Comparable \cup {Error}
  BY CoveredSteps
<1>2. CASE n.op \in {"lit", "ext", "entity_ref", "var"}
  BY <1>2, LeafMeans
<1>3. CASE n.op \in {"attr", "has"}
  BY <1>1, <1>3, AccessMeans
<1>4. CASE n.op \in {"set", "record"}
  BY <1>4, LiteralMeans
<1>5. CASE n.op \in {"and", "or"}
  BY <1>5, LogicMeans
<1>6. CASE n.op \in {"eq", "ne"}
  BY <1>1, <1>6, EqualityMeans
<1>7. CASE n.op \in {"not", "neg", "like"}
  BY <1>7, UnaryMeans
<1>8. CASE n.op = "in"
  BY <1>1, <1>8, InsideMeans
<1>9. CASE n.op = "cmp"
  BY <1>9, ComparesMean
<1>10. CASE n.op = "arith"
  BY <1>10, ArithMeans
<1>11. CASE n.op = "method"
  BY <1>1, <1>11, MethodMeans
<1>12. CASE n.op = "is"
  BY <1>1, <1>12, IsMeans
<1>13. CASE n.op = "ite"
  BY <1>13, IfMeans
<1>14. n.op \in {"lit", "ext", "entity_ref", "var", "attr", "has", "set", "record",
                 "and", "or", "ite", "eq", "ne", "in", "cmp", "arith", "not", "neg",
                 "like", "method", "is"}
  BY NodeAssumption DEF Arity
<1> QED BY <1>2, <1>3, <1>4, <1>5, <1>6, <1>7, <1>8, <1>9, <1>10, <1>11, <1>12, <1>13, <1>14

(* So what a condition evaluates to is what it means, by induction on the  *)
(* rank of its entry in the table.                                         *)
LEMMA EvaluatesMeaning ==
  ASSUME NEW n, NEW v, Evaluates(n, v), ctx \in Context, Consistent(ctx), Covered(ctx)[n]
  PROVE  ClearSlot(v) = Meaning(n, ctx)
<1>1. PICK R, i : Table(R) /\ <<n, v, i>> \in R
  BY DEF Evaluates
<1> DEFINE P == {k \in Nat : \A m, x :
                   <<m, x, k>> \in R /\ Covered(ctx)[m] => ClearSlot(x) = Meaning(m, ctx)}
<1>2. 0 \in P
  <2> SUFFICES ASSUME NEW m, NEW x, <<m, x, 0>> \in R PROVE FALSE
    OBVIOUS
  <2>1. 0 \in Nat \ {0}
    BY <1>1, TableEntry
  <2> QED BY <2>1
<1>3. ASSUME NEW k \in Nat, k \in P PROVE k + 1 \in P
  <2> SUFFICES ASSUME NEW m, NEW x, <<m, x, k + 1>> \in R, Covered(ctx)[m]
               PROVE  ClearSlot(x) = Meaning(m, ctx)
    OBVIOUS
  <2>1. m \in Node /\ Justified(m, x, k, R)
    <3>1. m \in Node /\ Justified(m, x, (k + 1) - 1, R)
      BY <1>1, TableEntry
    <3>2. (k + 1) - 1 = k
      OBVIOUS
    <3> QED BY <3>1, <3>2
  <2>2. PICK vals : Reads(m, vals, R, k) /\ Awaited(m, vals) = {} /\ x = Result(m, vals)
    BY <2>1 DEF Justified
  <2>3. \A p, q : <<p, q, k>> \in R /\ Covered(ctx)[p] => ClearSlot(q) = Meaning(p, ctx)
    BY <1>3
  <2> HIDE DEF P
  <2>4. \A j \in DOMAIN m.kids : Covered(ctx)[m.kids[j]]
    BY <2>1, CoveredSteps
  <2>5. ASSUME NEW j \in DOMAIN vals
        PROVE  /\ Sound(vals[j]) /\ Evaluates(m.kids[Held(m, vals, j)], vals[j])
               /\ ClearSlot(vals[j]) = Meaning(m.kids[Held(m, vals, j)], ctx)
    <3>1. <<m.kids[Held(m, vals, j)], vals[j], k>> \in R
      BY <2>2 DEF Reads
    <3>2. Held(m, vals, j) \in DOMAIN m.kids
      <4>1. CASE m.op = "ite" /\ j = 2
        <5>1. Len(m.kids) = 3 /\ m.kids \in Seq(Node)
          BY <2>1, <4>1, NodeAssumption DEF Arity
        <5>2. 2 \in DOMAIN m.kids /\ 3 \in DOMAIN m.kids
          BY <5>1
        <5> QED BY <4>1, <5>2 DEF Held
      <4>2. CASE ~(m.op = "ite" /\ j = 2)
        <5>1. Held(m, vals, j) = j
          BY <4>2 DEF Held
        <5>2. PICK V : vals \in Seq(V)
          BY <2>2 DEF Reads
        <5>3. /\ DOMAIN vals = 1..Len(vals) /\ Len(vals) \in Nat
              /\ Len(vals) <= Len(Operands(m)) /\ Operands(m) \in Seq(Node)
              /\ DOMAIN Operands(m) \subseteq DOMAIN m.kids
          BY <2>1, <2>2, <5>2, OperandsFacts DEF Reads
        <5>4. j \in DOMAIN Operands(m)
          BY <2>5, <5>3
        <5> QED BY <5>1, <5>3, <5>4
      <4> QED BY <4>1, <4>2
    <3>3. ClearSlot(vals[j]) = Meaning(m.kids[Held(m, vals, j)], ctx)
      BY <2>3, <2>4, <3>1, <3>2
    <3>4. Sound(vals[j])
      BY <1>1, <3>1, TableEntry
    <3> QED BY <1>1, <3>1, <3>3, <3>4 DEF Evaluates
  <2>6. Tells(m, vals)
    BY <2>2, <2>5 DEF Tells, Decides, Reads
  <2> QED BY <2>1, <2>2, <2>6, NodeMeans
<1>4. Nat \subseteq P
  <2> HIDE DEF P
  <2> QED BY <1>2, <1>3, Induction
<1>5. i \in P
  <2>1. i \in Nat
    BY <1>1, TableEntry
  <2> QED BY <1>4, <2>1
<1> QED BY <1>1, <1>5

(* Whatever the condition, the context and the limits, a condition that is *)
(* covered and whose evaluation met no fault yields what it means: short   *)
(* circuits, slot tags, the two ways to look an attribute up and the order *)
(* in which sets are searched change nothing (expr.c:879-897, 1119-1340,   *)
(* 1625-1729, 1837-1929, 2086-2391).                                       *)
THEOREM AnswersMean == Spec => []AnswerMeans
<1>1. IInv /\ SoundInv /\ Worked => AnswerMeans
  <2> SUFFICES ASSUME SoundInv, Worked, NEW n \in root, NEW v \in answer,
                      fault = "none", Consistent(ctx), Covered(ctx)[n]
               PROVE  ClearSlot(v) = Meaning(n, ctx)
    BY DEF AnswerMeans
  <2>1. ctx \in Context /\ Evaluates(n, v)
    BY DEF SoundInv, Worked, Answered, Evaluates
  <2> QED BY <2>1, EvaluatesMeaning
<1> QED BY <1>1, Working, PTL
================================================================================
