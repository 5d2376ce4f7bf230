--------------------------- MODULE EvalContextProofs ---------------------------
(***************************************************************************)
(* Proofs that every instance of EvalContext, whatever calls build a       *)
(* context and whichever allocations fail, keeps attribute names unique,   *)
(* its containers a forest and their depth within the ceiling.             *)
(***************************************************************************)
EXTENDS EvalContext, Induction

(* What a call may push to: a root, or an array whose handle it has.       *)
Open(a) == a \in Root \cup handles

(* Arrays that no call can reach are empty, and only roots are entities.   *)
Fresh ==
  /\ \A n \in Node : n \notin handles => elems[n] = <<>>
  /\ \A n \in handles : kind[n] # "free"
  /\ \A n \in Node : kind[n] # "entity"
  /\ \A r \in Root : kind[r] = "entity" /\ depth[r] = 0

IInv == TypeOK /\ Fresh /\ UniqueNames /\ OneOwner /\ DepthIsNesting

(* The name is new in a, or a is a set, whose elements have none.          *)
NameFits(a, name) == kind[a] = "set" \/ ~HasName(a, name)

(* The two shapes of a call: push a scalar, or nest a new container.       *)
ScalarPush(a, elt) ==
  /\ a \in Array /\ Open(a)
  /\ elt \in Element /\ elt.ref = NoRef /\ NameFits(a, elt.name)
  /\ Push(a, elt)
  /\ UNCHANGED <<kind, depth, handles>>

Nesting(a, name, n, k, d) ==
  /\ a \in Array /\ Open(a) /\ n \in Node
  /\ k \in {"record", "set"}
  /\ name \in Name \cup {NoRef} /\ NameFits(a, name)
  /\ d = depth[a] + 1 /\ d \in 1..MaxRecordDepth
  /\ Nest(a, name, n, k, d)

-------------------------------------------------------------------------------

(* A push leaves the other arrays and the earlier elements alone.          *)
LEMMA PushFacts ==
  ASSUME elems \in [Array -> Seq(Element)], NEW a \in Array, NEW elt \in Element,
         Push(a, elt)
  PROVE  /\ elems' \in [Array -> Seq(Element)]
         /\ \A b \in Array : b # a => elems'[b] = elems[b]
         /\ elems'[a] = Append(elems[a], elt)
         /\ Len(elems[a]) \in Nat
         /\ DOMAIN elems[a] = 1..Len(elems[a])
         /\ DOMAIN elems'[a] = 1..Len(elems[a]) + 1
         /\ elems'[a][Len(elems[a]) + 1] = elt
         /\ \A k \in DOMAIN elems[a] : elems'[a][k] = elems[a][k]
<1>1. elems' = [elems EXCEPT ![a] = Append(elems[a], elt)]
  BY DEF Push
<1>2. elems[a] \in Seq(Element)
  OBVIOUS
<1> HIDE DEF Array, Element
<1>3. Append(elems[a], elt) \in Seq(Element)
  BY <1>2
<1>4. elems' \in [Array -> Seq(Element)] /\ elems'[a] = Append(elems[a], elt)
      /\ \A b \in Array : b # a => elems'[b] = elems[b]
  BY <1>1, <1>3
<1>5. Len(elems[a]) \in Nat /\ DOMAIN elems[a] = 1..Len(elems[a])
  BY <1>2
<1>6. /\ DOMAIN Append(elems[a], elt) = 1..Len(elems[a]) + 1
      /\ Append(elems[a], elt)[Len(elems[a]) + 1] = elt
      /\ \A k \in 1..Len(elems[a]) : Append(elems[a], elt)[k] = elems[a][k]
  BY <1>2
<1> QED BY <1>4, <1>5, <1>6

(* Every element after a push is the new one or was there before.          *)
LEMMA PushedElements ==
  ASSUME elems \in [Array -> Seq(Element)], NEW a \in Array, NEW elt \in Element,
         Push(a, elt), NEW b \in Array
  PROVE  /\ \A k \in DOMAIN elems[b] : k \in DOMAIN elems'[b] /\ elems'[b][k] = elems[b][k]
         /\ \A k \in DOMAIN elems'[b] :
              k \in DOMAIN elems[b] \/ (b = a /\ k = Len(elems[a]) + 1 /\ elems'[b][k] = elt)
         /\ Len(elems[a]) + 1 \in DOMAIN elems'[a]
         /\ Len(elems[a]) + 1 \notin DOMAIN elems[a]
         /\ elems'[a][Len(elems[a]) + 1] = elt
<1>1. CASE b = a
  BY <1>1, PushFacts
<1>2. CASE b # a
  BY <1>2, PushFacts
<1> QED BY <1>1, <1>2

(* A push under a name that fits keeps names unique.                       *)
LEMMA PushKeepsNames ==
  ASSUME TypeOK, UniqueNames, NEW a \in Array, NEW elt \in Element,
         Push(a, elt), NameFits(a, elt.name),
         \A b \in Array : kind'[b] = kind[b] \/ elems'[b] = <<>>,
         kind'[a] = kind[a]
  PROVE  UniqueNames'
<1>1. SUFFICES ASSUME NEW b \in Array, kind'[b] \in {"entity", "record"},
                      NEW k \in DOMAIN elems'[b], NEW l \in DOMAIN elems'[b],
                      elems'[b][k].name = elems'[b][l].name
               PROVE  k = l
  BY DEF UniqueNames
<1>2. kind[b] = kind'[b]
  BY <1>1
<1>3. elems \in [Array -> Seq(Element)]
  BY DEF TypeOK
<1>4. CASE k \in DOMAIN elems[b] /\ l \in DOMAIN elems[b]
  BY <1>1, <1>2, <1>3, <1>4, PushedElements DEF UniqueNames
<1>5. CASE k \notin DOMAIN elems[b]
  <2>1. b = a /\ k = Len(elems[a]) + 1 /\ elems'[b][k] = elt
    BY <1>3, <1>5, PushedElements
  <2>2. ~HasName(a, elt.name)
    BY <1>1, <1>2, <2>1 DEF NameFits
  <2>3. l \notin DOMAIN elems[a]
    BY <1>1, <1>3, <2>1, <2>2, PushedElements DEF HasName
  <2> QED BY <1>3, <2>1, <2>3, PushedElements
<1>6. CASE l \notin DOMAIN elems[b]
  <2>1. b = a /\ l = Len(elems[a]) + 1 /\ elems'[b][l] = elt
    BY <1>3, <1>6, PushedElements
  <2>2. ~HasName(a, elt.name)
    BY <1>1, <1>2, <2>1 DEF NameFits
  <2>3. k \notin DOMAIN elems[a]
    BY <1>1, <1>3, <2>1, <2>2, PushedElements DEF HasName
  <2> QED BY <1>3, <2>1, <2>3, PushedElements
<1> QED BY <1>4, <1>5, <1>6

-------------------------------------------------------------------------------
(* The two shapes of a call                                                *)

LEMMA NodeIsNoRoot ==
  /\ \A n \in Node : n # NoRef /\ n \notin Root /\ n \in Array
  /\ \A r \in Root : r \in Array
BY ArraysAssumption DEF Array

(* Pushing a scalar keeps the inductive invariant.                         *)
LEMMA ScalarPushInv ==
  ASSUME IInv, NEW a, NEW elt, ScalarPush(a, elt)
  PROVE  IInv'
<1>1. /\ a \in Array /\ elt \in Element /\ elt.ref = NoRef
      /\ Push(a, elt) /\ kind' = kind /\ depth' = depth /\ handles' = handles
  BY DEF ScalarPush
<1>2. elems \in [Array -> Seq(Element)] /\ handles \subseteq Node
  BY DEF IInv, TypeOK
<1>3. TypeOK'
  BY <1>1, <1>2, PushFacts DEF IInv, TypeOK
<1>4. UniqueNames'
  BY <1>1, PushKeepsNames DEF IInv, ScalarPush
<1>5. Fresh'
  <2>1. a \in Root \/ a \in handles
    BY DEF ScalarPush, Open
  <2>2. \A n \in Node : n \notin handles => n # a
    BY <2>1, NodeIsNoRoot
  <2> QED BY <1>1, <1>2, <2>2, PushFacts, NodeIsNoRoot DEF IInv, Fresh
<1>6. \A b \in Array : \A k \in DOMAIN elems'[b] : elems'[b][k].ref # NoRef =>
        k \in DOMAIN elems[b] /\ elems'[b][k] = elems[b][k]
  BY <1>1, <1>2, PushedElements
<1>7. OneOwner'
  <2> SUFFICES ASSUME NEW n \in Node
               PROVE  /\ n \in handles <=>
                           \E b \in Array : \E k \in DOMAIN elems'[b] : elems'[b][k].ref = n
                      /\ \A b, c \in Array : \A k \in DOMAIN elems'[b], l \in DOMAIN elems'[c] :
                           elems'[b][k].ref = n /\ elems'[c][l].ref = n => b = c /\ k = l
                      /\ \A b \in Array : \A k \in DOMAIN elems'[b] :
                           elems'[b][k].ref = n => elems'[b][k].type = TypeOf(kind[n])
    BY <1>1 DEF OneOwner, Refers
  <2>1. n # NoRef
    BY NodeIsNoRoot
  <2>2. \A b \in Array : \A k \in DOMAIN elems[b] :
          k \in DOMAIN elems'[b] /\ elems'[b][k] = elems[b][k]
    BY <1>1, <1>2, PushedElements
  <2> QED BY <1>6, <2>1, <2>2 DEF IInv, OneOwner, Refers
<1>8. DepthIsNesting'
  BY <1>1, <1>6 DEF IInv, DepthIsNesting
<1> QED BY <1>3, <1>4, <1>5, <1>7, <1>8 DEF IInv

(* Nesting a container keeps the inductive invariant when the push fails:  *)
(* the array is allocated and no one refers to it.                         *)
LEMMA LeakInv ==
  ASSUME IInv, NEW n \in Node, NEW k \in {"record", "set"}, NEW d \in Nat,
         Create(n, k, d), UNCHANGED <<elems, handles>>
  PROVE  IInv'
<1>1. /\ kind' = [kind EXCEPT ![n] = k] /\ depth' = [depth EXCEPT ![n] = d]
      /\ kind[n] = "free" /\ elems' = elems /\ handles' = handles
  BY DEF Create
<1>2. /\ kind \in [Array -> {"entity", "record", "set", "free"}]
      /\ depth \in [Array -> Nat] /\ n \in Array /\ handles \subseteq Node
  BY NodeIsNoRoot DEF IInv, TypeOK
<1>3. /\ kind'[n] = k /\ depth'[n] = d
      /\ \A b \in Array : b # n => kind'[b] = kind[b] /\ depth'[b] = depth[b]
  BY <1>1, <1>2
<1>4. n \notin handles
  BY <1>1 DEF IInv, Fresh
<1>5. TypeOK'
  BY <1>1, <1>2 DEF IInv, TypeOK
<1>6. Fresh'
  BY <1>1, <1>2, <1>3, <1>4, NodeIsNoRoot DEF IInv, Fresh
<1>7. UniqueNames'
  BY <1>1, <1>2, <1>3, <1>4 DEF IInv, UniqueNames, Fresh
<1>8. \A b \in Array : \A l \in DOMAIN elems[b] : elems[b][l].ref # n
  BY <1>4 DEF IInv, OneOwner, Refers
<1>9. OneOwner'
  <2> SUFFICES ASSUME NEW m \in Node
               PROVE  \A b \in Array : \A l \in DOMAIN elems[b] :
                        elems[b][l].ref = m => elems[b][l].type = TypeOf(kind'[m])
    BY <1>1 DEF IInv, OneOwner, Refers
  <2>1. CASE m = n
    BY <1>8, <2>1
  <2>2. CASE m # n
    BY <1>3, <2>2, NodeIsNoRoot DEF IInv, OneOwner, Refers
  <2> QED BY <2>1, <2>2
<1>10. DepthIsNesting'
  <2>1. \A m \in handles : depth'[m] \in 1..MaxRecordDepth
    BY <1>2, <1>3, <1>4, NodeIsNoRoot DEF IInv, DepthIsNesting
  <2>2. ASSUME NEW b \in Array, NEW l \in DOMAIN elems[b], elems[b][l].ref # NoRef
        PROVE  depth'[elems[b][l].ref] = depth'[b] + 1
    <3>1. elems[b][l].ref \in Node /\ elems[b][l].ref # n
      <4>1. elems[b] \in Seq(Element)
        BY DEF IInv, TypeOK
      <4>2. elems[b][l] \in Element
        BY <4>1
      <4>3. elems[b][l].ref \in Node
        BY <2>2, <4>2 DEF Element
      <4> QED BY <1>8, <4>3
    <3>2. b # n
      BY <1>4 DEF IInv, Fresh
    <3> QED BY <1>3, <2>2, <3>1, <3>2, NodeIsNoRoot DEF IInv, DepthIsNesting
  <2> QED BY <1>1, <2>1, <2>2 DEF DepthIsNesting
<1> QED BY <1>5, <1>6, <1>7, <1>9, <1>10 DEF IInv

(* Nesting a container keeps it too when the push succeeds.                *)
LEMMA NestPushedInv ==
  ASSUME IInv, NEW a \in Array, Open(a), NEW n \in Node,
         NEW k \in {"record", "set"}, NEW d \in 1..MaxRecordDepth,
         NEW elt \in Element, elt.ref = n, elt.type = TypeOf(k),
         NameFits(a, elt.name), d = depth[a] + 1,
         Create(n, k, d), Push(a, elt), handles' = handles \cup {n}
  PROVE  IInv'
<1>1. /\ kind' = [kind EXCEPT ![n] = k] /\ depth' = [depth EXCEPT ![n] = d]
      /\ kind[n] = "free"
  BY DEF Create
<1>2. /\ kind \in [Array -> {"entity", "record", "set", "free"}]
      /\ depth \in [Array -> Nat] /\ n \in Array /\ handles \subseteq Node
      /\ elems \in [Array -> Seq(Element)]
  BY NodeIsNoRoot DEF IInv, TypeOK
<1>3. /\ kind'[n] = k /\ depth'[n] = d
      /\ \A b \in Array : b # n => kind'[b] = kind[b] /\ depth'[b] = depth[b]
  BY <1>1, <1>2
<1>4. n \notin handles /\ a # n /\ n # NoRef
  <2>1. n \notin handles
    BY <1>1 DEF IInv, Fresh
  <2> QED BY <2>1, NodeIsNoRoot DEF Open
<1>5. d \in Nat /\ MaxRecordDepth \in Nat
  BY ChainAssumption DEF MaxRecordDepth
<1>6. TypeOK'
  BY <1>1, <1>2, <1>5, PushFacts DEF IInv, TypeOK
<1>7. elems'[n] = elems[n] /\ elems[n] = <<>>
  BY <1>2, <1>4, PushFacts DEF IInv, Fresh
<1>8. Fresh'
  <2>1. \A m \in Node : m \notin handles' => elems'[m] = <<>>
    BY <1>2, <1>7, PushFacts, NodeIsNoRoot DEF IInv, Fresh, Open
  <2> QED BY <1>2, <1>3, <2>1, NodeIsNoRoot DEF IInv, Fresh
<1>9. UniqueNames'
  <2>1. \A b \in Array : kind'[b] = kind[b] \/ elems'[b] = <<>>
    BY <1>3, <1>7
  <2> QED BY <1>3, <1>4, <2>1, PushKeepsNames DEF IInv
<1>10. OneOwner'
  <2> SUFFICES ASSUME NEW m \in Node
               PROVE  /\ m \in handles \cup {n} <=>
                           \E b \in Array : \E l \in DOMAIN elems'[b] : elems'[b][l].ref = m
                      /\ \A b, c \in Array : \A l \in DOMAIN elems'[b], j \in DOMAIN elems'[c] :
                           elems'[b][l].ref = m /\ elems'[c][j].ref = m => b = c /\ l = j
                      /\ \A b \in Array : \A l \in DOMAIN elems'[b] :
                           elems'[b][l].ref = m => elems'[b][l].type = TypeOf(kind'[m])
    BY DEF OneOwner, Refers
  <2>1. \A b \in Array : \A l \in DOMAIN elems[b] : elems[b][l].ref # n
    BY <1>4 DEF IInv, OneOwner, Refers
  <2>2. CASE m = n
    <3>1. \A b \in Array : \A l \in DOMAIN elems'[b] :
            elems'[b][l].ref = n => b = a /\ l = Len(elems[a]) + 1 /\ elems'[b][l] = elt
      BY <1>2, <2>1, PushedElements
    <3>2. Len(elems[a]) + 1 \in DOMAIN elems'[a] /\ elems'[a][Len(elems[a]) + 1].ref = n
      BY <1>2, PushedElements
    <3>3. kind'[m] = k
      BY <1>3, <2>2
    <3> QED BY <2>2, <3>1, <3>2, <3>3
  <2>3. CASE m # n
    <3>1. \A b \in Array : \A l \in DOMAIN elems'[b] : elems'[b][l].ref = m =>
            l \in DOMAIN elems[b] /\ elems'[b][l] = elems[b][l]
      BY <1>2, <2>3, PushedElements
    <3>2. \A b \in Array : \A l \in DOMAIN elems[b] :
            l \in DOMAIN elems'[b] /\ elems'[b][l] = elems[b][l]
      BY <1>2, PushedElements
    <3>3. kind'[m] = kind[m]
      BY <1>3, <2>3, NodeIsNoRoot
    <3> QED BY <2>3, <3>1, <3>2, <3>3 DEF IInv, OneOwner, Refers
  <2> QED BY <2>2, <2>3
<1>11. DepthIsNesting'
  <2>1. \A m \in handles' : depth'[m] \in 1..MaxRecordDepth
    BY <1>2, <1>3, NodeIsNoRoot DEF IInv, DepthIsNesting
  <2>2. ASSUME NEW b \in Array, NEW l \in DOMAIN elems'[b], elems'[b][l].ref # NoRef
        PROVE  depth'[elems'[b][l].ref] = depth'[b] + 1
    <3>1. CASE l \in DOMAIN elems[b]
      <4>1. elems'[b][l] = elems[b][l]
        BY <1>2, <3>1, PushedElements
      <4>2. elems[b][l] \in Element
        BY <1>2, <3>1
      <4>3. elems[b][l].ref \in Node
        BY <2>2, <4>1, <4>2 DEF Element
      <4>4. elems[b][l].ref # n
        BY <1>4, <3>1 DEF IInv, OneOwner, Refers
      <4>5. b # n
        BY <1>7, <3>1
      <4> QED BY <1>3, <2>2, <3>1, <4>1, <4>3, <4>4, <4>5, NodeIsNoRoot
              DEF IInv, DepthIsNesting
    <3>2. CASE l \notin DOMAIN elems[b]
      <4>1. b = a /\ elems'[b][l] = elt
        BY <1>2, <3>2, PushedElements
      <4> QED BY <1>3, <1>4, <4>1
    <3> QED BY <3>1, <3>2
  <2> QED BY <2>1, <2>2 DEF DepthIsNesting
<1> QED BY <1>6, <1>8, <1>9, <1>10, <1>11 DEF IInv

(* So both outcomes of nesting keep it.                                    *)
LEMMA NestingInv ==
  ASSUME IInv, NEW a, NEW name, NEW n, NEW k, NEW d, Nesting(a, name, n, k, d)
  PROVE  IInv'
<1> DEFINE elt == [name |-> name, type |-> TypeOf(k), ref |-> n]
<1>1. /\ a \in Array /\ Open(a) /\ n \in Node /\ k \in {"record", "set"}
      /\ d \in 1..MaxRecordDepth /\ d = depth[a] + 1 /\ Create(n, k, d)
  BY DEF Nesting, Nest
<1>2. elt \in Element /\ elt.ref = n /\ elt.type = TypeOf(k) /\ elt.name = name
  BY <1>1 DEF Nesting, Element, TypeOf
<1>3. NameFits(a, elt.name)
  BY <1>2 DEF Nesting
<1>4. CASE Push(a, elt) /\ handles' = handles \cup {n}
  <2> HIDE DEF elt
  <2> QED BY <1>1, <1>2, <1>3, <1>4, NestPushedInv
<1>5. CASE UNCHANGED <<elems, handles>>
  <2>1. d \in Nat
    BY <1>1, ChainAssumption DEF MaxRecordDepth
  <2> QED BY <1>1, <1>5, <2>1, LeakInv
<1> QED BY <1>4, <1>5 DEF Nesting, Nest

-------------------------------------------------------------------------------
(* The specification                                                       *)

(* A context just created is empty.                                        *)
LEMMA InitInv == Init => IInv
<1> SUFFICES ASSUME Init PROVE IInv
  OBVIOUS
<1>1. \A a \in Array : elems[a] = <<>> /\ depth[a] = 0
  BY DEF Init
<1>2. \A a \in Array : kind[a] = IF a \in Root THEN "entity" ELSE "free"
  BY DEF Init
<1>3. TypeOK
  BY DEF Init, TypeOK
<1>4. Fresh
  BY <1>1, <1>2, NodeIsNoRoot DEF Init, Fresh
<1>5. UniqueNames /\ OneOwner /\ DepthIsNesting
  BY <1>1 DEF Init, UniqueNames, OneOwner, DepthIsNesting, Refers
<1> QED BY <1>3, <1>4, <1>5 DEF IInv

(* Every call is one of the two shapes.                                    *)
LEMMA NextInv == IInv /\ [Next]_vars => IInv'
<1> SUFFICES ASSUME IInv, [Next]_vars PROVE IInv'
  OBVIOUS
<1>1. /\ handles \subseteq Node /\ depth \in [Array -> Nat]
      /\ \A r \in Root : kind[r] = "entity" /\ depth[r] = 0
      /\ MaxRecordDepth \in Nat \ {0} /\ MaxSetDepth = MaxRecordDepth
  BY ChainAssumption DEF IInv, TypeOK, Fresh, MaxRecordDepth, MaxSetDepth
<1>2. ASSUME NEW a \in Array, NEW name \in Name, NEW type \in Scalar,
             AddAttr(a, name, type)
      PROVE  IInv'
  <2> DEFINE elt == [name |-> name, type |-> type, ref |-> NoRef]
  <2>1. elt \in Element /\ elt.ref = NoRef /\ elt.name = name
    BY DEF Element
  <2>2. ScalarPush(a, elt)
    BY <1>2, <2>1 DEF AddAttr, HoldsAttrs, Open, ScalarPush, NameFits
  <2> QED BY <2>2, ScalarPushInv
<1>3. ASSUME NEW s \in Node, NEW type \in Scalar, SetAdd(s, type)
      PROVE  IInv'
  <2> DEFINE elt == [name |-> NoRef, type |-> type, ref |-> NoRef]
  <2>1. elt \in Element /\ elt.ref = NoRef /\ elt.name = NoRef
    BY DEF Element
  <2>2. ScalarPush(s, elt)
    BY <1>3, <2>1, NodeIsNoRoot DEF SetAdd, IsSet, Open, ScalarPush, NameFits
  <2> QED BY <2>2, ScalarPushInv
<1>4. ASSUME NEW r \in Root, NEW name \in Name, NEW n \in Node,
             AddRecordAttr(r, name, n) \/ AddSetAttr(r, name, n, 1)
      PROVE  IInv'
  <2>1. r \in Array /\ Open(r) /\ 1 = depth[r] + 1 /\ 1 \in 1..MaxRecordDepth
    BY <1>1, NodeIsNoRoot DEF Open
  <2>2. Nesting(r, name, n, "record", 1) \/ Nesting(r, name, n, "set", 1)
    BY <1>4, <2>1 DEF AddRecordAttr, AddSetAttr, Nesting, NameFits
  <2> QED BY <2>2, NestingInv
<1>5. ASSUME NEW r \in Node, NEW name \in Name, NEW n \in Node,
             RecordAddRecord(r, name, n) \/ RecordAddSet(r, name, n)
      PROVE  IInv'
  <2>1. r \in handles /\ depth[r] < MaxRecordDepth
    BY <1>1, <1>5 DEF RecordAddRecord, RecordAddSet
  <2>2. r \in Array /\ Open(r) /\ depth[r] + 1 \in 1..MaxRecordDepth
    BY <1>1, <2>1, NodeIsNoRoot DEF Open
  <2>3. \/ Nesting(r, name, n, "record", depth[r] + 1)
        \/ Nesting(r, name, n, "set", depth[r] + 1)
    BY <1>5, <2>2 DEF RecordAddRecord, RecordAddSet, AddSetAttr, Nesting, NameFits
  <2> QED BY <2>3, NestingInv
<1>6. ASSUME NEW s \in Node, NEW n \in Node, SetAddSet(s, n) \/ SetAddRecord(s, n)
      PROVE  IInv'
  <2>1. s \in handles /\ kind[s] = "set" /\ depth[s] < MaxRecordDepth
    BY <1>1, <1>6 DEF SetAddSet, SetAddRecord, IsSet
  <2>2. s \in Array /\ Open(s) /\ depth[s] + 1 \in 1..MaxRecordDepth
    BY <1>1, <2>1, NodeIsNoRoot DEF Open
  <2>3. \/ Nesting(s, NoRef, n, "set", depth[s] + 1)
        \/ Nesting(s, NoRef, n, "record", depth[s] + 1)
    BY <1>6, <2>1, <2>2 DEF SetAddSet, SetAddRecord, Nesting, NameFits
  <2> QED BY <2>3, NestingInv
<1>7. CASE UNCHANGED vars
  BY <1>7 DEF vars, IInv, TypeOK, Fresh, UniqueNames, OneOwner, Refers, DepthIsNesting
<1> QED BY <1>2, <1>3, <1>4, <1>5, <1>6, <1>7 DEF Next

(* The inductive invariant holds of every reachable state.                 *)
THEOREM Invariance == Spec => []IInv
BY InitInv, NextInv, PTL DEF Spec

(* Arrays, handles and elements are well typed, whatever a caller does.    *)
THEOREM TypeCorrect == Spec => []TypeOK
<1>1. IInv => TypeOK
  BY DEF IInv
<1> QED BY <1>1, Invariance, PTL

(* No sequence of calls gives a record or an entity two attributes of one  *)
(* name (eval.c:206-239).                                                  *)
THEOREM NamesStayUnique == Spec => []UniqueNames
<1>1. IInv => UniqueNames
  BY DEF IInv
<1> QED BY <1>1, Invariance, PTL

(* What a handle fills is referred to from exactly one attribute or        *)
(* element, of its own type, and what a failed push leaks from none.       *)
THEOREM ContainersFormForest == Spec => []OneOwner
<1>1. IInv => OneOwner
  BY DEF IInv
<1> QED BY <1>1, Invariance, PTL

(* The depth a handle carries counts the containers above it, records and  *)
(* sets alike, and stays within the ceiling of types.h:366-385.            *)
THEOREM DepthCountsNesting == Spec => []DepthIsNesting
<1>1. IInv => DepthIsNesting
  BY DEF IInv
<1> QED BY <1>1, Invariance, PTL

(* The arrays that those in T refer to.                                    *)
Referred(T) == (UNION {{elems[a][k].ref : k \in DOMAIN elems[a]} : a \in T}) \ {NoRef}

LEMMA ReferredArrays ==
  ASSUME IInv, NEW T \in SUBSET Array
  PROVE  Referred(T) \in SUBSET Node
<1> SUFFICES ASSUME NEW a \in T, NEW k \in DOMAIN elems[a], elems[a][k].ref # NoRef
             PROVE  elems[a][k].ref \in Node
  BY DEF Referred
<1>1. elems[a] \in Seq(Element) /\ k \in DOMAIN elems[a]
  BY DEF IInv, TypeOK
<1>2. elems[a][k] \in Element
  <2> HIDE DEF Element
  <2> QED BY <1>1
<1> QED BY <1>2 DEF Element

(* The walk goes from the roots to what they refer to, and so on.          *)
LEMMA WalkSteps ==
  ASSUME IInv
  PROVE  /\ At \in [Nat -> SUBSET Array]
         /\ At[0] = Root
         /\ \A n \in Nat : At[n + 1] = Referred(At[n])
<1> DEFINE S == SUBSET Array
           step == [n \in Nat |-> [T \in S |-> Referred(T)]]
           G(g) == [level \in Nat |-> IF level = 0 THEN Root ELSE Referred(g[level - 1])]
<1>1. Root \in S /\ step \in [Nat -> [S -> S]]
  <2>1. \A T \in S : Referred(T) \in S
    BY ReferredArrays DEF Array
  <2>2. Root \in S
    BY DEF Array
  <2> HIDE DEF S
  <2> QED BY <2>1, <2>2
<1> HIDE DEF S
<1>2. PICK f \in [Nat -> S] : f[0] = Root /\ \A n \in Nat : f[n + 1] = step[n][f[n]]
  <2>1. Root \in S
    BY <1>1
  <2>2. step \in [Nat -> [S -> S]]
    BY <1>1
  <2>3. \E f : Iterates(f, S, Root, step)
    <3> HIDE DEF step
    <3> QED BY <2>1, <2>2, Recursion
  <2> QED BY <2>3 DEF Iterates
<1>3. \A n \in Nat : f[n + 1] = Referred(f[n])
  BY <1>2
<1>4. f = G(f)
  <2>1. \A n \in Nat : f[n] = G(f)[n]
    <3> SUFFICES ASSUME NEW n \in Nat PROVE f[n] = G(f)[n]
      OBVIOUS
    <3>1. CASE n = 0
      BY <1>2, <3>1
    <3>2. CASE n # 0
      <4>1. n - 1 \in Nat /\ (n - 1) + 1 = n
        BY <3>2
      <4>2. f[n] = Referred(f[n - 1])
        BY <1>3, <4>1
      <4> QED BY <3>2, <4>2
    <3> QED BY <3>1, <3>2
  <2> HIDE DEF S
  <2> QED BY <1>2, <2>1
<1>5. At = CHOOSE g : g = G(g)
  BY DEF At, Referred
<1>6. At = G(At)
  <2> HIDE DEF G
  <2> QED BY <1>4, <1>5
<1>7. At[0] = Root /\ \A n \in Nat : At[n + 1] = Referred(At[n])
  <2>1. \A n \in Nat : At[n] = IF n = 0 THEN Root ELSE Referred(At[n - 1])
    BY <1>6
  <2>2. \A n \in Nat : n + 1 \in Nat /\ n + 1 # 0 /\ (n + 1) - 1 = n
    OBVIOUS
  <2> HIDE DEF G
  <2> QED BY <2>1, <2>2
<1>8. \A n \in Nat : At[n] \in S
  <2> DEFINE P == {n \in Nat : At[n] \in S}
  <2>1. 0 \in P
    BY <1>1, <1>7
  <2>2. \A n \in Nat : n \in P => n + 1 \in P
    BY <1>7, ReferredArrays DEF S, Array
  <2>3. Nat \subseteq P
    <3> HIDE DEF P
    <3> QED BY <2>1, <2>2, Induction
  <2> QED BY <2>3
<1>9. At \in [Nat -> S]
  BY <1>6, <1>8
<1> QED BY <1>7, <1>9 DEF S

(* What is `level' references down has that depth in its handle.           *)
LEMMA LevelIsDepth ==
  ASSUME IInv
  PROVE  \A n \in Nat : \A a \in At[n] : depth[a] = n
<1> DEFINE P == {n \in Nat : \A a \in At[n] : depth[a] = n}
<1>1. 0 \in P
  BY WalkSteps DEF IInv, Fresh
<1>2. ASSUME NEW n \in Nat, n \in P PROVE n + 1 \in P
  <2> SUFFICES ASSUME NEW b \in At[n + 1] PROVE depth[b] = n + 1
    OBVIOUS
  <2>1. PICK a \in At[n] : \E k \in DOMAIN elems[a] : elems[a][k].ref = b /\ b # NoRef
    BY WalkSteps DEF Referred
  <2>2. a \in Array /\ depth[a] = n
    BY <1>2, <2>1, WalkSteps
  <2> QED BY <2>1, <2>2 DEF IInv, DepthIsNesting
<1>3. Nat \subseteq P
  <2> HIDE DEF P
  <2> QED BY <1>1, <1>2, Induction
<1> QED BY <1>3

(* However a caller nests records and sets, a walk down from the           *)
(* attributes of a request finds nothing below the levels types.h:366-385  *)
(* allows: comparing injected values never comes to its own limit          *)
(* (types.h:387-401).                                                      *)
THEOREM WalksStayWithinCeiling == Spec => []WalkWithinCeiling
<1>1. IInv => WalkWithinCeiling
  <2> SUFFICES ASSUME IInv, NEW n \in At[MaxRecordDepth + 1] PROVE FALSE
    BY DEF WalkWithinCeiling
  <2>1. MaxRecordDepth \in Nat /\ MaxRecordDepth + 1 \in Nat
    BY ChainAssumption DEF MaxRecordDepth
  <2>2. depth[n] = MaxRecordDepth + 1
    BY <2>1, LevelIsDepth
  <2>3. PICK a \in At[MaxRecordDepth] :
          \E k \in DOMAIN elems[a] : elems[a][k].ref = n /\ n # NoRef
    BY <2>1, WalkSteps DEF Referred
  <2>4. a \in Array /\ n \in Node
    <3>1. At[MaxRecordDepth] \in SUBSET Array
      BY <2>1, WalkSteps
    <3>2. Referred(At[MaxRecordDepth]) \in SUBSET Node
      BY <3>1, ReferredArrays
    <3> QED BY <2>1, <2>3, <3>1, <3>2, WalkSteps
  <2>5. n \in handles
    BY <2>3, <2>4 DEF IInv, OneOwner, Refers
  <2> QED BY <2>1, <2>2, <2>5 DEF IInv, DepthIsNesting
<1> QED BY <1>1, Invariance, PTL
===============================================================================
