----------------------------- MODULE EvalContext -----------------------------
(***************************************************************************)
(* The attributes of an evaluation context and the handles through which a *)
(* caller nests records and sets in them (the injection API of             *)
(* nxe_cedar_eval.c).                                                      *)
(*                                                                         *)
(* Every attribute list, record and set is an ngx_array_t taken from the   *)
(* pool; a record or set value holds the address of its array, and so does *)
(* the handle the caller fills it through.  An array is here a Root (the   *)
(* attributes of principal, action, resource or context) or a Node, and an *)
(* element [name, type, ref] refers to the array of a container by its     *)
(* name, so that both views see every later push.  A call that returns     *)
(* NGX_ERROR or NULL before it allocates changes nothing and is no step; a *)
(* container allocated for a parent array that then cannot grow leaks, and *)
(* is one.                                                                 *)
(***************************************************************************)
EXTENDS Naturals, Sequences

CONSTANTS
  Root,            \* the attribute arrays nxe_cedar_eval_ctx_create makes
  Node,            \* the arrays the pool can still give
  Name,            \* attribute names
  Scalar,          \* types of values that are not containers
  MaxMemberChain,  \* NXE_CEDAR_MAX_MEMBER_CHAIN
  MaxElements,     \* bound of the model: elements of one array
  NoRef            \* the ref of a scalar, the name of a set element

ASSUME ArraysAssumption == Root \cap Node = {} /\ NoRef \notin Root \cup Node
ASSUME NamesAssumption  == NoRef \notin Name
ASSUME ScalarAssumption == Scalar \cap {"RECORD", "SET"} = {}
ASSUME ChainAssumption  == MaxMemberChain \in Nat \ {0}

VARIABLES
  kind,     \* of each array: "entity", "record", "set", or "free"
  depth,    \* of each record and set, in its handle
  elems,    \* of each array, its elements in the order of the pushes
  handles   \* the records and sets whose handle a call returned

vars == <<kind, depth, elems, handles>>

Array == Root \cup Node
MaxRecordDepth == MaxMemberChain
MaxSetDepth == MaxRecordDepth

Element == [name : Name \cup {NoRef}, type : Scalar, ref : {NoRef}]
             \cup [name : Name \cup {NoRef}, type : {"RECORD", "SET"}, ref : Node]

-------------------------------------------------------------------------------

HasName(a, name) == \E k \in DOMAIN elems[a] : elems[a][k].name = name

\* An array the caller can push attributes to
HoldsAttrs(a) == a \in Root \/ (a \in handles /\ kind[a] = "record")

IsSet(a) == a \in handles /\ kind[a] = "set"

Push(a, elt) ==
  /\ Len(elems[a]) < MaxElements
  /\ elems' = [elems EXCEPT ![a] = Append(@, elt)]

\* nxe_cedar_record_create, nxe_cedar_set_create
Create(n, k, d) ==
  /\ kind[n] = "free"
  /\ kind'  = [kind EXCEPT ![n] = k]
  /\ depth' = [depth EXCEPT ![n] = d]

TypeOf(k) == IF k = "record" THEN "RECORD" ELSE "SET"

\* Variant with a bug: the attribute is there before the array it refers to.
NestPushingFirst(a, name, n, k, d) ==
  /\ kind[n] = "free"
  /\ Push(a, [name |-> name, type |-> TypeOf(k), ref |-> NoRef])
  /\ UNCHANGED <<kind, depth, handles>>

\* Variant with a bug: the handle is returned though the push failed.
NestReturningOrphan(a, name, n, k, d) ==
  /\ Create(n, k, d)
  /\ handles' = handles \cup {n}
  /\ \/ Push(a, [name |-> name, type |-> TypeOf(k), ref |-> n])
     \/ UNCHANGED elems

\* A new container of kind k, pushed under `name' in array a; when the push
\* fails the container stays allocated and nobody knows of it.
Nest(a, name, n, k, d) ==
  /\ Create(n, k, d)
  /\ \/ /\ Push(a, [name |-> name, type |-> TypeOf(k), ref |-> n])
        /\ handles' = handles \cup {n}
     \/ UNCHANGED <<elems, handles>>

-------------------------------------------------------------------------------
(* Attributes of a root or a record                                        *)

\* Variant with a bug: no check for a duplicate name.
AddAttrUnchecked(a, name, type) ==
  /\ HoldsAttrs(a)
  /\ Push(a, [name |-> name, type |-> type, ref |-> NoRef])
  /\ UNCHANGED <<kind, depth, handles>>

\* nxe_cedar_eval_ctx_add_*_attr, nxe_cedar_record_add_* of a scalar
AddAttr(a, name, type) ==
  /\ HoldsAttrs(a)
  /\ ~HasName(a, name)
  /\ Push(a, [name |-> name, type |-> type, ref |-> NoRef])
  /\ UNCHANGED <<kind, depth, handles>>

\* nxe_cedar_eval_ctx_add_*_attr_record
AddRecordAttr(r, name, n) ==
  /\ ~HasName(r, name)
  /\ Nest(r, name, n, "record", 1)

\* nxe_cedar_record_add_record
RecordAddRecord(r, name, n) ==
  /\ r \in handles /\ kind[r] = "record"
  /\ ~HasName(r, name)
  /\ depth[r] < MaxRecordDepth
  /\ Nest(r, name, n, "record", depth[r] + 1)

\* nxe_cedar_eval_ctx_add_set_attr
AddSetAttr(a, name, n, d) ==
  /\ ~HasName(a, name)
  /\ d <= MaxSetDepth
  /\ Nest(a, name, n, "set", d)

\* Variant with a bug: the set starts a count of its own.
RecordAddSetRestarting(r, name, n) ==
  /\ r \in handles /\ kind[r] = "record"
  /\ depth[r] < MaxSetDepth
  /\ AddSetAttr(r, name, n, 1)

\* nxe_cedar_record_add_set
RecordAddSet(r, name, n) ==
  /\ r \in handles /\ kind[r] = "record"
  /\ depth[r] < MaxSetDepth
  /\ AddSetAttr(r, name, n, depth[r] + 1)

-------------------------------------------------------------------------------
(* Elements of a set                                                       *)

\* nxe_cedar_set_add_*, of a scalar: a set may hold equal elements
SetAdd(s, type) ==
  /\ IsSet(s)
  /\ Push(s, [name |-> NoRef, type |-> type, ref |-> NoRef])
  /\ UNCHANGED <<kind, depth, handles>>

\* nxe_cedar_set_add_set
SetAddSet(s, n) ==
  /\ IsSet(s)
  /\ depth[s] < MaxSetDepth
  /\ Nest(s, NoRef, n, "set", depth[s] + 1)

\* Variant with a bug: "kind switches reset the counter to 1".
SetAddRecordRestarting(s, n) ==
  /\ IsSet(s)
  /\ depth[s] < MaxRecordDepth
  /\ Nest(s, NoRef, n, "record", 1)

\* nxe_cedar_set_add_record
SetAddRecord(s, n) ==
  /\ IsSet(s)
  /\ depth[s] < MaxRecordDepth
  /\ Nest(s, NoRef, n, "record", depth[s] + 1)

-------------------------------------------------------------------------------

\* nxe_cedar_eval_ctx_create
Init ==
  /\ kind    = [a \in Array |-> IF a \in Root THEN "entity" ELSE "free"]
  /\ depth   = [a \in Array |-> 0]
  /\ elems   = [a \in Array |-> <<>>]
  /\ handles = {}

Next ==
  \/ \E a \in Array, name \in Name, type \in Scalar : AddAttr(a, name, type)
  \/ \E r \in Root, name \in Name, n \in Node : AddRecordAttr(r, name, n)
  \/ \E r \in Root, name \in Name, n \in Node : AddSetAttr(r, name, n, 1)
  \/ \E r \in Node, name \in Name, n \in Node : RecordAddRecord(r, name, n)
  \/ \E r \in Node, name \in Name, n \in Node : RecordAddSet(r, name, n)
  \/ \E s \in Node, type \in Scalar : SetAdd(s, type)
  \/ \E s \in Node, n \in Node : SetAddSet(s, n)
  \/ \E s \in Node, n \in Node : SetAddRecord(s, n)

Spec == Init /\ [][Next]_vars

-------------------------------------------------------------------------------
(* Properties                                                              *)

(* Every array holds well-formed elements.                                 *)
TypeOK ==
  /\ kind \in [Array -> {"entity", "record", "set", "free"}]
  /\ depth \in [Array -> Nat]
  /\ elems \in [Array -> Seq(Element)]
  /\ handles \in SUBSET Node

(* No record and no entity has two attributes of one name, whatever mix of *)
(* calls built it (eval.c:206-219): lookups take the first match, so a     *)
(* second one would be a value that no policy sees but `==' does.          *)
UniqueNames ==
  \A a \in Array : kind[a] \in {"entity", "record"} =>
    \A k, l \in DOMAIN elems[a] : elems[a][k].name = elems[a][l].name => k = l

Refers(a, k, n) == elems[a][k].ref = n

(* The containers form a forest under the roots: a container is referred   *)
(* to from exactly one place if its handle was returned and from nowhere   *)
(* if it leaked, with the type of its array.  So a push through a handle   *)
(* is always visible to policies, and visible once.                        *)
OneOwner ==
  \A n \in Node :
    /\ n \in handles <=>
         \E a \in Array : \E k \in DOMAIN elems[a] : Refers(a, k, n)
    /\ \A a, b \in Array :
         \A k \in DOMAIN elems[a], l \in DOMAIN elems[b] :
           Refers(a, k, n) /\ Refers(b, l, n) => a = b /\ k = l
    /\ \A a \in Array : \A k \in DOMAIN elems[a] :
         Refers(a, k, n) => elems[a][k].type = TypeOf(kind[n])

(* The depth in a handle is the number of containers from the root down to *)
(* it, kinds mixed, and never exceeds the one ceiling (eval.c:1357-1362).  *)
DepthIsNesting ==
  /\ \A a \in Array : \A k \in DOMAIN elems[a] :
       elems[a][k].ref # NoRef => depth[elems[a][k].ref] = depth[a] + 1
  /\ \A n \in handles : depth[n] \in 1..MaxRecordDepth

(* The arrays a walk from the roots meets `level' references down.         *)
At[level \in Nat] ==
  IF level = 0 THEN Root
  ELSE (UNION {{elems[a][k].ref : k \in DOMAIN elems[a]} :
                a \in At[level - 1]}) \ {NoRef}

(* The recursion of nxe_cedar_value_equals over injected values goes no    *)
(* deeper than the nesting ceiling: its own limit, twice that, is the      *)
(* second line of defence that types.h:387-401 says it is.                 *)
WalkWithinCeiling == At[MaxRecordDepth + 1] = {}
==============================================================================
