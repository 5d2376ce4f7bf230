# nxe-cedar in TLA+

nxe-cedar is a C library with which an nginx module decides requests by Cedar
policies.  This directory holds TLA+ models of its lexer, parser, evaluator,
equality, patterns and extension types, the TLC configurations that check them on
small instances, and TLAPS proofs of the properties that matter most for every
instance.

    tlc -workers 2 -config MCPolicyEval.cfg MCPolicyEval     # one model
    tlapm PolicyEvalProofs.tla                               # one set of proofs

## The system

Policies are parsed once, when nginx reads its configuration; each request then
builds an evaluation context and asks for a decision.  Everything runs on the
single thread of an nginx worker, so there is no interleaving inside a call:
what is hard here is memory that may be refused at any allocation, state that
outlives a call (the context, its recursion counter, the caller's result),
values that carry a hidden tag, limits, and two pieces of code that must agree.

| component | state | operations | correct when |
|---|---|---|---|
| policy-set evaluation (`eval.c` 1601-1784) | loop index, pass, `has_forbid`/`has_permit`, the growing list `out` and its `cap` | `nxe_cedar_eval`, `nxe_cedar_eval_detail`, `nxe_cedar_detail_push` | a matching forbid denies, else a matching permit allows, else deny; the list is the deciding policies, or the first of them when memory ran out |
| scope and condition matching (`eval.c` 28-201) | none | `entity_in_target`, `scope_matches`, `condition_matches` | the same words in a scope and in a `when` mean the same; an error satisfies nothing |
| evaluation context (`eval.c` 206-1569) | attribute arrays, parents lists, nested records and sets with their handles | about ninety `nxe_cedar_eval_ctx_*`, `nxe_cedar_record_*`, `nxe_cedar_set_*` calls | names are unique, containers form a forest of bounded depth, a push through a handle is seen |
| expression evaluator (`expr.c` 879-2391) | the C stack, `ctx->eval_depth`, slot tags of entity values | `nxe_cedar_expr_eval` and what it calls | it computes the meaning of the condition; failures become errors; tags are never stale |
| value equality (`expr.c` 919-1092) | recursion depth, a bitmap per level | `nxe_cedar_value_equals` | equality of collections, total within its limits |
| `like` (`expr.c` 1343-1398, `parser.c` 144-248) | two pointers and a point to go back to | `compile_pattern`, `like_match` | the meaning of the pattern, in bounded work |
| extension types (`expr.c` 139-876, 1402-1457, 1496-1829) | none | `ip`, `decimal`, `datetime`, `duration` and their methods | exact within int64_t, an error outside |
| parser (`parser.c`) | current token, sticky error, depths and counts | `nxe_cedar_parse` | a tree within the limits, or nothing |
| lexer (`lexer.c`) | position in the text | `nxe_cedar_lexer_next` | tokens of the text, escapes decoded |
| nginx pool and arrays (external) | | `ngx_palloc`, `ngx_array_push` | may refuse |

How they interact: the parser builds a tree of policies from the lexer's tokens
and compiles `like` patterns; `nxe_cedar_eval_detail` calls
`nxe_cedar_policy_matches` for each policy of a pass, which compares scopes
with the context and evaluates conditions with `nxe_cedar_expr_eval`; that
calls itself, the equality of values and the pattern matcher, and reads the
context's arrays through the slot tag of an entity.

## The modules

    PolicyMatch   <-- PolicyEval --INSTANCE--> Authorization
        ^                 ^--- PolicyEvalProofs
        '---- ExprEval <-- ExprMeaning <-- ExprEvalProofs
                                 ^-- MCExprEval --INSTANCE--> ValueEquals, Literals,
                                                              Datetime, Ip
    EvalContext <-- EvalContextProofs
    LikeMatch   <-- LikeMatchProofs
    ValueEquals <-- MCValueEquals <-- ValueEqualsProofs
    Parser  <-- Grammar <-- MCParser
       ^---- ParseEval --INSTANCE--> ExprEval
                 ^---- MCParseEval
                 '---- ParserProofs
    Scan <-- Literals, Ip  <-- MCTexts ---.
      |----- Datetime <-- MCDatetime -----+-- MCExtension
      |          '--- MCInstants ---------|
      '----- IpRange <-- MCRanges --------'
    IpRange <-- Ip
    MCInstants, MCRanges <-- ExtensionProofs
    Lexer <-- MCLexer
    Induction <-- EvalContextProofs, LikeMatchProofs, ParserProofs, ExprEvalProofs,
                  ValueEqualsProofs, ExtensionProofs

**PolicyMatch** gives the matching of one policy as operators on records: the
scope clauses (`ScopeMatches`), the clauses of `when` and `unless`, and their
conjunction.  A policy's condition is here only its value and whether computing
it allocates.

**PolicyEval** is the evaluation of a policy set: `pc` is the pass, `i` the loop
index, `out` and `cap` the growing list (its cells numbered, an unwritten one
`Unset`).  An action is one iteration of a pass (`SkipPolicy`,
`ReturnFirstMatch`, `ListMatch`, `ListMatchFails`), the end of a pass
(`EndForbidPass`, `EndPermitPass`) or a call.  `lost` and `truncated` record
what the pool refused, so that properties can say what depends on it.  Calls
follow one another with the caller's `out` left as the last one left it.

**Authorization** is what `nxe_cedar_eval.h` promises, in one step per answer.

**EvalContext** is the injection API.  Arrays are `Root`s (attributes of
principal, action, resource, context) or `Node`s (records and sets); an element
refers to the array of its container, as in the code the value and the handle
hold the same `ngx_array_t`.  The many typed calls that differ only in the
value they store are one action (`AddAttr`, `SetAdd`).  A container allocated
for a parent that then cannot grow leaks: that is the second disjunct of
`Nest`.

**ExprEval** is the recursive evaluator as a stack machine: a frame per active
call, with the operands evaluated so far.  `Awaited` is the order of evaluation
with its short circuits, `Result` what a node makes of its operands, `Call` and
`Return` the guard of `eval_depth`.  `AllocationFails` is the array of a set or
record literal, the evaluator's only allocation.  Conditions follow one another
in one context.  `fault` records whether memory or depth ran out.  `Datum` is
the set of values that literals and injected attributes give, with what they
hold; `Level` is how many levels of operands a node has.  What the module assumes
of its constants:

| assumption | says | because |
|---|---|---|
| `NodeAssumption` | a node has the operands of its operator (`Arity`), which are nodes; a record literal has each key once; comparisons and arithmetic are those of the language | the parser makes no other (`types.h:181-279`) and refuses a duplicate key (`parser.c:628-639`) |
| `DatumAssumption` | a value is of a known type, an entity carries no slot, a record has each name once, what a set or record holds is no error and is a value too | `types.h:420-480`; the injection API stores only these (`UniqueNames` of `EvalContext`), and a literal that names an entity is an `entity_ref`, no datum |
| `ContextAssumption` | each request entity has a uid, parents and attributes, each attribute once | the arrays of `types.h:482-548`, and `UniqueNames` |
| `LongAssumption` | two's complement | `int64_t` |
| `MethodAssumption` | methods of extension types give Booleans, numbers or an error | `expr.c:1496-1829` |
| `LikeAssumption` | a match is true or false | `expr.c:1343-1398` |
| `EqualsAssumption` | two entities are equal just if their uids are | `expr.c:962-965` |

**ExprMeaning** is what a condition means, by recursion on it, without order of
evaluation, slot tags or depth: `Denotation` is what a node means when its operands
mean `m`, and `Meanings` the function on nodes that it defines.  Entities have
attributes and ancestors by their identity, sets are searched by quantifiers, and a
method has a list of what it takes (`Takes`).  `Covered` are the conditions it is
compared on: those that ask attributes and ancestors only of entities a keyword or a
literal names, and compare values that equality can decide (`Comparable`).  It assumes:

| assumption | says | because |
|---|---|---|
| `HeightAssumption` | no tree has more than `MaxHeight` levels | the parser's limits; `HeightInvariant` of `ParserProofs` says how many |
| `SameAssumption` | of values in `Comparable`, `Equals` says whether they are the same, in either order and whatever slot tags they carry | it reads no tag (`expr.c:962-965`); `EqualityIsExact`, `EqualityIsTotal` and `SidesAgree` of `ValueEqualsProofs` for values within its limits |
| `ExtensionAssumption` | a method of an extension type is an error for a receiver or argument that it does not take, and otherwise gives `ExtensionMeaning` | the dispatch on types of `expr.c:1496-1829`; what they give is the subject of `extension` and `ExtensionProofs` |

**ValueEquals** is the comparison as the code does it (first free element, first
attribute of the name, limits) beside equality of collections (`SameValue`:
some pairing exists).  Values are built level by level from scalars
(`OfHeight`), and so are the calls: `EqualsWithin[left]` is the comparison with so many
levels left below the limit, a function of pairs of values.  A call is written as
the loop over a table of outcomes (`Paired`): what comparing the ith item of one
side with the jth of the other gives, or `pass` where the code goes on to the
next j.  The loop reads no outcome after the first that is not `pass`, so the
table being whole does not matter.

**LikeMatch** has the compilation of a pattern text (`CompilePattern`, on pieces:
characters, `*`, escapes, refused bytes) and the matcher as a state machine.
`Stands` is what a pattern means: from which place of the pattern and the subject
the rest of one matches the rest of the other.

**Parser** is the recursive descent as a stack machine: a frame per active call
of a parsing function, named for it, with the trees it has so far (`acc`) and
the operators or names between them; `pos` is the current token, `error` the
sticky flag, `depth` and `record_depth` the counters of `ctx`.  An action is what
a function does between two calls of others: up to the first (`ParseX`), or from
the return of one to the next or to its own end (`EndX`).  Each limit
(nesting, chains, sets, records, conditions, annotations, type names,
policies) is a constant.  `AllocationFails` refuses the memory of any node,
array or name, in scopes too; `Unwind` is the return through callers that only pass a failure on.
Tokens are `[t, v]`: the lexer's type and what it carries; the end of the text is
where they end (`TokenAssumption`).

**Grammar** says which trees a text has by recursion on the rules, without
position, flags or stack, and with the limits as conditions on the result.

**ParseEval** puts the two stack machines together: the conditions of a policy set
that `Parser` accepted are those `ExprEval` evaluates (`frames` is the evaluator's
stack, `stack` the parser's).

**Scan** holds what readers of literals share.  **Literals** reads Long, decimal and
duration; numbers that may be refused are sets of at most one, so that each
checked step of the code is a condition on the members.  **Ip** reads both
families and writes a `::` out, **IpRange** compares ranges byte by byte; the sizes of
bytes, groups and addresses are constants.  **Datetime** has the calendar, the shapes of
literals and the methods; the units of time are constants, and `Wrapped` is what
an unchecked subtraction gives.  `ExprEval` takes what the methods compute as
operator constants and has their dispatch itself: number and types of arguments,
decimal comparisons, sets.

**MCTexts**, **MCDatetime**, **MCInstants** and **MCRanges** give what these are
compared with: the numbers and addresses that can be written with a few characters, a
clock whose days are counted one by one, pairs of instants, and the numbers of the
addresses in a range; **MCExtension** runs the four side by side.

**Lexer** is `nxe_cedar_lexer_next`, one action per kind of token, over a text of
characters, with strings decoded to bytes (`Unescape`) and the pattern compiler's
own reading of the raw text (`CompilePattern`; `LikeMatch` starts from its
pieces).

Operators commented "Variant with a bug" are not part of a model: each is a
plausible mistake in the definition after it, and the property listed with it
in `PROJECT.json` fails when it takes that definition's place.

## What the runs check

| run | states | what it shows |
|---|---|---|
| `policy_eval` | 36 794 | the decision (`DecisionSound`), the list (`ReasonsSound`), its memory (`ListInBounds`), the promise of the header (`Refines`), every call returns (`Terminates`) |
| `eval_context` | 21 981 | `UniqueNames`, `OneOwner`, `DepthIsNesting`, and that no walk goes deeper than the ceiling (`WalkWithinCeiling`) |
| `expr_eval` | 91 498 | the answer is the meaning (`AnswerMeans`), tags are sound (`SlotSound`), faults become errors (`FaultsErr`), `has` guards (`HasGuards`), scopes and conditions agree (`ScopeAgrees`), the depth limit cuts off only what is too deep (`CutOffOnlyDeep`); method calls of the extension types included |
| `value_equals` | 1 024 974 | the greedy comparison is right (`AnswersRight`), total within limits (`TotalWithinLimits`), and exchanging the sides matters only beyond them (`SidesExchange`) |
| `like_match` | 748 268 | the answer is the pattern's meaning (`AnswerRight`), the work is bounded (`WorkBounded`), it ends (`Terminates`) |
| `parser` | 491 897 | a text is accepted just if the grammar has a tree for it, with that tree (`ParsesGrammar`); the counters are the active calls they count (`CountersExact`), the recursion is bounded (`RecursionBounded`), no missing node is linked into a tree (`NoNullLinked`), nothing is read past a mistake (`NeverPastError`), parsing ends (`Terminates`) |
| `parse_eval` | 40 121 | an evaluator's limit as high as the parser's limits together allow is never met (`LimitsSuffice`) |
| `extension` | 1 477 053 | Long, decimal and duration (`NumbersExact`), datetime (`DatetimeExact`) and ip literals (`IpExact`) are what their texts spell, or refused; containment of ranges is inclusion (`ContainsExact`); `offset` and `durationSince` undo each other (`OffsetUndoes`); `toDate` and `toTime` split an instant at its midnight (`DateAndTime`) |
| `lexer` | 187 912 | the longest token, always something, and comments are no tokens (`MaximalMunch`); strings and patterns are the bytes their characters and escapes stand for (`EscapesExact`) |
| `deep_claim` | violation | a comment says any accepted tree evaluates within the depth limit; a chain of operators half as long as the parser's limit does not |
| `slot_claim` | violation | a comment says only keywords give an entity a slot; a literal that names a request entity gets one too |
| `error_claim` | violation | a comment says an evaluation error denies; a forbid that errs is skipped and a permit may allow |

Bounds, and why they are enough:

- `policy_eval`: three policies out of four (a permit and a forbid that match by
  group, a permit whose condition needs memory, a forbid that errs), three
  requests, a first list of one cell.  The list reaches 1, 2 and 4 cells, so a
  growth, a copy and a refusal happen at the first, second and third match;
  every order of permits and forbids occurs, with and without a detail.
- `eval_context`: one root, four containers, two names, two elements per array,
  a ceiling of 2.  A chain of three containers would pass the ceiling, by every
  mix of kinds; two names give every duplicate.  Arrays and names are
  interchangeable (symmetry).
- `expr_eval`: `Long` has three bits, so that every operator overflows; the depth
  limit is 5 and the tallest trees have 6 levels.  Three contexts: three
  different entities; principal and resource of one identity that agree; and
  of one identity that do not.  Every operator meets operands of the right and
  of wrong types, errors on either side, and entities from keywords, literals,
  attributes, records, sets and conditionals.  `MCComparable` lists what the conditions
  compare: every kind of scalar, sets of up to two, and sets in those.
- `value_equals`: limits of depth 2 and 3 elements; pairs grown in six steps reach
  depth 3, four elements, repeated elements and nested sets in every order.
- `like_match`: texts of four pieces and subjects of five characters from
  {a, b, *}, and subjects of four with the byte 0xFF, which stands for the wildcard
  in a compiled pattern; two wildcards with letters around them make the matcher go
  back more than once.
- `parser`: every limit is 2 or 3, and the texts go to each limit and one past
  it, alone and nested in one another: each production right, with a token
  left out, doubled or replaced, with an `error` token, and unfinished.  A
  refused allocation may come at any node, array or name, in scopes too.
- `parse_eval`: two levels of nesting, two operators in a chain, one member step,
  and a depth limit of 22, which the tallest text reaches exactly; a chain beyond
  its limit would be taller.  `deep_claim` has the limits of the code divided
  by 16, which keeps their proportions.
- `extension`: decimal texts of up to 8 characters and durations of 7 over the
  signs, separators and digits that decide, with a Long of five digits whose
  ends they spell; addresses of up to 8 characters with three groups, every
  position and number of gaps, and all prefixes; every IPv4 range of two bytes and the
  IPv6 ranges that differ in one byte, with every prefix, in one another; 400 days from nine places where
  calendars go wrong, with days of 24 ms; all pairs of seven-bit instants, whose
  range is no multiple of the day.
- `lexer`: texts of up to four words out of fourteen that make tokens with their
  neighbours or do not, and strings of up to two pieces out of thirty: every
  escape and every border between the lengths of UTF-8, beside every other.

Fairness: only `Step` (what the evaluator does once called) is weakly fair in
`PolicyEval` and in `Parser`, and `Next` in `LikeMatch`: the code runs on the worker's only
thread and never waits, so a step that stays possible is taken.  Nothing is
assumed of the caller, and `AllocationFails` is never forced.  Deadlock is off in `eval_context`, where memory for
containers ends, and in `like_match`, `parser`, `parse_eval`, `extension` and `lexer`,
whose behaviours end: a call, a text or a walk is over.

## What is proved

All proofs are for every value of the constants under the modules' named
assumptions; TLC evaluates those assumptions on the instances above.

- **PolicyEvalProofs**: `IInv` adds to the properties `PassInv`, what a pass has
  established so far: which of the first `i - 1` policies contribute, that
  `has` says whether any does, that a permit pass starts only when no forbid
  contributed, and that the list is exactly the contributing ones so far.  With
  it each action preserves each conjunct, and `TypeOK`, `DecisionSound`,
  `ReasonsSound` and `ListInBounds` follow (`TypeCorrect`, `DecisionCorrect`,
  `ReasonsCorrect`, `ListMemorySafe`).  `Refinement` maps each step to
  `Submit`, `Refuse`, `Decide` or a stutter of `Authorization`.
- **Induction** has what the other modules prove by induction with: a set of
  naturals that is not empty has a least member (`LeastNumber`), so a step from
  each number to the next reaches all (`Induction`); and a function over the
  naturals that is defined by its value before is what it says (`Recursion`).
  The library's own theorems take an operator and cannot be cited here.
- **EvalContextProofs**: `IInv` adds `Fresh` (an array no handle reaches is empty, and
  the roots, at depth 0, are the only entities).  Every call is one of two shapes, a scalar push or a nesting,
  and the proof is made once for each.  `TypeCorrect`, `NamesStayUnique`,
  `ContainersFormForest`, `DepthCountsNesting`.  `WalksStayWithinCeiling`: what
  a walk finds at its kth level lies at depth k, by induction on k, so it finds
  nothing below the ceiling.
- **ExprEvalProofs**: four invariants, each on top of the one before, and on the last
  of them the meaning of a condition.
  - `FaultCarried` says where a fault is while operators above it have not
    returned: among the values of the innermost frame, or in the answer.  It gives
    `FaultsBecomeErrors`; `DepthIsExact` says the recursion counter is the number
    of frames.
  - `SoundInv`: every value in a frame or answered belongs to a set of values that is
    closed under what they hold, with its tag sound and nothing tagged inside (`SlotsAreSound`,
    `TypesAreKept`); the frames are a way down the condition (`Descends`,
    `Rooted`).
  - a node with at most `d` levels of operands has operands with at most `d - 1`,
    by induction on `Level`, so a stack at the limit is over a condition that is too
    deep: `OnlyDeepIsCutOff`.
  - `Worked`: there is a set of pairs of a node and a value (`Table`), each justified by
    others of a lower rank by one use of `Awaited` and `Result`, that holds all
    values in frames and answers.  By induction on ranks a node has one value in
    a table (`OneValue`), in any two tables.  Hence `AnswersAreValues`: an answer is
    the value of its condition by the rules alone, whatever was evaluated before
    or between; `HasGuardsAccess`: the object of a `has` and that of the access it
    guards are one value; and `ScopesAgree`: of a condition that says what a scope
    says, the value is what `PolicyMatch` computes for the scope, by the kind of
    the condition.
  - `AnswersMean` (`AnswerMeans`): an answer is what the condition means.  The recursive
    definitions are unfolded once and for all: by induction on levels (`HeightSteps`)
    there is a function that satisfies their equations, so what they choose does too
    (`MeaningSteps`, `CoveredSteps`).  For each operator, if the values of the operands
    are what these mean once their tags are dropped, `Result` is what the node means
    (`NodeMeans`, from `LogicMeans`, `InMeans`, `AccessMeans`, `ArithMeans`,
    `SetMethodMeans` and so on): an operand that a short circuit leaves out does not
    matter, parents found by a tag are the ancestors of the identity (`LookupMeans`), the
    first attribute of a name is the only one (`FirstNamed`), and a scan that stops
    early answers the quantifier (`ScanFinds`).  By induction on the ranks of a table it
    holds for every value in it (`EvaluatesMeaning`), so for answers.
- **LikeMatchProofs**: `Paid` says each iteration either moved `p` on or was paid for
  by a move of `star_s`: the work is at most `star_s * (L + 1) + p`.  It gives
  `WorkIsBounded`, with `PointersInBounds`.  `AnswersRight`: the pieces of a text and the
  compiled pattern stand for the same (`Kept`: a run of wildcards is one); the
  invariant `Found` says that a match of the whole exists just if one of the rest does,
  from where the pointers are or from a later place of the last wildcard, which
  is where giving up the earlier wildcards loses nothing.
- **ParserProofs**: `StackInvariant` is a shape of the stack: which frame may stand on
  which (`Below`), the counters as sums over the frames, and for each frame a
  bound on its place from the counted frames under it.  An expression, a policy
  and a set frame are pushed by different actions, and each action is one of a
  few shapes (push, replace the top, pop, give up).  `CountersAreExact` and
  `RecursionIsBounded` follow, for all limits and all texts.  `ReadInvariant` adds
  what has been read: no error token lies behind `pos` unless `error` is set, each
  frame has a tree for every place it will link, and what was accepted was read
  to its end; it gives `ErrorsAreNeverPassed` and `NullIsNeverLinked`.

  `LimitsAreEnough` (`LimitsSuffice`) is about parser and evaluator together.  That a
  tree has at most `h` levels (`Within`) is said with `Levels`, a function from a
  number to a set of trees, and not by recursion on the tree.  `Yields` is how tall a
  tree a call may return with so many nested expressions left to it, and
  `HeightInvariant` that every frame keeps to it: what it has linked so far, with the
  operators it has still to read up to its limit on chains, stays within what its
  caller expects.  So a whole condition is within `HeightOf(MaxParseDepth)`.  Then
  `EvalInv`: the frame at place `i` of the evaluator's stack is for a tree of at most
  that many levels less `i - 1`, so the evaluator is never called at its limit.  It is
  an invariant of every order in which accepted conditions are evaluated, with memory
  refused anywhere in either part.
- **ValueEqualsProofs**: sameness is symmetric and transitive at every level
  (`SameSymmetric`, `SameTransitive`), so what an element may be paired with is a
  block that it shares with all it equals.  Then first fit loses nothing: when the
  loop over a set finds no free partner for its kth element, the free ones equal
  none of the block, its members are one too many for the taken ones, and no
  pairing exists, whatever was chosen before (`NoneLeft`, by the pigeonhole
  principle).  In a record a name stands once on each side (`RecordLoop`).  By induction
  on the levels left, `EqualityIsExact`, and, since no error arises in a loop
  without one (`NoErrorArises`), `EqualityIsTotal`; with symmetry, `SidesAgree`.  They
  hold for all values of any height over any scalars and for all limits, and give
  the three properties of the run.
- **ExtensionProofs**: `CalendarExact`: for every year, the number of a date is one
  more than that of the date before, and 1970-01-01 is 0; by the length of the
  March year and of each month.  `LiteralFits`: the instant of a literal that
  passed validation is far inside int64_t, which is why its sums need no check.
  `OffsetAndSince`, `DateAndTimeSplit`, `UnitsAreWhole`: the methods, for every
  width of the integers and every length of the units, with C's division.
  `ContainmentIsInclusion` (`ContainsExact`): the addresses of a range are a block of
  consecutive numbers, and a block lies in a larger one just if dividing by the larger
  size gives the same (`BlockInside`); that quotient is the number of the first bytes
  and the high bits of the next (`FirstBytes`, `HighBits`), the same for two addresses
  just if those are (`SameBits`).  For all sizes of bytes and addresses.

Only model-checked:

- liveness (`Terminates`, three times): beyond the provers.
- `ParsesGrammar`: the trees of a grammar are given by recursive operators on texts,
  which the prover does not take.
- the literals (`NumbersExact`, `DatetimeExact`, `IpExact`) and the lexer
  (`MaximalMunch`, `EscapesExact`): what they are compared with are finite tables of
  texts, listed for TLC.

## Disagreements

Met while modelling.  The first three have a run that shows them; the other four are
left out of a property, at the place named.

- Evaluator's depth: `types.h:410-412` says 128 lets "any AST the parser accepts"
  evaluate; chains of up to 256 operators are left-deep trees (`deep_claim`).  The
  condition then errs and its policy, a forbid too, is skipped.  By `LimitsSuffice`
  the limit that suffices grows with the product of nesting and chains.
- Slots: `types.h:434-438` (`slot_claim`).
- Errors that deny: `expr.c:2363-2365` (`error_claim`).
- `toDate` (`expr.c:1510`) subtracts without a check: an instant on the first day of
  the range, which `offset` can reach, overflows.  `FEATURES.md:164` says it
  truncates to midnight of the same day.  `DateAndTime` is about all other instants,
  and fails when its hypothesis is dropped.
- `::` after eight groups (`expr.c:331`): `gap_pos` is then 8, which also stands for
  no gap, and `1:2:3:4:5:6:7:8::` is accepted, although a gap "must expand to at
  least one zero group" (`expr.c:351`).  `IpExact` leaves these texts out
  (`Superfluous`), and fails when it does not.
- `\'` (`lexer.c:262`) is an invalid escape; `FEATURES.md:50` lists it for strings.
  The pieces of `EscapesExact` (`MCLexer.Pieces`) do not have it.
- `==` (`expr.c:937`) errs on values nested deeper than 32, which the parser (64)
  accepts; `FEATURES.md:72` calls it a "total function".  `TotalWithinLimits` is
  about values within the limits.

## What is not modelled

- The test runner, the nginx shims and the Rust reference oracle: not part of the
  library.
- `nxe_cedar_policy_get_annotation` (a search that changes nothing), setting the
  request's entities and appending parents (assignments without a check), logs.
- The lifetime of the text: strings without an escape point into it
  (`lexer.c:326`), so it has to outlive the policies; who owns it is up to the
  caller.
- Bytes that no test of the lexer tells apart: one letter or digit stands for others.
- Calls with NULL arguments, except the missing policy set or context of an
  evaluation: they change nothing.
- An entity injected as an attribute value that equals a request entity has no
  slot, so its attributes and parents are not found.  The comments say this is
  intended; `AnswerMeans` leaves such conditions out (`AsksNamedEntities`).
- What `==` gives for values beyond the limits of equality, inside a condition:
  `AnswerMeans` leaves such conditions out too; `ValueEquals` has the limits.

## Plan

1. Proofs: `ParsesGrammar`, with the grammar as functions on spans of a text; that the
   longest token is found, for any text.
2. Lexer and parser as one: the tokens of `Parser` from `Lexer`'s calls, with the
   one token of lookahead.
3. Splitting what an action of `EvalContext` groups together: the typed calls one by
   one, where they differ in what they check.
