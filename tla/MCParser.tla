------------------------------- MODULE MCParser -------------------------------
(***************************************************************************)
(* A small instance of Parser: sentences that use every production, up to  *)
(* its limits and past them, and everything one token away from them.      *)
(***************************************************************************)
EXTENDS Grammar

MCMinLong == -4
MCMaxLong == 3

\* A token by what stands for it in the sentences below
Read(w) ==
  CASE w \in {"1", "3", "4", "5"} ->
         [t |-> "number", v |-> CASE w = "1" -> 1 [] w = "3" -> 3 [] w = "4" -> 4 [] OTHER -> 5]
    [] w \in {"A", "B"}  -> [t |-> "ident", v |-> w]
    [] w \in {"'a'", "'b'"} -> [t |-> "string", v |-> IF w = "'a'" THEN "A" ELSE "B"]
    [] w = "''"          -> [t |-> "string", v |-> ""]
    [] w = "'*'"         -> [t |-> "pattern", v |-> "*"]
    [] OTHER             -> [t |-> w, v |-> w]

Head0 == <<"permit", "(", "principal", ",", "action", ",", "resource", ")">>

\* Conditions
Expressions == {
  <<"A", "::", "'a'", "==", "principal", ".", "A">>,
  <<"if", "true", "then", "-", "4", "else", "3">>,
  <<"-", "3", "*", "1", "+", "3", "-", "A", "::", "'b'">>,
  <<"!", "(", "principal", "in", "[", "action", ",", "resource", "]", ")">>,
  <<"principal", "is", "A", "::", "B", "in", "B", "::", "'b'">>,
  <<"context", "has", "ip", "&&", "context", ".", "ip", ".", "B", "(", "ip", "(", "'a'", ")", ")">>,
  <<"{", "A", ":", "1", ",", "'b'", ":", "{", "}", ",", "}", "[", "'a'", "]">>,
  <<"context", "[", "'b'", "]", "like", "'*'">>,
  <<"-", "!", "true", "||", "false", "&&", "3", "<", "1", "||", "true">>,
  <<"[", "[", "]", "]", ".", "A", "(", ")", "!=", "3">>}

\* Policies with scopes, annotations and more than one condition
Sentences == {
  <<"@", "A", "(", "'a'", ")", "@", "ip", "forbid", "(", "principal", "is", "A", "in", "A",
    "::", "'a'", ",", "action", "==", "B", "::", "'b'", ",", "resource", "in", "A", "::", "'a'",
    ")", ";">>,
  <<"permit", "(", "principal", ",", "action", "in", "[", "A", "::", "'a'", ",", "B", "::",
    "B", "::", "'b'", "]", ",", "resource", "is", "A", ")", "unless", "{", "true", "}",
    "when", "{", "1", "}", ";">>,
  Head0 \o <<";">> \o Head0 \o <<";">> }

\* At a limit, and one past it
Limits == {
  <<"1", "+", "1", "-", "3">>, <<"1", "+", "1", "-", "3", "+", "1">>,
  <<"1", "*", "1", "*", "1", "*", "1">>, <<"true", "&&", "1", "&&", "1", "&&", "1">>,
  <<"true", "||", "1", "||", "1", "||", "1">>,
  <<"principal", ".", "A", "[", "'a'", "]">>, <<"principal", ".", "A", "[", "'a'", "]", ".", "ip">>,
  <<"(", "(", "1", ")", ")">>, <<"(", "(", "(", "1", ")", ")", ")">>,
  <<"!", "-", "true">>, <<"!", "-", "!", "true">>, <<"!", "(", "-", "true", ")">>,
  <<"[", "1", ",", "1", "]">>, <<"[", "1", ",", "1", ",", "1", "]">>,
  <<"{", "A", ":", "{", "B", ":", "1", "}", "}">>,
  <<"{", "A", ":", "{", "B", ":", "{", "}", "}", "}">>,
  <<"{", "A", ":", "1", ",", "B", ":", "1", ",", "ip", ":", "1", "}">>,
  <<"{", "A", ":", "1", ",", "'a'", ":", "1", "}">>,
  <<"1", "is", "A", "::", "B", "::", "A">>, <<"A", "::", "B", "::", "'a'">>,
  <<"A", "::", "B", "::", "A", "::", "'a'">>,
  <<"-", "3", ".", "A">>, <<"-", "4">>, <<"4">>, <<"-", "5">>, <<"3", ".", "A">>,
  <<"if", "if", "true", "then", "1", "else", "1", "then", "1", "else", "1">>,
  <<"1", "<", "1", "<", "1">>, <<"1", "has", "''">>, <<"1", "[", "''", "]">> }
When(n) == IF n = 0 THEN <<>> ELSE IF n = 1 THEN <<"when", "{", "1", "}">>
           ELSE <<"when", "{", "1", "}", "unless", "{", "1", "}">>
Repeated == {
  <<"@", "A", "@", "B">> \o Head0 \o <<";">>, <<"@", "A", "@", "B", "@", "ip">> \o Head0 \o <<";">>,
  <<"@", "A", "@", "A">> \o Head0 \o <<";">>,
  Head0 \o When(2) \o <<";">>, Head0 \o When(2) \o When(1) \o <<";">>,
  Head0 \o <<";">> \o Head0 \o <<";">> \o Head0 \o <<";">>, <<>>, <<"error">> }

Alphabet == {"(", ")", "[", "]", "{", "}", ",", "::", ".", "A", "'a'", "''", "'*'", "3", "5", "-",
             "&&", "in", "is", "if", "error", ";", "@", "when"}

Edits(s, lo, hi) ==
  {SubSeq(s, 1, k - 1) \o SubSeq(s, k + 1, Len(s)) : k \in lo..hi} \cup
  {SubSeq(s, 1, k - 1) \o <<w>> \o SubSeq(s, k + 1, Len(s)) : k \in lo..hi, w \in Alphabet} \cup
  {SubSeq(s, 1, k - 1) \o <<w>> \o SubSeq(s, k, Len(s)) : k \in lo..hi, w \in Alphabet}

InPolicy(e) == Head0 \o <<"when", "{">> \o e \o <<"}", ";">>

MCWords == Sentences \cup Repeated \cup {InPolicy(e) : e \in Expressions \cup Limits}
             \cup UNION {Edits(s, 1, Len(s)) : s \in Sentences}
             \cup UNION {{InPolicy(x) : x \in Edits(e, 1, Len(e))} : e \in Expressions}

MCText == {[k \in DOMAIN s |-> Read(s[k])] : s \in MCWords}
MCToken == UNION {{s[k] : k \in DOMAIN s} : s \in MCText}

-------------------------------------------------------------------------------
(* The parser accepts a text exactly when the grammar has a reading of it, *)
(* and builds that reading.                                                *)
ParsesGrammar ==
  Done /\ ~oom => IF Accepted THEN Meanings(text) = {ret.kids} ELSE Meanings(text) = {}
===============================================================================
