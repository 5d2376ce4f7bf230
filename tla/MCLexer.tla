--------------------------------- MODULE MCLexer ---------------------------------
(***************************************************************************)
(* Texts put together from chunks: any few characters that may or may not  *)
(* make tokens with their neighbours, and strings of characters and        *)
(* escapes, each chunk with what it adds to the string's value and to a    *)
(* pattern.                                                                *)
(***************************************************************************)
EXTENDS Lexer

CONSTANTS CodeChunks, StringChunks  \* how many of either make a text

VARIABLE chunks  \* what the input is put together from: strings only

Flat(s) == FlattenSeq(s)
UpTo(S, n) == UNION {[1..k -> S] : k \in 0..n}

-------------------------------------------------------------------------------
(* Characters                                                              *)

Chars == <<" ", "\n", "/", "\"", "\\", "=", "!", "<", "&", ":", "-", "#", "*", "{", "}",
           "0", "1", "2", "4", "7", "8", "D", "E", "F", "a", "i", "n", "q", "r", "t",
           "u", "x", "byte 255">>
Bytes == <<32, 10, 47, 34, 92, 61, 33, 60, 38, 58, 45, 35, 42, 123, 125,
           48, 49, 50, 52, 55, 56, 68, 69, 70, 97, 105, 110, 113, 114, 116,
           117, 120, 255>>
Place(c) == CHOOSE k \in DOMAIN Chars : Chars[k] = c
MCCode == [c \in Range(Chars) |-> Bytes[Place(c)]]

HexChars == <<"0", "1", "2", "4", "7", "8", "D", "E", "F", "a">>
HexValues == <<0, 1, 2, 4, 7, 8, 13, 14, 15, 10>>
MCHexValue ==
  [c \in Range(HexChars) |-> HexValues[CHOOSE k \in DOMAIN HexChars : HexChars[k] = c]]

MCLetter == {"a", "i", "n", "q", "r", "t", "u", "x", "D", "E", "F"}
MCKeywords == [w \in {<<"i", "n">>} |-> "in"]

-------------------------------------------------------------------------------
(* Texts                                                                   *)

Words == {<<c>> : c \in {" ", "\n", "\"", "\\", "=", "<", "&", ":", "#", "i", "1"}}
           \cup {<<"/", "/">>, <<"i", "n">>, <<"\"", "a", "\"">>}

\* A piece of a string, the bytes it adds to its value and to a pattern
Chunk(s, value, pattern) == [s |-> s, value |-> value, pattern |-> pattern]
Plain(s, bytes) == Chunk(s, {bytes}, {bytes})
Star1(s) == Chunk(s, {<<42>>}, {<<255>>})
Wrong(s) == Chunk(s, {}, {})
U(digits) == <<"\\", "u", "{">> \o digits \o <<"}">>

Pieces ==
  {Plain(<<"a">>, <<97>>), Star1(<<"*">>),
   Chunk(<<"*", "*">>, {<<42, 42>>}, {<<255, 255>>}), Plain(<<"\\", "*">>, <<42>>),
   Star1(<<"\\", "x", "2", "a">>), Star1(U(<<"2", "a">>)),
   Chunk(<<"\\", "x", "F", "F">>, {<<255>>}, {}), Chunk(<<"byte 255">>, {<<255>>}, {}),
   Plain(<<"\\", "n">>, <<10>>), Plain(<<"\\", "r">>, <<13>>), Plain(<<"\\", "t">>, <<9>>),
   Plain(<<"\\", "0">>, <<0>>), Plain(<<"\\", "\\">>, <<92>>),
   Plain(<<"\\", "\"">>, <<34>>),
   Plain(U(<<"7", "F">>), <<127>>), Plain(U(<<"8", "0">>), <<194, 128>>),
   Plain(U(<<"7", "F", "F">>), <<223, 191>>), Plain(U(<<"8", "0", "0">>), <<224, 160, 128>>),
   Plain(U(<<"E", "0", "0", "0">>), <<238, 128, 128>>),
   Plain(U(<<"F", "F", "F", "F">>), <<239, 191, 191>>),
   Plain(U(<<"1", "0", "0", "0", "0">>), <<240, 144, 128, 128>>),
   Plain(U(<<"1", "0", "F", "F", "F", "F">>), <<244, 143, 191, 191>>),
   Wrong(U(<<"1", "1", "0", "0", "0", "0">>)), Wrong(U(<<"D", "8", "0", "0">>)),
   Wrong(U(<<"D", "F", "F", "F">>)), Wrong(U(<<>>)),
   Wrong(U(<<"0", "0", "0", "0", "0", "4", "1">>)), Wrong(<<"\\", "u", "{", "4">>),
   Wrong(<<"\\", "x", "q">>), Wrong(<<"\\", "q">>)}

Quoted(cs) == <<"\"">> \o Flat([k \in DOMAIN cs |-> cs[k].s]) \o <<"\"">>

MCInit ==
  /\ \/ \E w \in UpTo(Words, CodeChunks) : input = Flat(w) /\ chunks = {}
     \/ \E cs \in UpTo(Pieces, StringChunks) : input = Quoted(cs) /\ chunks = {cs}
  /\ Init

MCSpec == MCInit /\ [][Next /\ UNCHANGED chunks]_<<vars, chunks>>

-------------------------------------------------------------------------------
(* The lexical grammar, over the characters of the texts above             *)

RECURSIVE IsInner(_)
IsInner(w) ==
  \/ w = <<>>
  \/ w[1] \notin {"\"", "\\"} /\ IsInner(Tail(w))
  \/ Len(w) > 1 /\ w[1] = "\\" /\ w[2] \in {"\\", "\"", "n"} /\ IsInner(Tail(Tail(w)))

IsLexeme(t, w) ==
  CASE t = "ident"  -> w[1] \in Letter /\ Range(w) \subseteq Letter \cup Digit
                       /\ w # <<"i", "n">>
    [] t = "in"     -> w = <<"i", "n">>
    [] t = "number" -> Range(w) \subseteq Digit
    [] t = "string" -> /\ Len(w) > 1 /\ w[1] = "\"" /\ w[Len(w)] = "\""
                       /\ IsInner(SubSeq(w, 2, Len(w) - 1))
    [] OTHER -> w = CASE t = "==" -> <<"=", "=">> [] t = "!=" -> <<"!", "=">>
                      [] t = "<=" -> <<"<", "=">> [] t = "&&" -> <<"&", "&">>
                      [] t = "::" -> <<":", ":">> [] OTHER -> <<t>>
Types == {"ident", "in", "number", "string", "==", "!=", "<=", "&&", "::", "!", "<", ":", "-"}

Span(from, end) == SubSeq(input, from, end - 1)

\* The ends of the lexemes that begin at p
Lexemes(p) ==
  {<<t, end>> \in Types \X (p + 1..Len(input) + 1) : IsLexeme(t, Span(p, end))}

\* From from to before end there is no newline, but // somewhere.
InComment(p, from) ==
  \E k \in from..p - 1 : /\ input[k] = "/" /\ input[k + 1] = "/"
                         /\ \A l \in k..p - 1 : input[l] # "\n"

(* What comes between two tokens is blank or comment, no token begins in a *)
(* comment, and each is the longest that begins where it does; an error is *)
(* reported exactly where no token can begin, and still takes something of *)
(* the text, so that the next call is about another place                  *)
(* (lexer.c:49-88, 272-662).  Strings here have the escapes \\, \" and \n  *)
(* only: see EscapesExact.                                                 *)
MaximalMunch ==
  chunks = {} /\ tokens # <<>> =>
    LET k == Len(tokens)
        last == tokens[k]
        from == IF k = 1 THEN 1 ELSE tokens[k - 1].end IN
    /\ from <= last.from /\ last.end = pos /\ pos <= Len(input) + 1
    /\ last.from < last.end \/ last.t = "eof"
    /\ \A p \in from..last.from - 1 : input[p] \in {" ", "\n"} \/ InComment(p + 1, from)
    /\ ~ \E p \in {last.from} : p <= Len(input) /\ InComment(p, from)
    /\ CASE last.t = "eof"   -> last.from = Len(input) + 1
         [] last.t = "error" -> ~ \E l \in Lexemes(last.from) :
                                    l[1] # "string" \/ last.end > l[2]
         [] OTHER -> /\ <<last.t, last.end>> \in Lexemes(last.from)
                     /\ \A l \in Lexemes(last.from) : l[2] <= last.end

Value(cs) == Flat([k \in DOMAIN cs |-> CHOOSE v \in cs[k].value : TRUE])

\* Bytes that a pattern without its repeated wildcards has
RECURSIVE Squeezed(_)
Squeezed(s) ==
  IF Len(s) < 2 THEN s
  ELSE IF s[1] = 255 /\ s[2] = 255 THEN Squeezed(Tail(s))
  ELSE <<s[1]>> \o Squeezed(Tail(s))

\* What the lexer has made of the string
ReadAsString(cs) ==
  /\ tokens[1].end = Len(input) + 1
  /\ IF oom \/ \E k \in DOMAIN cs : cs[k].value = {} THEN tokens[1].t = "error"
     ELSE /\ tokens[1].t = "string" /\ tokens[1].value = Value(cs)
          /\ tokens[1].star <=> \E k \in DOMAIN cs : cs[k].s = <<"\\", "*">>

\* What the pattern compiler makes of it
ReadAsPattern(cs) ==
  CompilePattern(SubSeq(input, 2, Len(input) - 1)) =
    IF \E k \in DOMAIN cs : cs[k].pattern = {} THEN {}
    ELSE {Squeezed(Flat([k \in DOMAIN cs |-> CHOOSE v \in cs[k].pattern : TRUE]))}

(* A string is the bytes its characters and escapes stand for, each escape *)
(* decoded alone whatever comes next to it, code points in UTF-8, and \*   *)
(* is remembered; the string is refused, as a whole, just if it holds      *)
(* something else or memory ran out (lexer.c:110-388).  The pattern        *)
(* compiler reads the text of the string again, on its own, and sees the   *)
(* same pieces in it: a pattern has the bytes of the value with wildcards  *)
(* for the stars that are not written \*, however else they are written,   *)
(* and no byte of a text can pass for a wildcard (parser.c:144-248).       *)
(* No piece is \', which the code refuses (lexer.c:161-263) although       *)
(* FEATURES.md:50 lists it.                                                *)
EscapesExact ==
  \A cs \in chunks : IF tokens = <<>> THEN ReadAsPattern(cs) ELSE ReadAsString(cs)
================================================================================
