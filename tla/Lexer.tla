---------------------------------- MODULE Lexer ----------------------------------
(***************************************************************************)
(* nxe_cedar_lexer_next, call by call, over one policy text, and what is   *)
(* made of the text of a string: its value, and the pattern it is when it  *)
(* comes after `like'.  A text is a sequence of characters, a value one of *)
(* bytes; what may be refused is a set of at most one.                     *)
(***************************************************************************)
EXTENDS Integers, SequencesExt

CONSTANTS
  Code,      \* the byte of each character
  HexValue,  \* the value of each hexadecimal digit
  Letter,    \* what an identifier may begin with
  Keywords   \* nxe_cedar_keywords: a token type for each reserved word

ASSUME CodeAssumption == \A c \in DOMAIN Code : Code[c] \in 0..255

Text == Seq(DOMAIN Code)

VARIABLES
  input,   \* lexer->input
  pos,     \* lexer->pos, counted from 1
  tokens,  \* history: the tokens returned, each with the span it stands for
  oom      \* history: an allocation was refused

vars == <<input, pos, tokens, oom>>

Digit == {"0", "1", "2", "3", "4", "5", "6", "7", "8", "9"}
Blank == {" ", "\t", "\n", "\r"}
Hex == DOMAIN HexValue

At(p, chars) == p <= Len(input) /\ input[p] \in chars

\* Where the characters of s end that begin at p
RunEnd(s, p, chars) ==
  CHOOSE q \in p..Len(s) + 1 :
    /\ q <= Len(s) => s[q] \notin chars
    /\ \A k \in p..q - 1 : s[k] \in chars

LineEnd(p) == RunEnd(input, p, DOMAIN Code \ {"\n"})

\* nxe_cedar_lexer_skip_whitespace
SkipWhitespace ==
  LET skip[p \in 1..Len(input) + 2] ==
        IF At(p, Blank) THEN skip[p + 1]
        ELSE IF At(p, {"/"}) /\ At(p + 1, {"/"}) THEN skip[LineEnd(p + 2)]
        ELSE p
  IN skip[pos]

-------------------------------------------------------------------------------
(* Strings                                                                 *)

Star == 42
Wildcard == 255

\* nxe_cedar_utf8_encode
Utf8(cp) ==
  LET Low(n) == 128 + ((cp \div 64 ^ n) % 64) IN
  IF cp <= 127 THEN <<cp>>
  ELSE IF cp <= 2047 THEN <<192 + cp \div 64, Low(0)>>
  ELSE IF cp <= 65535 THEN <<224 + cp \div 64 ^ 2, Low(1), Low(0)>>
  ELSE <<240 + cp \div 64 ^ 3, Low(2), Low(1), Low(0)>>

Number(s, first, last) ==
  FoldLeft(LAMBDA n, c : n * 16 + HexValue[c], 0, SubSeq(s, first, last))

\* Variant with a bug: half of a surrogate pair is taken for a character.
IsCharacterAny(cp) == cp <= 1114111

IsCharacter(cp) == cp <= 1114111 /\ cp \notin 55296..57343

Single == {"\"", "\\", "n", "r", "t", "0"}
SingleByte(c) ==
  CASE c = "n" -> 10 [] c = "r" -> 13 [] c = "t" -> 9 [] c = "0" -> 0 [] OTHER -> Code[c]

\* nxe_cedar_decode_escape, at p after the backslash of s
DecodeEscape(s, p, reject_xff) ==
  LET close == RunEnd(s, p + 2, Hex) IN
  IF p > Len(s) THEN {}
  ELSE IF s[p] \in Single THEN {[bytes |-> <<SingleByte(s[p])>>, end |-> p + 1]}
  ELSE IF s[p] = "x" /\ p + 2 <= Len(s) /\ {s[p + 1], s[p + 2]} \subseteq Hex
  THEN {e \in {[bytes |-> <<Number(s, p + 1, p + 2)>>, end |-> p + 3]} :
          ~(reject_xff /\ e.bytes = <<Wildcard>>)}
  ELSE IF s[p] = "u" /\ p < Len(s) /\ s[p + 1] = "{" /\ close - (p + 2) \in 1..6
          /\ close <= Len(s) /\ s[close] = "}"
  THEN {[bytes |-> Utf8(cp), end |-> close + 1] :
          cp \in {cp \in {Number(s, p + 2, close - 1)} : IsCharacter(cp)}}
  ELSE {}

\* The second loop of nxe_cedar_lexer_read_string, over what is in quotes
Unescape(s) ==
  LET Piece(p) ==
        IF s[p] # "\\" \/ p = Len(s)
        THEN {[bytes |-> <<Code[s[p]]>>, end |-> p + 1, star |-> FALSE]}
        ELSE IF s[p + 1] = "*" THEN {[bytes |-> <<Star>>, end |-> p + 2, star |-> TRUE]}
        ELSE {[bytes |-> e.bytes, end |-> e.end, star |-> FALSE] :
                e \in DecodeEscape(s, p + 1, FALSE)}
      from[p \in 1..Len(s) + 1] ==
        IF p > Len(s) THEN {[bytes |-> <<>>, star |-> FALSE]}
        ELSE UNION {{[bytes |-> x.bytes \o rest.bytes, star |-> x.star \/ rest.star] :
                       rest \in from[x.end]} : x \in Piece(p)}
  IN from[1]

\* A star that an escape produced is a wildcard.
PatternBytes(bytes) == IF bytes = <<Star>> THEN <<Wildcard>> ELSE bytes

\* A run of wildcards becomes one.
Compressed(bytes) ==
  FoldLeft(LAMBDA out, b : IF b = Wildcard /\ out # <<>> /\ Last(out) = Wildcard
                           THEN out ELSE Append(out, b), <<>>, bytes)

\* nxe_cedar_parser_compile_pattern
CompilePattern(s) ==
  LET Piece(p) ==
        CASE Code[s[p]] = Wildcard -> {}
          [] s[p] = "*" -> {[bytes |-> <<Wildcard>>, end |-> p + 1]}
          [] s[p] = "\\" /\ p = Len(s) -> {}
          [] s[p] = "\\" /\ p < Len(s) ->
               IF s[p + 1] = "*" THEN {[bytes |-> <<Star>>, end |-> p + 2]}
               ELSE {[bytes |-> PatternBytes(e.bytes), end |-> e.end] :
                       e \in DecodeEscape(s, p + 1, TRUE)}
          [] OTHER -> {[bytes |-> <<Code[s[p]]>>, end |-> p + 1]}
      from[p \in 1..Len(s) + 1] ==
        IF p > Len(s) THEN {<<>>}
        ELSE UNION {{x.bytes \o rest : rest \in from[x.end]} : x \in Piece(p)}
  IN {Compressed(bytes) : bytes \in from[1]}

\* The quote that ends the string whose first quote is at p, or past the end
Closing(p) ==
  LET scan[q \in 1..Len(input) + 1] ==
        IF q > Len(input) \/ input[q] = "\"" THEN q
        ELSE IF input[q] = "\\" /\ q < Len(input) THEN scan[q + 2]
        ELSE scan[q + 1]
  IN scan[p + 1]

-------------------------------------------------------------------------------
(* The calls of nxe_cedar_lexer_next                                       *)

Ended == tokens # <<>> /\ Last(tokens).t = "eof"

\* The call returns a token for the text from `from' to before `end'.
ReturnsValue(t, from, end, value, star) ==
  /\ tokens' = Append(tokens, [t |-> t, from |-> from, end |-> end,
                               value |-> value, star |-> star])
  /\ pos' = end
  /\ UNCHANGED input

Returns(t, from, end) == ReturnsValue(t, from, end, <<>>, FALSE)

EndOfInput ==
  /\ ~Ended /\ SkipWhitespace > Len(input) /\ UNCHANGED oom
  /\ Returns("eof", SkipWhitespace, SkipWhitespace)

ReadString ==
  LET p == SkipWhitespace
      q == Closing(p)
      values == Unescape(SubSeq(input, p + 1, q - 1)) IN
  /\ At(p, {"\""}) /\ UNCHANGED oom
  /\ \/ q > Len(input) /\ Returns("error", p, q)
     \/ q <= Len(input) /\ values = {} /\ Returns("error", p, q + 1)
     \/ q <= Len(input) /\ \E v \in values :
          ReturnsValue("string", p, q + 1, v.bytes, v.star)

\* Only a string that holds an escape is copied.
AllocationFails ==
  LET p == SkipWhitespace
      q == Closing(p) IN
  /\ At(p, {"\""}) /\ q <= Len(input) /\ \E k \in p..q : input[k] = "\\"
  /\ Returns("error", p, q + 1)
  /\ oom' = TRUE

ReadNumber ==
  LET p == SkipWhitespace IN
  At(p, Digit) /\ Returns("number", p, RunEnd(input, p, Digit)) /\ UNCHANGED oom

ReadIdent ==
  LET p == SkipWhitespace
      end == RunEnd(input, p, Letter \cup Digit)
      word == SubSeq(input, p, end - 1) IN
  /\ At(p, Letter) /\ UNCHANGED oom
  /\ Returns(IF word \in DOMAIN Keywords THEN Keywords[word] ELSE "ident", p, end)

\* Variant with a bug: `<' is looked at before `<='.
PairsUnordered ==
  {<<"=", "=", "==">>, <<"!", "=", "!=">>, <<"&", "&", "&&">>, <<"|", "|", "||">>,
   <<":", ":", "::">>, <<">", "=", ">=">>}

Pairs ==
  {<<"=", "=", "==">>, <<"!", "=", "!=">>, <<"&", "&", "&&">>, <<"|", "|", "||">>,
   <<":", ":", "::">>, <<"<", "=", "<=">>, <<">", "=", ">=">>}

Marks == {"!", "-", "+", "*", ".", ",", ";", "(", ")", "{", "}", "[", "]", "@", "<", ">", ":"}

PairsAt(p) == {w \in Pairs : At(p, {w[1]}) /\ At(p + 1, {w[2]})}

ReadPair ==
  /\ \E w \in PairsAt(SkipWhitespace) : Returns(w[3], SkipWhitespace, SkipWhitespace + 2)
  /\ UNCHANGED oom

ReadMark ==
  LET p == SkipWhitespace IN
  /\ At(p, Marks) /\ PairsAt(p) = {} /\ UNCHANGED oom
  /\ Returns(input[p], p, p + 1)

ReadOther ==
  LET p == SkipWhitespace IN
  /\ At(p, DOMAIN Code \ (Marks \cup Letter \cup Digit \cup {"\""})) /\ PairsAt(p) = {}
  /\ Returns("error", p, p + 1)
  /\ UNCHANGED oom

Init == input \in Text /\ pos = 1 /\ tokens = <<>> /\ oom = FALSE

Next ==
  \/ EndOfInput \/ ReadString \/ AllocationFails \/ ReadNumber \/ ReadIdent
  \/ ReadPair \/ ReadMark \/ ReadOther

Spec == Init /\ [][Next]_vars
================================================================================
