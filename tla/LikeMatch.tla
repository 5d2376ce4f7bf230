------------------------------- MODULE LikeMatch -------------------------------
(***************************************************************************)
(* The `like' operator: nxe_cedar_parser_compile_pattern, which turns the  *)
(* text of a pattern into bytes with a sentinel for a wildcard, and        *)
(* nxe_cedar_like_match, which runs a subject through it with one pointer  *)
(* back to the last wildcard.  Pointers are counts of consumed bytes.      *)
(*                                                                         *)
(* The text is a sequence of pieces: a character, "*", the escape "\\*", a *)
(* numeric escape of the star ("\\x2A"), and what has to be refused, the   *)
(* sentinel's own byte or an escape that is not one.                       *)
(***************************************************************************)
EXTENDS Naturals, Sequences

CONSTANTS
  Char,      \* the characters of subjects and patterns, "*" among them
  Text,      \* pattern texts
  Subject    \* subjects, sequences of characters and of the sentinel's byte

Wild == "0xFF"
Refused == {"0xFF", "\\q"}
Pieces == Char \cup {"\\*", "\\x2A"} \cup Refused

ASSUME CharAssumption == "*" \in Char /\ Char \cap Refused = {}
ASSUME TextAssumption == Text \subseteq Seq(Pieces)
\* A subject that is not UTF-8 may hold any byte.
ASSUME SubjectAssumption == Subject \subseteq Seq(Char \cup {Wild})

VARIABLES
  text, subject,   \* the arguments
  pattern,         \* the compiled pattern
  s, p,            \* consumed of subject and pattern
  star_s, star_p,  \* where to go back to; star_p is NoStar when NULL
  pc,              \* "match", "trail" or "done"
  result,          \* "error", or whether the subject matches
  work             \* history: iterations of the loops

vars == <<text, subject, pattern, s, p, star_s, star_p, pc, result, work>>

NoStar == 0      \* a wildcard's star_p is past it, at least 1

-------------------------------------------------------------------------------
(* nxe_cedar_parser_compile_pattern                                        *)

CompiledPiece(piece) ==
  CASE piece \in {"*", "\\x2A"} -> Wild
    [] piece = "\\*" -> "*"
    [] OTHER -> piece

\* What is written of the first k bytes: of a run of wildcards, the first
Kept(bytes) ==
  LET kept[k \in Nat] ==
        IF k = 0 THEN <<>>
        ELSE IF k > 1 /\ bytes[k] = Wild /\ bytes[k - 1] = Wild THEN kept[k - 1]
        ELSE Append(kept[k - 1], bytes[k]) IN
  kept

Compressed(bytes) == Kept(bytes)[Len(bytes)]

CompilePattern(t) ==
  Compressed([k \in DOMAIN t |-> CompiledPiece(t[k])])

Compiles(t) == \A k \in DOMAIN t : t[k] \notin Refused

-------------------------------------------------------------------------------
(* nxe_cedar_like_match                                                    *)

\* Variant with a bug: bytes are compared before the wildcard is looked for.
AtWildUnlessSame ==
  /\ p < Len(pattern) /\ pattern[p + 1] = Wild
  /\ s < Len(subject) => subject[s + 1] # Wild

AtWild == p < Len(pattern) /\ pattern[p + 1] = Wild

Same == p < Len(pattern) /\ s < Len(subject) /\ pattern[p + 1] = subject[s + 1]

Matching == pc = "match" /\ s < Len(subject)

\* Variant with a bug: p++ for ++p.
WildcardPostfix ==
  /\ Matching /\ AtWild
  /\ p' = p + 1 /\ star_p' = p /\ star_s' = s
  /\ work' = work + 1
  /\ UNCHANGED <<text, subject, pattern, s, pc, result>>

Wildcard ==
  /\ Matching /\ AtWild
  /\ p' = p + 1 /\ star_p' = p + 1 /\ star_s' = s
  /\ work' = work + 1
  /\ UNCHANGED <<text, subject, pattern, s, pc, result>>

Advance ==
  /\ Matching /\ ~AtWild /\ Same
  /\ p' = p + 1 /\ s' = s + 1
  /\ work' = work + 1
  /\ UNCHANGED <<text, subject, pattern, star_s, star_p, pc, result>>

\* Variant with a bug: the wildcard is not made to take one byte more.
BacktrackInPlace ==
  /\ Matching /\ ~AtWild /\ ~Same /\ star_p # NoStar
  /\ p' = star_p /\ s' = star_s
  /\ work' = work + 1
  /\ UNCHANGED <<text, subject, pattern, star_s, star_p, pc, result>>

\* Variant with a bug: what the wildcard took is read again from its start.
BacktrackOnce ==
  /\ Matching /\ ~AtWild /\ ~Same /\ star_p # NoStar
  /\ p' = star_p /\ s' = s + 1 /\ star_s' = s + 1
  /\ work' = work + 1
  /\ UNCHANGED <<text, subject, pattern, star_p, pc, result>>

\* The wildcard takes one byte more and the rest is tried again.
Backtrack ==
  /\ Matching /\ ~AtWild /\ ~Same /\ star_p # NoStar
  /\ p' = star_p /\ s' = star_s + 1 /\ star_s' = star_s + 1
  /\ work' = work + 1
  /\ UNCHANGED <<text, subject, pattern, star_p, pc, result>>

Mismatch ==
  /\ Matching /\ ~AtWild /\ ~Same /\ star_p = NoStar
  /\ pc' = "done" /\ result' = "no"
  /\ UNCHANGED <<text, subject, pattern, s, p, star_s, star_p, work>>

\* Variant with a bug: the loop waits for the end of the pattern too.
BothConsumed ==
  /\ pc = "match" /\ s = Len(subject) /\ p = Len(pattern)
  /\ pc' = "trail"
  /\ UNCHANGED <<text, subject, pattern, s, p, star_s, star_p, result, work>>

SubjectConsumed ==
  /\ pc = "match" /\ s = Len(subject)
  /\ pc' = "trail"
  /\ UNCHANGED <<text, subject, pattern, s, p, star_s, star_p, result, work>>

Trail ==
  /\ pc = "trail" /\ AtWild
  /\ p' = p + 1
  /\ work' = work + 1
  /\ UNCHANGED <<text, subject, pattern, s, star_s, star_p, pc, result>>

Finish ==
  /\ pc = "trail" /\ ~AtWild
  /\ pc' = "done"
  /\ result' = IF p = Len(pattern) THEN "yes" ELSE "no"
  /\ UNCHANGED <<text, subject, pattern, s, p, star_s, star_p, work>>

\* A policy with a pattern that does not compile is never evaluated.
Init ==
  /\ text \in Text /\ subject \in Subject
  /\ s = 0 /\ p = 0 /\ star_s = 0 /\ star_p = NoStar /\ work = 0
  /\ IF Compiles(text)
     THEN pattern = CompilePattern(text) /\ pc = "match" /\ result = "none"
     ELSE pattern = <<>> /\ pc = "done" /\ result = "error"

Next ==
  \/ Wildcard \/ Advance \/ Backtrack \/ Mismatch
  \/ SubjectConsumed \/ Trail \/ Finish

(* The loops run on the worker's only thread until they end.               *)
Spec == Init /\ [][Next]_vars /\ WF_vars(Next)

-------------------------------------------------------------------------------
(* Properties                                                              *)

(* The pointers stay inside the arrays, the ones to go back to behind the  *)
(* others and just after a wildcard.                                       *)
TypeOK ==
  /\ s \in 0..Len(subject) /\ p \in 0..Len(pattern)
  /\ star_s <= s /\ star_p <= p
  /\ star_p # NoStar => pattern[star_p] = Wild
  /\ pc \in {"match", "trail", "done"}
  /\ result \in {"none", "error", "yes", "no"}
  /\ work \in Nat

(* A mismatch costs one more byte of the last wildcard at most: the work   *)
(* is bounded by the product of the lengths, where one that went back to   *)
(* every wildcard would be exponential in their number.                    *)
WorkBounded == work <= (Len(subject) + 1) * (Len(pattern) + 1)

(* What a pattern text means: "*", also when written as a numeric escape,  *)
(* stands for any run of characters, everything else for one.  These are   *)
(* the ends of the parts of x that the first k pieces of t can stand for.  *)
Ends(t, x) ==
  LET ends[k \in Nat] ==
        IF k = 0 THEN {0}
        ELSE LET before == ends[k - 1] IN
             IF t[k] \in {"*", "\\x2A"} THEN {j \in 0..Len(x) : \E i \in before : i <= j}
             ELSE {j \in 1..Len(x) :
                     /\ j - 1 \in before
                     /\ x[j] = IF t[k] = "\\*" THEN "*" ELSE t[k]} IN
  ends

Stands(t, x) == Len(x) \in Ends(t, x)[Len(t)]

(* The answer is right: going back to the last wildcard only, and merging  *)
(* runs of wildcards, loses no match (FEATURES.md:98); a text that could   *)
(* put the sentinel into a pattern gives no pattern at all, and its byte   *)
(* in a subject is a byte like another (expr.c:1350-1353).                 *)
AnswerRight ==
  pc = "done" =>
    result = IF \E k \in DOMAIN text : text[k] \in Refused THEN "error"
             ELSE IF Stands(text, subject) THEN "yes" ELSE "no"

(* Matching ends.                                                          *)
Terminates == <>(pc = "done")
================================================================================
