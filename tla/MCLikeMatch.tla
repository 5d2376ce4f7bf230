----------------------------- MODULE MCLikeMatch -----------------------------
(* A small instance of LikeMatch.                                         *)
EXTENDS LikeMatch

CONSTANTS MaxText, MaxSubject   \* lengths

SeqsUpTo(S, n) == UNION {[1..k -> S] : k \in 0..n}

MCChar == {"a", "b", "*"}

\* Every kind of piece, and at full length those that match differently
MCText == SeqsUpTo(MCChar \cup {"\\*"}, MaxText) \cup SeqsUpTo(Pieces, 2)

\* Every subject of characters, and shorter ones with the sentinel's byte
MCSubject == SeqsUpTo(MCChar, MaxSubject) \cup SeqsUpTo({"a", "b", Wild}, MaxSubject - 1)
==============================================================================
