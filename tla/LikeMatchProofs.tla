---------------------------- MODULE LikeMatchProofs ----------------------------
(***************************************************************************)
(* Proofs that nxe_cedar_like_match, for any pattern and subject, keeps    *)
(* its pointers inside the arrays, does work bounded by the product of     *)
(* their lengths, and answers what the pattern's text means.               *)
(***************************************************************************)
EXTENDS LikeMatch, Induction

L == Len(pattern)
N == Len(subject)

(* Every iteration either moves p on or is paid for by star_s.             *)
Paid == work <= star_s * (L + 1) + p

Arrays == L \in Nat /\ N \in Nat

Pointers ==
  /\ s \in 0..N /\ p \in 0..L
  /\ star_s \in Nat /\ star_p \in Nat
  /\ star_s <= s /\ star_p <= p
  /\ star_p # NoStar => pattern[star_p] = Wild
  /\ pc \in {"match", "trail", "done"}
  /\ result \in {"none", "error", "yes", "no"}
  /\ work \in Nat

IInv == Arrays /\ Pointers /\ Paid

(* The loop over a pattern's bytes: nothing is written of none, and of one *)
(* byte more, that byte unless it is a wildcard after a wildcard.          *)
LEMMA KeptSteps ==
  ASSUME NEW bytes
  PROVE  /\ Kept(bytes)[0] = <<>>
         /\ \A n \in Nat :
              Kept(bytes)[n + 1] =
                IF n > 0 /\ bytes[n + 1] = Wild /\ bytes[n] = Wild THEN Kept(bytes)[n]
                ELSE Append(Kept(bytes)[n], bytes[n + 1])
         /\ \A n \in Nat : Kept(bytes)[n] \in Seq({bytes[k] : k \in Nat})
<1> DEFINE B == {bytes[k] : k \in Nat}
           S == Seq(B)
           Skips(n) == n > 0 /\ bytes[n + 1] = Wild /\ bytes[n] = Wild
           step == [n \in Nat |-> [w \in S |-> IF Skips(n) THEN w ELSE Append(w, bytes[n + 1])]]
           G(g) == [k \in Nat |-> IF k = 0 THEN <<>>
                      ELSE IF k > 1 /\ bytes[k] = Wild /\ bytes[k - 1] = Wild THEN g[k - 1]
                      ELSE Append(g[k - 1], bytes[k])]
<1>1. \A n \in Nat : bytes[n + 1] \in B
  OBVIOUS
<1>2. <<>> \in S
  OBVIOUS
<1>3. step \in [Nat -> [S -> S]]
  <2>1. \A n \in Nat, w \in S : Append(w, bytes[n + 1]) \in S
    <3> HIDE DEF B
    <3> QED BY <1>1
  <2> HIDE DEF S, Skips
  <2> QED BY <2>1
<1>4. PICK f : f \in [Nat -> S] /\ f[0] = <<>> /\ \A n \in Nat : f[n + 1] = step[n][f[n]]
  <2>1. \E f : Iterates(f, S, <<>>, step)
    <3> HIDE DEF S, step
    <3> QED BY <1>2, <1>3, Recursion
  <2> HIDE DEF S, step
  <2> QED BY <2>1 DEF Iterates
<1> HIDE DEF S
<1>5. \A n \in Nat : f[n + 1] = IF Skips(n) THEN f[n] ELSE Append(f[n], bytes[n + 1])
  BY <1>4
<1>6. f = G(f)
  <2>1. ASSUME NEW n \in Nat PROVE f[n] = G(f)[n]
    <3>1. CASE n = 0
      BY <1>4, <3>1
    <3>2. CASE n # 0
      <4>1. n - 1 \in Nat /\ (n - 1) + 1 = n /\ (n - 1 > 0 <=> n > 1)
        BY <3>2
      <4>2. f[n] = IF Skips(n - 1) THEN f[n - 1] ELSE Append(f[n - 1], bytes[n])
        <5> HIDE DEF Skips
        <5> QED BY <1>5, <4>1
      <4> QED BY <3>2, <4>1, <4>2
    <3> QED BY <3>1, <3>2
  <2> HIDE DEF G
  <2>2. DOMAIN G(f) = Nat /\ G(f) = [n \in Nat |-> G(f)[n]]
    BY DEF G
  <2> QED BY <1>4, <2>1, <2>2
<1>7. Kept(bytes) = CHOOSE g : g = G(g)
  BY DEF Kept
<1>8. Kept(bytes) = G(Kept(bytes))
  <2> HIDE DEF G
  <2> QED BY <1>6, <1>7
<1> DEFINE K == Kept(bytes)
<1>9. K[0] = <<>> /\ \A n \in Nat : K[n + 1] = IF Skips(n) THEN K[n]
                                               ELSE Append(K[n], bytes[n + 1])
  <2> HIDE DEF K
  <2>1. K = G(K)
    BY <1>8 DEF K
  <2>2. K[0] = <<>>
    BY <2>1
  <2>3. ASSUME NEW n \in Nat
        PROVE  K[n + 1] = IF Skips(n) THEN K[n] ELSE Append(K[n], bytes[n + 1])
    <3>1. n + 1 \in Nat /\ n + 1 # 0 /\ (n + 1) - 1 = n /\ (n > 0 <=> n + 1 > 1)
      OBVIOUS
    <3> QED BY <2>1, <3>1
  <2> QED BY <2>2, <2>3
<1>10. \A n \in Nat : K[n] \in S
  <2> HIDE DEF K, Skips
  <2> DEFINE P == {n \in Nat : K[n] \in S}
  <2>1. 0 \in P
    BY <1>2, <1>9
  <2>2. ASSUME NEW n \in Nat, n \in P PROVE n + 1 \in P
    <3>1. K[n] \in Seq(B) /\ bytes[n + 1] \in B
      BY <1>1, <2>2 DEF S
    <3>2. Append(K[n], bytes[n + 1]) \in S
      <4> HIDE DEF B
      <4> QED BY <3>1 DEF S
    <3>3. K[n + 1] = K[n] \/ K[n + 1] = Append(K[n], bytes[n + 1])
      BY <1>9
    <3>4. K[n + 1] \in S
      BY <2>2, <3>2, <3>3
    <3> QED BY <3>4
  <2>3. Nat \subseteq P
    <3> HIDE DEF P
    <3> QED BY <2>1, <2>2, Induction
  <2> QED BY <2>3
<1> QED BY <1>9, <1>10 DEF S

(* The ends of the first n + 1 pieces, from those of the first n.          *)
After(t, x, n, before) ==
  IF t[n + 1] \in {"*", "\\x2A"} THEN {j \in 0..Len(x) : \E i \in before : i <= j}
  ELSE {j \in 1..Len(x) : /\ j - 1 \in before
                          /\ x[j] = IF t[n + 1] = "\\*" THEN "*" ELSE t[n + 1]}

LEMMA EndsSteps ==
  ASSUME NEW t, NEW x, Len(x) \in Nat
  PROVE  /\ Ends(t, x)[0] = {0}
         /\ \A n \in Nat : Ends(t, x)[n + 1] = After(t, x, n, Ends(t, x)[n])
         /\ \A n \in Nat : Ends(t, x)[n] \in SUBSET (0..Len(x))
<1> DEFINE S == SUBSET (0..Len(x))
           step == [n \in Nat |-> [T \in S |-> After(t, x, n, T)]]
           F(g, k) == LET before == g[k - 1] IN
                        IF t[k] \in {"*", "\\x2A"} THEN {j \in 0..Len(x) : \E i \in before : i <= j}
                        ELSE {j \in 1..Len(x) :
                                /\ j - 1 \in before
                                /\ x[j] = IF t[k] = "\\*" THEN "*" ELSE t[k]}
           G(g) == [k \in Nat |-> IF k = 0 THEN {0} ELSE F(g, k)]
<1>1. {0} \in S
  OBVIOUS
<1>2. \A n \in Nat : \A T : After(t, x, n, T) \in S
  BY DEF After
<1> HIDE DEF S
<1>3. step \in [Nat -> [S -> S]]
  BY <1>2
<1>4. PICK f : f \in [Nat -> S] /\ f[0] = {0} /\ \A n \in Nat : f[n + 1] = step[n][f[n]]
  <2>1. \E f : Iterates(f, S, {0}, step)
    <3> HIDE DEF step
    <3> QED BY <1>1, <1>3, Recursion
  <2> HIDE DEF step
  <2> QED BY <2>1 DEF Iterates
<1>5. \A n \in Nat : f[n + 1] = After(t, x, n, f[n])
  BY <1>4
<1>6. \A g : \A n \in Nat : F(g, n + 1) = After(t, x, n, g[n])
  <2> SUFFICES ASSUME NEW g, NEW n \in Nat PROVE F(g, n + 1) = After(t, x, n, g[n])
    OBVIOUS
  <2>1. (n + 1) - 1 = n
    OBVIOUS
  <2> QED BY <2>1 DEF After
<1> HIDE DEF F
<1>7. f = G(f)
  <2>1. ASSUME NEW n \in Nat PROVE f[n] = G(f)[n]
    <3>1. CASE n = 0
      BY <1>4, <3>1
    <3>2. CASE n # 0
      <4>1. n - 1 \in Nat /\ (n - 1) + 1 = n
        BY <3>2
      <4>2. f[n] = After(t, x, n - 1, f[n - 1]) /\ F(f, n) = After(t, x, n - 1, f[n - 1])
        BY <1>5, <1>6, <4>1
      <4> QED BY <3>2, <4>2
    <3> QED BY <3>1, <3>2
  <2> HIDE DEF G
  <2>2. DOMAIN G(f) = Nat /\ G(f) = [n \in Nat |-> G(f)[n]]
    BY DEF G
  <2> QED BY <1>4, <2>1, <2>2
<1>8. Ends(t, x) = CHOOSE g : g = G(g)
  BY DEF Ends, F
<1> DEFINE K == Ends(t, x)
<1>9. K = G(K)
  <2> HIDE DEF G
  <2> QED BY <1>7, <1>8
<1> HIDE DEF K
<1>10. K[0] = {0}
  BY <1>9
<1>11. ASSUME NEW n \in Nat PROVE K[n + 1] = After(t, x, n, K[n])
  <2>1. n + 1 \in Nat /\ n + 1 # 0
    OBVIOUS
  <2>2. K[n + 1] = F(K, n + 1)
    BY <1>9, <2>1
  <2> QED BY <1>6, <2>2
<1>12. ASSUME NEW n \in Nat PROVE K[n] \in S
  <2>1. CASE n = 0
    BY <1>1, <1>10, <2>1
  <2>2. CASE n # 0
    <3>1. n - 1 \in Nat /\ (n - 1) + 1 = n
      BY <2>2
    <3> QED BY <1>2, <1>11, <3>1
  <2> QED BY <2>1, <2>2
<1> QED BY <1>10, <1>11, <1>12 DEF K, S

-------------------------------------------------------------------------------
(* What a compiled pattern stands for, part by part                        *)

(* A byte of a pattern stands for what subject x has between i and j.      *)
Fits(c, x, i, j) == IF c = Wild THEN i <= j ELSE j = i + 1 /\ x[j] = c

(* The bytes of b after k, to l, stand for what x has between i and j.     *)
Cuts(b, x, k, l, i, j) ==
  {cut \in [k..l -> 0..Len(x)] :
     cut[k] = i /\ cut[l] = j /\ \A m \in k + 1..l : Fits(b[m], x, cut[m - 1], cut[m])}
Run(b, x, k, l, i, j) == Cuts(b, x, k, l, i, j) # {}

LEMMA RunEmpty ==
  ASSUME NEW b, NEW x, Len(x) \in Nat, NEW k \in Nat, NEW i \in 0..Len(x), NEW j \in 0..Len(x)
  PROVE  Run(b, x, k, k, i, j) <=> i = j
<1>1. ASSUME i = j PROVE Run(b, x, k, k, i, j)
  <2>1. [m \in k..k |-> i] \in Cuts(b, x, k, k, i, j)
    BY <1>1 DEF Cuts
  <2> QED BY <2>1 DEF Run
<1>2. ASSUME Run(b, x, k, k, i, j) PROVE i = j
  BY <1>2 DEF Run, Cuts
<1> QED BY <1>1, <1>2

(* Only the bytes between matter.                                          *)
LEMMA RunSame ==
  ASSUME NEW b, NEW c, NEW x, NEW k \in Nat, NEW l \in Nat, NEW i, NEW j,
         \A m \in k + 1..l : b[m] = c[m]
  PROVE  Run(b, x, k, l, i, j) <=> Run(c, x, k, l, i, j)
BY DEF Run, Cuts

(* The first byte stands for something, and then the rest.                 *)
LEMMA RunFirst ==
  ASSUME NEW b, NEW x, Len(x) \in Nat, NEW k \in Nat, NEW l \in Nat, k < l,
         NEW i \in 0..Len(x), NEW j \in 0..Len(x)
  PROVE  Run(b, x, k, l, i, j) <=>
           \E h \in 0..Len(x) : Fits(b[k + 1], x, i, h) /\ Run(b, x, k + 1, l, h, j)
<1>1. ASSUME Run(b, x, k, l, i, j)
      PROVE  \E h \in 0..Len(x) : Fits(b[k + 1], x, i, h) /\ Run(b, x, k + 1, l, h, j)
  <2>1. PICK cut : cut \in Cuts(b, x, k, l, i, j)
    BY <1>1 DEF Run
  <2> DEFINE h == cut[k + 1]
             rest == [m \in k + 1..l |-> cut[m]]
  <2>2. h \in 0..Len(x) /\ Fits(b[k + 1], x, i, h)
    <3>1. k + 1 \in k + 1..l /\ k + 1 \in k..l /\ (k + 1) - 1 = k
      OBVIOUS
    <3> QED BY <2>1, <3>1 DEF Cuts
  <2>3. rest \in [k + 1..l -> 0..Len(x)] /\ rest[k + 1] = h /\ rest[l] = j
    BY <2>1 DEF Cuts
  <2>4. ASSUME NEW m \in (k + 1) + 1..l PROVE Fits(b[m], x, rest[m - 1], rest[m])
    <3>1. m \in k + 1..l /\ m - 1 \in k + 1..l
      OBVIOUS
    <3> QED BY <2>1, <3>1 DEF Cuts
  <2>5. rest \in Cuts(b, x, k + 1, l, h, j)
    <3> HIDE DEF rest, h
    <3> QED BY <2>3, <2>4 DEF Cuts
  <2> QED BY <2>2, <2>5 DEF Run
<1>2. ASSUME NEW h \in 0..Len(x), Fits(b[k + 1], x, i, h), Run(b, x, k + 1, l, h, j)
      PROVE  Run(b, x, k, l, i, j)
  <2>1. PICK rest : rest \in Cuts(b, x, k + 1, l, h, j)
    BY <1>2 DEF Run
  <2> DEFINE cut == [m \in k..l |-> IF m = k THEN i ELSE rest[m]]
  <2>2. cut \in [k..l -> 0..Len(x)] /\ cut[k] = i /\ cut[l] = j
    BY <2>1 DEF Cuts
  <2>3. ASSUME NEW m \in k + 1..l PROVE Fits(b[m], x, cut[m - 1], cut[m])
    <3>1. CASE m = k + 1
      <4>1. cut[m - 1] = i /\ cut[m] = h
        BY <2>1, <3>1 DEF Cuts
      <4> QED BY <1>2, <3>1, <4>1
    <3>2. CASE m # k + 1
      <4>1. m \in (k + 1) + 1..l /\ m - 1 \in k + 1..l /\ m - 1 # k /\ m # k
        BY <3>2
      <4>2. cut[m - 1] = rest[m - 1] /\ cut[m] = rest[m]
        BY <4>1
      <4> QED BY <2>1, <4>1, <4>2 DEF Cuts
    <3> QED BY <3>1, <3>2
  <2>4. cut \in Cuts(b, x, k, l, i, j)
    <3> HIDE DEF cut
    <3> QED BY <2>2, <2>3 DEF Cuts
  <2> QED BY <2>4 DEF Run
<1> QED BY <1>1, <1>2

(* Everything but the last byte stands for something, and then the last.   *)
LEMMA RunLast ==
  ASSUME NEW b, NEW x, Len(x) \in Nat, NEW l \in Nat,
         NEW i \in 0..Len(x), NEW j \in 0..Len(x)
  PROVE  Run(b, x, 0, l + 1, i, j) <=>
           \E h \in 0..Len(x) : Run(b, x, 0, l, i, h) /\ Fits(b[l + 1], x, h, j)
<1>1. ASSUME Run(b, x, 0, l + 1, i, j)
      PROVE  \E h \in 0..Len(x) : Run(b, x, 0, l, i, h) /\ Fits(b[l + 1], x, h, j)
  <2>1. PICK cut : cut \in Cuts(b, x, 0, l + 1, i, j)
    BY <1>1 DEF Run
  <2> DEFINE h == cut[l]
             front == [m \in 0..l |-> cut[m]]
  <2>2. h \in 0..Len(x) /\ Fits(b[l + 1], x, h, j)
    <3>1. l + 1 \in 0 + 1..l + 1 /\ l \in 0..l + 1 /\ (l + 1) - 1 = l
      OBVIOUS
    <3> QED BY <2>1, <3>1 DEF Cuts
  <2>3. front \in [0..l -> 0..Len(x)] /\ front[0] = i /\ front[l] = h
    BY <2>1 DEF Cuts
  <2>4. ASSUME NEW m \in 0 + 1..l PROVE Fits(b[m], x, front[m - 1], front[m])
    <3>1. m \in 0 + 1..l + 1 /\ m - 1 \in 0..l /\ m \in 0..l
      OBVIOUS
    <3> QED BY <2>1, <3>1 DEF Cuts
  <2>5. front \in Cuts(b, x, 0, l, i, h)
    <3> HIDE DEF front, h
    <3> QED BY <2>3, <2>4 DEF Cuts
  <2> QED BY <2>2, <2>5 DEF Run
<1>2. ASSUME NEW h \in 0..Len(x), Run(b, x, 0, l, i, h), Fits(b[l + 1], x, h, j)
      PROVE  Run(b, x, 0, l + 1, i, j)
  <2>1. PICK front : front \in Cuts(b, x, 0, l, i, h)
    BY <1>2 DEF Run
  <2> DEFINE cut == [m \in 0..l + 1 |-> IF m = l + 1 THEN j ELSE front[m]]
  <2>2. cut \in [0..l + 1 -> 0..Len(x)] /\ cut[0] = i /\ cut[l + 1] = j
    BY <2>1 DEF Cuts
  <2>3. ASSUME NEW m \in 0 + 1..l + 1 PROVE Fits(b[m], x, cut[m - 1], cut[m])
    <3>1. CASE m = l + 1
      <4>1. cut[m - 1] = h /\ cut[m] = j
        BY <2>1, <3>1 DEF Cuts
      <4> QED BY <1>2, <3>1, <4>1
    <3>2. CASE m # l + 1
      <4>1. m \in 0 + 1..l /\ m - 1 \in 0..l /\ m \in 0..l /\ m - 1 # l + 1
        BY <3>2
      <4>2. cut[m - 1] = front[m - 1] /\ cut[m] = front[m]
        BY <3>2, <4>1
      <4> QED BY <2>1, <4>1, <4>2 DEF Cuts
    <3> QED BY <3>1, <3>2
  <2>4. cut \in Cuts(b, x, 0, l + 1, i, j)
    <3> HIDE DEF cut
    <3> QED BY <2>2, <2>3 DEF Cuts
  <2> QED BY <2>4 DEF Run
<1> QED BY <1>1, <1>2

(* A piece of the text stands for what its byte in the pattern does.       *)
LEMMA PieceMeans ==
  ASSUME NEW t, Compiles(t), NEW n \in Nat, n + 1 \in DOMAIN t,
         NEW x, Len(x) \in Nat, NEW T \in SUBSET (0..Len(x)), NEW j \in 0..Len(x)
  PROVE  j \in After(t, x, n, T) <=> \E h \in T : Fits(CompiledPiece(t[n + 1]), x, h, j)
<1> DEFINE c == t[n + 1]
<1>1. c # Wild
  BY DEF Compiles, Refused, Wild
<1>2. CASE c \in {"*", "\\x2A"}
  BY <1>2 DEF After, Fits, CompiledPiece
<1>3. CASE c = "\\*"
  <2>1. CompiledPiece(c) = "*" /\ "*" # Wild
    BY <1>3 DEF CompiledPiece, Wild
  <2> QED BY <1>3, <2>1 DEF After, Fits
<1>4. CASE c \notin {"*", "\\x2A", "\\*"}
  <2>1. CompiledPiece(c) = c
    BY <1>4 DEF CompiledPiece
  <2> QED BY <1>1, <1>4, <2>1 DEF After, Fits
<1> QED BY <1>2, <1>3, <1>4

(* Writing one byte more makes a pattern's meaning go on by that byte.     *)
LEMMA AppendMeans ==
  ASSUME NEW B, NEW w \in Seq(B), NEW c \in B, NEW x, Len(x) \in Nat, NEW j \in 0..Len(x)
  PROVE  Run(Append(w, c), x, 0, Len(Append(w, c)), 0, j) <=>
           \E h \in 0..Len(x) : Run(w, x, 0, Len(w), 0, h) /\ Fits(c, x, h, j)
<1> DEFINE v == Append(w, c)
           l == Len(w)
<1>1. l \in Nat /\ Len(v) = l + 1 /\ v[l + 1] = c /\ \A m \in 0 + 1..l : v[m] = w[m]
  OBVIOUS
<1>2. 0 \in 0..Len(x)
  OBVIOUS
<1> HIDE DEF v, l
<1>3. Run(v, x, 0, l + 1, 0, j) <=>
        \E h \in 0..Len(x) : Run(v, x, 0, l, 0, h) /\ Fits(c, x, h, j)
  BY <1>1, <1>2, RunLast
<1>4. \A h : Run(v, x, 0, l, 0, h) <=> Run(w, x, 0, l, 0, h)
  BY <1>1, RunSame
<1> QED BY <1>1, <1>3, <1>4 DEF v, l

(* Merging runs of wildcards loses nothing: what is written of the first n *)
(* bytes stands for what the first n pieces of the text stand for.         *)
LEMMA KeptMeans ==
  ASSUME NEW t \in Seq(Pieces), Compiles(t), NEW x, Len(x) \in Nat
  PROVE  LET bytes == [k \in DOMAIN t |-> CompiledPiece(t[k])] IN
         \A n \in 0..Len(t) : \A j \in 0..Len(x) :
           j \in Ends(t, x)[n] <=>
             Run(Kept(bytes)[n], x, 0, Len(Kept(bytes)[n]), 0, j)
<1> DEFINE bytes == [k \in DOMAIN t |-> CompiledPiece(t[k])]
           K == Kept(bytes)
           E == Ends(t, x)
           B == {bytes[k] : k \in Nat}
           Means(n) == \A j \in 0..Len(x) :
                         j \in E[n] <=> Run(K[n], x, 0, Len(K[n]), 0, j)
           P == {n \in Nat : n <= Len(t) => Means(n)}
<1>1. Len(t) \in Nat /\ DOMAIN t = 1..Len(t)
  OBVIOUS
<1>2. \A n \in Nat : E[n + 1] = After(t, x, n, E[n]) /\ E[n] \in SUBSET (0..Len(x))
  <2>1. /\ \A n \in Nat : E[n + 1] = After(t, x, n, E[n])
        /\ \A n \in Nat : E[n] \in SUBSET (0..Len(x))
    <3>1. \A n \in Nat : E[n + 1] = After(t, x, n, E[n])
      BY EndsSteps
    <3>2. \A n \in Nat : E[n] \in SUBSET (0..Len(x))
      BY EndsSteps
    <3> QED BY <3>1, <3>2
  <2> HIDE DEF E
  <2> QED BY <2>1
<1>3. \A n \in Nat : bytes[n + 1] \in B /\ K[n] \in Seq(B)
  <2>1. \A n \in Nat : n + 1 \in Nat
    OBVIOUS
  <2> HIDE DEF bytes
  <2> QED BY <2>1, KeptSteps
<1>4. \A n \in Nat : n + 1 <= Len(t) =>
        \A T \in SUBSET (0..Len(x)), j \in 0..Len(x) :
          j \in After(t, x, n, T) <=> \E h \in T : Fits(bytes[n + 1], x, h, j)
  <2> SUFFICES ASSUME NEW n \in Nat, n + 1 <= Len(t), NEW T \in SUBSET (0..Len(x)),
                      NEW j \in 0..Len(x)
               PROVE  j \in After(t, x, n, T) <=> \E h \in T : Fits(bytes[n + 1], x, h, j)
    OBVIOUS
  <2>1. n + 1 \in DOMAIN t /\ bytes[n + 1] = CompiledPiece(t[n + 1])
    BY <1>1
  <2> HIDE DEF bytes
  <2> QED BY <2>1, PieceMeans
<1>5. 0 \in P
  <2>1. E[0] = {0}
    BY EndsSteps
  <2>2. K[0] = <<>> /\ Len(K[0]) = 0
    BY KeptSteps
  <2>3. ASSUME NEW j \in 0..Len(x) PROVE Run(<<>>, x, 0, 0, 0, j) <=> 0 = j
    BY RunEmpty
  <2> HIDE DEF E, K
  <2> QED BY <2>1, <2>2, <2>3
<1>6. ASSUME NEW n \in Nat, n \in P PROVE n + 1 \in P
  <2> SUFFICES ASSUME n + 1 <= Len(t) PROVE Means(n + 1)
    OBVIOUS
  <2>1. Means(n)
    <3>1. n <= Len(t)
      BY <1>1
    <3> HIDE DEF Means
    <3> QED BY <1>6, <3>1
  <2>2. E[n + 1] = After(t, x, n, E[n]) /\ E[n] \in SUBSET (0..Len(x))
    BY <1>2
  <2>3. \A j \in 0..Len(x) :
          j \in E[n + 1] <=> \E h \in E[n] : Fits(bytes[n + 1], x, h, j)
    <3> HIDE DEF bytes, E
    <3> QED BY <1>4, <2>2
  <2>4. CASE n > 0 /\ bytes[n + 1] = Wild /\ bytes[n] = Wild
    <3>1. K[n + 1] = K[n]
      <4> HIDE DEF bytes
      <4> QED BY <2>4, KeptSteps
    <3>2. \A j \in 0..Len(x) : j \in E[n + 1] <=> \E h \in E[n] : h <= j
      <4> HIDE DEF bytes, E
      <4> QED BY <2>3, <2>4 DEF Fits
    <3>3. ASSUME NEW j \in 0..Len(x) PROVE (\E h \in E[n] : h <= j) <=> j \in E[n]
      <4>1. n - 1 \in Nat /\ (n - 1) + 1 = n /\ n <= Len(t)
        BY <1>1, <2>4
      <4>2. E[n] = After(t, x, n - 1, E[n - 1]) /\ E[n - 1] \in SUBSET (0..Len(x))
        <5> HIDE DEF E
        <5> QED BY <1>2, <4>1
      <4>3. \A i \in 0..Len(x) : i \in E[n] <=> \E h \in E[n - 1] : Fits(bytes[n], x, h, i)
        <5> HIDE DEF E, bytes
        <5> QED BY <1>4, <4>1, <4>2
      <4>4. \A i \in 0..Len(x) : i \in E[n] <=> \E h \in E[n - 1] : h <= i
        <5> HIDE DEF E, bytes
        <5> QED BY <2>4, <4>3 DEF Fits
      <4> HIDE DEF E
      <4> QED BY <2>2, <4>2, <4>4
    <3> HIDE DEF E, K, bytes
    <3> QED BY <2>1, <3>1, <3>2, <3>3
  <2>5. CASE ~(n > 0 /\ bytes[n + 1] = Wild /\ bytes[n] = Wild)
    <3>1. K[n + 1] = Append(K[n], bytes[n + 1])
      <4> HIDE DEF bytes
      <4> QED BY <2>5, KeptSteps
    <3>2. ASSUME NEW j \in 0..Len(x)
          PROVE  Run(K[n + 1], x, 0, Len(K[n + 1]), 0, j) <=>
                   \E h \in 0..Len(x) : Run(K[n], x, 0, Len(K[n]), 0, h)
                                        /\ Fits(bytes[n + 1], x, h, j)
      <4>1. K[n] \in Seq(B) /\ bytes[n + 1] \in B
        BY <1>3
      <4> HIDE DEF K, bytes, B
      <4> QED BY <3>1, <4>1, AppendMeans
    <3> HIDE DEF E, K, bytes
    <3> QED BY <2>1, <2>2, <2>3, <3>2
  <2> QED BY <2>4, <2>5
<1>7. Nat \subseteq P
  <2> HIDE DEF P
  <2> QED BY <1>5, <1>6, Induction
<1> HIDE DEF bytes, K, E, Means
<1>8. ASSUME NEW n \in 0..Len(t) PROVE Means(n)
  BY <1>1, <1>7
<1> QED BY <1>8 DEF Means, K, E, bytes

(* A compiled pattern means what its text means.                           *)
LEMMA PatternMeans ==
  ASSUME NEW t \in Text, Compiles(t), NEW x, Len(x) \in Nat
  PROVE  LET b == CompilePattern(t) IN Stands(t, x) <=> Run(b, x, 0, Len(b), 0, Len(x))
<1> DEFINE bytes == [k \in DOMAIN t |-> CompiledPiece(t[k])]
<1>1. t \in Seq(Pieces) /\ Len(t) \in Nat /\ Len(bytes) = Len(t)
  <2>1. t \in Seq(Pieces)
    BY TextAssumption
  <2>2. DOMAIN t = 1..Len(t) /\ Len(t) \in Nat
    BY <2>1
  <2> QED BY <2>1, <2>2
<1>2. Len(t) \in 0..Len(t) /\ Len(x) \in 0..Len(x)
  BY <1>1
<1>3. Len(x) \in Ends(t, x)[Len(t)] <=>
        Run(Kept(bytes)[Len(t)], x, 0, Len(Kept(bytes)[Len(t)]), 0, Len(x))
  <2> HIDE DEF bytes
  <2> QED BY <1>1, <1>2, KeptMeans DEF bytes
<1>4. CompilePattern(t) = Kept(bytes)[Len(t)]
  BY <1>1 DEF CompilePattern, Compressed
<1> HIDE DEF bytes
<1> QED BY <1>3, <1>4 DEF Stands

(* A compiled pattern is an array of a natural number of bytes.            *)
LEMMA CompiledLength ==
  ASSUME NEW t \in Text
  PROVE  Len(CompilePattern(t)) \in Nat
<1> DEFINE bytes == [k \in DOMAIN t |-> CompiledPiece(t[k])]
<1>1. Len(bytes) \in Nat
  <2>1. Len(t) \in Nat /\ DOMAIN t = 1..Len(t)
    BY TextAssumption
  <2> QED BY <2>1
<1> HIDE DEF bytes
<1>2. Kept(bytes)[Len(bytes)] \in Seq({bytes[k] : k \in Nat})
  BY <1>1, KeptSteps
<1>3. CompilePattern(t) = Kept(bytes)[Len(bytes)]
  BY DEF CompilePattern, Compressed, bytes
<1> QED BY <1>2, <1>3

(* The initial states satisfy the inductive invariant.                     *)
LEMMA InitInv == Init => IInv
<1> SUFFICES ASSUME Init PROVE IInv
  OBVIOUS
<1>1. N \in Nat
  BY SubjectAssumption DEF Init, N
<1>2. L \in Nat
  <2>1. CASE Compiles(text)
    BY <2>1, CompiledLength DEF Init, L
  <2>2. CASE ~Compiles(text)
    BY <2>2 DEF Init, L
  <2> QED BY <2>1, <2>2
<1>3. Pointers
  BY <1>1, <1>2 DEF Init, Pointers, NoStar
<1>4. Paid
  BY <1>2 DEF Init, Paid
<1> QED BY <1>1, <1>2, <1>3, <1>4 DEF IInv, Arrays

(* Going back starts the next byte's allowance of L + 1 iterations.        *)
LEMMA NextAllowance ==
  ASSUME NEW l \in Nat, NEW k \in Nat
  PROVE  (k + 1) * (l + 1) = k * (l + 1) + l + 1
OBVIOUS

LEMMA LaterAllowance ==
  ASSUME NEW l \in Nat, NEW j \in Nat, NEW k \in Nat, j <= k
  PROVE  j * (l + 1) <= k * (l + 1)
OBVIOUS

(* Every step keeps the inductive invariant.                               *)
LEMMA NextInv == IInv /\ [Next]_vars => IInv'
<1> SUFFICES ASSUME IInv, [Next]_vars PROVE IInv'
  OBVIOUS
<1> USE DEF NoStar
<1>1. /\ L \in Nat /\ N \in Nat /\ Pointers /\ work <= star_s * (L + 1) + p
      /\ star_s * (L + 1) \in Nat
  BY DEF IInv, Arrays, Paid, Pointers
<1>2. pattern' = pattern /\ subject' = subject /\ L' = L /\ N' = N
  BY DEF Next, vars, Wildcard, Advance, Backtrack, Mismatch, SubjectConsumed,
         Trail, Finish, L, N
<1>3. CASE Wildcard
  <2>1. Pointers'
    BY <1>1, <1>2, <1>3 DEF Wildcard, Matching, AtWild, Pointers, L, N
  <2>2. s * (L + 1) \in Nat /\ star_s * (L + 1) <= s * (L + 1)
    BY <1>1, LaterAllowance DEF Pointers
  <2>3. Paid'
    BY <1>1, <1>2, <1>3, <2>2 DEF Wildcard, Pointers, Paid
  <2> QED BY <1>1, <1>2, <2>1, <2>3 DEF IInv, Arrays
<1>4. CASE Advance
  <2>1. Pointers'
    BY <1>1, <1>2, <1>4 DEF Advance, Matching, Same, Pointers, L, N
  <2>2. Paid'
    BY <1>1, <1>2, <1>4 DEF Advance, Pointers, Paid
  <2> QED BY <1>1, <1>2, <2>1, <2>2 DEF IInv, Arrays
<1>5. CASE Backtrack
  <2>1. Pointers'
    BY <1>1, <1>2, <1>5 DEF Backtrack, Matching, Pointers, L, N
  <2>2. (star_s + 1) * (L + 1) = star_s * (L + 1) + L + 1
    BY <1>1, NextAllowance DEF Pointers
  <2>3. work + 1 <= (star_s + 1) * (L + 1) + star_p
    BY <1>1, <2>2 DEF Pointers
  <2>4. Paid'
    BY <1>2, <1>5, <2>3 DEF Backtrack, Paid
  <2> QED BY <1>1, <1>2, <2>1, <2>4 DEF IInv, Arrays
<1>6. CASE Trail
  <2>1. Pointers'
    BY <1>1, <1>2, <1>6 DEF Trail, AtWild, Pointers, L, N
  <2>2. Paid'
    BY <1>1, <1>2, <1>6 DEF Trail, Pointers, Paid
  <2> QED BY <1>1, <1>2, <2>1, <2>2 DEF IInv, Arrays
<1>7. CASE Mismatch \/ SubjectConsumed \/ Finish \/ UNCHANGED vars
  BY <1>1, <1>2, <1>7 DEF Mismatch, SubjectConsumed, Finish, vars, Pointers,
                          Paid, IInv, Arrays
<1> QED BY <1>3, <1>4, <1>5, <1>6, <1>7 DEF Next

-------------------------------------------------------------------------------
(* What is left of a pattern stands for what is left of a subject          *)

Remainder(b, x, k, j) == Run(b, x, k, Len(b), j, Len(x))

LEMMA TailEnd ==
  ASSUME NEW b, NEW x, Len(b) \in Nat, Len(x) \in Nat, NEW j \in 0..Len(x)
  PROVE  Remainder(b, x, Len(b), j) <=> j = Len(x)
<1>1. Len(x) \in 0..Len(x)
  OBVIOUS
<1> QED BY <1>1, RunEmpty DEF Remainder

(* A wildcard takes any number of bytes, also none.                        *)
LEMMA TailWild ==
  ASSUME NEW b, NEW x, Len(b) \in Nat, Len(x) \in Nat, NEW j \in 0..Len(x),
         NEW k \in Nat, k < Len(b), b[k + 1] = Wild
  PROVE  Remainder(b, x, k, j) <=> \E h \in j..Len(x) : Remainder(b, x, k + 1, h)
<1>1. Len(x) \in 0..Len(x)
  OBVIOUS
<1>2. Remainder(b, x, k, j) <=>
        \E h \in 0..Len(x) : Fits(b[k + 1], x, j, h) /\ Remainder(b, x, k + 1, h)
  BY <1>1, RunFirst DEF Remainder
<1>3. \A h \in 0..Len(x) : Fits(b[k + 1], x, j, h) <=> h \in j..Len(x)
  BY DEF Fits
<1> QED BY <1>2, <1>3

(* Any other byte takes itself.                                            *)
LEMMA TailByte ==
  ASSUME NEW b, NEW x, Len(b) \in Nat, Len(x) \in Nat, NEW j \in 0..Len(x),
         NEW k \in Nat, k < Len(b), b[k + 1] # Wild
  PROVE  Remainder(b, x, k, j) <=>
           j < Len(x) /\ x[j + 1] = b[k + 1] /\ Remainder(b, x, k + 1, j + 1)
<1>1. Len(x) \in 0..Len(x)
  OBVIOUS
<1>2. Remainder(b, x, k, j) <=>
        \E h \in 0..Len(x) : Fits(b[k + 1], x, j, h) /\ Remainder(b, x, k + 1, h)
  BY <1>1, RunFirst DEF Remainder
<1>3. \A h \in 0..Len(x) : Fits(b[k + 1], x, j, h) <=> h = j + 1 /\ x[h] = b[k + 1]
  BY DEF Fits
<1> QED BY <1>2, <1>3

(* So does a run of other bytes.                                           *)
Bytes(b, x, k, n, j) ==
  j + n <= Len(x) /\ \A m \in 1..n : b[k + m] = x[j + m]

LEMMA TailBytes ==
  ASSUME NEW b, NEW x, Len(b) \in Nat, Len(x) \in Nat, NEW k \in Nat, NEW n \in Nat,
         k + n <= Len(b), \A m \in 1..n : b[k + m] # Wild,
         NEW j \in 0..Len(x)
  PROVE  Remainder(b, x, k, j) <=> Bytes(b, x, k, n, j) /\ Remainder(b, x, k + n, j + n)
<1> DEFINE P == {i \in Nat : i <= n =>
                   (Remainder(b, x, k, j)
                      <=> Bytes(b, x, k, i, j) /\ Remainder(b, x, k + i, j + i))}
<1>1. 0 \in P
  BY DEF Bytes
<1>2. ASSUME NEW i \in Nat, i \in P PROVE i + 1 \in P
  <2> SUFFICES ASSUME i + 1 <= n
               PROVE  Remainder(b, x, k, j) <=>
                        Bytes(b, x, k, i + 1, j) /\ Remainder(b, x, k + (i + 1), j + (i + 1))
    OBVIOUS
  <2>1. Remainder(b, x, k, j) <=> Bytes(b, x, k, i, j) /\ Remainder(b, x, k + i, j + i)
    BY <1>2
  <2>2. k + i \in Nat /\ k + i < Len(b) /\ (k + i) + 1 = k + (i + 1) /\ (j + i) + 1 = j + (i + 1)
    OBVIOUS
  <2>3. b[k + (i + 1)] # Wild
    OBVIOUS
  <2>4. ASSUME Bytes(b, x, k, i, j)
        PROVE  Remainder(b, x, k + i, j + i) <=>
                 /\ j + i < Len(x) /\ x[j + (i + 1)] = b[k + (i + 1)]
                 /\ Remainder(b, x, k + (i + 1), j + (i + 1))
    <3>1. j + i \in 0..Len(x)
      BY <2>4 DEF Bytes
    <3> QED BY <2>2, <2>3, <3>1, TailByte
  <2>5. Bytes(b, x, k, i + 1, j) <=>
          Bytes(b, x, k, i, j) /\ j + i < Len(x) /\ x[j + (i + 1)] = b[k + (i + 1)]
    <3>1. j + (i + 1) <= Len(x) <=> j + i <= Len(x) /\ j + i < Len(x)
      OBVIOUS
    <3>2. \A m : m \in 1..i + 1 <=> m \in 1..i \/ m = i + 1
      OBVIOUS
    <3>3. (\A m \in 1..i + 1 : b[k + m] = x[j + m]) <=>
            (\A m \in 1..i : b[k + m] = x[j + m]) /\ x[j + (i + 1)] = b[k + (i + 1)]
      BY <3>2
    <3> QED BY <3>1, <3>3 DEF Bytes
  <2> QED BY <2>1, <2>4, <2>5
<1>3. Nat \subseteq P
  <2> HIDE DEF P
  <2> QED BY <1>1, <1>2, Induction
<1> QED BY <1>3

-------------------------------------------------------------------------------
(* What the matcher has found out                                          *)

Rest(k, j) == Remainder(pattern, subject, k, j)
Whole == Rest(0, 0)

(* The bytes between the last wildcard and p are those of the subject from *)
(* star_s on to s.                                                         *)
Taken ==
  /\ p - star_p = s - star_s
  /\ \A m \in 1..p - star_p :
       pattern[star_p + m] # Wild /\ pattern[star_p + m] = subject[star_s + m]

(* Before any wildcard, one way is left.  After one, the last wildcard may *)
(* take more, but nothing before it need ever be tried again.              *)
Found ==
  /\ pc = "match" =>
       IF star_p = NoStar THEN Whole <=> Rest(p, s)
       ELSE Taken /\ (Whole <=> \E j \in star_s..N : Rest(star_p, j))
  /\ pc = "trail" => (Whole <=> Rest(p, N))
  /\ pc = "done" => result = IF Whole THEN "yes" ELSE "no"

Answered ==
  IF Compiles(text) THEN Found /\ (Whole <=> Stands(text, subject))
  ELSE pc = "done" /\ result = "error"

(* Nothing but p and s are known of what follows the last wildcard.        *)
LEMMA AfterStar ==
  ASSUME IInv, Taken, star_p # NoStar
  PROVE  /\ Rest(star_p, star_s) <=> Rest(p, s)
         /\ \A j \in star_s..N : Rest(star_p, j) =>
              j + (s - star_s) <= N /\ Rest(p, j + (s - star_s))
<1> DEFINE n == p - star_p
<1>1. /\ L \in Nat /\ N \in Nat /\ n \in Nat /\ star_p \in Nat /\ star_p + n = p
      /\ p <= L /\ n = s - star_s /\ star_s + n = s /\ star_s \in 0..N /\ s <= N
  BY DEF IInv, Arrays, Pointers, Taken
<1>2. \A m \in 1..n : pattern[star_p + m] # Wild
  BY DEF Taken
<1>3. ASSUME NEW j \in 0..N
      PROVE  Rest(star_p, j) <=> Bytes(pattern, subject, star_p, n, j) /\ Rest(p, j + n)
  <2> HIDE DEF n
  <2> QED BY <1>1, <1>2, <1>3, TailBytes DEF Rest, L, N
<1>4. Bytes(pattern, subject, star_p, n, star_s)
  BY <1>1 DEF Bytes, Taken, N
<1>5. Rest(star_p, star_s) <=> Rest(p, s)
  <2> HIDE DEF n
  <2> QED BY <1>1, <1>3, <1>4
<1>6. ASSUME NEW j \in star_s..N, Rest(star_p, j)
      PROVE  j + (s - star_s) <= N /\ Rest(p, j + (s - star_s))
  <2>1. j \in 0..N
    BY <1>1
  <2>2. j + n <= N /\ Rest(p, j + n)
    <3> HIDE DEF n
    <3> QED BY <1>3, <1>6, <2>1 DEF Bytes, N
  <2> QED BY <1>1, <2>2
<1> QED BY <1>5, <1>6

LEMMA InitAnswered == Init => Answered
<1> SUFFICES ASSUME Init PROVE Answered
  OBVIOUS
<1>1. CASE Compiles(text)
  <2>1. /\ text \in Text /\ pattern = CompilePattern(text) /\ Len(subject) \in Nat
        /\ pc = "match" /\ star_p = NoStar /\ p = 0 /\ s = 0
    BY <1>1, SubjectAssumption DEF Init
  <2>2. Whole <=> Stands(text, subject)
    BY <1>1, <2>1, PatternMeans DEF Whole, Rest, Remainder
  <2> QED BY <1>1, <2>1, <2>2 DEF Answered, Found, Whole
<1>2. CASE ~Compiles(text)
  BY <1>2 DEF Init, Answered
<1> QED BY <1>1, <1>2

(* What Found says is kept by every step of the matcher.                   *)
LEMMA NextFound ==
  ASSUME IInv, Found, Next
  PROVE  Found'
<1> USE DEF NoStar
<1>1. /\ L \in Nat /\ N \in Nat /\ s \in 0..N /\ p \in 0..L /\ star_s \in Nat /\ star_p \in Nat
      /\ star_s <= s /\ star_p <= p
  BY DEF IInv, Arrays, Pointers
<1>2. /\ pattern' = pattern /\ subject' = subject /\ N' = N /\ Whole' = Whole
      /\ \A k, j : Rest(k, j)' = Rest(k, j)
  BY DEF Next, Wildcard, Advance, Backtrack, Mismatch, SubjectConsumed, Trail, Finish, N,
         Whole, Rest
<1>3. \A j \in 0..N : Rest(L, j) <=> j = N
  BY <1>1, TailEnd DEF Rest, L, N
<1>4. \A k \in Nat, j \in 0..N : k < L /\ pattern[k + 1] = Wild =>
         (Rest(k, j) <=> \E h \in j..N : Rest(k + 1, h))
  BY <1>1, TailWild DEF Rest, L, N
<1>5. \A k \in Nat, j \in 0..N : k < L /\ pattern[k + 1] # Wild =>
         (Rest(k, j) <=> j < N /\ subject[j + 1] = pattern[k + 1] /\ Rest(k + 1, j + 1))
  BY <1>1, TailByte DEF Rest, L, N
<1>6. CASE Wildcard
  <2>1. /\ pc = "match" /\ pc' = "match" /\ p < L /\ pattern[p + 1] = Wild
        /\ p' = p + 1 /\ star_p' = p + 1 /\ star_s' = s /\ s' = s
    BY <1>6 DEF Wildcard, Matching, AtWild, L
  <2>2. Taken'
    BY <1>1, <2>1 DEF Taken
  <2>3. Rest(p, s) <=> \E h \in s..N : Rest(p + 1, h)
    BY <1>1, <1>4, <2>1
  <2>4. Whole <=> \E j \in s..N : Rest(p + 1, j)
    <3>1. CASE star_p = NoStar
      BY <2>1, <2>3, <3>1 DEF Found
    <3>2. CASE star_p # NoStar
      <4>1. Taken /\ (Whole <=> \E j \in star_s..N : Rest(star_p, j))
        BY <2>1, <3>2 DEF Found
      <4>2. ASSUME NEW j \in star_s..N, Rest(star_p, j) PROVE \E h \in s..N : Rest(p + 1, h)
        <5>1. j + (s - star_s) \in s..N /\ Rest(p, j + (s - star_s))
          BY <1>1, <3>2, <4>1, <4>2, AfterStar
        <5>2. PICK h \in j + (s - star_s)..N : Rest(p + 1, h)
          BY <1>1, <1>4, <2>1, <5>1
        <5> QED BY <1>1, <5>1, <5>2
      <4>3. star_s \in star_s..N
        BY <1>1
      <4> QED BY <2>3, <3>2, <4>1, <4>2, <4>3, AfterStar
    <3> QED BY <3>1, <3>2
  <2> QED BY <1>1, <1>2, <2>1, <2>2, <2>4 DEF Found
<1>7. CASE Advance
  <2>1. /\ pc = "match" /\ pc' = "match" /\ p < L /\ pattern[p + 1] # Wild
        /\ s < N /\ pattern[p + 1] = subject[s + 1]
        /\ p' = p + 1 /\ s' = s + 1 /\ star_p' = star_p /\ star_s' = star_s
    BY <1>7 DEF Advance, Matching, AtWild, Same, L, N
  <2>2. CASE star_p = NoStar
    <3>1. Rest(p, s) <=> Rest(p + 1, s + 1)
      BY <1>1, <1>5, <2>1
    <3> QED BY <1>2, <2>1, <2>2, <3>1 DEF Found
  <2>3. CASE star_p # NoStar
    <3>1. Taken /\ (Whole <=> \E j \in star_s..N : Rest(star_p, j))
      BY <2>1, <2>3 DEF Found
    <3>2. ASSUME NEW m \in 1..(p + 1) - star_p
          PROVE  pattern[star_p + m] # Wild /\ pattern[star_p + m] = subject[star_s + m]
      <4>1. CASE m \in 1..p - star_p
        BY <3>1, <4>1 DEF Taken
      <4>2. CASE m \notin 1..p - star_p
        <5>1. star_p + m = p + 1 /\ star_s + m = s + 1
          BY <1>1, <3>1, <4>2 DEF Taken
        <5> QED BY <2>1, <5>1
      <4> QED BY <4>1, <4>2
    <3>3. Taken'
      <4>1. (p + 1) - star_p = (s + 1) - star_s
        BY <1>1, <3>1 DEF Taken
      <4> QED BY <1>2, <2>1, <3>2, <4>1 DEF Taken
    <3> QED BY <1>2, <2>1, <2>3, <3>1, <3>3 DEF Found
  <2> QED BY <2>2, <2>3
<1>8. ASSUME Matching, ~AtWild, ~Same PROVE ~Rest(p, s)
  <2>1. s < N /\ ~(p < L /\ pattern[p + 1] = Wild) /\ ~(p < L /\ pattern[p + 1] = subject[s + 1])
    BY <1>8 DEF Matching, AtWild, Same, L, N
  <2>2. CASE p = L
    BY <1>1, <1>3, <2>1, <2>2
  <2>3. CASE p # L
    <3>1. p < L
      BY <1>1, <2>3
    <3> QED BY <1>1, <1>5, <2>1, <3>1
  <2> QED BY <2>2, <2>3
<1>9. CASE Backtrack
  <2>1. /\ pc = "match" /\ pc' = "match" /\ star_p # NoStar /\ s < N
        /\ p' = star_p /\ s' = star_s + 1 /\ star_s' = star_s + 1 /\ star_p' = star_p
        /\ ~Rest(p, s)
    BY <1>8, <1>9 DEF Backtrack, Matching, N
  <2>2. Taken /\ (Whole <=> \E j \in star_s..N : Rest(star_p, j))
    BY <2>1 DEF Found
  <2>3. ~Rest(star_p, star_s)
    BY <2>1, <2>2, AfterStar
  <2>4. Whole <=> \E j \in star_s + 1..N : Rest(star_p, j)
    <3>1. \A j \in star_s..N : j = star_s \/ j \in star_s + 1..N
      BY <1>1
    <3>2. \A j \in star_s + 1..N : j \in star_s..N
      BY <1>1
    <3> QED BY <2>2, <2>3, <3>1, <3>2
  <2>5. Taken'
    BY <1>1, <2>1 DEF Taken
  <2> QED BY <1>2, <2>1, <2>4, <2>5 DEF Found
<1>10. CASE Mismatch
  BY <1>2, <1>8, <1>10 DEF Mismatch, Matching, Found
<1>11. CASE SubjectConsumed
  <2>1. pc = "match" /\ s = N /\ pc' = "trail" /\ p' = p
    BY <1>11 DEF SubjectConsumed, N
  <2>2. Whole <=> Rest(p, N)
    <3>1. CASE star_p = NoStar
      BY <2>1, <3>1 DEF Found
    <3>2. CASE star_p # NoStar
      <4>1. Taken /\ (Whole <=> \E j \in star_s..N : Rest(star_p, j))
        BY <2>1, <3>2 DEF Found
      <4>2. ASSUME NEW j \in star_s..N, Rest(star_p, j) PROVE j = star_s
        BY <1>1, <2>1, <3>2, <4>1, <4>2, AfterStar
      <4>3. star_s \in star_s..N
        BY <1>1, <2>1
      <4> QED BY <2>1, <3>2, <4>1, <4>2, <4>3, AfterStar
    <3> QED BY <3>1, <3>2
  <2> QED BY <1>2, <2>1, <2>2 DEF Found
<1>12. CASE Trail
  <2>1. pc = "trail" /\ pc' = "trail" /\ p < L /\ pattern[p + 1] = Wild /\ p' = p + 1
    BY <1>12 DEF Trail, AtWild, L
  <2>2. Rest(p, N) <=> Rest(p + 1, N)
    <3>1. N \in 0..N /\ \A h : h \in N..N <=> h = N
      BY <1>1
    <3>2. Rest(p, N) <=> \E h \in N..N : Rest(p + 1, h)
      <4>1. p \in Nat
        BY <1>1
      <4> QED BY <1>4, <2>1, <3>1, <4>1
    <3> QED BY <3>1, <3>2
  <2> QED BY <1>2, <2>1, <2>2 DEF Found
<1>13. CASE Finish
  <2>1. /\ pc = "trail" /\ pc' = "done" /\ ~(p < L /\ pattern[p + 1] = Wild)
        /\ result' = IF p = L THEN "yes" ELSE "no"
    BY <1>13 DEF Finish, AtWild, L
  <2>2. Rest(p, N) <=> p = L
    <3>1. N \in 0..N
      BY <1>1
    <3>2. CASE p = L
      BY <1>3, <3>1, <3>2
    <3>3. CASE p # L
      <4>1. p < L
        BY <1>1, <3>3
      <4> QED BY <1>1, <1>5, <2>1, <3>1, <4>1
    <3> QED BY <3>2, <3>3
  <2> QED BY <1>2, <2>1, <2>2 DEF Found
<1> QED BY <1>6, <1>7, <1>9, <1>10, <1>11, <1>12, <1>13 DEF Next

LEMMA NextAnswered == IInv /\ Answered /\ [Next]_vars => Answered'
<1> SUFFICES ASSUME IInv, Answered, [Next]_vars PROVE Answered'
  OBVIOUS
<1>1. CASE Next
  <2>1. text' = text /\ subject' = subject /\ Whole' = Whole
    BY <1>1 DEF Next, Wildcard, Advance, Backtrack, Mismatch, SubjectConsumed, Trail,
                Finish, Whole, Rest
  <2>2. pc # "done"
    BY <1>1 DEF Next, Wildcard, Advance, Backtrack, Mismatch, SubjectConsumed, Trail,
                Finish, Matching
  <2>3. Compiles(text) /\ Found /\ (Whole <=> Stands(text, subject))
    BY <2>2 DEF Answered
  <2>4. Found'
    BY <1>1, <2>3, NextFound
  <2> QED BY <2>1, <2>3, <2>4 DEF Answered
<1>2. CASE UNCHANGED vars
  BY <1>2 DEF vars, Answered, Found, Taken, Whole, Rest, N
<1> QED BY <1>1, <1>2

(* The inductive invariant holds of every reachable state.                 *)
THEOREM Invariance == Spec => []IInv
BY InitInv, NextInv, PTL DEF Spec

(* No pointer of the matcher leaves its array or loses its order, and      *)
(* what is gone back to lies just after a wildcard (expr.c:1355-1398).     *)
THEOREM PointersInBounds == Spec => []TypeOK
<1>1. IInv => TypeOK
  BY DEF IInv, Pointers, TypeOK, L, N
<1> QED BY <1>1, Invariance, PTL

(* The loops run at most (subject + 1) * (pattern + 1) times, whatever the *)
(* pattern: a policy cannot make a request expensive by its wildcards.     *)
THEOREM WorkIsBounded == Spec => []WorkBounded
<1>1. IInv => WorkBounded
  <2> SUFFICES ASSUME IInv PROVE WorkBounded
    OBVIOUS
  <2>1. L \in Nat /\ N \in Nat /\ star_s \in Nat /\ star_s <= N /\ p <= L
        /\ p \in Nat /\ work \in Nat /\ work <= star_s * (L + 1) + p
    BY DEF IInv, Arrays, Pointers, Paid
  <2>2. star_s * (L + 1) <= N * (L + 1)
    BY <2>1, LaterAllowance
  <2>3. (N + 1) * (L + 1) = N * (L + 1) + L + 1
    BY <2>1, NextAllowance
  <2>4. N * (L + 1) \in Nat /\ star_s * (L + 1) \in Nat
    BY <2>1
  <2>5. work <= (N + 1) * (L + 1)
    BY <2>1, <2>2, <2>3, <2>4
  <2> QED BY <2>5 DEF WorkBounded, L, N
<1> QED BY <1>1, Invariance, PTL

(* The matcher is right for every pattern and subject: going back to the   *)
(* last wildcard only, and merging runs of wildcards, neither loses a      *)
(* match nor invents one (parser.c:223-243, expr.c:1355-1398).             *)
THEOREM AnswersRight == Spec => []AnswerRight
<1>1. Spec => []Answered
  BY Invariance, InitAnswered, NextAnswered, PTL DEF Spec
<1>2. Answered => AnswerRight
  BY DEF Answered, Found, AnswerRight, Compiles
<1> QED BY <1>1, <1>2, PTL
================================================================================
