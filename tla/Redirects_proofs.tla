-------------------------- MODULE Redirects_proofs --------------------------
(***************************************************************************)
(* The loop that matches a path against the pattern of a redirect finds    *)
(* what the pattern means, for any words, variables and number of          *)
(* segments.                                                               *)
(*                                                                         *)
(* The loop is between two segments, or within one: what it has compared   *)
(* of a segment and of its pattern is the same, and what is left of both   *)
(* texts is what is left of the segment and the segments that follow.      *)
(* Texts, replacements and destinations are all sequences of sequences put *)
(* one after the other; what is known of them is by induction on their     *)
(* length, for which a set takes the place of the predicate.               *)
(***************************************************************************)
EXTENDS Redirects, FiniteSetTheorems, WellFoundedInduction, SequenceTheorems, TLAPS

-----------------------------------------------------------------------------
(* Induction, for which a set takes the place of the predicate.            *)

LEMMA Least ==
    ASSUME NEW T \in SUBSET Nat, T # {}
    PROVE  \E x \in T : \A y \in T : x <= y
<1>1. \E x \in T : \A y \in T : ~ (<<y, x>> \in OpToRel(<, Nat))
  BY WFMin, NatLessThanWellFounded
<1>2. \A x, y \in T : <<y, x>> \notin OpToRel(<, Nat) => x <= y
  BY DEF OpToRel
<1> QED BY <1>1, <1>2

LEMMA Induction ==
    ASSUME NEW T, 0 \in T, \A n \in Nat : n \in T => n + 1 \in T
    PROVE  Nat \subseteq T
<1> SUFFICES ASSUME Nat \ T # {} PROVE FALSE
  OBVIOUS
<1>1. PICK n \in Nat \ T : \A m \in Nat \ T : n <= m
  BY Least
<1>2. n # 0 /\ n - 1 \in Nat /\ ~(n <= n - 1)
  OBVIOUS
<1>3. n - 1 \in T
  BY <1>1, <1>2
<1>4. (n - 1) + 1 \in T
  BY <1>2, <1>3
<1> QED BY <1>4

-----------------------------------------------------------------------------
(* Sequences of sequences, one after the other.                            *)

\* f[i] is the first i members of ss, one after the other, up to n.
JoinsUpTo(f, ss, n) == \A i \in 1 .. n : f[i] = IF i = 1 THEN ss[i] ELSE f[i - 1] \o ss[i]

\* There is one way to join.
LEMMA JoinsAgree ==
    ASSUME NEW f, NEW g, NEW ss, NEW n \in Nat, JoinsUpTo(f, ss, n), JoinsUpTo(g, ss, n)
    PROVE  \A i \in 1 .. n : f[i] = g[i]
<1> DEFINE T == {m \in Nat : m + 1 \in 1 .. n => f[m + 1] = g[m + 1]}
<1>1. 0 \in T
  BY DEF JoinsUpTo
<1>2. ASSUME NEW m \in Nat, m \in T PROVE m + 1 \in T
  <2> SUFFICES ASSUME m + 2 \in 1 .. n PROVE f[m + 2] = g[m + 2]
    OBVIOUS
  <2>1. m + 1 \in 1 .. n /\ m + 2 # 1 /\ (m + 2) - 1 = m + 1
    OBVIOUS
  <2>2. f[m + 2] = f[m + 1] \o ss[m + 2] /\ g[m + 2] = g[m + 1] \o ss[m + 2]
    BY <2>1 DEF JoinsUpTo
  <2> QED BY <1>2, <2>1, <2>2
<1>3. Nat \subseteq T
  BY <1>1, <1>2, Induction
<1>4. ASSUME NEW i \in 1 .. n PROVE f[i] = g[i]
  <2>1. i - 1 \in Nat /\ (i - 1) + 1 = i
    OBVIOUS
  <2> QED BY <1>3, <2>1
<1> QED BY <1>4

LEMMA JoinsExist ==
    ASSUME NEW S, NEW ss \in Seq(Seq(S)), ss # <<>>
    PROVE  \E f \in [1 .. Len(ss) -> Seq(S)] : JoinsUpTo(f, ss, Len(ss))
<1>0. Len(ss) \in Nat \ {0} /\ \A i \in 1 .. Len(ss) : ss[i] \in Seq(S)
  BY EmptySeq, ElementOfSeq
<1> DEFINE T == {m \in Nat : m + 1 <= Len(ss) =>
                   \E f \in [1 .. m + 1 -> Seq(S)] : JoinsUpTo(f, ss, m + 1)}
<1>1. 0 \in T
  <2> DEFINE f == [i \in 1 .. 1 |-> ss[1]]
  <2>1. f \in [1 .. 1 -> Seq(S)] /\ JoinsUpTo(f, ss, 1)
    BY <1>0 DEF JoinsUpTo
  <2> QED BY <2>1
<1>2. ASSUME NEW m \in Nat, m \in T PROVE m + 1 \in T
  <2> SUFFICES ASSUME m + 2 <= Len(ss)
               PROVE  \E f \in [1 .. m + 2 -> Seq(S)] : JoinsUpTo(f, ss, m + 2)
    OBVIOUS
  <2>1. PICK f \in [1 .. m + 1 -> Seq(S)] : JoinsUpTo(f, ss, m + 1)
    BY <1>0, <1>2
  <2> DEFINE g == [i \in 1 .. m + 2 |-> IF i <= m + 1 THEN f[i] ELSE f[m + 1] \o ss[m + 2]]
  <2>2. f[m + 1] \o ss[m + 2] \in Seq(S)
    BY <1>0, ConcatProperties
  <2>3. g \in [1 .. m + 2 -> Seq(S)]
    BY <2>2
  <2>4. ASSUME NEW i \in 1 .. m + 2 PROVE g[i] = IF i = 1 THEN ss[i] ELSE g[i - 1] \o ss[i]
    <3>1. CASE i <= m + 1
      <4>1. i \in 1 .. m + 1 /\ g[i] = f[i]
        BY <3>1
      <4>2. i # 1 => i - 1 \in 1 .. m + 1 /\ i - 1 \in 1 .. m + 2 /\ g[i - 1] = f[i - 1]
        BY <3>1
      <4> QED BY <2>1, <4>1, <4>2 DEF JoinsUpTo
    <3>2. CASE i = m + 2
      <4>1. i # 1 /\ i - 1 = m + 1 /\ m + 1 \in 1 .. m + 2 /\ ~(m + 2 <= m + 1)
        BY <3>2
      <4>2. m + 2 \in 1 .. m + 2 /\ m + 1 <= m + 1
        OBVIOUS
      <4>3. g[m + 1] = f[m + 1]
        BY <4>1, <4>2
      <4>4. g[m + 2] = f[m + 1] \o ss[m + 2]
        BY <4>1, <4>2
      <4> QED BY <3>2, <4>1, <4>3, <4>4
    <3> QED BY <3>1, <3>2
  <2> QED BY <2>3, <2>4 DEF JoinsUpTo
<1>3. Nat \subseteq T
  BY <1>1, <1>2, Induction
<1>4. PICK n \in Nat : n + 1 = Len(ss)
  <2>1. PICK l \in Nat : l = Len(ss) /\ l # 0
    BY <1>0
  <2>2. l - 1 \in Nat /\ (l - 1) + 1 = l
    BY <2>1
  <2> QED BY <2>1, <2>2
<1>5. n \in T
  BY <1>3
<1> QED BY <1>4, <1>5

\* What FlattenSeq gives.
LEMMA FlattenJoins ==
    ASSUME NEW S, NEW ss \in Seq(Seq(S)), ss # <<>>
    PROVE  \E f \in [1 .. Len(ss) -> Seq(S)] :
             JoinsUpTo(f, ss, Len(ss)) /\ FlattenSeq(ss) = f[Len(ss)]
<1>0. Len(ss) \in Nat \ {0}
  BY EmptySeq
<1>1. PICK f \in [1 .. Len(ss) -> Seq(S)] : JoinsUpTo(f, ss, Len(ss))
  BY JoinsExist
<1> DEFINE G(g) == [i \in 1 .. Len(ss) |-> IF i = 1 THEN ss[i] ELSE g[i - 1] \o ss[i]]
           h == CHOOSE g : g = G(g)
<1>2. f = G(f)
  BY <1>1 DEF JoinsUpTo
<1>3. h = G(h)
  BY <1>2
<1>4. JoinsUpTo(h, ss, Len(ss))
  <2> HIDE DEF h
  <2> QED BY <1>3 DEF JoinsUpTo
<1>5. h[Len(ss)] = f[Len(ss)]
  <2> HIDE DEF h
  <2> QED BY <1>0, <1>1, <1>4, JoinsAgree
<1>6. FlattenSeq(ss) = h[Len(ss)]
  BY <1>0 DEF FlattenSeq
<1> QED BY <1>1, <1>5, <1>6

LEMMA FlattenEmpty == FlattenSeq(<<>>) = <<>>
  BY DEF FlattenSeq

LEMMA FlattenType ==
    ASSUME NEW S, NEW ss \in Seq(Seq(S))
    PROVE  FlattenSeq(ss) \in Seq(S)
<1>1. CASE ss = <<>>
  BY <1>1, FlattenEmpty, EmptySeq
<1>2. CASE ss # <<>>
  <2>1. Len(ss) \in 1 .. Len(ss)
    BY <1>2, EmptySeq
  <2>2. PICK f \in [1 .. Len(ss) -> Seq(S)] : FlattenSeq(ss) = f[Len(ss)]
    BY <1>2, FlattenJoins
  <2> QED BY <2>1, <2>2
<1> QED BY <1>1, <1>2

LEMMA FlattenAppend ==
    ASSUME NEW S, NEW ss \in Seq(Seq(S)), NEW s \in Seq(S)
    PROVE  FlattenSeq(Append(ss, s)) = FlattenSeq(ss) \o s
<1> DEFINE tt == Append(ss, s)
<1>0. /\ tt \in Seq(Seq(S)) /\ tt # <<>> /\ Len(tt) = Len(ss) + 1
      /\ \A i \in 1 .. Len(ss) : tt[i] = ss[i]
      /\ tt[Len(ss) + 1] = s /\ Len(ss) \in Nat
  BY AppendProperties, LenProperties
<1> HIDE DEF tt
<1>1. PICK f \in [1 .. Len(tt) -> Seq(S)] : JoinsUpTo(f, tt, Len(tt)) /\ FlattenSeq(tt) = f[Len(tt)]
  BY <1>0, FlattenJoins
<1>2. CASE ss = <<>>
  <2>1. Len(ss) = 0 /\ Len(tt) = 1
    BY <1>0, <1>2, EmptySeq
  <2>2. FlattenSeq(tt) = s
    BY <1>0, <1>1, <2>1 DEF JoinsUpTo
  <2> QED BY <1>2, <2>2, FlattenEmpty, ConcatEmptySeq DEF tt
<1>3. CASE ss # <<>>
  <2>1. PICK g \in [1 .. Len(ss) -> Seq(S)] : JoinsUpTo(g, ss, Len(ss)) /\ FlattenSeq(ss) = g[Len(ss)]
    BY <1>3, FlattenJoins
  <2>2. PICK n \in Nat : n = Len(ss) /\ n # 0
    BY <1>3, EmptySeq
  <2>3. JoinsUpTo(f, tt, n) /\ JoinsUpTo(g, ss, n)
    <3>1. \A i \in 1 .. n : i \in 1 .. Len(tt)
      BY <1>0, <2>2
    <3> QED BY <1>1, <2>1, <2>2, <3>1 DEF JoinsUpTo
  <2>4. f[n] = g[n]
    <3>1. \A i \in 1 .. n : tt[i] = ss[i]
      BY <1>0, <2>2
    <3>2. JoinsUpTo(g, tt, n)
      BY <2>3, <3>1 DEF JoinsUpTo
    <3>3. \A i \in 1 .. n : f[i] = g[i]
      BY <2>3, <3>2, JoinsAgree
    <3> QED BY <2>2, <3>3
  <2>5. f[n + 1] = f[n] \o tt[n + 1]
    <3>1. n + 1 \in 1 .. Len(tt) /\ n + 1 # 1 /\ (n + 1) - 1 = n
      BY <1>0, <2>2
    <3> QED BY <1>1, <3>1 DEF JoinsUpTo
  <2> QED BY <1>0, <1>1, <2>1, <2>2, <2>4, <2>5 DEF tt
<1> QED BY <1>2, <1>3

LEMMA ConcatAppend ==
    ASSUME NEW S, NEW s \in Seq(S), NEW t \in Seq(S), NEW e \in S
    PROVE  s \o Append(t, e) = Append(s \o t, e)
<1>1. <<e>> \in Seq(S) /\ s \o t \in Seq(S)
  BY ConcatProperties
<1>2. Append(t, e) = t \o <<e>> /\ Append(s \o t, e) = (s \o t) \o <<e>>
  BY <1>1, AppendIsConcat
<1> QED BY <1>1, <1>2, ConcatAssociative

\* A sequence of n + 1 members is one of n and a last.
LEMMA LastOf ==
    ASSUME NEW S, NEW s \in Seq(S), NEW n \in Nat, Len(s) = n + 1
    PROVE  \E t \in Seq(S), e \in S : s = Append(t, e) /\ Len(t) = n
<1>1. s # <<>>
  BY EmptySeq
<1>2. PICK t \in Seq(S), e \in S : s = Append(t, e)
  BY <1>1, SequenceEmptyOrAppend
<1>3. Len(s) = Len(t) + 1 /\ Len(t) \in Nat
  BY <1>2, AppendProperties, LenProperties
<1> QED BY <1>2, <1>3

LEMMA FlattenConcat ==
    ASSUME NEW S, NEW ss \in Seq(Seq(S)), NEW tt \in Seq(Seq(S))
    PROVE  FlattenSeq(ss \o tt) = FlattenSeq(ss) \o FlattenSeq(tt)
<1> DEFINE T == {n \in Nat : \A u \in Seq(Seq(S)) : Len(u) = n =>
                   FlattenSeq(ss \o u) = FlattenSeq(ss) \o FlattenSeq(u)}
<1>1. 0 \in T
  <2> SUFFICES ASSUME NEW u \in Seq(Seq(S)), Len(u) = 0
               PROVE  FlattenSeq(ss \o u) = FlattenSeq(ss) \o FlattenSeq(u)
    OBVIOUS
  <2>1. u = <<>>
    BY EmptySeq
  <2>2. ss \o u = ss
    BY <2>1, ConcatEmptySeq
  <2>3. FlattenSeq(ss) \o <<>> = FlattenSeq(ss)
    BY FlattenType, ConcatEmptySeq
  <2> QED BY <2>1, <2>2, <2>3, FlattenEmpty
<1>2. ASSUME NEW n \in Nat, n \in T PROVE n + 1 \in T
  <2> SUFFICES ASSUME NEW u \in Seq(Seq(S)), Len(u) = n + 1
               PROVE  FlattenSeq(ss \o u) = FlattenSeq(ss) \o FlattenSeq(u)
    OBVIOUS
  <2>1. PICK v \in Seq(Seq(S)), e \in Seq(S) : u = Append(v, e) /\ Len(v) = n
    BY LastOf
  <2>2. ss \o u = Append(ss \o v, e) /\ ss \o v \in Seq(Seq(S))
    BY <2>1, ConcatAppend, ConcatProperties
  <2>3. FlattenSeq(ss \o u) = FlattenSeq(ss \o v) \o e /\ FlattenSeq(u) = FlattenSeq(v) \o e
    BY <2>1, <2>2, FlattenAppend
  <2>4. FlattenSeq(ss \o v) = FlattenSeq(ss) \o FlattenSeq(v)
    BY <1>2, <2>1
  <2>5. (FlattenSeq(ss) \o FlattenSeq(v)) \o e = FlattenSeq(ss) \o (FlattenSeq(v) \o e)
    <3>1. FlattenSeq(ss) \in Seq(S) /\ FlattenSeq(v) \in Seq(S)
      BY FlattenType
    <3> QED BY <2>1, <3>1, ConcatAssociative
  <2> QED BY <2>3, <2>4, <2>5
<1>3. Nat \subseteq T
  BY <1>1, <1>2, Induction
<1>4. Len(tt) \in T
  BY <1>3, LenProperties
<1> QED BY <1>4

\* What m makes of each member of s, one after the other: Text, Replace and the
\* destination are all of this form.
MapsTo(m, A, B) == m \in [A -> B]

Each(m, s) == [i \in DOMAIN s |-> m[s[i]]]
Join(m, s) == FlattenSeq(Each(m, s))

LEMMA EachType ==
    ASSUME NEW A, NEW B, NEW m, MapsTo(m, A, B), NEW u \in Seq(A)
    PROVE  /\ Each(m, u) \in Seq(B) /\ Len(Each(m, u)) = Len(u)
           /\ \A i \in 1 .. Len(u) : Each(m, u)[i] = m[u[i]]
<1>1. PICK n \in Nat : n = Len(u)
  BY LenProperties
<1>2. DOMAIN u = 1 .. n /\ \A i \in 1 .. n : u[i] \in A
  BY <1>1, LenProperties, ElementOfSeq
<1>3. Each(m, u) \in [1 .. n -> B]
  BY <1>2 DEF Each, MapsTo
<1>4. Each(m, u) \in Seq(B)
  BY <1>3, SeqDef
<1>5. Len(Each(m, u)) = n
  <2>1. DOMAIN Each(m, u) = 1 .. Len(Each(m, u)) /\ DOMAIN Each(m, u) = 1 .. n
    BY <1>3, <1>4, LenProperties
  <2>2. PICK l \in Nat : l = Len(Each(m, u))
    BY <1>4, LenProperties
  <2>3. 1 .. l = 1 .. n
    BY <2>1, <2>2
  <2>4. l = n
    <3>1. (l > 0 => l \in 1 .. n) /\ (n > 0 => n \in 1 .. l)
      BY <2>3
    <3> QED BY <3>1
  <2> QED BY <2>2, <2>4
<1> QED BY <1>1, <1>2, <1>4, <1>5 DEF Each

LEMMA EachOne ==
    ASSUME NEW m, NEW a
    PROVE  Each(m, <<>>) = <<>> /\ Each(m, <<a>>) = <<m[a]>>
  BY DEF Each

LEMMA EachConcat ==
    ASSUME NEW A, NEW B, NEW m, MapsTo(m, A, B), NEW s \in Seq(A), NEW t \in Seq(A)
    PROVE  Each(m, s \o t) = Each(m, s) \o Each(m, t)
<1>1. PICK k \in Nat, n \in Nat : k = Len(s) /\ n = Len(t)
  BY LenProperties
<1>2. /\ s \o t \in Seq(A) /\ Len(s \o t) = k + n
      /\ \A i \in 1 .. k + n : (s \o t)[i] = IF i <= k THEN s[i] ELSE t[i - k]
  BY <1>1, ConcatProperties
<1>3. PICK f \in Seq(B), g \in Seq(B) : f = Each(m, s) /\ g = Each(m, t)
  BY EachType
<1>4. /\ Len(f) = k /\ Len(g) = n
      /\ \A i \in 1 .. k : f[i] = m[s[i]]
      /\ \A i \in 1 .. n : g[i] = m[t[i]]
  BY <1>1, <1>3, EachType
<1>5. /\ f \o g \in Seq(B) /\ Len(f \o g) = k + n
      /\ \A i \in 1 .. k + n : (f \o g)[i] = IF i <= k THEN f[i] ELSE g[i - k]
  <2>1. /\ f \o g \in Seq(B) /\ Len(f \o g) = Len(f) + Len(g)
        /\ \A i \in 1 .. Len(f) + Len(g) : (f \o g)[i] = IF i <= Len(f) THEN f[i] ELSE g[i - Len(f)]
    BY ConcatProperties
  <2> QED BY <1>4, <2>1
<1>6. PICK h \in Seq(B) : h = Each(m, s \o t)
  BY <1>2, EachType
<1>7. Len(h) = k + n /\ \A i \in 1 .. k + n : h[i] = m[(s \o t)[i]]
  <2> DEFINE u == s \o t
  <2>1. u \in Seq(A) /\ Len(u) = k + n /\ h = Each(m, u)
    BY <1>2, <1>6
  <2>2. Len(h) = k + n /\ \A i \in 1 .. k + n : h[i] = m[u[i]]
    <3> HIDE DEF u
    <3> QED BY <2>1, EachType
  <2> QED BY <2>2
<1>8. ASSUME NEW i \in 1 .. k + n PROVE (f \o g)[i] = h[i]
  <2>1. CASE i <= k
    <3>1. i \in 1 .. k
      BY <2>1
    <3>2. (f \o g)[i] = m[s[i]]
      BY <1>4, <1>5, <2>1, <3>1
    <3>3. h[i] = m[s[i]]
      BY <1>2, <1>7, <2>1
    <3> QED BY <3>2, <3>3
  <2>2. CASE ~(i <= k)
    <3>1. i - k \in 1 .. n
      BY <2>2
    <3>2. (f \o g)[i] = m[t[i - k]]
      BY <1>4, <1>5, <2>2, <3>1
    <3>3. h[i] = m[t[i - k]]
      BY <1>2, <1>7, <2>2
    <3> QED BY <3>2, <3>3
  <2> QED BY <2>1, <2>2
<1>9. f \o g = h
  BY <1>5, <1>7, <1>8, SeqEqual
<1> QED BY <1>3, <1>6, <1>9

LEMMA FlattenOne == ASSUME NEW S, NEW s \in Seq(S) PROVE FlattenSeq(<<s>>) = s
<1>1. <<s>> = Append(<<>>, s) /\ <<>> \in Seq(Seq(S)) /\ <<>> \o s = s
  BY EmptySeq, ConcatEmptySeq
<1> QED BY <1>1, FlattenAppend, FlattenEmpty

LEMMA JoinType ==
    ASSUME NEW A, NEW S, NEW m, MapsTo(m, A, Seq(S)), NEW s \in Seq(A)
    PROVE  Join(m, s) \in Seq(S)
<1>1. Each(m, s) \in Seq(Seq(S))
  BY EachType
<1> QED BY <1>1, FlattenType DEF Join

LEMMA JoinOne ==
    ASSUME NEW S, NEW m, NEW a, m[a] \in Seq(S)
    PROVE  Join(m, <<>>) = <<>> /\ Join(m, <<a>>) = m[a]
<1>1. FlattenSeq(<<m[a]>>) = m[a]
  BY FlattenOne
<1> QED BY <1>1, EachOne, FlattenEmpty DEF Join

LEMMA JoinConcat ==
    ASSUME NEW A, NEW S, NEW m, MapsTo(m, A, Seq(S)), NEW s \in Seq(A), NEW t \in Seq(A)
    PROVE  Join(m, s \o t) = Join(m, s) \o Join(m, t)
<1>1. Each(m, s) \in Seq(Seq(S)) /\ Each(m, t) \in Seq(Seq(S))
  BY EachType
<1>2. Each(m, s \o t) = Each(m, s) \o Each(m, t)
  BY EachConcat
<1>3. FlattenSeq(Each(m, s) \o Each(m, t)) = FlattenSeq(Each(m, s)) \o FlattenSeq(Each(m, t))
  BY <1>1, FlattenConcat
<1> QED BY <1>2, <1>3 DEF Join

LEMMA JoinAppend ==
    ASSUME NEW A, NEW S, NEW m, MapsTo(m, A, Seq(S)), NEW s \in Seq(A), NEW a \in A
    PROVE  Join(m, Append(s, a)) = Join(m, s) \o m[a]
<1>1. <<a>> \in Seq(A) /\ m[a] \in Seq(S)
  BY DEF MapsTo
<1>2. Append(s, a) = s \o <<a>>
  BY AppendIsConcat
<1> DEFINE e == <<a>>
<1>3. Join(m, s \o e) = Join(m, s) \o Join(m, e)
  <2>1. e \in Seq(A)
    BY <1>1
  <2> HIDE DEF e
  <2> QED BY <2>1, JoinConcat
<1> QED BY <1>1, <1>2, <1>3, JoinOne

\* What is made of each of what has been made of each.
LEMMA JoinTwice ==
    ASSUME NEW A, NEW S, NEW R, NEW m, NEW q, NEW s \in Seq(A),
           MapsTo(m, A, Seq(S)), MapsTo(q, S, Seq(R))
    PROVE  Join(q, Join(m, s)) = Join([a \in A |-> Join(q, m[a])], s)
<1> DEFINE mq == [a \in A |-> Join(q, m[a])]
           T == {n \in Nat : \A u \in Seq(A) : Len(u) = n => Join(q, Join(m, u)) = Join(mq, u)}
<1>0. MapsTo(mq, A, Seq(R))
  <2>1. \A a \in A : m[a] \in Seq(S)
    BY DEF MapsTo
  <2>2. \A a \in A : Join(q, m[a]) \in Seq(R)
    BY <2>1, JoinType
  <2> QED BY <2>2 DEF MapsTo
<1>1. 0 \in T
  <2>1. \A u \in Seq(A) : Len(u) = 0 => u = <<>>
    BY EmptySeq
  <2>2. \A f : Join(f, <<>>) = <<>>
    BY EachOne, FlattenEmpty DEF Join
  <2> QED BY <2>1, <2>2
<1>2. ASSUME NEW n \in Nat, n \in T PROVE n + 1 \in T
  <2> SUFFICES ASSUME NEW u \in Seq(A), Len(u) = n + 1 PROVE Join(q, Join(m, u)) = Join(mq, u)
    OBVIOUS
  <2>1. PICK v \in Seq(A), a \in A : u = Append(v, a) /\ Len(v) = n
    BY LastOf
  <2>2. Join(m, u) = Join(m, v) \o m[a] /\ Join(m, v) \in Seq(S) /\ m[a] \in Seq(S)
    <3>1. Join(m, u) = Join(m, v) \o m[a]
      BY <2>1, JoinAppend
    <3>2. Join(m, v) \in Seq(S)
      BY <2>1, JoinType
    <3> QED BY <2>1, <3>1, <3>2 DEF MapsTo
  <2>3. Join(q, Join(m, u)) = Join(q, Join(m, v)) \o Join(q, m[a])
    <3>1. PICK x \in Seq(S), y \in Seq(S) : x = Join(m, v) /\ y = m[a]
      BY <2>2
    <3>2. Join(q, x \o y) = Join(q, x) \o Join(q, y)
      BY JoinConcat
    <3> QED BY <2>2, <3>1, <3>2
  <2>4. Join(q, Join(m, v)) = Join(mq, v)
    BY <1>2, <2>1
  <2>5. Join(mq, u) = Join(mq, v) \o mq[a]
    <3> HIDE DEF mq
    <3> QED BY <1>0, <2>1, JoinAppend
  <2> QED BY <2>3, <2>4, <2>5
<1>3. Nat \subseteq T
  <2> HIDE DEF T
  <2> QED BY <1>1, <1>2, Induction
<1>4. Len(s) \in T
  BY <1>3, LenProperties
<1> QED BY <1>4

\* Where each is made what it is.
LEMMA JoinSame ==
    ASSUME NEW B, NEW m, NEW s \in Seq(B), \A b \in B : m[b] = <<b>>
    PROVE  Join(m, s) = s
<1> DEFINE f == [b \in B |-> <<b>>]
           T == {n \in Nat : \A u \in Seq(B) : Len(u) = n => Join(f, u) = u}
<1>0. MapsTo(f, B, Seq(B)) /\ \A b \in B : f[b] = <<b>>
  BY DEF MapsTo
<1>1. 0 \in T
  <2>1. \A u \in Seq(B) : Len(u) = 0 => u = <<>>
    BY EmptySeq
  <2>2. \A g : Join(g, <<>>) = <<>>
    BY EachOne, FlattenEmpty DEF Join
  <2> QED BY <2>1, <2>2
<1>2. ASSUME NEW n \in Nat, n \in T PROVE n + 1 \in T
  <2> SUFFICES ASSUME NEW u \in Seq(B), Len(u) = n + 1 PROVE Join(f, u) = u
    OBVIOUS
  <2>1. PICK v \in Seq(B), b \in B : u = Append(v, b) /\ Len(v) = n
    BY LastOf
  <2>2. Join(f, u) = Join(f, v) \o f[b]
    <3> HIDE DEF f
    <3> QED BY <1>0, <2>1, JoinAppend
  <2>3. Join(f, v) = v
    BY <1>2, <2>1
  <2> QED BY <1>0, <2>1, <2>2, <2>3, AppendIsConcat
<1>3. Nat \subseteq T
  <2> HIDE DEF T
  <2> QED BY <1>1, <1>2, Induction
<1>4. Len(s) \in T
  BY <1>3, LenProperties
<1>5. Each(m, s) = Each(f, s)
  <2>1. \A i \in DOMAIN s : s[i] \in B
    BY LenProperties, ElementOfSeq
  <2> QED BY <2>1 DEF Each
<1> QED BY <1>4, <1>5 DEF Join

-----------------------------------------------------------------------------
(* Texts and destinations as joins.                                        *)

Symbols == Letters \cup Variables \cup {"/", "*", ":splat"}
Shown   == Variables \cup {":splat"}

Slash == [w \in Seq(Symbols) |-> <<"/">> \o w]
Putting(name, by) == [x \in Symbols |-> IF x = name THEN by ELSE <<x>>]

LEMMA SymbolsAre ==
    /\ Letters \subseteq Symbols /\ Variables \subseteq Symbols /\ Shown \subseteq Symbols
    /\ "/" \in Symbols /\ "*" \in Symbols /\ ":splat" \in Symbols
    /\ "/" \notin Letters /\ "*" \notin Letters /\ ":splat" \notin Letters
    /\ "/" \notin Variables /\ "*" \notin Variables /\ ":splat" \notin Variables
    /\ Variables \cap Letters = {}
    /\ Seq(Letters) \subseteq Seq(Symbols)
<1>1. Letters \subseteq Symbols
  BY DEF Symbols
<1>2. \A s \in Seq(Letters) : s \in Seq(Symbols)
  BY <1>1, SeqMonotonic
<1> QED BY <1>1, <1>2, RedirectsAssumption DEF Symbols, Shown

LEMMA Slashes ==
    /\ MapsTo(Slash, Seq(Symbols), Seq(Symbols))
    /\ \A w \in Seq(Symbols) : Slash[w] = <<"/">> \o w /\ Slash[w] \in Seq(Symbols)
<1>1. ASSUME NEW w \in Seq(Symbols) PROVE <<"/">> \o w \in Seq(Symbols)
  <2> DEFINE e == <<"/">>
  <2>1. e \in Seq(Symbols)
    BY SymbolsAre
  <2>2. e \o w \in Seq(Symbols)
    <3> HIDE DEF e
    <3> QED BY <2>1, ConcatProperties
  <2> QED BY <2>2
<1> QED BY <1>1 DEF MapsTo, Slash

LEMMA TextIsJoin ==
    ASSUME NEW s \in Seq(Seq(Symbols))
    PROVE  Text(s) = Join(Slash, s) /\ Text(s) \in Seq(Symbols)
<1>1. \A i \in DOMAIN s : s[i] \in Seq(Symbols)
  BY LenProperties, ElementOfSeq
<1>2. [i \in DOMAIN s |-> <<"/">> \o s[i]] = Each(Slash, s)
  BY <1>1, Slashes DEF Each
<1>3. Text(s) = Join(Slash, s)
  BY <1>2 DEF Text, Join
<1> QED BY <1>3, Slashes, JoinType

LEMMA ReplaceIsJoin ==
    ASSUME NEW s \in Seq(Symbols), NEW name, NEW by \in Seq(Symbols)
    PROVE  /\ Replace(s, name, by) = Join(Putting(name, by), s)
           /\ MapsTo(Putting(name, by), Symbols, Seq(Symbols))
<1>1. \A i \in DOMAIN s : s[i] \in Symbols
  BY LenProperties, ElementOfSeq
<1>2. [i \in DOMAIN s |-> IF s[i] = name THEN by ELSE <<s[i]>>] = Each(Putting(name, by), s)
  BY <1>1 DEF Each, Putting
<1>3. Replace(s, name, by) = Join(Putting(name, by), s)
  BY <1>2 DEF Replace, Join
<1>4. \A x \in Symbols : <<x>> \in Seq(Symbols)
  <2> TAKE x \in Symbols
  <2> QED OBVIOUS
<1>5. MapsTo(Putting(name, by), Symbols, Seq(Symbols))
  BY <1>4 DEF MapsTo, Putting
<1> QED BY <1>3, <1>5

\* What is left of a text from its k-th segment on.
From(s, k) == Text(SubSeq(s, k, Len(s)))

LEMMA FromTypes ==
    ASSUME NEW s \in Seq(Seq(Symbols)), NEW k \in Nat \ {0}
    PROVE  SubSeq(s, k, Len(s)) \in Seq(Seq(Symbols)) /\ From(s, k) \in Seq(Symbols)
<1>1. PICK n \in Nat : n = Len(s)
  BY LenProperties
<1>2. \A i \in k .. n : s[i] \in Seq(Symbols)
  <2>1. \A i \in k .. n : i \in 1 .. n
    OBVIOUS
  <2> QED BY <1>1, <2>1, ElementOfSeq
<1>3. SubSeq(s, k, n) \in Seq(Seq(Symbols))
  BY <1>2, SubSeqProperties
<1> QED BY <1>1, <1>3, TextIsJoin DEF From

LEMMA FromFirst ==
    ASSUME NEW s \in Seq(Seq(Symbols)), NEW k \in 1 .. Len(s)
    PROVE  From(s, k) = (<<"/">> \o s[k]) \o From(s, k + 1)
<1>1. PICK n \in Nat : n = Len(s)
  BY LenProperties
<1> DEFINE t == SubSeq(s, k + 1, n)
           e == <<s[k]>>
<1>2. s[k] \in Seq(Symbols) /\ k \in Nat \ {0} /\ k + 1 \in Nat \ {0}
  BY <1>1, ElementOfSeq
<1>3. t \in Seq(Seq(Symbols)) /\ e \in Seq(Seq(Symbols)) /\ From(s, k + 1) = Text(t)
  BY <1>1, <1>2, FromTypes DEF From
<1>4. SubSeq(s, k, n) = e \o t
  BY <1>1, SubSeqRecursiveFirst
<1>5. e \o t \in Seq(Seq(Symbols)) /\ Join(Slash, e \o t) = Join(Slash, e) \o Join(Slash, t)
  <2> HIDE DEF e, t
  <2>1. e \o t \in Seq(Seq(Symbols))
    BY <1>3, ConcatProperties
  <2>2. MapsTo(Slash, Seq(Symbols), Seq(Symbols))
    BY Slashes
  <2>3. Join(Slash, e \o t) = Join(Slash, e) \o Join(Slash, t)
    BY <1>3, <2>2, JoinConcat
  <2> QED BY <2>1, <2>3
<1>6. Join(Slash, e) = <<"/">> \o s[k]
  <2>1. Slash[s[k]] = <<"/">> \o s[k] /\ Slash[s[k]] \in Seq(Symbols)
    BY <1>2, Slashes
  <2>2. Join(Slash, <<s[k]>>) = Slash[s[k]]
    <3>1. PICK a, m : a = s[k] /\ m = Slash
      OBVIOUS
    <3>2. m[a] \in Seq(Symbols)
      BY <2>1, <3>1
    <3>3. Join(m, <<a>>) = m[a]
      BY <3>2, JoinOne
    <3> QED BY <3>1, <3>3
  <2> QED BY <2>1, <2>2
<1>7. From(s, k) = Text(e \o t)
  BY <1>1, <1>4 DEF From
<1>8. Text(e \o t) = Join(Slash, e \o t) /\ Text(t) = Join(Slash, t)
  <2> HIDE DEF e, t
  <2> QED BY <1>3, <1>5, TextIsJoin
<1> HIDE DEF e, t
<1> QED BY <1>3, <1>5, <1>6, <1>7, <1>8

LEMMA FromEnds ==
    ASSUME NEW s \in Seq(Seq(Symbols))
    PROVE  From(s, Len(s) + 1) = <<>> /\ From(s, 1) = Text(s)
<1>1. PICK n \in Nat : n = Len(s)
  BY LenProperties
<1>2. SubSeq(s, n + 1, n) = <<>>
  BY SubSeqEmpty
<1>3. SubSeq(s, 1, n) = s
  BY <1>1, SubSeqFull
<1>4. Text(<<>>) = <<>>
  BY FlattenEmpty DEF Text
<1> QED BY <1>1, <1>2, <1>3, <1>4 DEF From

-----------------------------------------------------------------------------
(* Paths and patterns.                                                     *)

PathIsSound(a) ==
    /\ a \in Seq(Seq(Letters)) /\ Len(a) > 0
    /\ \A i \in 1 .. Len(a) : i < Len(a) => a[i] # <<>>

RuleIsSound(u) ==
    /\ u \in Seq(Seq(Symbols)) /\ Len(u) > 0
    /\ \A i \in 1 .. Len(u) : u[i] \in Seq(Letters) \/ u[i] \in Names \/ (i = Len(u) /\ u[i] \in Splats)

LEMMA SegmentsAre ==
    ASSUME NEW inner, NEW last, NEW s \in SegmentsOf(inner, last)
    PROVE  \E t \in Seq(inner), l \in last : s = Append(t, l)
<1>1. PICK t \in BoundedSeq(inner, MaxSegments - 1), l \in last : s = Append(t, l)
  BY DEF SegmentsOf
<1>2. PICK m \in 0 .. MaxSegments - 1 : t \in [1 .. m -> inner]
  BY <1>1 DEF BoundedSeq, SeqOf
<1>3. m \in Nat
  BY <1>2, RedirectsAssumption
<1>4. t \in Seq(inner)
  BY <1>2, <1>3, SeqDef
<1> QED BY <1>1, <1>4

\* What is known of the members of Append(t, l).
LEMMA Members ==
    ASSUME NEW S, NEW t \in Seq(S), NEW l
    PROVE  /\ Len(Append(t, l)) = Len(t) + 1 /\ Len(t) \in Nat
           /\ \A i \in 1 .. Len(t) : Append(t, l)[i] = t[i] /\ t[i] \in S
           /\ Append(t, l)[Len(t) + 1] = l
           /\ \A R : S \subseteq R /\ l \in R => Append(t, l) \in Seq(R)
<1>1. t \in Seq(S \cup {l}) /\ l \in S \cup {l}
  BY SeqMonotonic
<1>2. ASSUME NEW R, S \subseteq R, l \in R PROVE Append(t, l) \in Seq(R)
  BY <1>2, SeqMonotonic, AppendProperties
<1>3. \A i \in 1 .. Len(t) : t[i] \in S
  BY ElementOfSeq
<1> QED BY <1>1, <1>2, <1>3, AppendProperties, LenProperties

LEMMA WordsAre == \A w \in Words \cup {<<>>} : w \in Seq(Letters) /\ (w \in Words => w # <<>>)
  BY RedirectsAssumption, EmptySeq

LEMMA AskedIsSound == asked \in PathsAsked => PathIsSound(asked)
<1> SUFFICES ASSUME asked \in PathsAsked PROVE PathIsSound(asked)
  OBVIOUS
<1>1. PICK t \in Seq(Words), l \in Words \cup {<<>>} : asked = Append(t, l)
  BY SegmentsAre DEF PathsAsked
<1>2. PICK n \in Nat : n = Len(t)
  BY <1>1, LenProperties
<1>3. /\ Len(asked) = n + 1 /\ \A i \in 1 .. n : asked[i] = t[i] /\ t[i] \in Words
      /\ Words \subseteq Seq(Letters) /\ l \in Seq(Letters)
  BY <1>1, <1>2, Members, WordsAre
<1>4. asked \in Seq(Seq(Letters))
  BY <1>1, <1>3, Members
<1>5. ASSUME NEW i \in 1 .. Len(asked), i < Len(asked) PROVE asked[i] # <<>>
  <2>1. i \in 1 .. n
    BY <1>3, <1>5
  <2> QED BY <1>3, <2>1, WordsAre
<1> QED BY <1>3, <1>4, <1>5 DEF PathIsSound

LEMMA NamesAre ==
    ASSUME NEW s \in Names
    PROVE  \E v \in Variables : s = <<v>> /\ s \in Seq(Symbols) /\ Len(s) = 1 /\ s[1] = v
<1>1. PICK v \in Variables : s = <<v>>
  BY DEF Names
<1>2. v \in Symbols
  BY SymbolsAre
<1> QED BY <1>1, <1>2

LEMMA SplatsAre ==
    ASSUME NEW s \in Splats
    PROVE  \E w \in Seq(Letters) :
             /\ s = w \o <<"*">> /\ s \in Seq(Symbols) /\ w \in Seq(Symbols)
             /\ Len(s) = Len(w) + 1 /\ s[Len(w) + 1] = "*" /\ Len(w) \in Nat
             /\ \A i \in 1 .. Len(w) : s[i] = w[i]
<1>1. PICK w \in Words \cup {<<>>} : s = w \o <<"*">>
  BY DEF Splats
<1>2. w \in Seq(Letters) /\ w \in Seq(Symbols)
  BY <1>1, WordsAre, SymbolsAre
<1>3. PICK e \in Seq(Symbols) : e = <<"*">> /\ Len(e) = 1 /\ e[1] = "*"
  <2>1. <<"*">> \in Seq(Symbols)
    BY SymbolsAre
  <2> QED BY <2>1
<1>4. PICK n \in Nat : n = Len(w)
  BY <1>2, LenProperties
<1>5. /\ w \o e \in Seq(Symbols) /\ Len(w \o e) = n + 1
      /\ \A i \in 1 .. n + 1 : (w \o e)[i] = IF i <= n THEN w[i] ELSE e[i - n]
  <2>1. /\ w \o e \in Seq(Symbols) /\ Len(w \o e) = Len(w) + Len(e)
        /\ \A i \in 1 .. Len(w) + Len(e) : (w \o e)[i] = IF i <= Len(w) THEN w[i] ELSE e[i - Len(w)]
    BY <1>2, <1>3, ConcatProperties
  <2> QED BY <1>3, <1>4, <2>1
<1>6. (w \o e)[n + 1] = "*" /\ \A i \in 1 .. n : (w \o e)[i] = w[i]
  <2>1. n + 1 \in 1 .. n + 1 /\ ~(n + 1 <= n) /\ (n + 1) - n = 1
    OBVIOUS
  <2>2. \A i \in 1 .. n : i \in 1 .. n + 1 /\ i <= n
    OBVIOUS
  <2> QED BY <1>3, <1>5, <2>1, <2>2
<1> QED BY <1>1, <1>2, <1>3, <1>4, <1>5, <1>6

LEMMA RuleIsOk == rule \in Rules => RuleIsSound(rule)
<1> SUFFICES ASSUME rule \in Rules PROVE RuleIsSound(rule)
  OBVIOUS
<1>1. PICK t \in Seq(Words \cup Names), l \in Words \cup {<<>>} \cup Names \cup Splats : rule = Append(t, l)
  BY SegmentsAre DEF Rules
<1>2. PICK n \in Nat : n = Len(t)
  BY <1>1, LenProperties
<1>3. \A s \in Names : s \in Seq(Symbols)
  BY NamesAre
<1>4. \A s \in Splats : s \in Seq(Symbols)
  BY SplatsAre
<1>5. \A w \in Words \cup {<<>>} : w \in Seq(Letters) /\ w \in Seq(Symbols)
  BY WordsAre, SymbolsAre
<1>6. Words \cup Names \subseteq Seq(Symbols) /\ l \in Seq(Symbols)
  BY <1>1, <1>3, <1>4, <1>5
<1>7. /\ Len(rule) = n + 1 /\ \A i \in 1 .. n : rule[i] = t[i] /\ t[i] \in Words \cup Names
      /\ rule[n + 1] = l /\ rule \in Seq(Seq(Symbols))
  BY <1>1, <1>2, <1>6, Members
<1>8. ASSUME NEW i \in 1 .. Len(rule)
      PROVE  rule[i] \in Seq(Letters) \/ rule[i] \in Names \/ (i = Len(rule) /\ rule[i] \in Splats)
  <2>1. CASE i \in 1 .. n
    <3>1. rule[i] \in Words \/ rule[i] \in Names
      BY <1>7, <2>1
    <3> QED BY <1>3, <1>5, <3>1
  <2>2. CASE i = n + 1
    <3>1. rule[i] = l /\ i = Len(rule)
      BY <1>7, <2>2
    <3>2. l \in Words \cup {<<>>} \/ l \in Names \/ l \in Splats
      BY <1>1
    <3> QED BY <1>3, <1>4, <1>5, <3>1, <3>2
  <2> QED BY <1>7, <2>1, <2>2
<1> QED BY <1>7, <1>8 DEF RuleIsSound

\* A word, a variable and a splat are not the same.
LEMMA Kinds ==
    ASSUME NEW s
    PROVE  /\ ~(s \in Names /\ s \in Seq(Letters))
           /\ ~(s \in Names /\ s \in Splats)
           /\ ~(s \in Splats /\ s \in Seq(Letters))
<1>1. s \in Splats => \E i \in 1 .. Len(s) : s[i] = "*"
  <2> SUFFICES ASSUME s \in Splats PROVE \E i \in 1 .. Len(s) : s[i] = "*"
    OBVIOUS
  <2>1. PICK n \in Nat : Len(s) = n + 1 /\ s[n + 1] = "*"
    BY SplatsAre
  <2> QED BY <2>1
<1>2. s \in Names => Len(s) = 1 /\ s[1] \in Variables
  BY NamesAre
<1>3. s \in Seq(Letters) => \A i \in 1 .. Len(s) : s[i] \in Letters
  BY ElementOfSeq
<1> QED BY <1>1, <1>2, <1>3, SymbolsAre

\* A segment and the slash before it.
Slashed(s) == <<"/">> \o s

LEMMA SlashedIs ==
    ASSUME NEW s \in Seq(Symbols)
    PROVE  /\ Slashed(s) \in Seq(Symbols) /\ Len(Slashed(s)) = Len(s) + 1 /\ Slashed(s)[1] = "/"
           /\ \A i \in 1 .. Len(s) : Slashed(s)[i + 1] = s[i]
           /\ \A t \in Seq(Symbols) : Slashed(s) = Slashed(t) => s = t
<1>1. <<"/">> \in Seq(Symbols)
  BY SymbolsAre
<1>2. PICK e \in Seq(Symbols) : e = <<"/">> /\ Len(e) = 1 /\ e[1] = "/"
  BY <1>1
<1>3. PICK n \in Nat : n = Len(s)
  BY LenProperties
<1>4. /\ e \o s \in Seq(Symbols) /\ Len(e \o s) = Len(e) + Len(s)
      /\ \A i \in 1 .. Len(e) + Len(s) : (e \o s)[i] = IF i <= Len(e) THEN e[i] ELSE s[i - Len(e)]
  BY ConcatProperties
<1>5. /\ Len(e \o s) = n + 1
      /\ \A i \in 1 .. n + 1 : (e \o s)[i] = IF i <= 1 THEN e[i] ELSE s[i - 1]
  BY <1>2, <1>3, <1>4
<1>6. (e \o s)[1] = "/"
  <2>1. 1 \in 1 .. n + 1 /\ 1 <= 1
    OBVIOUS
  <2> QED BY <1>2, <1>5, <2>1
<1>7. ASSUME NEW i \in 1 .. n PROVE (e \o s)[i + 1] = s[i]
  <2>1. i + 1 \in 1 .. n + 1 /\ ~(i + 1 <= 1) /\ (i + 1) - 1 = i
    OBVIOUS
  <2> QED BY <1>5, <2>1
<1>8. \A t \in Seq(Symbols) : e \o s = e \o t => s = t
  BY ConcatSimplifications
<1> QED BY <1>2, <1>3, <1>4, <1>5, <1>6, <1>7, <1>8 DEF Slashed

\* The first symbol of p, and what is left.
LEMMA HeadOf ==
    ASSUME NEW S, NEW c \in Seq(S), NEW p \in Seq(S), p # <<>>
    PROVE  /\ Head(p) \in S /\ Tail(p) \in Seq(S) /\ Len(Tail(p)) = Len(p) - 1 /\ Len(p) \in Nat \ {0}
           /\ Len(c) + 1 \in 1 .. Len(c \o p) /\ (c \o p)[Len(c) + 1] = Head(p)
           /\ Append(c, Head(p)) \in Seq(S) /\ Append(c, Head(p)) \o Tail(p) = c \o p
           /\ p \o c # <<>> /\ Head(p \o c) = Head(p) /\ Tail(p \o c) = Tail(p) \o c
<1>1. /\ Head(p) \in S /\ Tail(p) \in Seq(S) /\ Len(Tail(p)) = Len(p) - 1
      /\ Len(p) \in Nat \ {0}
  BY HeadTailProperties, EmptySeq
<1>2. PICK n \in Nat, m \in Nat : n = Len(c) /\ m = Len(p) /\ m # 0
  BY <1>1, LenProperties
<1>3. PICK x \in S, t \in Seq(S) : x = Head(p) /\ t = Tail(p)
  BY <1>1
<1>4. PICK e \in Seq(S) : e = <<x>> /\ Len(e) = 1 /\ e[1] = x
  <2>1. <<x>> \in Seq(S)
    OBVIOUS
  <2> QED BY <2>1
<1>5. p = e \o t
  <2>1. SubSeq(p, 1, m) = <<p[1]>> \o SubSeq(p, 1 + 1, m)
    <3>1. 1 \in 1 .. Len(p) /\ m \in 1 .. Len(p)
      BY <1>2
    <3> QED BY <3>1, SubSeqRecursiveFirst
  <2>2. SubSeq(p, 1, m) = p /\ SubSeq(p, 2, m) = t /\ 1 + 1 = 2
    BY <1>2, <1>3, SubSeqFull, TailIsSubSeq
  <2>3. p[1] = x
    BY <1>3
  <2> QED BY <1>4, <2>1, <2>2, <2>3
<1>6. Append(c, x) = c \o e /\ Append(c, x) \in Seq(S)
  BY <1>4, AppendIsConcat, AppendProperties
<1>7. (c \o e) \o t = c \o (e \o t)
  BY ConcatAssociative
<1>8. p \o c = e \o (t \o c) /\ t \o c \in Seq(S)
  <2>1. t \o c \in Seq(S)
    BY ConcatProperties
  <2>2. (e \o t) \o c = e \o (t \o c)
    BY ConcatAssociative
  <2> QED BY <1>5, <2>1, <2>2
<1>9. Len(c \o p) = n + m /\ \A i \in 1 .. n + m : (c \o p)[i] = IF i <= n THEN c[i] ELSE p[i - n]
  <2>1. Len(c \o p) = Len(c) + Len(p) /\ \A i \in 1 .. Len(c) + Len(p) :
          (c \o p)[i] = IF i <= Len(c) THEN c[i] ELSE p[i - Len(c)]
    BY ConcatProperties
  <2> QED BY <1>2, <2>1
<1>10. n + 1 \in 1 .. n + m /\ (c \o p)[n + 1] = x
  <2>1. n + 1 \in 1 .. n + m /\ ~(n + 1 <= n) /\ (n + 1) - n = 1
    BY <1>2
  <2> QED BY <1>3, <1>9, <2>1
<1>11. ASSUME NEW d \in Seq(S) PROVE e \o d # <<>> /\ Head(e \o d) = x /\ Tail(e \o d) = d
  <2>1. PICK k \in Nat : k = Len(d)
    BY LenProperties
  <2>2. /\ e \o d \in Seq(S) /\ Len(e \o d) = 1 + k
        /\ \A i \in 1 .. 1 + k : (e \o d)[i] = IF i <= 1 THEN e[i] ELSE d[i - 1]
    <3>1. /\ e \o d \in Seq(S) /\ Len(e \o d) = Len(e) + Len(d)
          /\ \A i \in 1 .. Len(e) + Len(d) : (e \o d)[i] = IF i <= Len(e) THEN e[i] ELSE d[i - Len(e)]
      BY ConcatProperties
    <3> QED BY <1>4, <2>1, <3>1
  <2>3. PICK f \in Seq(S) : f = e \o d
    BY <2>2
  <2>4. Len(f) = 1 + k /\ f # <<>>
    BY <2>1, <2>2, <2>3, EmptySeq
  <2>5. f[1] = x
    <3>1. 1 \in 1 .. 1 + k /\ 1 <= 1
      OBVIOUS
    <3> QED BY <1>4, <2>2, <2>3, <3>1
  <2>6. Len(Tail(f)) = k /\ Tail(f) \in Seq(S) /\ \A i \in 1 .. k : Tail(f)[i] = f[i + 1]
    BY <2>4, HeadTailProperties
  <2>7. ASSUME NEW i \in 1 .. k PROVE f[i + 1] = d[i]
    <3>1. i + 1 \in 1 .. 1 + k /\ ~(i + 1 <= 1) /\ (i + 1) - 1 = i
      OBVIOUS
    <3> QED BY <2>2, <2>3, <3>1
  <2>8. Tail(f) = d
    BY <2>1, <2>6, <2>7, SeqEqual
  <2>9. Head(f) = f[1]
    OBVIOUS
  <2> QED BY <2>3, <2>4, <2>5, <2>8, <2>9
<1>12. Append(c, x) \o t = c \o p
  BY <1>5, <1>6, <1>7
<1>13. p \o c # <<>> /\ Head(p \o c) = x /\ Tail(p \o c) = t \o c
  BY <1>8, <1>11
<1>14. Len(c) + 1 \in 1 .. Len(c \o p) /\ (c \o p)[Len(c) + 1] = x
  BY <1>2, <1>9, <1>10
<1> QED BY <1>1, <1>3, <1>6, <1>12, <1>13, <1>14

-----------------------------------------------------------------------------
(* A segment of the path and one of the pattern.                           *)

\* The k-th segment of the path is what the k-th of the pattern means.
Fits(k) ==
    IF k = Len(rule) /\ rule[k] \in Splats
    THEN IsPrefix(Front(rule[k]), asked[k])
    ELSE Goes(rule[k], asked[k])

Sound == PathIsSound(asked) /\ RuleIsSound(rule)

LEMMA MeantIs ==
    ASSUME Sound
    PROVE  IsMeant <=>
             /\ IF rule[Len(rule)] \in Splats THEN Len(asked) >= Len(rule) ELSE Len(asked) = Len(rule)
             /\ \A k \in 1 .. Len(rule) : Fits(k)
<1>1. PICK n \in Nat : n = Len(rule) /\ n > 0
  BY LenProperties DEF Sound, RuleIsSound
<1>2. \A k \in 1 .. n - 1 : k \in 1 .. n /\ k # n
  BY <1>1
<1>3. \A k \in 1 .. n : k = n \/ k \in 1 .. n - 1
  BY <1>1
<1>4. n \in 1 .. n
  BY <1>1
<1> QED BY <1>1, <1>2, <1>3, <1>4 DEF IsMeant, Fits, Last

\* Of a word and "*" the word is a prefix.
LEMMA PrefixIs ==
    ASSUME NEW w \in Seq(Symbols), NEW s \in Seq(Symbols), NEW a \in Seq(Symbols),
           Len(s) = Len(w) + 1, \A i \in 1 .. Len(w) : s[i] = w[i]
    PROVE  IsPrefix(Front(s), a) <=> Len(w) <= Len(a) /\ \A i \in 1 .. Len(w) : a[i] = w[i]
<1>1. PICK n \in Nat, m \in Nat : n = Len(w) /\ m = Len(a)
  BY LenProperties
<1>2. Front(s) = w
  <2>1. \A i \in 1 .. n : s[i] \in Symbols
    BY <1>1, ElementOfSeq
  <2>2. SubSeq(s, 1, n) \in Seq(Symbols) /\ Len(SubSeq(s, 1, n)) = n
        /\ \A i \in 1 .. n : SubSeq(s, 1, n)[i] = s[i]
    BY <2>1, SubSeqProperties
  <2>3. SubSeq(s, 1, n) = w
    BY <1>1, <2>2, SeqEqual
  <2>4. Len(s) - 1 = n
    BY <1>1
  <2> QED BY <2>3, <2>4 DEF Front
<1>3. SubSeq(w, 1, n) = w
  BY <1>1, SubSeqFull
<1>4. ASSUME n <= m PROVE SubSeq(a, 1, n) = w <=> \A i \in 1 .. n : a[i] = w[i]
  <2>1. \A i \in 1 .. n : i \in 1 .. m
    BY <1>4
  <2>2. \A i \in 1 .. n : a[i] \in Symbols
    BY <1>1, <2>1, ElementOfSeq
  <2>3. SubSeq(a, 1, n) \in Seq(Symbols) /\ Len(SubSeq(a, 1, n)) = n
        /\ \A i \in 1 .. n : SubSeq(a, 1, n)[i] = a[i]
    BY <2>2, SubSeqProperties
  <2>4. (\A i \in 1 .. n : a[i] = w[i]) => SubSeq(a, 1, n) = w
    BY <1>1, <2>3, SeqEqual
  <2> QED BY <2>3, <2>4
<1> QED BY <1>1, <1>2, <1>3, <1>4 DEF IsPrefix

\* The segments compared, from their slashes on: c is what they have in common, p and r
\* what is left of them.
Compared(k, c, p, r) ==
    /\ k \in 1 .. Len(rule) /\ k \in 1 .. Len(asked)
    /\ c \in Seq(Symbols) /\ p \in Seq(Symbols) /\ r \in Seq(Symbols)
    /\ Slashed(rule[k]) = c \o p /\ Slashed(asked[k]) = c \o r

LEMMA SegmentsAreTyped ==
    ASSUME Sound
    PROVE  /\ \A k \in 1 .. Len(rule) :
                /\ rule[k] \in Seq(Symbols)
                /\ rule[k] \in Seq(Letters) \/ rule[k] \in Names \/ (k = Len(rule) /\ rule[k] \in Splats)
           /\ \A k \in 1 .. Len(asked) : asked[k] \in Seq(Symbols) /\ asked[k] \in Seq(Letters)
           /\ Len(rule) \in Nat \ {0} /\ Len(asked) \in Nat \ {0}
           /\ rule \in Seq(Seq(Symbols)) /\ asked \in Seq(Seq(Symbols))
<1>1. rule \in Seq(Seq(Symbols)) /\ asked \in Seq(Seq(Letters))
  BY DEF Sound, PathIsSound, RuleIsSound
<1>2. Seq(Letters) \subseteq Seq(Symbols)
  BY SymbolsAre
<1>3. asked \in Seq(Seq(Symbols))
  BY <1>1, <1>2, SeqMonotonic
<1>4. Len(rule) \in Nat /\ Len(asked) \in Nat
  BY <1>1, LenProperties
<1>5. Len(rule) \in Nat \ {0} /\ Len(asked) \in Nat \ {0}
  BY <1>4 DEF Sound, PathIsSound, RuleIsSound
<1>6. \A k \in 1 .. Len(rule) : rule[k] \in Seq(Symbols)
  BY <1>1, ElementOfSeq
<1>7. \A k \in 1 .. Len(asked) : asked[k] \in Seq(Letters)
  BY <1>1, ElementOfSeq
<1> QED BY <1>1, <1>2, <1>3, <1>5, <1>6, <1>7 DEF Sound, RuleIsSound

\* How far the comparison has come: the first symbols are the same, the next are the
\* heads of what is left.
LEMMA ComparedTo ==
    ASSUME Sound, NEW k, NEW c, NEW p, NEW r, Compared(k, c, p, r)
    PROVE  \E n, u, a \in Nat :
             /\ n = Len(c) /\ u = Len(rule[k]) /\ a = Len(asked[k])
             /\ n <= u + 1 /\ n <= a + 1
             /\ \A i \in 1 .. n - 1 : i \in 1 .. u /\ i \in 1 .. a /\ rule[k][i] = asked[k][i]
             /\ p = <<>> <=> n = u + 1
             /\ r = <<>> <=> n = a + 1
             /\ p # <<>> /\ n = 0 => Head(p) = "/"
             /\ r # <<>> /\ n = 0 => Head(r) = "/"
             /\ p # <<>> /\ n > 0 => n \in 1 .. u /\ rule[k][n] = Head(p)
             /\ r # <<>> /\ n > 0 => n \in 1 .. a /\ asked[k][n] = Head(r)
             /\ Len(p) = u + 1 - n
<1>0. rule[k] \in Seq(Symbols) /\ asked[k] \in Seq(Symbols)
  BY SegmentsAreTyped DEF Compared
<1>1. PICK n \in Nat, u \in Nat, a \in Nat : n = Len(c) /\ u = Len(rule[k]) /\ a = Len(asked[k])
  BY <1>0, LenProperties DEF Compared
<1>2. ASSUME NEW s \in Seq(Symbols), NEW q \in Seq(Symbols), Slashed(s) = c \o q, NEW l \in Nat, l = Len(s)
      PROVE  /\ n <= l + 1 /\ (q = <<>> <=> n = l + 1) /\ Len(q) = l + 1 - n
             /\ q # <<>> /\ n = 0 => Head(q) = "/"
             /\ q # <<>> /\ n > 0 => n \in 1 .. l /\ s[n] = Head(q)
             /\ \A i \in 1 .. n - 1 : i \in 1 .. l /\ s[i] = c[i + 1]
  <2>0. c \in Seq(Symbols)
    BY DEF Compared
  <2>1. PICK f \in Seq(Symbols) : f = Slashed(s)
    BY SlashedIs
  <2>2. Len(f) = l + 1 /\ f[1] = "/" /\ \A i \in 1 .. l : f[i + 1] = s[i]
    BY <1>2, <2>1, SlashedIs
  <2>3. PICK m \in Nat : m = Len(q) /\ (q = <<>> <=> m = 0)
    BY EmptySeq, LenProperties
  <2>4. l + 1 = n + m /\ \A i \in 1 .. n : f[i] = c[i]
    <3>1. Len(c \o q) = Len(c) + Len(q) /\ \A i \in 1 .. Len(c) + Len(q) :
            (c \o q)[i] = IF i <= Len(c) THEN c[i] ELSE q[i - Len(c)]
      BY <2>0, ConcatProperties
    <3>2. \A i \in 1 .. n : i \in 1 .. n + m /\ i <= n
      OBVIOUS
    <3> QED BY <1>1, <1>2, <2>1, <2>2, <2>3, <3>1, <3>2
  <2>5. ASSUME q # <<>> PROVE n + 1 \in 1 .. l + 1 /\ f[n + 1] = Head(q)
    BY <1>1, <1>2, <2>0, <2>1, <2>2, <2>5, HeadOf
  <2>6. ASSUME NEW i \in 1 .. n - 1 PROVE i \in 1 .. l /\ s[i] = c[i + 1]
    <3>1. i \in 1 .. l /\ i + 1 \in 1 .. n
      BY <2>4
    <3> QED BY <2>2, <2>4, <3>1
  <2>7. q # <<>> /\ n > 0 => n \in 1 .. l /\ s[n] = Head(q)
    <3> SUFFICES ASSUME q # <<>>, n > 0 PROVE n \in 1 .. l /\ s[n] = Head(q)
      OBVIOUS
    <3>1. n \in 1 .. l
      BY <2>5
    <3> QED BY <2>2, <2>5, <3>1
  <2>8. q # <<>> /\ n = 0 => Head(q) = "/"
    BY <2>2, <2>5
  <2> QED BY <2>3, <2>4, <2>6, <2>7, <2>8
<1>3. p \in Seq(Symbols) /\ r \in Seq(Symbols) /\ Slashed(rule[k]) = c \o p /\ Slashed(asked[k]) = c \o r
  BY DEF Compared
<1>4. /\ n <= u + 1 /\ (p = <<>> <=> n = u + 1) /\ Len(p) = u + 1 - n
      /\ p # <<>> /\ n = 0 => Head(p) = "/"
      /\ p # <<>> /\ n > 0 => n \in 1 .. u /\ rule[k][n] = Head(p)
      /\ \A i \in 1 .. n - 1 : i \in 1 .. u /\ rule[k][i] = c[i + 1]
  BY <1>0, <1>1, <1>2, <1>3
<1>5. /\ n <= a + 1 /\ (r = <<>> <=> n = a + 1)
      /\ r # <<>> /\ n = 0 => Head(r) = "/"
      /\ r # <<>> /\ n > 0 => n \in 1 .. a /\ asked[k][n] = Head(r)
      /\ \A i \in 1 .. n - 1 : i \in 1 .. a /\ asked[k][i] = c[i + 1]
  <2>1. PICK s \in Seq(Symbols) : s = asked[k] /\ a = Len(s) /\ Slashed(s) = c \o r
    BY <1>0, <1>1, <1>3
  <2>2. r \in Seq(Symbols)
    BY <1>3
  <2>3. n <= a + 1 /\ (r = <<>> <=> n = a + 1)
    <3>1. n <= a + 1 /\ Len(r) = a + 1 - n
      BY <1>2, <2>1, <2>2
    <3>2. r = <<>> <=> Len(r) = 0
      BY <2>2, EmptySeq
    <3> QED BY <3>1, <3>2
  <2>4. /\ r # <<>> /\ n = 0 => Head(r) = "/"
        /\ r # <<>> /\ n > 0 => n \in 1 .. a /\ s[n] = Head(r)
    BY <1>2, <2>1, <2>2
  <2>5. \A i \in 1 .. n - 1 : i \in 1 .. a /\ s[i] = c[i + 1]
    BY <1>2, <2>1, <2>2
  <2> QED BY <2>1, <2>3, <2>4, <2>5
<1> QED BY <1>1, <1>4, <1>5

\* What fitting is for each kind of segment.
LEMMA FitsIs ==
    ASSUME Sound, NEW k \in 1 .. Len(rule), k \in 1 .. Len(asked)
    PROVE  /\ rule[k] \in Seq(Letters) => (Fits(k) <=> asked[k] = rule[k])
           /\ rule[k] \in Names => (Fits(k) <=> asked[k] # <<>>)
           /\ rule[k] \in Splats => k = Len(rule) /\
                \E w \in Seq(Letters) :
                  /\ Len(w) \in Nat /\ Len(rule[k]) = Len(w) + 1 /\ rule[k][Len(w) + 1] = "*"
                  /\ \A i \in 1 .. Len(w) : rule[k][i] = w[i]
                  /\ rule[k] = w \o <<"*">>
                  /\ Fits(k) <=> Len(w) <= Len(asked[k]) /\ \A i \in 1 .. Len(w) : asked[k][i] = w[i]
<1>0. /\ rule[k] \in Seq(Letters) \/ rule[k] \in Names \/ (k = Len(rule) /\ rule[k] \in Splats)
      /\ asked[k] \in Seq(Symbols)
  BY SegmentsAreTyped
<1>1. rule[k] \in Seq(Letters) => (Fits(k) <=> asked[k] = rule[k])
  BY Kinds DEF Fits, Goes
<1>2. rule[k] \in Names => (Fits(k) <=> asked[k] # <<>>)
  BY Kinds DEF Fits, Goes
<1>3. ASSUME rule[k] \in Splats
      PROVE  k = Len(rule) /\
             \E w \in Seq(Letters) :
               /\ Len(w) \in Nat /\ Len(rule[k]) = Len(w) + 1 /\ rule[k][Len(w) + 1] = "*"
               /\ \A i \in 1 .. Len(w) : rule[k][i] = w[i]
               /\ rule[k] = w \o <<"*">>
               /\ Fits(k) <=> Len(w) <= Len(asked[k]) /\ \A i \in 1 .. Len(w) : asked[k][i] = w[i]
  <2>1. k = Len(rule)
    BY <1>0, <1>3, Kinds
  <2>2. PICK w \in Seq(Letters) :
             /\ rule[k] = w \o <<"*">> /\ rule[k] \in Seq(Symbols) /\ w \in Seq(Symbols)
             /\ Len(rule[k]) = Len(w) + 1 /\ rule[k][Len(w) + 1] = "*" /\ Len(w) \in Nat
             /\ \A i \in 1 .. Len(w) : rule[k][i] = w[i]
    BY <1>3, SplatsAre
  <2>3. Fits(k) <=> IsPrefix(Front(rule[k]), asked[k])
    BY <1>3, <2>1 DEF Fits
  <2>4. IsPrefix(Front(rule[k]), asked[k]) <=>
          Len(w) <= Len(asked[k]) /\ \A i \in 1 .. Len(w) : asked[k][i] = w[i]
    <3> HIDE <2>3
    <3>1. PICK s, a : s = rule[k] /\ a = asked[k]
      OBVIOUS
    <3>2. /\ s \in Seq(Symbols) /\ a \in Seq(Symbols) /\ Len(s) = Len(w) + 1
          /\ \A i \in 1 .. Len(w) : s[i] = w[i]
      BY <1>0, <2>2, <3>1
    <3>3. IsPrefix(Front(s), a) <=> Len(w) <= Len(a) /\ \A i \in 1 .. Len(w) : a[i] = w[i]
      BY <2>2, <3>2, PrefixIs
    <3> QED BY <3>1, <3>3
  <2> QED BY <2>1, <2>2, <2>3, <2>4
<1> QED BY <1>1, <1>2, <1>3

LEMMA KindOf ==
    ASSUME Sound, NEW k \in 1 .. Len(rule), NEW i \in 1 .. Len(rule[k])
    PROVE  /\ rule[k] \in Seq(Letters) => rule[k][i] \in Letters
           /\ rule[k] \in Names =>
                Len(rule[k]) = 1 /\ i = 1 /\ rule[k][i] \in Variables /\ rule[k] = <<rule[k][i]>>
           /\ rule[k] \in Splats => rule[k][i] \in Letters \/ (rule[k][i] = "*" /\ i = Len(rule[k]))
<1>1. rule[k] \in Seq(Letters) => rule[k][i] \in Letters
  BY ElementOfSeq
<1>2. ASSUME rule[k] \in Names
      PROVE  Len(rule[k]) = 1 /\ i = 1 /\ rule[k][i] \in Variables /\ rule[k] = <<rule[k][i]>>
  <2>1. PICK v \in Variables : rule[k] = <<v>> /\ Len(rule[k]) = 1 /\ rule[k][1] = v
    BY <1>2, NamesAre
  <2> QED BY <2>1
<1>3. ASSUME rule[k] \in Splats
      PROVE  rule[k][i] \in Letters \/ (rule[k][i] = "*" /\ i = Len(rule[k]))
  <2>1. PICK w \in Seq(Letters) :
             /\ Len(rule[k]) = Len(w) + 1 /\ rule[k][Len(w) + 1] = "*" /\ Len(w) \in Nat
             /\ \A j \in 1 .. Len(w) : rule[k][j] = w[j]
    BY <1>3, SplatsAre
  <2>2. CASE i \in 1 .. Len(w)
    BY <2>1, <2>2, ElementOfSeq
  <2>3. CASE i = Len(w) + 1
    BY <2>1, <2>3
  <2> QED BY <2>1, <2>2, <2>3
<1> QED BY <1>1, <1>2, <1>3

\* Different symbols, of which the pattern's is none that matches any.
LEMMA Different ==
    ASSUME Sound, NEW k, NEW c, NEW p, NEW r, Compared(k, c, p, r),
           p # <<>>, r # <<>>, Head(p) # Head(r), Head(p) \notin Variables \cup {"*"}
    PROVE  ~Fits(k)
<1>0. k \in 1 .. Len(rule) /\ k \in 1 .. Len(asked)
  BY DEF Compared
<1>1. PICK n, u, a \in Nat :
             /\ u = Len(rule[k]) /\ a = Len(asked[k]) /\ n > 0
             /\ n \in 1 .. u /\ rule[k][n] = Head(p)
             /\ n \in 1 .. a /\ asked[k][n] = Head(r)
  <2>1. PICK n, u, a \in Nat :
             /\ u = Len(rule[k]) /\ a = Len(asked[k])
             /\ n = 0 => Head(p) = "/"
             /\ n = 0 => Head(r) = "/"
             /\ n > 0 => n \in 1 .. u /\ rule[k][n] = Head(p)
             /\ n > 0 => n \in 1 .. a /\ asked[k][n] = Head(r)
    BY ComparedTo
  <2>2. n > 0
    BY <2>1
  <2> QED BY <2>1, <2>2
<1>2. CASE rule[k] \in Seq(Letters)
  BY <1>0, <1>1, <1>2, FitsIs
<1>3. CASE rule[k] \in Names
  BY <1>0, <1>1, <1>3, KindOf
<1>4. CASE rule[k] \in Splats
  <2>1. PICK w \in Seq(Letters) :
                  /\ Len(w) \in Nat /\ Len(rule[k]) = Len(w) + 1 /\ rule[k][Len(w) + 1] = "*"
                  /\ \A i \in 1 .. Len(w) : rule[k][i] = w[i]
                  /\ Fits(k) => \A i \in 1 .. Len(w) : asked[k][i] = w[i]
    BY <1>0, <1>4, FitsIs
  <2>2. n # Len(w) + 1
    BY <1>1, <2>1
  <2>3. n \in 1 .. Len(w)
    BY <1>1, <2>1, <2>2
  <2> QED BY <1>1, <2>1, <2>3
<1> QED BY <1>0, <1>2, <1>3, <1>4, SegmentsAreTyped

\* The path's segment is shorter.
LEMMA TooShort ==
    ASSUME Sound, NEW k, NEW c, NEW p, NEW r, Compared(k, c, p, r),
           p # <<>>, r = <<>>, p # <<"*">>
    PROVE  ~Fits(k)
<1>0. k \in 1 .. Len(rule) /\ k \in 1 .. Len(asked) /\ p \in Seq(Symbols)
  BY DEF Compared
<1>1. PICK n, u, a \in Nat :
             /\ u = Len(rule[k]) /\ a = Len(asked[k])
             /\ n <= u + 1 /\ n # u + 1 /\ n = a + 1 /\ n > 0
             /\ n \in 1 .. u /\ rule[k][n] = Head(p) /\ Len(p) = u + 1 - n
  <2>1. PICK n, u, a \in Nat :
             /\ u = Len(rule[k]) /\ a = Len(asked[k])
             /\ n <= u + 1 /\ n # u + 1 /\ n = a + 1
             /\ n > 0 => n \in 1 .. u /\ rule[k][n] = Head(p)
             /\ Len(p) = u + 1 - n
    BY ComparedTo
  <2>2. n > 0
    BY <2>1
  <2> QED BY <2>1, <2>2
<1>2. CASE rule[k] \in Seq(Letters)
  BY <1>0, <1>1, <1>2, FitsIs
<1>3. CASE rule[k] \in Names
  <2>1. u = 1
    BY <1>0, <1>1, <1>3, KindOf
  <2>2. a = 0
    BY <1>1, <2>1
  <2>3. asked[k] = <<>>
    BY <1>0, <1>1, <2>2, SegmentsAreTyped, EmptySeq
  <2> QED BY <1>0, <1>3, <2>3, FitsIs
<1>4. CASE rule[k] \in Splats
  <2>1. PICK w \in Seq(Letters) :
                  /\ Len(w) \in Nat /\ Len(rule[k]) = Len(w) + 1 /\ rule[k][Len(w) + 1] = "*"
                  /\ Fits(k) => Len(w) <= Len(asked[k])
    BY <1>0, <1>4, FitsIs
  <2> SUFFICES ASSUME Fits(k) PROVE FALSE
    OBVIOUS
  <2>2. n = Len(w) + 1 /\ Len(p) = 1
    <3>1. PICK l \in Nat : l = Len(w) /\ u = l + 1 /\ l <= a
      BY <1>1, <2>1
    <3>2. n <= u /\ n = a + 1 /\ Len(p) = u + 1 - n
      BY <1>1
    <3>3. n = l + 1 /\ Len(p) = 1
      BY <3>1, <3>2
    <3> QED BY <3>1, <3>3
  <2>3. Head(p) = "*"
    BY <1>1, <2>1, <2>2
  <2>4. p = <<"*">>
    <3>1. p[1] = "*"
      BY <2>3
    <3>2. PICK e \in Seq(Symbols) : e = <<"*">> /\ Len(e) = 1 /\ e[1] = "*"
      <4>1. <<"*">> \in Seq(Symbols)
        BY SymbolsAre
      <4> QED BY <4>1
    <3>3. \A i \in 1 .. Len(p) : p[i] = e[i]
      BY <2>2, <3>1, <3>2
    <3> QED BY <1>0, <2>2, <3>2, <3>3, SeqEqual
  <2> QED BY <2>4
<1> QED BY <1>0, <1>2, <1>3, <1>4, SegmentsAreTyped

\* The path's segment is longer.
LEMMA TooLong ==
    ASSUME Sound, NEW k, NEW c, NEW p, NEW r, Compared(k, c, p, r), p = <<>>, r # <<>>
    PROVE  ~Fits(k) /\ Head(r) # "/" /\ rule[k] \in Seq(Letters)
<1>0. k \in 1 .. Len(rule) /\ k \in 1 .. Len(asked)
  BY DEF Compared
<1>1. PICK n, u, a \in Nat :
             /\ u = Len(rule[k]) /\ a = Len(asked[k])
             /\ n = u + 1 /\ n > 0 /\ n \in 1 .. a /\ asked[k][n] = Head(r)
             /\ \A i \in 1 .. n - 1 : i \in 1 .. u /\ i \in 1 .. a /\ rule[k][i] = asked[k][i]
  <2>1. PICK n, u, a \in Nat :
             /\ u = Len(rule[k]) /\ a = Len(asked[k])
             /\ n = u + 1
             /\ n > 0 => n \in 1 .. a /\ asked[k][n] = Head(r)
             /\ \A i \in 1 .. n - 1 : i \in 1 .. u /\ i \in 1 .. a /\ rule[k][i] = asked[k][i]
    BY ComparedTo
  <2> QED BY <2>1
<1>2. \A i \in 1 .. a : asked[k][i] \in Letters
  BY <1>0, <1>1, SegmentsAreTyped, ElementOfSeq
<1>3. \A i \in 1 .. u : rule[k][i] \in Letters
  <2>1. \A i \in 1 .. u : i \in 1 .. n - 1
    BY <1>1
  <2> QED BY <1>1, <1>2, <2>1
<1>4. rule[k] \notin Names
  <2> SUFFICES ASSUME rule[k] \in Names PROVE FALSE
    OBVIOUS
  <2>1. u = 1 /\ rule[k][1] \in Variables
    BY <1>1, NamesAre
  <2> QED BY <1>3, <2>1, SymbolsAre
<1>5. rule[k] \notin Splats
  <2> SUFFICES ASSUME rule[k] \in Splats PROVE FALSE
    OBVIOUS
  <2>1. PICK m \in Nat : u = m + 1 /\ rule[k][m + 1] = "*"
    BY <1>1, SplatsAre
  <2> QED BY <1>3, <2>1, SymbolsAre
<1>6. rule[k] \in Seq(Letters)
  BY <1>0, <1>4, <1>5, SegmentsAreTyped
<1>7. asked[k] # rule[k]
  BY <1>1
<1>8. Head(r) # "/"
  BY <1>1, <1>2, SymbolsAre
<1> QED BY <1>0, <1>6, <1>7, <1>8, FitsIs

\* Both end.
LEMMA SameLength ==
    ASSUME Sound, NEW k, NEW c, NEW p, NEW r, Compared(k, c, p, r), p = <<>>, r = <<>>
    PROVE  Fits(k) /\ rule[k] \in Seq(Letters)
<1>0. k \in 1 .. Len(rule) /\ k \in 1 .. Len(asked)
  BY DEF Compared
<1>1. Slashed(rule[k]) = Slashed(asked[k])
  BY DEF Compared
<1>2. rule[k] \in Seq(Symbols) /\ asked[k] \in Seq(Symbols) /\ asked[k] \in Seq(Letters)
  BY <1>0, SegmentsAreTyped
<1>3. rule[k] = asked[k]
  BY <1>1, <1>2, SlashedIs
<1> QED BY <1>0, <1>2, <1>3, FitsIs

\* Slashed(s) = c \o q, where c is no longer than the slash.
LEMMA AfterSlash ==
    ASSUME NEW s \in Seq(Symbols), NEW c \in Seq(Symbols), NEW q \in Seq(Symbols),
           Slashed(s) = c \o q, Len(c) = 1
    PROVE  q = s
<1>1. PICK e \in Seq(Symbols) : e = <<"/">> /\ Len(e) = 1 /\ e[1] = "/"
  <2>1. <<"/">> \in Seq(Symbols)
    BY SymbolsAre
  <2> QED BY <2>1
<1>2. Len(c \o q) = Len(c) + Len(q) /\ \A i \in 1 .. Len(c) + Len(q) :
        (c \o q)[i] = IF i <= Len(c) THEN c[i] ELSE q[i - Len(c)]
  BY ConcatProperties
<1>3. c[1] = "/"
  <2>1. Slashed(s)[1] = "/"
    BY SlashedIs
  <2>2. PICK m \in Nat : m = Len(q)
    BY LenProperties
  <2>3. 1 \in 1 .. 1 + m /\ 1 <= 1
    BY <2>2
  <2> QED BY <1>2, <2>1, <2>2, <2>3
<1>4. c = e
  <2>1. \A i \in 1 .. Len(c) : c[i] = e[i]
    BY <1>1, <1>3
  <2> QED BY <1>1, <2>1, SeqEqual
<1>5. e \o s = e \o q
  BY <1>1, <1>4 DEF Slashed
<1> QED BY <1>5, ConcatSimplifications

\* A variable is a segment of its own.
LEMMA AtVariable ==
    ASSUME Sound, NEW k, NEW c, NEW p, NEW r, Compared(k, c, p, r),
           p # <<>>, Head(p) \in Variables
    PROVE  /\ rule[k] \in Names /\ p = rule[k] /\ rule[k] = <<Head(p)>>
           /\ r = asked[k] /\ Tail(p) = <<>>
<1>0. /\ k \in 1 .. Len(rule) /\ k \in 1 .. Len(asked) /\ rule[k] \in Seq(Symbols)
      /\ asked[k] \in Seq(Symbols) /\ c \in Seq(Symbols) /\ p \in Seq(Symbols) /\ r \in Seq(Symbols)
      /\ Slashed(rule[k]) = c \o p /\ Slashed(asked[k]) = c \o r
  BY SegmentsAreTyped DEF Compared
<1>1. PICK n, u \in Nat :
             /\ n = Len(c) /\ u = Len(rule[k]) /\ n > 0 /\ n \in 1 .. u /\ rule[k][n] = Head(p)
  <2>1. PICK n, u \in Nat :
             /\ n = Len(c) /\ u = Len(rule[k])
             /\ n = 0 => Head(p) = "/"
             /\ n > 0 => n \in 1 .. u /\ rule[k][n] = Head(p)
    BY ComparedTo
  <2>2. n > 0
    BY <2>1, SymbolsAre
  <2> QED BY <2>1, <2>2
<1>2. rule[k] \in Names
  <2>1. rule[k] \notin Seq(Letters)
    BY <1>0, <1>1, KindOf, SymbolsAre
  <2>2. rule[k] \notin Splats
    BY <1>0, <1>1, KindOf, SymbolsAre
  <2> QED BY <1>0, <2>1, <2>2, SegmentsAreTyped
<1>3. n = 1 /\ rule[k] = <<Head(p)>>
  BY <1>0, <1>1, <1>2, KindOf
<1>4. p = rule[k] /\ r = asked[k]
  BY <1>0, <1>1, <1>3, AfterSlash
<1>5. Tail(p) = <<>>
  <2>1. Tail(p) \in Seq(Symbols) /\ Len(Tail(p)) = Len(p) - 1
    BY <1>0, HeadTailProperties
  <2>2. Len(rule[k]) = 1
    BY <1>2, NamesAre
  <2>3. Len(p) = 1
    BY <1>4, <2>2
  <2>4. Len(Tail(p)) = 0
    BY <2>1, <2>3
  <2> QED BY <2>1, <2>4, EmptySeq
<1> QED BY <1>2, <1>3, <1>4, <1>5

\* "*" is at the end of the pattern, and all before it fits.
LEMMA AtSplat ==
    ASSUME Sound, NEW k, NEW c, NEW p, NEW r, Compared(k, c, p, r), p # <<>>, Head(p) = "*"
    PROVE  /\ k = Len(rule) /\ rule[k] \in Splats /\ Fits(k) /\ p = <<"*">>
           /\ r = SubSeq(asked[k], Len(rule[k]), Len(asked[k]))
<1>0. /\ k \in 1 .. Len(rule) /\ k \in 1 .. Len(asked) /\ rule[k] \in Seq(Symbols)
      /\ asked[k] \in Seq(Symbols) /\ c \in Seq(Symbols) /\ p \in Seq(Symbols) /\ r \in Seq(Symbols)
      /\ Slashed(rule[k]) = c \o p /\ Slashed(asked[k]) = c \o r
  BY SegmentsAreTyped DEF Compared
<1>1. PICK n, u, a \in Nat :
             /\ n = Len(c) /\ u = Len(rule[k]) /\ a = Len(asked[k])
             /\ n > 0 /\ n \in 1 .. u /\ rule[k][n] = "*" /\ n <= a + 1
             /\ \A i \in 1 .. n - 1 : i \in 1 .. u /\ i \in 1 .. a /\ rule[k][i] = asked[k][i]
             /\ Len(p) = u + 1 - n
  <2>1. PICK n, u, a \in Nat :
             /\ n = Len(c) /\ u = Len(rule[k]) /\ a = Len(asked[k])
             /\ n <= u + 1 /\ n <= a + 1
             /\ \A i \in 1 .. n - 1 : i \in 1 .. u /\ i \in 1 .. a /\ rule[k][i] = asked[k][i]
             /\ p = <<>> <=> n = u + 1
             /\ r = <<>> <=> n = a + 1
             /\ p # <<>> /\ n = 0 => Head(p) = "/"
             /\ r # <<>> /\ n = 0 => Head(r) = "/"
             /\ p # <<>> /\ n > 0 => n \in 1 .. u /\ rule[k][n] = Head(p)
             /\ r # <<>> /\ n > 0 => n \in 1 .. a /\ asked[k][n] = Head(r)
             /\ Len(p) = u + 1 - n
    BY ComparedTo
  <2>2. n > 0
    BY <2>1
  <2> QED BY <2>1, <2>2
<1>2. rule[k] \in Splats
  <2>1. rule[k] \notin Seq(Letters)
    BY <1>0, <1>1, KindOf, SymbolsAre
  <2>2. rule[k] \notin Names
    BY <1>0, <1>1, KindOf, SymbolsAre
  <2> QED BY <1>0, <2>1, <2>2, SegmentsAreTyped
<1>3. n = u
  BY <1>0, <1>1, <1>2, KindOf, SymbolsAre
<1>4. Fits(k) /\ k = Len(rule)
  <2>0. k = Len(rule)
    BY <1>0, <1>2, FitsIs
  <2>1. PICK w \in Seq(Letters), l \in Nat :
          /\ l = Len(w) /\ u = l + 1 /\ \A i \in 1 .. l : rule[k][i] = w[i]
          /\ Fits(k) <=> l <= a /\ \A i \in 1 .. l : asked[k][i] = w[i]
    <3>1. PICK w \in Seq(Letters) :
                  /\ Len(w) \in Nat /\ Len(rule[k]) = Len(w) + 1
                  /\ \A i \in 1 .. Len(w) : rule[k][i] = w[i]
                  /\ Fits(k) <=> Len(w) <= Len(asked[k]) /\ \A i \in 1 .. Len(w) : asked[k][i] = w[i]
      BY <1>0, <1>2, FitsIs
    <3> QED BY <1>1, <3>1
  <2>2. l <= a
    BY <1>1, <1>3, <2>1
  <2>3. \A i \in 1 .. l : i \in 1 .. n - 1
    BY <1>1, <1>3, <2>1
  <2> QED BY <1>1, <2>0, <2>1, <2>2, <2>3
<1>5. p = <<"*">>
  <2>1. Len(p) = 1 /\ p[1] = "*"
    BY <1>1, <1>3
  <2>2. PICK e \in Seq(Symbols) : e = <<"*">> /\ Len(e) = 1 /\ e[1] = "*"
    <3>1. <<"*">> \in Seq(Symbols)
      BY SymbolsAre
    <3> QED BY <3>1
  <2>3. \A i \in 1 .. Len(p) : p[i] = e[i]
    BY <2>1, <2>2
  <2> QED BY <1>0, <2>1, <2>2, <2>3, SeqEqual
<1>6. r = SubSeq(asked[k], n, a)
  <2>1. PICK f \in Seq(Symbols) : f = Slashed(asked[k])
    BY <1>0, SlashedIs
  <2>2. Len(f) = a + 1 /\ \A i \in 1 .. a : f[i + 1] = asked[k][i]
    BY <1>0, <1>1, <2>1, SlashedIs
  <2>3. PICK m \in Nat : m = Len(r)
    BY <1>0, LenProperties
  <2>4. a + 1 = n + m /\ \A i \in 1 .. n + m : f[i] = IF i <= n THEN c[i] ELSE r[i - n]
    <3>1. Len(c \o r) = Len(c) + Len(r) /\ \A i \in 1 .. Len(c) + Len(r) :
            (c \o r)[i] = IF i <= Len(c) THEN c[i] ELSE r[i - Len(c)]
      BY <1>0, ConcatProperties
    <3> QED BY <1>0, <1>1, <2>1, <2>2, <2>3, <3>1
  <2>5. \A i \in n .. a : i \in 1 .. a
    BY <1>1
  <2>6. \A i \in n .. a : asked[k][i] \in Symbols
    BY <1>0, <1>1, <2>5, ElementOfSeq
  <2>7. PICK s \in Seq(Symbols) : s = SubSeq(asked[k], n, a)
    <3>1. n \in Int /\ a \in Int
      OBVIOUS
    <3>2. SubSeq(asked[k], n, a) \in Seq(Symbols)
      BY <2>6, <3>1, SubSeqProperties
    <3> QED BY <3>2
  <2>8. Len(s) = m /\ \A i \in 1 .. m : s[i] = asked[k][n + i - 1]
    <3>1. Len(s) = (IF n <= a THEN a - n + 1 ELSE 0) /\ \A i \in 1 .. a - n + 1 : s[i] = asked[k][n + i - 1]
      <4>1. n \in Int /\ a \in Int
        OBVIOUS
      <4> QED BY <2>6, <2>7, <4>1, SubSeqProperties
    <3>2. a - n + 1 = m
      BY <2>4
    <3> QED BY <1>1, <2>4, <3>1, <3>2
  <2>9. ASSUME NEW i \in 1 .. m PROVE r[i] = s[i]
    <3>1. n + i \in 1 .. n + m /\ ~(n + i <= n) /\ (n + i) - n = i
      OBVIOUS
    <3>2. n + i - 1 \in 1 .. a /\ (n + i - 1) + 1 = n + i
      BY <1>1, <2>4
    <3>3. f[n + i] = r[i]
      BY <2>4, <3>1
    <3>4. f[n + i] = asked[k][n + i - 1]
      BY <2>2, <3>2
    <3> QED BY <2>8, <3>3, <3>4
  <2>10. r = s
    BY <1>0, <2>3, <2>8, <2>9, SeqEqual
  <2> QED BY <2>7, <2>10
<1> QED BY <1>1, <1>2, <1>3, <1>4, <1>5, <1>6

-----------------------------------------------------------------------------
(* The destination.                                                        *)

LEMMA ToIsShown == To \in Seq(Shown)
<1>1. PICK n \in Nat : ExistsBijection(1 .. n, Variables)
  BY RedirectsAssumption, FS_NatBijection
<1>2. n = Cardinality(Variables)
  BY <1>1, FS_CountingElements
<1>3. PICK f : f \in [1 .. n -> Variables] /\ IsInjective(f)
  BY <1>1 DEF ExistsBijection, Bijection, Injection
<1>4. SetToSeq(Variables) \in [1 .. n -> Variables]
  BY <1>2, <1>3 DEF SetToSeq
<1>5. SetToSeq(Variables) \in Seq(Variables)
  BY <1>4, SeqDef
<1>6. SetToSeq(Variables) \in Seq(Shown)
  <2>1. Variables \subseteq Shown
    BY DEF Shown
  <2> QED BY <1>5, <2>1, SeqMonotonic
<1>7. PICK e \in Seq(Shown) : e = <<":splat">>
  <2>1. <<":splat">> \in Seq(Shown)
    BY DEF Shown
  <2> QED BY <2>1
<1>8. SetToSeq(Variables) \o e \in Seq(Shown)
  BY <1>6, ConcatProperties
<1> QED BY <1>7, <1>8 DEF To

\* What the variables have been replaced by after k segments: each by the first segment
\* that is it.
First(j, v) == j \in 1 .. Len(rule) /\ rule[j] = <<v>> /\ \A i \in 1 .. Len(rule) : i < j => rule[i] # <<v>>

Known(m, k) ==
    /\ MapsTo(m, Shown, Seq(Symbols)) /\ m[":splat"] = <<":splat">>
    /\ \A v \in Variables :
         \/ m[v] = <<v>> /\ \A i \in 1 .. Len(rule) : i <= k => rule[i] # <<v>>
         \/ \E j \in 1 .. Len(asked) : j <= k /\ First(j, v) /\ m[v] = asked[j]

LEMMA ShownAre ==
    /\ Shown \subseteq Symbols /\ Variables \subseteq Shown /\ ":splat" \in Shown
    /\ \A x \in Symbols : <<x>> \in Seq(Symbols)
    /\ \A x, y : <<x>> = <<y>> => x = y
<1>1. \A x, y : <<x>> = <<y>> => x = y
  <2> TAKE x, y
  <2>1. <<x>>[1] = x /\ <<y>>[1] = y
    OBVIOUS
  <2> QED BY <2>1
<1>2. \A x \in Symbols : <<x>> \in Seq(Symbols)
  <2> TAKE x \in Symbols
  <2> QED OBVIOUS
<1> QED BY <1>1, <1>2, SymbolsAre DEF Shown

\* At first nothing is replaced.
LEMMA KnownFirst ==
    ASSUME Sound
    PROVE  \E m : Known(m, 0) /\ To = Join(m, To)
<1> DEFINE m == [x \in Shown |-> <<x>>]
<1>1. MapsTo(m, Shown, Seq(Symbols)) /\ \A x \in Shown : m[x] = <<x>>
  BY ShownAre DEF MapsTo
<1>2. Join(m, To) = To
  <2> HIDE DEF m
  <2> QED BY <1>1, ToIsShown, JoinSame
<1>3. \A i \in 1 .. Len(rule) : ~(i <= 0)
  OBVIOUS
<1>4. Known(m, 0)
  <2> HIDE DEF m
  <2> QED BY <1>1, <1>3, ShownAre DEF Known
<1> QED BY <1>2, <1>4

\* A segment that is no variable replaces nothing.
LEMMA KnownStays ==
    ASSUME Sound, NEW k \in Nat, NEW m, Known(m, k), k + 1 \in 1 .. Len(rule), rule[k + 1] \notin Names
    PROVE  Known(m, k + 1)
<1>1. PICK n \in Nat : n = Len(rule)
  BY SegmentsAreTyped
<1>2. ASSUME NEW v \in Variables
      PROVE  \/ m[v] = <<v>> /\ \A i \in 1 .. Len(rule) : i <= k + 1 => rule[i] # <<v>>
             \/ \E j \in 1 .. Len(asked) : j <= k + 1 /\ First(j, v) /\ m[v] = asked[j]
  <2>1. rule[k + 1] # <<v>>
    BY DEF Names
  <2>2. \A i \in 1 .. n : i <= k + 1 => i <= k \/ i = k + 1
    OBVIOUS
  <2>3. CASE m[v] = <<v>> /\ \A i \in 1 .. Len(rule) : i <= k => rule[i] # <<v>>
    BY <1>1, <2>1, <2>2, <2>3
  <2>4. CASE \E j \in 1 .. Len(asked) : j <= k /\ First(j, v) /\ m[v] = asked[j]
    <3>1. PICK a \in Nat : a = Len(asked)
      BY SegmentsAreTyped
    <3>2. \A j \in 1 .. a : j <= k => j <= k + 1
      OBVIOUS
    <3> QED BY <2>4, <3>1, <3>2
  <2> QED BY <2>3, <2>4 DEF Known
<1> QED BY <1>2 DEF Known

\* What is put where, once more.
LEMMA PuttingIs ==
    ASSUME NEW name \in Symbols, NEW by \in Seq(Symbols)
    PROVE  /\ MapsTo(Putting(name, by), Symbols, Seq(Symbols))
           /\ \A x \in Symbols : Join(Putting(name, by), <<x>>) = IF x = name THEN by ELSE <<x>>
           /\ name \notin Letters => \A w \in Seq(Letters) : Join(Putting(name, by), w) = w
<1> DEFINE q == Putting(name, by)
<1>1. \A x \in Symbols : q[x] = IF x = name THEN by ELSE <<x>>
  BY DEF Putting
<1>2. \A x \in Symbols : q[x] \in Seq(Symbols)
  BY <1>1, ShownAre
<1>3. MapsTo(q, Symbols, Seq(Symbols))
  BY <1>2 DEF MapsTo, Putting
<1>4. ASSUME NEW x \in Symbols PROVE Join(q, <<x>>) = IF x = name THEN by ELSE <<x>>
  <2> HIDE DEF q
  <2>1. q[x] \in Seq(Symbols)
    BY <1>2
  <2>2. Join(q, <<x>>) = q[x]
    BY <2>1, JoinOne
  <2> QED BY <1>1, <2>2
<1>5. ASSUME name \notin Letters, NEW w \in Seq(Letters) PROVE Join(q, w) = w
  <2>1. \A b \in Letters : q[b] = <<b>>
    BY <1>1, <1>5, SymbolsAre
  <2> HIDE DEF q
  <2> QED BY <2>1, JoinSame
<1> QED BY <1>3, <1>4, <1>5

\* Replacing in what is joined.
LEMMA ReplaceJoined ==
    ASSUME NEW m, MapsTo(m, Shown, Seq(Symbols)), NEW name \in Symbols, NEW by \in Seq(Symbols)
    PROVE  LET d == [x \in Shown |-> Join(Putting(name, by), m[x])]
           IN  MapsTo(d, Shown, Seq(Symbols)) /\ Replace(Join(m, To), name, by) = Join(d, To)
<1> DEFINE q == Putting(name, by)
           d == [x \in Shown |-> Join(q, m[x])]
<1>1. MapsTo(q, Symbols, Seq(Symbols))
  BY PuttingIs
<1>2. Join(m, To) \in Seq(Symbols)
  BY ToIsShown, JoinType
<1>3. Replace(Join(m, To), name, by) = Join(q, Join(m, To))
  BY <1>2, ReplaceIsJoin
<1>4. Join(q, Join(m, To)) = Join(d, To)
  <2> HIDE DEF q
  <2> QED BY <1>1, ToIsShown, JoinTwice
<1>5. MapsTo(d, Shown, Seq(Symbols))
  <2>1. \A x \in Shown : m[x] \in Seq(Symbols)
    BY DEF MapsTo
  <2>2. \A x \in Shown : Join(q, m[x]) \in Seq(Symbols)
    <3> HIDE DEF q
    <3> QED BY <1>1, <2>1, JoinType
  <2> QED BY <2>2 DEF MapsTo
<1> QED BY <1>3, <1>4, <1>5

\* A variable replaces itself by its segment, where it still is.
LEMMA KnownReplaced ==
    ASSUME Sound, NEW k \in 1 .. Len(rule), k \in 1 .. Len(asked), NEW m, Known(m, k - 1),
           NEW v \in Variables, rule[k] = <<v>>
    PROVE  \E d : Known(d, k) /\ Replace(Join(m, To), v, asked[k]) = Join(d, To)
<1>0. /\ asked[k] \in Seq(Symbols) /\ asked[k] \in Seq(Letters) /\ v \in Symbols /\ v \notin Letters
      /\ v # ":splat" /\ k \in Nat \ {0}
  <2>1. asked[k] \in Seq(Symbols) /\ asked[k] \in Seq(Letters)
    BY SegmentsAreTyped
  <2>2. PICK n \in Nat : n = Len(rule)
    BY SegmentsAreTyped
  <2>3. k \in Nat \ {0}
    BY <2>2
  <2> QED BY <2>1, <2>3, SymbolsAre
<1> DEFINE q == Putting(v, asked[k])
           d == [x \in Shown |-> Join(q, m[x])]
<1>1. /\ \A x \in Symbols : Join(q, <<x>>) = IF x = v THEN asked[k] ELSE <<x>>
      /\ \A w \in Seq(Letters) : Join(q, w) = w
  BY <1>0, PuttingIs
<1>2. MapsTo(m, Shown, Seq(Symbols)) /\ m[":splat"] = <<":splat">>
  BY DEF Known
<1>3. MapsTo(d, Shown, Seq(Symbols)) /\ Replace(Join(m, To), v, asked[k]) = Join(d, To)
  BY <1>0, <1>2, ReplaceJoined
<1> HIDE DEF q
<1>4. d[":splat"] = <<":splat">>
  BY <1>0, <1>1, <1>2, ShownAre, SymbolsAre
<1>5. ASSUME NEW w \in Variables
      PROVE  \/ d[w] = <<w>> /\ \A i \in 1 .. Len(rule) : i <= k => rule[i] # <<w>>
             \/ \E j \in 1 .. Len(asked) : j <= k /\ First(j, w) /\ d[w] = asked[j]
  <2>0. d[w] = Join(q, m[w]) /\ w \in Symbols
    BY ShownAre
  <2>1. PICK n \in Nat, a \in Nat : n = Len(rule) /\ a = Len(asked)
    BY SegmentsAreTyped
  <2>2. CASE m[w] = <<w>> /\ \A i \in 1 .. Len(rule) : i <= k - 1 => rule[i] # <<w>>
    <3>1. d[w] = IF w = v THEN asked[k] ELSE <<w>>
      BY <1>1, <2>0, <2>2
    <3>2. CASE w = v
      <4>1. \A i \in 1 .. n : i < k => i <= k - 1
        BY <1>0
      <4>2. First(k, w)
        BY <2>1, <2>2, <3>2, <4>1 DEF First
      <4>3. k <= k
        BY <1>0
      <4> QED BY <3>1, <3>2, <4>2, <4>3
    <3>3. CASE w # v
      <4>1. rule[k] # <<w>>
        BY <3>3, ShownAre
      <4>2. \A i \in 1 .. n : i <= k => i <= k - 1 \/ i = k
        BY <1>0
      <4> QED BY <2>1, <2>2, <3>1, <3>3, <4>1, <4>2
    <3> QED BY <3>2, <3>3
  <2>3. CASE \E j \in 1 .. Len(asked) : j <= k - 1 /\ First(j, w) /\ m[w] = asked[j]
    <3>1. PICK j \in 1 .. Len(asked) : j <= k - 1 /\ First(j, w) /\ m[w] = asked[j]
      BY <2>3
    <3>2. j <= k
      BY <1>0, <2>1, <3>1
    <3>3. asked[j] \in Seq(Letters)
      BY SegmentsAreTyped
    <3>4. d[w] = asked[j]
      BY <1>1, <2>0, <3>1, <3>3
    <3> QED BY <3>1, <3>2, <3>4
  <2> QED BY <2>2, <2>3 DEF Known
<1> HIDE DEF d
<1>6. Known(d, k)
  BY <1>3, <1>4, <1>5 DEF Known
<1> QED BY <1>3, <1>6

\* Where the visitor is meant to be led.
Led == FlattenSeq([i \in DOMAIN To |-> Meaning(To[i])])

LEMMA LedTo ==
    ASSUME NEW d, \A x \in Shown : d[x] = Meaning(x)
    PROVE  Led = Join(d, To)
<1>1. \A i \in DOMAIN To : To[i] \in Shown
  BY ToIsShown, LenProperties, ElementOfSeq
<1> QED BY <1>1 DEF Led, Join, Each

\* Once all of the pattern is compared, the variables are what is meant.
LEMMA VariablesAreMeant ==
    ASSUME Sound, Len(asked) >= Len(rule), NEW m, Known(m, Len(rule)), NEW v \in Variables
    PROVE  m[v] = Meaning(v)
<1>1. PICK n \in Nat : n = Len(rule) /\ DOMAIN rule = 1 .. n
  BY SegmentsAreTyped, LenProperties
<1>2. v # ":splat"
  BY SymbolsAre
<1> DEFINE places == {i \in DOMAIN rule : rule[i] = <<v>>}
<1>3. Meaning(v) = IF places = {} THEN <<v>> ELSE asked[CHOOSE i \in places : \A j \in places : i <= j]
  BY <1>2 DEF Meaning
<1>4. CASE m[v] = <<v>> /\ \A i \in 1 .. Len(rule) : i <= Len(rule) => rule[i] # <<v>>
  <2>1. \A i \in 1 .. n : i <= n
    OBVIOUS
  <2>2. places = {}
    BY <1>1, <1>4, <2>1
  <2> QED BY <1>3, <1>4, <2>2
<1>5. CASE \E j \in 1 .. Len(asked) : j <= Len(rule) /\ First(j, v) /\ m[v] = asked[j]
  <2>1. PICK j \in 1 .. Len(asked) : First(j, v) /\ m[v] = asked[j]
    BY <1>5
  <2>2. j \in places /\ j \in 1 .. n /\ \A i \in 1 .. n : i < j => i \notin places
    BY <1>1, <2>1 DEF First
  <2>3. \A i \in places : i \in 1 .. n
    BY <1>1
  <2> HIDE DEF places
  <2>4. \A i \in places : j <= i
    BY <2>2, <2>3
  <2>5. \A i \in places : (\A h \in places : i <= h) => i = j
    BY <2>2, <2>3, <2>4
  <2>6. (CHOOSE i \in places : \A h \in places : i <= h) = j
    BY <2>2, <2>4, <2>5
  <2> QED BY <1>3, <2>1, <2>2, <2>6
<1> QED BY <1>4, <1>5 DEF Known

\* A pattern without "*" at its end leaves ":splat" as it is.
LEMMA LedWithout ==
    ASSUME Sound, Len(asked) >= Len(rule), rule[Len(rule)] \notin Splats, NEW m, Known(m, Len(rule))
    PROVE  Led = Join(m, To)
<1>1. m[":splat"] = <<":splat">>
  BY DEF Known
<1>2. Meaning(":splat") = <<":splat">>
  BY DEF Meaning, Last
<1>3. ASSUME NEW x \in Shown PROVE m[x] = Meaning(x)
  <2>1. CASE x \in Variables
    BY <2>1, VariablesAreMeant
  <2>2. CASE x = ":splat"
    BY <1>1, <1>2, <2>2
  <2> QED BY <2>1, <2>2 DEF Shown
<1> QED BY <1>3, LedTo

\* "*" is the rest of the path.
LEMMA LedWith ==
    ASSUME Sound, Len(asked) >= Len(rule), rule[Len(rule)] \in Splats, NEW m, Known(m, Len(rule)),
           NEW r \in Seq(Symbols), r = SubSeq(asked[Len(rule)], Len(rule[Len(rule)]), Len(asked[Len(rule)])),
           NEW left \in Seq(Symbols), left = r \o From(asked, Len(rule) + 1)
    PROVE  Led = Replace(Join(m, To), ":splat", left)
<1>1. MapsTo(m, Shown, Seq(Symbols)) /\ m[":splat"] = <<":splat">>
  BY DEF Known
<1> DEFINE q == Putting(":splat", left)
           d == [x \in Shown |-> Join(q, m[x])]
<1>2. /\ \A x \in Symbols : Join(q, <<x>>) = IF x = ":splat" THEN left ELSE <<x>>
      /\ \A w \in Seq(Letters) : Join(q, w) = w
  <2>1. PICK name \in Symbols : name = ":splat" /\ name \notin Letters
    BY SymbolsAre
  <2>2. /\ \A x \in Symbols : Join(Putting(name, left), <<x>>) = IF x = name THEN left ELSE <<x>>
        /\ \A w \in Seq(Letters) : Join(Putting(name, left), w) = w
    BY <2>1, PuttingIs
  <2> QED BY <2>1, <2>2
<1>3. Replace(Join(m, To), ":splat", left) = Join(d, To)
  BY <1>1, SymbolsAre, ReplaceJoined
<1>4. Meaning(":splat") = left
  BY DEF Meaning, Last, From
<1> HIDE DEF q
<1>5. d[":splat"] = Meaning(":splat")
  BY <1>1, <1>2, <1>4, ShownAre, SymbolsAre
<1>6. ASSUME NEW v \in Variables PROVE d[v] = Meaning(v)
  <2>1. d[v] = Join(q, m[v]) /\ v \in Symbols /\ v # ":splat"
    BY ShownAre, SymbolsAre
  <2>2. m[v] = <<v>> \/ m[v] \in Seq(Letters)
    BY SegmentsAreTyped DEF Known
  <2>3. d[v] = m[v]
    BY <1>2, <2>1, <2>2
  <2> QED BY <2>3, VariablesAreMeant
<1>7. \A x \in Shown : d[x] = Meaning(x)
  BY <1>5, <1>6 DEF Shown
<1> HIDE DEF d
<1> QED BY <1>3, <1>7, LedTo

-----------------------------------------------------------------------------
(* Where the loop is.                                                      *)

\* The first k segments fit, and dest is what they make of the destination.
Fitted(k, m, dest) ==
    /\ k \in Nat /\ k <= Len(rule) /\ k <= Len(asked)
    /\ \A i \in 1 .. k : Fits(i)
    /\ Known(m, k) /\ dest = Join(m, To)

\* Between two segments, and within one.
Between(k, m, pat, res, dest) ==
    /\ Fitted(k, m, dest)
    /\ k > 0 => rule[k] \notin Splats
    /\ pat = From(rule, k + 1) /\ res = From(asked, k + 1)

Within(k, m, c, p, r, pat, res, dest) ==
    /\ k \in Nat \ {0} /\ Fitted(k - 1, m, dest) /\ Compared(k, c, p, r)
    /\ pat = p \o From(rule, k + 1) /\ res = r \o From(asked, k + 1)

Loop(pat, res, dest) ==
    \E k, m : \/ Between(k, m, pat, res, dest)
              \/ \E c, p, r : Within(k, m, c, p, r, pat, res, dest)

LEMMA Starts ==
    ASSUME Sound
    PROVE  Loop(Text(rule), Text(asked), To)
<1>1. PICK m : Known(m, 0) /\ To = Join(m, To)
  BY KnownFirst
<1>2. From(rule, 1) = Text(rule) /\ From(asked, 1) = Text(asked)
  BY SegmentsAreTyped, FromEnds
<1>3. PICK n, a \in Nat : n = Len(rule) /\ a = Len(asked)
  BY SegmentsAreTyped
<1>4. Fitted(0, m, To)
  <2>1. 0 \in Nat /\ 0 <= n /\ 0 <= a /\ \A i \in 1 .. 0 : FALSE
    OBVIOUS
  <2> QED BY <1>1, <1>3, <2>1 DEF Fitted
<1>5. Between(0, m, Text(rule), Text(asked), To)
  <2>1. 0 + 1 = 1 /\ ~(0 > 0)
    OBVIOUS
  <2> QED BY <1>2, <1>4, <2>1 DEF Between
<1> QED BY <1>5 DEF Loop

\* From between two segments the next are compared from their slashes on.
LEMMA Enters ==
    ASSUME Sound, NEW k, NEW m, NEW pat, NEW res, NEW dest, Between(k, m, pat, res, dest),
           k # Len(rule), k # Len(asked)
    PROVE  Within(k + 1, m, <<>>, Slashed(rule[k + 1]), Slashed(asked[k + 1]), pat, res, dest)
<1>1. PICK n, a \in Nat : n = Len(rule) /\ a = Len(asked)
  BY SegmentsAreTyped
<1>2. /\ k \in Nat /\ k + 1 \in Nat \ {0} /\ (k + 1) - 1 = k
      /\ k + 1 \in 1 .. Len(rule) /\ k + 1 \in 1 .. Len(asked)
  BY <1>1 DEF Between, Fitted
<1>3. rule[k + 1] \in Seq(Symbols) /\ asked[k + 1] \in Seq(Symbols)
  BY <1>2, SegmentsAreTyped
<1>4. PICK p \in Seq(Symbols), r \in Seq(Symbols), e \in Seq(Symbols) :
         p = Slashed(rule[k + 1]) /\ r = Slashed(asked[k + 1]) /\ e = <<>>
  BY <1>3, SlashedIs, EmptySeq
<1>5. p = e \o p /\ r = e \o r
  BY <1>4, ConcatEmptySeq
<1>6. Compared(k + 1, e, p, r)
  BY <1>2, <1>4, <1>5 DEF Compared
<1>7. pat = p \o From(rule, (k + 1) + 1) /\ res = r \o From(asked, (k + 1) + 1)
  <2>1. /\ From(rule, k + 1) = (<<"/">> \o rule[k + 1]) \o From(rule, (k + 1) + 1)
        /\ From(asked, k + 1) = (<<"/">> \o asked[k + 1]) \o From(asked, (k + 1) + 1)
    BY <1>2, SegmentsAreTyped, FromFirst
  <2> QED BY <1>4, <2>1 DEF Between, Slashed
<1>8. Fitted((k + 1) - 1, m, dest)
  BY <1>2 DEF Between
<1> QED BY <1>2, <1>4, <1>6, <1>7, <1>8 DEF Within

\* Once two segments are compared, the loop is between two.
LEMMA WithinEnds ==
    ASSUME Sound, NEW k, NEW m, NEW c, NEW pat, NEW res, NEW dest,
           Within(k, m, c, <<>>, <<>>, pat, res, dest)
    PROVE  Between(k, m, pat, res, dest)
<1>1. PICK n, a \in Nat : n = Len(rule) /\ a = Len(asked)
  BY SegmentsAreTyped
<1>2. /\ k \in Nat \ {0} /\ k \in 1 .. n /\ k \in 1 .. a /\ k <= n /\ k <= a
      /\ k - 1 \in Nat /\ (k - 1) + 1 = k
  <2>1. k \in Nat \ {0} /\ k \in 1 .. n /\ k \in 1 .. a
    BY <1>1 DEF Within, Compared
  <2> QED BY <2>1
<1>3. Compared(k, c, <<>>, <<>>)
  BY DEF Within
<1>4. Fits(k) /\ rule[k] \in Seq(Letters)
  <2>1. PICK p, r : p = <<>> /\ r = <<>> /\ Compared(k, c, p, r)
    BY <1>3
  <2> QED BY <2>1, SameLength
<1>5. rule[k] \notin Names /\ rule[k] \notin Splats
  BY <1>4, Kinds
<1>6. Fitted(k - 1, m, dest)
  BY DEF Within
<1>7. Fitted(k, m, dest)
  <2>1. Known(m, k)
    <3>1. PICK j \in Nat : j = k - 1 /\ j + 1 = k /\ Known(m, j)
      BY <1>2, <1>6 DEF Fitted
    <3> QED BY <1>1, <1>2, <1>5, <3>1, KnownStays
  <2>2. \A i \in 1 .. k : i \in 1 .. k - 1 \/ i = k
    BY <1>2
  <2> QED BY <1>1, <1>2, <1>4, <1>6, <2>1, <2>2 DEF Fitted
<1>8. pat = From(rule, k + 1) /\ res = From(asked, k + 1)
  <2>1. From(rule, k + 1) \in Seq(Symbols) /\ From(asked, k + 1) \in Seq(Symbols)
    <3>1. k + 1 \in Nat \ {0}
      BY <1>2
    <3> QED BY <3>1, SegmentsAreTyped, FromTypes
  <2>2. pat = <<>> \o From(rule, k + 1) /\ res = <<>> \o From(asked, k + 1)
    BY DEF Within
  <2> QED BY <2>1, <2>2, ConcatEmptySeq
<1> QED BY <1>5, <1>7, <1>8 DEF Between

Left(p, r) == ~(p = <<>> /\ r = <<>>)

Amid(k, m, pat, res, dest) == \E c, p, r : Within(k, m, c, p, r, pat, res, dest) /\ Left(p, r)

Ended(k, m, pat, res, dest) == Between(k, m, pat, res, dest) /\ (k = Len(rule) \/ k = Len(asked))

\* Where the loop is, without the two ends of a segment and what follows.
LEMMA Stands ==
    ASSUME Sound, NEW pat, NEW res, NEW dest, Loop(pat, res, dest)
    PROVE  \E k, m : Ended(k, m, pat, res, dest) \/ Amid(k, m, pat, res, dest)
<1>1. ASSUME NEW k, NEW m, Between(k, m, pat, res, dest), k # Len(rule), k # Len(asked)
      PROVE  Amid(k + 1, m, pat, res, dest)
  <2>1. Within(k + 1, m, <<>>, Slashed(rule[k + 1]), Slashed(asked[k + 1]), pat, res, dest)
    BY <1>1, Enters
  <2>2. k + 1 \in 1 .. Len(rule)
    BY <2>1 DEF Within, Compared
  <2>3. rule[k + 1] \in Seq(Symbols)
    BY <2>2, SegmentsAreTyped
  <2>4. Slashed(rule[k + 1]) # <<>>
    <3>1. PICK s \in Seq(Symbols) : s = Slashed(rule[k + 1]) /\ Len(s) = Len(rule[k + 1]) + 1
      BY <2>3, SlashedIs
    <3>2. PICK n \in Nat : n = Len(rule[k + 1])
      BY <2>3, LenProperties
    <3> QED BY <3>1, <3>2, EmptySeq
  <2>5. Left(Slashed(rule[k + 1]), Slashed(asked[k + 1]))
    BY <2>4 DEF Left
  <2> QED BY <2>1, <2>5 DEF Amid
<1>2. ASSUME NEW k, NEW m, Between(k, m, pat, res, dest)
      PROVE  \E j : Ended(j, m, pat, res, dest) \/ Amid(j, m, pat, res, dest)
  <2>1. CASE k = Len(rule) \/ k = Len(asked)
    BY <1>2, <2>1 DEF Ended
  <2>2. CASE ~(k = Len(rule) \/ k = Len(asked))
    BY <1>1, <1>2, <2>2
  <2> QED BY <2>1, <2>2
<1>3. ASSUME NEW k, NEW m, NEW c, NEW p, NEW r, Within(k, m, c, p, r, pat, res, dest)
      PROVE  \E j : Ended(j, m, pat, res, dest) \/ Amid(j, m, pat, res, dest)
  <2>1. CASE p = <<>> /\ r = <<>>
    BY <1>2, <1>3, <2>1, WithinEnds
  <2>2. CASE ~(p = <<>> /\ r = <<>>)
    <3>1. Left(p, r)
      BY <2>2 DEF Left
    <3>2. Amid(k, m, pat, res, dest)
      BY <1>3, <3>1 DEF Amid
    <3> QED BY <3>2
  <2> QED BY <2>1, <2>2
<1> QED BY <1>2, <1>3 DEF Loop

-----------------------------------------------------------------------------
(* What a step finds.                                                      *)

\* The first symbol of p goes to c, or c follows p.
Chops(S, c, p) ==
    /\ Append(c, Head(p)) \in Seq(S) /\ Tail(p) \in Seq(S)
    /\ Append(c, Head(p)) \o Tail(p) = c \o p
    /\ p \o c # <<>> /\ Head(p \o c) = Head(p) /\ Tail(p \o c) = Tail(p) \o c

LEMMA Chopped == ASSUME NEW S, NEW c \in Seq(S), NEW p \in Seq(S), p # <<>> PROVE Chops(S, c, p)
<1>1. Append(c, Head(p)) \in Seq(S) /\ Tail(p) \in Seq(S)
  BY HeadOf
<1>2. Append(c, Head(p)) \o Tail(p) = c \o p
  BY HeadOf
<1>3. p \o c # <<>> /\ Head(p \o c) = Head(p)
  BY HeadOf
<1>4. Tail(p \o c) = Tail(p) \o c
  BY HeadOf
<1> QED BY <1>1, <1>2, <1>3, <1>4 DEF Chops

\* A sequence cut where two of them were put together.
LEMMA Cut ==
    ASSUME NEW S, NEW s \in Seq(S), NEW t \in Seq(S)
    PROVE  SubSeq(s \o t, 1, Len(s)) = s /\ SubSeq(s \o t, Len(s) + 1, Len(s \o t)) = t
<1>1. PICK k, n \in Nat : k = Len(s) /\ n = Len(t)
  BY LenProperties
<1>2. PICK u \in Seq(S) : u = s \o t
  BY ConcatProperties
<1>3. Len(u) = k + n /\ \A i \in 1 .. k + n : u[i] = IF i <= k THEN s[i] ELSE t[i - k]
  BY <1>1, <1>2, ConcatProperties
<1>4. \A i \in 1 .. k + n : u[i] \in S
  BY <1>3, ElementOfSeq
<1>5. SubSeq(u, 1, k) = s
  <2>1. \A i \in 1 .. k : i \in 1 .. k + n /\ i <= k
    OBVIOUS
  <2>2. \A i \in 1 .. k : u[i] \in S /\ u[i] = s[i]
    BY <1>3, <1>4, <2>1
  <2>3. SubSeq(u, 1, k) \in Seq(S) /\ Len(SubSeq(u, 1, k)) = k /\ \A i \in 1 .. k : SubSeq(u, 1, k)[i] = u[i]
    BY <2>2, SubSeqProperties
  <2> QED BY <1>1, <2>2, <2>3, SeqEqual
<1>6. SubSeq(u, k + 1, k + n) = t
  <2>1. \A i \in k + 1 .. k + n : i \in 1 .. k + n
    OBVIOUS
  <2>2. \A i \in k + 1 .. k + n : u[i] \in S
    BY <1>4, <2>1
  <2>3. k + 1 \in Int /\ k + n \in Int
    OBVIOUS
  <2>4. PICK v : v = SubSeq(u, k + 1, k + n)
    OBVIOUS
  <2>5. /\ v \in Seq(S)
        /\ Len(v) = IF k + 1 <= k + n THEN (k + n) - (k + 1) + 1 ELSE 0
        /\ \A i \in 1 .. (k + n) - (k + 1) + 1 : v[i] = u[(k + 1) + i - 1]
    BY <2>2, <2>3, <2>4, SubSeqProperties
  <2>6. (k + n) - (k + 1) + 1 = n
    OBVIOUS
  <2>7. Len(v) = n
    BY <2>5, <2>6
  <2>8. ASSUME NEW i \in 1 .. n PROVE v[i] = t[i]
    <3>1. (k + 1) + i - 1 = k + i /\ k + i \in 1 .. k + n /\ ~(k + i <= k) /\ (k + i) - k = i
      OBVIOUS
    <3>2. v[i] = u[k + i]
      BY <2>5, <2>6, <3>1
    <3> QED BY <1>3, <3>1, <3>2
  <2> QED BY <1>1, <2>4, <2>5, <2>7, <2>8, SeqEqual
<1> QED BY <1>1, <1>2, <1>3, <1>5, <1>6

\* What is left from a segment on begins with a slash, if there is such a segment.
LEMMA FromHead ==
    ASSUME NEW s \in Seq(Seq(Symbols)), NEW k \in 1 .. Len(s) + 1
    PROVE  /\ From(s, k) \in Seq(Symbols)
           /\ k = Len(s) + 1 => From(s, k) = <<>>
           /\ k # Len(s) + 1 => From(s, k) # <<>> /\ Head(From(s, k)) = "/"
<1>1. PICK n \in Nat : n = Len(s)
  BY LenProperties
<1>2. k \in Nat \ {0}
  BY <1>1
<1>3. From(s, k) \in Seq(Symbols) /\ (k = Len(s) + 1 => From(s, k) = <<>>)
  BY <1>2, FromTypes, FromEnds
<1>4. ASSUME k # Len(s) + 1 PROVE From(s, k) # <<>> /\ Head(From(s, k)) = "/"
  <2>1. k \in 1 .. Len(s) /\ k + 1 \in Nat \ {0}
    BY <1>1, <1>4
  <2>2. s[k] \in Seq(Symbols)
    BY <2>1, ElementOfSeq
  <2>3. PICK p \in Seq(Symbols) : p = Slashed(s[k]) /\ Len(p) = Len(s[k]) + 1 /\ p[1] = "/"
    BY <2>2, SlashedIs
  <2>4. p # <<>>
    <3>1. PICK l \in Nat : l = Len(s[k])
      BY <2>2, LenProperties
    <3> QED BY <2>3, <3>1, EmptySeq
  <2>5. From(s, k + 1) \in Seq(Symbols)
    BY <2>1, FromTypes
  <2>6. From(s, k) = p \o From(s, k + 1)
    BY <2>1, <2>3, FromFirst DEF Slashed
  <2>7. p \o From(s, k + 1) # <<>> /\ Head(p \o From(s, k + 1)) = Head(p)
    BY <2>4, <2>5, HeadOf
  <2> QED BY <2>3, <2>6, <2>7
<1> QED BY <1>3, <1>4

\* The next slash is that of the segment that follows.
LEMMA SegmentEnds ==
    ASSUME NEW w \in Seq(Letters), NEW f \in Seq(Symbols), f # <<>> => Head(f) = "/"
    PROVE  EndOfSegment(w \o f) = Len(w)
<1>1. PICK k, n \in Nat : k = Len(w) /\ n = Len(f)
  BY LenProperties
<1>2. w \in Seq(Symbols) /\ \A i \in 1 .. k : w[i] \in Letters
  BY <1>1, SymbolsAre, ElementOfSeq
<1>3. PICK t \in Seq(Symbols) : t = w \o f
  BY <1>2, ConcatProperties
<1>4. Len(t) = k + n /\ \A i \in 1 .. k + n : t[i] = IF i <= k THEN w[i] ELSE f[i - k]
  BY <1>1, <1>2, <1>3, ConcatProperties
<1> DEFINE slashes == {i \in DOMAIN t : t[i] = "/"}
<1>5. DOMAIN t = 1 .. k + n
  BY <1>4, LenProperties
<1>6. ASSUME NEW i \in slashes PROVE i \in 1 .. k + n /\ k + 1 <= i
  <2>1. i \in 1 .. k + n /\ t[i] = "/"
    BY <1>5
  <2>2. i \notin 1 .. k
    <3> SUFFICES ASSUME i \in 1 .. k PROVE FALSE
      OBVIOUS
    <3>1. i <= k
      OBVIOUS
    <3>2. t[i] = w[i]
      BY <1>4, <2>1, <3>1
    <3> QED BY <1>2, <2>1, <3>2, SymbolsAre
  <2> QED BY <2>1, <2>2
<1>7. EndOfSegment(t) = IF slashes = {} THEN k + n ELSE Min(slashes) - 1
  BY <1>4 DEF EndOfSegment
<1>8. CASE f = <<>>
  <2>1. n = 0
    BY <1>1, <1>8, EmptySeq
  <2>2. slashes = {}
    <3> HIDE DEF slashes
    <3> QED BY <1>6, <2>1
  <2> QED BY <1>1, <1>3, <1>7, <2>1, <2>2
<1>9. CASE f # <<>>
  <2>1. n > 0
    BY <1>1, <1>9, EmptySeq
  <2>2. k + 1 \in 1 .. k + n /\ ~(k + 1 <= k) /\ (k + 1) - k = 1
    BY <2>1
  <2>3. t[k + 1] = "/"
    <3>1. t[k + 1] = f[1]
      BY <1>4, <2>2
    <3> QED BY <1>9, <3>1
  <2>4. k + 1 \in slashes
    BY <1>5, <2>2, <2>3
  <2>5. Min(slashes) = k + 1
    <3> HIDE DEF slashes
    <3>1. \A i \in slashes : (\A j \in slashes : i <= j) => i = k + 1
      BY <1>6, <2>4
    <3> QED BY <1>6, <2>4, <3>1 DEF Min
  <2>6. EndOfSegment(t) = k
    <3> HIDE DEF slashes
    <3> QED BY <1>7, <2>4, <2>5
  <2> QED BY <1>1, <1>3, <2>6
<1> QED BY <1>8, <1>9

\* What the heads of what is left are.
Heads(k, p, pat, u) ==
    /\ pat \in Seq(Symbols)
    /\ p # <<>> => pat # <<>> /\ Head(pat) = Head(p) /\ Tail(pat) = Tail(p) \o From(u, k + 1)
    /\ p = <<>> => pat = From(u, k + 1)
    /\ p = <<>> /\ k = Len(u) => pat = <<>>
    /\ p = <<>> /\ k # Len(u) => pat # <<>> /\ Head(pat) = "/"

LEMMA HeadsAre ==
    ASSUME NEW u \in Seq(Seq(Symbols)), NEW k \in 1 .. Len(u), NEW p \in Seq(Symbols),
           NEW pat, pat = p \o From(u, k + 1)
    PROVE  Heads(k, p, pat, u)
<1>1. PICK n \in Nat : n = Len(u)
  BY LenProperties
<1>2. k + 1 \in 1 .. Len(u) + 1 /\ (k = Len(u) <=> k + 1 = Len(u) + 1)
  BY <1>1
<1>3. PICK f \in Seq(Symbols) : f = From(u, k + 1) /\ (k = Len(u) => f = <<>>)
         /\ (k # Len(u) => f # <<>> /\ Head(f) = "/")
  BY <1>2, FromHead
<1>4. p \o f \in Seq(Symbols) /\ pat = p \o f
  BY <1>3, ConcatProperties
<1>5. p = <<>> => p \o f = f
  BY ConcatEmptySeq
<1>6. ASSUME p # <<>> PROVE p \o f # <<>> /\ Head(p \o f) = Head(p) /\ Tail(p \o f) = Tail(p) \o f
  <2>1. Chops(Symbols, f, p)
    BY <1>6, Chopped
  <2> QED BY <2>1 DEF Chops
<1> QED BY <1>3, <1>4, <1>5, <1>6 DEF Heads

LEMMA HeadsWithin ==
    ASSUME Sound, NEW k, NEW m, NEW c, NEW p, NEW r, NEW pat, NEW res, NEW dest,
           Within(k, m, c, p, r, pat, res, dest)
    PROVE  Heads(k, p, pat, rule) /\ Heads(k, r, res, asked)
  BY SegmentsAreTyped, HeadsAre DEF Within, Compared

\* As long as there is something left of both, the loop is within a segment.
LEMMA Continues ==
    ASSUME Sound, NEW pat, NEW res, NEW dest, Loop(pat, res, dest), pat # <<>>, res # <<>>
    PROVE  \E k, m : Amid(k, m, pat, res, dest)
<1>1. ASSUME NEW k, NEW m, Ended(k, m, pat, res, dest) PROVE FALSE
  <2>1. pat = From(rule, k + 1) /\ res = From(asked, k + 1) /\ (k = Len(rule) \/ k = Len(asked))
    BY <1>1 DEF Ended, Between
  <2> QED BY <2>1, SegmentsAreTyped, FromEnds
<1> QED BY <1>1, Stands

\* A variable takes its segment.
LEMMA VariableStep ==
    ASSUME Sound, NEW pat, NEW res, NEW dest, Loop(pat, res, dest), pat # <<>>, res # <<>>,
           Head(pat) \in Variables
    PROVE  LET n == EndOfSegment(res)
           IN  Loop(Tail(pat), SubSeq(res, n + 1, Len(res)), Replace(dest, Head(pat), SubSeq(res, 1, n)))
<1>1. PICK k, m, c, p, r : Within(k, m, c, p, r, pat, res, dest) /\ Left(p, r)
  BY Continues DEF Amid
<1>2. /\ Compared(k, c, p, r) /\ Heads(k, p, pat, rule) /\ Heads(k, r, res, asked)
      /\ k \in 1 .. Len(rule) /\ k \in 1 .. Len(asked) /\ k \in Nat \ {0}
      /\ Fitted(k - 1, m, dest) /\ res = r \o From(asked, k + 1)
  BY <1>1, HeadsWithin DEF Within, Compared
<1>3. p # <<>> /\ Head(p) = Head(pat) /\ Tail(pat) = Tail(p) \o From(rule, k + 1)
  <2>1. "/" \notin Variables
    BY SymbolsAre
  <2> QED BY <1>2, <2>1 DEF Heads
<1>4. /\ rule[k] \in Names /\ rule[k] = <<Head(pat)>> /\ r = asked[k] /\ Tail(p) = <<>>
  BY <1>2, <1>3, AtVariable
<1>5. asked[k] \in Seq(Letters) /\ asked[k] \in Seq(Symbols)
  BY <1>2, SegmentsAreTyped
<1>6. asked[k] # <<>>
  <2> SUFFICES ASSUME asked[k] = <<>> PROVE FALSE
    OBVIOUS
  <2>1. PICK a \in Nat : a = Len(asked)
    BY SegmentsAreTyped
  <2>2. k = Len(asked)
    BY <1>2, <2>1 DEF Sound, PathIsSound
  <2> QED BY <1>2, <1>4, <2>2 DEF Heads
<1>7. Fits(k)
  BY <1>2, <1>4, <1>6, FitsIs
<1>8. PICK f \in Seq(Symbols) : f = From(asked, k + 1) /\ (f # <<>> => Head(f) = "/")
  <2>1. PICK a \in Nat : a = Len(asked)
    BY SegmentsAreTyped
  <2>2. k + 1 \in 1 .. Len(asked) + 1
    BY <1>2, <2>1
  <2> QED BY <2>2, SegmentsAreTyped, FromHead
<1>9. EndOfSegment(res) = Len(asked[k])
  BY <1>2, <1>4, <1>5, <1>8, SegmentEnds
<1>10. /\ SubSeq(res, 1, EndOfSegment(res)) = asked[k]
       /\ SubSeq(res, EndOfSegment(res) + 1, Len(res)) = From(asked, k + 1)
  <2>1. PICK w \in Seq(Symbols) : w = asked[k]
    BY <1>5
  <2>2. SubSeq(w \o f, 1, Len(w)) = w /\ SubSeq(w \o f, Len(w) + 1, Len(w \o f)) = f
    BY Cut
  <2> QED BY <1>2, <1>4, <1>8, <1>9, <2>1, <2>2
<1>11. Tail(pat) = From(rule, k + 1)
  <2>1. From(rule, k + 1) \in Seq(Symbols)
    <3>1. k + 1 \in Nat \ {0}
      BY <1>2
    <3> QED BY <3>1, SegmentsAreTyped, FromTypes
  <2> QED BY <1>3, <1>4, <2>1, ConcatEmptySeq
<1>12. PICK d : Known(d, k) /\ Replace(dest, Head(pat), asked[k]) = Join(d, To)
  <2>1. Known(m, k - 1) /\ dest = Join(m, To)
    BY <1>2 DEF Fitted
  <2> QED BY <1>2, <1>4, <2>1, KnownReplaced
<1>13. Fitted(k, d, Replace(dest, Head(pat), asked[k]))
  <2>1. PICK n, a \in Nat : n = Len(rule) /\ a = Len(asked)
    BY SegmentsAreTyped
  <2>2. k <= n /\ k <= a /\ \A i \in 1 .. k : i \in 1 .. k - 1 \/ i = k
    BY <1>2, <2>1
  <2>3. \A i \in 1 .. k : Fits(i)
    BY <1>2, <1>7, <2>2 DEF Fitted
  <2> QED BY <1>2, <1>12, <2>1, <2>2, <2>3 DEF Fitted
<1>14. Between(k, d, Tail(pat), From(asked, k + 1), Replace(dest, Head(pat), asked[k]))
  BY <1>4, <1>11, <1>13, Kinds DEF Between
<1> QED BY <1>10, <1>14 DEF Loop

\* The same symbol of both is compared.
LEMMA SymbolStep ==
    ASSUME Sound, NEW pat, NEW res, NEW dest, Loop(pat, res, dest), pat # <<>>, res # <<>>,
           Head(pat) \notin Variables \cup {"*"}, Head(pat) = Head(res)
    PROVE  Loop(Tail(pat), Tail(res), dest)
<1>1. PICK k, m, c, p, r : Within(k, m, c, p, r, pat, res, dest) /\ Left(p, r)
  BY Continues DEF Amid
<1>2. /\ Compared(k, c, p, r) /\ Heads(k, p, pat, rule) /\ Heads(k, r, res, asked)
      /\ k \in 1 .. Len(rule) /\ k \in 1 .. Len(asked) /\ k \in Nat \ {0}
      /\ c \in Seq(Symbols) /\ p \in Seq(Symbols) /\ r \in Seq(Symbols)
      /\ Slashed(rule[k]) = c \o p /\ Slashed(asked[k]) = c \o r
  BY <1>1, HeadsWithin DEF Within, Compared
<1>3. p # <<>>
  <2> SUFFICES ASSUME p = <<>> PROVE FALSE
    OBVIOUS
  <2>1. r # <<>>
    BY <1>1 DEF Left
  <2>2. Head(r) # "/"
    BY <1>2, <2>1, TooLong
  <2> QED BY <1>2, <2>1, <2>2 DEF Heads
<1>4. r # <<>>
  <2> SUFFICES ASSUME r = <<>> PROVE FALSE
    OBVIOUS
  <2>1. Head(res) = "/" /\ Head(p) = "/"
    BY <1>2, <1>3 DEF Heads
  <2>2. PICK n, u, a \in Nat :
             /\ u = Len(rule[k]) /\ n = a + 1 /\ n > 0 /\ n \in 1 .. u /\ rule[k][n] = Head(p)
    <3>1. PICK n, u, a \in Nat :
             /\ u = Len(rule[k])
             /\ n = a + 1
             /\ n > 0 => n \in 1 .. u /\ rule[k][n] = Head(p)
      BY <1>2, <1>3, ComparedTo
    <3> QED BY <3>1
  <2>3. rule[k][n] \in Letters \cup Variables \cup {"*"}
    <3>1. rule[k] \in Seq(Letters) \/ rule[k] \in Names \/ rule[k] \in Splats
      BY <1>2, SegmentsAreTyped
    <3> QED BY <1>2, <2>2, <3>1, KindOf
  <2> QED BY <2>1, <2>2, <2>3, SymbolsAre
<1>5. PICK x : x = Head(p) /\ x = Head(r) /\ Tail(pat) = Tail(p) \o From(rule, k + 1)
               /\ Tail(res) = Tail(r) \o From(asked, k + 1)
  BY <1>2, <1>3, <1>4 DEF Heads
<1>6. PICK d \in Seq(Symbols), q \in Seq(Symbols), s \in Seq(Symbols) :
         /\ d = Append(c, x) /\ q = Tail(p) /\ s = Tail(r)
         /\ d \o q = c \o p /\ d \o s = c \o r
  <2>1. /\ Append(c, Head(p)) \in Seq(Symbols) /\ Tail(p) \in Seq(Symbols)
        /\ Append(c, Head(p)) \o Tail(p) = c \o p
    <3>1. Chops(Symbols, c, p)
      BY <1>2, <1>3, Chopped
    <3> QED BY <3>1 DEF Chops
  <2>2. /\ Append(c, Head(r)) \in Seq(Symbols) /\ Tail(r) \in Seq(Symbols)
        /\ Append(c, Head(r)) \o Tail(r) = c \o r
    <3>1. Chops(Symbols, c, r)
      BY <1>2, <1>4, Chopped
    <3> QED BY <3>1 DEF Chops
  <2> QED BY <1>5, <2>1, <2>2
<1>7. Compared(k, d, q, s)
  BY <1>2, <1>6 DEF Compared
<1>8. Within(k, m, d, q, s, Tail(pat), Tail(res), dest)
  BY <1>1, <1>5, <1>6, <1>7 DEF Within
<1> QED BY <1>8 DEF Loop

\* The loop returns whether the path is meant, and where to.
Returns(matches, to) == (matches <=> IsMeant) /\ to = IF IsMeant THEN Led ELSE <<>>

\* With "*" reached, the path is meant.
LEMMA SplatMeant ==
    ASSUME Sound, NEW k, NEW m, NEW c, NEW p, NEW r, NEW pat, NEW res, NEW dest,
           Within(k, m, c, p, r, pat, res, dest), p # <<>>, Head(p) = "*"
    PROVE  Returns(TRUE, Replace(dest, ":splat", res)) /\ pat = <<"*">>
<1>1. /\ Compared(k, c, p, r) /\ k \in 1 .. Len(rule) /\ k \in 1 .. Len(asked)
      /\ Fitted(k - 1, m, dest) /\ r \in Seq(Symbols)
      /\ pat = p \o From(rule, k + 1) /\ res = r \o From(asked, k + 1) /\ k \in Nat \ {0}
  BY DEF Within, Compared
<1>2. /\ k = Len(rule) /\ rule[k] \in Splats /\ Fits(k) /\ p = <<"*">>
      /\ r = SubSeq(asked[k], Len(rule[k]), Len(asked[k]))
  BY <1>1, AtSplat
<1>3. PICK n, a \in Nat : n = Len(rule) /\ a = Len(asked)
  BY SegmentsAreTyped
<1>4. Len(asked) >= Len(rule)
  BY <1>1, <1>2, <1>3
<1>5. IsMeant
  <2>1. \A i \in 1 .. n : i \in 1 .. k - 1 \/ i = k
    BY <1>1, <1>2, <1>3
  <2>2. \A i \in 1 .. Len(rule) : Fits(i)
    BY <1>1, <1>2, <1>3, <2>1 DEF Fitted
  <2> QED BY <1>2, <1>4, <2>2, MeantIs
<1>6. Known(m, k)
  <2>1. rule[k] \notin Names
    BY <1>2, Kinds
  <2>2. PICK j \in Nat : j = k - 1 /\ j + 1 = k /\ Known(m, j)
    BY <1>1 DEF Fitted
  <2> QED BY <1>1, <2>1, <2>2, KnownStays
<1>7. Led = Replace(dest, ":splat", res)
  <2>1. PICK left \in Seq(Symbols) : left = res
    <3>1. From(asked, k + 1) \in Seq(Symbols)
      <4>1. k + 1 \in Nat \ {0}
        BY <1>1
      <4> QED BY <4>1, SegmentsAreTyped, FromTypes
    <3>2. r \o From(asked, k + 1) \in Seq(Symbols)
      BY <1>1, <3>1, ConcatProperties
    <3> QED BY <1>1, <3>2
  <2>2. dest = Join(m, To)
    BY <1>1 DEF Fitted
  <2>3. Led = Replace(Join(m, To), ":splat", left)
    BY <1>1, <1>2, <1>4, <1>6, <2>1, LedWith
  <2> QED BY <2>1, <2>2, <2>3
<1>8. pat = <<"*">>
  <2>1. PICK e \in Seq(Symbols) : e = p
    BY <1>1 DEF Compared
  <2>2. From(rule, k + 1) = <<>>
    BY <1>2, SegmentsAreTyped, FromEnds
  <2>3. e \o <<>> = e
    BY ConcatEmptySeq
  <2> QED BY <1>1, <1>2, <2>1, <2>2, <2>3
<1> QED BY <1>5, <1>7, <1>8 DEF Returns

LEMMA SplatStep ==
    ASSUME Sound, NEW pat, NEW res, NEW dest, Loop(pat, res, dest), pat # <<>>, res # <<>>,
           Head(pat) = "*"
    PROVE  Returns(TRUE, Replace(dest, ":splat", res))
<1>1. PICK k, m, c, p, r : Within(k, m, c, p, r, pat, res, dest) /\ Left(p, r)
  BY Continues DEF Amid
<1>2. Heads(k, p, pat, rule)
  BY <1>1, HeadsWithin
<1>3. p # <<>> /\ Head(p) = "*"
  BY <1>2 DEF Heads
<1> QED BY <1>1, <1>3, SplatMeant

\* What isn't meant.
LEMMA Unfit ==
    ASSUME Sound, NEW k \in 1 .. Len(rule), ~Fits(k)
    PROVE  Returns(FALSE, <<>>)
  BY MeantIs DEF Returns

LEMMA OtherLength ==
    ASSUME Sound, Len(asked) # Len(rule),
           rule[Len(rule)] \notin Splats \/ ~(Len(asked) >= Len(rule))
    PROVE  Returns(FALSE, <<>>)
  BY MeantIs DEF Returns

\* With two symbols that differ, it isn't.
LEMMA DifferentStep ==
    ASSUME Sound, NEW pat, NEW res, NEW dest, Loop(pat, res, dest), pat # <<>>, res # <<>>,
           Head(pat) \notin Variables \cup {"*"}, Head(pat) # Head(res)
    PROVE  Returns(FALSE, <<>>)
<1>1. PICK k, m, c, p, r : Within(k, m, c, p, r, pat, res, dest) /\ Left(p, r)
  BY Continues DEF Amid
<1>2. /\ Compared(k, c, p, r) /\ Heads(k, p, pat, rule) /\ Heads(k, r, res, asked)
      /\ k \in 1 .. Len(rule)
  BY <1>1, HeadsWithin DEF Within, Compared
<1>3. CASE p = <<>>
  <2>1. r # <<>>
    BY <1>1, <1>3 DEF Left
  <2> QED BY <1>2, <1>3, <2>1, TooLong, Unfit
<1>4. CASE p # <<>> /\ r = <<>>
  <2>1. Head(p) # "*"
    BY <1>2, <1>4 DEF Heads
  <2>2. p # <<"*">>
    BY <2>1
  <2> QED BY <1>2, <1>4, <2>2, TooShort, Unfit
<1>5. CASE p # <<>> /\ r # <<>>
  <2>1. Head(p) # Head(r) /\ Head(p) \notin Variables \cup {"*"}
    BY <1>2, <1>5 DEF Heads
  <2> QED BY <1>2, <1>5, <2>1, Different, Unfit
<1> QED BY <1>3, <1>4, <1>5

\* At the end of one of them.
LEMMA EndStep ==
    ASSUME Sound, NEW pat, NEW res, NEW dest, Loop(pat, res, dest), pat = <<>> \/ res = <<>>
    PROVE  LET matches == pat \in {<<>>, <<"*">>} /\ res = <<>>
               to == IF pat = <<"*">> THEN Replace(dest, ":splat", res) ELSE dest
           IN  Returns(matches, IF matches THEN to ELSE <<>>)
<1> DEFINE matches == pat \in {<<>>, <<"*">>} /\ res = <<>>
           to == IF pat = <<"*">> THEN Replace(dest, ":splat", res) ELSE dest
<1>0. PICK n, a \in Nat : n = Len(rule) /\ a = Len(asked)
  BY SegmentsAreTyped
<1>1. ASSUME NEW k, NEW m, Ended(k, m, pat, res, dest)
      PROVE  Returns(matches, IF matches THEN to ELSE <<>>)
  <2>1. /\ k \in Nat /\ k <= n /\ k <= a /\ pat = From(rule, k + 1) /\ res = From(asked, k + 1)
        /\ (k = n \/ k = a) /\ Fitted(k, m, dest) /\ (k > 0 => rule[k] \notin Splats)
    BY <1>0, <1>1 DEF Ended, Between, Fitted
  <2>2. /\ k = n => pat = <<>>
        /\ k # n => pat # <<>> /\ pat # <<"*">>
        /\ (res = <<>>) <=> (k = a)
    <3>1. k \in Nat /\ k <= n /\ k <= a
      BY <2>1
    <3>2. k + 1 \in 1 .. Len(rule) + 1 /\ k + 1 \in 1 .. Len(asked) + 1
      BY <1>0, <3>1
    <3>3. rule \in Seq(Seq(Symbols)) /\ asked \in Seq(Seq(Symbols))
      BY SegmentsAreTyped
    <3>4. /\ k + 1 = Len(rule) + 1 => pat = <<>>
          /\ k + 1 # Len(rule) + 1 => pat # <<>> /\ Head(pat) = "/"
      <4>1. /\ k + 1 = Len(rule) + 1 => From(rule, k + 1) = <<>>
            /\ k + 1 # Len(rule) + 1 => From(rule, k + 1) # <<>> /\ Head(From(rule, k + 1)) = "/"
        BY <3>2, <3>3, FromHead
      <4> QED BY <2>1, <4>1
    <3>5. /\ k + 1 = Len(asked) + 1 => res = <<>>
          /\ k + 1 # Len(asked) + 1 => res # <<>>
      <4>1. /\ k + 1 = Len(asked) + 1 => From(asked, k + 1) = <<>>
            /\ k + 1 # Len(asked) + 1 => From(asked, k + 1) # <<>>
        BY <3>2, <3>3, FromHead
      <4> QED BY <2>1, <4>1
    <3>6. (k + 1 = n + 1 <=> k = n) /\ (k + 1 = a + 1 <=> k = a)
      BY <3>1
    <3>7. pat = <<"*">> => Head(pat) # "/"
      OBVIOUS
    <3> QED BY <1>0, <3>4, <3>5, <3>6, <3>7
  <2>3. n > 0
    BY <1>0, SegmentsAreTyped
  <2>4. CASE k = n /\ k = a
    <3>1. matches /\ to = dest
      BY <2>2, <2>4
    <3>2. rule[Len(rule)] \notin Splats /\ Len(asked) = Len(rule) /\ Len(asked) >= Len(rule)
      BY <1>0, <2>1, <2>3, <2>4
    <3>3. /\ \A i \in 1 .. Len(rule) : Fits(i)
          /\ Known(m, Len(rule)) /\ dest = Join(m, To)
      BY <1>0, <2>1, <2>4 DEF Fitted
    <3>4. IsMeant
      BY <3>2, <3>3, MeantIs
    <3>5. Led = dest
      BY <3>2, <3>3, LedWithout
    <3> HIDE DEF matches, to
    <3> QED BY <3>1, <3>4, <3>5 DEF Returns
  <2>5. CASE k = n /\ k # a
    <3>1. ~matches
      BY <2>2, <2>5
    <3>2. rule[Len(rule)] \notin Splats /\ Len(asked) # Len(rule)
      BY <1>0, <2>1, <2>3, <2>5
    <3> HIDE DEF matches, to
    <3> QED BY <3>1, <3>2, OtherLength DEF Returns
  <2>6. CASE k # n
    <3>1. ~matches
      BY <2>2, <2>6
    <3>2. Len(asked) # Len(rule) /\ ~(Len(asked) >= Len(rule))
      BY <1>0, <2>1, <2>6
    <3> HIDE DEF matches, to
    <3> QED BY <3>1, <3>2, OtherLength DEF Returns
  <2> QED BY <2>4, <2>5, <2>6
<1>2. ASSUME NEW k, NEW m, Amid(k, m, pat, res, dest)
      PROVE  Returns(matches, IF matches THEN to ELSE <<>>)
  <2>1. PICK c, p, r : Within(k, m, c, p, r, pat, res, dest) /\ Left(p, r)
    BY <1>2 DEF Amid
  <2>2. /\ Compared(k, c, p, r) /\ Heads(k, p, pat, rule) /\ Heads(k, r, res, asked)
        /\ k \in 1 .. Len(rule)
    BY <2>1, HeadsWithin DEF Within, Compared
  <2>3. CASE p # <<>>
    <3>1. res = <<>> /\ r = <<>> /\ pat # <<>> /\ Head(pat) = Head(p)
      BY <2>2, <2>3 DEF Heads
    <3>2. CASE Head(p) = "*"
      <4>1. Returns(TRUE, Replace(dest, ":splat", res)) /\ pat = <<"*">>
        BY <2>1, <2>3, <3>2, SplatMeant
      <4>2. matches /\ to = Replace(dest, ":splat", res)
        BY <3>1, <4>1
      <4> HIDE DEF matches, to
      <4> QED BY <4>1, <4>2
    <3>3. CASE Head(p) # "*"
      <4>1. p # <<"*">> /\ pat # <<"*">>
        BY <3>1, <3>3
      <4>2. ~matches
        BY <3>1, <4>1
      <4>3. Returns(FALSE, <<>>)
        BY <2>2, <2>3, <3>1, <4>1, TooShort, Unfit
      <4> HIDE DEF matches, to
      <4> QED BY <4>2, <4>3 DEF Returns
    <3> QED BY <3>2, <3>3
  <2>4. CASE p = <<>>
    <3>1. r # <<>>
      BY <2>1, <2>4 DEF Left
    <3>2. res # <<>>
      BY <2>2, <3>1 DEF Heads
    <3>3. ~matches
      BY <3>2
    <3>4. Returns(FALSE, <<>>)
      BY <2>2, <2>4, <3>1, TooLong, Unfit
    <3> HIDE DEF matches, to
    <3> QED BY <3>3, <3>4 DEF Returns
  <2> QED BY <2>3, <2>4
<1> HIDE DEF matches, to
<1>3. Returns(matches, IF matches THEN to ELSE <<>>)
  BY <1>1, <1>2, Stands
<1> QED BY <1>3 DEF matches, to

-----------------------------------------------------------------------------
(* What is left of a text is its end.                                      *)

Ends(t, whole) == \E z \in Seq(Symbols) : t \in Seq(Symbols) /\ whole = z \o t

LEMMA Reversed ==
    ASSUME NEW s \in Seq(Symbols)
    PROVE  /\ Reverse(s) \in Seq(Symbols) /\ Len(Reverse(s)) = Len(s)
           /\ \A i \in 1 .. Len(s) : Reverse(s)[i] = s[(Len(s) - i) + 1]
<1>1. PICK n \in Nat : n = Len(s)
  BY LenProperties
<1>2. PICK f : f = [i \in 1 .. n |-> s[(n - i) + 1]]
  OBVIOUS
<1>3. \A i \in 1 .. n : (n - i) + 1 \in 1 .. n
  OBVIOUS
<1>4. \A i \in 1 .. n : s[(n - i) + 1] \in Symbols
  BY <1>1, <1>3, ElementOfSeq
<1>5. f \in Seq(Symbols) /\ Len(f) = n
  <2>1. f \in [1 .. n -> Symbols]
    BY <1>2, <1>4
  <2>2. f \in Seq(Symbols)
    BY <2>1, SeqDef
  <2>3. PICK l \in Nat : l = Len(f) /\ 1 .. l = 1 .. n
    BY <2>1, <2>2, LenProperties
  <2>4. l = n
    <3>1. (l > 0 => l \in 1 .. n) /\ (n > 0 => n \in 1 .. l)
      BY <2>3
    <3> QED BY <3>1
  <2> QED BY <2>2, <2>3, <2>4
<1>6. Reverse(s) = f
  BY <1>1, <1>2 DEF Reverse
<1> QED BY <1>1, <1>2, <1>5, <1>6

LEMMA EndIsSuffix ==
    ASSUME NEW t, NEW whole, Ends(t, whole)
    PROVE  IsSuffix(t, whole)
<1>1. PICK z \in Seq(Symbols) : t \in Seq(Symbols) /\ whole = z \o t
  BY DEF Ends
<1>2. PICK k, n \in Nat : k = Len(z) /\ n = Len(t)
  BY <1>1, LenProperties
<1>3. PICK u \in Seq(Symbols) : u = whole /\ Len(u) = k + n /\
        \A i \in 1 .. k + n : u[i] = IF i <= k THEN z[i] ELSE t[i - k]
  <2>1. PICK s \in Seq(Symbols) : s = t
    BY <1>1
  <2>2. /\ z \o s \in Seq(Symbols) /\ Len(z \o s) = Len(z) + Len(s)
        /\ \A i \in 1 .. Len(z) + Len(s) : (z \o s)[i] = IF i <= Len(z) THEN z[i] ELSE s[i - Len(z)]
    BY ConcatProperties
  <2> QED BY <1>1, <1>2, <2>1, <2>2
<1>4. PICK f, g \in Seq(Symbols) :
        /\ f = Reverse(t) /\ Len(f) = n /\ \A i \in 1 .. n : f[i] = t[(n - i) + 1]
        /\ g = Reverse(u) /\ Len(g) = k + n /\ \A i \in 1 .. k + n : g[i] = u[((k + n) - i) + 1]
  <2>1. PICK s \in Seq(Symbols) : s = t
    BY <1>1
  <2>2. PICK f \in Seq(Symbols) : /\ f = Reverse(s) /\ Len(f) = Len(s)
                                   /\ \A i \in 1 .. Len(s) : f[i] = s[(Len(s) - i) + 1]
    BY Reversed
  <2>3. PICK g \in Seq(Symbols) : /\ g = Reverse(u) /\ Len(g) = Len(u)
                                   /\ \A i \in 1 .. Len(u) : g[i] = u[(Len(u) - i) + 1]
    BY Reversed
  <2> QED BY <1>2, <1>3, <2>1, <2>2, <2>3
<1>5. ASSUME NEW i \in 1 .. n PROVE g[i] = f[i]
  <2>1. i \in 1 .. k + n /\ ((k + n) - i) + 1 \in 1 .. k + n /\ ~(((k + n) - i) + 1 <= k)
        /\ (((k + n) - i) + 1) - k = (n - i) + 1
    OBVIOUS
  <2>2. g[i] = u[((k + n) - i) + 1]
    BY <1>4, <2>1
  <2>3. u[((k + n) - i) + 1] = t[(n - i) + 1]
    BY <1>3, <2>1
  <2> QED BY <1>4, <2>2, <2>3
<1>6. SubSeq(g, 1, n) = f
  <2>1. \A i \in 1 .. n : i \in 1 .. k + n
    OBVIOUS
  <2>2. \A i \in 1 .. n : g[i] \in Symbols
    BY <1>4, <2>1, ElementOfSeq
  <2>3. SubSeq(g, 1, n) \in Seq(Symbols) /\ Len(SubSeq(g, 1, n)) = n
        /\ \A i \in 1 .. n : SubSeq(g, 1, n)[i] = g[i]
    BY <2>2, SubSeqProperties
  <2> QED BY <1>4, <1>5, <2>3, SeqEqual
<1>7. SubSeq(f, 1, n) = f
  BY <1>4, SubSeqFull
<1>8. n <= k + n
  OBVIOUS
<1> QED BY <1>3, <1>4, <1>6, <1>7, <1>8 DEF IsSuffix, IsPrefix

LEMMA EndsAll == ASSUME NEW t \in Seq(Symbols) PROVE Ends(t, t)
<1>1. <<>> \o t = t /\ <<>> \in Seq(Symbols)
  BY ConcatEmptySeq, EmptySeq
<1> QED BY <1>1 DEF Ends

LEMMA EndsTail ==
    ASSUME NEW t, NEW whole, Ends(t, whole), t # <<>>
    PROVE  Ends(Tail(t), whole)
<1>1. PICK z \in Seq(Symbols) : t \in Seq(Symbols) /\ whole = z \o t
  BY DEF Ends
<1>2. Chops(Symbols, z, t)
  BY <1>1, Chopped
<1> QED BY <1>1, <1>2 DEF Chops, Ends

LEMMA EndsLater ==
    ASSUME NEW t, NEW whole, Ends(t, whole)
    PROVE  Ends(SubSeq(t, EndOfSegment(t) + 1, Len(t)), whole)
<1>1. PICK z \in Seq(Symbols) : t \in Seq(Symbols) /\ whole = z \o t
  BY DEF Ends
<1>2. PICK n \in Nat : n = Len(t) /\ DOMAIN t = 1 .. n
  BY <1>1, LenProperties
<1>3. PICK e \in 0 .. n : e = EndOfSegment(t)
  <2> DEFINE slashes == {i \in DOMAIN t : t[i] = "/"}
  <2>1. EndOfSegment(t) = IF slashes = {} THEN n ELSE Min(slashes) - 1
    BY <1>2 DEF EndOfSegment
  <2>2. slashes \in SUBSET Nat /\ \A i \in slashes : i \in 1 .. n
    BY <1>2
  <2> HIDE DEF slashes
  <2>3. CASE slashes = {}
    BY <2>1, <2>3
  <2>4. CASE slashes # {}
    <3>1. \E x \in slashes : \A y \in slashes : x <= y
      BY <2>2, <2>4, Least
    <3>2. Min(slashes) \in slashes
      BY <3>1 DEF Min
    <3>3. PICK x : x = Min(slashes) /\ x \in 1 .. n
      BY <2>2, <3>2
    <3>4. x - 1 \in 0 .. n
      BY <3>3
    <3> QED BY <2>1, <2>4, <3>3, <3>4
  <2> QED BY <2>3, <2>4
<1>4. \A i \in 1 .. n : t[i] \in Symbols
  BY <1>1, <1>2, ElementOfSeq
<1>5. PICK a, b \in Seq(Symbols) : a = SubSeq(t, 1, e) /\ b = SubSeq(t, e + 1, n)
  <2>1. \A i \in 1 .. e : t[i] \in Symbols
    BY <1>4
  <2>2. \A i \in e + 1 .. n : t[i] \in Symbols
    BY <1>4
  <2>3. e \in Int /\ e + 1 \in Int /\ n \in Int
    OBVIOUS
  <2>4. SubSeq(t, 1, e) \in Seq(Symbols)
    BY <2>1, <2>3, SubSeqProperties
  <2>5. SubSeq(t, e + 1, n) \in Seq(Symbols)
    BY <2>2, <2>3, SubSeqProperties
  <2> QED BY <2>4, <2>5
<1>6. a \o b = t
  <2>1. 1 \in 1 .. Len(t) + 1 /\ e \in 1 - 1 .. Len(t) /\ n \in e .. Len(t)
    BY <1>2
  <2>2. SubSeq(t, 1, e) \o SubSeq(t, e + 1, n) = SubSeq(t, 1, n)
    BY <1>1, <2>1, ConcatAdjacentSubSeq
  <2> QED BY <1>1, <1>2, <1>5, <2>2, SubSeqFull
<1>7. whole = (z \o a) \o b /\ z \o a \in Seq(Symbols)
  <2>1. z \o a \in Seq(Symbols) /\ (z \o a) \o b = z \o (a \o b)
    BY ConcatProperties, ConcatAssociative
  <2> QED BY <1>1, <1>6, <2>1
<1>8. Ends(b, whole)
  BY <1>7 DEF Ends
<1> QED BY <1>2, <1>3, <1>5, <1>8

-----------------------------------------------------------------------------
(* Neither the path nor the pattern changes.                               *)

LEMMA LoopSame ==
    ASSUME NEW x, NEW y, NEW z, UNCHANGED <<asked, rule>>, Loop(x, y, z)
    PROVE  Loop(x, y, z)'
<1>1. \A k : Fits(k)' <=> Fits(k)
  BY DEF Fits, Goes
<1>2. \A m, k : Known(m, k)' <=> Known(m, k)
  BY DEF Known, First
<1>3. \A k, m, d : Fitted(k, m, d) => Fitted(k, m, d)'
  BY <1>1, <1>2 DEF Fitted
<1>4. \A k, c, p, r : Compared(k, c, p, r) => Compared(k, c, p, r)'
  BY DEF Compared
<1>5. \A k, m : Between(k, m, x, y, z) => Between(k, m, x, y, z)'
  BY <1>3 DEF Between
<1>6. \A k, m, c, p, r : Within(k, m, c, p, r, x, y, z) => Within(k, m, c, p, r, x, y, z)'
  BY <1>3, <1>4 DEF Within
<1> QED BY <1>5, <1>6 DEF Loop

LEMMA ReturnsSame ==
    ASSUME NEW b \in BOOLEAN, NEW d, UNCHANGED <<asked, rule>>, Returns(b, d)
    PROVE  Returns(b, d)'
<1>1. IsMeant' <=> IsMeant
  BY DEF IsMeant, Goes
<1>2. \A x : Meaning(x)' = Meaning(x)
  BY DEF Meaning
<1>3. Led' = Led
  BY <1>2 DEF Led
<1> QED BY <1>1, <1>3 DEF Returns

-----------------------------------------------------------------------------
(* The invariant and the theorems.                                         *)

RedirectsInv ==
    /\ asked \in PathsAsked /\ rule \in Rules
    /\ Ends(rest, Text(asked)) /\ Ends(pattern, Text(rule))
    /\ verdict \in {"loop", "matched", "not matched"}
    /\ verdict = "loop" => Loop(pattern, rest, destination)
    /\ verdict # "loop" => Returns(verdict = "matched", destination)

LEMMA IsSound == ASSUME RedirectsInv PROVE Sound
  BY AskedIsSound, RuleIsOk DEF RedirectsInv, Sound

LEMMA RedirectsStart == RedirectsInit => RedirectsInv
<1> SUFFICES ASSUME RedirectsInit PROVE RedirectsInv
  OBVIOUS
<1>1. Sound
  BY AskedIsSound, RuleIsOk DEF RedirectsInit, Sound
<1>2. Loop(pattern, rest, destination)
  BY <1>1, Starts DEF RedirectsInit
<1>3. Text(asked) \in Seq(Symbols) /\ Text(rule) \in Seq(Symbols)
  BY <1>1, SegmentsAreTyped, TextIsJoin
<1>4. Ends(rest, Text(asked)) /\ Ends(pattern, Text(rule))
  BY <1>3, EndsAll DEF RedirectsInit
<1> QED BY <1>2, <1>4 DEF RedirectsInit, RedirectsInv

\* The loop goes on.
LEMMA GoesOn ==
    ASSUME RedirectsInv, UNCHANGED <<asked, rule, verdict>>, verdict = "loop",
           Loop(pattern', rest', destination'),
           Ends(rest', Text(asked)), Ends(pattern', Text(rule))
    PROVE  RedirectsInv'
<1>1. PICK x, y, z : x = pattern' /\ y = rest' /\ z = destination'
  OBVIOUS
<1>2. Loop(x, y, z)'
  BY <1>1, LoopSame
<1>3. Loop(pattern, rest, destination)'
  BY <1>1, <1>2 DEF Loop
<1>4. Ends(rest', Text(asked')) /\ Ends(pattern', Text(rule'))
  OBVIOUS
<1> QED BY <1>3, <1>4 DEF RedirectsInv

\* It returns.
LEMMA GivesBack ==
    ASSUME RedirectsInv, NEW matches \in BOOLEAN, NEW to, Return(matches, to),
           Returns(matches, IF matches THEN to ELSE <<>>)
    PROVE  RedirectsInv'
<1>1. /\ UNCHANGED <<asked, rule>> /\ rest' = rest /\ pattern' = pattern
      /\ verdict' \in {"matched", "not matched"} /\ (verdict' = "matched") = matches
      /\ destination' = IF matches THEN to ELSE <<>>
  BY DEF Return
<1>2. PICK d : d = destination' /\ Returns(matches, d)
  BY <1>1
<1>3. Returns(matches, d)'
  BY <1>1, <1>2, ReturnsSame
<1>4. Returns(verdict = "matched", destination)'
  BY <1>1, <1>2, <1>3 DEF Returns
<1> QED BY <1>1, <1>4 DEF RedirectsInv

LEMMA RedirectsStep == RedirectsInv /\ [RedirectsNext]_redirectsVars => RedirectsInv'
<1> SUFFICES ASSUME RedirectsInv, [RedirectsNext]_redirectsVars PROVE RedirectsInv'
  OBVIOUS
<1>0. Sound
  BY IsSound
<1>1. CASE MatchVariable
  <2>1. /\ Looping /\ Head(pattern) \in Variables
        /\ pattern' = Tail(pattern)
        /\ rest' = SubSeq(rest, EndOfSegment(rest) + 1, Len(rest))
        /\ destination' = Replace(destination, Head(pattern), SubSeq(rest, 1, EndOfSegment(rest)))
        /\ UNCHANGED <<asked, rule, verdict>>
    BY <1>1 DEF MatchVariable
  <2>2. Loop(pattern, rest, destination) /\ pattern # <<>> /\ rest # <<>> /\ verdict = "loop"
    BY <2>1 DEF Looping, RedirectsInv
  <2>3. Loop(pattern', rest', destination')
    BY <1>0, <2>1, <2>2, VariableStep
  <2>4. Ends(pattern', Text(rule)) /\ Ends(rest', Text(asked))
    BY <2>1, <2>2, EndsTail, EndsLater DEF RedirectsInv
  <2> QED BY <2>1, <2>2, <2>3, <2>4, GoesOn
<1>2. CASE MatchSplat
  <2>1. Looping /\ Head(pattern) = "*" /\ Return(TRUE, Replace(destination, ":splat", rest))
    BY <1>2 DEF MatchSplat
  <2>2. Loop(pattern, rest, destination) /\ pattern # <<>> /\ rest # <<>>
    BY <2>1 DEF Looping, RedirectsInv
  <2>3. Returns(TRUE, Replace(destination, ":splat", rest))
    BY <1>0, <2>1, <2>2, SplatStep
  <2> QED BY <2>1, <2>3, GivesBack
<1>3. CASE MatchSymbol
  <2>1. Looping /\ Head(pattern) \notin Variables \cup {"*"}
    BY <1>3 DEF MatchSymbol
  <2>2. Loop(pattern, rest, destination) /\ pattern # <<>> /\ rest # <<>> /\ verdict = "loop"
    BY <2>1 DEF Looping, RedirectsInv
  <2>3. CASE Head(pattern) = Head(rest)
    <3>1. /\ rest' = Tail(rest) /\ pattern' = Tail(pattern)
          /\ UNCHANGED <<asked, rule, destination, verdict>>
      BY <1>3, <2>3 DEF MatchSymbol
    <3>2. Loop(pattern', rest', destination')
      BY <1>0, <2>1, <2>2, <2>3, <3>1, SymbolStep
    <3>3. Ends(pattern', Text(rule)) /\ Ends(rest', Text(asked))
      BY <2>2, <3>1, EndsTail DEF RedirectsInv
    <3> QED BY <2>2, <3>1, <3>2, <3>3, GoesOn
  <2>4. CASE Head(pattern) # Head(rest)
    <3>1. Return(FALSE, <<>>)
      BY <1>3, <2>4 DEF MatchSymbol
    <3>2. Returns(FALSE, <<>>)
      BY <1>0, <2>1, <2>2, <2>4, DifferentStep
    <3> QED BY <3>1, <3>2, GivesBack
  <2> QED BY <2>3, <2>4
<1>4. CASE MatchEnd
  <2> DEFINE matches == pattern \in {<<>>, <<"*">>} /\ rest = <<>>
             to == IF pattern = <<"*">> THEN Replace(destination, ":splat", rest) ELSE destination
  <2>1. verdict = "loop" /\ (pattern = <<>> \/ rest = <<>>) /\ Return(matches, to)
    BY <1>4 DEF MatchEnd
  <2>2. Loop(pattern, rest, destination)
    BY <2>1 DEF RedirectsInv
  <2>3. Returns(matches, IF matches THEN to ELSE <<>>)
    BY <1>0, <2>1, <2>2, EndStep
  <2>4. matches \in BOOLEAN
    OBVIOUS
  <2> HIDE DEF matches, to
  <2> QED BY <2>1, <2>3, <2>4, GivesBack
<1>5. CASE UNCHANGED redirectsVars
  <2>1. UNCHANGED <<asked, rule, rest, pattern, destination, verdict>>
    BY <1>5 DEF redirectsVars
  <2>2. CASE verdict = "loop"
    <3>1. Loop(pattern', rest', destination') /\ Ends(rest', Text(asked)) /\ Ends(pattern', Text(rule))
      BY <2>1, <2>2 DEF RedirectsInv
    <3> QED BY <2>1, <2>2, <3>1, GoesOn
  <2>3. CASE verdict # "loop"
    <3>1. PICK b, d : b \in BOOLEAN /\ b = (verdict = "matched") /\ d = destination /\ Returns(b, d)
      BY <2>3 DEF RedirectsInv
    <3>2. Returns(b, d)'
      BY <2>1, <3>1, ReturnsSame
    <3>3. Returns(verdict = "matched", destination)'
      BY <2>1, <3>1, <3>2 DEF Returns
    <3> QED BY <2>1, <2>3, <3>3 DEF RedirectsInv
  <2> QED BY <2>2, <2>3
<1> QED BY <1>1, <1>2, <1>3, <1>4, <1>5 DEF RedirectsNext

LEMMA RedirectsKept == RedirectsSpec => []RedirectsInv
  BY RedirectsStart, RedirectsStep, PTL DEF RedirectsSpec

\* The path and the pattern are only read, and what is left of them is their end.
THEOREM RedirectsTypes == RedirectsSpec => []RedirectsTypeOK
<1>1. RedirectsInv => RedirectsTypeOK
  BY EndIsSuffix DEF RedirectsInv, RedirectsTypeOK
<1> QED BY <1>1, RedirectsKept, PTL

\* The loop matches exactly the paths that are meant, and leads where it is meant to.
THEOREM RedirectsMeant == RedirectsSpec => []RedirectsAreMeant
<1>1. RedirectsInv => RedirectsAreMeant
  BY DEF RedirectsInv, RedirectsAreMeant, Returns, Led
<1> QED BY <1>1, RedirectsKept, PTL
=============================================================================
