---------------------------- MODULE ChunkerProofs ----------------------------
(***************************************************************************)
(* Proofs about functions defined by recursion, and about chunk_markdown(), *)
(* for any value of its constants: whatever is added to a file, its chunks  *)
(* are short, have its words, and are each of one section.                  *)
(***************************************************************************)
EXTENDS MCChunker, FiniteSetTheorems, SequenceTheorems, WellFoundedInduction, TLAPS

-----------------------------------------------------------------------------
(* Functions defined by recursion on an index.  What they compute is shown  *)
(* by the least index at which it would fail.                               *)

\* Numbers that are not none have a least one.
LEMMA LeastNumber == ASSUME NEW N \in SUBSET Nat, N # {} PROVE \E i \in N : \A j \in N : i \leq j
<1> DEFINE Below == OpToRel(<, Nat)
<1>1. IsWellFoundedOn(Below, Nat)
  BY NatLessThanWellFounded
<1>2. \A i, j \in Nat : j < i => <<j, i>> \in Below
  BY DEF OpToRel
<1> HIDE DEF Below
<1>3. \E i \in N : \A j \in N : ~ (<<j, i>> \in Below)
  BY <1>1, WFMin, Zenon
<1>4. \A i, j \in Nat : <<j, i>> \notin Below => i \leq j
  BY <1>2
<1> QED
  BY <1>3, <1>4

\* What holds at 0, and at each number up to n if at the one before, holds up
\* to n.
LEMMA Upward ==
  ASSUME NEW n \in Nat, NEW T, 0 \in T, \A i \in 1 .. n : i - 1 \in T => i \in T
  PROVE  \A i \in 0 .. n : i \in T
<1> DEFINE Bad == {i \in 0 .. n : i \notin T}
<1> SUFFICES ASSUME Bad # {} PROVE FALSE
  OBVIOUS
<1>1. Bad \in SUBSET Nat
  OBVIOUS
<1>2. PICK m \in Bad : \A i \in Bad : m \leq i
  BY <1>1, LeastNumber
<1>3. m \in 1 .. n /\ m - 1 \in 0 .. n /\ m - 1 \notin Bad
  BY <1>2
<1> QED
  BY <1>2, <1>3

Recursed(V, b, n, step) ==
  \E g \in [0 .. n -> V] : g[0] = b /\ \A i \in 1 .. n : g[i] = step[i][g[i - 1]]

\* A function defined by recursion is there: b at 0, and at i what step i
\* makes of the value at i - 1.
LEMMA Recursion ==
  ASSUME NEW V, NEW b \in V, NEW n \in Nat, NEW step \in [1 .. n -> [V -> V]]
  PROVE  Recursed(V, b, n, step)
<1> DEFINE Upto(k, g) == g[0] = b /\ \A i \in 1 .. k : g[i] = step[i][g[i - 1]]
           T == {k \in 0 .. n : \E g \in [0 .. k -> V] : Upto(k, g)}
<1>1. 0 \in T
  <2>1. [i \in 0 .. 0 |-> b] \in [0 .. 0 -> V] /\ Upto(0, [i \in 0 .. 0 |-> b])
    OBVIOUS
  <2> HIDE DEF Upto
  <2>2. \E g \in [0 .. 0 -> V] : Upto(0, g)
    BY <2>1
  <2> QED
    BY <2>2
<1>2. ASSUME NEW k \in Nat, k \in T, k + 1 \leq n PROVE \E h \in [0 .. k + 1 -> V] : Upto(k + 1, h)
  <2>1. PICK g \in [0 .. k -> V] : Upto(k, g)
    BY <1>2
  <2> DEFINE h == [i \in 0 .. k + 1 |-> IF i = k + 1 THEN step[k + 1][g[k]] ELSE g[i]]
  <2>2. k + 1 \in 1 .. n /\ k \in 0 .. k
    BY <1>2
  <2>3. step[k + 1] \in [V -> V] /\ g[k] \in V
    BY <2>2
  <2>4. step[k + 1][g[k]] \in V
    BY <2>3
  <2>5. h \in [0 .. k + 1 -> V]
    BY <2>4
  <2>6. h[0] = b
    BY <2>1
  <2>7. ASSUME NEW i \in 1 .. k + 1 PROVE h[i] = step[i][h[i - 1]]
    <3>1. CASE i = k + 1
      <4>1. h[i] = step[k + 1][g[k]] /\ h[i - 1] = g[k]
        BY <3>1
      <4> QED
        BY <4>1, <3>1
    <3>2. CASE i # k + 1
      <4>1. i \in 1 .. k /\ h[i] = g[i] /\ h[i - 1] = g[i - 1]
        BY <3>2
      <4> QED
        BY <4>1, <2>1
    <3> QED
      BY <3>1, <3>2
  <2> QED
    BY <2>5, <2>6, <2>7
<1>3. n \in T
  <2>1. ASSUME NEW i \in 1 .. n, i - 1 \in T PROVE i \in T
    <3>1. i - 1 \in Nat /\ (i - 1) + 1 = i /\ i \leq n /\ i \in 0 .. n
      OBVIOUS
    <3> HIDE DEF Upto
    <3>2. \E h \in [0 .. i -> V] : Upto(i, h)
      BY <1>2, <2>1, <3>1
    <3> QED
      BY <3>1, <3>2
  <2> HIDE DEF T
  <2>2. \A i \in 0 .. n : i \in T
    BY <1>1, <2>1, Upward
  <2> QED
    BY <2>2
<1> QED
  BY <1>3 DEF Recursed

-----------------------------------------------------------------------------
(* The chunker: texts and their words.                                      *)

Text == Seq(Int)

Flattens(Ps, f) == f[0] = <<>> /\ \A i \in 1 .. Len(Ps) : f[i] = f[i - 1] \o Ps[i]

\* What texts become that are put one after the other.
LEMMA FlattenIs ==
  ASSUME NEW V, NEW Ps \in Seq(Seq(V))
  PROVE  \E f \in [0 .. Len(Ps) -> Seq(V)] : Flattens(Ps, f) /\ C!FlattenSeq(Ps) = f[Len(Ps)]
<1> DEFINE n == Len(Ps)
           Vals == Seq(V)
           none == <<>>
           step == [i \in 1 .. n |-> [a \in Vals |-> a \o Ps[i]]]
           Is(g) == g = [i \in 1 .. n |-> IF i = 1 THEN Ps[i] ELSE g[i - 1] \o Ps[i]]
           acc == CHOOSE g : Is(g)
<1>1. n \in Nat /\ none \in Vals /\ DOMAIN Ps = 1 .. n /\ \A i \in 1 .. n : Ps[i] \in Vals
  OBVIOUS
<1>2. CASE n = 0
  <2>1. C!FlattenSeq(Ps) = <<>>
    BY <1>2 DEF C!FlattenSeq
  <2> DEFINE f == [i \in 0 .. 0 |-> none]
  <2>2. f \in [0 .. n -> Vals] /\ f[0] = <<>>
    BY <1>2
  <2>3. Flattens(Ps, f)
    BY <1>2, <2>2 DEF Flattens
  <2> HIDE DEF f
  <2> QED
    BY <1>2, <2>1, <2>2, <2>3
<1>3. CASE n # 0
  <2>1. C!FlattenSeq(Ps) = acc[n]
    BY <1>3, Zenon DEF C!FlattenSeq
  <2>2. \A i \in 1 .. n : \A a \in Vals : a \o Ps[i] \in Vals
    BY <1>1
  <2>b. \A i \in 1 .. n : <<>> \o Ps[i] = Ps[i]
    BY <1>1
  <2>a. 1 \in 1 .. n
    BY <1>1, <1>3
  <2> HIDE DEF n, Vals
  <2>3. PICK g \in [0 .. n -> Vals] : g[0] = none /\ \A i \in 1 .. n : g[i] = step[i][g[i - 1]]
    <3>1. step \in [1 .. n -> [Vals -> Vals]]
      BY <2>2
    <3> HIDE DEF step
    <3>2. Recursed(Vals, none, n, step)
      BY <1>1, <3>1, Recursion
    <3> QED
      BY <3>2 DEF Recursed
  <2>4. ASSUME NEW i \in 1 .. n PROVE g[i] = g[i - 1] \o Ps[i]
    <3>1. g[i - 1] \in Vals
      BY <1>1, <2>3
    <3> QED
      BY <2>3, <3>1
  <2>5. Is([i \in 1 .. n |-> g[i]])
    <3>1. \A i \in 1 .. n : g[i] = IF i = 1 THEN Ps[i] ELSE g[i - 1] \o Ps[i]
      <4> SUFFICES ASSUME NEW i \in 1 .. n PROVE g[i] = IF i = 1 THEN Ps[i] ELSE g[i - 1] \o Ps[i]
        OBVIOUS
      <4>1. g[i] = g[i - 1] \o Ps[i]
        BY <2>4
      <4>2. i = 1 => g[i - 1] = <<>>
        BY <2>3
      <4>3. i = 1 => g[i] = Ps[i]
        BY <2>b, <4>1, <4>2
      <4> QED
        BY <4>1, <4>3
    <3>2. \A i \in 1 .. n : i # 1 => i - 1 \in 1 .. n
      BY <1>1
    <3> QED
      BY <3>1, <3>2
  <2>6. Is(acc)
    <3> HIDE DEF Is
    <3> QED
      BY <2>5, Zenon
  <2> HIDE DEF acc
  <2>7. acc[1] = Ps[1] /\ \A i \in 1 .. n : i # 1 => acc[i] = acc[i - 1] \o Ps[i]
    BY <2>a, <2>6
  <2>8. \A k \in 0 .. n : k = 0 \/ acc[k] = g[k]
    <3> DEFINE T == {k \in 0 .. n : k = 0 \/ acc[k] = g[k]}
    <3>1. 0 \in T
      BY <1>1
    <3>2. ASSUME NEW i \in 1 .. n, i - 1 \in T PROVE i \in T
      <4>1. CASE i = 1
        <5>1. g[1] = <<>> \o Ps[1]
          <6>1. g[1] = g[1 - 1] \o Ps[1]
            BY <2>4, <2>a
          <6>2. g[1 - 1] = <<>>
            BY <2>3
          <6> QED
            BY <6>1, <6>2
        <5> QED
          BY <2>a, <2>b, <2>7, <4>1, <5>1
      <4>2. CASE i # 1
        <5>1. acc[i - 1] = g[i - 1]
          BY <3>2, <4>2
        <5> QED
          <6>1. acc[i] = acc[i - 1] \o Ps[i]
            BY <2>7, <4>2
          <6>2. g[i] = g[i - 1] \o Ps[i]
            BY <2>4
          <6>3. acc[i] = g[i] /\ i \in 0 .. n
            BY <1>1, <5>1, <6>1, <6>2
          <6> QED
            BY <6>3
      <4> QED
        BY <4>1, <4>2
    <3> HIDE DEF T
    <3>3. \A k \in 0 .. n : k \in T
      BY <1>1, <3>1, <3>2, Upward
    <3> QED
      BY <3>3 DEF T
  <2>9. acc[n] = g[n]
    BY <1>1, <1>3, <2>8
  <2> QED
    BY <2>1, <2>3, <2>4, <2>9 DEF Flattens, n, Vals
<1> QED
  BY <1>2, <1>3

\* Texts joined are a text.
LEMMA FlattenTyped == ASSUME NEW V, NEW Ps \in Seq(Seq(V)) PROVE C!FlattenSeq(Ps) \in Seq(V)
<1>1. PICK f \in [0 .. Len(Ps) -> Seq(V)] : Flattens(Ps, f) /\ C!FlattenSeq(Ps) = f[Len(Ps)]
  BY FlattenIs
<1>2. Len(Ps) \in 0 .. Len(Ps)
  OBVIOUS
<1> QED
  BY <1>1, <1>2

\* No texts joined are the empty one.
LEMMA FlattenNone == C!FlattenSeq(<<>>) = <<>>
BY DEF C!FlattenSeq

\* The empty text adds nothing.
LEMMA EmptyJoins == ASSUME NEW V, NEW a \in Seq(V) PROVE a \o <<>> = a /\ <<>> \o a = a
OBVIOUS

\* Joined one after another, two lists of texts are their joins.
LEMMA FlattenJoin ==
  ASSUME NEW V, NEW Ps \in Seq(Seq(V)), NEW G \in Seq(Seq(V))
  PROVE  C!FlattenSeq(Ps \o G) = C!FlattenSeq(Ps) \o C!FlattenSeq(G)
<1> DEFINE H == Ps \o G
           m == Len(Ps)
           n == Len(G)
<1>1. /\ m \in Nat /\ n \in Nat /\ H \in Seq(Seq(V)) /\ Len(H) = m + n
      /\ \A i \in 1 .. m : H[i] = Ps[i]
      /\ \A i \in 1 .. n : H[m + i] = G[i] /\ G[i] \in Seq(V)
  OBVIOUS
<1>a. ASSUME NEW a \in Seq(V), NEW b \in Seq(V), NEW c \in Seq(V) PROVE (a \o b) \o c = a \o (b \o c)
  OBVIOUS
<1> HIDE DEF H, m, n
<1>2. PICK f \in [0 .. m -> Seq(V)] : Flattens(Ps, f) /\ C!FlattenSeq(Ps) = f[m]
  BY FlattenIs DEF m
<1>3. PICK g \in [0 .. n -> Seq(V)] : Flattens(G, g) /\ C!FlattenSeq(G) = g[n]
  BY FlattenIs DEF n
<1>4. PICK h \in [0 .. m + n -> Seq(V)] : Flattens(H, h) /\ C!FlattenSeq(H) = h[m + n]
  <2>1. \E h \in [0 .. Len(H) -> Seq(V)] : Flattens(H, h) /\ C!FlattenSeq(H) = h[Len(H)]
    BY <1>1, FlattenIs
  <2> QED
    BY <1>1, <2>1
<1>5. /\ f[0] = <<>> /\ \A i \in 1 .. m : f[i] = f[i - 1] \o Ps[i]
      /\ g[0] = <<>> /\ \A i \in 1 .. n : g[i] = g[i - 1] \o G[i]
      /\ h[0] = <<>> /\ \A i \in 1 .. m + n : h[i] = h[i - 1] \o H[i]
  BY <1>1, <1>2, <1>3, <1>4 DEF Flattens, m, n
<1>6. \A k \in 0 .. m : h[k] = f[k]
  <2> DEFINE T == {k \in 0 .. m : h[k] = f[k]}
  <2>1. 0 \in T
    BY <1>1, <1>5
  <2>2. ASSUME NEW i \in 1 .. m, i - 1 \in T PROVE i \in T
    <3>1. i \in 1 .. m + n /\ i \in 0 .. m
      BY <1>1
    <3>2. h[i] = h[i - 1] \o Ps[i] /\ f[i] = f[i - 1] \o Ps[i]
      BY <1>1, <1>5, <3>1
    <3> QED
      BY <2>2, <3>1, <3>2
  <2> HIDE DEF T
  <2>3. \A k \in 0 .. m : k \in T
    BY <1>1, <2>1, <2>2, Upward
  <2> QED
    BY <2>3 DEF T
<1>7. \A k \in 0 .. n : h[m + k] = f[m] \o g[k]
  <2> DEFINE T == {k \in 0 .. n : h[m + k] = f[m] \o g[k]}
  <2>0. f[m] \in Seq(V) /\ m \in 0 .. m /\ \A i \in 1 .. n : g[i - 1] \in Seq(V)
    BY <1>1
  <2>1. 0 \in T
    <3>1. h[m + 0] = f[m] /\ f[m] \o <<>> = f[m]
      BY <1>1, <1>6, <2>0, EmptyJoins
    <3>2. f[m] \o g[0] = f[m]
      BY <1>5, <3>1
    <3>3. 0 \in 0 .. n
      BY <1>1
    <3> QED
      BY <3>1, <3>2, <3>3
  <2>2. ASSUME NEW i \in 1 .. n, i - 1 \in T PROVE i \in T
    <3>1. m + i \in 1 .. m + n /\ (m + i) - 1 = m + (i - 1) /\ i \in 0 .. n
      BY <1>1
    <3>2. h[m + i] = h[m + (i - 1)] \o G[i]
      BY <1>1, <1>5, <3>1
    <3>3. h[m + i] = (f[m] \o g[i - 1]) \o G[i]
      BY <2>2, <3>2
    <3>4. (f[m] \o g[i - 1]) \o G[i] = f[m] \o (g[i - 1] \o G[i])
      <4>1. f[m] \in Seq(V) /\ g[i - 1] \in Seq(V) /\ G[i] \in Seq(V)
        BY <1>1, <2>0
      <4> QED
        BY <4>1, <1>a
    <3> QED
      BY <1>5, <3>1, <3>3, <3>4
  <2> HIDE DEF T
  <2>3. \A k \in 0 .. n : k \in T
    BY <1>1, <2>1, <2>2, Upward
  <2> QED
    BY <2>3 DEF T
<1>8. h[m + n] = f[m] \o g[n]
  <2>1. n \in 0 .. n
    BY <1>1
  <2> QED
    BY <1>7, <2>1
<1> QED
  BY <1>2, <1>3, <1>4, <1>8 DEF H

\* One text joined is itself.
LEMMA FlattenOne == ASSUME NEW V, NEW p \in Seq(V) PROVE C!FlattenSeq(<<p>>) = p
<1>1. <<p>> \in Seq(Seq(V)) /\ Len(<<p>>) = 1 /\ <<p>>[1] = p
  OBVIOUS
<1>2. PICK f \in [0 .. 1 -> Seq(V)] : Flattens(<<p>>, f) /\ C!FlattenSeq(<<p>>) = f[1]
  BY <1>1, FlattenIs
<1>3. f[1] = f[1 - 1] \o p /\ f[0] = <<>>
  <2>1. 1 \in 1 .. Len(<<p>>)
    BY <1>1
  <2> QED
    BY <1>1, <1>2, <2>1 DEF Flattens
<1>4. f[1] = <<>> \o p
  <2>1. 1 - 1 = 0
    OBVIOUS
  <2> QED
    BY <1>3, <2>1
<1> QED
  BY <1>2, <1>4, EmptyJoins

\* A further text is joined at the end.
LEMMA FlattenAppend ==
  ASSUME NEW V, NEW Ps \in Seq(Seq(V)), NEW p \in Seq(V)
  PROVE  C!FlattenSeq(Append(Ps, p)) = C!FlattenSeq(Ps) \o p
<1>1. Append(Ps, p) = Ps \o <<p>> /\ <<p>> \in Seq(Seq(V))
  OBVIOUS
<1>2. C!FlattenSeq(<<p>>) = p
  BY FlattenOne
<1> QED
  BY <1>1, <1>2, FlattenJoin

\* What holds of texts that are joined.
LEMMA TextJoins ==
  /\ \A s, t \in Text : s \o t \in Text
  /\ \A s \in Text : s \o <<>> = s /\ <<>> \o s = s
  /\ \A s, t, u \in Text : (s \o t) \o u = s \o (t \o u)
  /\ <<>> \in Text
<1>1. ASSUME NEW s \in Text, NEW t \in Text PROVE s \o t \in Text
  BY DEF Text
<1>2. ASSUME NEW s \in Text PROVE s \o <<>> = s /\ <<>> \o s = s
  BY DEF Text
<1>3. ASSUME NEW s \in Text, NEW t \in Text, NEW u \in Text PROVE (s \o t) \o u = s \o (t \o u)
  BY DEF Text
<1> QED
  BY <1>1, <1>2, <1>3 DEF Text

Word(c) == IF C!IsWord(c) THEN <<c>> ELSE <<>>

\* A character is one word or none.
LEMMA WordIs == ASSUME NEW c \in Int PROVE Word(c) \in Text
BY DEF Word, Text

\* The words of a text, up to each of its places.
WordsTo(t, w) == w[0] = <<>> /\ \A i \in 1 .. Len(t) : w[i] = w[i - 1] \o Word(t[i])

\* The words of a text are counted from its first character to its last.
LEMMA WordsIs ==
  ASSUME NEW t \in Text
  PROVE  \E w \in [0 .. Len(t) -> Text] : WordsTo(t, w) /\ C!Words(t) = w[Len(t)]
<1> DEFINE Ps == [i \in DOMAIN t |-> Word(t[i])]
<1>1. Len(t) \in Nat /\ DOMAIN t = 1 .. Len(t) /\ \A i \in 1 .. Len(t) : t[i] \in Int
  BY DEF Text
<1>2. \A i \in DOMAIN t : Word(t[i]) \in Text
  BY <1>1, WordIs
<1>3. Ps \in Seq(Text) /\ Len(Ps) = Len(t)
  BY <1>1, <1>2
<1>4. C!Words(t) = C!FlattenSeq(Ps)
  BY DEF C!Words, Word
<1> HIDE DEF Ps
<1>5. PICK f \in [0 .. Len(Ps) -> Text] : Flattens(Ps, f) /\ C!FlattenSeq(Ps) = f[Len(Ps)]
  BY <1>3, FlattenIs DEF Text
<1>6. \A i \in 1 .. Len(t) : Ps[i] = Word(t[i])
  BY <1>1 DEF Ps
<1>7. WordsTo(t, f)
  BY <1>3, <1>5, <1>6 DEF WordsTo, Flattens
<1> QED
  BY <1>3, <1>4, <1>5, <1>7

\* The words of a text are a text.
LEMMA WordsTyped == ASSUME NEW t \in Text PROVE C!Words(t) \in Text
<1>1. PICK w \in [0 .. Len(t) -> Text] : WordsTo(t, w) /\ C!Words(t) = w[Len(t)]
  BY WordsIs
<1>2. Len(t) \in 0 .. Len(t)
  BY DEF Text
<1> QED
  BY <1>1, <1>2

\* A text without word characters has no words.
LEMMA WordsNone ==
  ASSUME NEW t \in Text, \A i \in 1 .. Len(t) : ~ C!IsWord(t[i])
  PROVE  C!Words(t) = <<>>
<1>1. PICK w \in [0 .. Len(t) -> Text] : WordsTo(t, w) /\ C!Words(t) = w[Len(t)]
  BY WordsIs
<1>2. Len(t) \in Nat
  BY DEF Text
<1> DEFINE n == Len(t)
           T == {k \in 0 .. n : w[k] = <<>>}
<1> HIDE DEF n
<1>3. 0 \in T
  BY <1>1, <1>2 DEF WordsTo, n
<1>4. ASSUME NEW i \in 1 .. n, i - 1 \in T PROVE i \in T
  <2>1. w[i] = w[i - 1] \o Word(t[i]) /\ Word(t[i]) = <<>> /\ w[i - 1] = <<>>
    BY <1>1, <1>4 DEF WordsTo, n, Word
  <2>2. <<>> \o <<>> = <<>>
    BY TextJoins
  <2> QED
    BY <1>2, <2>1, <2>2
<1> HIDE DEF T
<1>5. \A k \in 0 .. n : k \in T
  BY <1>2, <1>3, <1>4, Upward DEF n
<1>6. w[n] = <<>>
  BY <1>2, <1>5 DEF T, n
<1> QED
  BY <1>1, <1>6 DEF n

\* The words of two texts joined are those of the first, then of the second.
LEMMA WordsJoin == ASSUME NEW s \in Text, NEW t \in Text PROVE C!Words(s \o t) = C!Words(s) \o C!Words(t)
<1> DEFINE W(u) == [i \in DOMAIN u |-> Word(u[i])]
<1>1. ASSUME NEW u \in Text PROVE C!Words(u) = C!FlattenSeq(W(u)) /\ W(u) \in Seq(Text) /\ Len(W(u)) = Len(u)
  <2>1. \A i \in DOMAIN u : Word(u[i]) \in Text
    BY WordIs DEF Text
  <2>2. DOMAIN u = 1 .. Len(u) /\ Len(u) \in Nat
    BY DEF Text
  <2> QED
    BY <2>1, <2>2 DEF C!Words, Word
<1>2. s \o t \in Text
  BY TextJoins
<1>3. W(s \o t) = W(s) \o W(t)
  <2>1. Len(s) \in Nat /\ Len(t) \in Nat /\ Len(s \o t) = Len(s) + Len(t)
    BY DEF Text
  <2>2. \A i \in 1 .. Len(s) + Len(t) : (s \o t)[i] = IF i <= Len(s) THEN s[i] ELSE t[i - Len(s)]
    BY DEF Text
  <2>3. \A i \in 1 .. Len(s) + Len(t) :
          (W(s) \o W(t))[i] = IF i <= Len(s) THEN W(s)[i] ELSE W(t)[i - Len(s)]
    BY <1>1, <2>1
  <2>4. Len(W(s) \o W(t)) = Len(s) + Len(t) /\ W(s) \o W(t) \in Seq(Text) /\ W(s \o t) \in Seq(Text)
         /\ Len(W(s \o t)) = Len(s) + Len(t)
    BY <1>1, <1>2, <2>1
  <2>5. \A i \in 1 .. Len(s) + Len(t) : W(s \o t)[i] = (W(s) \o W(t))[i]
    <3> SUFFICES ASSUME NEW i \in 1 .. Len(s) + Len(t) PROVE W(s \o t)[i] = (W(s) \o W(t))[i]
      OBVIOUS
    <3>0. /\ DOMAIN s = 1 .. Len(s) /\ DOMAIN t = 1 .. Len(t) /\ DOMAIN (s \o t) = 1 .. Len(s) + Len(t)
      BY <1>2, <2>1 DEF Text
    <3>1. W(s \o t)[i] = Word((s \o t)[i])
      BY <3>0
    <3>2. CASE i <= Len(s)
      BY <2>1, <2>2, <2>3, <3>0, <3>1, <3>2
    <3>3. CASE ~ i <= Len(s)
      <4>1. i - Len(s) \in 1 .. Len(t)
        BY <2>1, <3>3
      <4>2. W(t)[i - Len(s)] = Word(t[i - Len(s)])
        BY <3>0, <4>1
      <4> QED
        BY <2>2, <2>3, <3>1, <3>3, <4>2
    <3> QED
      BY <3>2, <3>3
  <2> HIDE DEF W
  <2> QED
    BY <2>1, <2>4, <2>5, SeqEqual
<1>4. C!FlattenSeq(W(s) \o W(t)) = C!FlattenSeq(W(s)) \o C!FlattenSeq(W(t))
  <2> HIDE DEF W
  <2> QED
    BY <1>1, FlattenJoin DEF Text
<1> QED
  BY <1>1, <1>2, <1>3, <1>4

\* The words of texts, one text after the other.
AllWords(ps) == C!Words(C!FlattenSeq(ps))

\* The words of a list of pieces, as the list grows.
LEMMA AllWordsIs ==
  /\ AllWords(<<>>) = <<>>
  /\ \A ps \in Seq(Text) : AllWords(ps) \in Text
  /\ \A ps, qs \in Seq(Text) : AllWords(ps \o qs) = AllWords(ps) \o AllWords(qs)
  /\ \A p \in Text : AllWords(<<p>>) = C!Words(p)
  /\ \A ps \in Seq(Text), p \in Text : AllWords(Append(ps, p)) = AllWords(ps) \o C!Words(p)
<1>1. AllWords(<<>>) = <<>>
  <2>1. <<>> \in Text /\ \A i \in 1 .. Len(<<>>) : ~ C!IsWord(<<>>[i])
    BY DEF Text
  <2> QED
    BY <2>1, WordsNone, FlattenNone DEF AllWords
<1>2. ASSUME NEW ps \in Seq(Text) PROVE C!FlattenSeq(ps) \in Text
  BY FlattenTyped DEF Text
<1>3. ASSUME NEW ps \in Seq(Text), NEW qs \in Seq(Text) PROVE AllWords(ps \o qs) = AllWords(ps) \o AllWords(qs)
  <2>1. C!FlattenSeq(ps \o qs) = C!FlattenSeq(ps) \o C!FlattenSeq(qs)
    BY FlattenJoin DEF Text
  <2> QED
    BY <1>2, <2>1, WordsJoin DEF AllWords
<1>4. ASSUME NEW p \in Text PROVE AllWords(<<p>>) = C!Words(p)
  BY FlattenOne DEF AllWords, Text
<1>5. ASSUME NEW ps \in Seq(Text), NEW p \in Text PROVE AllWords(Append(ps, p)) = AllWords(ps) \o C!Words(p)
  <2>1. C!FlattenSeq(Append(ps, p)) = C!FlattenSeq(ps) \o p
    BY FlattenAppend DEF Text
  <2> QED
    BY <1>2, <2>1, WordsJoin DEF AllWords
<1>6. \A ps \in Seq(Text) : AllWords(ps) \in Text
  BY <1>2, WordsTyped DEF AllWords
<1> QED
  BY <1>1, <1>3, <1>4, <1>5, <1>6

\* The texts of Q have the words that those of P have: each of Q is several
\* texts, with the words of one of P.
LEMMA SameNested ==
  ASSUME NEW P \in Seq(Text), NEW Q \in Seq(Seq(Text)), Len(P) = Len(Q),
         \A i \in 1 .. Len(P) : AllWords(Q[i]) = C!Words(P[i])
  PROVE  AllWords(C!FlattenSeq(Q)) = AllWords(P)
<1> DEFINE n == Len(P)
<1>1. PICK f \in [0 .. n -> Text] : Flattens(P, f) /\ C!FlattenSeq(P) = f[n]
  BY FlattenIs DEF Text
<1>2. PICK g \in [0 .. n -> Seq(Text)] : Flattens(Q, g) /\ C!FlattenSeq(Q) = g[n]
  <2>1. \E g \in [0 .. Len(Q) -> Seq(Text)] : Flattens(Q, g) /\ C!FlattenSeq(Q) = g[Len(Q)]
    BY FlattenIs
  <2> QED
    BY <2>1
<1>3. n \in Nat /\ \A i \in 1 .. n : P[i] \in Text /\ Q[i] \in Seq(Text)
  OBVIOUS
<1>4. /\ f[0] = <<>> /\ \A i \in 1 .. n : f[i] = f[i - 1] \o P[i]
      /\ g[0] = <<>> /\ \A i \in 1 .. n : g[i] = g[i - 1] \o Q[i]
  BY <1>1, <1>2 DEF Flattens
<1>5. \A i \in 1 .. n : AllWords(Q[i]) = C!Words(P[i])
  OBVIOUS
<1> DEFINE T == {k \in 0 .. n : AllWords(g[k]) = C!Words(f[k])}
<1> HIDE DEF n
<1>6. 0 \in T
  <2>1. C!Words(<<>>) = <<>>
    BY AllWordsIs, FlattenNone DEF AllWords
  <2> QED
    BY <1>3, <1>4, <2>1, AllWordsIs
<1>7. ASSUME NEW i \in 1 .. n, i - 1 \in T PROVE i \in T
  <2>1. i \in 0 .. n /\ i - 1 \in 0 .. n
    BY <1>3
  <2>2. f[i - 1] \in Text /\ g[i - 1] \in Seq(Text)
    BY <2>1
  <2>3. AllWords(g[i]) = AllWords(g[i - 1]) \o AllWords(Q[i])
    BY <1>3, <1>4, <2>2, AllWordsIs
  <2>4. C!Words(f[i]) = C!Words(f[i - 1]) \o C!Words(P[i])
    BY <1>3, <1>4, <2>2, WordsJoin
  <2>5. AllWords(g[i - 1]) = C!Words(f[i - 1])
    BY <1>7
  <2> QED
    BY <1>5, <2>1, <2>3, <2>4, <2>5
<1> HIDE DEF T
<1>8. \A k \in 0 .. n : k \in T
  BY <1>3, <1>6, <1>7, Upward
<1>9. AllWords(g[n]) = C!Words(f[n])
  BY <1>3, <1>8 DEF T
<1> QED
  BY <1>1, <1>2, <1>9 DEF AllWords

\* Lists whose pieces have the same words, one by one, have the same words.
LEMMA SameWords ==
  ASSUME NEW P \in Seq(Text), NEW Q \in Seq(Text), Len(P) = Len(Q),
         \A i \in 1 .. Len(P) : C!Words(Q[i]) = C!Words(P[i])
  PROVE  AllWords(Q) = AllWords(P)
<1> DEFINE n == Len(P)
<1>1. PICK f \in [0 .. n -> Text] : Flattens(P, f) /\ C!FlattenSeq(P) = f[n]
  BY FlattenIs DEF Text
<1>2. PICK g \in [0 .. n -> Text] : Flattens(Q, g) /\ C!FlattenSeq(Q) = g[n]
  <2>1. \E g \in [0 .. Len(Q) -> Text] : Flattens(Q, g) /\ C!FlattenSeq(Q) = g[Len(Q)]
    BY FlattenIs DEF Text
  <2> QED
    BY <2>1
<1>3. n \in Nat /\ \A i \in 1 .. n : P[i] \in Text /\ Q[i] \in Text
  OBVIOUS
<1>4. /\ f[0] = <<>> /\ \A i \in 1 .. n : f[i] = f[i - 1] \o P[i]
      /\ g[0] = <<>> /\ \A i \in 1 .. n : g[i] = g[i - 1] \o Q[i]
  BY <1>1, <1>2 DEF Flattens
<1>5. \A i \in 1 .. n : C!Words(Q[i]) = C!Words(P[i])
  OBVIOUS
<1> DEFINE T == {k \in 0 .. n : C!Words(g[k]) = C!Words(f[k])}
<1> HIDE DEF n
<1>6. 0 \in T
  BY <1>3, <1>4
<1>7. ASSUME NEW i \in 1 .. n, i - 1 \in T PROVE i \in T
  <2>1. i \in 0 .. n /\ i - 1 \in 0 .. n
    BY <1>3
  <2>2. f[i - 1] \in Text /\ g[i - 1] \in Text
    BY <2>1
  <2>3. C!Words(g[i]) = C!Words(g[i - 1]) \o C!Words(Q[i])
    BY <1>3, <1>4, <2>2, WordsJoin
  <2>4. C!Words(f[i]) = C!Words(f[i - 1]) \o C!Words(P[i])
    BY <1>3, <1>4, <2>2, WordsJoin
  <2>5. C!Words(g[i - 1]) = C!Words(f[i - 1])
    BY <1>7
  <2> QED
    BY <1>5, <2>1, <2>3, <2>4, <2>5
<1> HIDE DEF T
<1>8. \A k \in 0 .. n : k \in T
  BY <1>3, <1>6, <1>7, Upward
<1>9. C!Words(g[n]) = C!Words(f[n])
  BY <1>3, <1>8 DEF T
<1> QED
  BY <1>1, <1>2, <1>9 DEF AllWords

Separators == {<<C!Newline, C!Newline>>, <<C!Newline>>, C!Sentence, <<C!Space>>}

\* A separator is a text without words that is not empty.
LEMMA SeparatorsAre ==
  ASSUME NEW sep \in Separators
  PROVE  sep \in Text /\ Len(sep) \in Nat \ {0} /\ C!Words(sep) = <<>>
<1>1. sep \in Text /\ Len(sep) \in Nat \ {0}
  <2>1. \A c, d \in Int : <<c>> \in Seq(Int) /\ Len(<<c>>) = 1 /\ <<c, d>> \in Seq(Int) /\ Len(<<c, d>>) = 2
    OBVIOUS
  <2>2. C!Newline \in Int /\ C!Space \in Int /\ C!Stop \in Int
    BY DEF C!Newline, C!Space, C!Stop
  <2>3. \/ sep = <<C!Newline>> \/ sep = <<C!Space>>
        \/ sep = <<C!Newline, C!Newline>> \/ sep = <<C!Stop, C!Space>>
    BY Zenon DEF Separators, C!Sentence
  <2>4. \E c, d \in Int : sep = <<c>> \/ sep = <<c, d>>
    BY <2>2, <2>3, Zenon
  <2>5. sep \in Seq(Int) /\ (Len(sep) = 1 \/ Len(sep) = 2)
    BY <2>1, <2>4, Zenon
  <2> QED
    BY <2>5 DEF Text
<1>2. \A i \in 1 .. Len(sep) : ~ C!IsWord(sep[i])
  BY DEF Separators, C!Newline, C!Space, C!Sentence, C!Stop, C!IsWord
<1> QED
  BY <1>1, <1>2, WordsNone

\* Max of two is the greater one.
LEMMA TheGreater == ASSUME NEW i \in Int, NEW j \in Int PROVE C!Max({i, j}) = IF i >= j THEN i ELSE j
<1> DEFINE G(x) == x \in {i, j} /\ \A y \in {i, j} : x >= y
<1>1. C!Max({i, j}) = CHOOSE x : G(x)
  BY DEF C!Max
<1>2. G(IF i >= j THEN i ELSE j)
  OBVIOUS
<1>3. G(CHOOSE x : G(x))
  <2> HIDE DEF G
  <2> QED
    BY <1>2, Zenon
<1>4. G(C!Max({i, j}))
  BY <1>1, <1>3
<1> QED
  BY <1>4

\* The last n characters of a text, when it has as many.
LEMMA LastIs ==
  ASSUME NEW A \in SUBSET Int, NEW t \in Seq(A), NEW n \in Nat
  PROVE  /\ C!LastOf(t, n) \in Seq(A)
         /\ n # 0 /\ Len(C!LastOf(t, n)) = n => n <= Len(t) /\ C!LastOf(t, n) = SubSeq(t, Len(t) - n + 1, Len(t))
<1> DEFINE m == Len(t) - n + 1
           a == C!Max({1, m})
<1>1. Len(t) \in Nat /\ m \in Int
  OBVIOUS
<1>2. a = IF 1 >= m THEN 1 ELSE m
  <2> HIDE DEF m
  <2> QED
    BY <1>1, TheGreater
<1>3. C!LastOf(t, n) = SubSeq(t, a, Len(t))
  BY DEF C!LastOf
<1> HIDE DEF a
<1>4. a \in 1 .. Len(t) + 1 \/ a \in Nat \ {0}
  BY <1>1, <1>2
<1>5. SubSeq(t, a, Len(t)) \in Seq(A) /\ Len(SubSeq(t, a, Len(t))) = IF a <= Len(t) THEN Len(t) - a + 1 ELSE 0
  BY <1>1, <1>4
<1>6. ASSUME n # 0, Len(SubSeq(t, a, Len(t))) = n PROVE n <= Len(t) /\ a = Len(t) - n + 1
  <2>1. a <= Len(t) /\ Len(t) - a + 1 = n
    BY <1>5, <1>6
  <2> QED
    BY <1>1, <1>2, <1>4, <2>1
<1> QED
  BY <1>3, <1>5, <1>6

\* A text cut anywhere is its two parts, joined.
LEMMA Parted ==
  ASSUME NEW V, NEW t \in Seq(V), NEW k \in 0 .. Len(t)
  PROVE  /\ SubSeq(t, 1, k) \in Seq(V) /\ SubSeq(t, k + 1, Len(t)) \in Seq(V)
         /\ Len(SubSeq(t, 1, k)) = k /\ Len(SubSeq(t, k + 1, Len(t))) = Len(t) - k
         /\ SubSeq(t, 1, k) \o SubSeq(t, k + 1, Len(t)) = t
<1> DEFINE a == SubSeq(t, 1, k)
           b == SubSeq(t, k + 1, Len(t))
<1>1. /\ a \in Seq(V) /\ b \in Seq(V) /\ Len(a) = k /\ Len(b) = Len(t) - k
      /\ \A i \in 1 .. k : a[i] = t[i]
      /\ \A i \in 1 .. Len(t) - k : b[i] = t[k + i]
  OBVIOUS
<1>0. Len(t) \in Nat /\ k \in Nat
  OBVIOUS
<1> HIDE DEF a, b
<1>2. a \o b \in Seq(V) /\ Len(a \o b) = Len(t)
  BY <1>0, <1>1
<1>3. \A i \in 1 .. Len(t) : (a \o b)[i] = t[i]
  <2> SUFFICES ASSUME NEW i \in 1 .. Len(t) PROVE (a \o b)[i] = t[i]
    OBVIOUS
  <2>1. (a \o b)[i] = IF i <= k THEN a[i] ELSE b[i - k]
    BY <1>0, <1>1
  <2>2. CASE i <= k
    BY <1>1, <2>1, <2>2
  <2>3. CASE ~ i <= k
    <3>1. i - k \in 1 .. Len(t) - k /\ k + (i - k) = i
      BY <1>0, <2>3
    <3> QED
      BY <1>1, <2>1, <2>3, <3>1
  <2> QED
    BY <2>2, <2>3
<1>4. a \o b = t
  BY <1>2, <1>3, SeqEqual
<1> QED
  BY <1>1, <1>4 DEF a, b

Scanned(A) == [done : Seq(Seq(A)), open : Seq(A)]

\* A character ends a piece, which then lacks the separator, or it is added.
LEMMA TakenIs ==
  ASSUME NEW A \in SUBSET Int, NEW a \in Scanned(A), NEW c \in A, NEW sep \in Separators
  PROVE  \/ \E p \in Seq(A) : /\ p \o sep = Append(a.open, c)
                              /\ C!Taken(a, c, sep) = [done |-> Append(a.done, p), open |-> <<>>]
         \/ /\ C!Taken(a, c, sep) = [done |-> a.done, open |-> Append(a.open, c)]
            /\ C!LastOf(Append(a.open, c), Len(sep)) # sep
<1> DEFINE open == Append(a.open, c)
           n == Len(sep)
<1>1. open \in Seq(A) /\ a.done \in Seq(Seq(A))
  BY DEF Scanned
<1>2. n \in Nat /\ n # 0
  BY SeparatorsAre
<1>3. CASE C!LastOf(open, n) = sep
  <2>1. n <= Len(open) /\ sep = SubSeq(open, Len(open) - n + 1, Len(open))
    <3> HIDE DEF open
    <3> QED
      BY <1>1, <1>2, <1>3, LastIs
  <2>2. Len(open) - n \in 0 .. Len(open)
    BY <1>1, <1>2, <2>1
  <2>3. /\ SubSeq(open, 1, Len(open) - n) \in Seq(A)
        /\ SubSeq(open, 1, Len(open) - n) \o SubSeq(open, (Len(open) - n) + 1, Len(open)) = open
    <3> HIDE DEF open, n
    <3> QED
      BY <1>1, <2>2, Parted
  <2> QED
    BY <1>3, <2>1, <2>3 DEF C!Taken
<1>4. CASE C!LastOf(open, n) # sep
  BY <1>4 DEF C!Taken
<1> QED
  BY <1>3, <1>4

\* A text over some characters is a text.
LEMMA TextIn == ASSUME NEW A \in SUBSET Int PROVE /\ \A t \in Seq(A) : t \in Text
                                                  /\ \A ps \in Seq(Seq(A)) : ps \in Seq(Text)
<1>1. ASSUME NEW V, NEW W, V \subseteq W, NEW s \in Seq(V) PROVE s \in Seq(W)
  <2>1. Len(s) \in Nat /\ s \in [1 .. Len(s) -> V]
    OBVIOUS
  <2>2. s \in [1 .. Len(s) -> W]
    BY <1>1, <2>1
  <2> QED
    BY <2>1, <2>2, SeqDef
<1>2. Seq(A) \subseteq Seq(Int)
  BY <1>1
<1>3. \A ps \in Seq(Seq(A)) : ps \in Seq(Seq(Int))
  BY <1>1, <1>2
<1> QED
  BY <1>2, <1>3 DEF Text

\* The words of a text of one character.
LEMMA OneWord == ASSUME NEW c \in Int PROVE <<c>> \in Text /\ C!Words(<<c>>) = Word(c)
<1>1. <<c>> \in Text /\ Len(<<c>>) = 1 /\ <<c>>[1] = c
  BY DEF Text
<1>2. PICK v \in [0 .. 1 -> Text] : WordsTo(<<c>>, v) /\ C!Words(<<c>>) = v[1]
  BY <1>1, WordsIs
<1>3. v[1] = v[1 - 1] \o Word(<<c>>[1]) /\ v[0] = <<>>
  <2>1. 1 \in 1 .. Len(<<c>>)
    BY <1>1
  <2> QED
    BY <1>2, <2>1 DEF WordsTo
<1>4. v[1] = <<>> \o Word(c)
  <2>1. 1 - 1 = 0
    OBVIOUS
  <2> QED
    BY <1>1, <1>3, <2>1
<1> QED
  BY <1>1, <1>2, <1>4, WordIs, TextJoins

\* The words of a text with a further character.
LEMMA WordsAppend ==
  ASSUME NEW t \in Text, NEW c \in Int
  PROVE  Append(t, c) \in Text /\ C!Words(Append(t, c)) = C!Words(t) \o Word(c)
<1>1. Append(t, c) = t \o <<c>> /\ Append(t, c) \in Text
  BY DEF Text
<1> QED
  BY <1>1, OneWord, WordsJoin

\* Pieces and their characters stay of their alphabet as one is taken.
LEMMA TakenTyped ==
  ASSUME NEW A \in SUBSET Int, NEW a \in Scanned(A), NEW c \in A, NEW sep \in Separators
  PROVE  C!Taken(a, c, sep) \in Scanned(A)
<1>1. a.done \in Seq(Seq(A)) /\ Append(a.open, c) \in Seq(A)
  BY DEF Scanned
<1>2. ASSUME NEW p \in Seq(A) PROVE [done |-> Append(a.done, p), open |-> <<>>] \in Scanned(A)
  <2>1. Append(a.done, p) \in Seq(Seq(A)) /\ <<>> \in Seq(A)
    BY <1>1
  <2> QED
    BY <2>1 DEF Scanned
<1>3. [done |-> a.done, open |-> Append(a.open, c)] \in Scanned(A)
  BY <1>1 DEF Scanned
<1>4. \/ \E p \in Seq(A) : C!Taken(a, c, sep) = [done |-> Append(a.done, p), open |-> <<>>]
      \/ C!Taken(a, c, sep) = [done |-> a.done, open |-> Append(a.open, c)]
  BY TakenIs
<1> QED
  BY <1>2, <1>3, <1>4, Zenon

\* A character that is taken adds its word, if it is one, at the end.
LEMMA TakenKeeps ==
  ASSUME NEW A \in SUBSET Int, NEW a \in Scanned(A), NEW c \in A, NEW sep \in Separators
  PROVE  AllWords(C!Taken(a, c, sep).done) \o C!Words(C!Taken(a, c, sep).open)
           = (AllWords(a.done) \o C!Words(a.open)) \o Word(c)
<1> DEFINE Done == AllWords(a.done)
           Open == C!Words(a.open)
           b == C!Taken(a, c, sep)
<1>1. /\ a.done \in Seq(Text) /\ a.open \in Text /\ Done \in Text /\ Open \in Text
      /\ c \in Int /\ Word(c) \in Text
  <2>1. a.done \in Seq(Text) /\ a.open \in Text
    BY TextIn DEF Scanned
  <2>2. c \in Int
    OBVIOUS
  <2> QED
    BY <2>1, <2>2, AllWordsIs, WordsTyped, WordIs
<1>2. C!Words(Append(a.open, c)) = Open \o Word(c)
  BY <1>1, WordsAppend
<1> DEFINE open == Append(a.open, c)
<1>3. \/ \E p \in Seq(A) : p \o sep = open /\ b = [done |-> Append(a.done, p), open |-> <<>>]
      \/ b = [done |-> a.done, open |-> open]
  BY TakenIs
<1>4. C!Words(open) = Open \o Word(c)
  BY <1>2
<1> HIDE DEF Done, Open, b, open
<1>5. (Done \o Open) \o Word(c) = Done \o (Open \o Word(c))
  BY <1>1, TextJoins
<1>6. ASSUME NEW p \in Seq(A), p \o sep = open, b = [done |-> Append(a.done, p), open |-> <<>>]
      PROVE  AllWords(b.done) \o C!Words(b.open) = Done \o C!Words(open)
  <2>1. p \in Text /\ C!Words(p) \in Text
    BY TextIn, WordsTyped
  <2>2. C!Words(p \o sep) = C!Words(p) \o C!Words(sep) /\ C!Words(sep) = <<>>
    BY <2>1, WordsJoin, SeparatorsAre
  <2>3. C!Words(open) = C!Words(p)
    BY <1>6, <2>1, <2>2, TextJoins
  <2>4. AllWords(Append(a.done, p)) = Done \o C!Words(p)
    BY <1>1, <2>1, AllWordsIs DEF Done
  <2>5. C!Words(<<>>) = <<>>
    BY AllWordsIs, FlattenNone DEF AllWords
  <2>6. (Done \o C!Words(p)) \o <<>> = Done \o C!Words(p)
    BY <1>1, <2>1, TextJoins
  <2> QED
    BY <1>6, <2>3, <2>4, <2>5, <2>6
<1>7. ASSUME b = [done |-> a.done, open |-> open] PROVE AllWords(b.done) \o C!Words(b.open) = Done \o C!Words(open)
  <2>1. b.done = a.done /\ b.open = open
    BY <1>7
  <2> QED
    BY <2>1 DEF Done
<1>8. AllWords(b.done) \o C!Words(b.open) = Done \o C!Words(open)
  BY <1>3, <1>6, <1>7, Zenon
<1> QED
  BY <1>4, <1>5, <1>8 DEF Done, Open, b

Splits(t, sep, f) ==
  /\ f[0] = [done |-> <<>>, open |-> <<>>]
  /\ \A i \in 1 .. Len(t) : f[i] = C!Taken(f[i - 1], t[i], sep)

\* split() is the function that takes one character after another.
LEMMA SplitBy ==
  ASSUME NEW A \in SUBSET Int, NEW t \in Seq(A), NEW sep \in Separators
  PROVE  \E f \in [0 .. Len(t) -> Scanned(A)] : Splits(t, sep, f) /\ C!Split(t, sep) = Append(f[Len(t)].done, f[Len(t)].open)
<1> DEFINE n == Len(t)
           Vals == Scanned(A)
           Then(i, a) == C!Taken(a, t[i], sep)
           Is(g) == g = [i \in 0 .. n |-> IF i = 0 THEN [done |-> <<>>, open |-> <<>>] ELSE Then(i, g[i - 1])]
           acc == CHOOSE g : Is(g)
           turn == [i \in 1 .. n |-> [a \in Vals |-> Then(i, a)]]
<1>1. n \in Nat /\ [done |-> <<>>, open |-> <<>>] \in Vals
  BY DEF Scanned
<1>2. ASSUME NEW i \in 1 .. n, NEW a \in Vals PROVE Then(i, a) \in Vals
  <2>1. t[i] \in A /\ a \in Scanned(A)
    OBVIOUS
  <2>2. C!Taken(a, t[i], sep) \in Scanned(A)
    BY <2>1, TakenTyped
  <2> QED
    BY <2>2
<1>3. C!Split(t, sep) = Append(acc[n].done, acc[n].open)
  BY Zenon DEF C!Split
<1> HIDE DEF n, Then, Vals
<1>4. Recursed(Vals, [done |-> <<>>, open |-> <<>>], n, turn)
  <2>1. turn \in [1 .. n -> [Vals -> Vals]]
    BY <1>2
  <2> HIDE DEF turn
  <2> QED
    BY <1>1, <2>1, Recursion
<1>5. PICK g \in [0 .. n -> Vals] : g[0] = [done |-> <<>>, open |-> <<>>] /\ \A i \in 1 .. n : g[i] = turn[i][g[i - 1]]
  BY <1>4 DEF Recursed
<1>6. Is(g)
  <2>1. \A i \in 1 .. n : g[i] = Then(i, g[i - 1])
    <3> SUFFICES ASSUME NEW i \in 1 .. n PROVE g[i] = Then(i, g[i - 1])
      OBVIOUS
    <3>1. g[i - 1] \in Vals
      BY <1>1
    <3> QED
      BY <1>5, <3>1
  <2> HIDE DEF turn
  <2>2. \A i \in 0 .. n : i = 0 \/ i \in 1 .. n
    BY <1>1
  <2>3. \A i \in 0 .. n : g[i] = IF i = 0 THEN [done |-> <<>>, open |-> <<>>] ELSE Then(i, g[i - 1])
    BY <1>5, <2>1, <2>2
  <2> QED
    BY <2>3
<1>7. Is(acc)
  <2> HIDE DEF Is
  <2> QED
    BY <1>6, Zenon
<1>8. acc = [i \in 0 .. n |-> acc[i]] /\ acc[0] = [done |-> <<>>, open |-> <<>>] /\ \A i \in 1 .. n : acc[i] = Then(i, acc[i - 1])
  <2> HIDE DEF acc
  <2> QED
    BY <1>1, <1>7
<1> HIDE DEF acc, Is
<1>9. acc \in [0 .. n -> Vals]
  <2> DEFINE Good == {i \in 0 .. n : acc[i] \in Vals}
  <2>1. 0 \in Good
    BY <1>1, <1>8
  <2>2. ASSUME NEW i \in 1 .. n, i - 1 \in Good PROVE i \in Good
    <3>1. acc[i - 1] \in Vals /\ i \in 0 .. n
      BY <1>1, <2>2
    <3>2. acc[i] \in Vals
      BY <1>2, <1>8, <3>1
    <3> QED
      BY <3>1, <3>2
  <2> HIDE DEF Good
  <2>3. \A i \in 0 .. n : i \in Good
    BY <1>1, <2>1, <2>2, Upward
  <2>4. \A i \in 0 .. n : acc[i] \in Vals
    BY <2>3 DEF Good
  <2> QED
    BY <1>8, <2>4
<1>10. Splits(t, sep, acc)
  BY <1>8 DEF Splits, Then, n
<1> QED
  BY <1>3, <1>9, <1>10 DEF n, Vals


\* A text is split at separators, which have no words.
LEMMA SplitIs ==
  ASSUME NEW A \in SUBSET Int, NEW t \in Seq(A), NEW sep \in Separators
  PROVE  /\ C!Split(t, sep) \in Seq(Seq(A)) /\ Len(C!Split(t, sep)) \in Nat \ {0}
         /\ AllWords(C!Split(t, sep)) = C!Words(t)
<1> DEFINE n == Len(t)
<1>1. n \in Nat /\ t \in Text /\ \A i \in 1 .. n : t[i] \in A
  BY TextIn
<1>2. PICK f \in [0 .. n -> Scanned(A)] : Splits(t, sep, f) /\ C!Split(t, sep) = Append(f[n].done, f[n].open)
  BY SplitBy
<1>3. PICK w \in [0 .. n -> Text] : WordsTo(t, w) /\ C!Words(t) = w[n]
  BY <1>1, WordsIs
<1>4. /\ f[0] = [done |-> <<>>, open |-> <<>>] /\ \A i \in 1 .. n : f[i] = C!Taken(f[i - 1], t[i], sep)
      /\ w[0] = <<>> /\ \A i \in 1 .. n : w[i] = w[i - 1] \o Word(t[i])
  BY <1>2, <1>3 DEF Splits, WordsTo
<1>5. ASSUME NEW k \in 0 .. n
      PROVE  /\ f[k].done \in Seq(Seq(A)) /\ f[k].open \in Seq(A)
             /\ f[k].done \in Seq(Text) /\ f[k].open \in Text
  <2>1. f[k] \in Scanned(A)
    OBVIOUS
  <2>2. f[k].done \in Seq(Seq(A)) /\ f[k].open \in Seq(A)
    BY <2>1 DEF Scanned
  <2> QED
    BY <2>2, TextIn
<1> HIDE DEF n
<1> DEFINE Sofar(k) == AllWords(f[k].done) \o C!Words(f[k].open)
           T == {k \in 0 .. n : Sofar(k) = w[k]}
<1>6. 0 \in T
  <2>1. C!Words(<<>>) = <<>> /\ AllWords(<<>>) = <<>>
    BY AllWordsIs, FlattenNone DEF AllWords
  <2>2. <<>> \o <<>> = <<>>
    BY TextJoins
  <2>3. f[0].done = <<>> /\ f[0].open = <<>>
    BY <1>4
  <2>4. Sofar(0) = w[0]
    BY <1>4, <2>1, <2>2, <2>3
  <2>5. 0 \in 0 .. n
    BY <1>1
  <2> QED
    BY <2>4, <2>5
<1>7. ASSUME NEW i \in 1 .. n, i - 1 \in T PROVE i \in T
  <2>1. i \in 0 .. n /\ i - 1 \in 0 .. n /\ f[i - 1] \in Scanned(A) /\ t[i] \in A
    BY <1>1
  <2>2. Sofar(i) = Sofar(i - 1) \o Word(t[i])
    BY <1>4, <2>1, TakenKeeps
  <2>3. Sofar(i - 1) = w[i - 1]
    BY <1>7
  <2> HIDE DEF Sofar
  <2>4. Sofar(i) = w[i]
    BY <1>4, <2>2, <2>3
  <2> QED
    BY <2>1, <2>4
<1> HIDE DEF T
<1>8. \A k \in 0 .. n : k \in T
  BY <1>1, <1>6, <1>7, Upward
<1>9. n \in 0 .. n /\ AllWords(f[n].done) \o C!Words(f[n].open) = w[n]
  BY <1>1, <1>8 DEF T
<1>10. f[n].done \in Seq(Seq(A)) /\ f[n].open \in Seq(A) /\ f[n].done \in Seq(Text) /\ f[n].open \in Text
  BY <1>5, <1>9
<1>11. AllWords(Append(f[n].done, f[n].open)) = AllWords(f[n].done) \o C!Words(f[n].open)
  BY <1>10, AllWordsIs
<1> QED
  BY <1>2, <1>3, <1>9, <1>10, <1>11

\* What the characters of texts are taken from.
Alphabet(A) == A \subseteq Int /\ {C!Space, C!Newline, C!Stop} \subseteq A

\* A separator, or none.
Separates(sep) == sep \in Separators \cup {<<>>}

\* A separator is of the alphabet, and without words.
LEMMA SeparatorIn ==
  ASSUME NEW A, Alphabet(A), NEW sep, Separates(sep)
  PROVE  sep \in Seq(A) /\ Len(sep) \in Nat /\ C!Words(sep) = <<>>
<1>1. C!Space \in A /\ C!Newline \in A /\ C!Stop \in A
  BY DEF Alphabet
<1>2. \A c, d \in A : <<c>> \in Seq(A) /\ <<c, d>> \in Seq(A)
  OBVIOUS
<1>3. CASE sep \in Separators
  <2>1. \/ sep = <<C!Newline>> \/ sep = <<C!Space>>
        \/ sep = <<C!Newline, C!Newline>> \/ sep = <<C!Stop, C!Space>>
    BY <1>3, Zenon DEF Separators, C!Sentence
  <2>2. sep \in Seq(A)
    BY <1>1, <1>2, <2>1, Zenon
  <2> QED
    BY <1>3, <2>2, SeparatorsAre
<1>4. CASE sep = <<>>
  BY <1>4, AllWordsIs, FlattenNone DEF AllWords
<1> QED
  BY <1>3, <1>4 DEF Separates

\* Pieces are joined by a separator.
LEMMA JoinIs ==
  ASSUME NEW A, Alphabet(A), NEW ps \in Seq(Seq(A)), NEW sep, Separates(sep)
  PROVE  C!Join(ps, sep) \in Seq(A) /\ C!Words(C!Join(ps, sep)) = AllWords(ps)
<1> DEFINE Ps == [i \in DOMAIN ps |-> IF i = 1 THEN ps[1] ELSE sep \o ps[i]]
<1>0. A \in SUBSET Int
  BY DEF Alphabet
<1>1. /\ Len(ps) \in Nat /\ DOMAIN ps = 1 .. Len(ps)
      /\ \A i \in 1 .. Len(ps) : ps[i] \in Seq(A)
      /\ sep \in Seq(A)
  BY SeparatorIn
<1>2. \A i \in DOMAIN ps : (IF i = 1 THEN ps[1] ELSE sep \o ps[i]) \in Seq(A)
  BY <1>1
<1>3. Ps \in Seq(Seq(A)) /\ Len(Ps) = Len(ps)
  BY <1>1, <1>2
<1>4. Ps \in Seq(Text) /\ ps \in Seq(Text) /\ sep \in Text
  <2> HIDE DEF Ps
  <2> QED
    BY <1>0, <1>1, <1>3, TextIn
<1>5. ASSUME NEW i \in 1 .. Len(ps) PROVE C!Words(Ps[i]) = C!Words(ps[i])
  <2>1. ps[i] \in Text /\ C!Words(ps[i]) \in Text
    BY <1>4, WordsTyped
  <2>2. C!Words(sep \o ps[i]) = C!Words(ps[i])
    <3>1. C!Words(sep \o ps[i]) = C!Words(sep) \o C!Words(ps[i])
      BY <1>4, <2>1, WordsJoin
    <3>2. C!Words(sep) = <<>>
      BY SeparatorIn
    <3> QED
      BY <2>1, <3>1, <3>2, TextJoins
  <2>3. Ps[i] = ps[i] \/ Ps[i] = sep \o ps[i]
    BY <1>1
  <2> QED
    BY <2>2, <2>3
<1>6. C!Join(ps, sep) = C!FlattenSeq(Ps)
  BY DEF C!Join
<1> HIDE DEF Ps
<1>7. AllWords(Ps) = AllWords(ps)
  BY <1>3, <1>4, <1>5, SameWords
<1> QED
  BY <1>3, <1>6, <1>7, FlattenTyped DEF AllWords

\* A text is its characters, put one after the other.
LEMMA Lettered ==
  ASSUME NEW A, Alphabet(A), NEW t \in Seq(A)
  PROVE  /\ [i \in DOMAIN t |-> <<t[i]>>] \in Seq(Seq(A))
         /\ AllWords([i \in DOMAIN t |-> <<t[i]>>]) = C!Words(t)
<1> DEFINE Ps == [i \in DOMAIN t |-> <<t[i]>>]
           n == Len(t)
<1>0. A \in SUBSET Int
  BY DEF Alphabet
<1>1. n \in Nat /\ DOMAIN t = 1 .. n /\ t \in Text /\ \A i \in 1 .. n : t[i] \in A /\ <<t[i]>> \in Seq(A)
  BY <1>0, TextIn
<1>2. Ps \in Seq(Seq(A)) /\ Len(Ps) = n /\ \A i \in 1 .. n : Ps[i] = <<t[i]>>
  BY <1>1
<1> HIDE DEF Ps, n
<1>3. Ps \in Seq(Text)
  BY <1>0, <1>2, TextIn
<1>4. PICK f \in [0 .. n -> Text] : Flattens(Ps, f) /\ C!FlattenSeq(Ps) = f[n]
  <2>1. \E f \in [0 .. Len(Ps) -> Text] : Flattens(Ps, f) /\ C!FlattenSeq(Ps) = f[Len(Ps)]
    BY <1>3, FlattenIs DEF Text
  <2> QED
    BY <1>2, <2>1
<1>5. PICK w \in [0 .. n -> Text] : WordsTo(t, w) /\ C!Words(t) = w[n]
  BY <1>1, WordsIs DEF n
<1>6. /\ f[0] = <<>> /\ \A i \in 1 .. n : f[i] = f[i - 1] \o Ps[i]
      /\ w[0] = <<>> /\ \A i \in 1 .. n : w[i] = w[i - 1] \o Word(t[i])
  BY <1>2, <1>4, <1>5 DEF Flattens, WordsTo, n
<1> DEFINE T == {k \in 0 .. n : C!Words(f[k]) = w[k]}
<1>7. 0 \in T
  BY <1>1, <1>6, AllWordsIs, FlattenNone DEF AllWords
<1>8. ASSUME NEW i \in 1 .. n, i - 1 \in T PROVE i \in T
  <2>0. i \in 0 .. n /\ i - 1 \in 0 .. n
    BY <1>1
  <2>a. f[i - 1] \in Text
    BY <2>0
  <2>b. t[i] \in Int /\ Ps[i] = <<t[i]>>
    BY <1>1, <1>2
  <2>1. i \in 0 .. n /\ f[i - 1] \in Text /\ t[i] \in Int /\ Ps[i] = <<t[i]>>
    BY <2>0, <2>a, <2>b
  <2>2. C!Words(f[i]) = C!Words(f[i - 1]) \o Word(t[i])
    <3>1. f[i] = f[i - 1] \o <<t[i]>> /\ <<t[i]>> \in Text /\ C!Words(<<t[i]>>) = Word(t[i])
      BY <1>6, <2>1, OneWord
    <3> QED
      BY <2>1, <3>1, WordsJoin
  <2>3. C!Words(f[i - 1]) = w[i - 1]
    BY <1>8
  <2> QED
    BY <1>6, <2>1, <2>2, <2>3
<1> HIDE DEF T
<1>9. \A k \in 0 .. n : k \in T
  BY <1>1, <1>7, <1>8, Upward
<1>10. C!Words(f[n]) = w[n]
  BY <1>1, <1>9 DEF T
<1> QED
  BY <1>2, <1>4, <1>5, <1>10 DEF AllWords, Ps

\* Split at a separator, even the empty one, a text has its words in its parts.
LEMMA PartsIs ==
  ASSUME NEW A, Alphabet(A), NEW t \in Seq(A), NEW sep, Separates(sep)
  PROVE  C!Parts(t, sep) \in Seq(Seq(A)) /\ AllWords(C!Parts(t, sep)) = C!Words(t)
<1>0. A \in SUBSET Int
  BY DEF Alphabet
<1>1. CASE sep = <<>>
  BY <1>1, Lettered DEF C!Parts
<1>2. CASE sep # <<>>
  <2> DEFINE p == C!Split(t, sep)
             Ps == [i \in DOMAIN p |-> IF i < Len(p) THEN p[i] \o sep ELSE p[i]]
  <2>1. p \in Seq(Seq(A)) /\ AllWords(p) = C!Words(t)
    BY <1>0, <1>2, SplitIs DEF Separates
  <2>2. C!Parts(t, sep) = Ps \/ C!Parts(t, sep) = p
    BY <1>2, Zenon DEF C!Parts
  <2> HIDE DEF p
  <2>3. Len(p) \in Nat /\ DOMAIN p = 1 .. Len(p) /\ sep \in Seq(A) /\ \A i \in 1 .. Len(p) : p[i] \in Seq(A)
    BY <2>1, SeparatorIn
  <2>4. \A i \in DOMAIN p : (IF i < Len(p) THEN p[i] \o sep ELSE p[i]) \in Seq(A)
    BY <2>3
  <2>5. Ps \in Seq(Seq(A)) /\ Len(Ps) = Len(p)
    BY <2>3, <2>4
  <2>6. \A i \in 1 .. Len(p) : Ps[i] = p[i] \o sep \/ Ps[i] = p[i]
    BY <2>3
  <2> HIDE DEF Ps
  <2>7. Ps \in Seq(Text) /\ p \in Seq(Text) /\ sep \in Text
    BY <1>0, <2>1, <2>3, <2>5, TextIn
  <2>8. ASSUME NEW i \in 1 .. Len(p) PROVE C!Words(Ps[i]) = C!Words(p[i])
    <3>1. p[i] \in Text /\ C!Words(p[i]) \in Text
      BY <2>7, WordsTyped
    <3>2. C!Words(p[i] \o sep) = C!Words(p[i])
      <4>1. C!Words(p[i] \o sep) = C!Words(p[i]) \o C!Words(sep)
        BY <2>7, <3>1, WordsJoin
      <4>2. C!Words(sep) = <<>>
        BY SeparatorIn
      <4> QED
        BY <3>1, <4>1, <4>2, TextJoins
    <3> QED
      BY <2>6, <3>2
  <2>9. AllWords(Ps) = AllWords(p)
    BY <2>5, <2>7, <2>8, SameWords
  <2> QED
    BY <2>1, <2>2, <2>5, <2>9
<1> QED
  BY <1>1, <1>2

Merging(A) == [done : Seq(Seq(A)), open : Seq(Seq(A)), len : Nat]

\* A part that is put to the others adds its words at the end.
LEMMA PutKeeps ==
  ASSUME NEW A, Alphabet(A), NEW a \in Merging(A), NEW p \in Seq(A), NEW sep, Separates(sep)
  PROVE  /\ C!Put(a, p, sep) \in Merging(A)
         /\ AllWords(C!Put(a, p, sep).done) \o AllWords(C!Put(a, p, sep).open)
              = (AllWords(a.done) \o AllWords(a.open)) \o C!Words(p)
<1> DEFINE b == C!Put(a, p, sep)
           Done == AllWords(a.done)
           Open == AllWords(a.open)
           total == a.len + Len(p) + IF a.open = <<>> THEN 0 ELSE Len(sep)
           Kept(c) == c \in Merging(A) /\ AllWords(c.done) \o AllWords(c.open) = (Done \o Open) \o C!Words(p)
<1>0. A \in SUBSET Int
  BY DEF Alphabet
<1>1. /\ a.done \in Seq(Seq(A)) /\ a.open \in Seq(Seq(A)) /\ a.len \in Nat
      /\ Len(p) \in Nat /\ Len(sep) \in Nat /\ total \in Nat
  BY SeparatorIn DEF Merging
<1>2. a.done \in Seq(Text) /\ a.open \in Seq(Text) /\ p \in Text
  BY <1>0, <1>1, TextIn
<1>3. Done \in Text /\ Open \in Text /\ C!Words(p) \in Text
  BY <1>2, AllWordsIs, WordsTyped
<1>4. (Done \o Open) \o C!Words(p) = Done \o (Open \o C!Words(p)) /\ (Done \o Open) \o <<>> = Done \o Open
  <2> HIDE DEF Done, Open
  <2> QED
    BY <1>3, TextJoins
<1>5. C!Join(a.open, sep) \in Seq(A) /\ C!Words(C!Join(a.open, sep)) = Open
  BY <1>1, JoinIs
<1> DEFINE flushed == [done |-> Append(a.done, C!Join(a.open, sep)), open |-> <<p>>, len |-> Len(p)]
           longer == [done |-> a.done, open |-> Append(a.open, p), len |-> total]
<1>6. (p = <<>> /\ b = a) \/ b = flushed \/ b = longer
  BY Zenon DEF C!Put
<1>7. ASSUME p = <<>> PROVE Kept(a)
  BY <1>3, <1>4, <1>7, AllWordsIs, FlattenNone DEF AllWords
<1>8. Kept(flushed)
  <2>1. <<p>> \in Seq(Seq(A)) /\ Append(a.done, C!Join(a.open, sep)) \in Seq(Seq(A))
    BY <1>1, <1>5
  <2>2. C!Join(a.open, sep) \in Text
    BY <1>0, <1>5, TextIn
  <2>3. AllWords(Append(a.done, C!Join(a.open, sep))) = Done \o Open /\ AllWords(<<p>>) = C!Words(p)
    BY <1>2, <1>5, <2>2, AllWordsIs
  <2>4. flushed \in Merging(A)
    BY <1>1, <2>1 DEF Merging
  <2> HIDE DEF Done, Open
  <2> QED
    BY <2>3, <2>4
<1>9. Kept(longer)
  <2>1. Append(a.open, p) \in Seq(Seq(A))
    BY <1>1
  <2>2. AllWords(Append(a.open, p)) = Open \o C!Words(p)
    BY <1>2, AllWordsIs
  <2> HIDE DEF total
  <2>3. longer \in Merging(A)
    BY <1>1, <2>1 DEF Merging
  <2>4. AllWords(longer.done) \o AllWords(longer.open) = Done \o (Open \o C!Words(p))
    BY <2>2
  <2> QED
    BY <1>4, <2>3, <2>4
<1>10. Kept(b)
  <2> HIDE DEF Kept, b, flushed, longer
  <2> QED
    BY <1>6, <1>7, <1>8, <1>9
<1> QED
  BY <1>10

Merges(ps, sep, f) ==
  /\ f[0] = [done |-> <<>>, open |-> <<>>, len |-> 0]
  /\ \A i \in 1 .. Len(ps) : f[i] = C!Put(f[i - 1], ps[i], sep)

\* What is left over is joined too.
Closed(end, sep) == IF end.open = <<>> THEN end.done ELSE Append(end.done, C!Join(end.open, sep))

\* _merge_splits() is the function that puts one part after another.
LEMMA MergeBy ==
  ASSUME NEW A, Alphabet(A), NEW ps \in Seq(Seq(A)), NEW sep, Separates(sep)
  PROVE  \E f \in [0 .. Len(ps) -> Merging(A)] : Merges(ps, sep, f) /\ C!Merge(ps, sep) = Closed(f[Len(ps)], sep)
<1> DEFINE n == Len(ps)
           Vals == Merging(A)
           Then(i, a) == C!Put(a, ps[i], sep)
           Is(g) == g = [i \in 0 .. n |-> IF i = 0 THEN [done |-> <<>>, open |-> <<>>, len |-> 0] ELSE Then(i, g[i - 1])]
           acc == CHOOSE g : Is(g)
           turn == [i \in 1 .. n |-> [a \in Vals |-> Then(i, a)]]
<1>1. n \in Nat /\ [done |-> <<>>, open |-> <<>>, len |-> 0] \in Vals
  BY DEF Merging
<1>2. ASSUME NEW i \in 1 .. n, NEW a \in Vals PROVE Then(i, a) \in Vals
  <2>1. ps[i] \in Seq(A) /\ a \in Merging(A)
    OBVIOUS
  <2>2. C!Put(a, ps[i], sep) \in Merging(A)
    BY <2>1, PutKeeps
  <2> QED
    BY <2>2
<1>3. C!Merge(ps, sep) = Closed(acc[n], sep)
  BY Zenon DEF C!Merge, Closed
<1> HIDE DEF n, Then, Vals
<1>4. Recursed(Vals, [done |-> <<>>, open |-> <<>>, len |-> 0], n, turn)
  <2>1. turn \in [1 .. n -> [Vals -> Vals]]
    BY <1>2
  <2> HIDE DEF turn
  <2> QED
    BY <1>1, <2>1, Recursion
<1>5. PICK g \in [0 .. n -> Vals] : g[0] = [done |-> <<>>, open |-> <<>>, len |-> 0] /\ \A i \in 1 .. n : g[i] = turn[i][g[i - 1]]
  BY <1>4 DEF Recursed
<1>6. Is(g)
  <2>1. \A i \in 1 .. n : g[i] = Then(i, g[i - 1])
    <3> SUFFICES ASSUME NEW i \in 1 .. n PROVE g[i] = Then(i, g[i - 1])
      OBVIOUS
    <3>1. g[i - 1] \in Vals
      BY <1>1
    <3> QED
      BY <1>5, <3>1
  <2> HIDE DEF turn
  <2>2. \A i \in 0 .. n : i = 0 \/ i \in 1 .. n
    BY <1>1
  <2>3. \A i \in 0 .. n : g[i] = IF i = 0 THEN [done |-> <<>>, open |-> <<>>, len |-> 0] ELSE Then(i, g[i - 1])
    BY <1>5, <2>1, <2>2
  <2> QED
    BY <2>3
<1>7. Is(acc)
  <2> HIDE DEF Is
  <2> QED
    BY <1>6, Zenon
<1>8. acc = [i \in 0 .. n |-> acc[i]] /\ acc[0] = [done |-> <<>>, open |-> <<>>, len |-> 0] /\ \A i \in 1 .. n : acc[i] = Then(i, acc[i - 1])
  <2> HIDE DEF acc
  <2> QED
    BY <1>1, <1>7
<1> HIDE DEF acc, Is
<1>9. acc \in [0 .. n -> Vals]
  <2> DEFINE Good == {i \in 0 .. n : acc[i] \in Vals}
  <2>1. 0 \in Good
    BY <1>1, <1>8
  <2>2. ASSUME NEW i \in 1 .. n, i - 1 \in Good PROVE i \in Good
    <3>1. acc[i - 1] \in Vals /\ i \in 0 .. n
      BY <1>1, <2>2
    <3>2. acc[i] \in Vals
      BY <1>2, <1>8, <3>1
    <3> QED
      BY <3>1, <3>2
  <2> HIDE DEF Good
  <2>3. \A i \in 0 .. n : i \in Good
    BY <1>1, <2>1, <2>2, Upward
  <2>4. \A i \in 0 .. n : acc[i] \in Vals
    BY <2>3 DEF Good
  <2> QED
    BY <1>8, <2>4
<1>10. Merges(ps, sep, acc)
  BY <1>8 DEF Merges, Then, n
<1> QED
  BY <1>3, <1>9, <1>10 DEF n, Vals



\* What is merged has the words of the parts, in their order.
LEMMA MergeIs ==
  ASSUME NEW A, Alphabet(A), NEW ps \in Seq(Seq(A)), NEW sep, Separates(sep)
  PROVE  C!Merge(ps, sep) \in Seq(Seq(A)) /\ AllWords(C!Merge(ps, sep)) = AllWords(ps)
<1> DEFINE n == Len(ps)
<1>0. A \in SUBSET Int
  BY DEF Alphabet
<1>1. n \in Nat /\ ps \in Seq(Text) /\ \A i \in 1 .. n : ps[i] \in Seq(A) /\ ps[i] \in Text
  BY <1>0, TextIn
<1>2. PICK f \in [0 .. n -> Merging(A)] : Merges(ps, sep, f) /\ C!Merge(ps, sep) = Closed(f[n], sep)
  BY MergeBy
<1>3. PICK g \in [0 .. n -> Text] : Flattens(ps, g) /\ C!FlattenSeq(ps) = g[n]
  BY <1>1, FlattenIs DEF Text
<1>4. /\ f[0] = [done |-> <<>>, open |-> <<>>, len |-> 0]
      /\ \A i \in 1 .. n : f[i] = C!Put(f[i - 1], ps[i], sep)
      /\ g[0] = <<>> /\ \A i \in 1 .. n : g[i] = g[i - 1] \o ps[i]
  BY <1>2, <1>3 DEF Merges, Flattens
<1> HIDE DEF n
<1> DEFINE Sofar(k) == AllWords(f[k].done) \o AllWords(f[k].open)
           T == {k \in 0 .. n : Sofar(k) = C!Words(g[k])}
<1>5. 0 \in T
  <2>1. C!Words(<<>>) = <<>> /\ AllWords(<<>>) = <<>>
    BY AllWordsIs, FlattenNone DEF AllWords
  <2>2. <<>> \o <<>> = <<>>
    BY TextJoins
  <2>3. f[0].done = <<>> /\ f[0].open = <<>>
    BY <1>4
  <2>4. Sofar(0) = C!Words(g[0])
    BY <1>4, <2>1, <2>2, <2>3
  <2>5. 0 \in 0 .. n
    BY <1>1
  <2> QED
    BY <2>4, <2>5
<1>6. ASSUME NEW i \in 1 .. n, i - 1 \in T PROVE i \in T
  <2>1. i \in 0 .. n /\ i - 1 \in 0 .. n /\ f[i - 1] \in Merging(A) /\ g[i - 1] \in Text
    BY <1>1
  <2>2. Sofar(i) = Sofar(i - 1) \o C!Words(ps[i])
    <3>1. f[i] = C!Put(f[i - 1], ps[i], sep) /\ ps[i] \in Seq(A)
      BY <1>1, <1>4
    <3>2. AllWords(C!Put(f[i - 1], ps[i], sep).done) \o AllWords(C!Put(f[i - 1], ps[i], sep).open)
            = Sofar(i - 1) \o C!Words(ps[i])
      BY <2>1, <3>1, PutKeeps
    <3> QED
      BY <3>1, <3>2
  <2>3. C!Words(g[i]) = C!Words(g[i - 1]) \o C!Words(ps[i])
    BY <1>1, <1>4, <2>1, WordsJoin
  <2>4. Sofar(i - 1) = C!Words(g[i - 1])
    BY <1>6
  <2> HIDE DEF Sofar
  <2>5. Sofar(i) = C!Words(g[i])
    BY <2>2, <2>3, <2>4
  <2> QED
    BY <2>1, <2>5
<1> HIDE DEF T
<1>7. \A k \in 0 .. n : k \in T
  BY <1>1, <1>5, <1>6, Upward
<1>8. n \in 0 .. n /\ AllWords(f[n].done) \o AllWords(f[n].open) = AllWords(ps)
  BY <1>1, <1>3, <1>7 DEF T, AllWords
<1> DEFINE e == f[n]
<1>9. e.done \in Seq(Seq(A)) /\ e.open \in Seq(Seq(A))
  BY <1>8 DEF Merging
<1>10. e.done \in Seq(Text) /\ e.open \in Seq(Text)
  BY <1>0, <1>9, TextIn
<1> HIDE DEF e
<1>11. CASE e.open = <<>>
  <2>1. AllWords(e.done) = AllWords(ps)
    <3>1. AllWords(e.done) \in Text /\ AllWords(e.open) = <<>>
      BY <1>10, <1>11, AllWordsIs
    <3>2. AllWords(e.done) \o <<>> = AllWords(e.done)
      BY <3>1, TextJoins
    <3>3. AllWords(e.done) \o AllWords(e.open) = AllWords(ps)
      BY <1>8 DEF e
    <3> QED
      BY <3>1, <3>2, <3>3
  <2> QED
    BY <1>2, <1>9, <1>11, <2>1 DEF Closed, e
<1>12. CASE e.open # <<>>
  <2>1. C!Join(e.open, sep) \in Seq(A) /\ C!Words(C!Join(e.open, sep)) = AllWords(e.open)
    BY <1>9, JoinIs
  <2>2. C!Join(e.open, sep) \in Text
    BY <1>0, <2>1, TextIn
  <2>3. AllWords(Append(e.done, C!Join(e.open, sep))) = AllWords(e.done) \o AllWords(e.open)
    BY <1>10, <2>1, <2>2, AllWordsIs
  <2>4. Append(e.done, C!Join(e.open, sep)) \in Seq(Seq(A))
    BY <1>9, <2>1
  <2> QED
    BY <1>2, <1>8, <1>12, <2>3, <2>4 DEF Closed, e
<1> QED
  BY <1>11, <1>12

\* Pieces split further at a separator have the words they had.
LEMMA RefineIs ==
  ASSUME NEW A, Alphabet(A), NEW ps \in Seq(Seq(A)), NEW sep, Separates(sep)
  PROVE  C!Refine(ps, sep) \in Seq(Seq(A)) /\ AllWords(C!Refine(ps, sep)) = AllWords(ps)
<1> DEFINE Part(p) == IF Len(p) <= Size THEN <<p>> ELSE C!Merge(C!Parts(p, sep), sep)
           Qs == [i \in DOMAIN ps |-> Part(ps[i])]
<1>0. A \in SUBSET Int
  BY DEF Alphabet
<1>1. Len(ps) \in Nat /\ DOMAIN ps = 1 .. Len(ps) /\ \A i \in 1 .. Len(ps) : ps[i] \in Seq(A)
  OBVIOUS
<1>2. ASSUME NEW p \in Seq(A) PROVE Part(p) \in Seq(Seq(A)) /\ AllWords(Part(p)) = C!Words(p)
  <2>1. <<p>> \in Seq(Seq(A)) /\ AllWords(<<p>>) = C!Words(p)
    BY <1>0, TextIn, AllWordsIs
  <2>2. C!Parts(p, sep) \in Seq(Seq(A)) /\ AllWords(C!Parts(p, sep)) = C!Words(p)
    BY PartsIs
  <2>3. C!Merge(C!Parts(p, sep), sep) \in Seq(Seq(A)) /\ AllWords(C!Merge(C!Parts(p, sep), sep)) = C!Words(p)
    BY <2>2, MergeIs
  <2>4. Part(p) = <<p>> \/ Part(p) = C!Merge(C!Parts(p, sep), sep)
    BY Zenon
  <2> HIDE DEF Part
  <2> QED
    BY <2>1, <2>3, <2>4
<1>3. C!Refine(ps, sep) = C!FlattenSeq(Qs)
  BY DEF C!Refine
<1> HIDE DEF Part
<1>4. Qs \in Seq(Seq(Seq(A))) /\ Len(Qs) = Len(ps) /\ \A i \in 1 .. Len(ps) : Qs[i] = Part(ps[i])
  BY <1>1, <1>2
<1> HIDE DEF Qs
<1>5. C!FlattenSeq(Qs) \in Seq(Seq(A))
  BY <1>4, FlattenTyped
<1>6. ps \in Seq(Text) /\ Qs \in Seq(Seq(Text))
  <2>1. ps \in Seq(Text)
    BY <1>0, TextIn
  <2>2. \A i \in 1 .. Len(Qs) : Qs[i] \in Seq(Text)
    BY <1>0, <1>1, <1>2, <1>4, TextIn
  <2>3. Len(Qs) \in Nat /\ Qs = [i \in 1 .. Len(Qs) |-> Qs[i]]
    BY <1>4
  <2> QED
    BY <2>1, <2>2, <2>3
<1>7. \A i \in 1 .. Len(ps) : AllWords(Qs[i]) = C!Words(ps[i])
  BY <1>1, <1>2, <1>4
<1>8. AllWords(C!FlattenSeq(Qs)) = AllWords(ps)
  BY <1>4, <1>6, <1>7, SameNested
<1> QED
  BY <1>3, <1>5, <1>8

\* There are five separators.
LEMMA SeparatorsListed == Len(C!SEPARATORS) = 5 /\ \A i \in 1 .. 5 : Separates(C!SEPARATORS[i])
<1>1. /\ Len(C!SEPARATORS) = 5
      /\ C!SEPARATORS[1] = <<C!Newline, C!Newline>> /\ C!SEPARATORS[2] = <<C!Newline>>
      /\ C!SEPARATORS[3] = C!Sentence /\ C!SEPARATORS[4] = <<C!Space>> /\ C!SEPARATORS[5] = <<>>
  BY DEF C!SEPARATORS
<1>2. \A i \in 1 .. 5 : i = 1 \/ i = 2 \/ i = 3 \/ i = 4 \/ i = 5
  OBVIOUS
<1>3. \A sep \in {<<C!Newline, C!Newline>>, <<C!Newline>>, C!Sentence, <<C!Space>>, <<>>} : Separates(sep)
  BY Zenon DEF Separates, Separators
<1> QED
  BY <1>1, <1>2, <1>3, Zenon

Refines(t, f) ==
  /\ f[0] = <<t>>
  /\ \A i \in 1 .. Len(C!SEPARATORS) : f[i] = C!Refine(f[i - 1], C!SEPARATORS[i])

\* A text is refined by one separator after another.
LEMMA RefinedBy ==
  ASSUME NEW A, Alphabet(A), NEW t \in Seq(A)
  PROVE  \E f \in [0 .. Len(C!SEPARATORS) -> Seq(Seq(A))] : Refines(t, f) /\ C!Refined(t) = f[Len(C!SEPARATORS)]
<1> DEFINE n == Len(C!SEPARATORS)
           Vals == Seq(Seq(A))
           Then(i, a) == C!Refine(a, C!SEPARATORS[i])
           Is(g) == g = [i \in 0 .. n |-> IF i = 0 THEN <<t>> ELSE Then(i, g[i - 1])]
           acc == CHOOSE g : Is(g)
           turn == [i \in 1 .. n |-> [a \in Vals |-> Then(i, a)]]
<1>1. n \in Nat /\ <<t>> \in Vals
  BY SeparatorsListed
<1>2. ASSUME NEW i \in 1 .. n, NEW a \in Vals PROVE Then(i, a) \in Vals
  <2>1. Separates(C!SEPARATORS[i])
    BY SeparatorsListed
  <2> QED
    BY <2>1, RefineIs
<1>3. C!Refined(t) = acc[n]
  BY Zenon DEF C!Refined
<1> HIDE DEF n, Then, Vals
<1>4. Recursed(Vals, <<t>>, n, turn)
  <2>1. turn \in [1 .. n -> [Vals -> Vals]]
    BY <1>2
  <2> HIDE DEF turn
  <2> QED
    BY <1>1, <2>1, Recursion
<1>5. PICK g \in [0 .. n -> Vals] : g[0] = <<t>> /\ \A i \in 1 .. n : g[i] = turn[i][g[i - 1]]
  BY <1>4 DEF Recursed
<1>6. Is(g)
  <2>1. \A i \in 1 .. n : g[i] = Then(i, g[i - 1])
    <3> SUFFICES ASSUME NEW i \in 1 .. n PROVE g[i] = Then(i, g[i - 1])
      OBVIOUS
    <3>1. g[i - 1] \in Vals
      BY <1>1
    <3> QED
      BY <1>5, <3>1
  <2> HIDE DEF turn
  <2>2. \A i \in 0 .. n : i = 0 \/ i \in 1 .. n
    BY <1>1
  <2>3. \A i \in 0 .. n : g[i] = IF i = 0 THEN <<t>> ELSE Then(i, g[i - 1])
    BY <1>5, <2>1, <2>2
  <2> QED
    BY <2>3
<1>7. Is(acc)
  <2> HIDE DEF Is
  <2> QED
    BY <1>6, Zenon
<1>8. acc = [i \in 0 .. n |-> acc[i]] /\ acc[0] = <<t>> /\ \A i \in 1 .. n : acc[i] = Then(i, acc[i - 1])
  <2> HIDE DEF acc
  <2> QED
    BY <1>1, <1>7
<1> HIDE DEF acc, Is
<1>9. acc \in [0 .. n -> Vals]
  <2> DEFINE Good == {i \in 0 .. n : acc[i] \in Vals}
  <2>1. 0 \in Good
    BY <1>1, <1>8
  <2>2. ASSUME NEW i \in 1 .. n, i - 1 \in Good PROVE i \in Good
    <3>1. acc[i - 1] \in Vals /\ i \in 0 .. n
      BY <1>1, <2>2
    <3>2. acc[i] \in Vals
      BY <1>2, <1>8, <3>1
    <3> QED
      BY <3>1, <3>2
  <2> HIDE DEF Good
  <2>3. \A i \in 0 .. n : i \in Good
    BY <1>1, <2>1, <2>2, Upward
  <2>4. \A i \in 0 .. n : acc[i] \in Vals
    BY <2>3 DEF Good
  <2> QED
    BY <1>8, <2>4
<1>10. Refines(t, acc)
  BY <1>8 DEF Refines, Then, n
<1> QED
  BY <1>3, <1>9, <1>10 DEF n, Vals


\* A text refined by all separators has its words.
LEMMA RefinedIs ==
  ASSUME NEW A, Alphabet(A), NEW t \in Seq(A)
  PROVE  C!Refined(t) \in Seq(Seq(A)) /\ AllWords(C!Refined(t)) = C!Words(t)
<1> DEFINE n == Len(C!SEPARATORS)
<1>0. n \in Nat /\ \A i \in 1 .. n : Separates(C!SEPARATORS[i])
  BY SeparatorsListed
<1>1. PICK f \in [0 .. n -> Seq(Seq(A))] : Refines(t, f) /\ C!Refined(t) = f[n]
  BY RefinedBy
<1>2. f[0] = <<t>> /\ \A i \in 1 .. n : f[i] = C!Refine(f[i - 1], C!SEPARATORS[i])
  BY <1>1 DEF Refines
<1> HIDE DEF n
<1> DEFINE T == {k \in 0 .. n : AllWords(f[k]) = C!Words(t)}
<1>3. 0 \in T
  <2>1. t \in Text
    BY TextIn DEF Alphabet
  <2>2. AllWords(f[0]) = C!Words(t)
    BY <1>2, <2>1, AllWordsIs
  <2>3. 0 \in 0 .. n
    BY <1>0
  <2> QED
    BY <2>2, <2>3
<1>4. ASSUME NEW i \in 1 .. n, i - 1 \in T PROVE i \in T
  <2>1. i \in 0 .. n /\ f[i - 1] \in Seq(Seq(A)) /\ Separates(C!SEPARATORS[i])
    BY <1>0
  <2>2. AllWords(C!Refine(f[i - 1], C!SEPARATORS[i])) = AllWords(f[i - 1])
    BY <2>1, RefineIs
  <2> QED
    BY <1>2, <1>4, <2>1, <2>2
<1> HIDE DEF T
<1>5. \A k \in 0 .. n : k \in T
  BY <1>0, <1>3, <1>4, Upward
<1>6. n \in 0 .. n /\ AllWords(f[n]) = C!Words(t)
  BY <1>0, <1>5 DEF T
<1> QED
  BY <1>1, <1>6

\* A beginning is a shorter beginning and what is between their ends.
LEMMA Between ==
  ASSUME NEW V, NEW t \in Seq(V), NEW i \in 0 .. Len(t), NEW j \in i .. Len(t)
  PROVE  /\ SubSeq(t, i + 1, j) \in Seq(V) /\ Len(SubSeq(t, i + 1, j)) = j - i
         /\ SubSeq(t, 1, j) = SubSeq(t, 1, i) \o SubSeq(t, i + 1, j)
<1> DEFINE a == SubSeq(t, 1, i)
           b == SubSeq(t, i + 1, j)
           c == SubSeq(t, 1, j)
<1>2. i \in Nat /\ j \in Nat /\ i <= j /\ j <= Len(t) /\ Len(t) \in Nat
  OBVIOUS
<1>1. /\ a \in Seq(V) /\ b \in Seq(V) /\ c \in Seq(V) /\ Len(a) = i /\ Len(b) = j - i /\ Len(c) = j
      /\ \A k \in 1 .. i : a[k] = t[k]
      /\ \A k \in 1 .. j - i : b[k] = t[i + k]
      /\ \A k \in 1 .. j : c[k] = t[k]
  <2>1. a \in Seq(V) /\ Len(a) = i /\ \A k \in 1 .. i : a[k] = t[k]
    BY <1>2
  <2>2. c \in Seq(V) /\ Len(c) = j /\ \A k \in 1 .. j : c[k] = t[k]
    BY <1>2
  <2>3. b \in Seq(V) /\ Len(b) = j - i
    BY <1>2
  <2>4. ASSUME NEW k \in 1 .. j - i PROVE b[k] = t[i + k]
    BY <1>2
  <2> QED
    BY <2>1, <2>2, <2>3, <2>4
<1> HIDE DEF a, b, c
<1>3. a \o b \in Seq(V) /\ Len(a \o b) = j
  BY <1>1, <1>2
<1>4. \A k \in 1 .. j : (a \o b)[k] = c[k]
  <2> SUFFICES ASSUME NEW k \in 1 .. j PROVE (a \o b)[k] = c[k]
    OBVIOUS
  <2>1. (a \o b)[k] = IF k <= i THEN a[k] ELSE b[k - i]
    BY <1>1, <1>2
  <2>2. CASE k <= i
    BY <1>1, <2>1, <2>2
  <2>3. CASE ~ k <= i
    <3>1. k - i \in 1 .. j - i /\ i + (k - i) = k
      BY <1>2, <2>3
    <3> QED
      BY <1>1, <2>1, <2>3, <3>1
  <2> QED
    BY <2>2, <2>3
<1>5. a \o b = c
  BY <1>1, <1>3, <1>4, SeqEqual
<1> QED
  BY <1>1, <1>5 DEF a, b, c

\* Min and Max of some numbers are among them, at the ends.
LEMMA Extremes ==
  ASSUME NEW n \in Nat, NEW N \in SUBSET (1 .. n), N # {}
  PROVE  /\ C!Min(N) \in N /\ \A i \in N : C!Min(N) <= i
         /\ C!Max(N) \in N /\ \A i \in N : i <= C!Max(N)
<1>1. \E i \in N : \A j \in N : i <= j
  BY LeastNumber
<1>2. \E i \in N : \A j \in N : i >= j
  <2> DEFINE M == {n - i : i \in N}
  <2>1. M \in SUBSET Nat /\ M # {}
    <3>1. \A i \in N : n - i \in Nat
      OBVIOUS
    <3> QED
      BY <3>1
  <2>2. PICK m \in M : \A k \in M : m <= k
    BY <2>1, LeastNumber
  <2>3. PICK i \in N : m = n - i
    OBVIOUS
  <2>4. ASSUME NEW j \in N PROVE i >= j
    <3>1. n - j \in M
      OBVIOUS
    <3>2. n - i <= n - j
      BY <2>2, <2>3, <3>1
    <3> QED
      BY <3>2
  <2> QED
    BY <2>4
<1>3. C!Min(N) \in N /\ \A j \in N : C!Min(N) <= j
  BY <1>1 DEF C!Min
<1>4. C!Max(N) \in N /\ \A j \in N : C!Max(N) >= j
  BY <1>2 DEF C!Max
<1> QED
  BY <1>3, <1>4

\* What is stripped off has no words.
LEMMA StripIs ==
  ASSUME NEW A \in SUBSET Int, NEW t \in Seq(A)
  PROVE  C!Strip(t) \in Seq(A) /\ Len(C!Strip(t)) <= Len(t) /\ C!Words(C!Strip(t)) = C!Words(t)
<1> DEFINE ink == {i \in DOMAIN t : ~ C!Blank(t[i])}
           n == Len(t)
<1>1. n \in Nat /\ DOMAIN t = 1 .. n /\ t \in Text
  BY TextIn
<1>2. \A c : C!Blank(c) => ~ C!IsWord(c)
  BY DEF C!Blank, C!IsWord, C!Space, C!Newline
<1>3. CASE ink = {}
  <2>1. C!Strip(t) = <<>>
    BY <1>3 DEF C!Strip
  <2>2. \A i \in 1 .. n : ~ C!IsWord(t[i])
    BY <1>1, <1>2, <1>3
  <2>3. C!Words(t) = <<>> /\ C!Words(<<>>) = <<>>
    BY <1>1, <2>2, WordsNone, AllWordsIs, FlattenNone DEF AllWords
  <2> QED
    BY <1>1, <2>1, <2>3
<1>4. CASE ink # {}
  <2> DEFINE a == C!Min(ink)
             b == C!Max(ink)
  <2>1. ink \in SUBSET (1 .. n)
    BY <1>1
  <2> HIDE DEF ink
  <2>2. a \in ink /\ b \in ink /\ \A i \in ink : a <= i /\ i <= b
    BY <1>1, <1>4, <2>1, Extremes
  <2>3. C!Strip(t) = SubSeq(t, a, b)
    BY <1>4 DEF C!Strip, ink
  <2> HIDE DEF a, b
  <2>4. a \in 1 .. n /\ b \in a .. n /\ a - 1 \in 0 .. n /\ b \in (a - 1) .. n /\ (a - 1) + 1 = a /\ b \in 0 .. n
    BY <1>1, <2>1, <2>2
  <2> DEFINE l == SubSeq(t, 1, a - 1)
             m == SubSeq(t, a, b)
             r == SubSeq(t, b + 1, n)
  <2>5. m \in Seq(A) /\ Len(m) = b - (a - 1) /\ SubSeq(t, 1, b) = l \o m
    <3>1. /\ SubSeq(t, (a - 1) + 1, b) \in Seq(A) /\ Len(SubSeq(t, (a - 1) + 1, b)) = b - (a - 1)
          /\ SubSeq(t, 1, b) = SubSeq(t, 1, a - 1) \o SubSeq(t, (a - 1) + 1, b)
      BY <2>4, Between
    <3> QED
      BY <2>4, <3>1
  <2>6. SubSeq(t, 1, b) \o r = t /\ r \in Seq(A) /\ Len(r) = n - b /\ SubSeq(t, 1, b) \in Seq(A)
    BY <2>4, Parted
  <2>7. l \in Seq(A) /\ Len(l) = a - 1
    BY <2>4, Parted
  <2>8. \A i \in 1 .. Len(l) : ~ C!IsWord(l[i])
    <3> SUFFICES ASSUME NEW i \in 1 .. Len(l) PROVE ~ C!IsWord(l[i])
      OBVIOUS
    <3>1. i \in 1 .. n /\ i < a /\ l[i] = t[i]
      BY <1>1, <2>4, <2>7
    <3>2. i \notin ink
      BY <1>1, <2>1, <2>2, <2>4, <3>1
    <3> QED
      BY <1>1, <1>2, <3>1, <3>2 DEF ink
  <2>9. \A i \in 1 .. Len(r) : ~ C!IsWord(r[i])
    <3> SUFFICES ASSUME NEW i \in 1 .. Len(r) PROVE ~ C!IsWord(r[i])
      OBVIOUS
    <3>a. Len(r) = n - b
      BY <2>6
    <3>b. i \in 1 .. n - b
      BY <3>a
    <3>0. b \in Nat /\ i \in 1 .. n - b /\ b <= n
      BY <1>1, <2>4, <3>b
    <3>1. b + i \in 1 .. n /\ b < b + i /\ r[i] = t[b + i]
      BY <1>1, <3>0
    <3>2. b + i \notin ink
      BY <1>1, <2>1, <2>2, <2>4, <3>1
    <3> QED
      BY <1>1, <1>2, <3>1, <3>2 DEF ink
  <2> HIDE DEF l, m, r
  <2>10. l \in Text /\ m \in Text /\ r \in Text
    BY <2>5, <2>6, <2>7, TextIn
  <2>11. C!Words(l) = <<>> /\ C!Words(r) = <<>> /\ C!Words(m) \in Text
    BY <2>8, <2>9, <2>10, WordsNone, WordsTyped
  <2>12. t = (l \o m) \o r /\ l \o m \in Text
    BY <2>5, <2>6, <2>10, TextJoins
  <2>13. C!Words(t) = (C!Words(l) \o C!Words(m)) \o C!Words(r)
    BY <2>10, <2>12, WordsJoin
  <2>14. C!Words(t) = C!Words(m)
    BY <2>11, <2>13, TextJoins
  <2>15. Len(m) <= n
    BY <1>1, <2>4, <2>5
  <2> QED
    BY <2>3, <2>5, <2>14, <2>15 DEF m
<1> QED
  BY <1>3, <1>4

Short(A) == {u \in Seq(A) : Len(u) <= Size}

\* A text that is cut after every Size characters is the same text.
Windows(t) ==
  [w \in 1 .. (Len(t) + Size - 1) \div Size |->
     SubSeq(t, (w - 1) * Size + 1, C!Min({w * Size, Len(t)}))]

\* Cut into windows a text has its words, in pieces of at most Size.
LEMMA CutIs ==
  ASSUME NEW A \in SUBSET Int, NEW t \in Seq(A)
  PROVE  Windows(t) \in Seq(Short(A)) /\ AllWords(Windows(t)) = C!Words(t)
<1> DEFINE n == Len(t)
           k == (n + Size - 1) \div Size
           End(w) == C!Min({w * Size, n})
           W == Windows(t)
<1>1. n \in Nat /\ Size \in Nat /\ Size >= 1
  BY ChunkerAssumption
<1>2. k \in Nat /\ n <= k * Size /\ (k = 0 \/ (k - 1) * Size < n)
  <2> HIDE DEF n
  <2>1. \A a \in Nat, s \in Nat : s >= 1 =>
          /\ (a + s - 1) \div s \in Nat
          /\ s * ((a + s - 1) \div s) <= a + s - 1 /\ a + s - 1 < s * ((a + s - 1) \div s) + s
    OBVIOUS
  <2>2. k \in Nat /\ Size * k <= n + Size - 1 /\ n + Size - 1 < Size * k + Size
    BY <1>1, <2>1
  <2>3. \A a, b \in Int : a * b = b * a /\ (b - 1) * a = a * b - a
    OBVIOUS
  <2>4. k * Size = Size * k /\ (k - 1) * Size = Size * k - Size
    BY <1>1, <2>2, <2>3
  <2>5. Size * k \in Int
    BY <1>1, <2>2
  <2> HIDE DEF k
  <2> QED
    BY <1>1, <2>2, <2>4, <2>5
<1>a. W = [w \in 1 .. k |-> W[w]] /\ \A w \in 1 .. k : W[w] = SubSeq(t, (w - 1) * Size + 1, End(w))
  BY DEF Windows
<1> HIDE DEF k, n, W
<1>3. \A a, b \in Int : C!Min({a, b}) = IF a <= b THEN a ELSE b
  <2> SUFFICES ASSUME NEW a \in Int, NEW b \in Int PROVE C!Min({a, b}) = IF a <= b THEN a ELSE b
    OBVIOUS
  <2> DEFINE Least(x) == x \in {a, b} /\ \A y \in {a, b} : x <= y
  <2>1. C!Min({a, b}) = CHOOSE x : Least(x)
    BY DEF C!Min
  <2>2. Least(IF a <= b THEN a ELSE b)
    OBVIOUS
  <2>3. Least(CHOOSE x : Least(x))
    <3> HIDE DEF Least
    <3> QED
      BY <2>2, Zenon
  <2>4. Least(C!Min({a, b}))
    BY <2>1, <2>3
  <2> QED
    BY <2>4
<1>4. ASSUME NEW w \in 1 .. k
      PROVE  /\ (w - 1) * Size \in 0 .. n - 1 /\ w * Size = (w - 1) * Size + Size
             /\ End(w) \in (w - 1) * Size .. n /\ End(w) - (w - 1) * Size <= Size
             /\ End(w - 1) = (w - 1) * Size
  <2>1. \A a, b, c \in Nat : a <= b => a * c <= b * c
    OBVIOUS
  <2>2. w - 1 \in Nat /\ k - 1 \in Nat /\ w - 1 <= k - 1
    BY <1>2
  <2>3. (w - 1) * Size <= (k - 1) * Size /\ (w - 1) * Size \in Nat
    BY <1>1, <2>1, <2>2
  <2>4. \A a, b \in Int : a * b = (a - 1) * b + b
    OBVIOUS
  <2>5. w * Size = (w - 1) * Size + Size
    BY <1>1, <2>4
  <2>6. (w - 1) * Size < n
    BY <1>1, <1>2, <2>2, <2>3
  <2>7. End(w) = IF w * Size <= n THEN w * Size ELSE n
    BY <1>1, <1>3, <2>3, <2>5
  <2>8. End(w - 1) = (w - 1) * Size
    BY <1>1, <1>3, <2>3, <2>6
  <2> DEFINE m == (w - 1) * Size
  <2> HIDE DEF m
  <2>9. m \in Nat /\ m < n /\ w * Size = m + Size /\ End(w) = (IF m + Size <= n THEN m + Size ELSE n) /\ End(w - 1) = m
    BY <2>3, <2>5, <2>6, <2>7, <2>8 DEF m
  <2> HIDE DEF End
  <2>10. m \in 0 .. n - 1 /\ End(w) \in m .. n /\ End(w) - m <= Size
    BY <1>1, <2>9
  <2> QED
    BY <2>9, <2>10 DEF m
<1>5. ASSUME NEW w \in 1 .. k
      PROVE  /\ W[w] \in Short(A)
             /\ End(w) \in 0 .. n /\ SubSeq(t, 1, End(w)) = SubSeq(t, 1, End(w - 1)) \o W[w]
  <2> DEFINE i == (w - 1) * Size
             j == End(w)
  <2>a. i \in 0 .. n - 1 /\ j \in i .. n /\ j - i <= Size /\ End(w - 1) = i
    BY <1>4
  <2>1. i \in 0 .. n /\ j \in i .. n /\ j - i <= Size /\ End(w - 1) = i /\ j \in 0 .. n
    <3> HIDE DEF i, j, End
    <3> QED
      BY <1>1, <2>a
  <2>2. W[w] = SubSeq(t, i + 1, j)
    BY <1>a
  <2> HIDE DEF i, j, End
  <2>3. /\ SubSeq(t, i + 1, j) \in Seq(A) /\ Len(SubSeq(t, i + 1, j)) = j - i
        /\ SubSeq(t, 1, j) = SubSeq(t, 1, i) \o SubSeq(t, i + 1, j)
    BY <2>1, Between DEF n
  <2>4. SubSeq(t, i + 1, j) \in Short(A)
    BY <2>1, <2>3 DEF Short
  <2> QED
    BY <2>1, <2>2, <2>3, <2>4 DEF j
<1>6. W \in Seq(Short(A)) /\ Len(W) = k
  <2>1. \A w \in 1 .. k : W[w] \in Short(A)
    BY <1>5
  <2>2. W \in [1 .. k -> Short(A)]
    BY <1>a, <2>1
  <2>3. W \in Seq(Short(A))
    BY <1>2, <2>2, SeqDef, Zenon
  <2>4. DOMAIN W = 1 .. k /\ DOMAIN W = 1 .. Len(W) /\ Len(W) \in Nat
    BY <2>2, <2>3
  <2> QED
    BY <1>2, <2>3, <2>4
<1>7. W \in Seq(Text) /\ \A w \in 1 .. k : W[w] \in Text
  <2>1. \A w \in 1 .. k : W[w] \in Text
    BY <1>5, TextIn DEF Short
  <2>2. W \in [1 .. k -> Text]
    BY <1>a, <2>1
  <2>3. W \in Seq(Text)
    BY <1>2, <2>2, SeqDef, Zenon
  <2> QED
    BY <2>1, <2>3
<1>8. PICK f \in [0 .. k -> Text] : Flattens(W, f) /\ C!FlattenSeq(W) = f[k]
  <2>1. \E f \in [0 .. Len(W) -> Text] : Flattens(W, f) /\ C!FlattenSeq(W) = f[Len(W)]
    BY <1>7, FlattenIs DEF Text
  <2> QED
    BY <1>6, <2>1
<1>9. f[0] = <<>> /\ \A w \in 1 .. k : f[w] = f[w - 1] \o W[w]
  BY <1>6, <1>8 DEF Flattens
<1> DEFINE T == {w \in 0 .. k : f[w] = SubSeq(t, 1, End(w))}
<1>10. 0 \in T
  <2>1. 0 * Size = 0
    BY <1>1
  <2>2. End(0) = 0
    BY <1>1, <1>3, <2>1
  <2>3. SubSeq(t, 1, 0) = <<>>
    OBVIOUS
  <2>4. f[0] = SubSeq(t, 1, End(0))
    BY <1>9, <2>2, <2>3
  <2>5. 0 \in 0 .. k
    BY <1>2
  <2> QED
    BY <2>4, <2>5
<1>11. ASSUME NEW w \in 1 .. k, w - 1 \in T PROVE w \in T
  <2>1. w \in 0 .. k
    BY <1>2
  <2> HIDE DEF End
  <2>2. f[w] = SubSeq(t, 1, End(w))
    BY <1>5, <1>9, <1>11
  <2> QED
    BY <2>1, <2>2
<1> HIDE DEF T
<1>12. \A w \in 0 .. k : w \in T
  BY <1>2, <1>10, <1>11, Upward
<1>13. f[k] = SubSeq(t, 1, End(k))
  <2>1. k \in 0 .. k
    BY <1>2
  <2> HIDE DEF End
  <2> QED
    BY <1>12, <2>1 DEF T
<1>14. End(k) = n
  BY <1>1, <1>2, <1>3
<1>15. SubSeq(t, 1, n) = t
  BY DEF n
<1> QED
  BY <1>6, <1>8, <1>13, <1>14, <1>15 DEF AllWords, W

\* A short text is a text.
LEMMA ShortIs == ASSUME NEW A \in SUBSET Int PROVE \A u \in Short(A) : u \in Seq(A) /\ u \in Text
BY TextIn DEF Short

\* A text is split into pieces that fit, and they have its words.
LEMMA RecursiveSplitIs ==
  ASSUME NEW A, Alphabet(A), NEW t \in Seq(A)
  PROVE  C!RecursiveSplit(t) \in Seq(Short(A)) /\ AllWords(C!RecursiveSplit(t)) = C!Words(t)
<1> DEFINE ps == C!Refined(t)
           Qs == [i \in DOMAIN ps |-> Windows(ps[i])]
<1>0. A \in SUBSET Int
  BY DEF Alphabet
<1>1. ps \in Seq(Seq(A)) /\ AllWords(ps) = C!Words(t)
  BY RefinedIs
<1>2. C!Cut(ps) = C!FlattenSeq(Qs)
  BY DEF C!Cut, Windows
<1> HIDE DEF ps
<1>3. Len(ps) \in Nat /\ DOMAIN ps = 1 .. Len(ps) /\ \A i \in 1 .. Len(ps) : ps[i] \in Seq(A)
  BY <1>1
<1>4. \A p \in Seq(A) : Windows(p) \in Seq(Short(A)) /\ AllWords(Windows(p)) = C!Words(p)
  BY <1>0, CutIs
<1>5. Qs \in Seq(Seq(Short(A))) /\ Len(Qs) = Len(ps) /\ \A i \in 1 .. Len(ps) : Qs[i] = Windows(ps[i])
  BY <1>3, <1>4
<1> HIDE DEF Qs
<1>6. C!FlattenSeq(Qs) \in Seq(Short(A))
  BY <1>5, FlattenTyped
<1>7. ps \in Seq(Text) /\ Qs \in Seq(Seq(Text))
  <2>1. ps \in Seq(Text)
    BY <1>0, <1>1, TextIn
  <2>2. ASSUME NEW i \in 1 .. Len(Qs) PROVE Qs[i] \in Seq(Text)
    <3>1. Qs[i] \in Seq(Short(A))
      BY <1>5
    <3>2. Len(Qs[i]) \in Nat /\ Qs[i] = [j \in 1 .. Len(Qs[i]) |-> Qs[i][j]]
           /\ \A j \in 1 .. Len(Qs[i]) : Qs[i][j] \in Short(A)
      BY <3>1
    <3>3. \A j \in 1 .. Len(Qs[i]) : Qs[i][j] \in Text
      BY <1>0, <3>2, ShortIs
    <3> QED
      BY <3>2, <3>3
  <2>3. Len(Qs) \in Nat /\ Qs = [i \in 1 .. Len(Qs) |-> Qs[i]]
    BY <1>5
  <2> QED
    BY <2>1, <2>2, <2>3
<1>8. \A i \in 1 .. Len(ps) : AllWords(Qs[i]) = C!Words(ps[i])
  BY <1>3, <1>4, <1>5
<1>9. AllWords(C!FlattenSeq(Qs)) = AllWords(ps)
  BY <1>5, <1>7, <1>8, SameNested
<1>10. C!Strip(t) = <<>> => C!Words(t) = <<>>
  BY <1>0, StripIs, AllWordsIs, FlattenNone DEF AllWords
<1>11. C!RecursiveSplit(t) = C!FlattenSeq(Qs) \/ (C!Strip(t) = <<>> /\ C!RecursiveSplit(t) = <<>>)
  BY <1>2, Zenon DEF C!RecursiveSplit, ps
<1>12. <<>> \in Seq(Short(A))
  OBVIOUS
<1> QED
  BY <1>1, <1>6, <1>9, <1>10, <1>11, <1>12, AllWordsIs

\* A file: a word and a header are known by their places, and a header has its
\* line.
FileText(t) ==
  /\ t \in Text /\ Len(t) <= MaxText
  /\ \A i \in 1 .. Len(t) :
       /\ t[i] \in {C!Space, C!Newline, C!Stop, i, MaxText + i}
       /\ t[i] = MaxText + i => /\ i > 1 /\ t[i - 1] = C!Newline
                                /\ i < Len(t) /\ t[i + 1] = C!Newline

\* The place of a word or a header.
Place(c) == IF C!IsHeader(c) THEN c - MaxText ELSE c

HeaderLine(l) == Len(l) = 1 /\ C!IsHeader(l[1])

\* How the lines ls of the first i characters of a file are known: their words
\* and headers stand in the order of the lines, and a header is a line.
LinesInv(t, ls, i) ==
  /\ ls \in Seq(Text) /\ Len(ls) # 0
  /\ \A k \in 1 .. Len(ls) : \A x \in 1 .. Len(ls[k]) : ls[k][x] > 0 => Place(ls[k][x]) <= i
  /\ \A j, k \in 1 .. Len(ls) : j < k =>
       \A x \in 1 .. Len(ls[j]), y \in 1 .. Len(ls[k]) :
         ls[j][x] > 0 /\ ls[k][y] > 0 => Place(ls[j][x]) < Place(ls[k][y])
  /\ \A k \in 1 .. Len(ls) : HeaderLine(ls[k]) \/ \A x \in 1 .. Len(ls[k]) : ~ C!IsHeader(ls[k][x])
  /\ HeaderLine(ls[Len(ls)]) => i > 0 /\ C!IsHeader(t[i])
  /\ i > 0 /\ t[i] = C!Newline => ls[Len(ls)] = <<>>
  /\ \A p \in 1 .. i : C!IsHeader(t[p]) => \E k \in 1 .. Len(ls) : ls[k] = <<t[p]>>

\* What the characters of a file tell of their places.
LEMMA CharacterIs ==
  ASSUME NEW t, FileText(t), NEW i \in 1 .. Len(t)
  PROVE  /\ t[i] \in Int /\ i \in Nat /\ (t[i] > 0 => Place(t[i]) = i)
         /\ C!IsHeader(t[i]) => t[i] = MaxText + i /\ i > 1 /\ t[i - 1] = C!Newline
                                /\ i < Len(t) /\ t[i + 1] = C!Newline
         /\ C!IsWord(t[i]) => t[i] = i
<1>1. MaxText \in Nat /\ i \in Nat /\ i <= MaxText /\ Len(t) \in Nat /\ t[i] \in Int
  BY ChunkerAssumption DEF FileText, Text
<1>2. \/ t[i] = C!Space \/ t[i] = C!Newline \/ t[i] = C!Stop \/ t[i] = i \/ t[i] = MaxText + i
  BY Zenon DEF FileText
<1>3. t[i] = MaxText + i => /\ i > 1 /\ t[i - 1] = C!Newline
                            /\ i < Len(t) /\ t[i + 1] = C!Newline
  BY DEF FileText
<1>4. t[i] = -1 \/ t[i] = -2 \/ t[i] = -3 \/ t[i] = i \/ t[i] = MaxText + i
  BY <1>2 DEF C!Space, C!Newline, C!Stop
<1>5. C!IsHeader(t[i]) => t[i] = MaxText + i
  BY <1>1, <1>4 DEF C!IsHeader
<1>6. C!IsWord(t[i]) => t[i] = i
  BY <1>1, <1>4 DEF C!IsWord
<1>7. t[i] > 0 => Place(t[i]) = i
  BY <1>1, <1>4 DEF Place, C!IsHeader
<1> QED
  BY <1>1, <1>3, <1>5, <1>6, <1>7

\* A newline ends a line, any other character is added to it.
LEMMA LineTaken ==
  ASSUME NEW A, Alphabet(A), NEW a \in Scanned(A), NEW c \in A
  PROVE  C!Taken(a, c, <<C!Newline>>)
           = IF c = C!Newline THEN [done |-> Append(a.done, a.open), open |-> <<>>]
             ELSE [done |-> a.done, open |-> Append(a.open, c)]
<1> DEFINE sep == <<C!Newline>>
           b == C!Taken(a, c, sep)
           open == Append(a.open, c)
<1>1. A \in SUBSET Int /\ sep \in Separators /\ a.open \in Seq(A) /\ Len(a.open) \in Nat /\ Len(sep) = 1
  BY DEF Alphabet, Separators, Scanned
<1>2. \/ \E p \in Seq(A) : p \o sep = open /\ b = [done |-> Append(a.done, p), open |-> <<>>]
      \/ b = [done |-> a.done, open |-> open] /\ C!LastOf(open, 1) # sep
  <2>1. \/ \E p \in Seq(A) : p \o sep = open /\ b = [done |-> Append(a.done, p), open |-> <<>>]
        \/ b = [done |-> a.done, open |-> open] /\ C!LastOf(open, Len(sep)) # sep
    BY <1>1, TakenIs, Zenon
  <2> QED
    BY <1>1, <2>1
<1>3. open \in Seq(A) /\ Len(open) = Len(a.open) + 1 /\ open[Len(a.open) + 1] = c
      /\ \A i \in 1 .. Len(a.open) : open[i] = a.open[i]
  BY <1>1
<1>4. ASSUME NEW p \in Seq(A), p \o sep = open PROVE c = C!Newline /\ p = a.open
  <2>1. Len(p) \in Nat /\ Len(p \o sep) = Len(p) + 1 /\ (p \o sep)[Len(p) + 1] = C!Newline
        /\ \A i \in 1 .. Len(p) : (p \o sep)[i] = p[i]
    <3>1. \A x : <<x>>[1] = x /\ Len(<<x>>) = 1
      OBVIOUS
    <3> QED
      BY <1>1, <3>1
  <2> HIDE DEF open, sep
  <2>2. Len(p) = Len(a.open)
    BY <1>1, <1>3, <1>4, <2>1
  <2>3. c = C!Newline
    BY <1>3, <1>4, <2>1, <2>2
  <2>4. \A i \in 1 .. Len(p) : p[i] = a.open[i]
    BY <1>3, <1>4, <2>1, <2>2
  <2>5. p = a.open
    BY <1>1, <2>2, <2>4, SeqEqual
  <2> QED
    BY <2>3, <2>5
<1>5. C!LastOf(open, 1) = <<c>>
  <2> HIDE DEF open
  <2> DEFINE n == Len(open)
  <2>1. n \in Nat /\ n = Len(a.open) + 1 /\ n >= 1
    BY <1>1, <1>3
  <2>2. C!Max({1, n - 1 + 1}) = n
    <3> HIDE DEF n
    <3>1. n - 1 + 1 \in Int /\ n - 1 + 1 = n
      BY <2>1
    <3>2. C!Max({1, n - 1 + 1}) = IF 1 >= n - 1 + 1 THEN 1 ELSE n - 1 + 1
      BY <3>1, TheGreater
    <3> QED
      BY <2>1, <3>1, <3>2
  <2>3. C!LastOf(open, 1) = SubSeq(open, n, n)
    BY <2>2 DEF C!LastOf
  <2>4. SubSeq(open, n, n) = <<open[n]>>
    <3> HIDE DEF n
    <3>1. SubSeq(open, n, n) \in Seq(A) /\ Len(SubSeq(open, n, n)) = 1 /\ SubSeq(open, n, n)[1] = open[n]
      BY <1>3, <2>1 DEF n
    <3>2. open[n] \in A
      BY <1>3, <2>1 DEF n
    <3>3. <<open[n]>> \in Seq(A) /\ Len(<<open[n]>>) = 1 /\ <<open[n]>>[1] = open[n]
      BY <3>2
    <3>4. \A i \in 1 .. 1 : SubSeq(open, n, n)[i] = <<open[n]>>[i]
      BY <3>1, <3>3
    <3> QED
      BY <3>1, <3>3, <3>4, SeqEqual
  <2> QED
    BY <1>3, <2>1, <2>3, <2>4
<1> HIDE DEF open, b
<1>6. CASE c = C!Newline
  <2>1. \E p \in Seq(A) : p \o sep = open /\ b = [done |-> Append(a.done, p), open |-> <<>>]
    BY <1>2, <1>5, <1>6
  <2>2. b = [done |-> Append(a.done, a.open), open |-> <<>>]
    BY <1>4, <2>1
  <2> QED
    BY <1>6, <2>2 DEF b
<1>7. CASE c # C!Newline
  <2>1. b = [done |-> a.done, open |-> open]
    BY <1>2, <1>4, <1>7
  <2> QED
    BY <1>7, <2>1 DEF b, open
<1> QED
  BY <1>6, <1>7

\* The end of a line starts an empty one.
LEMMA LineEnded ==
  ASSUME NEW t, FileText(t), NEW ls, NEW i \in 1 .. Len(t), LinesInv(t, ls, i - 1), t[i] = C!Newline
  PROVE  LinesInv(t, Append(ls, <<>>), i)
<1> DEFINE n == Len(ls)
           new == Append(ls, <<>>)
<1>1. i \in Nat /\ i > 0 /\ ~ C!IsHeader(t[i])
  BY ChunkerAssumption DEF C!IsHeader, C!Newline
<1>2. ls \in Seq(Text) /\ n \in Nat /\ n # 0
  BY DEF LinesInv
<1>3. /\ new \in Seq(Text) /\ Len(new) = n + 1 /\ new[n + 1] = <<>>
      /\ \A k \in 1 .. n : new[k] = ls[k]
  BY <1>2, TextJoins
<1>4. Len(<<>>) = 0
  OBVIOUS
<1>5. ~ HeaderLine(<<>>)
  BY DEF HeaderLine
<1> HIDE DEF new, n
<1>6. \A k \in 1 .. n + 1 : k = n + 1 \/ k \in 1 .. n
  BY <1>2
<1>7. ASSUME NEW k \in 1 .. n + 1, NEW x \in 1 .. Len(new[k]) PROVE k \in 1 .. n /\ new[k] = ls[k]
  <2>1. k # n + 1
    BY <1>3, <1>4
  <2> QED
    BY <1>3, <1>6, <2>1
<1>8. ASSUME NEW k \in 1 .. n + 1, NEW x \in 1 .. Len(new[k]), new[k][x] > 0 PROVE Place(new[k][x]) <= i
  <2>1. k \in 1 .. n /\ new[k] = ls[k] /\ ls[k] \in Text
    BY <1>2, <1>7 DEF n
  <2>2. Place(ls[k][x]) <= i - 1
    BY <1>8, <2>1 DEF LinesInv, n
  <2>3. Place(ls[k][x]) \in Int
    BY <2>1, ChunkerAssumption DEF Place, Text
  <2> QED
    BY <1>1, <2>1, <2>2, <2>3
<1>9. ASSUME NEW j \in 1 .. n + 1, NEW k \in 1 .. n + 1, j < k, NEW x \in 1 .. Len(new[j]), NEW y \in 1 .. Len(new[k]),
             new[j][x] > 0, new[k][y] > 0
      PROVE  Place(new[j][x]) < Place(new[k][y])
  <2>1. j \in 1 .. n /\ k \in 1 .. n /\ new[j] = ls[j] /\ new[k] = ls[k]
    BY <1>7
  <2> QED
    BY <1>9, <2>1 DEF LinesInv, n
<1>10. ASSUME NEW k \in 1 .. n + 1 PROVE HeaderLine(new[k]) \/ \A x \in 1 .. Len(new[k]) : ~ C!IsHeader(new[k][x])
  <2>1. CASE k = n + 1
    BY <1>3, <1>4, <2>1
  <2>2. CASE k \in 1 .. n
    BY <1>3, <2>2 DEF LinesInv, n
  <2> QED
    BY <1>6, <2>1, <2>2
<1>11. ASSUME NEW p \in 1 .. i, C!IsHeader(t[p]) PROVE \E k \in 1 .. n + 1 : new[k] = <<t[p]>>
  <2>1. p \in 1 .. i - 1
    BY <1>1, <1>11
  <2>2. PICK k \in 1 .. n : ls[k] = <<t[p]>>
    BY <1>11, <2>1 DEF LinesInv, n
  <2>3. k \in 1 .. n + 1 /\ new[k] = ls[k]
    BY <1>2, <1>3
  <2> QED
    BY <2>2, <2>3
<1>12. Len(new) # 0 /\ new[Len(new)] = <<>> /\ ~ HeaderLine(new[Len(new)])
  BY <1>2, <1>3, <1>5
<1>13. LinesInv(t, new, i)
  BY <1>3, <1>8, <1>9, <1>10, <1>11, <1>12 DEF LinesInv
<1> QED
  BY <1>13 DEF new

\* Any other character is put at the end of the last line.
LEMMA LineLonger ==
  ASSUME NEW t, FileText(t), NEW ls, NEW i \in 1 .. Len(t), LinesInv(t, ls, i - 1), t[i] # C!Newline
  PROVE  LinesInv(t, [ls EXCEPT ![Len(ls)] = Append(ls[Len(ls)], t[i])], i)
<1> DEFINE new == [ls EXCEPT ![Len(ls)] = Append(ls[Len(ls)], t[i])]
           n == Len(ls)
           c == t[i]
           l == ls[n]
           m == Len(l)
<1>1. /\ i \in Nat /\ i > 0 /\ c \in Int /\ (c > 0 => Place(c) = i)
      /\ C!IsHeader(c) => i > 1 /\ t[i - 1] = C!Newline
  BY CharacterIs
<1>2. ls \in Seq(Text) /\ n \in Nat /\ n # 0 /\ l \in Text /\ m \in Nat
  <2>1. ls \in Seq(Text) /\ n \in Nat /\ n # 0
    BY DEF LinesInv
  <2>2. l \in Text
    BY <2>1
  <2> QED
    BY <2>1, <2>2 DEF Text
<1>3. /\ Append(l, c) \in Text /\ Len(Append(l, c)) = m + 1 /\ Append(l, c)[m + 1] = c
      /\ \A x \in 1 .. m : Append(l, c)[x] = l[x]
  BY <1>1, <1>2 DEF Text
<1>4. /\ new \in Seq(Text) /\ Len(new) = n /\ new[n] = Append(l, c)
      /\ \A k \in 1 .. n : k # n => new[k] = ls[k]
  <2> HIDE DEF c, l, m
  <2>1. new = [ls EXCEPT ![n] = Append(l, c)]
    BY DEF c, l
  <2>2. n \in 1 .. Len(ls) /\ Append(l, c) \in Text
    BY <1>2, <1>3
  <2> DEFINE e == Append(l, c)
  <2> HIDE DEF e, new
  <2>3. /\ [ls EXCEPT ![n] = e] \in Seq(Text) /\ Len([ls EXCEPT ![n] = e]) = Len(ls)
        /\ \A j \in 1 .. Len(ls) : [ls EXCEPT ![n] = e][j] = IF j = n THEN e ELSE ls[j]
    <3> HIDE DEF n
    <3> QED
      BY <1>2, <2>2, ExceptSeq DEF e
  <2> QED
    BY <2>1, <2>2, <2>3 DEF e
<1>5. ~ HeaderLine(l)
  <2>1. HeaderLine(l) => i - 1 > 0 /\ C!IsHeader(t[i - 1])
    BY DEF LinesInv
  <2>2. ASSUME i - 1 > 0, C!IsHeader(t[i - 1]) PROVE FALSE
    <3>1. i - 1 \in 1 .. Len(t) /\ (i - 1) + 1 = i
      BY <1>1, <2>2
    <3>2. t[(i - 1) + 1] = C!Newline
      BY <2>2, <3>1, CharacterIs
    <3> QED
      BY <3>1, <3>2
  <2> QED
    BY <2>1, <2>2
<1>6. C!IsHeader(c) => m = 0
  <2>1. i - 1 > 0 /\ t[i - 1] = C!Newline => l = <<>>
    BY DEF LinesInv
  <2> QED
    BY <1>1, <2>1
<1> HIDE DEF new
<1>7. \A k \in 1 .. n : k = n \/ (k < n /\ new[k] = ls[k] /\ ls[k] \in Text)
  BY <1>2, <1>4
<1>8. \A x \in 1 .. m + 1 : (x = m + 1 /\ new[n][x] = c) \/ (x \in 1 .. m /\ new[n][x] = l[x])
  BY <1>2, <1>3, <1>4
<1>9. \A k \in 1 .. n : \A x \in 1 .. Len(ls[k]) : ls[k][x] \in Int /\ Place(ls[k][x]) \in Int
                          /\ (ls[k][x] > 0 => Place(ls[k][x]) <= i - 1)
  <2> SUFFICES ASSUME NEW k \in 1 .. n, NEW x \in 1 .. Len(ls[k])
               PROVE  ls[k][x] \in Int /\ Place(ls[k][x]) \in Int /\ (ls[k][x] > 0 => Place(ls[k][x]) <= i - 1)
    OBVIOUS
  <2>1. ls[k] \in Text
    BY <1>2
  <2>2. ls[k][x] \in Int
    BY <2>1 DEF Text
  <2>3. Place(ls[k][x]) \in Int
    BY <2>2, ChunkerAssumption DEF Place
  <2> QED
    BY <2>2, <2>3 DEF LinesInv
<1>10. n \in 1 .. n /\ Len(new[n]) = m + 1
  BY <1>2, <1>3, <1>4
<1>11. ASSUME NEW k \in 1 .. n, NEW x \in 1 .. Len(new[k]), new[k][x] > 0 PROVE Place(new[k][x]) <= i
  <2>1. CASE k = n /\ x = m + 1
    <3>1. new[k][x] = c
      BY <1>3, <1>4, <2>1
    <3> QED
      BY <1>1, <1>11, <3>1
  <2>2. CASE k = n /\ x \in 1 .. m
    <3>1. new[k][x] = ls[k][x]
      BY <1>8, <2>2, <1>3, <1>4
    <3> QED
      BY <1>1, <1>9, <1>11, <2>2, <3>1
  <2>3. CASE k # n
    <3>1. new[k] = ls[k]
      BY <1>7, <2>3
    <3> QED
      BY <1>1, <1>9, <1>11, <3>1
  <2> QED
    BY <1>8, <1>10, <2>1, <2>2, <2>3
<1>12. ASSUME NEW j \in 1 .. n, NEW k \in 1 .. n, j < k, NEW x \in 1 .. Len(new[j]), NEW y \in 1 .. Len(new[k]),
              new[j][x] > 0, new[k][y] > 0
       PROVE  Place(new[j][x]) < Place(new[k][y])
  <2>1. j # n /\ new[j] = ls[j]
    BY <1>2, <1>7, <1>12
  <2>2. CASE k = n /\ y = m + 1
    <3>1. new[k][y] = c
      BY <1>3, <1>4, <2>2
    <3>2. Place(ls[j][x]) <= i - 1 /\ Place(ls[j][x]) \in Int
      BY <1>9, <1>12, <2>1
    <3> QED
      BY <1>1, <1>12, <2>1, <3>1, <3>2
  <2>3. CASE k = n /\ y \in 1 .. m
    <3>1. new[k][y] = ls[k][y]
      BY <1>8, <2>3, <1>3, <1>4
    <3>2. y \in 1 .. Len(ls[k])
      BY <2>3
    <3> QED
      BY <1>12, <2>1, <3>1, <3>2 DEF LinesInv
  <2>4. CASE k # n
    <3>1. new[k] = ls[k]
      BY <1>7, <2>4
    <3> QED
      BY <1>12, <2>1, <3>1 DEF LinesInv
  <2> QED
    BY <1>8, <1>10, <2>2, <2>3, <2>4
<1>13. ASSUME NEW k \in 1 .. n PROVE HeaderLine(new[k]) \/ \A x \in 1 .. Len(new[k]) : ~ C!IsHeader(new[k][x])
  <2>1. CASE k # n
    <3>1. new[k] = ls[k]
      BY <1>7, <2>1
    <3> QED
      BY <3>1 DEF LinesInv
  <2>2. CASE k = n /\ C!IsHeader(c)
    <3>1. m = 0 /\ Len(new[n]) = 1 /\ new[n][1] = c
      BY <1>6, <1>3, <1>4, <2>2
    <3> QED
      BY <2>2, <3>1 DEF HeaderLine
  <2>3. CASE k = n /\ ~ C!IsHeader(c)
    <3>1. \A x \in 1 .. m : ~ C!IsHeader(l[x])
      BY <1>5, <1>10 DEF LinesInv
    <3> QED
      BY <1>8, <1>10, <2>3, <3>1
  <2> QED
    BY <2>1, <2>2, <2>3
<1>14. HeaderLine(new[n]) => C!IsHeader(c)
  <2>1. m + 1 = 1 => m = 0
    BY <1>2
  <2> QED
    BY <1>3, <1>4, <1>10, <2>1 DEF HeaderLine
<1>15. ASSUME NEW p \in 1 .. i, C!IsHeader(t[p]) PROVE \E k \in 1 .. n : new[k] = <<t[p]>>
  <2>1. CASE p = i
    <3>1. m = 0 /\ new[n] = Append(l, c)
      BY <1>4, <1>6, <1>15, <2>1
    <3>2. l = <<>>
      BY <1>2, <3>1 DEF Text
    <3>3. new[n] = <<c>>
      BY <3>1, <3>2
    <3> QED
      BY <1>10, <2>1, <3>3
  <2>2. CASE p # i
    <3>1. p \in 1 .. i - 1
      BY <1>1, <2>2
    <3>2. PICK k \in 1 .. n : ls[k] = <<t[p]>>
      BY <1>15, <3>1 DEF LinesInv
    <3>3. HeaderLine(ls[k])
      BY <1>15, <3>2 DEF HeaderLine
    <3>4. k # n
      BY <1>5, <3>3
    <3> QED
      BY <1>7, <3>2, <3>4
  <2> QED
    BY <2>1, <2>2
<1> HIDE DEF l, m
<1> QED
  BY <1>1, <1>2, <1>4, <1>11, <1>12, <1>13, <1>14, <1>15 DEF LinesInv, new

EndingIn(ls, m) == [ls EXCEPT ![Len(ls)] = m]
Final(ls) == ls[Len(ls)]

\* Another last element is a change of the last one.
LEMMA LastChanged ==
  ASSUME NEW V, NEW ls \in Seq(V), NEW l \in V, NEW m \in V
  PROVE  Append(ls, m) = EndingIn(Append(ls, l), m) /\ Final(Append(ls, l)) = l
<1> DEFINE n == Len(ls)
           a == Append(ls, l)
           b == Append(ls, m)
<1>1. /\ n \in Nat /\ a \in Seq(V) /\ b \in Seq(V) /\ Len(a) = n + 1 /\ Len(b) = n + 1
      /\ a[n + 1] = l /\ b[n + 1] = m
      /\ \A i \in 1 .. n : a[i] = ls[i] /\ b[i] = ls[i]
  OBVIOUS
<1> HIDE DEF a, b, n
<1> DEFINE c == [a EXCEPT ![n + 1] = m]
<1>2. n + 1 \in 1 .. Len(a)
  BY <1>1
<1>3. c \in Seq(V) /\ Len(c) = Len(a) /\ \A i \in 1 .. Len(a) : c[i] = IF i = n + 1 THEN m ELSE a[i]
  BY <1>1, <1>2, ExceptSeq
<1>4. \A i \in 1 .. n + 1 : i = n + 1 \/ i \in 1 .. n
  BY <1>1
<1> HIDE DEF c
<1>5. \A i \in 1 .. n + 1 : b[i] = c[i]
  BY <1>1, <1>3, <1>4
<1>6. b = c
  BY <1>1, <1>3, <1>5, SeqEqual
<1> QED
  BY <1>1, <1>6 DEF a, b, c, EndingIn, Final

\* Before the first character there is one line, an empty one.
LEMMA LinesStart == ASSUME NEW t PROVE LinesInv(t, <<<<>>>>, 0)
<1>1. /\ <<<<>>>> \in Seq(Text) /\ Len(<<<<>>>>) = 1 /\ <<<<>>>>[1] = <<>> /\ Len(<<>>) = 0
      /\ \A k \in 1 .. 1 : k = 1
  BY TextJoins
<1> DEFINE ls == <<<<>>>>
<1>2. \A k \in 1 .. Len(ls) : ls[k] = <<>>
  BY <1>1
<1> HIDE DEF ls
<1>3. \A k \in 1 .. Len(ls) : \A x \in 1 .. Len(ls[k]) : FALSE
  BY <1>1, <1>2
<1>4. ls \in Seq(Text) /\ Len(ls) = 1 /\ ls[Len(ls)] = <<>> /\ ~ HeaderLine(<<>>)
  BY <1>1 DEF ls, HeaderLine
<1>5. LinesInv(t, ls, 0)
  BY <1>3, <1>4 DEF LinesInv
<1> QED
  BY <1>5 DEF ls

\* The lines of a file are in its order, and its headers are lines.
LEMMA LinesAre == ASSUME NEW t, FileText(t) PROVE LinesInv(t, C!Split(t, <<C!Newline>>), Len(t))
<1> DEFINE n == Len(t)
           sep == <<C!Newline>>
<1>1. Alphabet(Int) /\ sep \in Separators /\ t \in Seq(Int) /\ n \in Nat
  BY DEF Alphabet, Separators, C!Space, C!Newline, C!Stop, FileText, Text
<1>2. PICK f \in [0 .. n -> Scanned(Int)] : Splits(t, sep, f) /\ C!Split(t, sep) = Append(f[n].done, f[n].open)
  BY <1>1, SplitBy
<1>3. f[0] = [done |-> <<>>, open |-> <<>>] /\ \A i \in 1 .. n : f[i] = C!Taken(f[i - 1], t[i], sep)
  BY <1>2 DEF Splits
<1>a. ASSUME NEW x \in Seq(Seq(Int)), NEW y \in Seq(Int), NEW z \in Seq(Int)
      PROVE  Append(x, z) = EndingIn(Append(x, y), z) /\ Final(Append(x, y)) = y
  BY LastChanged
<1>b. ASSUME NEW x, NEW i \in 1 .. n, LinesInv(t, x, i - 1), t[i] # C!Newline
      PROVE  LinesInv(t, EndingIn(x, Append(Final(x), t[i])), i)
  BY <1>b, LineLonger DEF EndingIn, Final
<1> DEFINE ls(i) == Append(f[i].done, f[i].open)
           T == {i \in 0 .. n : LinesInv(t, ls(i), i)}
<1>4. 0 \in T
  <2>1. ls(0) = <<<<>>>>
    <3>1. f[0].done = <<>> /\ f[0].open = <<>>
      BY <1>3
    <3>2. ls(0) = Append(<<>>, <<>>)
      BY <3>1
    <3> QED
      BY <3>2
  <2> HIDE DEF ls, n
  <2>2. LinesInv(t, ls(0), 0)
    BY <2>1, LinesStart
  <2> QED
    BY <1>1, <2>2
<1>5. ASSUME NEW i \in 1 .. n, i - 1 \in T PROVE i \in T
  <2> DEFINE a == f[i - 1]
  <2>1. a \in Scanned(Int) /\ t[i] \in Int /\ LinesInv(t, ls(i - 1), i - 1) /\ i \in 0 .. n
    BY <1>1, <1>5
  <2>2. f[i] = IF t[i] = C!Newline THEN [done |-> Append(a.done, a.open), open |-> <<>>]
               ELSE [done |-> a.done, open |-> Append(a.open, t[i])]
    BY <1>1, <1>3, <2>1, LineTaken
  <2>3. a.done \in Seq(Seq(Int)) /\ a.open \in Seq(Int) /\ Append(a.open, t[i]) \in Seq(Int)
    BY <2>1 DEF Scanned
  <2>4. CASE t[i] = C!Newline
    <3>1. f[i].done = ls(i - 1) /\ f[i].open = <<>>
      BY <2>2, <2>4
    <3>2. ls(i) = Append(ls(i - 1), <<>>)
      BY <3>1
    <3> HIDE DEF ls
    <3>3. LinesInv(t, ls(i), i)
      BY <2>1, <2>4, <3>2, LineEnded
    <3> QED
      BY <2>1, <3>3
  <2>5. CASE t[i] # C!Newline
    <3>1. f[i].done = a.done /\ f[i].open = Append(a.open, t[i])
      BY <2>2, <2>5
    <3>2. ls(i) = Append(a.done, Append(a.open, t[i])) /\ ls(i - 1) = Append(a.done, a.open)
      BY <3>1
    <3> DEFINE old == ls(i - 1)
    <3>3. /\ Append(a.done, Append(a.open, t[i])) = EndingIn(Append(a.done, a.open), Append(a.open, t[i]))
          /\ Final(Append(a.done, a.open)) = a.open
      <4> HIDE DEF a
      <4> QED
        BY <2>3, <1>a
    <3>4. ls(i) = EndingIn(old, Append(Final(old), t[i]))
      <4>1. old = Append(a.done, a.open)
        OBVIOUS
      <4> HIDE DEF old, a, ls
      <4> QED
        BY <3>2, <3>3, <4>1
    <3>5. LinesInv(t, old, i - 1)
      BY <2>1
    <3> HIDE DEF ls, old
    <3>6. LinesInv(t, ls(i), i)
      BY <2>5, <3>4, <3>5, <1>b, Zenon
    <3> QED
      BY <2>1, <3>6
  <2> QED
    BY <2>4, <2>5
<1> HIDE DEF T
<1>6. \A i \in 0 .. n : i \in T
  BY <1>1, <1>4, <1>5, Upward
<1>7. n \in 0 .. n
  BY <1>1
<1>8. LinesInv(t, ls(n), n)
  <2> HIDE DEF n, ls
  <2> QED
    BY <1>6, <1>7 DEF T
<1> QED
  BY <1>2, <1>8

\* A word belongs to the header that is the last above it.
Own(t, h, w) ==
  h = C!Max({c \in C!ToSet(t) : C!IsHeader(c) /\ c - MaxText < w} \cup {C!NoHeader})
Of(t, h) == {C!Space, C!Newline, C!Stop} \cup {w \in 1 .. MaxText : Own(t, h, w)}
Headers == {C!NoHeader} \cup MaxText + 1 .. 2 * MaxText

\* The characters of a file.
InFile(t) == {C!Space, C!Newline, C!Stop} \cup {t[i] : i \in 1 .. Len(t)}

\* The last header of the lines before the k-th.
Governs(ls, h, k) ==
  /\ h = C!NoHeader \/ (C!IsHeader(h) /\ \E j \in 1 .. k - 1 : ls[j] = <<h>>)
  /\ \A j \in 1 .. k - 1 : HeaderLine(ls[j]) => ls[j][1] <= h

Lined(t, ls) == FileText(t) /\ LinesInv(t, ls, Len(t)) /\ ls \in Seq(Seq(InFile(t)))

\* The lines of a file are what is between its newlines.
LEMMA LinedIs ==
  ASSUME NEW t, FileText(t)
  PROVE  Alphabet(InFile(t)) /\ t \in Seq(InFile(t)) /\ Lined(t, C!Split(t, <<C!Newline>>))
<1>1. t \in Seq(Int) /\ Len(t) \in Nat /\ \A i \in 1 .. Len(t) : t[i] \in Int
  BY DEF FileText, Text
<1>2. Alphabet(InFile(t))
  BY <1>1 DEF Alphabet, InFile, C!Space, C!Newline, C!Stop
<1>3. t \in Seq(InFile(t))
  <2>1. \A i \in 1 .. Len(t) : t[i] \in InFile(t)
    BY DEF InFile
  <2> QED
    BY <1>1, <2>1
<1>4. <<C!Newline>> \in Separators /\ InFile(t) \in SUBSET Int
  BY <1>2 DEF Separators, Alphabet
<1>5. C!Split(t, <<C!Newline>>) \in Seq(Seq(InFile(t)))
  BY <1>3, <1>4, SplitIs
<1> QED
  BY <1>2, <1>3, <1>5, LinesAre DEF Lined

\* The characters of a section are an alphabet.
LEMMA OfIs == ASSUME NEW t, NEW h PROVE Alphabet(Of(t, h))
BY ChunkerAssumption DEF Alphabet, Of, C!Space, C!Newline, C!Stop

\* A character of a file is a header of it, or a word or blank.
LEMMA InkIs ==
  ASSUME NEW t, FileText(t), NEW c \in InFile(t)
  PROVE  /\ C!IsHeader(c) => c \in MaxText + 1 .. 2 * MaxText /\ c \in C!ToSet(t)
         /\ ~ C!IsHeader(c) => c \in {C!Space, C!Newline, C!Stop} \cup 1 .. MaxText
<1>1. MaxText \in Nat /\ Len(t) \in Nat /\ Len(t) <= MaxText /\ DOMAIN t = 1 .. Len(t)
  BY ChunkerAssumption DEF FileText, Text
<1>2. CASE c \in {C!Space, C!Newline, C!Stop}
  <2>1. c = -1 \/ c = -2 \/ c = -3
    BY <1>2 DEF C!Space, C!Newline, C!Stop
  <2>2. ~ C!IsHeader(c)
    BY <1>1, <2>1 DEF C!IsHeader
  <2> QED
    BY <1>2, <2>2
<1>3. CASE c \in {t[i] : i \in 1 .. Len(t)}
  <2>1. PICK i \in 1 .. Len(t) : c = t[i]
    BY <1>3
  <2>2. C!IsHeader(c) => c = MaxText + i
    BY <2>1, CharacterIs
  <2>3. C!IsHeader(c) => c \in MaxText + 1 .. 2 * MaxText
    BY <1>1, <2>2
  <2>4. c \in C!ToSet(t)
    BY <1>1, <2>1 DEF C!ToSet
  <2>5. c \in {C!Space, C!Newline, C!Stop} \/ c = i \/ c = MaxText + i
    BY <2>1 DEF FileText
  <2>6. c = MaxText + i => C!IsHeader(c)
    BY <1>1 DEF C!IsHeader
  <2>7. c = i => c \in 1 .. MaxText
    BY <1>1
  <2> QED
    BY <2>3, <2>4, <2>5, <2>6, <2>7
<1> QED
  BY <1>2, <1>3 DEF InFile

\* A word of a line is of the section of the header that governs the line.
LEMMA OwnIs ==
  ASSUME NEW t, NEW ls, Lined(t, ls), NEW k \in 1 .. Len(ls), ~ HeaderLine(ls[k]),
         NEW h, Governs(ls, h, k), NEW x \in 1 .. Len(ls[k]), ls[k][x] \in 1 .. MaxText
  PROVE  Own(t, h, ls[k][x])
<1> DEFINE w == ls[k][x]
           Above == {c \in C!ToSet(t) : C!IsHeader(c) /\ c - MaxText < w} \cup {C!NoHeader}
           Most(c) == c \in Above /\ \A d \in Above : c >= d
<1>1. /\ FileText(t) /\ LinesInv(t, ls, Len(t)) /\ MaxText \in Nat
      /\ Len(ls) \in Nat /\ Len(t) \in Nat /\ DOMAIN t = 1 .. Len(t)
      /\ \A j \in 1 .. Len(ls) : ls[j] \in Seq(InFile(t))
  <2>1. FileText(t) /\ LinesInv(t, ls, Len(t)) /\ ls \in Seq(Seq(InFile(t)))
    BY DEF Lined
  <2>2. Len(t) \in Nat /\ DOMAIN t = 1 .. Len(t)
    BY <2>1 DEF FileText, Text
  <2>3. Len(ls) \in Nat /\ \A j \in 1 .. Len(ls) : ls[j] \in Seq(InFile(t))
    BY <2>1
  <2> QED
    BY <2>1, <2>2, <2>3, ChunkerAssumption
<1>2. w \in Nat /\ w > 0 /\ Place(w) = w /\ ~ C!IsHeader(w)
  BY <1>1 DEF Place, C!IsHeader
<1>3. \A j \in 1 .. Len(ls) : HeaderLine(ls[j]) => ls[j] = <<ls[j][1]>> /\ 1 \in 1 .. Len(ls[j])
  BY <1>1 DEF HeaderLine
<1>4. \A c : \A j \in 1 .. Len(ls) : ls[j] = <<c>> => Len(ls[j]) = 1 /\ ls[j][1] = c /\ 1 \in 1 .. Len(ls[j])
  OBVIOUS
<1> HIDE DEF w
<1>5. h \in Above
  <2>1. CASE h = C!NoHeader
    BY <2>1
  <2>2. ASSUME NEW j \in 1 .. k - 1, C!IsHeader(h), ls[j] = <<h>> PROVE h \in Above
    <3>1. j \in 1 .. Len(ls) /\ j < k
      BY <1>1
    <3>2. h \in InFile(t)
      BY <1>1, <1>4, <2>2, <3>1
    <3>3. h \in C!ToSet(t) /\ h \in MaxText + 1 .. 2 * MaxText
      BY <1>1, <2>2, <3>2, InkIs
    <3>4. h > 0 /\ Place(h) = h - MaxText
      BY <1>1, <2>2, <3>3 DEF Place
    <3>5. Place(h) < Place(w)
      BY <1>1, <1>2, <1>4, <2>2, <3>1, <3>4 DEF LinesInv, w
    <3> QED
      BY <1>2, <2>2, <3>3, <3>4, <3>5
  <2> QED
    BY <2>1, <2>2 DEF Governs
<1>6. ASSUME NEW d \in Above PROVE h >= d
  <2>0. h \in Int /\ h >= 0
    <3>1. h = C!NoHeader \/ C!IsHeader(h)
      BY DEF Governs
    <3>2. h = C!NoHeader \/ (h \in C!ToSet(t) /\ \E i \in 1 .. Len(t) : h = t[i])
      BY <1>1, <1>5 DEF C!ToSet
    <3>3. h \in Int
      BY <1>1, <3>2, CharacterIs DEF C!NoHeader
    <3> QED
      BY <1>1, <3>1, <3>3 DEF C!NoHeader, C!IsHeader
  <2>1. CASE d = C!NoHeader
    BY <2>0, <2>1 DEF C!NoHeader
  <2>2. CASE d \in C!ToSet(t) /\ C!IsHeader(d) /\ d - MaxText < w
    <3>1. PICK i \in 1 .. Len(t) : d = t[i]
      BY <1>1, <2>2 DEF C!ToSet
    <3>2. d = MaxText + i /\ i \in Nat /\ d > 0 /\ Place(d) = i
      BY <1>1, <2>2, <3>1, CharacterIs DEF Place
    <3>3. PICK j \in 1 .. Len(ls) : ls[j] = <<d>>
      BY <1>1, <2>2, <3>1 DEF LinesInv
    <3>4. HeaderLine(ls[j]) /\ ls[j][1] = d
      BY <1>4, <2>2, <3>3 DEF HeaderLine
    <3>5. j # k
      BY <3>4
    <3>6. j < k
      <4>1. ASSUME j > k PROVE FALSE
        <5>a. 1 \in 1 .. Len(ls[j]) /\ ls[j][1] > 0 /\ ls[k][x] > 0 /\ ls[j][1] = d
          BY <1>2, <1>4, <3>2, <3>3 DEF w
        <5>b. Place(ls[k][x]) < Place(ls[j][1])
          BY <1>1, <4>1, <5>a DEF LinesInv
        <5>1. Place(w) < Place(d)
          BY <5>a, <5>b DEF w
        <5> QED
          BY <1>1, <1>2, <2>2, <3>2, <5>1
      <4> QED
        BY <1>1, <3>5, <4>1
    <3>7. j \in 1 .. k - 1
      BY <1>1, <3>6
    <3>8. d <= h
      BY <3>4, <3>7 DEF Governs
    <3> QED
      BY <1>1, <2>0, <3>2, <3>8
  <2> QED
    BY <2>1, <2>2
<1>7. Most(h) /\ \A c \in Above : Most(c) => c = h
  <2>1. \A c \in Above : c \in Int
    <3>1. \A c \in C!ToSet(t) : c \in Int
      BY <1>1, CharacterIs DEF C!ToSet
    <3> QED
      BY <3>1 DEF C!NoHeader
  <2>2. Most(h)
    BY <1>5, <1>6
  <2>3. ASSUME NEW c \in Above, Most(c) PROVE c = h
    <3>1. c >= h /\ h >= c /\ c \in Int /\ h \in Int
      BY <1>5, <1>6, <2>1, <2>3
    <3> QED
      BY <3>1
  <2> HIDE DEF Most
  <2> QED
    BY <2>2, <2>3
<1>8. C!Max(Above) = CHOOSE c : Most(c)
  BY DEF C!Max
<1>9. Most(CHOOSE c : Most(c))
  <2> HIDE DEF Most
  <2> QED
    BY <1>7, Zenon
<1>10. C!Max(Above) = h
  <2>1. Most(C!Max(Above))
    <3> HIDE DEF Most
    <3> QED
      BY <1>8, <1>9
  <2> QED
    BY <1>7, <2>1
<1> QED
  BY <1>10 DEF Own, w

Section == [header : Nat, lines : Seq(Text)]
Gathering == [done : Seq(Section), header : Nat, lines : Seq(Text)]

\* What is gathered of a file stays of its type.
LEMMA UnderTyped == ASSUME NEW a \in Gathering, NEW l \in Text PROVE C!Under(a, l) \in Gathering
<1>1. a.done \in Seq(Section) /\ a.header \in Nat /\ a.lines \in Seq(Text)
  BY DEF Gathering
<1>2. CASE l # <<>> /\ C!IsHeader(Head(l))
  <2>1. Head(l) \in Nat
    <3>1. Head(l) \in Int
      BY <1>2 DEF Text
    <3> QED
      BY <1>2, <3>1, ChunkerAssumption DEF C!IsHeader
  <2>2. [header |-> a.header, lines |-> a.lines] \in Section
    BY <1>1 DEF Section
  <2>3. Append(a.done, [header |-> a.header, lines |-> a.lines]) \in Seq(Section) /\ <<>> \in Seq(Text)
    BY <1>1, <2>2
  <2> QED
    BY <1>2, <2>1, <2>3 DEF Gathering, C!Under
<1>3. CASE ~ (l # <<>> /\ C!IsHeader(Head(l)))
  <2>1. Append(a.lines, l) \in Seq(Text)
    BY <1>1
  <2> QED
    BY <1>1, <1>3, <2>1 DEF Gathering, C!Under
<1> QED
  BY <1>2, <1>3

Gathers(ls, f) ==
  /\ f[0] = [done |-> <<>>, header |-> C!NoHeader, lines |-> <<>>]
  /\ \A i \in 1 .. Len(ls) : f[i] = C!Under(f[i - 1], ls[i])

LinesOf(t) == C!Split(t, <<C!Newline>>)

\* sections() is the function that takes one line after another.
LEMMA SectionsBy ==
  ASSUME NEW t, LinesOf(t) \in Seq(Text)
  PROVE  \E f \in [0 .. Len(LinesOf(t)) -> Gathering] : Gathers(LinesOf(t), f) /\ C!Sections(t) = Append(f[Len(LinesOf(t))].done, [header |-> f[Len(LinesOf(t))].header, lines |-> f[Len(LinesOf(t))].lines])
<1> DEFINE n == Len(LinesOf(t))
           Vals == Gathering
           Then(i, a) == C!Under(a, LinesOf(t)[i])
           Is(g) == g = [i \in 0 .. n |-> IF i = 0 THEN [done |-> <<>>, header |-> C!NoHeader, lines |-> <<>>] ELSE Then(i, g[i - 1])]
           acc == CHOOSE g : Is(g)
           turn == [i \in 1 .. n |-> [a \in Vals |-> Then(i, a)]]
<1>1. n \in Nat /\ [done |-> <<>>, header |-> C!NoHeader, lines |-> <<>>] \in Vals
  BY DEF Gathering, C!NoHeader
<1>2. ASSUME NEW i \in 1 .. n, NEW a \in Vals PROVE Then(i, a) \in Vals
  <2>1. LinesOf(t)[i] \in Text /\ a \in Gathering
    OBVIOUS
  <2> QED
    BY <2>1, UnderTyped
<1>3. C!Sections(t) = Append(acc[n].done, [header |-> acc[n].header, lines |-> acc[n].lines])
  BY Zenon DEF C!Sections, LinesOf
<1> HIDE DEF n, Then, Vals
<1>4. Recursed(Vals, [done |-> <<>>, header |-> C!NoHeader, lines |-> <<>>], n, turn)
  <2>1. turn \in [1 .. n -> [Vals -> Vals]]
    BY <1>2
  <2> HIDE DEF turn
  <2> QED
    BY <1>1, <2>1, Recursion
<1>5. PICK g \in [0 .. n -> Vals] : g[0] = [done |-> <<>>, header |-> C!NoHeader, lines |-> <<>>] /\ \A i \in 1 .. n : g[i] = turn[i][g[i - 1]]
  BY <1>4 DEF Recursed
<1>6. Is(g)
  <2>1. \A i \in 1 .. n : g[i] = Then(i, g[i - 1])
    <3> SUFFICES ASSUME NEW i \in 1 .. n PROVE g[i] = Then(i, g[i - 1])
      OBVIOUS
    <3>1. g[i - 1] \in Vals
      BY <1>1
    <3> QED
      BY <1>5, <3>1
  <2> HIDE DEF turn
  <2>2. \A i \in 0 .. n : i = 0 \/ i \in 1 .. n
    BY <1>1
  <2>3. \A i \in 0 .. n : g[i] = IF i = 0 THEN [done |-> <<>>, header |-> C!NoHeader, lines |-> <<>>] ELSE Then(i, g[i - 1])
    BY <1>5, <2>1, <2>2
  <2> QED
    BY <2>3
<1>7. Is(acc)
  <2> HIDE DEF Is
  <2> QED
    BY <1>6, Zenon
<1>8. acc = [i \in 0 .. n |-> acc[i]] /\ acc[0] = [done |-> <<>>, header |-> C!NoHeader, lines |-> <<>>] /\ \A i \in 1 .. n : acc[i] = Then(i, acc[i - 1])
  <2> HIDE DEF acc
  <2> QED
    BY <1>1, <1>7
<1> HIDE DEF acc, Is
<1>9. acc \in [0 .. n -> Vals]
  <2> DEFINE Good == {i \in 0 .. n : acc[i] \in Vals}
  <2>1. 0 \in Good
    BY <1>1, <1>8
  <2>2. ASSUME NEW i \in 1 .. n, i - 1 \in Good PROVE i \in Good
    <3>1. acc[i - 1] \in Vals /\ i \in 0 .. n
      BY <1>1, <2>2
    <3>2. acc[i] \in Vals
      BY <1>2, <1>8, <3>1
    <3> QED
      BY <3>1, <3>2
  <2> HIDE DEF Good
  <2>3. \A i \in 0 .. n : i \in Good
    BY <1>1, <2>1, <2>2, Upward
  <2>4. \A i \in 0 .. n : acc[i] \in Vals
    BY <2>3 DEF Good
  <2> QED
    BY <1>8, <2>4
<1>10. Gathers(LinesOf(t), acc)
  BY <1>8 DEF Gathers, Then, n
<1> QED
  BY <1>3, <1>9, <1>10 DEF n, Vals


\* The lines of sections, a text for each section.
Gathered(secs) == [q \in DOMAIN secs |-> C!FlattenSeq(secs[q].lines)]

\* A further section adds its lines at the end.
LEMMA GatheredIs ==
  ASSUME NEW secs \in Seq(Section), NEW s \in Section
  PROVE  /\ Gathered(secs) \in Seq(Text) /\ C!FlattenSeq(s.lines) \in Text
         /\ Gathered(Append(secs, s)) = Append(Gathered(secs), C!FlattenSeq(s.lines))
<1> DEFINE n == Len(secs)
           longer == Append(secs, s)
<1>1. \A r \in Section : C!FlattenSeq(r.lines) \in Text
  BY FlattenTyped DEF Section, Text
<1>2. /\ n \in Nat /\ DOMAIN secs = 1 .. n /\ longer \in Seq(Section) /\ Len(longer) = n + 1
      /\ DOMAIN longer = 1 .. n + 1 /\ longer[n + 1] = s
      /\ \A q \in 1 .. n : longer[q] = secs[q] /\ secs[q] \in Section
  OBVIOUS
<1> HIDE DEF n, longer
<1>3. Gathered(secs) \in Seq(Text) /\ Len(Gathered(secs)) = n /\ \A q \in 1 .. n : Gathered(secs)[q] = C!FlattenSeq(secs[q].lines)
  BY <1>1, <1>2 DEF Gathered
<1>4. C!FlattenSeq(s.lines) \in Text
  BY <1>1
<1>5. /\ Gathered(longer) \in Seq(Text) /\ Len(Gathered(longer)) = n + 1
      /\ \A q \in 1 .. n + 1 : Gathered(longer)[q] = C!FlattenSeq(longer[q].lines)
  <2>1. \A q \in 1 .. n + 1 : longer[q] \in Section
    BY <1>2
  <2> QED
    BY <1>1, <1>2, <2>1 DEF Gathered
<1> DEFINE x == Append(Gathered(secs), C!FlattenSeq(s.lines))
<1>6. /\ x \in Seq(Text) /\ Len(x) = n + 1 /\ x[n + 1] = C!FlattenSeq(s.lines)
      /\ \A q \in 1 .. n : x[q] = Gathered(secs)[q]
  BY <1>2, <1>3, <1>4
<1> HIDE DEF x
<1>7. \A q \in 1 .. n + 1 : q = n + 1 \/ q \in 1 .. n
  BY <1>2
<1>8. \A q \in 1 .. n + 1 : Gathered(longer)[q] = x[q]
  BY <1>2, <1>3, <1>5, <1>6, <1>7
<1>9. Gathered(longer) = x
  BY <1>5, <1>6, <1>8, SeqEqual
<1> QED
  BY <1>3, <1>4, <1>9 DEF longer, x

\* A section's lines have the words under its header, and no others.
Fitting(t, s) == s.header \in Headers /\ s.lines \in Seq(Seq(Of(t, s.header)))

\* What the first k lines of a file have been gathered to; v are their words.
GatherInv(t, ls, a, k, v) ==
  /\ Governs(ls, a.header, k + 1)
  /\ a.header \in Headers /\ a.lines \in Seq(Seq(Of(t, a.header)))
  /\ \A q \in 1 .. Len(a.done) : Fitting(t, a.done[q])
  /\ AllWords(Gathered(a.done)) \o AllWords(a.lines) = v

\* A line is a header by itself, or of the section it stands in.
LEMMA LineIs ==
  ASSUME NEW t, NEW ls, Lined(t, ls), NEW k \in 1 .. Len(ls)
  PROVE  /\ ls[k] \in Text
         /\ (ls[k] # <<>> /\ C!IsHeader(Head(ls[k]))) <=> HeaderLine(ls[k])
         /\ HeaderLine(ls[k]) => /\ ls[k][1] \in Headers /\ C!IsHeader(ls[k][1]) /\ Head(ls[k]) = ls[k][1]
                                 /\ ls[k] = <<ls[k][1]>> /\ C!Words(ls[k]) = <<>>
         /\ ~ HeaderLine(ls[k]) => \A h : Governs(ls, h, k) => ls[k] \in Seq(Of(t, h))
<1> DEFINE l == ls[k]
<1>1. l \in Seq(InFile(t)) /\ FileText(t) /\ Alphabet(InFile(t)) /\ LinesInv(t, ls, Len(t))
  BY LinedIs DEF Lined
<1>2. l \in Text
  BY <1>1, TextIn DEF Alphabet
<1>3. HeaderLine(l) \/ \A x \in 1 .. Len(l) : ~ C!IsHeader(l[x])
  BY <1>1 DEF LinesInv
<1>4. Len(l) \in Nat /\ \A x \in 1 .. Len(l) : l[x] \in InFile(t)
  BY <1>1
<1> DEFINE n == Len(l)
<1>5. ASSUME NEW h, Governs(ls, h, k), ~ HeaderLine(l) PROVE l \in Seq(Of(t, h))
  <2>1. ASSUME NEW x \in 1 .. n PROVE l[x] \in Of(t, h)
    <3>1. l[x] \in {C!Space, C!Newline, C!Stop} \cup 1 .. MaxText
      BY <1>1, <1>3, <1>4, <1>5, InkIs
    <3>2. CASE l[x] \in 1 .. MaxText
      <4>1. Own(t, h, l[x])
        BY <1>5, <3>2, OwnIs
      <4> QED
        BY <3>2, <4>1 DEF Of
    <3> QED
      BY <3>1, <3>2 DEF Of
  <2>2. l = [x \in 1 .. n |-> l[x]]
    BY <1>1
  <2> QED
    BY <1>4, <2>1, <2>2
<1> HIDE DEF l, n
<1>6. (l # <<>> /\ C!IsHeader(Head(l))) <=> HeaderLine(l)
  <2>1. ASSUME l # <<>>, C!IsHeader(Head(l)) PROVE HeaderLine(l)
    <3>1. 1 \in 1 .. Len(l) /\ Head(l) = l[1]
      BY <1>2, <2>1 DEF Text
    <3> QED
      BY <1>3, <2>1, <3>1
  <2>2. ASSUME HeaderLine(l) PROVE l # <<>> /\ C!IsHeader(Head(l))
    <3>1. Len(l) = 1 /\ C!IsHeader(l[1])
      BY <2>2 DEF HeaderLine
    <3>2. l # <<>> /\ Head(l) = l[1]
      BY <1>2, <3>1 DEF Text
    <3> QED
      BY <3>1, <3>2
  <2> QED
    BY <2>1, <2>2
<1>7. ASSUME HeaderLine(l)
      PROVE  l[1] \in Headers /\ C!IsHeader(l[1]) /\ Head(l) = l[1] /\ l = <<l[1]>> /\ C!Words(l) = <<>>
  <2>1. Len(l) = 1 /\ C!IsHeader(l[1])
    BY <1>7 DEF HeaderLine
  <2>a. 1 \in 1 .. Len(l) /\ l \in Seq(Int) /\ l # <<>>
    BY <1>2, <2>1 DEF Text
  <2>b. l[1] \in Int /\ Head(l) = l[1]
    BY <2>a
  <2>c. l = <<l[1]>>
    <3>1. <<l[1]>> \in Seq(Int) /\ Len(<<l[1]>>) = 1 /\ <<l[1]>>[1] = l[1]
      BY <2>b
    <3>2. \A x \in 1 .. Len(l) : l[x] = <<l[1]>>[x]
      BY <2>1, <3>1
    <3> QED
      BY <2>1, <2>a, <3>1, <3>2, SeqEqual
  <2>2. l[1] \in Int /\ l = <<l[1]>> /\ Head(l) = l[1] /\ l[1] \in InFile(t)
    BY <1>4, <2>a, <2>b, <2>c
  <2>3. l[1] \in Headers
    BY <1>1, <2>1, <2>2, InkIs DEF Headers
  <2>4. Word(l[1]) = <<>>
    BY <2>1, <2>2, ChunkerAssumption DEF Word, C!IsWord, C!IsHeader
  <2>5. C!Words(<<l[1]>>) = Word(l[1])
    BY <2>2, OneWord
  <2> QED
    BY <2>1, <2>2, <2>3, <2>4, <2>5
<1> QED
  BY <1>2, <1>5, <1>6, <1>7 DEF l

\* A further line goes under the last header, and its words at the end.
LEMMA UnderIs ==
  ASSUME NEW t, NEW ls, Lined(t, ls), NEW k \in 1 .. Len(ls), NEW a \in Gathering, NEW v \in Text,
         GatherInv(t, ls, a, k - 1, v)
  PROVE  GatherInv(t, ls, C!Under(a, ls[k]), k, v \o C!Words(ls[k]))
<1> DEFINE l == ls[k]
           b == C!Under(a, l)
           here == [header |-> a.header, lines |-> a.lines]
           Done == AllWords(Gathered(a.done))
           Open == AllWords(a.lines)
<1>1. k \in Nat /\ k - 1 + 1 = k /\ k + 1 - 1 = k /\ l \in Text /\ C!Words(l) \in Text
  BY LineIs, WordsTyped
<1>2. /\ a.done \in Seq(Section) /\ a.header \in Nat /\ a.lines \in Seq(Text)
      /\ here \in Section /\ Len(a.done) \in Nat
  BY DEF Gathering, Section
<1>3. /\ Governs(ls, a.header, k) /\ a.header \in Headers /\ a.lines \in Seq(Seq(Of(t, a.header)))
      /\ \A q \in 1 .. Len(a.done) : Fitting(t, a.done[q])
      /\ Done \o Open = v
  BY <1>1 DEF GatherInv
<1>4. Done \in Text /\ Open \in Text
  BY <1>2, GatheredIs, AllWordsIs
<1>5. \A j \in 1 .. k : j = k \/ j \in 1 .. k - 1
  BY <1>1
<1>6. CASE HeaderLine(l)
  <2>1. /\ l[1] \in Headers /\ C!IsHeader(l[1]) /\ Head(l) = l[1] /\ l = <<l[1]>> /\ C!Words(l) = <<>>
        /\ l # <<>> /\ C!IsHeader(Head(l))
    BY <1>6, LineIs
  <2>2. b = [done |-> Append(a.done, here), header |-> l[1], lines |-> <<>>]
    BY <2>1 DEF C!Under
  <2>3. b.done = Append(a.done, here) /\ b.header = l[1] /\ b.lines = <<>>
    BY <2>2
  <2>4. Governs(ls, l[1], k + 1)
    <3>1. \E j \in 1 .. k + 1 - 1 : ls[j] = <<l[1]>>
      BY <1>1, <2>1
    <3>2. ASSUME NEW j \in 1 .. k - 1, HeaderLine(ls[j]) PROVE ls[j][1] <= l[1]
      <4>1. j \in 1 .. Len(ls) /\ j < k
        BY <1>1
      <4>2. C!IsHeader(ls[j][1]) /\ ls[j][1] \in Headers /\ 1 \in 1 .. Len(ls[j]) /\ 1 \in 1 .. Len(l)
        BY <1>6, <3>2, <4>1, LineIs DEF HeaderLine
      <4>3. /\ ls[j][1] > 0 /\ l[1] > 0 /\ ls[j][1] \in Int /\ l[1] \in Int
            /\ Place(ls[j][1]) = ls[j][1] - MaxText /\ Place(l[1]) = l[1] - MaxText
        BY <2>1, <4>2, ChunkerAssumption DEF Headers, C!IsHeader, C!NoHeader, Place
      <4>4. Place(ls[j][1]) < Place(l[1])
        BY <4>1, <4>2, <4>3 DEF LinesInv, Lined
      <4> HIDE DEF l
      <4> QED
        BY <4>3, <4>4, ChunkerAssumption
    <3>3. l[1] <= l[1]
      BY <2>1, ChunkerAssumption DEF Headers, C!NoHeader
    <3>4. \A j \in 1 .. k + 1 - 1 : HeaderLine(ls[j]) => ls[j][1] <= l[1]
      BY <1>1, <1>5, <3>2, <3>3
    <3> HIDE DEF l
    <3> QED
      BY <2>1, <3>1, <3>4 DEF Governs
  <2>5. \A q \in 1 .. Len(b.done) : Fitting(t, b.done[q])
    <3>1. Fitting(t, here)
      BY <1>3 DEF Fitting
    <3>2. /\ Len(Append(a.done, here)) = Len(a.done) + 1 /\ Append(a.done, here)[Len(a.done) + 1] = here
          /\ \A q \in 1 .. Len(a.done) : Append(a.done, here)[q] = a.done[q]
      BY <1>2
    <3>3. \A q \in 1 .. Len(a.done) + 1 : q = Len(a.done) + 1 \/ q \in 1 .. Len(a.done)
      BY <1>2
    <3> HIDE DEF here, b
    <3> QED
      BY <1>3, <2>3, <3>1, <3>2, <3>3
  <2>6. AllWords(Gathered(b.done)) \o AllWords(b.lines) = v \o C!Words(l)
    <3>1. Gathered(Append(a.done, here)) = Append(Gathered(a.done), C!FlattenSeq(a.lines))
          /\ Gathered(a.done) \in Seq(Text) /\ C!FlattenSeq(a.lines) \in Text
      <4>1. here.lines = a.lines
        OBVIOUS
      <4> HIDE DEF here
      <4> QED
        BY <1>2, <4>1, GatheredIs
    <3>a. AllWords(Append(Gathered(a.done), C!FlattenSeq(a.lines))) = Done \o C!Words(C!FlattenSeq(a.lines))
      BY <3>1, AllWordsIs
    <3>b. C!Words(C!FlattenSeq(a.lines)) = Open
      BY DEF AllWords
    <3>2. AllWords(Gathered(b.done)) = Done \o Open
      <4> HIDE DEF Done, Open, b, here
      <4> QED
        BY <2>3, <3>1, <3>a, <3>b
    <3>3. AllWords(b.lines) = <<>>
      BY <2>3, AllWordsIs
    <3> HIDE DEF Done, Open, b, l
    <3> QED
      BY <1>3, <2>1, <3>2, <3>3
  <2>7. b.lines \in Seq(Seq(Of(t, b.header)))
    BY <2>3
  <2> HIDE DEF b, l
  <2> QED
    BY <2>1, <2>3, <2>4, <2>5, <2>6, <2>7 DEF GatherInv, b, l
<1>7. CASE ~ HeaderLine(l)
  <2>1. ~ (l # <<>> /\ C!IsHeader(Head(l))) /\ l \in Seq(Of(t, a.header))
    BY <1>3, <1>7, LineIs
  <2>2. b = [done |-> a.done, header |-> a.header, lines |-> Append(a.lines, l)]
    BY <2>1 DEF C!Under
  <2>3. b.done = a.done /\ b.header = a.header /\ b.lines = Append(a.lines, l)
    BY <2>2
  <2>4. Governs(ls, a.header, k + 1)
    <3>1. \A j \in 1 .. k - 1 : j \in 1 .. k + 1 - 1
      BY <1>1
    <3>2. \A j \in 1 .. k + 1 - 1 : HeaderLine(ls[j]) => j \in 1 .. k - 1
      BY <1>1, <1>5, <1>7
    <3>3. \A j \in 1 .. k + 1 - 1 : HeaderLine(ls[j]) => ls[j][1] <= a.header
      BY <1>3, <3>2 DEF Governs
    <3>4. a.header = C!NoHeader \/ (C!IsHeader(a.header) /\ \E j \in 1 .. k + 1 - 1 : ls[j] = <<a.header>>)
      BY <1>3, <3>1 DEF Governs
    <3> QED
      BY <3>3, <3>4 DEF Governs
  <2>5. b.lines \in Seq(Seq(Of(t, b.header)))
    BY <1>3, <2>1, <2>3
  <2>6. AllWords(Append(a.lines, l)) = Open \o C!Words(l)
    BY <1>1, <1>2, AllWordsIs
  <2>7. Done \o (Open \o C!Words(l)) = (Done \o Open) \o C!Words(l)
    <3> HIDE DEF Done, Open, l
    <3> QED
      BY <1>1, <1>4, TextJoins
  <2>8. AllWords(Gathered(b.done)) \o AllWords(b.lines) = v \o C!Words(l)
    <3> HIDE DEF b, l
    <3> QED
      BY <1>3, <2>3, <2>6, <2>7
  <2> HIDE DEF b, l
  <2> QED
    BY <1>3, <2>3, <2>4, <2>5, <2>8 DEF GatherInv, b, l
<1> QED
  BY <1>6, <1>7

\* The sections of a file have its words, each under its own header.
LEMMA SectionsAre ==
  ASSUME NEW t, FileText(t)
  PROVE  /\ C!Sections(t) \in Seq(Section) /\ AllWords(Gathered(C!Sections(t))) = C!Words(t)
         /\ \A q \in 1 .. Len(C!Sections(t)) : Fitting(t, C!Sections(t)[q])
<1> DEFINE ls == LinesOf(t)
           n == Len(ls)
<1>1. Lined(t, ls)
  BY LinedIs DEF LinesOf
<1>2. ls \in Seq(Text) /\ n \in Nat /\ AllWords(ls) = C!Words(t)
  <2>1. InFile(t) \in SUBSET Int /\ t \in Seq(InFile(t)) /\ <<C!Newline>> \in Separators
    BY LinedIs DEF Alphabet, Separators
  <2>2. ls \in Seq(Seq(InFile(t))) /\ AllWords(ls) = C!Words(t)
    BY <2>1, SplitIs DEF LinesOf
  <2> HIDE DEF ls
  <2> QED
    BY <2>1, <2>2, TextIn
<1>3. PICK f \in [0 .. n -> Gathering] :
        /\ Gathers(ls, f)
        /\ C!Sections(t) = Append(f[n].done, [header |-> f[n].header, lines |-> f[n].lines])
  BY <1>2, SectionsBy
<1>4. PICK g \in [0 .. n -> Text] : Flattens(ls, g) /\ C!FlattenSeq(ls) = g[n]
  <2> HIDE DEF ls
  <2> QED
    BY <1>2, FlattenIs DEF Text
<1>5. /\ f[0] = [done |-> <<>>, header |-> C!NoHeader, lines |-> <<>>]
      /\ \A i \in 1 .. n : f[i] = C!Under(f[i - 1], ls[i])
      /\ g[0] = <<>> /\ \A i \in 1 .. n : g[i] = g[i - 1] \o ls[i]
  BY <1>3, <1>4 DEF Gathers, Flattens
<1> DEFINE T == {k \in 0 .. n : GatherInv(t, ls, f[k], k, C!Words(g[k]))}
<1> HIDE DEF ls
<1>6. 0 \in T
  <2>1. f[0].done = <<>> /\ f[0].header = C!NoHeader /\ f[0].lines = <<>>
    BY <1>5
  <2>2. Gathered(<<>>) = <<>> /\ Len(<<>>) = 0
    BY DEF Gathered
  <2>3. C!Words(<<>>) = <<>> /\ AllWords(<<>>) = <<>> /\ <<>> \o <<>> = <<>>
    BY AllWordsIs, FlattenNone, TextJoins DEF AllWords
  <2>4. Governs(ls, C!NoHeader, 0 + 1)
    BY DEF Governs
  <2>a. C!NoHeader \in Headers /\ <<>> \in Seq(Seq(Of(t, C!NoHeader)))
    BY DEF Headers
  <2>b. \A q \in 1 .. Len(<<>>) : FALSE
    BY <2>2
  <2>c. g[0] = <<>>
    BY <1>5
  <2>5. GatherInv(t, ls, f[0], 0, C!Words(g[0]))
    BY <2>1, <2>2, <2>3, <2>4, <2>a, <2>b, <2>c DEF GatherInv
  <2> HIDE DEF n
  <2> QED
    BY <1>2, <2>5
<1>7. ASSUME NEW i \in 1 .. n, i - 1 \in T PROVE i \in T
  <2>1. /\ i \in 0 .. n /\ f[i - 1] \in Gathering /\ g[i - 1] \in Text /\ ls[i] \in Text
        /\ GatherInv(t, ls, f[i - 1], i - 1, C!Words(g[i - 1]))
    BY <1>2, <1>7
  <2>2. C!Words(g[i - 1]) \in Text /\ C!Words(g[i]) = C!Words(g[i - 1]) \o C!Words(ls[i])
    <3>1. C!Words(g[i - 1]) \in Text
      BY <2>1, WordsTyped
    <3>2. C!Words(g[i - 1] \o ls[i]) = C!Words(g[i - 1]) \o C!Words(ls[i])
      BY <2>1, WordsJoin
    <3>3. g[i] = g[i - 1] \o ls[i]
      BY <1>5
    <3> QED
      BY <3>1, <3>2, <3>3
  <2>3. GatherInv(t, ls, C!Under(f[i - 1], ls[i]), i, C!Words(g[i - 1]) \o C!Words(ls[i]))
    BY <1>1, <2>1, <2>2, UnderIs
  <2> QED
    BY <1>5, <2>1, <2>2, <2>3
<1> HIDE DEF T
<1>8. \A k \in 0 .. n : k \in T
  BY <1>2, <1>6, <1>7, Upward
<1> DEFINE e == f[n]
           last == [header |-> e.header, lines |-> e.lines]
<1>9. n \in 0 .. n /\ GatherInv(t, ls, e, n, AllWords(ls))
  BY <1>2, <1>4, <1>8 DEF T, AllWords
<1>10. /\ e.done \in Seq(Section) /\ e.header \in Nat /\ e.lines \in Seq(Text)
       /\ last \in Section /\ Len(e.done) \in Nat /\ last.lines = e.lines
  <2>1. e \in Gathering
    BY <1>9
  <2> HIDE DEF e
  <2> QED
    BY <2>1 DEF Gathering, Section
<1>11. C!Sections(t) = Append(e.done, last)
  BY <1>3
<1> HIDE DEF e, last
<1>12. /\ Len(Append(e.done, last)) = Len(e.done) + 1 /\ Append(e.done, last)[Len(e.done) + 1] = last
       /\ \A q \in 1 .. Len(e.done) : Append(e.done, last)[q] = e.done[q]
       /\ Append(e.done, last) \in Seq(Section)
  BY <1>10
<1>13. Fitting(t, last) /\ \A q \in 1 .. Len(e.done) : Fitting(t, e.done[q])
  BY <1>9 DEF GatherInv, Fitting, last
<1>14. \A q \in 1 .. Len(e.done) + 1 : q = Len(e.done) + 1 \/ q \in 1 .. Len(e.done)
  BY <1>10
<1>15. \A q \in 1 .. Len(C!Sections(t)) : Fitting(t, C!Sections(t)[q])
  BY <1>11, <1>12, <1>13, <1>14
<1>16. AllWords(Gathered(Append(e.done, last))) = AllWords(Gathered(e.done)) \o AllWords(e.lines)
  <2>1. /\ Gathered(Append(e.done, last)) = Append(Gathered(e.done), C!FlattenSeq(e.lines))
        /\ Gathered(e.done) \in Seq(Text) /\ C!FlattenSeq(e.lines) \in Text
    BY <1>10, GatheredIs
  <2> QED
    BY <2>1, AllWordsIs DEF AllWords
<1>17. AllWords(Gathered(C!Sections(t))) = C!Words(t)
  BY <1>2, <1>9, <1>11, <1>16 DEF GatherInv
<1> QED
  BY <1>11, <1>12, <1>15, <1>17


\* A chunk before the chunks overlap, and the texts of some.
Snippet == [verbatim : Text, header : Nat]
Verbatims(cs) == [i \in DOMAIN cs |-> cs[i].verbatim]

\* What chunks say verbatim, as lists of them are joined.
LEMMA VerbatimsJoin ==
  ASSUME NEW cs \in Seq(Snippet), NEW ds \in Seq(Snippet)
  PROVE  Verbatims(cs) \in Seq(Text) /\ Verbatims(cs \o ds) = Verbatims(cs) \o Verbatims(ds)
<1>1. \A s \in Snippet : s.verbatim \in Text
  BY DEF Snippet
<1>2. /\ Verbatims(cs) \in Seq(Text) /\ Len(Verbatims(cs)) = Len(cs)
      /\ \A i \in 1 .. Len(cs) : Verbatims(cs)[i] = cs[i].verbatim
  BY <1>1 DEF Verbatims
<1>3. /\ Verbatims(ds) \in Seq(Text) /\ Len(Verbatims(ds)) = Len(ds)
      /\ \A i \in 1 .. Len(ds) : Verbatims(ds)[i] = ds[i].verbatim
  BY <1>1 DEF Verbatims
<1>4. /\ cs \o ds \in Seq(Snippet) /\ Len(cs) \in Nat /\ Len(ds) \in Nat
      /\ Len(cs \o ds) = Len(cs) + Len(ds)
      /\ \A i \in 1 .. Len(cs) : (cs \o ds)[i] = cs[i]
      /\ \A i \in Len(cs) + 1 .. Len(cs) + Len(ds) : (cs \o ds)[i] = ds[i - Len(cs)]
  OBVIOUS
<1>5. /\ Verbatims(cs \o ds) \in Seq(Text) /\ Len(Verbatims(cs \o ds)) = Len(cs) + Len(ds)
      /\ \A i \in 1 .. Len(cs) + Len(ds) : Verbatims(cs \o ds)[i] = (cs \o ds)[i].verbatim
  <2> DEFINE both == cs \o ds
  <2>1. both \in Seq(Snippet) /\ Len(both) = Len(cs) + Len(ds)
    BY <1>4
  <2> HIDE DEF both
  <2>2. /\ Verbatims(both) \in Seq(Text) /\ Len(Verbatims(both)) = Len(both)
        /\ \A i \in 1 .. Len(both) : Verbatims(both)[i] = both[i].verbatim
    BY <1>1, <2>1 DEF Verbatims
  <2> QED
    BY <2>1, <2>2 DEF both
<1> DEFINE x == Verbatims(cs) \o Verbatims(ds)
<1>6. /\ x \in Seq(Text) /\ Len(x) = Len(cs) + Len(ds)
      /\ \A i \in 1 .. Len(cs) : x[i] = Verbatims(cs)[i]
      /\ \A i \in Len(cs) + 1 .. Len(cs) + Len(ds) : x[i] = Verbatims(ds)[i - Len(cs)]
  <2>1. \A a, b \in Seq(Text) :
          /\ a \o b \in Seq(Text) /\ Len(a \o b) = Len(a) + Len(b)
          /\ \A i \in 1 .. Len(a) : (a \o b)[i] = a[i]
          /\ \A i \in Len(a) + 1 .. Len(a) + Len(b) : (a \o b)[i] = b[i - Len(a)]
    OBVIOUS
  <2> DEFINE a == Verbatims(cs)
             b == Verbatims(ds)
  <2>2. a \in Seq(Text) /\ b \in Seq(Text) /\ Len(a) = Len(cs) /\ Len(b) = Len(ds)
    BY <1>2, <1>3
  <2> HIDE DEF a, b
  <2>3. /\ x \in Seq(Text) /\ Len(x) = Len(a) + Len(b)
        /\ \A i \in 1 .. Len(a) : x[i] = a[i]
        /\ \A i \in Len(a) + 1 .. Len(a) + Len(b) : x[i] = b[i - Len(a)]
    BY <2>1, <2>2, Zenon DEF a, b
  <2> QED
    BY <2>2, <2>3 DEF a, b
<1> HIDE DEF x
<1>7. \A i \in 1 .. Len(cs) + Len(ds) : Verbatims(cs \o ds)[i] = x[i]
  <2> SUFFICES ASSUME NEW i \in 1 .. Len(cs) + Len(ds) PROVE Verbatims(cs \o ds)[i] = x[i]
    OBVIOUS
  <2>1. CASE i \in 1 .. Len(cs)
    BY <1>2, <1>4, <1>5, <1>6, <2>1
  <2>2. CASE i \in Len(cs) + 1 .. Len(cs) + Len(ds)
    <3>1. i - Len(cs) \in 1 .. Len(ds)
      BY <1>4, <2>2
    <3> QED
      BY <1>3, <1>4, <1>5, <1>6, <2>2, <3>1
  <2> QED
    BY <1>4, <2>1, <2>2
<1>8. Verbatims(cs \o ds) = x
  BY <1>5, <1>6, <1>7, SeqEqual
<1> QED
  BY <1>2, <1>8 DEF x

\* If what each text becomes has its words, all of it has the words of all.
LEMMA SnippetsKeep ==
  ASSUME NEW P \in Seq(Text), NEW Q \in Seq(Seq(Snippet)), Len(P) = Len(Q),
         \A i \in 1 .. Len(P) : AllWords(Verbatims(Q[i])) = C!Words(P[i])
  PROVE  /\ C!FlattenSeq(Q) \in Seq(Snippet)
         /\ AllWords(Verbatims(C!FlattenSeq(Q))) = AllWords(P)
<1> DEFINE n == Len(Q)
           V == [i \in DOMAIN Q |-> Verbatims(Q[i])]
<1>1. n \in Nat /\ DOMAIN Q = 1 .. n /\ \A i \in 1 .. n : Q[i] \in Seq(Snippet)
  OBVIOUS
<1>2. \A cs \in Seq(Snippet) : Verbatims(cs) \in Seq(Text)
  BY VerbatimsJoin
<1>3. V \in Seq(Seq(Text)) /\ Len(V) = n /\ \A i \in 1 .. n : V[i] = Verbatims(Q[i])
  BY <1>1, <1>2
<1> HIDE DEF V
<1>4. PICK f \in [0 .. n -> Seq(Snippet)] : Flattens(Q, f) /\ C!FlattenSeq(Q) = f[n]
  BY FlattenIs
<1>5. PICK g \in [0 .. n -> Seq(Text)] : Flattens(V, g) /\ C!FlattenSeq(V) = g[n]
  <2>1. V \in Seq(Seq(Text))
    BY <1>3
  <2> HIDE DEF n
  <2>2. \E g \in [0 .. Len(V) -> Seq(Text)] : Flattens(V, g) /\ C!FlattenSeq(V) = g[Len(V)]
    BY <2>1, FlattenIs
  <2> QED
    BY <1>3, <2>2
<1>6. /\ f[0] = <<>> /\ \A i \in 1 .. n : f[i] = f[i - 1] \o Q[i]
      /\ g[0] = <<>> /\ \A i \in 1 .. n : g[i] = g[i - 1] \o V[i]
  BY <1>3, <1>4, <1>5 DEF Flattens
<1> HIDE DEF n
<1> DEFINE T == {k \in 0 .. n : Verbatims(f[k]) = g[k]}
<1>7. 0 \in T
  <2>1. Verbatims(<<>>) = <<>>
    BY DEF Verbatims
  <2>2. Verbatims(f[0]) = g[0]
    BY <1>6, <2>1
  <2>3. 0 \in 0 .. n
    BY <1>1
  <2> QED
    BY <2>2, <2>3
<1>8. ASSUME NEW i \in 1 .. n, i - 1 \in T PROVE i \in T
  <2>1. f[i - 1] \in Seq(Snippet) /\ Q[i] \in Seq(Snippet) /\ i \in 0 .. n /\ Verbatims(f[i - 1]) = g[i - 1]
    BY <1>1, <1>8
  <2>2. Verbatims(f[i - 1] \o Q[i]) = Verbatims(f[i - 1]) \o Verbatims(Q[i])
    BY <2>1, VerbatimsJoin
  <2>3. Verbatims(f[i]) = g[i]
    BY <1>3, <1>6, <2>1, <2>2
  <2> QED
    BY <2>1, <2>3
<1> HIDE DEF T
<1>9. \A k \in 0 .. n : k \in T
  BY <1>1, <1>7, <1>8, Upward
<1>10. n \in 0 .. n /\ Verbatims(f[n]) = g[n]
  BY <1>1, <1>9 DEF T
<1>11. AllWords(C!FlattenSeq(V)) = AllWords(P)
  <2>1. Len(P) = Len(V) /\ \A i \in 1 .. Len(P) : AllWords(V[i]) = C!Words(P[i])
    BY <1>3 DEF n
  <2> QED
    BY <1>3, <2>1, SameNested
<1>12. Verbatims(C!FlattenSeq(Q)) = C!FlattenSeq(V)
  BY <1>4, <1>5, <1>10
<1> QED
  BY <1>4, <1>10, <1>11, <1>12


\* The chunks that a file may have: short, and of one section.
Snippets(t) == {c \in Snippet : c.header \in Headers /\ c.verbatim \in Short(Of(t, c.header))}

Piece(p, h) == IF C!Strip(p) = <<>> THEN <<>> ELSE <<[verbatim |-> C!Strip(p), header |-> h]>>

\* A short piece of a section becomes a chunk with its words, or none has any.
LEMMA PieceIs ==
  ASSUME NEW t, NEW h \in Headers, NEW p \in Short(Of(t, h))
  PROVE  Piece(p, h) \in Seq(Snippets(t)) /\ AllWords(Verbatims(Piece(p, h))) = C!Words(p)
<1> DEFINE A == Of(t, h)
           u == C!Strip(p)
           c == [verbatim |-> u, header |-> h]
<1>1. A \in SUBSET Int
  BY OfIs DEF Alphabet
<1>2. p \in Seq(A) /\ p \in Text /\ Len(p) <= Size /\ h \in Nat
  <2>1. h \in Nat
    BY ChunkerAssumption DEF Headers, C!NoHeader
  <2>2. p \in Seq(A) /\ p \in Text
    <3> HIDE DEF A
    <3> QED
      BY <1>1, ShortIs DEF A
  <2> QED
    BY <2>1, <2>2 DEF Short
<1> HIDE DEF A
<1>3. u \in Seq(A) /\ Len(u) <= Len(p) /\ C!Words(u) = C!Words(p) /\ Size \in Nat
  BY <1>1, <1>2, StripIs, ChunkerAssumption
<1>4. u \in Short(A) /\ u \in Text
  <2> HIDE DEF u
  <2>1. Len(u) <= Size
    BY <1>2, <1>3 DEF Text
  <2>2. u \in Text
    BY <1>1, <1>3, TextIn
  <2> QED
    BY <1>3, <2>1, <2>2 DEF Short
<1>5. CASE u = <<>>
  <2>1. Verbatims(<<>>) = <<>> /\ Piece(p, h) = <<>> /\ C!Words(<<>>) = <<>>
    BY <1>5, AllWordsIs, FlattenNone DEF Verbatims, Piece, AllWords
  <2> QED
    BY <1>3, <1>5, <2>1, AllWordsIs
<1>6. CASE u # <<>>
  <2>1. Piece(p, h) = <<c>>
    BY <1>6 DEF Piece
  <2>2. c \in Snippets(t)
    BY <1>2, <1>4 DEF Snippets, Snippet, A
  <2>3. Verbatims(<<c>>) = <<u>>
    <3>1. Len(<<c>>) = 1 /\ <<c>>[1] = c /\ c.verbatim = u
      OBVIOUS
    <3> HIDE DEF c, u
    <3>2. DOMAIN <<c>> = {1}
      BY <3>1
    <3> QED
      BY <3>1, <3>2 DEF Verbatims
  <2>4. <<c>> \in Seq(Snippets(t))
    BY <2>2
  <2>5. AllWords(<<u>>) = C!Words(u)
    BY <1>4, AllWordsIs
  <2> HIDE DEF c, u
  <2> QED
    BY <1>3, <2>1, <2>3, <2>4, <2>5 DEF u
<1> QED
  BY <1>5, <1>6

\* Chunks of a file are chunks.
LEMMA SnippetsAre == ASSUME NEW t PROVE \A cs \in Seq(Snippets(t)) : cs \in Seq(Snippet)
BY DEF Snippets

\* The pieces of a section are chunks under its header, and have its words.
LEMMA PiecesIs ==
  ASSUME NEW t, NEW s, Fitting(t, s)
  PROVE  C!Pieces(s) \in Seq(Snippets(t)) /\ AllWords(Verbatims(C!Pieces(s))) = AllWords(s.lines)
<1> DEFINE h == s.header
           A == Of(t, h)
           whole == C!Join(s.lines, <<C!Newline>>)
           split == C!RecursiveSplit(C!Strip(whole))
           Q == [i \in DOMAIN split |-> Piece(split[i], h)]
<1>1. Alphabet(A) /\ A \in SUBSET Int /\ h \in Headers /\ s.lines \in Seq(Seq(A))
  BY OfIs DEF Fitting, Alphabet
<1>2. C!Pieces(s) = C!FlattenSeq(Q)
  BY Zenon DEF C!Pieces, Piece
<1> HIDE DEF A, h
<1>3. whole \in Seq(A) /\ C!Words(whole) = AllWords(s.lines)
  <2>1. Separates(<<C!Newline>>)
    BY DEF Separates, Separators
  <2> QED
    BY <1>1, <2>1, JoinIs
<1> HIDE DEF whole
<1>4. C!Strip(whole) \in Seq(A) /\ C!Words(C!Strip(whole)) = C!Words(whole)
  BY <1>1, <1>3, StripIs
<1>5. split \in Seq(Short(A)) /\ AllWords(split) = AllWords(s.lines)
  BY <1>1, <1>3, <1>4, RecursiveSplitIs
<1> HIDE DEF split
<1>6. \A i \in 1 .. Len(split) : split[i] \in Short(A) /\ split[i] \in Text
  <2>1. \A i \in 1 .. Len(split) : split[i] \in Short(A)
    BY <1>5
  <2> QED
    BY <1>1, <2>1, ShortIs
<1>7. \A i \in 1 .. Len(split) : /\ Piece(split[i], h) \in Seq(Snippets(t))
                                 /\ AllWords(Verbatims(Piece(split[i], h))) = C!Words(split[i])
  BY <1>1, <1>6, PieceIs DEF A
<1>8. /\ split \in Seq(Text) /\ Q \in Seq(Seq(Snippets(t))) /\ Len(Q) = Len(split)
      /\ \A i \in 1 .. Len(split) : Q[i] = Piece(split[i], h)
  <2>1. DOMAIN split = 1 .. Len(split) /\ Len(split) \in Nat
    BY <1>5
  <2>2. Q \in Seq(Seq(Snippets(t))) /\ Len(Q) = Len(split)
    BY <1>7, <2>1
  <2>3. split \in Seq(Text)
    BY <1>1, <1>5, <1>6
  <2> QED
    BY <2>1, <2>2, <2>3
<1> HIDE DEF Q
<1>9. Q \in Seq(Seq(Snippet))
  BY <1>8, SnippetsAre
<1>10. C!FlattenSeq(Q) \in Seq(Snippets(t))
  BY <1>8, FlattenTyped
<1>11. AllWords(Verbatims(C!FlattenSeq(Q))) = AllWords(split)
  <2>1. \A i \in 1 .. Len(split) : AllWords(Verbatims(Q[i])) = C!Words(split[i])
    BY <1>7, <1>8
  <2> QED
    BY <1>8, <1>9, <2>1, SnippetsKeep
<1> QED
  BY <1>2, <1>5, <1>10, <1>11

\* The chunks of a file have its words.
LEMMA VerbatimIs ==
  ASSUME NEW t, FileText(t)
  PROVE  C!Verbatim(t) \in Seq(Snippets(t)) /\ AllWords(Verbatims(C!Verbatim(t))) = C!Words(t)
<1> DEFINE secs == C!Sections(t)
           n == Len(secs)
           P == Gathered(secs)
           Q == [i \in DOMAIN secs |-> C!Pieces(secs[i])]
<1>1. /\ secs \in Seq(Section) /\ AllWords(P) = C!Words(t)
      /\ \A q \in 1 .. n : Fitting(t, secs[q])
  BY SectionsAre
<1>2. C!Verbatim(t) = C!FlattenSeq(Q)
  BY Zenon DEF C!Verbatim
<1> HIDE DEF secs
<1>3. n \in Nat /\ DOMAIN secs = 1 .. n /\ \A q \in 1 .. n : secs[q] \in Section
  BY <1>1
<1> HIDE DEF n
<1>4. \A q \in 1 .. n : C!FlattenSeq(secs[q].lines) \in Text
  BY <1>3, GatheredIs, <1>1
<1>5. P \in Seq(Text) /\ Len(P) = n /\ \A q \in 1 .. n : P[q] = C!FlattenSeq(secs[q].lines)
  BY <1>3, <1>4 DEF Gathered
<1> HIDE DEF P
<1>6. \A q \in 1 .. n : /\ C!Pieces(secs[q]) \in Seq(Snippets(t))
                        /\ AllWords(Verbatims(C!Pieces(secs[q]))) = AllWords(secs[q].lines)
  BY <1>1, PiecesIs
<1>7. Q \in Seq(Seq(Snippets(t))) /\ Len(Q) = n /\ \A q \in 1 .. n : Q[q] = C!Pieces(secs[q])
  BY <1>3, <1>6
<1> HIDE DEF Q
<1>8. Q \in Seq(Seq(Snippet))
  BY <1>7, SnippetsAre
<1>9. \A q \in 1 .. n : AllWords(Verbatims(Q[q])) = C!Words(P[q])
  BY <1>5, <1>6, <1>7 DEF AllWords
<1>10. AllWords(Verbatims(C!FlattenSeq(Q))) = AllWords(P)
  BY <1>5, <1>7, <1>8, <1>9, SnippetsKeep
<1>11. C!FlattenSeq(Q) \in Seq(Snippets(t))
  BY <1>7, FlattenTyped
<1> QED
  BY <1>1, <1>2, <1>10, <1>11


\* A chunk with the end of the one before in front of it.
Wrapped == [text : Seq(C!Characters), verbatim : Text, header : Nat]
Bare == {c \in Snippet : c.verbatim \in Seq(C!Characters)}
Lapped(a, c) == Append(a, [text |-> C!Prefixed(a, c), verbatim |-> c.verbatim, header |-> c.header])

\* Characters are numbers.
LEMMA CharactersAre ==
  C!Characters \in SUBSET Int /\ {C!Space, C!Newline, C!Stop, C!Continued} \subseteq C!Characters
<1>1. MaxText \in Nat
  BY ChunkerAssumption
<1> QED
  BY <1>1 DEF C!Characters, C!Space, C!Newline, C!Stop, C!Continued

\* A chunk that is prefixed by the end of the one before is of characters.
LEMMA PrefixedIs ==
  ASSUME NEW a \in Seq(Wrapped), NEW c \in Bare
  PROVE  C!Prefixed(a, c) \in Seq(C!Characters)
<1> DEFINE A == C!Characters
           tail == IF a = <<>> THEN <<>> ELSE C!Strip(C!LastOf(a[Len(a)].text, Overlap))
           p == C!Continued
           q == C!Newline
<1>1. c.verbatim \in Seq(A) /\ A \in SUBSET Int /\ p \in A /\ q \in A
  BY CharactersAre DEF Bare
<1>2. tail \in Seq(A)
  <2>1. CASE a = <<>>
    <3>1. tail = <<>>
      BY <2>1
    <3> HIDE DEF tail
    <3> QED
      BY <3>1
  <2>2. CASE a # <<>>
    <3>1. a[Len(a)] \in Wrapped
      BY <2>2
    <3>2. a[Len(a)].text \in Seq(A)
      BY <3>1 DEF Wrapped
    <3>3. C!LastOf(a[Len(a)].text, Overlap) \in Seq(A)
      BY <1>1, <3>2, LastIs, ChunkerAssumption
    <3> QED
      BY <1>1, <2>2, <3>3, StripIs
  <2> QED
    BY <2>1, <2>2
<1> DEFINE front == <<p, q, q>> \o tail \o <<q, q>> \o c.verbatim
<1>3. front \in Seq(A)
  <2> HIDE DEF A, p, q, tail
  <2>1. <<p, q, q>> \in Seq(A) /\ <<q, q>> \in Seq(A)
    BY <1>1
  <2> QED
    BY <1>1, <1>2, <2>1
<1>4. C!Prefixed(a, c) = c.verbatim \/ C!Prefixed(a, c) = front
  BY Zenon DEF C!Prefixed
<1> QED
  BY <1>1, <1>3, <1>4

\* Chunks that got their overlap are chunks.
LEMMA LappedIs ==
  ASSUME NEW a \in Seq(Wrapped), NEW c \in Bare
  PROVE  Lapped(a, c) \in Seq(Wrapped)
<1>1. C!Prefixed(a, c) \in Seq(C!Characters) /\ c.verbatim \in Text /\ c.header \in Nat
  BY PrefixedIs DEF Bare, Snippet
<1>2. [text |-> C!Prefixed(a, c), verbatim |-> c.verbatim, header |-> c.header] \in Wrapped
  BY <1>1 DEF Wrapped
<1> QED
  BY <1>2 DEF Lapped

Laps(cs, f) == f[0] = <<>> /\ \A i \in 1 .. Len(cs) : f[i] = Lapped(f[i - 1], cs[i])

\* The overlap is added to one chunk after another.
LEMMA LapsBy ==
  ASSUME NEW cs \in Seq(Bare)
  PROVE  \E f \in [0 .. Len(cs) -> Seq(Wrapped)] : Laps(cs, f) /\ C!Overlapped(cs) = f[Len(cs)]
<1> DEFINE n == Len(cs)
           Vals == Seq(Wrapped)
           Then(i, a) == Lapped(a, cs[i])
           Is(g) == g = [i \in 0 .. n |-> IF i = 0 THEN <<>> ELSE Then(i, g[i - 1])]
           acc == CHOOSE g : Is(g)
           turn == [i \in 1 .. n |-> [a \in Vals |-> Then(i, a)]]
<1>1. n \in Nat /\ <<>> \in Vals
  OBVIOUS
<1>2. ASSUME NEW i \in 1 .. n, NEW a \in Vals PROVE Then(i, a) \in Vals
  <2>1. cs[i] \in Bare /\ a \in Seq(Wrapped)
    OBVIOUS
  <2> QED
    BY <2>1, LappedIs
<1>3. C!Overlapped(cs) = acc[n]
  BY Zenon DEF C!Overlapped, Lapped
<1> HIDE DEF n, Then, Vals
<1>4. Recursed(Vals, <<>>, n, turn)
  <2>1. turn \in [1 .. n -> [Vals -> Vals]]
    BY <1>2
  <2> HIDE DEF turn
  <2> QED
    BY <1>1, <2>1, Recursion
<1>5. PICK g \in [0 .. n -> Vals] : g[0] = <<>> /\ \A i \in 1 .. n : g[i] = turn[i][g[i - 1]]
  BY <1>4 DEF Recursed
<1>6. Is(g)
  <2>1. \A i \in 1 .. n : g[i] = Then(i, g[i - 1])
    <3> SUFFICES ASSUME NEW i \in 1 .. n PROVE g[i] = Then(i, g[i - 1])
      OBVIOUS
    <3>1. g[i - 1] \in Vals
      BY <1>1
    <3> QED
      BY <1>5, <3>1
  <2> HIDE DEF turn
  <2>2. \A i \in 0 .. n : i = 0 \/ i \in 1 .. n
    BY <1>1
  <2>3. \A i \in 0 .. n : g[i] = IF i = 0 THEN <<>> ELSE Then(i, g[i - 1])
    BY <1>5, <2>1, <2>2
  <2> QED
    BY <2>3
<1>7. Is(acc)
  <2> HIDE DEF Is
  <2> QED
    BY <1>6, Zenon
<1>8. acc = [i \in 0 .. n |-> acc[i]] /\ acc[0] = <<>> /\ \A i \in 1 .. n : acc[i] = Then(i, acc[i - 1])
  <2> HIDE DEF acc
  <2>1. \A i \in 1 .. n : i \in 0 .. n /\ i # 0
    BY <1>1
  <2>2. 0 \in 0 .. n
    BY <1>1
  <2>3. acc[0] = <<>>
    BY <1>7, <2>2, Zenon
  <2>4. \A i \in 1 .. n : acc[i] = Then(i, acc[i - 1])
    BY <1>7, <2>1, Zenon
  <2>5. DOMAIN acc = 0 .. n /\ acc = [i \in DOMAIN acc |-> acc[i]]
    BY <1>7, Zenon
  <2> QED
    BY <2>3, <2>4, <2>5, Zenon
<1> HIDE DEF acc, Is
<1>9. acc \in [0 .. n -> Vals]
  <2> DEFINE Good == {i \in 0 .. n : acc[i] \in Vals}
  <2>1. 0 \in Good
    BY <1>1, <1>8
  <2>2. ASSUME NEW i \in 1 .. n, i - 1 \in Good PROVE i \in Good
    <3>1. acc[i - 1] \in Vals /\ i \in 0 .. n
      BY <1>1, <2>2
    <3>2. acc[i] \in Vals
      BY <1>2, <1>8, <3>1
    <3> QED
      BY <3>1, <3>2
  <2> HIDE DEF Good
  <2>3. \A i \in 0 .. n : i \in Good
    BY <1>1, <2>1, <2>2, Upward
  <2>4. \A i \in 0 .. n : acc[i] \in Vals
    BY <2>3 DEF Good
  <2> QED
    BY <1>8, <2>4
<1>10. Laps(cs, acc)
  BY <1>8 DEF Laps, Then, n
<1> QED
  BY <1>3, <1>9, <1>10 DEF n, Vals


\* What overlaps is what there was, with other fronts.
LEMMA OverlappedIs ==
  ASSUME NEW cs \in Seq(Bare)
  PROVE  /\ C!Overlapped(cs) \in Seq(Wrapped) /\ Len(C!Overlapped(cs)) = Len(cs)
         /\ \A i \in 1 .. Len(cs) : /\ C!Overlapped(cs)[i].verbatim = cs[i].verbatim
                                    /\ C!Overlapped(cs)[i].header = cs[i].header
<1> DEFINE n == Len(cs)
           Same(a, k) == Len(a) = k /\ \A i \in 1 .. k : a[i].verbatim = cs[i].verbatim /\ a[i].header = cs[i].header
<1>1. n \in Nat /\ \A i \in 1 .. n : cs[i] \in Bare
  OBVIOUS
<1>2. PICK f \in [0 .. n -> Seq(Wrapped)] : Laps(cs, f) /\ C!Overlapped(cs) = f[n]
  BY LapsBy
<1>3. f[0] = <<>> /\ \A i \in 1 .. n : f[i] = Lapped(f[i - 1], cs[i])
  BY <1>2 DEF Laps
<1> DEFINE T == {k \in 0 .. n : Same(f[k], k)}
<1>4. 0 \in T
  <2>1. Same(f[0], 0)
    BY <1>3
  <2>2. 0 \in 0 .. n
    BY <1>1
  <2> HIDE DEF Same
  <2> QED
    BY <2>1, <2>2
<1>5. ASSUME NEW i \in 1 .. n, i - 1 \in T PROVE i \in T
  <2> DEFINE a == f[i - 1]
             c == [text |-> C!Prefixed(a, cs[i]), verbatim |-> cs[i].verbatim, header |-> cs[i].header]
  <2>1. i \in 0 .. n /\ i - 1 \in 0 .. n /\ a \in Seq(Wrapped) /\ Same(a, i - 1)
    BY <1>1, <1>5
  <2>2. f[i] = Append(a, c)
    BY <1>3 DEF Lapped
  <2>3. c.verbatim = cs[i].verbatim /\ c.header = cs[i].header
    OBVIOUS
  <2> HIDE DEF a, c
  <2>4. Len(a) = i - 1
    BY <2>1
  <2>5. Len(Append(a, c)) = i /\ Append(a, c)[i] = c /\ \A j \in 1 .. i - 1 : Append(a, c)[j] = a[j]
    BY <2>1, <2>4
  <2>6. \A j \in 1 .. i : j = i \/ j \in 1 .. i - 1
    OBVIOUS
  <2>7. \A j \in 1 .. i : f[i][j].verbatim = cs[j].verbatim /\ f[i][j].header = cs[j].header
    BY <2>1, <2>2, <2>3, <2>5, <2>6
  <2>8. Same(f[i], i)
    BY <2>2, <2>5, <2>7
  <2> HIDE DEF Same
  <2> QED
    BY <2>1, <2>8
<1> HIDE DEF T
<1>6. \A k \in 0 .. n : k \in T
  BY <1>1, <1>4, <1>5, Upward
<1>7. n \in 0 .. n /\ Same(f[n], n)
  <2> HIDE DEF Same
  <2> QED
    BY <1>1, <1>6 DEF T
<1> QED
  BY <1>2, <1>7


\* What a character of an addition is.
LEMMA CharIs ==
  ASSUME NEW m \in C!Marks, NEW i \in 1 .. MaxText
  PROVE  /\ C!Char(m, i) \in {C!Space, C!Newline, C!Stop, i, MaxText + i}
         /\ C!Char(m, i) = MaxText + i => m = "header"
         /\ m = "newline" => C!Char(m, i) = C!Newline
<1>1. m = "word" \/ m = "header" \/ m = "space" \/ m = "newline" \/ m = "stop"
  BY Zenon DEF C!Marks
<1>2. MaxText \in Nat /\ i \in Nat /\ MaxText > 0 /\ i > 0
  BY ChunkerAssumption
<1>3. CASE m = "word"
  <2>1. C!Char(m, i) = i
    BY <1>3, Zenon DEF C!Char
  <2> QED
    BY <1>2, <1>3, <2>1
<1>4. CASE m = "header"
  <2>1. C!Char(m, i) = MaxText + i
    BY <1>4 DEF C!Char
  <2> QED
    BY <1>4, <2>1
<1>5. CASE m = "space"
  <2>1. C!Char(m, i) = C!Space
    BY <1>5 DEF C!Char
  <2>2. C!Space # MaxText + i
    BY <1>2 DEF C!Space
  <2> QED
    BY <1>5, <2>1, <2>2
<1>6. CASE m = "newline"
  <2>1. C!Char(m, i) = C!Newline
    BY <1>6 DEF C!Char
  <2>2. C!Newline # MaxText + i
    BY <1>2 DEF C!Newline
  <2> QED
    BY <1>6, <2>1, <2>2
<1>7. CASE m = "stop"
  <2>1. C!Char(m, i) = C!Stop
    BY <1>7 DEF C!Char
  <2>2. C!Stop # MaxText + i
    BY <1>2 DEF C!Stop
  <2> QED
    BY <1>7, <2>1, <2>2
<1> QED
  BY <1>1, <1>3, <1>4, <1>5, <1>6, <1>7

Longer(t, p) == t \o [i \in DOMAIN p |-> C!Char(p[i], Len(t) + i)]

\* A file that gets longer is a file: a header in what is added has its line.
LEMMA LongerIs ==
  ASSUME NEW t, FileText(t), NEW p \in Added, Len(t) + Len(p) <= MaxText
  PROVE  FileText(Longer(t, p))
<1> DEFINE n == Len(t)
           m == Len(p)
           q == [i \in DOMAIN p |-> C!Char(p[i], n + i)]
           u == t \o q
<1>1. /\ t \in Text /\ n \in Nat /\ DOMAIN t = 1 .. n /\ n <= MaxText
      /\ p \in Seq(C!Marks) /\ m \in Nat /\ DOMAIN p = 1 .. m /\ MaxText \in Nat /\ n + m <= MaxText
      /\ \A i \in 1 .. m : p[i] \in C!Marks
      /\ \A i \in 1 .. m : p[i] = "header" => i > 1 /\ p[i - 1] = "newline" /\ i < m /\ p[i + 1] = "newline"
  <2>1. t \in Text /\ n \in Nat /\ DOMAIN t = 1 .. n /\ n <= MaxText
    BY DEF FileText, Text
  <2>2. p \in Seq(C!Marks) /\ MaxText \in Nat
    BY ChunkerAssumption
  <2>3. m \in Nat /\ DOMAIN p = 1 .. m /\ \A i \in 1 .. m : p[i] \in C!Marks
    BY <2>2
  <2>4. \A i \in 1 .. m : p[i] = "header" => i > 1 /\ p[i - 1] = "newline" /\ i < m /\ p[i + 1] = "newline"
    BY <2>3, ChunkerAssumption
  <2> QED
    BY <2>1, <2>2, <2>3, <2>4
<1>2. \A i \in 1 .. n :
        /\ t[i] \in {C!Space, C!Newline, C!Stop, i, MaxText + i}
        /\ t[i] = MaxText + i => i > 1 /\ t[i - 1] = C!Newline /\ i < n /\ t[i + 1] = C!Newline
  BY DEF FileText
<1>3. \A i \in 1 .. m : q[i] = C!Char(p[i], n + i)
  BY <1>1
<1>4. \A i \in 1 .. m :
        /\ q[i] \in {C!Space, C!Newline, C!Stop, n + i, MaxText + (n + i)}
        /\ q[i] = MaxText + (n + i) => p[i] = "header"
        /\ p[i] = "newline" => q[i] = C!Newline
  <2> SUFFICES ASSUME NEW i \in 1 .. m
               PROVE  /\ q[i] \in {C!Space, C!Newline, C!Stop, n + i, MaxText + (n + i)}
                      /\ q[i] = MaxText + (n + i) => p[i] = "header"
                      /\ p[i] = "newline" => q[i] = C!Newline
    OBVIOUS
  <2>1. n + i \in 1 .. MaxText /\ p[i] \in C!Marks
    BY <1>1
  <2> QED
    BY <1>3, <2>1, CharIs
<1>5. DOMAIN q = 1 .. m
  BY <1>1
<1> HIDE DEF q
<1>6. q \in Text /\ Len(q) = m
  <2>1. \A i \in 1 .. m : q[i] \in Int
    BY <1>1, <1>4 DEF C!Space, C!Newline, C!Stop
  <2>2. q \in [1 .. m -> Int]
    <3>1. q = [i \in DOMAIN q |-> q[i]]
      BY <1>3, <1>5 DEF q
    <3> QED
      BY <1>5, <2>1, <3>1
  <2> QED
    BY <1>1, <2>2 DEF Text
<1>7. /\ u \in Text /\ Len(u) = n + m
      /\ \A i \in 1 .. n : u[i] = t[i]
      /\ \A i \in 1 .. m : u[n + i] = q[i]
  <2>1. \A a, b \in Text : /\ a \o b \in Text /\ Len(a \o b) = Len(a) + Len(b)
                           /\ \A i \in 1 .. Len(a) : (a \o b)[i] = a[i]
                           /\ \A i \in 1 .. Len(b) : (a \o b)[Len(a) + i] = b[i]
    BY DEF Text
  <2>2. /\ u \in Text /\ Len(u) = Len(t) + Len(q)
        /\ \A i \in 1 .. Len(t) : u[i] = t[i]
        /\ \A i \in 1 .. Len(q) : u[Len(t) + i] = q[i]
    BY <1>1, <1>6, <2>1, Zenon
  <2> QED
    BY <1>6, <2>2
<1> HIDE DEF u, n, m
<1>8. ASSUME NEW i \in 1 .. n + m
      PROVE  /\ u[i] \in {C!Space, C!Newline, C!Stop, i, MaxText + i}
             /\ u[i] = MaxText + i => i > 1 /\ u[i - 1] = C!Newline /\ i < n + m /\ u[i + 1] = C!Newline
  <2>1. CASE i \in 1 .. n
    <3>1. u[i] \in {C!Space, C!Newline, C!Stop, i, MaxText + i}
      BY <1>2, <1>7, <2>1
    <3>2. ASSUME u[i] = MaxText + i
          PROVE  i > 1 /\ u[i - 1] = C!Newline /\ i < n + m /\ u[i + 1] = C!Newline
      <4>1. i > 1 /\ t[i - 1] = C!Newline /\ i < n /\ t[i + 1] = C!Newline
        BY <1>2, <1>7, <2>1, <3>2
      <4>2. i - 1 \in 1 .. n /\ i + 1 \in 1 .. n /\ i < n + m
        BY <1>1, <4>1
      <4> QED
        BY <1>7, <4>1, <4>2
    <3> QED
      BY <3>1, <3>2
  <2>2. CASE i \notin 1 .. n
    <3> DEFINE j == i - n
    <3>1. j \in 1 .. m /\ n + j = i
      BY <1>1, <2>2
    <3> HIDE DEF j
    <3>2. u[i] = q[j] /\ u[i] \in {C!Space, C!Newline, C!Stop, i, MaxText + i}
      BY <1>4, <1>7, <3>1
    <3>3. ASSUME u[i] = MaxText + i
          PROVE  i > 1 /\ u[i - 1] = C!Newline /\ i < n + m /\ u[i + 1] = C!Newline
      <4>1. p[j] = "header"
        BY <1>4, <3>1, <3>2, <3>3
      <4>2. j > 1 /\ p[j - 1] = "newline" /\ j < m /\ p[j + 1] = "newline"
        BY <1>1, <3>1, <4>1
      <4>3. j - 1 \in 1 .. m /\ j + 1 \in 1 .. m /\ n + (j - 1) = i - 1 /\ n + (j + 1) = i + 1
            /\ i > 1 /\ i < n + m
        BY <1>1, <3>1, <4>2
      <4>4. q[j - 1] = C!Newline /\ q[j + 1] = C!Newline
        BY <1>4, <4>2, <4>3
      <4>5. u[n + (j - 1)] = q[j - 1] /\ u[n + (j + 1)] = q[j + 1]
        BY <1>7, <4>3
      <4> QED
        BY <4>3, <4>4, <4>5
    <3> QED
      BY <3>2, <3>3
  <2> QED
    BY <2>1, <2>2
<1>9. Longer(t, p) = u
  BY DEF Longer, u, q, n
<1> QED
  BY <1>1, <1>7, <1>8, <1>9 DEF FileText

\* The chunks of a file are short, have its words, and are of one section.
LEMMA ChunksAre ==
  ASSUME NEW t, FileText(t)
  PROVE  /\ C!chunk_markdown(t) \in Seq(Wrapped)
         /\ AllWords(Verbatims(C!chunk_markdown(t))) = C!Words(t)
         /\ \A i \in 1 .. Len(C!chunk_markdown(t)) :
              /\ C!chunk_markdown(t)[i].header \in Headers
              /\ C!chunk_markdown(t)[i].verbatim \in Short(Of(t, C!chunk_markdown(t)[i].header))
<1> DEFINE bare == C!Verbatim(t)
           cs == C!chunk_markdown(t)
<1>1. bare \in Seq(Snippets(t)) /\ AllWords(Verbatims(bare)) = C!Words(t)
  BY VerbatimIs
<1>2. bare \in Seq(Bare)
  <2>1. ASSUME NEW c \in Snippets(t) PROVE c \in Bare
    <3>1. c \in Snippet /\ c.verbatim \in Short(Of(t, c.header))
      BY <2>1 DEF Snippets
    <3>2. Of(t, c.header) \in SUBSET C!Characters
      <4>1. {C!Space, C!Newline, C!Stop} \subseteq C!Characters /\ MaxText \in Nat
        BY CharactersAre, ChunkerAssumption
      <4>2. 1 .. MaxText \subseteq C!Characters
        BY <4>1 DEF C!Characters
      <4> QED
        BY <4>1, <4>2 DEF Of
    <3>3. c.verbatim \in Seq(Of(t, c.header))
      BY <3>1 DEF Short
    <3> QED
      BY <3>1, <3>2, <3>3 DEF Bare
  <2> HIDE DEF bare
  <2> QED
    BY <1>1, <2>1
<1>3. cs = C!Overlapped(bare)
  BY DEF C!chunk_markdown
<1> HIDE DEF bare, cs
<1>4. /\ cs \in Seq(Wrapped) /\ Len(cs) = Len(bare) /\ Len(bare) \in Nat
      /\ \A i \in 1 .. Len(bare) : cs[i].verbatim = bare[i].verbatim /\ cs[i].header = bare[i].header
  BY <1>2, <1>3, OverlappedIs
<1>5. Verbatims(cs) = Verbatims(bare)
  <2>1. DOMAIN cs = 1 .. Len(bare) /\ DOMAIN bare = 1 .. Len(bare)
    BY <1>1, <1>4
  <2> QED
    BY <1>4, <2>1 DEF Verbatims
<1>6. \A i \in 1 .. Len(cs) : cs[i].header \in Headers /\ cs[i].verbatim \in Short(Of(t, cs[i].header))
  <2>1. \A i \in 1 .. Len(bare) : bare[i] \in Snippets(t)
    BY <1>1
  <2>2. \A i \in 1 .. Len(bare) : bare[i].header \in Headers /\ bare[i].verbatim \in Short(Of(t, bare[i].header))
    BY <2>1 DEF Snippets
  <2> QED
    BY <1>4, <2>2
<1> QED
  BY <1>1, <1>4, <1>5, <1>6 DEF cs

\* The chunks are those of the file as it is.
ChunkerInv ==
  /\ FileText(text)
  /\ (chunks = <<>> /\ text = <<>>) \/ chunks = C!chunk_markdown(text)

\* The invariant holds in the first states.
LEMMA ChunkerStart == C!ChunkerInit => ChunkerInv
<1> SUFFICES ASSUME C!ChunkerInit PROVE ChunkerInv
  OBVIOUS
<1>1. text = <<>> /\ chunks = <<>>
  BY DEF C!ChunkerInit
<1>2. <<>> \in Text /\ Len(<<>>) = 0 /\ 0 <= MaxText
  BY TextJoins, ChunkerAssumption
<1> QED
  BY <1>1, <1>2 DEF ChunkerInv, FileText

\* Every step keeps it.
LEMMA ChunkerStep == ChunkerInv /\ C!ChunkerNext => ChunkerInv'
<1> SUFFICES ASSUME ChunkerInv, NEW piece \in Added, C!Write(piece) PROVE ChunkerInv'
  BY DEF C!ChunkerNext
<1>1. Len(text) + Len(piece) <= MaxText /\ text' = Longer(text, piece) /\ chunks' = C!chunk_markdown(text')
  BY DEF C!Write, Longer
<1>2. FileText(text')
  BY <1>1, LongerIs DEF ChunkerInv
<1> QED
  BY <1>1, <1>2 DEF ChunkerInv

\* A step that leaves these variables alone keeps it.
LEMMA ChunkerStutter == ChunkerInv /\ UNCHANGED chunkerVars => ChunkerInv'
BY DEF chunkerVars, ChunkerInv


\* What the properties of the chunker say of the chunks of a file.
LEMMA FileChunks ==
  ASSUME ChunkerInv
  PROVE  /\ chunks \in Seq(Wrapped) /\ text \in Text /\ FileText(text)
         /\ AllWords(Verbatims(chunks)) = C!Words(text)
         /\ \A i \in 1 .. Len(chunks) : /\ chunks[i].header \in Headers
                                        /\ chunks[i].verbatim \in Short(Of(text, chunks[i].header))
<1>1. FileText(text) /\ text \in Text
  BY DEF ChunkerInv, FileText
<1>2. CASE chunks = <<>> /\ text = <<>>
  <2>1. Verbatims(<<>>) = <<>> /\ AllWords(<<>>) = C!Words(<<>>)
    BY FlattenNone DEF Verbatims, AllWords
  <2>2. <<>> \in Seq(Wrapped) /\ Len(<<>>) = 0
    OBVIOUS
  <2>3. \A i \in 1 .. Len(chunks) : FALSE
    BY <1>2, <2>2
  <2> QED
    BY <1>1, <1>2, <2>1, <2>2, <2>3
<1>3. CASE chunks = C!chunk_markdown(text)
  BY <1>1, <1>3, ChunksAre
<1> QED
  BY <1>2, <1>3 DEF ChunkerInv

\* The invariant has the type in it.
LEMMA ChunkerTyped == ChunkerInv => C!ChunkerTypeOK
<1> SUFFICES ASSUME ChunkerInv PROVE C!ChunkerTypeOK
  OBVIOUS
<1>1. /\ chunks \in Seq(Wrapped) /\ text \in Text /\ FileText(text)
      /\ \A i \in 1 .. Len(chunks) : /\ chunks[i].header \in Headers
                                     /\ chunks[i].verbatim \in Short(Of(text, chunks[i].header))
  BY FileChunks
<1> DEFINE Inks == C!Characters \ {C!Continued}
<1>2. MaxText \in Nat /\ {C!Space, C!Newline, C!Stop} \subseteq Inks /\ 1 .. 2 * MaxText \subseteq Inks
  <2>1. MaxText \in Nat
    BY ChunkerAssumption
  <2> QED
    BY <2>1 DEF C!Characters, C!Space, C!Newline, C!Stop, C!Continued
<1> HIDE DEF Inks
<1>3. text \in Seq(Inks) /\ Len(text) <= MaxText
  <2>1. Len(text) <= MaxText /\ Len(text) \in Nat
    BY <1>1 DEF FileText, Text
  <2>2. \A i \in 1 .. Len(text) : text[i] \in Inks
    <3> SUFFICES ASSUME NEW i \in 1 .. Len(text) PROVE text[i] \in Inks
      OBVIOUS
    <3>1. text[i] \in {C!Space, C!Newline, C!Stop, i, MaxText + i}
      BY <1>1 DEF FileText
    <3>2. i \in 1 .. 2 * MaxText /\ MaxText + i \in 1 .. 2 * MaxText
      BY <1>2, <2>1
    <3> QED
      BY <1>2, <3>1, <3>2
  <2>3. text \in Seq(Int)
    BY <1>1 DEF Text
  <2> QED
    BY <2>1, <2>2, <2>3
<1>4. \A i \in 1 .. Len(chunks) :
        chunks[i] \in [text : Seq(C!Characters), verbatim : Seq(Inks),
                       header : {C!NoHeader} \cup MaxText + 1 .. 2 * MaxText]
  <2> SUFFICES ASSUME NEW i \in 1 .. Len(chunks)
               PROVE  chunks[i] \in [text : Seq(C!Characters), verbatim : Seq(Inks),
                                     header : {C!NoHeader} \cup MaxText + 1 .. 2 * MaxText]
    OBVIOUS
  <2>1. chunks[i] \in Wrapped
    BY <1>1
  <2>2. chunks[i].header \in Headers /\ chunks[i].verbatim \in Short(Of(text, chunks[i].header))
    BY <1>1
  <2>3. Of(text, chunks[i].header) \subseteq Inks
    BY <1>2 DEF Of
  <2>4. chunks[i].verbatim \in Seq(Inks)
    BY <2>2, <2>3 DEF Short
  <2> QED
    BY <2>1, <2>2, <2>4 DEF Wrapped, Headers
<1>5. chunks \in Seq([text : Seq(C!Characters), verbatim : Seq(Inks),
                      header : {C!NoHeader} \cup MaxText + 1 .. 2 * MaxText])
  <2> DEFINE Kind == [text : Seq(C!Characters), verbatim : Seq(Inks),
                   header : {C!NoHeader} \cup MaxText + 1 .. 2 * MaxText]
  <2>1. \A i \in 1 .. Len(chunks) : chunks[i] \in Kind
    BY <1>4
  <2> HIDE DEF Kind
  <2>2. chunks \in Seq(Kind)
    BY <1>1, <2>1
  <2> QED
    BY <2>2 DEF Kind
<1> QED
  BY <1>3, <1>5 DEF C!ChunkerTypeOK, Inks

\* What the chunker promises, of whatever file there is.
LEMMA ChunksAreKept == ChunkerInv => C!ChunksFit /\ C!WordsKept /\ C!OwnSection
<1> SUFFICES ASSUME ChunkerInv PROVE C!ChunksFit /\ C!WordsKept /\ C!OwnSection
  OBVIOUS
<1>1. /\ chunks \in Seq(Wrapped) /\ AllWords(Verbatims(chunks)) = C!Words(text)
      /\ \A i \in 1 .. Len(chunks) : /\ chunks[i].header \in Headers
                                     /\ chunks[i].verbatim \in Short(Of(text, chunks[i].header))
  BY FileChunks
<1>2. DOMAIN chunks = 1 .. Len(chunks)
  BY <1>1
<1>3. C!ChunksFit
  BY <1>1, <1>2 DEF C!ChunksFit, Short
<1>4. C!WordsKept
  BY <1>1, Zenon DEF C!WordsKept, AllWords, Verbatims
<1>5. C!OwnSection
  <2> SUFFICES ASSUME NEW i \in DOMAIN chunks, NEW w \in C!ToSet(chunks[i].verbatim), C!IsWord(w)
               PROVE  Own(text, chunks[i].header, w)
    BY Zenon DEF C!OwnSection, Own
  <2> DEFINE h == chunks[i].header
             v == chunks[i].verbatim
  <2>1. v \in Short(Of(text, h))
    BY <1>1, <1>2
  <2> HIDE DEF v, h
  <2>2. w \in Of(text, h)
    <3>1. v \in Seq(Of(text, h))
      BY <2>1 DEF Short
    <3>2. PICK j \in DOMAIN v : w = v[j]
      BY DEF C!ToSet, v
    <3> QED
      BY <3>1, <3>2
  <2>3. w \in Nat /\ w > 0
    BY ChunkerAssumption DEF C!IsWord
  <2>4. w \notin {C!Space, C!Newline, C!Stop}
    BY <2>3 DEF C!Space, C!Newline, C!Stop
  <2>5. Own(text, h, w)
    BY <2>2, <2>4 DEF Of
  <2> QED
    BY <2>5 DEF h
<1> QED
  BY <1>3, <1>4, <1>5
=============================================================================
