---------------------------- MODULE MemoryProofs ----------------------------
(***************************************************************************)
(* Proofs about the parts of MCMemory that serve and tend the store, for    *)
(* any value of their constants: the embedders, upkeep and the causal       *)
(* trace.  Each has an invariant of its own, as in PassesProofs.            *)
(***************************************************************************)
EXTENDS PassesProofs

-----------------------------------------------------------------------------
(* The embedders.                                                           *)

Words == UNION {{Wanted[c][i] : i \in DOMAIN Wanted[c]} : c \in Embeds}
CacheKeys == (E!Providers \cup {None}) \X Words

\* An LRU that gets what it has keeps its length and its keys.
LEMMA GotIs ==
  ASSUME NEW V, NEW s \in Seq(V), NEW k \in E!Range(s)
  PROVE  /\ E!Got(s, k) \in Seq(V) /\ Len(E!Got(s, k)) = Len(s)
         /\ E!Range(s) \subseteq E!Range(E!Got(s, k))
<1> DEFINE m == CHOOSE i \in DOMAIN s : s[i] = k
           rest == E!RemoveAt(s, m)
<1>1. m \in 1 .. Len(s) /\ s[m] = k
  <2>1. \E i \in DOMAIN s : s[i] = k
    BY DEF E!Range
  <2>2. m \in DOMAIN s /\ s[m] = k
    BY <2>1
  <2> QED
    BY <2>2
<1>2. k \in V /\ Len(s) \in Nat
  BY <1>1
<1>3. E!Got(s, k) = Append(rest, k)
  BY DEF E!Got
<1>4. rest = SubSeq(s, 1, m - 1) \o SubSeq(s, m + 1, Len(s))
  BY DEF E!RemoveAt
<1> HIDE DEF m
<1>5. /\ rest \in Seq(V) /\ Len(rest) = Len(s) - 1
      /\ \A i \in 1 .. m - 1 : rest[i] = s[i]
      /\ \A i \in m .. Len(s) - 1 : rest[i] = s[i + 1]
  <2> DEFINE x == SubSeq(s, 1, m - 1)
             y == SubSeq(s, m + 1, Len(s))
  <2>1. x \in Seq(V) /\ Len(x) = m - 1 /\ \A i \in 1 .. m - 1 : x[i] = s[i]
    BY <1>1, <1>2
  <2>2. y \in Seq(V) /\ Len(y) = Len(s) - m /\ \A i \in 1 .. Len(s) - m : y[i] = s[m + i]
    BY <1>1, <1>2
  <2>3. rest = x \o y
    BY <1>4
  <2> HIDE DEF x, y, rest
  <2>4. rest \in Seq(V) /\ Len(rest) = Len(s) - 1
    BY <1>1, <1>2, <2>1, <2>2, <2>3
  <2>5. \A i \in 1 .. m - 1 : rest[i] = s[i]
    BY <1>1, <1>2, <2>1, <2>2, <2>3
  <2>6. ASSUME NEW i \in m .. Len(s) - 1 PROVE rest[i] = s[i + 1]
    <3>1. i - (m - 1) \in 1 .. Len(s) - m /\ m + (i - (m - 1)) = i + 1
      BY <1>1, <1>2
    <3>2. rest[i] = y[i - (m - 1)]
      BY <1>1, <1>2, <2>1, <2>2, <2>3
    <3> QED
      BY <2>2, <3>1, <3>2
  <2> QED
    BY <2>4, <2>5, <2>6
<1> HIDE DEF rest
<1> DEFINE got == Append(rest, k)
<1>6. got \in Seq(V) /\ Len(got) = Len(s) /\ got[Len(s)] = k /\ \A i \in 1 .. Len(s) - 1 : got[i] = rest[i]
  BY <1>2, <1>5
<1> HIDE DEF got
<1>7. ASSUME NEW i \in DOMAIN s PROVE \E j \in DOMAIN got : got[j] = s[i]
  <2>0. i \in 1 .. Len(s) /\ DOMAIN got = 1 .. Len(s)
    BY <1>6
  <2>1. CASE i < m
    <3>1. i \in 1 .. m - 1 /\ i \in 1 .. Len(s) - 1
      BY <1>1, <1>2, <2>0, <2>1
    <3> QED
      BY <1>5, <1>6, <2>0, <3>1
  <2>2. CASE i = m
    <3>1. Len(s) \in DOMAIN got
      BY <1>1, <1>2, <2>0
    <3> QED
      BY <1>1, <1>6, <2>2, <3>1
  <2>3. CASE i > m
    <3>1. i - 1 \in m .. Len(s) - 1 /\ i - 1 \in 1 .. Len(s) - 1 /\ (i - 1) + 1 = i
      BY <1>1, <1>2, <2>0, <2>3
    <3>2. got[i - 1] = s[i]
      BY <1>5, <1>6, <3>1
    <3>3. i - 1 \in DOMAIN got
      BY <1>2, <2>0, <3>1
    <3> QED
      BY <3>2, <3>3
  <2> QED
    BY <1>1, <1>2, <2>0, <2>1, <2>2, <2>3
<1>8. E!Range(s) \subseteq E!Range(got)
  BY <1>7 DEF E!Range
<1> QED
  BY <1>3, <1>6, <1>8 DEF got

\* A cache that takes in a key stays of its type and within its size.
LEMMA PutIs ==
  ASSUME NEW V, NEW s \in Seq(V), NEW k \in V, Len(s) \leq CacheSize
  PROVE  E!Put(s, k) \in Seq(V) /\ Len(E!Put(s, k)) \leq CacheSize
<1>0. CacheSize \in Nat \ {0} /\ Len(s) \in Nat
  BY EmbedAssumption
<1>1. CASE k \in E!Range(s)
  <2>1. E!Put(s, k) = E!Got(s, k)
    BY <1>1 DEF E!Put
  <2> QED
    BY <1>1, <2>1, GotIs
<1>2. CASE k \notin E!Range(s) /\ Len(s) >= CacheSize
  <2>1. E!Put(s, k) = Append(Tail(s), k)
    BY <1>2 DEF E!Put
  <2>2. Tail(s) \in Seq(V) /\ Len(Tail(s)) = Len(s) - 1
    BY <1>0, <1>2
  <2> QED
    BY <1>0, <2>1, <2>2
<1>3. CASE k \notin E!Range(s) /\ ~ (Len(s) >= CacheSize)
  <2>1. E!Put(s, k) = Append(s, k)
    BY <1>3 DEF E!Put
  <2> QED
    BY <1>0, <1>3, <2>1
<1> QED
  BY <1>1, <1>2, <1>3

\* What Look() takes from the cache leaves its length as it is.
LEMMA GottenIs ==
  ASSUME NEW c \in Embeds, cache \in Seq(CacheKeys)
  PROVE  E!Gotten(c) \in Seq(CacheKeys) /\ Len(E!Gotten(c)) = Len(cache)
<1> DEFINE n == Len(Wanted[c])
           b == cache
           Vals == {a \in Seq(CacheKeys) : Len(a) = Len(cache) /\ E!Range(cache) \subseteq E!Range(a)}
           Step(i, a) == IF i \in E!Cached(c) THEN E!Got(a, E!Key(c, i)) ELSE a
           Is(g) == g = [i \in 0 .. n |-> IF i = 0 THEN b ELSE Step(i, g[i - 1])]
           step == [i \in 1 .. n |-> [a \in Vals |-> Step(i, a)]]
           acc == CHOOSE g : Is(g)
<1>1. n \in Nat /\ b \in Vals
  BY EmbedAssumption
<1>2. ASSUME NEW i \in 1 .. n, NEW a \in Vals PROVE Step(i, a) \in Vals
  <2>1. CASE i \in E!Cached(c)
    <3>1. E!Key(c, i) \in E!Range(a)
      BY <2>1 DEF E!Cached
    <3>2. /\ E!Got(a, E!Key(c, i)) \in Seq(CacheKeys) /\ Len(E!Got(a, E!Key(c, i))) = Len(a)
          /\ E!Range(a) \subseteq E!Range(E!Got(a, E!Key(c, i)))
      BY <3>1, GotIs
    <3> QED
      BY <2>1, <3>2
  <2>2. CASE i \notin E!Cached(c)
    BY <2>2
  <2> QED
    BY <2>1, <2>2
<1>3. E!Gotten(c) = acc[n]
  BY Zenon DEF E!Gotten
<1> SUFFICES acc[n] \in Vals
  BY <1>3
<1> HIDE DEF n, Vals, b, Step
<1>4. PICK g \in [0 .. n -> Vals] : g[0] = b /\ \A i \in 1 .. n : g[i] = step[i][g[i - 1]]
  <2>1. step \in [1 .. n -> [Vals -> Vals]]
    BY <1>2
  <2> HIDE DEF step
  <2>2. Recursed(Vals, b, n, step)
    BY <1>1, <2>1, Recursion
  <2> QED
    BY <2>2 DEF Recursed
<1>5. ASSUME NEW i \in 1 .. n PROVE g[i] = Step(i, g[i - 1])
  <2>1. i - 1 \in 0 .. n
    BY <1>1
  <2>2. g[i - 1] \in Vals
    BY <2>1
  <2>3. step[i][g[i - 1]] = Step(i, g[i - 1])
    BY <2>2
  <2> QED
    BY <1>4, <2>3
<1>6. Is(g)
  BY <1>1, <1>4, <1>5
<1>7. Is(acc)
  <2> HIDE DEF Is
  <2> QED
    BY <1>6, Zenon
<1> HIDE DEF acc
<1>8. acc[0] = b /\ \A i \in 1 .. n : acc[i] = Step(i, acc[i - 1])
  BY <1>1, <1>7
<1> DEFINE T == {k \in 0 .. n : acc[k] \in Vals}
<1>9. 0 \in T /\ \A i \in 1 .. n : i - 1 \in T => i \in T
  BY <1>1, <1>2, <1>8
<1> HIDE DEF T
<1>10. n \in T
  <2>1. \A k \in 0 .. n : k \in T
    BY <1>1, <1>9, Upward
  <2> QED
    BY <1>1, <2>1
<1> QED
  BY <1>10 DEF T

\* The positions that are left to fetch are those that were not in the cache.
LEMMA MissingIs ==
  ASSUME NEW c \in Embeds
  PROVE  /\ E!Missing(c) \in Seq(E!Positions(c))
         /\ \A i \in E!Positions(c) : i \in E!Cached(c) \/ i \in E!Range(E!Missing(c))
<1> DEFINE n == Len(Wanted[c])
           Vals == Seq(E!Positions(c))
           none == <<>>
           Step(i, a) == IF i \in E!Cached(c) THEN a ELSE Append(a, i)
           Is(g) == g = [i \in 0 .. n |-> IF i = 0 THEN none ELSE Step(i, g[i - 1])]
           step == [i \in 1 .. n |-> [a \in Vals |-> Step(i, a)]]
           acc == CHOOSE g : Is(g)
           Holds(k, a) == a \in Vals /\ \A j \in 1 .. k : j \in E!Cached(c) \/ j \in E!Range(a)
<1>0. E!Positions(c) = 1 .. n /\ n \in Nat /\ none \in Vals
  <2>1. Wanted[c] \in Seq({Wanted[c][i] : i \in DOMAIN Wanted[c]})
    BY EmbedAssumption
  <2> DEFINE V == {Wanted[c][i] : i \in DOMAIN Wanted[c]}
  <2> HIDE DEF V
  <2>2. Wanted[c] \in Seq(V)
    BY <2>1 DEF V
  <2>3. DOMAIN Wanted[c] = 1 .. Len(Wanted[c]) /\ Len(Wanted[c]) \in Nat
    BY <2>2, EachIs
  <2> QED
    BY <2>3 DEF E!Positions
<1>1. n \in Nat /\ none \in Vals
  BY <1>0
<1>2. ASSUME NEW i \in 1 .. n, NEW a \in Vals PROVE Step(i, a) \in Vals
  <2>1. i \in E!Positions(c)
    BY <1>0
  <2>2. Append(a, i) \in Vals
    BY <2>1
  <2> QED
    BY <2>2
<1>3. E!Missing(c) = acc[n]
  BY Zenon DEF E!Missing
<1>13. ASSUME NEW i \in 1 .. n, NEW a, Holds(i - 1, a) PROVE Holds(i, Step(i, a))
  <2>1. a \in Vals /\ i \in Nat /\ \A j \in 1 .. i : j \in 1 .. i - 1 \/ j = i
    BY <1>13
  <2>2. CASE i \in E!Cached(c)
    BY <1>13, <2>1, <2>2
  <2>3. CASE i \notin E!Cached(c)
    <3> DEFINE w == Append(a, i)
    <3>1. w \in Vals /\ Step(i, a) = w
      BY <1>2, <2>1, <2>3
    <3>2. /\ Len(a) + 1 \in DOMAIN w /\ w[Len(a) + 1] = i
          /\ \A j \in DOMAIN a : j \in DOMAIN w /\ w[j] = a[j]
      BY <2>1
    <3> HIDE DEF w
    <3>3. i \in E!Range(w) /\ E!Range(a) \subseteq E!Range(w)
      BY <3>2, Zenon DEF E!Range
    <3>4. \A j \in 1 .. i : j \in E!Cached(c) \/ j \in E!Range(w)
      BY <1>13, <2>1, <3>3
    <3> QED
      BY <3>1, <3>4
  <2> QED
    BY <2>2, <2>3
<1> SUFFICES Holds(n, acc[n])
  BY <1>0, <1>3
<1>14. Holds(0, none)
  BY <1>0
<1> HIDE DEF n, Vals, none, Step, Holds
<1>4. PICK g \in [0 .. n -> Vals] : g[0] = none /\ \A i \in 1 .. n : g[i] = step[i][g[i - 1]]
  <2>1. step \in [1 .. n -> [Vals -> Vals]]
    BY <1>2
  <2> HIDE DEF step
  <2>2. Recursed(Vals, none, n, step)
    BY <1>1, <2>1, Recursion
  <2> QED
    BY <2>2 DEF Recursed
<1>5. ASSUME NEW i \in 1 .. n PROVE g[i] = Step(i, g[i - 1])
  <2>1. i - 1 \in 0 .. n
    BY <1>1
  <2>2. g[i - 1] \in Vals
    BY <2>1
  <2>3. step[i][g[i - 1]] = Step(i, g[i - 1])
    BY <2>2
  <2> QED
    BY <1>4, <2>3
<1>6. Is(g)
  BY <1>1, <1>4, <1>5
<1>7. Is(acc)
  <2> HIDE DEF Is
  <2> QED
    BY <1>6, Zenon
<1> HIDE DEF acc
<1>8. acc[0] = none /\ \A i \in 1 .. n : acc[i] = Step(i, acc[i - 1])
  BY <1>1, <1>7
<1> DEFINE T == {k \in 0 .. n : Holds(k, acc[k])}
<1>9. 0 \in T /\ \A i \in 1 .. n : i - 1 \in T => i \in T
  BY <1>1, <1>8, <1>13, <1>14
<1> HIDE DEF T
<1>10. n \in T
  <2>1. \A k \in 0 .. n : k \in T
    BY <1>1, <1>9, Upward
  <2> QED
    BY <1>1, <2>1
<1> QED
  BY <1>10 DEF T

\* A batch and what is left are all that was to be done.
LEMMA BatchIs ==
  ASSUME NEW c \in Embeds, todo[c] \in Seq(E!Positions(c))
  PROVE  /\ E!Batch(c) \in Seq(E!Positions(c))
         /\ SubSeq(todo[c], Len(E!Batch(c)) + 1, Len(todo[c])) \in Seq(E!Positions(c))
         /\ E!Range(todo[c]) \subseteq E!Range(E!Batch(c))
                                \cup E!Range(SubSeq(todo[c], Len(E!Batch(c)) + 1, Len(todo[c])))
<1> DEFINE s == todo[c]
           V == E!Positions(c)
           m == IF Len(s) < BatchSize THEN Len(s) ELSE BatchSize
           x == SubSeq(s, 1, m)
           y == SubSeq(s, m + 1, Len(s))
<1>1. E!Batch(c) = x
  BY DEF E!Batch
<1>2. s \in Seq(V)
  OBVIOUS
<1>3. m \in 0 .. Len(s) /\ Len(s) \in Nat
  BY <1>2, EmbedAssumption
<1> HIDE DEF s, V, m
<1>4. x \in Seq(V) /\ Len(x) = m /\ \A i \in 1 .. m : x[i] = s[i]
  BY <1>2, <1>3
<1>5. y \in Seq(V) /\ Len(y) = Len(s) - m /\ \A i \in 1 .. Len(s) - m : y[i] = s[m + i]
  BY <1>2, <1>3
<1> HIDE DEF x, y
<1>6. ASSUME NEW i \in DOMAIN s PROVE s[i] \in E!Range(x) \/ s[i] \in E!Range(y)
  <2>1. i \in 1 .. Len(s) /\ DOMAIN x = 1 .. m /\ DOMAIN y = 1 .. Len(s) - m
    BY <1>2, <1>4, <1>5
  <2>2. CASE i \leq m
    <3>1. i \in DOMAIN x /\ x[i] = s[i]
      BY <1>3, <1>4, <2>1, <2>2
    <3> QED
      BY <3>1 DEF E!Range
  <2>3. CASE ~ (i \leq m)
    <3>1. i - m \in 1 .. Len(s) - m /\ m + (i - m) = i
      BY <1>3, <2>1, <2>3
    <3>2. i - m \in DOMAIN y /\ y[i - m] = s[i]
      BY <1>5, <2>1, <3>1
    <3> QED
      BY <3>2 DEF E!Range
  <2> QED
    BY <2>2, <2>3
<1>7. E!Range(s) \subseteq E!Range(x) \cup E!Range(y)
  BY <1>6 DEF E!Range
<1>8. SubSeq(s, Len(E!Batch(c)) + 1, Len(s)) = y
  BY <1>1, <1>4 DEF y
<1> QED
  BY <1>1, <1>4, <1>5, <1>7, <1>8 DEF s, V

\* The cache keeps its bound when the vectors of a batch are put in it.
LEMMA KeptIs ==
  ASSUME NEW c \in Embeds, cache \in Seq(CacheKeys), Len(cache) \leq CacheSize,
         provider[c] \in E!Providers \cup {None}, todo[c] \in Seq(E!Positions(c))
  PROVE  E!Kept(c) \in Seq(CacheKeys) /\ Len(E!Kept(c)) \leq CacheSize
<1> DEFINE n == Len(E!Batch(c))
           b == cache
           Vals == {a \in Seq(CacheKeys) : Len(a) \leq CacheSize}
           Step(i, a) == E!Put(a, E!Key(c, E!Batch(c)[i]))
           Is(g) == g = [i \in 0 .. n |-> IF i = 0 THEN b ELSE Step(i, g[i - 1])]
           step == [i \in 1 .. n |-> [a \in Vals |-> Step(i, a)]]
           acc == CHOOSE g : Is(g)
<1>0. E!Batch(c) \in Seq(E!Positions(c))
  BY BatchIs
<1>1. n \in Nat /\ b \in Vals
  BY <1>0
<1>2. ASSUME NEW i \in 1 .. n, NEW a \in Vals PROVE Step(i, a) \in Vals
  <2>1. E!Batch(c)[i] \in DOMAIN Wanted[c]
    BY <1>0 DEF E!Positions
  <2>2. E!Key(c, E!Batch(c)[i]) \in CacheKeys
    BY <2>1 DEF E!Key, CacheKeys, Words
  <2> QED
    BY <2>2, PutIs
<1>3. E!Kept(c) = acc[n]
  BY Zenon DEF E!Kept
<1> SUFFICES acc[n] \in Vals
  BY <1>3
<1> HIDE DEF n, Vals, b, Step
<1>4. PICK g \in [0 .. n -> Vals] : g[0] = b /\ \A i \in 1 .. n : g[i] = step[i][g[i - 1]]
  <2>1. step \in [1 .. n -> [Vals -> Vals]]
    BY <1>2
  <2> HIDE DEF step
  <2>2. Recursed(Vals, b, n, step)
    BY <1>1, <2>1, Recursion
  <2> QED
    BY <2>2 DEF Recursed
<1>5. ASSUME NEW i \in 1 .. n PROVE g[i] = Step(i, g[i - 1])
  <2>1. i - 1 \in 0 .. n
    BY <1>1
  <2>2. g[i - 1] \in Vals
    BY <2>1
  <2>3. step[i][g[i - 1]] = Step(i, g[i - 1])
    BY <2>2
  <2> QED
    BY <1>4, <2>3
<1>6. Is(g)
  BY <1>1, <1>4, <1>5
<1>7. Is(acc)
  <2> HIDE DEF Is
  <2> QED
    BY <1>6, Zenon
<1> HIDE DEF acc
<1>8. acc[0] = b /\ \A i \in 1 .. n : acc[i] = Step(i, acc[i - 1])
  BY <1>1, <1>7
<1> DEFINE T == {k \in 0 .. n : acc[k] \in Vals}
<1>9. 0 \in T /\ \A i \in 1 .. n : i - 1 \in T => i \in T
  BY <1>1, <1>2, <1>8
<1> HIDE DEF T
<1>10. n \in T
  <2>1. \A k \in 0 .. n : k \in T
    BY <1>1, <1>9, Upward
  <2> QED
    BY <1>1, <2>1
<1> QED
  BY <1>10 DEF T

Clients == [loop : E!Loops, timeout : Nat]

\* A call holds its own vectors, but for the positions that it is still to
\* fetch, and its request is on a client of its loop.
OnItsLoop(c) ==
  /\ vectors[c] \in [E!Positions(c) -> Words \cup {None}]
  /\ todo[c] \in Seq(E!Positions(c))
  /\ call[c] \in {"detect", "probing", "posted"} => uses[c].loop = LoopOf[c]
  /\ call[c] \in {"fetch", "posted", "done"} =>
       \A i \in E!Positions(c) : vectors[c][i] = Wanted[c][i] \/ i \in E!Range(todo[c])
  /\ call[c] = "done" => todo[c] = <<>>

EmbedInv ==
  /\ E!EmbedTypeOK
  /\ cache \in Seq(CacheKeys)
  /\ uses \in [Embeds -> Clients \cup {None}]
  /\ DOMAIN vectors = Embeds /\ DOMAIN todo = Embeds
  /\ \A c \in Embeds : OnItsLoop(c)

\* The invariant holds in the first states.
LEMMA EmbedStart == E!EmbedInit => EmbedInv
<1> SUFFICES ASSUME E!EmbedInit PROVE EmbedInv
  OBVIOUS
<1>1. call \in [Embeds -> E!Places] /\ \A c \in Embeds : call[c] = "new"
  BY DEF E!EmbedInit, E!Places
<1>2. dims \in [E!Providers -> {"unknown", "known", "failed"}]
  BY DEF E!EmbedInit
<1>3. /\ explicit \in Settings /\ current \in E!Loops /\ closed \subseteq E!Loops
      /\ client = None /\ cache \in Seq(CacheKeys)
      /\ provider \in [Embeds -> E!Providers \cup {None}] /\ uses \in [Embeds -> Clients \cup {None}]
  BY DEF E!EmbedInit, E!Loops
<1>4. /\ Len(cache) \leq CacheSize /\ tries \in [Embeds -> 0 .. MaxRetries] /\ faults \in 0 .. MaxFaults
  BY EmbedAssumption DEF E!EmbedInit
<1>5. DOMAIN vectors = Embeds /\ DOMAIN todo = Embeds
  BY DEF E!EmbedInit
<1>6. ASSUME NEW c \in Embeds PROVE OnItsLoop(c)
  <2>1. vectors[c] = [i \in E!Positions(c) |-> None] /\ todo[c] = <<>>
    BY DEF E!EmbedInit
  <2> QED
    BY <1>1, <2>1 DEF OnItsLoop
<1> QED
  BY <1>1, <1>2, <1>3, <1>4, <1>5, <1>6, Zenon DEF EmbedInv, E!EmbedTypeOK

\* A call that goes on leaves the others where they are.
LEMMA CallGone ==
  ASSUME call \in [Embeds -> E!Places], NEW c \in Embeds, NEW p \in E!Places, E!Goto(c, p)
  PROVE  /\ call' \in [Embeds -> E!Places] /\ call'[c] = p
         /\ \A d \in Embeds \ {c} : call'[d] = call[d]
BY DEF E!Goto

\* The places a call goes to.
LEMMA PlacesOf ==
  /\ "detect" \in E!Places /\ "probe" \in E!Places /\ "probing" \in E!Places /\ "ready" \in E!Places
  /\ "fetch" \in E!Places /\ "posted" \in E!Places /\ "done" \in E!Places /\ "failed" \in E!Places
BY DEF E!Places

\* A call that takes a provider, or none.
LEMMA TakeIs ==
  ASSUME call \in [Embeds -> E!Places], provider \in [Embeds -> E!Providers \cup {None}],
         NEW c \in Embeds, NEW p \in E!Providers \cup {None}, E!Take(c, p)
  PROVE  /\ provider' \in [Embeds -> E!Providers \cup {None}]
         /\ call' \in [Embeds -> E!Places] /\ call'[c] \in {"failed", "ready", "probe"}
         /\ \A d \in Embeds \ {c} : call'[d] = call[d]
<1> DEFINE place == IF p = None THEN "failed"
                    ELSE IF p = "lmstudio" \/ dims[p] # "unknown" THEN "ready" ELSE "probe"
<1>1. provider' = [provider EXCEPT ![c] = p] /\ E!Goto(c, place)
  BY Zenon DEF E!Take
<1>2. place \in E!Places /\ place \in {"failed", "ready", "probe"}
  BY PlacesOf
<1> HIDE DEF place
<1>3. call' \in [Embeds -> E!Places] /\ call'[c] = place /\ \A d \in Embeds \ {c} : call'[d] = call[d]
  BY <1>1, <1>2, CallGone
<1>4. provider' \in [Embeds -> E!Providers \cup {None}]
  BY <1>1
<1> QED
  BY <1>2, <1>3, <1>4

\* A request goes out over a client of the loop that runs.
LEMMA SendIs ==
  ASSUME client \in Clients \cup {None}, uses \in [Embeds -> Clients \cup {None}],
         current \in E!Loops, NEW c \in Embeds, NEW timeout \in Nat, E!Send(c, timeout)
  PROVE  /\ client' \in Clients
         /\ uses' \in [Embeds -> Clients \cup {None}] /\ uses'[c].loop = current
         /\ \A d \in Embeds \ {c} : uses'[d] = uses[d]
<1>1. client' = E!Client(current, timeout) /\ uses' = [uses EXCEPT ![c] = client']
  BY DEF E!Send
<1>2. E!Client(current, timeout) \in Clients /\ E!Client(current, timeout).loop = current
  <2>1. CASE client # None /\ client.loop = current
    BY <2>1 DEF E!Client
  <2>2. CASE ~ (client # None /\ client.loop = current)
    <3>1. E!Client(current, timeout) = [loop |-> current, timeout |-> timeout]
      BY <2>2, Zenon DEF E!Client
    <3> QED
      BY <3>1 DEF Clients
  <2> QED
    BY <2>1, <2>2
<1> QED
  BY <1>1, <1>2

\* Every step keeps it.
LEMMA EmbedStep == EmbedInv /\ E!EmbedNext => EmbedInv'
<1> SUFFICES ASSUME EmbedInv, E!EmbedNext PROVE EmbedInv'
  OBVIOUS
<1>1. /\ explicit \in Settings /\ current \in E!Loops /\ closed \subseteq E!Loops
      /\ client \in Clients \cup {None}
      /\ call \in [Embeds -> E!Places] /\ provider \in [Embeds -> E!Providers \cup {None}]
      /\ cache \in Seq(CacheKeys) /\ uses \in [Embeds -> Clients \cup {None}]
      /\ DOMAIN vectors = Embeds /\ DOMAIN todo = Embeds
  BY DEF EmbedInv, E!EmbedTypeOK, Clients
<1>2. dims \in [E!Providers -> {"unknown", "known", "failed"}]
  BY DEF EmbedInv, E!EmbedTypeOK
<1>3. /\ Len(cache) \leq CacheSize /\ tries \in [Embeds -> 0 .. MaxRetries] /\ faults \in 0 .. MaxFaults
      /\ MaxRetries \in Nat /\ MaxFaults \in Nat
  BY EmbedAssumption DEF EmbedInv, E!EmbedTypeOK
<1>4. \A c \in Embeds : OnItsLoop(c)
  BY DEF EmbedInv
<1>5. faults' \in 0 .. MaxFaults
  <2>1. UNCHANGED faults \/ E!Fault
    BY Zenon DEF E!EmbedNext, E!EnterLoop, E!LeaveLoop, E!Detect, E!Detected, E!Probe, E!Probed, E!Look, E!Post,
           E!Reply, E!Fail
  <2> QED
    BY <1>3, <2>1 DEF E!Fault
<1>6. ASSUME UNCHANGED explicit, current' \in E!Loops, closed' \subseteq E!Loops, client' \in Clients \cup {None},
             call' \in [Embeds -> E!Places], provider' \in [Embeds -> E!Providers \cup {None}],
             cache' \in Seq(CacheKeys), uses' \in [Embeds -> Clients \cup {None}],
             DOMAIN vectors' = Embeds, DOMAIN todo' = Embeds,
             dims' \in [E!Providers -> {"unknown", "known", "failed"}],
             Len(cache') \leq CacheSize, tries' \in [Embeds -> 0 .. MaxRetries],
             \A c \in Embeds : OnItsLoop(c)'
      PROVE  EmbedInv'
  BY <1>1, <1>5, <1>6, Zenon DEF EmbedInv, E!EmbedTypeOK, Clients
\* A call that does nothing stays as it is.
<1>7. ASSUME NEW d \in Embeds, vectors'[d] = vectors[d], todo'[d] = todo[d], call'[d] = call[d], uses'[d] = uses[d]
      PROVE  OnItsLoop(d)'
  <2>1. OnItsLoop(d)
    BY <1>4
  <2> QED
    BY <1>7, <2>1, Zenon DEF OnItsLoop, E!Positions, E!Range
\* The steps of a call that touch neither its vectors nor the cache.
<1>8. ASSUME NEW c \in Embeds, UNCHANGED <<explicit, current, closed, cache, vectors, todo, tries>>,
             client' \in Clients \cup {None}, provider' \in [Embeds -> E!Providers \cup {None}],
             dims' \in [E!Providers -> {"unknown", "known", "failed"}],
             call' \in [Embeds -> E!Places], \A d \in Embeds \ {c} : call'[d] = call[d],
             uses' \in [Embeds -> Clients \cup {None}], \A d \in Embeds \ {c} : uses'[d] = uses[d],
             OnItsLoop(c)'
      PROVE  EmbedInv'
  <2>1. \A d \in Embeds : OnItsLoop(d)'
    BY <1>7, <1>8
  <2> QED
    BY <1>1, <1>3, <1>6, <1>8, <2>1
\* To move on without a request under way is to keep what there is.
<1>9. ASSUME NEW c \in Embeds, UNCHANGED <<vectors, todo>>,
             \/ call'[c] \in {"new", "probe", "ready", "failed"}
             \/ call'[c] \in {"detect", "probing"} /\ uses'[c].loop = LoopOf[c]
      PROVE  OnItsLoop(c)'
  <2>1. OnItsLoop(c)
    BY <1>4
  <2>2. call'[c] \notin {"fetch", "posted", "done"} /\ call'[c] # "done"
        /\ (call'[c] \in {"detect", "probing", "posted"} => uses'[c].loop = LoopOf[c])
    BY <1>9
  <2> QED
    BY <1>9, <2>1, <2>2, Zenon DEF OnItsLoop, E!Positions, E!Range
<1>10. ASSUME NEW l \in E!Loops, E!EnterLoop(l) PROVE EmbedInv'
  <2>1. current' = l
        /\ UNCHANGED <<explicit, closed, client, dims, cache, call, provider, vectors, todo, tries, uses>>
    BY <1>10 DEF E!EnterLoop
  <2>2. \A d \in Embeds : OnItsLoop(d)'
    BY <1>7, <2>1
  <2> QED
    BY <1>1, <1>2, <1>3, <1>6, <2>1, <2>2
<1>11. CASE E!LeaveLoop
  <2>1. closed' = closed \cup {current} /\ current' = Main
        /\ UNCHANGED <<explicit, client, dims, cache, call, provider, vectors, todo, tries, uses>>
    BY <1>11 DEF E!LeaveLoop
  <2>2. \A d \in Embeds : OnItsLoop(d)'
    BY <1>7, <2>1
  <2>3. current' \in E!Loops /\ closed' \subseteq E!Loops
    BY <1>1, <2>1 DEF E!Loops
  <2> QED
    BY <1>1, <1>2, <1>3, <1>6, <2>1, <2>2, <2>3
<1>12. ASSUME NEW c \in Embeds, E!Detect(c) PROVE EmbedInv'
  <2>1. UNCHANGED <<explicit, current, closed, dims, cache, vectors, todo, tries>> /\ current = LoopOf[c]
    BY <1>12 DEF E!Detect, E!Runs
  <2>2. ASSUME NEW p \in E!Providers \cup {None}, E!Take(c, p), UNCHANGED <<client, uses>> PROVE EmbedInv'
    <3>1. /\ provider' \in [Embeds -> E!Providers \cup {None}]
          /\ call' \in [Embeds -> E!Places] /\ call'[c] \in {"failed", "ready", "probe"}
          /\ \A d \in Embeds \ {c} : call'[d] = call[d]
      BY <1>1, <2>2, TakeIs
    <3>2. OnItsLoop(c)'
      BY <1>9, <2>1, <3>1
    <3> QED
      BY <1>1, <1>2, <1>8, <2>1, <2>2, <3>1, <3>2
  <2>3. CASE E!Send(c, 5) /\ E!Goto(c, "detect") /\ UNCHANGED provider
    <3>1. /\ client' \in Clients
          /\ uses' \in [Embeds -> Clients \cup {None}] /\ uses'[c].loop = current
          /\ \A d \in Embeds \ {c} : uses'[d] = uses[d]
      BY <1>1, <2>3, SendIs
    <3>2. call' \in [Embeds -> E!Places] /\ call'[c] = "detect" /\ \A d \in Embeds \ {c} : call'[d] = call[d]
      BY <1>1, <2>3, CallGone, PlacesOf
    <3>3. OnItsLoop(c)'
      BY <1>9, <2>1, <3>1, <3>2
    <3> QED
      BY <1>1, <1>2, <1>8, <2>1, <2>3, <3>1, <3>2, <3>3
  <2> DEFINE asked == IF explicit \in Keys THEN explicit ELSE None
  <2>4. \/ /\ explicit \in {"minimax", "openai", "nvidia"} /\ E!Take(c, asked) /\ UNCHANGED <<client, uses>>
        \/ E!Take(c, "lmstudio") /\ UNCHANGED <<client, uses>>
        \/ E!Send(c, 5) /\ E!Goto(c, "detect") /\ UNCHANGED provider
    BY <1>12, Zenon DEF E!Detect
  <2>5. "lmstudio" \in E!Providers \cup {None}
        /\ (explicit \in {"minimax", "openai", "nvidia"} => asked \in E!Providers \cup {None})
    BY DEF E!Providers
  <2> HIDE DEF asked
  <2> QED
    BY <2>2, <2>3, <2>4, <2>5
<1>13. ASSUME NEW c \in Embeds, E!Detected(c) PROVE EmbedInv'
  <2>1. UNCHANGED <<explicit, current, closed, client, cache, vectors, todo, tries, uses>>
    BY <1>13 DEF E!Detected
  <2>2. PICK p \in {"lmstudio", E!Keyed} : E!Take(c, p)
    BY <1>13 DEF E!Detected
  <2>3. p \in E!Providers \cup {None}
    BY <2>2 DEF E!Keyed, E!Providers
  <2>4. dims' \in [E!Providers -> {"unknown", "known", "failed"}]
    BY <1>2, <1>13 DEF E!Detected
  <2>5. /\ provider' \in [Embeds -> E!Providers \cup {None}]
        /\ call' \in [Embeds -> E!Places] /\ call'[c] \in {"failed", "ready", "probe"}
        /\ \A d \in Embeds \ {c} : call'[d] = call[d]
    BY <1>1, <2>2, <2>3, TakeIs
  <2>6. OnItsLoop(c)'
    BY <1>9, <2>1, <2>5
  <2> QED
    BY <1>1, <1>8, <2>1, <2>4, <2>5, <2>6
<1>14. ASSUME NEW c \in Embeds, E!Probe(c) PROVE EmbedInv'
  <2>1. UNCHANGED <<explicit, current, closed, dims, cache, provider, vectors, todo, tries>>
        /\ current = LoopOf[c] /\ E!Send(c, 60) /\ E!Goto(c, "probing")
    BY <1>14 DEF E!Probe, E!Runs
  <2>2. /\ client' \in Clients
        /\ uses' \in [Embeds -> Clients \cup {None}] /\ uses'[c].loop = current
        /\ \A d \in Embeds \ {c} : uses'[d] = uses[d]
    BY <1>1, <2>1, SendIs
  <2>3. call' \in [Embeds -> E!Places] /\ call'[c] = "probing" /\ \A d \in Embeds \ {c} : call'[d] = call[d]
    BY <1>1, <2>1, CallGone, PlacesOf
  <2>4. OnItsLoop(c)'
    BY <1>9, <2>1, <2>2, <2>3
  <2> QED
    BY <1>1, <1>2, <1>8, <2>1, <2>2, <2>3, <2>4
<1>15. ASSUME NEW c \in Embeds, E!Probed(c) PROVE EmbedInv'
  <2>1. UNCHANGED <<explicit, current, closed, client, cache, provider, vectors, todo, tries, uses>>
        /\ E!Goto(c, "ready")
    BY <1>15 DEF E!Probed
  <2>2. dims' \in [E!Providers -> {"unknown", "known", "failed"}]
    BY <1>2, <1>15 DEF E!Probed
  <2>3. call' \in [Embeds -> E!Places] /\ call'[c] = "ready" /\ \A d \in Embeds \ {c} : call'[d] = call[d]
    BY <1>1, <2>1, CallGone, PlacesOf
  <2>4. OnItsLoop(c)'
    BY <1>9, <2>1, <2>3
  <2> QED
    BY <1>1, <1>8, <2>1, <2>2, <2>3, <2>4
\* What Look() and Reply() do: some of the vectors are there, and the others to
\* be fetched.
<1>16. ASSUME NEW c \in Embeds, NEW left_ \in Seq(E!Positions(c)), NEW new \in [E!Positions(c) -> Words \cup {None}],
              \A i \in E!Positions(c) : new[i] = Wanted[c][i] \/ i \in E!Range(left_),
              vectors' = [vectors EXCEPT ![c] = new], todo' = [todo EXCEPT ![c] = left_],
              E!Goto(c, IF todo'[c] = <<>> THEN "done" ELSE "fetch"),
              cache' \in Seq(CacheKeys), Len(cache') \leq CacheSize, tries' \in [Embeds -> 0 .. MaxRetries],
              UNCHANGED <<explicit, current, closed, client, dims, provider, uses>>
       PROVE  EmbedInv'
  <2> DEFINE place == IF todo'[c] = <<>> THEN "done" ELSE "fetch"
  <2>1. /\ vectors'[c] = new /\ todo'[c] = left_ /\ DOMAIN vectors' = Embeds /\ DOMAIN todo' = Embeds
        /\ \A d \in Embeds \ {c} : vectors'[d] = vectors[d] /\ todo'[d] = todo[d]
    BY <1>1, <1>16
  <2>2. place \in E!Places /\ place \in {"done", "fetch"} /\ (place = "done" => todo'[c] = <<>>) /\ E!Goto(c, place)
    BY <1>16, PlacesOf
  <2> HIDE DEF place
  <2>3. call' \in [Embeds -> E!Places] /\ call'[c] = place /\ \A d \in Embeds \ {c} : call'[d] = call[d]
    BY <1>1, <2>2, CallGone
  <2>4. /\ call'[c] \notin {"detect", "probing", "posted"}
        /\ call'[c] = "done" => todo'[c] = <<>>
    BY <2>2, <2>3
  <2>5. OnItsLoop(c)'
    <3>1. vectors'[c] \in [E!Positions(c) -> Words \cup {None}] /\ todo'[c] \in Seq(E!Positions(c))
      BY <1>16, <2>1, Zenon
    <3>2. \A i \in E!Positions(c) : vectors'[c][i] = Wanted[c][i] \/ i \in E!Range(todo'[c])
      BY <1>16, <2>1, Zenon
    <3> QED
      BY <2>4, <3>1, <3>2 DEF OnItsLoop, E!Positions, E!Range
  <2>6. \A d \in Embeds : OnItsLoop(d)'
    BY <1>7, <1>16, <2>1, <2>3, <2>5
  <2> QED
    BY <1>1, <1>2, <1>6, <1>16, <2>1, <2>3, <2>6
<1>17. \A c \in Embeds : \A i \in E!Positions(c) : Wanted[c][i] \in Words
  BY DEF E!Positions, Words
<1>18. ASSUME NEW c \in Embeds, E!Look(c) PROVE EmbedInv'
  <2> DEFINE new == [i \in E!Positions(c) |-> IF i \in E!Cached(c) THEN Wanted[c][i] ELSE None]
  <2>1. /\ vectors' = [vectors EXCEPT ![c] = new] /\ todo' = [todo EXCEPT ![c] = E!Missing(c)]
        /\ cache' = E!Gotten(c) /\ E!Goto(c, IF todo'[c] = <<>> THEN "done" ELSE "fetch")
        /\ UNCHANGED <<explicit, current, closed, client, dims, provider, tries, uses>>
    BY <1>18, Zenon DEF E!Look
  <2>2. new \in [E!Positions(c) -> Words \cup {None}]
    BY <1>17
  <2>3. \A i \in E!Positions(c) : new[i] = Wanted[c][i] \/ i \in E!Range(E!Missing(c))
    BY MissingIs
  <2>4. E!Missing(c) \in Seq(E!Positions(c))
    BY MissingIs
  <2>5. cache' \in Seq(CacheKeys) /\ Len(cache') \leq CacheSize
    BY <1>1, <1>3, <2>1, GottenIs
  <2> HIDE DEF new
  <2> QED
    BY <1>3, <1>16, <2>1, <2>2, <2>3, <2>4, <2>5
<1>19. ASSUME NEW c \in Embeds, E!Post(c) PROVE EmbedInv'
  <2>1. UNCHANGED <<explicit, current, closed, dims, cache, provider, vectors, todo, tries>>
        /\ current = LoopOf[c] /\ E!Send(c, E!Timeout(c)) /\ E!Goto(c, "posted") /\ call[c] = "fetch"
    BY <1>19 DEF E!Post, E!Runs
  <2>2. E!Timeout(c) \in Nat
    BY EmbedAssumption DEF E!Timeout
  <2>3. /\ client' \in Clients
        /\ uses' \in [Embeds -> Clients \cup {None}] /\ uses'[c].loop = current
        /\ \A d \in Embeds \ {c} : uses'[d] = uses[d]
    BY <1>1, <2>1, <2>2, SendIs
  <2>4. call' \in [Embeds -> E!Places] /\ call'[c] = "posted" /\ \A d \in Embeds \ {c} : call'[d] = call[d]
    BY <1>1, <2>1, CallGone, PlacesOf
  <2>5. OnItsLoop(c)'
    <3>1. OnItsLoop(c)
      BY <1>4
    <3>2. call'[c] # "done" /\ uses'[c].loop = LoopOf[c] /\ call[c] \in {"fetch", "posted", "done"}
      BY <2>1, <2>3, <2>4
    <3> QED
      BY <2>1, <3>1, <3>2, Zenon DEF OnItsLoop, E!Positions, E!Range
  <2> QED
    BY <1>1, <1>2, <1>8, <2>1, <2>3, <2>4, <2>5
<1>20. ASSUME NEW c \in Embeds, E!Reply(c) PROVE EmbedInv'
  <2> DEFINE rest == SubSeq(todo[c], Len(E!Batch(c)) + 1, Len(todo[c]))
  <2>1. /\ vectors' = [vectors EXCEPT ![c] = E!Filled(c)]
        /\ todo' = [todo EXCEPT ![c] = SubSeq(@, Len(E!Batch(c)) + 1, Len(@))]
        /\ cache' = E!Kept(c) /\ E!Goto(c, IF todo'[c] = <<>> THEN "done" ELSE "fetch")
        /\ tries' = [tries EXCEPT ![c] = 0] /\ call[c] = "posted"
        /\ UNCHANGED <<explicit, current, closed, client, dims, provider, uses>>
    BY <1>20, Zenon DEF E!Reply
  <2>2. /\ vectors[c] \in [E!Positions(c) -> Words \cup {None}] /\ todo[c] \in Seq(E!Positions(c))
        /\ \A i \in E!Positions(c) : vectors[c][i] = Wanted[c][i] \/ i \in E!Range(todo[c])
    <3>1. OnItsLoop(c)
      BY <1>4
    <3>2. call[c] \in {"fetch", "posted", "done"}
      BY <2>1
    <3> QED
      BY <3>1, <3>2, Zenon DEF OnItsLoop
  <2>3. todo' = [todo EXCEPT ![c] = rest]
    BY <2>1
  <2>4. /\ rest \in Seq(E!Positions(c))
        /\ E!Range(todo[c]) \subseteq E!Range(E!Batch(c)) \cup E!Range(rest)
    BY <2>2, BatchIs
  <2> HIDE DEF rest
  <2>5. E!Filled(c) \in [E!Positions(c) -> Words \cup {None}]
    BY <1>17, <2>2 DEF E!Filled
  <2>6. \A i \in E!Positions(c) : E!Filled(c)[i] = Wanted[c][i] \/ i \in E!Range(rest)
    BY <2>2, <2>4 DEF E!Filled
  <2>7. cache' \in Seq(CacheKeys) /\ Len(cache') \leq CacheSize
    BY <1>1, <1>3, <2>1, <2>2, KeptIs
  <2>8. tries' \in [Embeds -> 0 .. MaxRetries]
    BY <1>3, <2>1
  <2> QED
    BY <1>16, <2>1, <2>3, <2>4, <2>5, <2>6, <2>7, <2>8
<1>21. ASSUME NEW c \in Embeds, NEW passing \in BOOLEAN, E!Fail(c, passing) PROVE EmbedInv'
  <2>1. UNCHANGED <<explicit, current, closed, client, dims, cache, provider, vectors, todo, uses>>
        /\ call[c] = "posted"
    BY <1>21 DEF E!Fail
  <2>2. \/ tries[c] < MaxRetries /\ tries' = [tries EXCEPT ![c] = @ + 1] /\ E!Goto(c, "fetch")
        \/ E!Goto(c, "failed") /\ UNCHANGED tries
    BY <1>21 DEF E!Fail
  <2>3. tries' \in [Embeds -> 0 .. MaxRetries]
    BY <1>3, <2>2
  <2>4. /\ call' \in [Embeds -> E!Places] /\ call'[c] \in {"fetch", "failed"}
        /\ \A d \in Embeds \ {c} : call'[d] = call[d]
    BY <1>1, <2>2, CallGone, PlacesOf
  <2>5. OnItsLoop(c)'
    <3>1. OnItsLoop(c)
      BY <1>4
    <3>2. call'[c] \notin {"detect", "probing", "posted"} /\ call'[c] # "done"
          /\ call[c] \in {"fetch", "posted", "done"}
      BY <2>1, <2>4
    <3> QED
      BY <2>1, <3>1, <3>2, Zenon DEF OnItsLoop, E!Positions, E!Range
  <2>6. \A d \in Embeds : OnItsLoop(d)'
    BY <1>7, <2>1, <2>4, <2>5
  <2> QED
    BY <1>1, <1>2, <1>3, <1>6, <2>1, <2>3, <2>4, <2>6
<1> QED
  BY <1>10, <1>11, <1>12, <1>13, <1>14, <1>15, <1>18, <1>19, <1>20, <1>21, Zenon DEF E!EmbedNext

\* A step that leaves these variables alone keeps it.
LEMMA EmbedStutter == EmbedInv /\ UNCHANGED embedVars => EmbedInv'
<1> SUFFICES ASSUME EmbedInv, UNCHANGED embedVars PROVE EmbedInv'
  OBVIOUS
<1>1. UNCHANGED <<explicit, current, closed, client, dims, cache, call, provider, vectors, todo, tries, uses, faults>>
  BY DEF embedVars
<1>2. \A c \in Embeds : OnItsLoop(c) => OnItsLoop(c)'
  BY <1>1, Zenon DEF OnItsLoop, E!Positions, E!Range
<1> QED
  BY <1>1, <1>2, Zenon DEF EmbedInv, E!EmbedTypeOK

\* It holds in every behaviour.
LEMMA EmbedAlways == Spec => []EmbedInv
<1>1. Init => EmbedInv
  BY EmbedStart DEF Init
<1>2. EmbedInv /\ [Next]_vars => EmbedInv'
  BY EmbedStep, EmbedStutter DEF Next, vars
<1> QED
  BY <1>1, <1>2, PTL DEF Spec, vars

\* An embed() call that is done has the vector of each of its texts at the
\* text's position, whatever the cache, its batches and its retries were
\* (embeddings.py:442), and no request goes over a client of another loop
\* (embeddings.py:115).
THEOREM OwnAnswerAlways == Spec => []OwnAnswer
<1>1. ASSUME EmbedInv PROVE OwnAnswer
  <2>1. ASSUME NEW c \in Embeds, call[c] = "done" PROVE vectors[c] = Wanted[c]
    <3>1. /\ vectors[c] \in [E!Positions(c) -> Words \cup {None}] /\ todo[c] = <<>>
          /\ \A i \in E!Positions(c) : vectors[c][i] = Wanted[c][i] \/ i \in E!Range(todo[c])
      BY <1>1, <2>1 DEF EmbedInv, OnItsLoop
    <3>2. E!Range(<<>>) = {}
      BY DEF E!Range
    <3>3. \A i \in E!Positions(c) : vectors[c][i] = Wanted[c][i]
      BY <3>1, <3>2
    <3> DEFINE V == {Wanted[c][i] : i \in DOMAIN Wanted[c]}
    <3>4. Wanted[c] \in Seq(V)
      BY EmbedAssumption
    <3> HIDE DEF V
    <3>5. Wanted[c] \in [E!Positions(c) -> V]
      BY <3>4 DEF E!Positions
    <3> DEFINE P == E!Positions(c)
               W == Words \cup {None}
               f == vectors[c]
               g == Wanted[c]
    <3>6. f \in [P -> W] /\ g \in [P -> V] /\ \A i \in P : f[i] = g[i]
      BY <3>1, <3>3, <3>5
    <3> HIDE DEF P, W, f, g
    <3>7. f = g
      BY <3>6
    <3> QED
      BY <3>7 DEF f, g
  <2>2. E!OwnLoop
    BY <1>1 DEF EmbedInv, OnItsLoop, E!OwnLoop
  <2> QED
    BY <2>1, <2>2 DEF OwnAnswer, E!OwnVectors
<1> QED
  BY <1>1, EmbedAlways, PTL

-----------------------------------------------------------------------------
(* Upkeep.                                                                  *)

\* The files that hold something or will: each rotation adds one, so that there
\* is a free one whenever a log is to be made.
HeldFiles == {f \in K!FileIds : \/ f \in archives \cup {log} \/ held[f] # {}
                            \/ \E l \in Loggers : logging[l] = f}

CollectionsHold ==
  /\ named \in [K!AllNames -> 1 .. MaxIds \cup {None}]
  /\ stock \in [1 .. MaxIds -> {0, 1, None}] /\ made \in 0 .. MaxIds
  /\ handle \in [Hosts -> [Names -> 1 .. MaxIds]]
  /\ vacuum \in [Vacuums -> Names \cup {"new", "done"}]
  /\ \A n \in Names : named[n] = None => \E v \in Vacuums : vacuum[v] = n

LogHolds ==
  /\ log \in K!FileIds \cup {None}
  /\ held \in [K!FileIds -> SUBSET (1 .. MaxEvents)] /\ archives \subseteq K!FileIds
  /\ logging \in [Loggers -> K!FileIds \cup {None}]
  /\ events \in 0 .. MaxEvents /\ pruned \subseteq 1 .. MaxEvents
  /\ rotation \in {"no", "moved", "prune"} /\ rotations \in 0 .. MaxRotations
  /\ \A e \in 1 .. events : e \in pruned \/ \E f \in archives \cup ({log} \ {None}) : e \in held[f]
  /\ Cardinality(HeldFiles) \leq rotations + IF log = None THEN 0 ELSE 1

\* There are finitely many names of log files.
LEMMA FilesAre == IsFiniteSet(K!FileIds) /\ Cardinality(K!FileIds) = 2 * MaxRotations + 2 /\ None \notin K!FileIds
<1>1. 2 * MaxRotations + 2 \in Nat /\ 2 * MaxRotations + 2 > 0
  BY UpkeepAssumption
<1> DEFINE m == 2 * MaxRotations + 2
<1> HIDE DEF m
<1>2. m \in Nat /\ m > 0
  BY <1>1 DEF m
<1>3. IsFiniteSet(1 .. m) /\ Cardinality(1 .. m) = m - 1 + 1
  BY <1>2, FS_Interval
<1>4. None \notin 1 .. m
  BY UpkeepAssumption
<1> QED
  BY <1>2, <1>3, <1>4 DEF m, K!FileIds

\* So there are of those in use.
LEMMA HeldFilesAre == IsFiniteSet(HeldFiles) /\ Cardinality(HeldFiles) \in Nat
<1>1. HeldFiles \in SUBSET K!FileIds
  BY DEF HeldFiles
<1>2. IsFiniteSet(HeldFiles)
  BY <1>1, FilesAre, FS_Subset
<1> QED
  BY <1>2, FS_CardinalityType

\* The new log is a file that nobody used.
LEMMA FreeFile ==
  ASSUME LogHolds
  PROVE  K!NewFile \in K!FileIds \ HeldFiles
<1>1. rotations \in 0 .. MaxRotations /\ MaxRotations \in Nat
  BY UpkeepAssumption DEF LogHolds
<1>2. Cardinality(HeldFiles) \leq MaxRotations + 1
  BY <1>1, HeldFilesAre DEF LogHolds
<1>3. HeldFiles # K!FileIds
  BY <1>1, <1>2, FilesAre
<1>4. \E f \in K!FileIds : f \notin archives \cup {log} /\ held[f] = {} /\ \A l \in Loggers : logging[l] # f
  BY <1>3 DEF HeldFiles
<1> QED
  BY <1>4, Zenon DEF K!NewFile, HeldFiles

\* A step that uses at most one more file.
LEMMA OneMore ==
  ASSUME NEW f, HeldFiles' \subseteq HeldFiles \cup {f}
  PROVE  Cardinality(HeldFiles') \leq Cardinality(HeldFiles) + 1 /\ Cardinality(HeldFiles') \in Nat
<1>1. /\ IsFiniteSet(HeldFiles \cup {f})
      /\ Cardinality(HeldFiles \cup {f}) = IF f \in HeldFiles THEN Cardinality(HeldFiles) ELSE Cardinality(HeldFiles) + 1
  BY HeldFilesAre, FS_AddElement
<1>2. Cardinality(HeldFiles') \leq Cardinality(HeldFiles \cup {f}) /\ Cardinality(HeldFiles') \in Nat
  BY <1>1, FS_Subset, FS_CardinalityType
<1> QED
  BY <1>1, <1>2, HeldFilesAre

\* A step that uses none more.
LEMMA NoneMore ==
  ASSUME HeldFiles' \subseteq HeldFiles
  PROVE  Cardinality(HeldFiles') \leq Cardinality(HeldFiles) /\ Cardinality(HeldFiles') \in Nat
BY HeldFilesAre, FS_Subset, FS_CardinalityType

\* The invariant holds in the first states.
LEMMA CollectionsStart == K!UpkeepInit => CollectionsHold
<1> SUFFICES ASSUME K!UpkeepInit PROVE CollectionsHold
  OBVIOUS
<1> DEFINE n == Cardinality(K!AllNames)
<1>1. n \in Nat /\ n \leq MaxIds /\ MaxIds \in Nat /\ IsFiniteSet(K!AllNames)
  BY UpkeepAssumption, FS_CardinalityType
<1>2. IsFiniteSet(1 .. n) /\ Cardinality(1 .. n) = n
  BY <1>1, FS_Interval
<1>3. ExistsBijection(K!AllNames, 1 .. n)
  BY <1>1, <1>2, FS_SameCardinalityBij
<1>4. \E f \in [K!AllNames -> 1 .. n] : \A a, b \in K!AllNames : a # b => f[a] # f[b]
  <2> HIDE DEF n
  <2>1. PICK f \in Bijection(K!AllNames, 1 .. n) : TRUE
    BY <1>3, Zenon DEF ExistsBijection
  <2>2. f \in [K!AllNames -> 1 .. n] /\ \A a, b \in K!AllNames : f[a] = f[b] => a = b
    BY <2>1 DEF Bijection, Injection, IsInjective
  <2> QED
    BY <2>2
<1>5. named \in [K!AllNames -> 1 .. n]
  <2>1. K!Numbered \in [K!AllNames -> 1 .. Cardinality(K!AllNames)]
    BY <1>4, Zenon DEF K!Numbered, K!Cardinality, Cardinality
  <2> QED
    BY <2>1 DEF K!UpkeepInit
<1>6. made \in 0 .. MaxIds /\ vacuum = [v \in Vacuums |-> "new"]
  <2>1. made = n /\ vacuum = [v \in Vacuums |-> "new"]
    BY Zenon DEF K!UpkeepInit, K!Cardinality, Cardinality
  <2> HIDE DEF n
  <2> QED
    BY <1>1, <2>1
<1>7. stock \in [1 .. MaxIds -> {0, 1, None}]
  BY DEF K!UpkeepInit
<1> HIDE DEF n
<1>8. Names \subseteq K!AllNames
  BY DEF K!AllNames
<1>9. handle \in [Hosts -> [Names -> 1 .. MaxIds]]
  BY <1>1, <1>5, <1>8 DEF K!UpkeepInit
<1>10. \A m \in Names : named[m] # None
  BY <1>5, <1>8, UpkeepAssumption
<1> QED
  BY <1>1, <1>5, <1>6, <1>7, <1>9, <1>10 DEF CollectionsHold

\* The invariant holds in the first states.
LEMMA LogStart == K!UpkeepInit => LogHolds
<1> SUFFICES ASSUME K!UpkeepInit PROVE LogHolds
  OBVIOUS
<1>1. 1 \in K!FileIds
  BY UpkeepAssumption DEF K!FileIds
<1>2. log = 1 /\ archives = {} /\ held = [f \in K!FileIds |-> {}] /\ logging = [l \in Loggers |-> None]
      /\ events = 0 /\ pruned = {} /\ rotation = "no" /\ rotations = 0
  BY DEF K!UpkeepInit
<1>3. HeldFiles = {1}
  BY <1>1, <1>2, FilesAre DEF HeldFiles
<1>4. Cardinality(HeldFiles) = 1 /\ log # None
  <2>1. Cardinality({1}) = 1
    BY FS_Singleton, Zenon
  <2> QED
    BY <1>2, <1>3, <2>1, UpkeepAssumption
<1> QED
  BY <1>1, <1>2, <1>4, UpkeepAssumption DEF LogHolds

\* A collection is there when a handle of it was obtained, and no other goes.
LEMMA Obtained ==
  ASSUME CollectionsHold, NEW n \in Names, K!Obtain(n)
  PROVE  /\ named' \in [K!AllNames -> 1 .. MaxIds \cup {None}] /\ named'[n] \in 1 .. MaxIds
         /\ stock' \in [1 .. MaxIds -> {0, 1, None}] /\ made' \in 0 .. MaxIds
         /\ \A m \in Names : named'[m] = None => named[m] = None
<1>1. n \in K!AllNames /\ Names \subseteq K!AllNames
  BY DEF K!AllNames
<1>2. CASE named[n] # None
  BY <1>1, <1>2 DEF K!Obtain, CollectionsHold
<1>3. CASE named[n] = None
  <2>1. /\ made < MaxIds /\ made' = made + 1
        /\ named' = [named EXCEPT ![n] = made + 1]
        /\ stock' = [stock EXCEPT ![made + 1] = 0]
    BY <1>3 DEF K!Obtain
  <2>2. made + 1 \in 1 .. MaxIds /\ MaxIds \in Nat
    BY <2>1, UpkeepAssumption DEF CollectionsHold
  <2> QED
    BY <1>1, <2>1, <2>2, UpkeepAssumption DEF CollectionsHold
<1> QED
  BY <1>2, <1>3

\* Every step keeps it.
LEMMA CollectionsStep ==
  ASSUME CollectionsHold,
         \/ \E h \in Hosts : K!Reopen(h) \/ K!Add(h)
         \/ \E v \in Vacuums : K!VacuumDelete(v) \/ K!VacuumMake(v)
         \/ K!Prune
  PROVE  CollectionsHold' /\ UNCHANGED K!logVars
<1>1. Names \subseteq K!AllNames /\ MaxIds \in Nat
  BY UpkeepAssumption DEF K!AllNames
<1>2. ASSUME NEW h \in Hosts, K!Reopen(h) PROVE CollectionsHold' /\ UNCHANGED K!logVars
  <2>1. PICK n \in Names : K!Obtain(n) /\ handle' = [handle EXCEPT ![h][n] = named'[n]]
    BY <1>2 DEF K!Reopen
  <2>2. UNCHANGED <<vacuum, K!logVars>>
    BY <1>2 DEF K!Reopen
  <2>3. handle' \in [Hosts -> [Names -> 1 .. MaxIds]]
    BY <2>1, Obtained DEF CollectionsHold
  <2> QED
    BY <2>1, <2>2, <2>3, Obtained DEF CollectionsHold
<1>3. ASSUME NEW h \in Hosts, K!Add(h) PROVE CollectionsHold' /\ UNCHANGED K!logVars
  <2>1. PICK n \in Names : stock' = [stock EXCEPT ![handle[h][n]] = 1]
    BY <1>3 DEF K!Add
  <2>2. UNCHANGED <<named, made, handle, vacuum, K!logVars>>
    BY <1>3 DEF K!Add
  <2> QED
    BY <2>1, <2>2 DEF CollectionsHold
<1>4. ASSUME NEW v \in Vacuums, K!VacuumDelete(v) PROVE CollectionsHold' /\ UNCHANGED K!logVars
  <2>1. vacuum[v] = "new" /\ UNCHANGED <<made, handle, K!logVars>>
    BY <1>4 DEF K!VacuumDelete
  <2>2. \A m \in Names : m # "new"
    BY UpkeepAssumption
  <2>3. PICK n \in Names :
          IF named[n] = None
            THEN vacuum' = [vacuum EXCEPT ![v] = "done"] /\ UNCHANGED <<named, stock>>
            ELSE /\ vacuum' = [vacuum EXCEPT ![v] = n]
                 /\ stock' = [stock EXCEPT ![named[n]] = None]
                 /\ named' = [named EXCEPT ![n] = None]
    BY <1>4 DEF K!VacuumDelete
  <2>4. named' \in [K!AllNames -> 1 .. MaxIds \cup {None}] /\ stock' \in [1 .. MaxIds -> {0, 1, None}]
        /\ vacuum' \in [Vacuums -> Names \cup {"new", "done"}]
    BY <1>1, <2>3 DEF CollectionsHold
  <2>5. ASSUME NEW m \in Names, named'[m] = None PROVE \E w \in Vacuums : vacuum'[w] = m
    <3>1. CASE named[m] = None
      <4>1. PICK w \in Vacuums : vacuum[w] = m
        BY <3>1 DEF CollectionsHold
      <4>2. w # v
        BY <2>1, <2>2, <4>1
      <4> QED
        BY <2>3, <4>1, <4>2 DEF CollectionsHold
    <3>2. CASE named[m] # None
      <4>1. m = n /\ named[n] # None
        BY <1>1, <2>3, <2>5, <3>2 DEF CollectionsHold
      <4> QED
        BY <2>3, <4>1 DEF CollectionsHold
    <3> QED
      BY <3>1, <3>2
  <2> QED
    BY <2>1, <2>4, <2>5 DEF CollectionsHold
<1>5. ASSUME NEW v \in Vacuums, K!VacuumMake(v) PROVE CollectionsHold' /\ UNCHANGED K!logVars
  <2> DEFINE n == vacuum[v]
  <2>1. /\ n \in Names /\ K!Obtain(n) /\ vacuum' = [vacuum EXCEPT ![v] = "done"]
        /\ UNCHANGED <<handle, K!logVars>>
    BY <1>5 DEF K!VacuumMake
  <2>2. named'[n] # None
    BY <2>1, Obtained, UpkeepAssumption
  <2>3. \A w \in Vacuums : w # v => vacuum'[w] = vacuum[w]
    BY <2>1 DEF CollectionsHold
  <2>4. \A m \in Names : named'[m] = None => \E w \in Vacuums : vacuum'[w] = m
    BY <2>1, <2>2, <2>3, Obtained DEF CollectionsHold
  <2>5. vacuum' \in [Vacuums -> Names \cup {"new", "done"}]
    BY <2>1 DEF CollectionsHold
  <2> QED
    BY <2>1, <2>4, <2>5, Obtained DEF CollectionsHold
<1>6. ASSUME K!Prune PROVE CollectionsHold' /\ UNCHANGED K!logVars
  <2>1. PICK n \in K!AllNames : n \notin Names /\ stock' = [stock EXCEPT ![named[n]] = None]
                                /\ named' = [named EXCEPT ![n] = None]
    BY <1>6 DEF K!Prune, K!Prunable
  <2>2. UNCHANGED <<made, handle, vacuum, K!logVars>>
    BY <1>6 DEF K!Prune
  <2> QED
    BY <1>1, <2>1, <2>2 DEF CollectionsHold
<1> QED
  BY <1>2, <1>3, <1>4, <1>5, <1>6

\* Every step keeps it.
LEMMA LogStep ==
  ASSUME LogHolds,
         \/ K!Rotate \/ K!Touch \/ K!PruneArchives
         \/ \E l \in Loggers : K!LogOpen(l) \/ K!LogCommit(l)
  PROVE  LogHolds' /\ UNCHANGED K!storeVars
<1> DEFINE new == K!NewFile
<1>1. /\ new \in K!FileIds /\ new \notin archives \cup {log} /\ held[new] = {}
  BY FreeFile, Zenon DEF HeldFiles
<1> HIDE DEF new
<1>2. /\ None \notin K!FileIds /\ MaxEvents \in Nat /\ MaxRotations \in Nat
      /\ Cardinality(HeldFiles) \in Nat /\ rotations \in Nat
  BY FilesAre, HeldFilesAre, UpkeepAssumption DEF LogHolds
<1>3. ASSUME NEW l \in Loggers, K!LogOpen(l) PROVE LogHolds' /\ UNCHANGED K!storeVars
  <2>1. /\ log' = (IF log = None THEN new ELSE log) /\ logging' = [logging EXCEPT ![l] = log']
        /\ UNCHANGED <<K!storeVars, held, archives, events, pruned, rotation, rotations>>
    BY <1>3 DEF K!LogOpen, new
  <2>2. log' \in K!FileIds /\ log' # None /\ logging' \in [Loggers -> K!FileIds \cup {None}]
    BY <1>1, <1>2, <2>1 DEF LogHolds
  <2>3. CASE log = None
    <3>1. HeldFiles' \subseteq HeldFiles \cup {new}
      BY <2>1, <2>2, <2>3 DEF HeldFiles, LogHolds, K!FileIds
    <3>2. Cardinality(HeldFiles') \leq rotations' + 1
      BY <1>2, <2>1, <2>3, <3>1, OneMore DEF LogHolds
    <3> QED
      BY <2>1, <2>2, <2>3, <3>2 DEF LogHolds, K!FileIds
  <2>4. CASE log # None
    <3>1. HeldFiles' \subseteq HeldFiles
      BY <2>1, <2>2, <2>4 DEF HeldFiles, LogHolds, K!FileIds
    <3>2. Cardinality(HeldFiles') \leq rotations' + 1
      BY <1>2, <2>1, <2>4, <3>1, NoneMore DEF LogHolds
    <3> QED
      BY <2>1, <2>2, <2>4, <3>2 DEF LogHolds, K!FileIds
  <2> QED
    BY <2>3, <2>4
<1>4. ASSUME NEW l \in Loggers, K!LogCommit(l) PROVE LogHolds' /\ UNCHANGED K!storeVars
  <2> DEFINE f == logging[l]
  <2>1. /\ f # None /\ events < MaxEvents /\ events' = events + 1
        /\ IF f \in archives \cup {log}
             THEN held' = [held EXCEPT ![f] = @ \cup {events + 1}] /\ UNCHANGED pruned
             ELSE pruned' = pruned \cup {events + 1} /\ UNCHANGED held
        /\ logging' = [logging EXCEPT ![l] = None]
        /\ UNCHANGED <<K!storeVars, log, archives, rotation, rotations>>
    BY <1>4 DEF K!LogCommit
  <2>2. f \in K!FileIds /\ f \in HeldFiles
    BY <2>1 DEF LogHolds, HeldFiles
  <2>3. /\ held' \in [K!FileIds -> SUBSET (1 .. MaxEvents)] /\ pruned' \subseteq 1 .. MaxEvents
        /\ logging' \in [Loggers -> K!FileIds \cup {None}] /\ events' \in 0 .. MaxEvents
    <3>1. events + 1 \in 1 .. MaxEvents /\ events' \in 0 .. MaxEvents
      BY <1>2, <2>1 DEF LogHolds
    <3> HIDE DEF f
    <3>2. held' \in [K!FileIds -> SUBSET (1 .. MaxEvents)] /\ pruned' \subseteq 1 .. MaxEvents
      <4> DEFINE N == 1 .. MaxEvents
                 e == events + 1
      <4>1. e \in N /\ held \in [K!FileIds -> SUBSET N] /\ pruned \subseteq N
        BY <3>1 DEF LogHolds
      <4>2. \/ held' = [held EXCEPT ![f] = @ \cup {e}] /\ pruned' = pruned
            \/ pruned' = pruned \cup {e} /\ held' = held
        BY <2>1
      <4> HIDE DEF N, e
      <4>3. held' \in [K!FileIds -> SUBSET N] /\ pruned' \subseteq N
        BY <2>2, <4>1, <4>2
      <4> QED
        BY <4>3 DEF N
    <3>3. logging' \in [Loggers -> K!FileIds \cup {None}]
      BY <2>1 DEF LogHolds
    <3> QED
      BY <3>1, <3>2, <3>3
  <2>4. HeldFiles' \subseteq HeldFiles
    BY <1>2, <2>1, <2>2 DEF HeldFiles, LogHolds, K!FileIds
  <2>5. /\ \A g \in K!FileIds : held[g] \subseteq held'[g]
        /\ pruned \subseteq pruned'
        /\ events' \in pruned' \/ (f \in archives \cup ({log} \ {None}) /\ events' \in held'[f])
    BY <2>1, <2>2 DEF LogHolds
  <2>6. \A e \in 1 .. events' : e \in 1 .. events \/ e = events'
    BY <2>1 DEF LogHolds
  <2>7. archives \cup ({log} \ {None}) \subseteq K!FileIds
    BY DEF LogHolds
  <2>8. \A e \in 1 .. events' : e \in pruned' \/ \E g \in archives' \cup ({log'} \ {None}) : e \in held'[g]
    BY <2>1, <2>5, <2>6, <2>7 DEF LogHolds
  <2> HIDE DEF f
  <2>9. Cardinality(HeldFiles') \leq rotations' + IF log' = None THEN 0 ELSE 1
    BY <1>2, <2>1, <2>4, NoneMore DEF LogHolds
  <2> QED
    BY <2>1, <2>3, <2>8, <2>9 DEF LogHolds, K!FileIds
<1>5. ASSUME K!Rotate PROVE LogHolds' /\ UNCHANGED K!storeVars
  <2>1. /\ rotations < MaxRotations /\ log # None /\ rotations' = rotations + 1 /\ rotation' = "moved"
        /\ UNCHANGED <<K!storeVars, logging, events, pruned>>
    BY <1>5 DEF K!Rotate
  <2>2. CASE archives' = archives \cup {new} /\ held' = [held EXCEPT ![new] = held[log]] /\ UNCHANGED log
    <3>1. HeldFiles' \subseteq HeldFiles \cup {new}
      BY <1>1, <2>1, <2>2 DEF HeldFiles, LogHolds, K!FileIds
    <3>2. Cardinality(HeldFiles') \leq rotations' + 1
      BY <1>2, <2>1, <3>1, OneMore DEF LogHolds
    <3>3. \A e \in 1 .. events' : e \in pruned' \/ \E g \in archives' \cup ({log'} \ {None}) : e \in held'[g]
      BY <1>1, <2>1, <2>2 DEF LogHolds
    <3>4. held' \in [K!FileIds -> SUBSET (1 .. MaxEvents)] /\ archives' \subseteq K!FileIds
      BY <1>1, <2>1, <2>2 DEF LogHolds
    <3> QED
      BY <1>2, <2>1, <2>2, <3>2, <3>3, <3>4 DEF LogHolds, K!FileIds
  <2>3. CASE archives' = archives \cup {log} /\ log' = None /\ UNCHANGED held
    <3>1. HeldFiles' \subseteq HeldFiles
      BY <1>2, <2>1, <2>3 DEF HeldFiles, LogHolds, K!FileIds
    <3>2. Cardinality(HeldFiles') \leq rotations'
      BY <1>2, <2>1, <3>1, NoneMore DEF LogHolds
    <3>3. \A e \in 1 .. events' : e \in pruned' \/ \E g \in archives' \cup ({log'} \ {None}) : e \in held'[g]
      BY <2>1, <2>3 DEF LogHolds
    <3> QED
      BY <1>2, <2>1, <2>3, <3>2, <3>3 DEF LogHolds, K!FileIds
  <2> QED
    BY <1>5, <2>2, <2>3 DEF K!Rotate, new
<1>6. ASSUME K!Touch PROVE LogHolds' /\ UNCHANGED K!storeVars
  <2>1. /\ log' = (IF log = None THEN new ELSE log) /\ rotation' = "prune"
        /\ UNCHANGED <<K!storeVars, held, archives, logging, events, pruned, rotations>>
    BY <1>6 DEF K!Touch, new
  <2>2. log' \in K!FileIds /\ log' # None
    BY <1>1, <1>2, <2>1 DEF LogHolds
  <2>3. CASE log = None
    <3>1. HeldFiles' \subseteq HeldFiles \cup {new}
      BY <2>1, <2>2, <2>3 DEF HeldFiles, LogHolds, K!FileIds
    <3>2. Cardinality(HeldFiles') \leq rotations' + 1
      BY <1>2, <2>1, <2>3, <3>1, OneMore DEF LogHolds
    <3> QED
      BY <2>1, <2>2, <2>3, <3>2 DEF LogHolds, K!FileIds
  <2>4. CASE log # None
    <3>1. HeldFiles' = HeldFiles
      BY <2>1, <2>4 DEF HeldFiles, K!FileIds
    <3> QED
      BY <2>1, <2>2, <2>4, <3>1 DEF LogHolds, K!FileIds
  <2> QED
    BY <2>3, <2>4
<1>7. ASSUME K!PruneArchives PROVE LogHolds' /\ UNCHANGED K!storeVars
  <2>1. PICK stay \in SUBSET archives :
          archives' = stay /\ pruned' = pruned \cup UNION {held[f] : f \in archives \ stay}
    BY <1>7 DEF K!PruneArchives
  <2>2. rotation' = "no" /\ UNCHANGED <<K!storeVars, log, held, logging, events, rotations>>
    BY <1>7 DEF K!PruneArchives
  <2>3. \A f \in archives : f \in archives' \/ held[f] \subseteq pruned'
    BY <2>1
  <2>4. archives' \subseteq archives /\ pruned \subseteq pruned' /\ pruned' \subseteq 1 .. MaxEvents
    BY <2>1 DEF LogHolds
  <2>5. HeldFiles' \subseteq HeldFiles
    BY <2>2, <2>4 DEF HeldFiles, K!FileIds
  <2>6. Cardinality(HeldFiles') \leq rotations' + IF log' = None THEN 0 ELSE 1
    BY <1>2, <2>2, <2>5, NoneMore DEF LogHolds
  <2>7. \A e \in 1 .. events' : e \in pruned' \/ \E g \in archives' \cup ({log'} \ {None}) : e \in held'[g]
    BY <2>2, <2>3, <2>4 DEF LogHolds
  <2> QED
    BY <2>2, <2>4, <2>6, <2>7 DEF LogHolds, K!FileIds
<1> QED
  BY <1>3, <1>4, <1>5, <1>6, <1>7

UpkeepInv == CollectionsHold /\ LogHolds

\* What leaves the collections alone keeps what holds of them.
LEMMA CollectionsStay == CollectionsHold /\ UNCHANGED K!storeVars => CollectionsHold'
BY DEF CollectionsHold, K!storeVars, K!AllNames

\* What leaves the log alone keeps what holds of it.
LEMMA LogStays == LogHolds /\ UNCHANGED K!logVars => LogHolds'
<1> SUFFICES ASSUME LogHolds, UNCHANGED K!logVars PROVE LogHolds'
  OBVIOUS
<1>1. UNCHANGED <<log, held, archives, logging, events, pruned, rotation, rotations>>
  BY DEF K!logVars
<1>2. HeldFiles' = HeldFiles
  BY <1>1 DEF HeldFiles, K!FileIds
<1> QED
  BY <1>1, <1>2 DEF LogHolds, K!FileIds

\* It holds in every behaviour.
LEMMA UpkeepAlways == Spec => []UpkeepInv
<1>1. Init => UpkeepInv
  BY CollectionsStart, LogStart DEF Init, UpkeepInv
<1>2. UpkeepInv /\ K!UpkeepNext => UpkeepInv'
  BY CollectionsStep, LogStep, CollectionsStay, LogStays DEF K!UpkeepNext, UpkeepInv
<1>3. UpkeepInv /\ UNCHANGED upkeepVars => UpkeepInv'
  BY CollectionsStay, LogStays DEF UpkeepInv, upkeepVars, K!storeVars, K!logVars
<1>4. UpkeepInv /\ [Next]_vars => UpkeepInv'
  BY <1>2, <1>3 DEF Next, vars
<1> QED
  BY <1>1, <1>4, PTL DEF Spec, vars

\* Maintenance beside a running brain loses nothing: each tier has its
\* collection unless a vacuum is about to make it again (chroma.py:592), and
\* each event that was committed is in the log or in an archive, unless the
\* archive was one too many (cli.py:664).
THEOREM NothingSweptAlways == Spec => []NothingSwept
<1>1. UpkeepInv => NothingSwept
  BY DEF UpkeepInv, CollectionsHold, LogHolds, NothingSwept, K!NothingSwept
<1> QED
  BY <1>1, UpkeepAlways, PTL

-----------------------------------------------------------------------------
(* The causal trace.                                                        *)

\* What leads to an entity of M by one relationship.
Before(w, M) == {w[r].from : r \in {r \in Edges : w[r].to \in M}}

\* near[d] is what is d steps from the root and no fewer, when all the
\* relationships count.
Nearest(near) ==
  /\ near \in [0 .. Depth -> SUBSET Entities]
  /\ near[0] = {Root}
  /\ \A d \in 1 .. Depth : near[d] = Before(web, near[d - 1]) \ UNION {near[c] : c \in 0 .. d - 1}

Nodes == [entity : Entities, depth : 1 .. Depth, via : Edges]

\* The queue: each node at its distance, and the distances go up, by one at most.
Queued(near) ==
  /\ \A i \in DOMAIN waiting : waiting[i].entity \in near[waiting[i].depth] /\ waiting[i].depth \leq floor + 1
  /\ \A i, j \in DOMAIN waiting : i \leq j => waiting[i].depth \leq waiting[j].depth
  /\ \A j \in DOMAIN waiting : waiting[j].depth \leq waiting[1].depth + 1

\* The chain: each node at its distance, and all that leads to it is known.
Chained(near) ==
  \A d \in 1 .. Depth : \A n \in chain[d] :
    /\ n.entity \in near[d] /\ d \leq floor
    /\ d < Depth => Before(web, {n.entity}) \subseteq known

\* What is known, beside the root, is in the chain, in the queue, or too deep.
Placed(near, e, d) ==
  /\ e \in near[d]
  /\ \/ d > floor
     \/ \E n \in chain[d] : n.entity = e
     \/ \E i \in DOMAIN waiting : waiting[i].depth = d /\ waiting[i].entity = e

Traced(near) ==
  /\ Queued(near) /\ Chained(near)
  /\ looking # "root" => Root \in known /\ Before(web, {Root}) \subseteq known
  /\ \A e \in known \ {Root} : \E d \in 1 .. Depth : Placed(near, e, d)

TraceInv ==
  /\ O!ObserverTypeOK
  /\ chain \in [1 .. Depth -> SUBSET Nodes] /\ waiting \in Seq(Nodes)
  /\ \A d \in 1 .. Depth : \A n \in chain[d] : web[n.via].from = n.entity
  /\ \A i \in DOMAIN waiting : web[waiting[i].via].from = waiting[i].entity
  /\ ends = 0 => live = Edges
  /\ ends = 0 => \A e \in Entities \ unsurveyed : O!Into(e) = {} => spots[e] > 0 \/ O!OutOf(e) = {}
  /\ looking = "root" => known = {} /\ \A d \in 1 .. Depth : chain[d] = {}
  /\ looking \in {"root", "sum", "done"} => waiting = <<>>
  /\ \E near : Nearest(near) /\ (past \/ ends = 0 => Traced(near))

\* An entity has one distance.
LEMMA TheSameSteps ==
  ASSUME NEW near, Nearest(near), NEW c \in 0 .. Depth, NEW d \in 0 .. Depth, c # d
  PROVE  near[c] \cap near[d] = {}
<1>1. ASSUME NEW i \in 0 .. Depth, NEW j \in 0 .. Depth, i < j PROVE near[i] \cap near[j] = {}
  <2>1. j \in 1 .. Depth /\ i \in 0 .. j - 1
    BY <1>1, ObserverAssumption
  <2> QED
    BY <2>1 DEF Nearest
<1>2. c < d \/ d < c
  BY ObserverAssumption
<1> QED
  BY <1>1, <1>2

\* What is d steps away at least is there for any web.
LEMMA NearestIs ==
  ASSUME web \in [Edges -> [from : Entities, to : Entities]]
  PROVE  \E near : Nearest(near)
<1> DEFINE Pairs == (SUBSET Entities) \X (SUBSET Entities)
           Next1(a) == <<Before(web, a[1]) \ a[2], a[2] \cup (Before(web, a[1]) \ a[2])>>
           step == [i \in 1 .. Depth |-> [a \in Pairs |-> Next1(a)]]
           b == <<{Root}, {Root}>>
<1>1. b \in Pairs /\ Depth \in Nat
  BY ObserverAssumption
<1>2. ASSUME NEW a \in Pairs PROVE Next1(a) \in Pairs
  BY DEF Before
<1>3. Recursed(Pairs, b, Depth, step)
  <2>1. step \in [1 .. Depth -> [Pairs -> Pairs]]
    BY <1>2
  <2> HIDE DEF step, Pairs, b
  <2> QED
    BY <1>1, <2>1, Recursion
<1>4. PICK g \in [0 .. Depth -> Pairs] : g[0] = b /\ \A i \in 1 .. Depth : g[i] = step[i][g[i - 1]]
  BY <1>3 DEF Recursed
<1>5. ASSUME NEW i \in 1 .. Depth PROVE g[i] = Next1(g[i - 1])
  <2>1. i - 1 \in 0 .. Depth
    BY <1>1
  <2>2. g[i - 1] \in Pairs
    BY <2>1
  <2> HIDE DEF Pairs, Next1
  <2> QED
    BY <1>4, <2>2
<1> DEFINE near == [d \in 0 .. Depth |-> g[d][1]]
<1>6. \A i \in 0 .. Depth : g[i][2] = UNION {near[c] : c \in 0 .. i}
  <2> DEFINE T == {k \in 0 .. Depth : g[k][2] = UNION {near[c] : c \in 0 .. k}}
  <2>1. 0 \in T
    <3>1. g[0][2] = {Root} /\ near[0] = {Root}
      BY <1>1, <1>4
    <3>2. 0 .. 0 = {0} /\ 0 \in 0 .. Depth
      BY <1>1
    <3> HIDE DEF near
    <3> QED
      BY <3>1, <3>2
  <2>2. ASSUME NEW i \in 1 .. Depth, i - 1 \in T PROVE i \in T
    <3>1. g[i][2] = g[i - 1][2] \cup near[i]
      <4>1. i \in 0 .. Depth
        OBVIOUS
      <4>2. g[i] = Next1(g[i - 1]) /\ near[i] = g[i][1]
        BY <1>5, <4>1
      <4> QED
        BY <4>2
    <3>2. 0 .. i = (0 .. i - 1) \cup {i}
      BY <1>1
    <3> HIDE DEF near
    <3> QED
      BY <2>2, <3>1, <3>2
  <2> HIDE DEF T
  <2>3. \A i \in 0 .. Depth : i \in T
    BY <1>1, <2>1, <2>2, Upward
  <2> QED
    BY <2>3 DEF T
<1>7. ASSUME NEW d \in 1 .. Depth PROVE near[d] = Before(web, near[d - 1]) \ UNION {near[c] : c \in 0 .. d - 1}
  <2>1. d - 1 \in 0 .. Depth /\ d \in 0 .. Depth
    BY <1>1
  <2>2. near[d] = Before(web, g[d - 1][1]) \ g[d - 1][2] /\ near[d - 1] = g[d - 1][1]
    BY <1>5, <2>1
  <2> QED
    BY <1>6, <2>1, <2>2
<1>8. near \in [0 .. Depth -> SUBSET Entities] /\ near[0] = {Root}
  BY <1>1, <1>4
<1> HIDE DEF near
<1>9. Nearest(near)
  BY <1>7, <1>8, Zenon DEF Nearest
<1> QED
  BY <1>9

\* The property's distances are those, when all the relationships count.
LEMMA AwayIs ==
  ASSUME NEW near, Nearest(near), O!Seen = Edges
  PROVE  \A d \in 0 .. Depth : O!Away[d] = near[d]
<1> DEFINE At(f, d) == IF d = 0 THEN {Root}
                       ELSE {web[r].from : r \in {r \in O!Seen : web[r].to \in f[d - 1]}}
                            \ UNION {f[c] : c \in 0 .. d - 1}
           Is(f) == f = [d \in 0 .. Depth |-> At(f, d)]
           away == CHOOSE f : Is(f)
<1>1. O!Away = away
  BY Zenon DEF O!Away
<1>2. Depth \in Nat
  BY ObserverAssumption
<1>3. ASSUME NEW d \in 0 .. Depth PROVE near[d] = At(near, d)
  <2>1. CASE d = 0
    BY <2>1 DEF Nearest
  <2>2. CASE d # 0
    <3>1. d \in 1 .. Depth
      BY <1>2, <2>2
    <3> QED
      BY <2>2, <3>1 DEF Nearest, Before
  <2> QED
    BY <2>1, <2>2
<1>4. Is(near)
  <2>1. near \in [0 .. Depth -> SUBSET Entities]
    BY DEF Nearest
  <2> HIDE DEF At
  <2> QED
    BY <1>3, <2>1
<1>5. Is(away)
  <2> HIDE DEF Is
  <2> QED
    BY <1>4, Zenon
<1>6. ASSUME NEW d \in 0 .. Depth PROVE away[d] = At(away, d)
  <2> HIDE DEF away, At
  <2> QED
    BY <1>5
<1> HIDE DEF away, Is
<1> DEFINE T == {k \in 0 .. Depth : \A c \in 0 .. k : away[c] = near[c]}
<1>7. 0 \in T
  <2>1. 0 \in 0 .. Depth /\ 0 .. 0 = {0}
    BY <1>2
  <2>2. away[0] = near[0]
    BY <1>3, <1>6, <2>1
  <2> QED
    BY <2>1, <2>2
<1>8. ASSUME NEW i \in 1 .. Depth, i - 1 \in T PROVE i \in T
  <2>1. i \in 0 .. Depth /\ i # 0 /\ i - 1 \in 0 .. i - 1 /\ 0 .. i = (0 .. i - 1) \cup {i}
    BY <1>2
  <2>2. \A c \in 0 .. i - 1 : away[c] = near[c]
    BY <1>8
  <2>3. At(away, i) = At(near, i)
    BY <2>1, <2>2
  <2>4. away[i] = near[i]
    BY <1>3, <1>6, <2>1, <2>3
  <2> QED
    BY <2>1, <2>2, <2>4
<1> HIDE DEF T
<1>9. \A i \in 0 .. Depth : i \in T
  BY <1>2, <1>7, <1>8, Upward
<1>10. \A i \in 0 .. Depth : i \in 0 .. i
  BY <1>2
<1> QED
  BY <1>1, <1>9, <1>10 DEF T

\* Whatever is not nearer than the queue is known already.
LEMMA KnownUpTo ==
  ASSUME NEW near, Nearest(near), Traced(near), waiting \in Seq(Nodes), known \subseteq Entities,
         floor \in 1 .. Depth, looking # "root",
         NEW h \in 0 .. Depth, h \leq floor + 1, \A i \in DOMAIN waiting : waiting[i].depth \geq h
  PROVE  \A c \in 0 .. h : near[c] \subseteq known
<1> DEFINE T == {c \in 0 .. h : near[c] \subseteq known}
<1>1. Depth \in Nat /\ h \in Nat /\ floor \in Nat /\ h \leq Depth /\ floor \leq Depth
  BY ObserverAssumption
<1>2. 0 \in T
  BY <1>1 DEF Nearest, Traced
<1>3. ASSUME NEW i \in 1 .. h, i - 1 \in T PROVE i \in T
  <2>1. i \in 1 .. Depth /\ i - 1 \in 0 .. Depth /\ i - 1 \in Nat /\ i \in 0 .. h /\ i \leq floor + 1
    BY <1>1
  <2>2. near[i] \subseteq Before(web, near[i - 1]) /\ near[i - 1] \subseteq known
    BY <1>3, <2>1 DEF Nearest
  <2>3. ASSUME NEW e \in near[i - 1] PROVE Before(web, {e}) \subseteq known
    <3>1. CASE i - 1 = 0
      BY <2>3, <3>1 DEF Nearest, Traced
    <3>2. CASE i - 1 # 0
      <4>1. i - 1 \in 1 .. Depth /\ i - 1 < Depth /\ i - 1 \leq floor /\ i - 1 < h
        BY <1>1, <2>1, <3>2
      <4>2. e # Root
        <5>1. near[0] \cap near[i - 1] = {}
          BY <1>1, <4>1, TheSameSteps
        <5> QED
          BY <2>3, <5>1 DEF Nearest
      <4>3. PICK d \in 1 .. Depth : Placed(near, e, d)
        BY <2>2, <2>3, <4>2 DEF Traced
      <4>4. d = i - 1
        BY <1>1, <2>1, <2>3, <4>3, TheSameSteps DEF Placed
      <4>5. PICK n \in chain[d] : n.entity = e
        BY <1>1, <4>1, <4>3, <4>4 DEF Placed
      <4> QED
        BY <4>1, <4>3, <4>4, <4>5 DEF Traced, Chained
    <3> QED
      BY <3>1, <3>2
  <2>4. Before(web, near[i - 1]) \subseteq known
    BY <2>3 DEF Before
  <2> QED
    BY <2>1, <2>2, <2>4
<1> HIDE DEF T
<1>4. \A i \in 0 .. h : i \in T
  BY <1>1, <1>2, <1>3, Upward
<1> QED
  BY <1>4 DEF T

\* What joins the queue: a node for each entity that leads to e and is new.
LEMMA FreshIs ==
  ASSUME web \in [Edges -> [from : Entities, to : Entities]], live \subseteq Edges,
         NEW e, NEW d \in 1 .. Depth, NEW q \in O!Fresh(e, d)
  PROVE  /\ q \in Seq(Nodes)
         /\ \A i \in DOMAIN q : /\ q[i].depth = d /\ q[i].via \in O!Into(e)
                                /\ web[q[i].via].from = q[i].entity /\ q[i].entity \notin known \cup {e}
         /\ \A r \in O!Into(e) : web[r].from \in known \cup {e} \/ \E i \in DOMAIN q : q[i].entity = web[r].from
         /\ O!Into(e) = {} => q = <<>>
<1>1. O!Into(e) \subseteq Edges
  BY DEF O!Into, O!Seen
<1> DEFINE Node(r) == [entity |-> web[r].from, depth |-> d, via |-> r]
           Fits(M) == /\ {web[r].from : r \in M} = {web[r].from : r \in O!Into(e)} \ (known \cup {e})
                      /\ \A r, p \in M : r # p => web[r].from # web[p].from
<1>2. \E M \in SUBSET O!Into(e) : \E s \in O!SetToSeqs(M) : Fits(M) /\ q = [i \in DOMAIN s |-> Node(s[i])]
  <2> DEFINE Picks == {M \in SUBSET O!Into(e) : Fits(M)}
  <2>1. q \in {[i \in DOMAIN s |-> Node(s[i])] : s \in UNION {O!SetToSeqs(M) : M \in Picks}}
    BY Zenon DEF O!Fresh
  <2> HIDE DEF Node, Fits
  <2> QED
    BY <2>1, Zenon
<1> HIDE DEF Node, Fits
<1>3. PICK M \in SUBSET O!Into(e) : \E s \in O!SetToSeqs(M) : Fits(M) /\ q = [i \in DOMAIN s |-> Node(s[i])]
  BY <1>2
<1>16. PICK s \in O!SetToSeqs(M) : Fits(M) /\ q = [i \in DOMAIN s |-> Node(s[i])]
  BY <1>3
<1>4. IsFiniteSet(M) /\ Cardinality(M) \in Nat
  BY <1>1, FS_Subset, FS_CardinalityType, ObserverAssumption
<1> DEFINE n == Cardinality(M)
<1>5. s \in [1 .. n -> M] /\ \A i, j \in 1 .. n : i # j => s[i] # s[j]
  BY <1>16, Zenon DEF O!SetToSeqs, O!Cardinality, Cardinality
<1> HIDE DEF n
<1>6. n \in Nat /\ Cardinality(M) = n /\ IsFiniteSet(1 .. n) /\ Cardinality(1 .. n) = n
  BY <1>4, FS_Interval DEF n
<1>7. s \in Injection(1 .. n, M)
  BY <1>5 DEF Injection, IsInjective
<1>8. s \in Surjection(1 .. n, M)
  BY <1>4, <1>6, <1>7, FS_Injection
<1>9. \A r \in M : \E i \in 1 .. n : s[i] = r
  BY <1>8 DEF Surjection
<1>10. DOMAIN q = 1 .. n /\ \A i \in 1 .. n : q[i] = Node(s[i]) /\ s[i] \in M /\ s[i] \in Edges
  BY <1>1, <1>16, <1>5
<1>11. \A r \in M : Node(r) \in Nodes
  BY <1>1 DEF Node, Nodes
<1>12. q \in Seq(Nodes)
  <2>1. q = [i \in 1 .. n |-> Node(s[i])]
    BY <1>16, <1>5
  <2>2. \A i \in 1 .. n : Node(s[i]) \in Nodes
    BY <1>10, <1>11
  <2> QED
    BY <1>6, <2>1, <2>2
<1>13. \A i \in DOMAIN q : /\ q[i].depth = d /\ q[i].via \in O!Into(e)
                           /\ web[q[i].via].from = q[i].entity /\ q[i].entity \notin known \cup {e}
  BY <1>16, <1>10 DEF Node, Fits
<1>14. \A r \in O!Into(e) : web[r].from \in known \cup {e} \/ \E i \in DOMAIN q : q[i].entity = web[r].from
  <2>1. ASSUME NEW r \in O!Into(e), web[r].from \notin known \cup {e} PROVE \E i \in DOMAIN q : q[i].entity = web[r].from
    <3>1. PICK p \in M : web[p].from = web[r].from
      BY <1>16, <2>1 DEF Fits
    <3>2. PICK i \in 1 .. n : s[i] = p
      BY <1>9
    <3>3. q[i].entity = web[r].from
      BY <1>10, <3>1, <3>2 DEF Node
    <3> QED
      BY <1>10, <3>3
  <2> QED
    BY <2>1
<1>15. ASSUME O!Into(e) = {} PROVE q = <<>>
  <2>1. n = 0
    BY <1>3, <1>15, FS_EmptySet DEF n
  <2> QED
    BY <1>10, <1>12, <2>1
<1> QED
  BY <1>12, <1>13, <1>14, <1>15

\* Distances are those of the graph, which has not changed.
LEMMA NearestStays == ASSUME NEW near, Nearest(near), UNCHANGED web PROVE Nearest(near)'
BY DEF Nearest

\* The queue when its first has left and q has joined it.
Moved(w, q, new) ==
  /\ new \in Seq(Nodes) /\ Head(w) = w[1] /\ 1 \in DOMAIN w
  /\ \A i \in DOMAIN new : \/ i + 1 \in DOMAIN w /\ i < Len(w) /\ new[i] = w[i + 1]
                           \/ i \geq Len(w) /\ \E k \in DOMAIN q : new[i] = q[k]
  /\ \A j \in DOMAIN w : j = 1 \/ \E i \in DOMAIN new : new[i] = w[j]
  /\ \A k \in DOMAIN q : \E i \in DOMAIN new : new[i] = q[k]

\* What is behind the head of a queue moves up as the head is taken.
LEMMA QueueIs ==
  ASSUME NEW w \in Seq(Nodes), w # <<>>, NEW q \in Seq(Nodes), NEW new, new = Tail(w) \o q
  PROVE  Moved(w, q, new)
<1> DEFINE m == Len(w) - 1
<1>1. m \in Nat /\ Len(w) = m + 1 /\ Len(q) \in Nat /\ DOMAIN w = 1 .. m + 1 /\ DOMAIN q = 1 .. Len(q)
  OBVIOUS
<1>2. Tail(w) \in Seq(Nodes) /\ Len(Tail(w)) = m /\ \A i \in 1 .. m : Tail(w)[i] = w[i + 1]
  BY <1>1
<1> HIDE DEF m
<1>3. /\ new \in Seq(Nodes) /\ Len(new) = m + Len(q)
      /\ \A i \in 1 .. m : new[i] = w[i + 1]
      /\ \A i \in 1 .. m + Len(q) : i > m => new[i] = q[i - m]
  <2> DEFINE t == Tail(w)
  <2>1. t \in Seq(Nodes) /\ Len(t) = m /\ new = t \o q /\ \A i \in 1 .. m : t[i] = w[i + 1]
    BY <1>2
  <2> HIDE DEF t
  <2>2. new \in Seq(Nodes) /\ Len(new) = m + Len(q)
    BY <2>1, ConcatProperties
  <2>3. ASSUME NEW i \in 1 .. m PROVE new[i] = w[i + 1]
    BY <1>1, <2>1
  <2>4. ASSUME NEW i \in 1 .. m + Len(q), i > m PROVE new[i] = q[i - m]
    BY <1>1, <2>1, <2>4
  <2> QED
    BY <2>2, <2>3, <2>4
<1>4. DOMAIN new = 1 .. m + Len(q)
  BY <1>3
<1>5. ASSUME NEW i \in DOMAIN new
      PROVE  \/ i + 1 \in DOMAIN w /\ i < Len(w) /\ new[i] = w[i + 1]
             \/ i \geq Len(w) /\ \E k \in DOMAIN q : new[i] = q[k]
  <2>1. CASE i \leq m
    BY <1>1, <1>3, <1>4, <2>1
  <2>2. CASE i > m
    <3>1. i - m \in DOMAIN q /\ i \geq Len(w) /\ new[i] = q[i - m]
      BY <1>1, <1>3, <1>4, <2>2
    <3> QED
      BY <3>1
  <2> QED
    BY <1>1, <1>4, <2>1, <2>2
<1>6. ASSUME NEW j \in DOMAIN w, j # 1 PROVE \E i \in DOMAIN new : new[i] = w[j]
  <2>1. j - 1 \in 1 .. m /\ (j - 1) + 1 = j /\ j - 1 \in DOMAIN new
    BY <1>1, <1>4, <1>6
  <2> QED
    BY <1>3, <2>1
<1>7. ASSUME NEW k \in DOMAIN q PROVE \E i \in DOMAIN new : new[i] = q[k]
  <2>1. m + k \in DOMAIN new /\ m + k > m /\ (m + k) - m = k
    BY <1>1, <1>4
  <2> QED
    BY <1>3, <1>4, <2>1
<1>8. Head(w) = w[1] /\ 1 \in DOMAIN w
  BY <1>1
<1> QED
  BY <1>3, <1>5, <1>6, <1>7, <1>8 DEF Moved

\* The invariant holds in the first states.
LEMMA ObserverStart == O!ObserverInit => TraceInv
<1> SUFFICES ASSUME O!ObserverInit PROVE TraceInv
  OBVIOUS
<1>1. web \in [Edges -> [from : Entities, to : Entities]]
  BY ObserverAssumption DEF O!ObserverInit
<1>2. PICK near : Nearest(near)
  BY <1>1, NearestIs
<1>3. O!ObserverTypeOK
  BY <1>1, ObserverAssumption DEF O!ObserverInit, O!ObserverTypeOK
<1>4. \A d \in 1 .. Depth : chain[d] = {}
  BY DEF O!ObserverInit
<1>5. chain \in [1 .. Depth -> SUBSET Nodes] /\ waiting \in Seq(Nodes) /\ DOMAIN waiting = {} /\ waiting = <<>>
  BY DEF O!ObserverInit
<1>6. /\ looking = "root" /\ known = {} /\ unsurveyed = Entities /\ live = Edges
  BY DEF O!ObserverInit
<1>7. Traced(near)
  BY <1>4, <1>5, <1>6 DEF Traced, Queued, Chained
<1> QED
  BY <1>2, <1>3, <1>4, <1>5, <1>6, <1>7 DEF TraceInv

\* A step that leaves the trace alone keeps what holds of it.
LEMMA TracedStays ==
  ASSUME NEW near, Traced(near), UNCHANGED <<web, floor, waiting, known, chain>>,
         looking' # "root" => looking # "root"
  PROVE  Traced(near)'
<1>1. Queued(near)' /\ Chained(near)'
  BY DEF Traced, Queued, Chained
<1>2. \A e, d : Placed(near, e, d) => Placed(near, e, d)'
  BY DEF Placed
<1> QED
  BY <1>1, <1>2 DEF Traced

\* When all relationships count, those that lead to an entity are all that do.
LEMMA IntoIs ==
  ASSUME O!Seen = Edges, NEW e
  PROVE  Before(web, {e}) = {web[r].from : r \in O!Into(e)}
BY DEF O!Into, Before

\* As long as the graph has not changed, the trace sees all of it.
LEMMA SteadyIs == ASSUME TraceInv, past \/ ends = 0 PROVE O!Seen = Edges
BY DEF TraceInv, O!Seen, O!ObserverTypeOK

\* The root's turn.
LEMMA SeedTraced ==
  ASSUME TraceInv, past \/ ends = 0, NEW near, Nearest(near), Traced(near),
         NEW q \in O!Fresh(Root, 1), looking = "root",
         waiting' = q, known' = O!Met(q) \cup {Root}, looking' \in {"done", "trace"},
         UNCHANGED <<web, live, past, floor, chain, ends>>
  PROVE  Traced(near)'
<1>1. /\ web \in [Edges -> [from : Entities, to : Entities]] /\ live \subseteq Edges
      /\ floor \in 1 .. Depth /\ Depth \in Nat \ {0} /\ known = {} /\ \A d \in 1 .. Depth : chain[d] = {}
  BY ObserverAssumption DEF TraceInv, O!ObserverTypeOK
<1>2. 1 \in 1 .. Depth /\ 0 \in 0 .. Depth /\ 0 .. 1 - 1 = {0} /\ 1 - 1 = 0
  BY <1>1
<1>3. near[1] = Before(web, {Root}) \ {Root}
  <2>1. near[1] = Before(web, near[1 - 1]) \ UNION {near[c] : c \in 0 .. 1 - 1} /\ near[0] = {Root}
    BY <1>2, Zenon DEF Nearest
  <2> QED
    BY <1>2, <2>1
<1>4. Before(web, {Root}) = {web[r].from : r \in O!Into(Root)}
  BY IntoIs, SteadyIs
<1>5. \A i \in DOMAIN q : /\ q[i].depth = 1 /\ q[i].via \in O!Into(Root)
                          /\ web[q[i].via].from = q[i].entity /\ q[i].entity \notin known \cup {Root}
  BY <1>1, <1>2, FreshIs
<1>6. \A r \in O!Into(Root) : web[r].from \in known \cup {Root} \/ \E i \in DOMAIN q : q[i].entity = web[r].from
  BY <1>1, <1>2, FreshIs
<1>7. known' = {Root} \cup {q[i].entity : i \in DOMAIN q}
  BY <1>1 DEF O!Met
<1>8. \A i \in DOMAIN q : q[i].entity \in near[1]
  BY <1>3, <1>4, <1>5
<1>9. Before(web, {Root}) \subseteq known'
  BY <1>1, <1>4, <1>6, <1>7
<1>11. \A e \in known' \ {Root} : \E i \in DOMAIN waiting' : waiting'[i].depth = 1 /\ waiting'[i].entity = e
  BY <1>5, <1>7
<1>12. \A i, j \in DOMAIN waiting' : waiting'[i].depth = 1 /\ waiting'[i].depth \leq floor' + 1
                                     /\ waiting'[i].entity \in near[1]
                                     /\ waiting'[i].depth \leq waiting'[j].depth
                                     /\ waiting'[i].depth \leq waiting'[1].depth + 1
  <2> SUFFICES ASSUME NEW i \in DOMAIN q, NEW j \in DOMAIN q
               PROVE  q[i].depth = 1 /\ 1 \leq floor + 1 /\ q[i].entity \in near[1]
                      /\ q[i].depth \leq q[j].depth /\ q[i].depth \leq q[1].depth + 1
    OBVIOUS
  <2>1. 1 \in DOMAIN q
    <3>1. q \in Seq(Nodes)
      BY <1>1, <1>2, FreshIs
    <3> QED
      BY <3>1
  <2> QED
    BY <1>1, <1>5, <1>8, <2>1
<1>13. Queued(near)'
  BY <1>12 DEF Queued
<1>14. Chained(near)'
  BY <1>1 DEF Chained
<1>15. \A e \in known' \ {Root} : Placed(near, e, 1)'
  BY <1>11, <1>12 DEF Placed
<1> QED
  BY <1>1, <1>2, <1>7, <1>9, <1>13, <1>14, <1>15 DEF Traced

\* A turn of the search: the first of the queue leaves it, and q joins.
LEMMA FollowTraced ==
  ASSUME TraceInv, past \/ ends = 0, NEW near, Nearest(near), Traced(near),
         looking = "trace", waiting # <<>>, NEW n, n = Head(waiting), NEW q \in Seq(Nodes),
         waiting' = Tail(waiting) \o q, known' = known \cup {q[i].entity : i \in DOMAIN q},
         \/ n.depth > floor /\ q = <<>> /\ UNCHANGED chain
         \/ /\ n.depth \leq floor /\ chain' = [chain EXCEPT ![n.depth] = @ \cup {n}]
            /\ \/ n.depth = Depth /\ q = <<>>
               \/ n.depth < Depth /\ q \in O!Fresh(n.entity, n.depth + 1),
         UNCHANGED <<web, live, past, floor, looking, ends>>
  PROVE  Traced(near)'
<1> DEFINE h == n.depth
<1>1. /\ web \in [Edges -> [from : Entities, to : Entities]] /\ live \subseteq Edges /\ known \subseteq Entities
      /\ floor \in 1 .. Depth /\ Depth \in Nat \ {0} /\ waiting \in Seq(Nodes)
      /\ chain \in [1 .. Depth -> SUBSET Nodes]
  BY ObserverAssumption DEF TraceInv, O!ObserverTypeOK
<1>2. /\ waiting' \in Seq(Nodes) /\ n = waiting[1] /\ 1 \in DOMAIN waiting
      /\ \A i \in DOMAIN waiting' : \/ i + 1 \in DOMAIN waiting /\ i < Len(waiting) /\ waiting'[i] = waiting[i + 1]
                                    \/ i \geq Len(waiting) /\ \E k \in DOMAIN q : waiting'[i] = q[k]
      /\ \A j \in DOMAIN waiting : j = 1 \/ \E i \in DOMAIN waiting' : waiting'[i] = waiting[j]
      /\ \A k \in DOMAIN q : \E i \in DOMAIN waiting' : waiting'[i] = q[k]
  <2>1. Moved(waiting, q, waiting')
    BY <1>1, QueueIs
  <2> QED
    BY <2>1 DEF Moved
<1>3. n \in Nodes /\ h \in 1 .. Depth /\ h \in Nat /\ n.entity \in near[h] /\ h \leq floor + 1
  <2>1. n \in Nodes
    BY <1>1, <1>2
  <2> QED
    BY <1>1, <1>2, <2>1 DEF Nodes, Traced, Queued
<1>4. \A i \in DOMAIN waiting : waiting[i].depth \in 1 .. Depth /\ h \leq waiting[i].depth /\ waiting[i].depth \leq h + 1
  <2> SUFFICES ASSUME NEW i \in DOMAIN waiting
               PROVE  waiting[i].depth \in 1 .. Depth /\ h \leq waiting[i].depth /\ waiting[i].depth \leq h + 1
    OBVIOUS
  <2>1. waiting[i] \in Nodes /\ 1 \leq i
    BY <1>1
  <2> QED
    BY <1>2, <2>1 DEF Nodes, Traced, Queued
<1> HIDE DEF h
<1>5. \A c \in 0 .. h : near[c] \subseteq known
  <2>1. h \in 0 .. Depth /\ looking # "root" /\ \A i \in DOMAIN waiting : waiting[i].depth \geq h
    BY <1>3, <1>4
  <2> QED
    BY <1>1, <1>3, <2>1, KnownUpTo
<1>6. ASSUME q # <<>> PROVE h \leq floor /\ h < Depth /\ q \in O!Fresh(n.entity, h + 1)
  BY <1>6 DEF h
<1>7. ASSUME NEW i \in DOMAIN q
      PROVE  q[i].depth = h + 1 /\ q[i].entity \in near[h + 1] /\ h \leq floor /\ h + 1 \in 1 .. Depth
  <2>1. q # <<>>
    OBVIOUS
  <2>2. h \leq floor /\ h + 1 \in 1 .. Depth /\ q \in O!Fresh(n.entity, h + 1)
    BY <1>1, <1>3, <1>6, <2>1
  <2>3. /\ q[i].depth = h + 1 /\ q[i].via \in O!Into(n.entity)
        /\ web[q[i].via].from = q[i].entity /\ q[i].entity \notin known
    BY <1>1, <2>2, FreshIs
  <2>4. q[i].via \in Edges /\ web[q[i].via].to = n.entity
    BY <2>3, SteadyIs DEF O!Into
  <2>5. q[i].entity \in Before(web, near[h])
    BY <1>3, <2>3, <2>4 DEF Before
  <2>6. near[h + 1] = Before(web, near[h]) \ UNION {near[c] : c \in 0 .. h}
    <3>1. near[h + 1] = Before(web, near[(h + 1) - 1]) \ UNION {near[c] : c \in 0 .. (h + 1) - 1}
      BY <2>2, Zenon DEF Nearest
    <3>2. (h + 1) - 1 = h
      BY <1>3
    <3> QED
      BY <3>1, <3>2
  <2> QED
    BY <1>5, <2>2, <2>3, <2>5, <2>6
<1>8. ASSUME h \leq floor, h < Depth PROVE Before(web, {n.entity}) \subseteq known'
  <2>1. q \in O!Fresh(n.entity, h + 1) /\ h + 1 \in 1 .. Depth
    BY <1>1, <1>3, <1>8 DEF h
  <2>2. \A r \in O!Into(n.entity) : web[r].from \in known \cup {n.entity} \/ \E i \in DOMAIN q : q[i].entity = web[r].from
    BY <1>1, <2>1, FreshIs
  <2>3. n.entity \in known
    BY <1>3, <1>5
  <2> QED
    <3>1. Before(web, {n.entity}) = {web[r].from : r \in O!Into(n.entity)}
      BY IntoIs, SteadyIs
    <3>2. \A r \in O!Into(n.entity) : web[r].from \in known'
      BY <2>2, <2>3
    <3> DEFINE new == known'
    <3> HIDE DEF new
    <3>3. \A r \in O!Into(n.entity) : web[r].from \in new
      BY <3>2 DEF new
    <3>4. Before(web, {n.entity}) \subseteq new
      BY <3>1, <3>3
    <3> QED
      BY <3>4 DEF new
<1>9. Queued(near)'
  <2>1. ASSUME NEW i \in DOMAIN waiting' PROVE waiting'[i].entity \in near[waiting'[i].depth] /\ waiting'[i].depth \leq floor + 1
    <3>1. CASE i + 1 \in DOMAIN waiting /\ waiting'[i] = waiting[i + 1]
      BY <3>1 DEF Traced, Queued
    <3>2. CASE \E k \in DOMAIN q : waiting'[i] = q[k]
      BY <1>1, <1>3, <1>7, <3>2
    <3> QED
      BY <1>2, <3>1, <3>2
  <2>2. ASSUME NEW i \in DOMAIN waiting' PROVE waiting'[i].depth \in Nat /\ h \leq waiting'[i].depth /\ waiting'[i].depth \leq h + 1
    <3>1. CASE i + 1 \in DOMAIN waiting /\ waiting'[i] = waiting[i + 1]
      BY <1>4, <3>1
    <3>2. CASE \E k \in DOMAIN q : waiting'[i] = q[k]
      BY <1>3, <1>7, <3>2
    <3> QED
      BY <1>2, <3>1, <3>2
  <2>3. ASSUME NEW i \in DOMAIN waiting', NEW j \in DOMAIN waiting', i \leq j PROVE waiting'[i].depth \leq waiting'[j].depth
    <3>0. i \in Nat /\ j \in Nat /\ Len(waiting) \in Nat
      BY <1>1, <1>2
    <3>1. CASE i + 1 \in DOMAIN waiting /\ waiting'[i] = waiting[i + 1] /\ j + 1 \in DOMAIN waiting /\ waiting'[j] = waiting[j + 1]
      BY <2>3, <3>0, <3>1 DEF Traced, Queued
    <3>2. CASE \E k \in DOMAIN q : waiting'[j] = q[k]
      BY <1>3, <1>7, <2>2, <3>2
    <3>3. CASE i \geq Len(waiting) /\ ~ j \geq Len(waiting)
      BY <2>3, <3>0, <3>3
    <3> QED
      BY <1>2, <3>0, <3>1, <3>2, <3>3
  <2>4. ASSUME NEW j \in DOMAIN waiting' PROVE waiting'[j].depth \leq waiting'[1].depth + 1
    <3>1. 1 \in DOMAIN waiting'
      BY <1>2
    <3>2. /\ waiting'[1].depth \in Nat /\ h \leq waiting'[1].depth
          /\ waiting'[j].depth \in Nat /\ waiting'[j].depth \leq h + 1
      BY <2>2, <3>1
    <3>3. \A a, b \in Nat : h \leq a /\ b \leq h + 1 => b \leq a + 1
      BY <1>3
    <3> QED
      BY <3>2, <3>3, Zenon
  <2> QED
    BY <2>1, <2>3, <2>4 DEF Queued
<1>10. ASSUME NEW d \in 1 .. Depth, NEW m \in chain'[d] PROVE m \in chain[d] \/ (m = n /\ d = h /\ h \leq floor)
  <2>1. CASE chain' = chain
    BY <1>10, <2>1
  <2>2. CASE h \leq floor /\ chain' = [chain EXCEPT ![h] = @ \cup {n}]
    BY <1>1, <1>3, <1>10, <2>2
  <2> QED
    BY <2>1, <2>2 DEF h
<1>11. Chained(near)'
  <2>1. ASSUME NEW d \in 1 .. Depth, NEW m \in chain'[d]
        PROVE  m.entity \in near[d] /\ d \leq floor /\ (d < Depth => Before(web, {m.entity}) \subseteq known')
    <3>1. CASE m \in chain[d]
      BY <3>1 DEF Traced, Chained
    <3>2. CASE m = n /\ d = h /\ h \leq floor
      BY <1>3, <1>8, <3>2
    <3> QED
      BY <1>10, <3>1, <3>2
  <2> QED
    BY <2>1 DEF Chained
<1>12. \A d \in 1 .. Depth : chain[d] \subseteq chain'[d]
  BY <1>1
<1>13. h > floor \/ n \in chain'[h]
  BY <1>1, <1>3 DEF h
<1>14. ASSUME NEW e, NEW d \in 1 .. Depth, Placed(near, e, d) PROVE Placed(near, e, d)'
  <2>1. CASE d > floor
    BY <1>14, <2>1 DEF Placed
  <2>2. CASE \E m \in chain[d] : m.entity = e
    BY <1>12, <1>14, <2>2 DEF Placed
  <2>3. ASSUME NEW j \in DOMAIN waiting, waiting[j].depth = d, waiting[j].entity = e PROVE Placed(near, e, d)'
    <3>1. CASE j = 1
      <4>1. n.entity = e /\ d = h
        BY <1>2, <2>3, <3>1 DEF h
      <4> QED
        BY <1>13, <1>14, <4>1 DEF Placed
    <3>2. CASE j # 1
      <4>1. PICK i \in DOMAIN waiting' : waiting'[i] = waiting[j]
        BY <1>2, <3>2
      <4> QED
        BY <1>14, <2>3, <4>1 DEF Placed
    <3> QED
      BY <3>1, <3>2
  <2> QED
    BY <1>14, <2>1, <2>2, <2>3 DEF Placed
<1>15. ASSUME NEW e \in known' \ {Root} PROVE \E d \in 1 .. Depth : Placed(near, e, d)'
  <2>1. CASE e \in known
    <3>1. PICK d \in 1 .. Depth : Placed(near, e, d)
      BY <1>15, <2>1 DEF Traced
    <3> QED
      BY <1>14, <3>1
  <2>2. CASE e \notin known
    <3>1. PICK k \in DOMAIN q : q[k].entity = e
      BY <1>15, <2>2
    <3>2. PICK i \in DOMAIN waiting' : waiting'[i] = q[k]
      BY <1>2
    <3>3. Placed(near, e, h + 1)'
      BY <1>7, <3>1, <3>2 DEF Placed
    <3> QED
      BY <1>7, <3>3
  <2> QED
    BY <2>1, <2>2
<1> QED
  BY <1>9, <1>11, <1>15 DEF Traced

\* The nodes of one depth, each by its relationship, are finitely many.
LEMMA FiniteLevel ==
  ASSUME TraceInv
  PROVE  Cardinality(chain[1]) \in Nat
<1> DEFINE f == [r \in Edges |-> [entity |-> web[r].from, depth |-> 1, via |-> r]]
           Level == {f[r] : r \in Edges}
<1>1. f \in Surjection(Edges, Level)
  BY DEF Surjection
<1> HIDE DEF f, Level
<1>2. IsFiniteSet(Level)
  BY <1>1, FS_Surjection, ObserverAssumption
<1>3. 1 \in 1 .. Depth
  BY ObserverAssumption
<1>4. ASSUME NEW n \in chain[1] PROVE n \in Level
  <2>1. n \in [entity : Entities, depth : {1}, via : Edges] /\ web[n.via].from = n.entity
    BY <1>3 DEF TraceInv, O!ObserverTypeOK
  <2>2. n = [entity |-> web[n.via].from, depth |-> 1, via |-> n.via]
    BY <2>1
  <2> QED
    BY <2>1, <2>2 DEF Level, f
<1> QED
  BY <1>2, <1>4, FS_Subset, FS_CardinalityType

\* The Cardinality of Observer is that of the theorems.
LEMMA CountIs == \A M : O!Cardinality(M) = Cardinality(M)
BY Zenon DEF O!Cardinality, Cardinality

\* The elements of a queue of nodes are of the types of its fields.
LEMMA NodesAre ==
  ASSUME NEW q \in Seq(Nodes), NEW i \in DOMAIN q
  PROVE  q[i] \in Nodes /\ q[i].entity \in Entities /\ q[i].depth \in 1 .. Depth /\ q[i].via \in Edges
<1>1. q[i] \in Nodes
  OBVIOUS
<1> QED
  BY <1>1 DEF Nodes

\* An entity has finitely many edges.
LEMMA FewEdges ==
  ASSUME TraceInv, NEW e
  PROVE  /\ Cardinality(O!Into(e)) \in Nat /\ Cardinality(O!OutOf(e)) \in Nat
         /\ (Cardinality(O!OutOf(e)) > 0 \/ O!OutOf(e) = {})
<1>1. O!Into(e) \subseteq Edges /\ O!OutOf(e) \subseteq Edges
  BY DEF O!Into, O!OutOf, O!Seen, TraceInv, O!ObserverTypeOK
<1>2. IsFiniteSet(O!Into(e)) /\ IsFiniteSet(O!OutOf(e))
  BY <1>1, FS_Subset, ObserverAssumption
<1>3. Cardinality(O!OutOf(e)) = 0 <=> O!OutOf(e) = {}
  BY <1>2, FS_EmptySet
<1>4. Cardinality(O!Into(e)) \in Nat /\ Cardinality(O!OutOf(e)) \in Nat
  BY <1>2, FS_CardinalityType
<1> QED
  BY <1>3, <1>4

\* The types of the variables of a trace that go on.
LEMMA TypesOf ==
  ASSUME TraceInv, UNCHANGED <<web, live, past, floor, unsurveyed, spots, ends>>,
         looking' \in {"root", "trace", "sum", "done"}, waiting' \in Seq(Nodes), known' \subseteq Entities,
         coverage' \in [of : Nat, with : Nat],
         \A d \in 1 .. Depth : \A n \in chain'[d] : n \in [entity : Entities, depth : {d}, via : Edges]
  PROVE  O!ObserverTypeOK'
<1>1. \A i \in DOMAIN waiting' : waiting'[i] \in [entity : Entities, depth : 1 .. Depth, via : Edges]
  BY Zenon, NodesAre DEF Nodes
<1>2. \A d \in 1 .. Depth : chain'[d] \subseteq [entity : Entities, depth : {d}, via : Edges]
  OBVIOUS
<1> QED
  BY <1>1, <1>2 DEF TraceInv, O!ObserverTypeOK

\* Every step keeps it.
LEMMA TraceStep == TraceInv /\ O!ObserverNext => TraceInv'
<1> SUFFICES ASSUME TraceInv, O!ObserverNext PROVE TraceInv'
  OBVIOUS
<1>1. /\ web \in [Edges -> [from : Entities, to : Entities]] /\ live \subseteq Edges /\ known \subseteq Entities
      /\ floor \in 1 .. Depth /\ Depth \in Nat \ {0} /\ waiting \in Seq(Nodes)
      /\ chain \in [1 .. Depth -> SUBSET Nodes] /\ past \in BOOLEAN /\ coverage \in [of : Nat, with : Nat]
      /\ unsurveyed \subseteq Entities /\ spots \in [Entities -> Nat] /\ ends \in 0 .. MaxEnds /\ MaxEnds \in Nat
      /\ looking \in {"root", "trace", "sum", "done"} /\ Root \in Entities
  BY ObserverAssumption DEF TraceInv, O!ObserverTypeOK
<1>2. PICK near : Nearest(near) /\ (past \/ ends = 0 => Traced(near))
  BY DEF TraceInv
<1>3. UNCHANGED web => Nearest(near)'
  BY <1>2, NearestStays
\* The survey and the graph change in steps of their own.
<1>4. UNCHANGED <<web, live, past, unsurveyed, spots, ends>> =>
        /\ (ends = 0 => live = Edges)'
        /\ (ends = 0 => \A e \in Entities \ unsurveyed : O!Into(e) = {} => spots[e] > 0 \/ O!OutOf(e) = {})'
  BY DEF TraceInv, O!Into, O!OutOf, O!Seen
<1>5. CASE O!Seed
  <2>1. PICK q \in O!Fresh(Root, 1) :
          waiting' = q /\ known' = O!Met(q) \cup {Root} /\ looking' = IF O!Into(Root) = {} THEN "done" ELSE "trace"
    BY <1>5 DEF O!Seed
  <2>2. /\ looking = "root" /\ coverage' = [coverage EXCEPT !.of = Cardinality(O!Into(Root))]
        /\ UNCHANGED <<web, live, past, floor, chain, unsurveyed, spots, ends>>
    BY <1>5, CountIs DEF O!Seed, O!surveyKept
  <2>3. coverage' \in [of : Nat, with : Nat]
    <3> DEFINE k == Cardinality(O!Into(Root))
    <3>1. k \in Nat /\ coverage' = [coverage EXCEPT !.of = k]
      BY <2>2, FewEdges
    <3> HIDE DEF k
    <3> QED
      BY <1>1, <3>1
  <2>4. 1 \in 1 .. Depth
    BY <1>1
  <2>5. /\ q \in Seq(Nodes) /\ \A i \in DOMAIN q : web[q[i].via].from = q[i].entity
        /\ O!Into(Root) = {} => q = <<>>
    BY <1>1, <2>4, FreshIs
  <2>6. known' \subseteq Entities
    <3>1. \A i \in DOMAIN q : q[i].entity \in Entities
      BY <2>5, NodesAre
    <3> QED
      BY <1>1, <2>1, <3>1 DEF O!Met
  <2>7. looking' \in {"done", "trace"} /\ (looking' \in {"root", "sum", "done"} => waiting' = <<>>)
    BY <2>1, <2>5
  <2>8. past' \/ ends' = 0 => Traced(near)'
    BY <1>2, <2>1, <2>2, <2>7, SeedTraced
  <2>9. O!ObserverTypeOK'
    <3>1. waiting' \in Seq(Nodes)
      BY <2>1, <2>5
    <3> QED
      <4>1. \A d \in 1 .. Depth : \A n \in chain'[d] : n \in [entity : Entities, depth : {d}, via : Edges]
        BY <2>2 DEF TraceInv
      <4> QED
        BY <2>2, <2>3, <2>6, <2>7, <3>1, <4>1, TypesOf
  <2> QED
    BY <1>1, <1>3, <1>4, <2>1, <2>2, <2>5, <2>7, <2>8, <2>9 DEF TraceInv
<1>6. CASE O!Follow
  <2> DEFINE n == Head(waiting)
  <2>1. /\ looking = "trace" /\ waiting # <<>>
        /\ UNCHANGED <<web, live, past, floor, looking, coverage, unsurveyed, spots, ends>>
    BY <1>6 DEF O!Follow, O!surveyKept
  <2>2. \/ n.depth > floor /\ waiting' = Tail(waiting) /\ UNCHANGED <<known, chain>>
        \/ /\ n.depth \leq floor
           /\ chain' = [chain EXCEPT ![n.depth] = @ \cup {n}]
           /\ \/ n.depth = Depth /\ waiting' = Tail(waiting) /\ UNCHANGED known
              \/ n.depth < Depth /\ \E q \in O!Fresh(n.entity, n.depth + 1) :
                   waiting' = Tail(waiting) \o q /\ known' = O!Met(q)
    BY <1>6 DEF O!Follow, O!Joined
  <2>3. n \in Nodes /\ n = waiting[1] /\ 1 \in DOMAIN waiting /\ Tail(waiting) \in Seq(Nodes)
    BY <1>1, <2>1
  <2>4. n.depth \in 1 .. Depth /\ n.entity \in Entities /\ n.via \in Edges /\ web[n.via].from = n.entity
        /\ n \in [entity : Entities, depth : {n.depth}, via : Edges]
    BY <2>3 DEF Nodes, TraceInv
  <2> HIDE DEF n
  <2>5. PICK q \in Seq(Nodes) :
          /\ waiting' = Tail(waiting) \o q /\ known' = known \cup {q[i].entity : i \in DOMAIN q}
          /\ \A i \in DOMAIN q : web[q[i].via].from = q[i].entity
          /\ \/ n.depth > floor /\ q = <<>> /\ UNCHANGED chain
             \/ /\ n.depth \leq floor /\ chain' = [chain EXCEPT ![n.depth] = @ \cup {n}]
                /\ \/ n.depth = Depth /\ q = <<>>
                   \/ n.depth < Depth /\ q \in O!Fresh(n.entity, n.depth + 1)
    <3>1. CASE waiting' = Tail(waiting) /\ UNCHANGED known /\ n.depth > floor /\ UNCHANGED chain
      <4>1. Tail(waiting) \o <<>> = Tail(waiting) /\ <<>> \in Seq(Nodes) /\ DOMAIN <<>> = {}
        BY <2>3
      <4> QED
        BY <3>1, <4>1
    <3>2. CASE /\ waiting' = Tail(waiting) /\ UNCHANGED known
               /\ n.depth \leq floor /\ chain' = [chain EXCEPT ![n.depth] = @ \cup {n}] /\ n.depth = Depth
      <4>1. Tail(waiting) \o <<>> = Tail(waiting) /\ <<>> \in Seq(Nodes) /\ DOMAIN <<>> = {}
        BY <2>3
      <4> QED
        BY <3>2, <4>1
    <3>3. ASSUME n.depth < Depth, n.depth \leq floor, chain' = [chain EXCEPT ![n.depth] = @ \cup {n}],
                 NEW q \in O!Fresh(n.entity, n.depth + 1), waiting' = Tail(waiting) \o q, known' = O!Met(q)
          PROVE  /\ q \in Seq(Nodes) /\ known' = known \cup {q[i].entity : i \in DOMAIN q}
                 /\ \A i \in DOMAIN q : web[q[i].via].from = q[i].entity
      <4>1. n.depth + 1 \in 1 .. Depth
        BY <1>1, <2>4, <3>3
      <4> QED
        BY <1>1, <3>3, <4>1, FreshIs DEF O!Met
    <3> QED
      BY <2>2, <3>1, <3>2, <3>3
  <2>6. past' \/ ends' = 0 => Traced(near)'
    BY <1>2, <2>1, <2>5, FollowTraced DEF n
  <2>7. Moved(waiting, q, waiting')
    BY <1>1, <2>1, <2>5, QueueIs
  <2>8. waiting' \in Seq(Nodes) /\ \A i \in DOMAIN waiting' : web[waiting'[i].via].from = waiting'[i].entity
    BY <2>5, <2>7 DEF Moved, TraceInv
  <2>9. chain' \in [1 .. Depth -> SUBSET Nodes]
    <3>1. CASE chain' = chain
      BY <1>1, <3>1
    <3>2. CASE chain' = [chain EXCEPT ![n.depth] = @ \cup {n}]
      BY <1>1, <2>3, <2>4, <3>2
    <3> QED
      BY <2>5, <3>1, <3>2
  <2>10. ASSUME NEW d \in 1 .. Depth, NEW m \in chain'[d]
         PROVE  m \in [entity : Entities, depth : {d}, via : Edges] /\ web[m.via].from = m.entity
    <3>1. m \in chain[d] \/ (m = n /\ d = n.depth)
      <4>1. CASE chain' = chain
        BY <2>10, <4>1
      <4>2. CASE chain' = [chain EXCEPT ![n.depth] = @ \cup {n}]
        BY <1>1, <2>4, <2>10, <4>2
      <4> QED
        BY <2>5, <4>1, <4>2
    <3> QED
      BY <2>4, <3>1 DEF TraceInv, O!ObserverTypeOK
  <2>11. known' \subseteq Entities
    <3>1. \A i \in DOMAIN q : q[i].entity \in Entities
      BY NodesAre
    <3> QED
      BY <1>1, <2>5, <3>1
  <2>12. O!ObserverTypeOK'
    <3>1. looking' \in {"root", "trace", "sum", "done"} /\ coverage' \in [of : Nat, with : Nat]
      BY <1>1, <2>1
    <3> QED
      BY <2>1, <2>8, <2>10, <2>11, <3>1, TypesOf
  <2> QED
    BY <1>1, <1>3, <1>4, <2>1, <2>6, <2>8, <2>9, <2>10, <2>12 DEF TraceInv
<1>7. CASE O!Followed
  <2>1. /\ looking = "trace" /\ waiting = <<>> /\ looking' = "sum"
        /\ UNCHANGED <<web, live, past, floor, waiting, known, chain, coverage, unsurveyed, spots, ends>>
    BY <1>7 DEF O!Followed, O!surveyKept
  <2>2. past' \/ ends' = 0 => Traced(near)'
    BY <1>2, <2>1, TracedStays
  <2>3. O!ObserverTypeOK'
    BY <2>1 DEF TraceInv, O!ObserverTypeOK
  <2> QED
    BY <1>3, <1>4, <2>1, <2>2, <2>3 DEF TraceInv
<1>8. CASE O!Summarize
  <2>1. /\ looking = "sum" /\ looking' = "done"
        /\ UNCHANGED <<web, live, past, floor, waiting, known, chain, unsurveyed, spots, ends>>
        /\ coverage' = [coverage EXCEPT !.with = IF Depth > 1 /\ chain[2] # {} THEN Cardinality(chain[1]) ELSE 0]
    BY <1>8, CountIs DEF O!Summarize, O!surveyKept
  <2>2. coverage' \in [of : Nat, with : Nat]
    BY <1>1, <2>1, FiniteLevel
  <2>3. past' \/ ends' = 0 => Traced(near)'
    BY <1>2, <2>1, TracedStays
  <2>4. waiting' = <<>>
    BY <2>1 DEF TraceInv
  <2>5. O!ObserverTypeOK'
    BY <2>1, <2>2 DEF TraceInv, O!ObserverTypeOK
  <2> QED
    BY <1>3, <1>4, <2>1, <2>3, <2>4, <2>5 DEF TraceInv
<1>9. CASE O!Survey
  <2>1. PICK e \in unsurveyed :
          /\ unsurveyed' = unsurveyed \ {e}
          /\ spots' = [spots EXCEPT ![e] = IF O!Into(e) = {} THEN Cardinality(O!OutOf(e)) ELSE 0]
    BY <1>9, CountIs DEF O!Survey
  <2>2. UNCHANGED <<web, live, past, floor, looking, waiting, known, chain, coverage, ends>>
    BY <1>9 DEF O!Survey
  <2>3. unsurveyed' \subseteq Entities /\ spots' \in [Entities -> Nat]
    <3>1. (IF O!Into(e) = {} THEN Cardinality(O!OutOf(e)) ELSE 0) \in Nat
      BY FewEdges
    <3> DEFINE k == IF O!Into(e) = {} THEN Cardinality(O!OutOf(e)) ELSE 0
    <3>2. k \in Nat /\ spots' = [spots EXCEPT ![e] = k]
      BY <2>1, <3>1
    <3> HIDE DEF k
    <3> QED
      BY <1>1, <2>1, <3>2
  <2>4. \A d \in Entities : O!Into(d)' = O!Into(d) /\ O!OutOf(d)' = O!OutOf(d)
    BY <2>2 DEF O!Into, O!OutOf, O!Seen
  <2>5. ASSUME ends = 0, NEW d \in Entities \ unsurveyed', O!Into(d)' = {} PROVE spots'[d] > 0 \/ O!OutOf(d)' = {}
    <3>1. CASE d = e
      BY <1>1, <2>1, <2>4, <2>5, <3>1, FewEdges
    <3>2. CASE d # e
      <4>1. spots'[d] = spots[d] /\ d \in Entities \ unsurveyed
        BY <1>1, <2>1, <2>5, <3>2
      <4> QED
        BY <2>4, <2>5, <4>1 DEF TraceInv
    <3> QED
      BY <3>1, <3>2
  <2>6. past' \/ ends' = 0 => Traced(near)'
    BY <1>2, <2>2, TracedStays
  <2>7. O!ObserverTypeOK'
    BY <2>2, <2>3 DEF TraceInv, O!ObserverTypeOK
  <2> QED
    BY <1>3, <2>2, <2>5, <2>6, <2>7 DEF TraceInv
<1>10. CASE O!Change
  <2>1. /\ ends < MaxEnds /\ ends' = ends + 1
        /\ UNCHANGED <<web, past, floor, looking, waiting, known, chain, coverage, unsurveyed, spots>>
    BY <1>10 DEF O!Change, O!surveyKept
  <2>2. PICK r \in Edges : live' = IF r \in live THEN live \ {r} ELSE live \cup {r}
    BY <1>10 DEF O!Change
  <2>3. ends' \in 0 .. MaxEnds /\ ends' # 0 /\ live' \subseteq Edges
    BY <1>1, <2>1, <2>2
  <2>4. past' \/ ends' = 0 => Traced(near)'
    BY <1>2, <2>1, <2>3, TracedStays
  <2>5. O!ObserverTypeOK'
    BY <2>1, <2>3 DEF TraceInv, O!ObserverTypeOK
  <2> QED
    BY <1>3, <2>1, <2>3, <2>4, <2>5 DEF TraceInv
<1> QED
  BY <1>5, <1>6, <1>7, <1>8, <1>9, <1>10 DEF O!ObserverNext

\* A step that leaves these variables alone keeps it.
LEMMA TraceStutter == TraceInv /\ UNCHANGED observerVars => TraceInv'
<1> SUFFICES ASSUME TraceInv, UNCHANGED observerVars PROVE TraceInv'
  OBVIOUS
<1>1. UNCHANGED <<web, live, past, floor, looking, waiting, known, chain, coverage, unsurveyed, spots, ends>>
  BY DEF observerVars
<1>2. PICK near : Nearest(near) /\ (past \/ ends = 0 => Traced(near))
  BY DEF TraceInv
<1>3. Nearest(near)' /\ (past' \/ ends' = 0 => Traced(near)')
  BY <1>1, <1>2, NearestStays, TracedStays
<1>4. O!ObserverTypeOK'
  BY <1>1 DEF TraceInv, O!ObserverTypeOK
<1> QED
  BY <1>1, <1>3, <1>4 DEF TraceInv, O!Into, O!OutOf, O!Seen

\* It holds in every behaviour.
LEMMA TraceAlways == Spec => []TraceInv
<1>1. Init => TraceInv
  BY ObserverStart DEF Init
<1>2. TraceInv /\ [Next]_vars => TraceInv'
  BY TraceStep, TraceStutter DEF Next, vars
<1> QED
  BY <1>1, <1>2, PTL DEF Spec, vars

\* A trace gives every entity at its least distance from the root, once, and
\* those of them that nothing leads to are the blind spots of the survey,
\* unless the graph changes meanwhile (observer.py:236).
THEOREM TraceIsNearestAlways == Spec => []TraceIsNearest
<1>1. ASSUME TraceInv, looking = "done", past \/ ends = 0
      PROVE  /\ \A d \in 1 .. Depth : {n.entity : n \in chain[d]} = IF d \leq floor THEN O!Away[d] ELSE {}
             /\ unsurveyed = {} /\ ends = 0 =>
                  \A d \in 1 .. Depth : \A n \in chain[d] : O!Into(n.entity) = {} => spots[n.entity] > 0
  <2>1. /\ floor \in 1 .. Depth /\ Depth \in Nat \ {0} /\ known \subseteq Entities /\ waiting = <<>>
        /\ waiting \in Seq(Nodes) /\ DOMAIN waiting = {}
    BY <1>1, ObserverAssumption DEF TraceInv, O!ObserverTypeOK
  <2>2. PICK near : Nearest(near) /\ Traced(near)
    BY <1>1 DEF TraceInv
  <2>3. \A d \in 0 .. Depth : O!Away[d] = near[d]
    BY <1>1, <2>2, AwayIs, SteadyIs
  <2>4. \A c \in 0 .. floor : near[c] \subseteq known
    <3>1. floor \in 0 .. Depth /\ floor \leq floor + 1 /\ looking # "root"
      BY <1>1, <2>1
    <3> QED
      BY <2>1, <2>2, <3>1, KnownUpTo
  <2>5. ASSUME NEW d \in 1 .. Depth PROVE {n.entity : n \in chain[d]} = IF d \leq floor THEN O!Away[d] ELSE {}
    <3>1. \A n \in chain[d] : n.entity \in near[d] /\ d \leq floor
      BY <2>2 DEF Traced, Chained
    <3>2. ASSUME d \leq floor, NEW e \in near[d] PROVE \E n \in chain[d] : n.entity = e
      <4>1. d \in 0 .. floor /\ d \in 0 .. Depth /\ 0 \in 0 .. Depth /\ d # 0
        BY <2>1, <3>2
      <4>2. e \in known /\ e # Root
        <5>1. near[0] \cap near[d] = {} /\ near[0] = {Root}
          BY <2>2, <4>1, TheSameSteps DEF Nearest
        <5> QED
          BY <2>4, <3>2, <4>1, <5>1
      <4>3. PICK c \in 1 .. Depth : Placed(near, e, c)
        BY <2>2, <4>2 DEF Traced
      <4>4. c = d
        <5>1. c \in 0 .. Depth
          BY <2>1
        <5> QED
          BY <2>2, <3>2, <4>1, <4>3, <5>1, TheSameSteps DEF Placed
      <4> QED
        BY <2>1, <3>2, <4>3, <4>4 DEF Placed
    <3>3. d \in 0 .. Depth
      BY <2>1
    <3> QED
      BY <2>3, <3>1, <3>2, <3>3
  <2>6. ASSUME unsurveyed = {}, ends = 0, NEW d \in 1 .. Depth, NEW n \in chain[d], O!Into(n.entity) = {}
        PROVE  spots[n.entity] > 0
    <3>1. n \in [entity : Entities, depth : {d}, via : Edges] /\ web[n.via].from = n.entity
      BY <1>1, <2>6 DEF TraceInv, O!ObserverTypeOK
    <3>2. n.via \in O!OutOf(n.entity)
      BY <1>1, <3>1, SteadyIs DEF O!OutOf
    <3> QED
      BY <1>1, <2>6, <3>1, <3>2 DEF TraceInv
  <2> QED
    BY <2>5, <2>6
<1>2. TraceInv => TraceIsNearest
  BY <1>1 DEF TraceIsNearest, O!TraceIsNearest
<1> QED
  BY <1>2, TraceAlways, PTL

-----------------------------------------------------------------------------
(* All parts.                                                               *)

Parts == {"recall", "ingest", "sessions", "embed", "observer", "dreams", "update", "upkeep", "chunker", "reflect"}

\* It holds in every behaviour.
LEMMA PartAlways == Spec => [](part \in Parts)
<1>1. Init => part \in Parts
  BY DEF Init, Parts
<1>2. part \in Parts /\ [Next]_vars => (part \in Parts)'
  BY DEF Next, vars
<1> QED
  BY <1>1, <1>2, PTL DEF Spec, vars

\* The invariant of Sessions has its type.
LEMMA SessionsTyped == SessionsInv => S!SessionsTypeOK
BY DEF SessionsInv, Dists, S!SessionsTypeOK

\* The invariant of Upkeep has its type.
LEMMA UpkeepTyped == UpkeepInv => K!UpkeepTypeOK
BY Zenon DEF UpkeepInv, CollectionsHold, LogHolds, K!UpkeepTypeOK

\* Every variable of the part that runs is of its type, whatever the constants.
THEOREM MemoryTyped == Spec => []TypeOK
<1>1. /\ part \in Parts
      /\ RecallInv /\ IngestInv /\ SessionsInv /\ EmbedInv /\ TraceInv /\ DreamsInv
      /\ UpdateInv /\ UpkeepInv /\ ChunkerInv /\ ReflectInv
      => TypeOK
  <2>1. RecallInv => R!RecallTypeOK
    BY DEF RecallInv
  <2>2. IngestInv => I!IngestTypeOK
    BY DEF IngestInv
  <2>3. EmbedInv => E!EmbedTypeOK
    BY DEF EmbedInv
  <2>4. TraceInv => O!ObserverTypeOK
    BY DEF TraceInv
  <2>5. DreamsInv => D!DreamsTypeOK
    BY DEF DreamsInv
  <2>6. UpdateInv => U!UpdateTypeOK
    BY DEF UpdateInv
  <2>7. ReflectInv => F!ReflectTypeOK
    BY DEF ReflectInv
  <2> SUFFICES ASSUME part \in Parts,
                      RecallInv, IngestInv, SessionsInv, EmbedInv, TraceInv, DreamsInv,
                      UpdateInv, UpkeepInv, ChunkerInv, ReflectInv
               PROVE  TypeOK
    BY Zenon
  <2>8. /\ R!RecallTypeOK /\ I!IngestTypeOK /\ S!SessionsTypeOK /\ E!EmbedTypeOK /\ O!ObserverTypeOK
        /\ D!DreamsTypeOK /\ U!UpdateTypeOK /\ K!UpkeepTypeOK /\ C!ChunkerTypeOK /\ F!ReflectTypeOK
    BY <2>1, <2>2, <2>3, <2>4, <2>5, <2>6, <2>7, SessionsTyped, UpkeepTyped, ChunkerTyped, Zenon
  <2>9. \/ part = "recall" \/ part = "ingest" \/ part = "sessions" \/ part = "embed" \/ part = "observer"
        \/ part = "dreams" \/ part = "update" \/ part = "upkeep" \/ part = "chunker" \/ part = "reflect"
    BY Zenon DEF Parts
  <2> QED
    BY <2>8, <2>9 DEF TypeOK
<1> QED
  BY <1>1, PartAlways, RecallAlways, IngestAlways, SessionsAlways, EmbedAlways, TraceAlways, DreamsAlways,
     UpdateAlways, UpkeepAlways, ChunkerAlways, ReflectAlways, PTL

=============================================================================
