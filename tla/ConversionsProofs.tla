------------------------- MODULE ConversionsProofs -------------------------
(***************************************************************************)
(* Proofs about Conversions, for documents, conversations and streams of   *)
(* any length: the lemmas about the operators of its modules, and for each *)
(* module an inductive invariant.                                          *)
(***************************************************************************)
EXTENDS Conversions, FiniteSetTheorems, SequenceTheorems, WellFoundedInduction, TLAPS

-----------------------------------------------------------------------------
(* Recursion: what a function that is defined by its value at the number     *)
(* before is, and what holds of all its values.                              *)

\* Every set of naturals has a least element.
LEMMA LeastNat ==
    ASSUME NEW S \in SUBSET Nat, S # {}
    PROVE  \E m \in S : \A n \in S : m <= n
  <1> DEFINE less == OpToRel(<, Nat)
  <1>1. IsWellFoundedOn(less, Nat)
    BY NatLessThanWellFounded
  <1>2. less = {ss \in Nat \X Nat : ss[1] < ss[2]}
    BY DEF OpToRel
  <1> HIDE DEF less
  <1>3. PICK m \in S : \A n \in S : <<n, m>> \notin less
    BY <1>1, WFMin
  <1>4. ASSUME NEW n \in S
        PROVE  m <= n
    <2>1. n < m => <<n, m>> \in {ss \in Nat \X Nat : ss[1] < ss[2]}
      OBVIOUS
    <2> QED
      BY <1>2, <1>3, <2>1
  <1> QED
    BY <1>4

\* A set with 0 and all successors has every natural.
LEMMA EveryNat ==
    ASSUME NEW S \in SUBSET Nat, 0 \in S, \A n \in S : n + 1 \in S
    PROVE  S = Nat
  <1> DEFINE rest == Nat \ S
  <1>1. ASSUME rest # {}
        PROVE  FALSE
    <2>1. PICK m \in rest : \A n \in rest : m <= n
      BY <1>1, LeastNat
    <2>2. m \in Nat /\ m # 0 /\ m \notin S
      OBVIOUS
    <2>3. m - 1 \in Nat /\ m - 1 \in S
      BY <2>1, <2>2
    <2>4. (m - 1) + 1 \in S
      BY <2>3
    <2> QED
      BY <2>2, <2>4
  <1> QED
    BY <1>1

\* Values that are found step by step.
LEMMA Recursion ==
    ASSUME NEW V, NEW b \in V, NEW n \in Nat, NEW step \in [1..n -> [V -> V]]
    PROVE  \E f \in [0..n -> V] :
               f[0] = b /\ \A i \in 1..n : f[i] = step[i][f[i - 1]]
  <1> DEFINE Found(k, f) == f[0] = b /\ \A i \in 1..k : f[i] = step[i][f[i - 1]]
             S == {k \in Nat : k <= n => \E f \in [0..k -> V] : Found(k, f)}
  <1>1. 0 \in S
    <2>1. [i \in 0..0 |-> b] \in [0..0 -> V] /\ Found(0, [i \in 0..0 |-> b])
      OBVIOUS
    <2> QED
      BY <2>1
  <1>2. ASSUME NEW k \in Nat, k + 1 <= n, NEW f \in [0..k -> V], Found(k, f)
        PROVE  \E g \in [0..(k + 1) -> V] : Found(k + 1, g)
    <2> DEFINE g == [i \in 0..(k + 1) |-> IF i = k + 1 THEN step[k + 1][f[k]] ELSE f[i]]
    <2>1. k \in Nat /\ k + 1 \in 1..n /\ k \in 0..k
      BY <1>2
    <2>2. step[k + 1][f[k]] \in V
      <3>1. f[k] \in V /\ step[k + 1] \in [V -> V]
        BY <2>1
      <3> QED
        BY <3>1
    <2>3. g \in [0..(k + 1) -> V]
      BY <2>1, <2>2
    <2>4. g[0] = b
      BY <1>2, <2>1
    <2>5. ASSUME NEW i \in 1..(k + 1)
          PROVE  g[i] = step[i][g[i - 1]]
      <3>1. CASE i = k + 1
        BY <2>1, <3>1
      <3>2. CASE i # k + 1
        <4>1. i \in 1..k /\ i \in 0..(k + 1) /\ i - 1 \in 0..(k + 1) /\ i - 1 # k + 1
          BY <2>1, <3>2
        <4>2. g[i] = f[i] /\ g[i - 1] = f[i - 1]
          BY <3>2, <4>1
        <4> QED
          BY <1>2, <4>1, <4>2
      <3> QED
        BY <3>1, <3>2
    <2> HIDE DEF g
    <2> QED
      BY <2>3, <2>4, <2>5
  <1>3. ASSUME NEW k \in S
        PROVE  k + 1 \in S
    <2>1. CASE k + 1 <= n
      <3>1. k \in Nat /\ k <= n /\ (k <= n => \E f \in [0..k -> V] : Found(k, f))
        BY <2>1
      <3>2. PICK f \in [0..k -> V] : Found(k, f)
        BY <3>1
      <3> HIDE DEF Found
      <3>3. \E g \in [0..(k + 1) -> V] : Found(k + 1, g)
        BY <1>2, <2>1, <3>1, <3>2
      <3> QED
        BY <3>1, <3>3
    <2>2. CASE ~(k + 1 <= n)
      BY <2>2
    <2> QED
      BY <2>1, <2>2
  <1> HIDE DEF S
  <1>4. S \in SUBSET Nat
    BY DEF S
  <1>5. S = Nat
    BY <1>1, <1>3, <1>4, EveryNat
  <1>6. n \in S
    BY <1>5
  <1> QED
    BY <1>6 DEF S

\* Two functions with one recursion are the same up to any place.
LEMMA SameRecursion ==
    ASSUME NEW n \in Nat, NEW f, NEW g, f[0] = g[0],
           \A i \in 1..n : f[i - 1] = g[i - 1] => f[i] = g[i]
    PROVE  \A i \in 0..n : f[i] = g[i]
  <1> DEFINE S == {k \in Nat : k <= n => f[k] = g[k]}
  <1>1. 0 \in S
    OBVIOUS
  <1>2. ASSUME NEW k \in S
        PROVE  k + 1 \in S
    <2>1. (k + 1) - 1 = k /\ (k + 1 <= n => k + 1 \in 1..n)
      OBVIOUS
    <2> QED
      BY <2>1
  <1>3. S = Nat
    <2> HIDE DEF S
    <2>1. S \in SUBSET Nat
      BY DEF S
    <2> QED
      BY <1>1, <1>2, <2>1, EveryNat
  <1> QED
    BY <1>3

-----------------------------------------------------------------------------
(* Sequences of sequences.                                                   *)

\* FlattenSeq is the last of the concatenations of its parts.
LEMMA FlattenSteps ==
    ASSUME NEW T, NEW ss \in Seq(Seq(T)), Len(ss) # 0
    PROVE  \E f \in [0..Len(ss) -> Seq(T)] :
               /\ f[0] = <<>> /\ \A i \in 1..Len(ss) : f[i] = f[i - 1] \o ss[i]
               /\ Talk!FlattenSeq(ss) = f[Len(ss)]
  <1> DEFINE n == Len(ss)
             step == [i \in 1..n |-> [s \in Seq(T) |-> s \o ss[i]]]
             Body(g) == [i \in 1..n |-> IF i = 1 THEN ss[i] ELSE g[i - 1] \o ss[i]]
             F == CHOOSE g : g = Body(g)
  <1>1. n \in Nat /\ n # 0 /\ \A i \in 1..n : ss[i] \in Seq(T)
    OBVIOUS
  <1>2. step \in [1..n -> [Seq(T) -> Seq(T)]]
    BY <1>1, ConcatProperties
  <1>3. <<>> \in Seq(T)
    BY EmptySeq
  <1>4. PICK f \in [0..n -> Seq(T)] :
            f[0] = <<>> /\ \A i \in 1..n : f[i] = step[i][f[i - 1]]
    <2> DEFINE V == Seq(T)  b == <<>>
    <2>1. n \in Nat /\ b \in V /\ step \in [1..n -> [V -> V]]
      BY <1>1, <1>2, <1>3
    <2> HIDE DEF step, n, V, b
    <2>2. \E f \in [0..n -> V] : f[0] = b /\ \A i \in 1..n : f[i] = step[i][f[i - 1]]
      BY ONLY <2>1, Recursion
    <2> QED
      BY <2>2 DEF V, b
  <1>5. ASSUME NEW i \in 1..n
        PROVE  f[i] = f[i - 1] \o ss[i]
    <2>1. i - 1 \in 0..n
      BY <1>1
    <2>2. f[i - 1] \in Seq(T)
      BY <2>1
    <2> QED
      BY <1>4, <2>2
  <1> HIDE DEF step
  <1>6. F = Body(F)
    <2> DEFINE g == [i \in 1..n |-> f[i]]
    <2>1. ASSUME NEW i \in 1..n
          PROVE  g[i] = Body(g)[i]
      <3>1. CASE i = 1
        <4>1. f[i] = f[i - 1] \o ss[i]
          BY <1>5
        <4>2. ss[i] \in Seq(T)
          BY <1>1
        <4>3. f[i - 1] = <<>>
          BY <1>4, <3>1
        <4> QED
          BY <4>1, <4>2, <4>3, <3>1, ConcatEmptySeq
      <3>2. CASE i # 1
        <4>1. i - 1 \in 1..n
          BY <1>1, <3>2
        <4> QED
          BY <1>5, <3>2, <4>1
      <3> QED
        BY <3>1, <3>2
    <2>2. g = Body(g)
      BY <2>1
    <2> HIDE DEF g, Body
    <2> QED
      BY <2>2
  <1>7. Talk!FlattenSeq(ss) = F[n]
    BY <1>1 DEF Talk!FlattenSeq
  <1> HIDE DEF F
  <1>8. \A i \in 0..n : f[i] = (IF i = 0 THEN <<>> ELSE F[i])
    <2> DEFINE G == [i \in 0..n |-> IF i = 0 THEN <<>> ELSE F[i]]
    <2>1. f[0] = G[0]
      BY <1>1, <1>4
    <2>2. ASSUME NEW i \in 1..n, f[i - 1] = G[i - 1]
          PROVE  f[i] = G[i]
      <3>1. CASE i = 1
        <4>1. f[i] = f[i - 1] \o ss[i]
          BY <1>5
        <4>2. ss[i] \in Seq(T)
          BY <1>1
        <4>3. f[i - 1] = <<>>
          BY <1>4, <3>1
        <4>4. F[i] = ss[i] /\ G[i] = F[i]
          BY <1>1, <1>6, <3>1
        <4> QED
          BY <4>1, <4>2, <4>3, <4>4, ConcatEmptySeq
      <3>2. CASE i # 1
        <4>1. i - 1 \in 1..n /\ i - 1 \in 0..n /\ i - 1 # 0 /\ i \in 0..n /\ i # 0
          BY <1>1, <3>2
        <4>2. F[i] = F[i - 1] \o ss[i]
          BY <1>6, <3>2
        <4> QED
          BY <1>5, <2>2, <4>1, <4>2
      <3> QED
        BY <3>1, <3>2
    <2> HIDE DEF G, n
    <2>3. \A i \in 0..n : f[i] = G[i]
      <3>1. n \in Nat
        BY <1>1
      <3> QED
        BY ONLY ZenonT(40), <2>1, <2>2, <3>1, SameRecursion
    <2> QED
      BY <2>3 DEF G
  <1>9. Talk!FlattenSeq(ss) = f[n]
    BY <1>1, <1>7, <1>8
  <1> QED
    BY <1>4, <1>5, <1>9

\* One sequence more is appended to what was flattened.
LEMMA FlattenAppends ==
    ASSUME NEW T, NEW ss \in Seq(Seq(T)), NEW s \in Seq(T)
    PROVE  /\ Talk!FlattenSeq(ss) \in Seq(T)
           /\ Talk!FlattenSeq(Append(ss, s)) = Talk!FlattenSeq(ss) \o s
  <1> DEFINE n == Len(ss)  tt == Append(ss, s)
  <1>1. /\ n \in Nat /\ tt \in Seq(Seq(T)) /\ Len(tt) = n + 1 /\ tt[n + 1] = s
        /\ \A i \in 1..n : tt[i] = ss[i]
    BY AppendProperties
  <1> HIDE DEF tt
  <1>2. PICK g : g \in [0..(n + 1) -> Seq(T)] /\
            /\ g[0] = <<>> /\ \A i \in 1..(n + 1) : g[i] = g[i - 1] \o tt[i]
            /\ Talk!FlattenSeq(tt) = g[n + 1]
    <2>1. Len(tt) # 0
      BY <1>1
    <2>2. \E g \in [0..Len(tt) -> Seq(T)] :
            /\ g[0] = <<>> /\ \A i \in 1..Len(tt) : g[i] = g[i - 1] \o tt[i]
            /\ Talk!FlattenSeq(tt) = g[Len(tt)]
      BY <1>1, <2>1, FlattenSteps
    <2> QED
      BY <1>1, <2>2
  <1>3. Talk!FlattenSeq(tt) = g[n] \o s
    <2>1. n + 1 \in 1..(n + 1) /\ (n + 1) - 1 = n
      BY <1>1
    <2> QED
      BY <1>1, <1>2, <2>1
  <1>4. Talk!FlattenSeq(ss) = g[n] /\ g[n] \in Seq(T)
    <2>1. CASE n = 0
      <3>1. ss = <<>>
        BY <2>1
      <3>2. Talk!FlattenSeq(ss) = <<>>
        BY <2>1, <3>1 DEF Talk!FlattenSeq
      <3> QED
        BY <1>2, <2>1, <3>2, EmptySeq
    <2>2. CASE n # 0
      <3>1. PICK f : f \in [0..n -> Seq(T)] /\
                /\ f[0] = <<>> /\ \A i \in 1..n : f[i] = f[i - 1] \o ss[i]
                /\ Talk!FlattenSeq(ss) = f[n]
        BY <2>2, FlattenSteps
      <3>2. f[0] = g[0]
        BY <1>2, <3>1
      <3>3. ASSUME NEW i \in 1..n, f[i - 1] = g[i - 1]
            PROVE  f[i] = g[i]
        <4>1. i \in 1..(n + 1) /\ tt[i] = ss[i]
          BY <1>1
        <4> QED
          BY <1>2, <3>1, <3>3, <4>1
      <3>4. \A i \in 0..n : f[i] = g[i]
        <4>1. n \in Nat /\ f[0] = g[0] /\ \A i \in 1..n : f[i - 1] = g[i - 1] => f[i] = g[i]
          BY <1>1, <3>2, <3>3
        <4> HIDE DEF n
        <4> QED
          BY ONLY ZenonT(40), <4>1, SameRecursion
      <3>5. n \in 0..n /\ n \in 0..(n + 1)
        BY <1>1
      <3> QED
        BY <1>2, <3>1, <3>4, <3>5
    <2> QED
      BY <2>1, <2>2
  <1> QED
    BY <1>3, <1>4 DEF tt

\* A set of sequences with the empty one and all that are longer by one has every
\* sequence.
LEMMA EverySeq ==
    ASSUME NEW T, NEW S \in SUBSET Seq(T), <<>> \in S,
           \A s \in S : \A x \in T : Append(s, x) \in S
    PROVE  S = Seq(T)
  <1> DEFINE N == {n \in Nat : \A s \in Seq(T) : Len(s) = n => s \in S}
  <1>1. 0 \in N
    <2>1. \A s \in Seq(T) : Len(s) = 0 => s = <<>>
      BY EmptySeq
    <2> QED
      BY <2>1
  <1>2. ASSUME NEW n \in N
        PROVE  n + 1 \in N
    <2>1. n \in Nat /\ \A s \in Seq(T) : Len(s) = n => s \in S
      OBVIOUS
    <2>2. ASSUME NEW s \in Seq(T), Len(s) = n + 1
          PROVE  s \in S
      <3> DEFINE front == SubSeq(s, 1, n)
      <3>1. /\ front \in Seq(T) /\ Len(front) = n /\ \A i \in 1..n : front[i] = s[i]
            /\ s[n + 1] \in T
        BY <2>1, <2>2
      <3> HIDE DEF front
      <3>2. s = Append(front, s[n + 1])
        <4>1. /\ Append(front, s[n + 1]) \in Seq(T) /\ Len(Append(front, s[n + 1])) = n + 1
              /\ \A i \in 1..n : Append(front, s[n + 1])[i] = front[i]
              /\ Append(front, s[n + 1])[n + 1] = s[n + 1]
          <5> DEFINE x == s[n + 1]
          <5>1. front \in Seq(T) /\ x \in T /\ Len(front) = n
            BY <3>1
          <5> HIDE DEF x
          <5>2. /\ Append(front, x) \in Seq(T) /\ Len(Append(front, x)) = n + 1
                /\ \A i \in 1..n : Append(front, x)[i] = front[i]
                /\ Append(front, x)[n + 1] = x
            BY <5>1, AppendProperties
          <5> QED
            BY <5>2 DEF x
        <4>2. \A i \in 1..(n + 1) : s[i] = Append(front, s[n + 1])[i]
          <5>1. ASSUME NEW i \in 1..(n + 1)
                PROVE  s[i] = Append(front, s[n + 1])[i]
            <6>1. i \in 1..n \/ i = n + 1
              BY <2>1
            <6> QED
              BY <3>1, <4>1, <6>1
          <5> QED
            BY <5>1
        <4> QED
          BY <2>2, <4>1, <4>2, SeqEqual
      <3>3. front \in S
        BY <2>1, <3>1
      <3> QED
        BY <3>1, <3>2, <3>3
    <2> QED
      BY <2>1, <2>2
  <1> HIDE DEF N
  <1>3. N = Nat
    <2>1. N \in SUBSET Nat
      BY DEF N
    <2> QED
      BY <1>1, <1>2, <2>1, EveryNat
  <1> QED
    <2>1. ASSUME NEW s \in Seq(T)
          PROVE  s \in S
      <3>1. Len(s) \in N
        BY <1>3
      <3> QED
        BY <3>1 DEF N
    <2> QED
      BY <2>1

\* The functions to sequences.
Maps(T, U) == [T -> Seq(U)]

\* The sequences that h gives for the elements of s, one after the other.
Flat(h, s) == Talk!FlattenSeq([i \in 1..Len(s) |-> h[s[i]]])

\* Of nothing comes nothing.
LEMMA FlatOfNone == \A h : Flat(h, <<>>) = <<>>
  BY DEF Flat, Talk!FlattenSeq

\* An element more adds what it maps to.
LEMMA FlatAppends ==
    ASSUME NEW T, NEW U, NEW h \in Maps(T, U), NEW s \in Seq(T), NEW x \in T
    PROVE  Flat(h, s) \in Seq(U) /\ Flat(h, Append(s, x)) = Flat(h, s) \o h[x]
  <1> DEFINE n == Len(s)
             ss == [i \in 1..Len(s) |-> h[s[i]]]
             tt == [i \in 1..Len(Append(s, x)) |-> h[Append(s, x)[i]]]
  <1>1. n \in Nat /\ \A i \in 1..n : s[i] \in T
    OBVIOUS
  <1>2. ss \in Seq(Seq(U)) /\ Len(ss) = n /\ h[x] \in Seq(U)
    BY <1>1 DEF Maps
  <1>3. /\ Append(ss, h[x]) \in Seq(Seq(U)) /\ Len(Append(ss, h[x])) = n + 1
        /\ Append(ss, h[x])[n + 1] = h[x] /\ \A i \in 1..n : Append(ss, h[x])[i] = ss[i]
    <2> HIDE DEF ss
    <2> QED
      BY <1>2, AppendProperties
  <1>4. /\ Len(Append(s, x)) = n + 1 /\ Append(s, x)[n + 1] = x
        /\ \A i \in 1..n : Append(s, x)[i] = s[i]
    BY AppendProperties
  <1>5. \A i \in 1..(n + 1) : h[Append(s, x)[i]] \in Seq(U)
    BY <1>1, <1>4 DEF Maps
  <1>6. /\ tt \in Seq(Seq(U)) /\ Len(tt) = n + 1
        /\ tt[n + 1] = h[x] /\ \A i \in 1..n : tt[i] = ss[i]
    BY <1>1, <1>4, <1>5
  <1>7. Flat(h, s) = Talk!FlattenSeq(ss) /\ Flat(h, Append(s, x)) = Talk!FlattenSeq(tt)
    BY DEF Flat
  <1> HIDE DEF ss, tt
  <1>8. tt = Append(ss, h[x])
    <2>1. \A i \in 1..(n + 1) : tt[i] = Append(ss, h[x])[i]
      BY <1>1, <1>3, <1>6
    <2> QED
      BY <1>3, <1>6, <2>1, SeqEqual
  <1> QED
    BY <1>2, <1>7, <1>8, FlattenAppends

\* What comes of a sequence is a sequence.
LEMMA FlatIsSeq ==
    ASSUME NEW T, NEW U, NEW h \in Maps(T, U), NEW s \in Seq(T)
    PROVE  Flat(h, s) \in Seq(U)
  <1>1. CASE s = <<>>
    BY <1>1, FlatOfNone, EmptySeq
  <1>2. CASE s # <<>>
    <2>1. s[1] \in T
      BY <1>2
    <2> QED
      BY <2>1, FlatAppends
  <1> QED
    BY <1>1, <1>2

\* What comes of two sequences in a row is what comes of each.
LEMMA FlatConcat ==
    ASSUME NEW T, NEW U, NEW h \in Maps(T, U), NEW s \in Seq(T), NEW t \in Seq(T)
    PROVE  Flat(h, s \o t) = Flat(h, s) \o Flat(h, t)
  <1> DEFINE S == {u \in Seq(T) : Flat(h, s \o u) = Flat(h, s) \o Flat(h, u)}
  <1>1. Flat(h, s \o <<>>) = Flat(h, s) \o Flat(h, <<>>)
    <2>1. Flat(h, s) \in Seq(U) /\ Flat(h, <<>>) = <<>>
      BY FlatIsSeq, FlatOfNone
    <2>2. s \o <<>> = s /\ Flat(h, s) \o <<>> = Flat(h, s)
      BY <2>1, ConcatEmptySeq
    <2> QED
      BY <2>1, <2>2
  <1>2. ASSUME NEW u \in Seq(T), NEW x \in T,
               Flat(h, s \o u) = Flat(h, s) \o Flat(h, u)
        PROVE  Flat(h, s \o Append(u, x)) = Flat(h, s) \o Flat(h, Append(u, x))
    <2> DEFINE v == s \o u
    <2>1. v \in Seq(T)
      BY ConcatProperties
    <2>2. s \o Append(u, x) = Append(v, x)
      OBVIOUS
    <2> HIDE DEF S, v
    <2>3. Flat(h, Append(v, x)) = Flat(h, v) \o h[x]
      BY <2>1, FlatAppends
    <2>4. Flat(h, Append(u, x)) = Flat(h, u) \o h[x]
      BY FlatAppends
    <2>5. Flat(h, s) \in Seq(U) /\ Flat(h, u) \in Seq(U)
      BY FlatIsSeq
    <2>6. h[x] \in Seq(U)
      BY DEF Maps
    <2>7. (Flat(h, s) \o Flat(h, u)) \o h[x] = Flat(h, s) \o (Flat(h, u) \o h[x])
      <3> DEFINE a == Flat(h, s)  b == Flat(h, u)  c == h[x]
      <3>1. a \in Seq(U) /\ b \in Seq(U) /\ c \in Seq(U)
        BY <2>5, <2>6
      <3> HIDE DEF a, b, c
      <3>2. (a \o b) \o c = a \o (b \o c)
        BY <3>1, ConcatAssociative
      <3> QED
        BY <3>2 DEF a, b, c
    <2>8. Flat(h, v) = Flat(h, s) \o Flat(h, u)
      BY <1>2 DEF v
    <2> QED
      BY <2>2, <2>3, <2>4, <2>7, <2>8
  <1>3. <<>> \in S /\ \A u \in S : \A x \in T : Append(u, x) \in S
    BY <1>1, <1>2, EmptySeq, AppendProperties
  <1>4. S \in SUBSET Seq(T)
    OBVIOUS
  <1> HIDE DEF S
  <1>5. S = Seq(T)
    BY <1>3, <1>4, EverySeq
  <1> QED
    BY <1>5 DEF S

\* What h makes of what g makes is made at once.
LEMMA FlatOfFlat ==
    ASSUME NEW T, NEW U, NEW W, NEW g \in Maps(T, U), NEW h \in Maps(U, W),
           NEW s \in Seq(T)
    PROVE  Flat(h, Flat(g, s)) = Flat([x \in T |-> Flat(h, g[x])], s)
  <1> DEFINE both == [x \in T |-> Flat(h, g[x])]
             S == {u \in Seq(T) : Flat(h, Flat(g, u)) = Flat(both, u)}
  <1>1. both \in Maps(T, W) /\ \A x \in T : both[x] = Flat(h, g[x])
    <2>1. \A x \in T : g[x] \in Seq(U)
      BY DEF Maps
    <2>2. \A x \in T : Flat(h, g[x]) \in Seq(W)
      BY <2>1, FlatIsSeq
    <2> QED
      BY <2>2 DEF Maps
  <1> HIDE DEF both
  <1>2. Flat(h, Flat(g, <<>>)) = Flat(both, <<>>)
    BY FlatOfNone
  <1>3. ASSUME NEW u \in Seq(T), NEW x \in T, Flat(h, Flat(g, u)) = Flat(both, u)
        PROVE  Flat(h, Flat(g, Append(u, x))) = Flat(both, Append(u, x))
    <2> HIDE DEF S
    <2>1. Flat(g, u) \in Seq(U) /\ Flat(g, Append(u, x)) = Flat(g, u) \o g[x]
      BY FlatAppends
    <2>2. Flat(both, Append(u, x)) = Flat(both, u) \o both[x]
      BY <1>1, FlatAppends
    <2>3. g[x] \in Seq(U)
      BY DEF Maps
    <2>4. Flat(h, Flat(g, u) \o g[x]) = Flat(h, Flat(g, u)) \o Flat(h, g[x])
      <3> DEFINE a == Flat(g, u)  b == g[x]
      <3>1. a \in Seq(U) /\ b \in Seq(U)
        BY <2>1, <2>3
      <3> HIDE DEF a, b
      <3>2. Flat(h, a \o b) = Flat(h, a) \o Flat(h, b)
        BY <3>1, FlatConcat
      <3> QED
        BY <3>2 DEF a, b
    <2> QED
      BY <1>1, <1>3, <2>1, <2>2, <2>4
  <1>4. <<>> \in S /\ \A u \in S : \A x \in T : Append(u, x) \in S
    BY <1>2, <1>3, EmptySeq, AppendProperties
  <1>5. S \in SUBSET Seq(T)
    OBVIOUS
  <1> HIDE DEF S
  <1>6. S = Seq(T)
    BY <1>4, <1>5, EverySeq
  <1> QED
    BY <1>6 DEF S, both

\* One element for each.
Mapped(e, s) == [i \in 1..Len(s) |-> e[s[i]]]

\* A function to sequences of length one only maps the elements.
LEMMA FlatOfSingles ==
    ASSUME NEW T, NEW U, NEW e, NEW h \in Maps(T, U), NEW s \in Seq(T),
           \A x \in T : e[x] \in U /\ h[x] = <<e[x]>>
    PROVE  Flat(h, s) = Mapped(e, s)
  <1> DEFINE S == {u \in Seq(T) : Flat(h, u) = Mapped(e, u)}
  <1>1. \A x \in T : h[x] = <<e[x]>> /\ e[x] \in U
    OBVIOUS
  <1>2. Flat(h, <<>>) = Mapped(e, <<>>)
    <2>1. Mapped(e, <<>>) = <<>>
      BY DEF Mapped
    <2> QED
      BY <2>1, FlatOfNone
  <1>3. ASSUME NEW u \in Seq(T), NEW x \in T, Flat(h, u) = Mapped(e, u)
        PROVE  Flat(h, Append(u, x)) = Mapped(e, Append(u, x))
    <2> DEFINE n == Len(u)  v == Mapped(e, u)  w == Mapped(e, Append(u, x))
    <2> HIDE DEF S
    <2>1. /\ n \in Nat /\ \A i \in 1..n : u[i] \in T
          /\ Append(u, x) \in Seq(T) /\ Len(Append(u, x)) = n + 1
          /\ Append(u, x)[n + 1] = x /\ \A i \in 1..n : Append(u, x)[i] = u[i]
      BY AppendProperties
    <2>2. Flat(h, Append(u, x)) = Flat(h, u) \o h[x]
      BY <1>1, FlatAppends
    <2>3. v \in Seq(U) /\ Len(v) = n
      BY <2>1 DEF Mapped
    <2>4. \A i \in 1..(n + 1) : e[Append(u, x)[i]] \in U
      BY <2>1
    <2>5. /\ w \in Seq(U) /\ Len(w) = n + 1 /\ w[n + 1] = e[x]
          /\ \A i \in 1..n : w[i] = v[i]
      BY <2>1, <2>4 DEF Mapped
    <2>6. Flat(h, u) = v
      BY <1>3
    <2> HIDE DEF v, w
    <2>7. <<e[x]>> \in Seq(U) /\ Len(<<e[x]>>) = 1 /\ <<e[x]>>[1] = e[x]
      BY <1>1
    <2>8. v \o <<e[x]>> = w
      <3> DEFINE c == v \o <<e[x]>>
      <3>1. /\ c \in Seq(U) /\ Len(c) = n + 1
            /\ \A i \in 1..(n + 1) : c[i] = IF i <= n THEN v[i] ELSE <<e[x]>>[i - n]
        BY <2>1, <2>3, <2>7, ConcatProperties
      <3> HIDE DEF c
      <3>2. ASSUME NEW i \in 1..(n + 1)
            PROVE  c[i] = w[i]
        <4>1. CASE i \in 1..n
          <5>1. i <= n /\ w[i] = v[i]
            BY <2>1, <2>5, <4>1
          <5> QED
            BY <3>1, <5>1
        <4>2. CASE i = n + 1
          <5>1. ~(i <= n) /\ i - n = 1
            BY <2>1, <4>2
          <5> QED
            BY <2>5, <2>7, <3>1, <4>2, <5>1
        <4> QED
          BY <2>1, <4>1, <4>2
      <3>3. c = w
        BY <2>5, <3>1, <3>2, SeqEqual
      <3> QED
        BY <3>3 DEF c
    <2> QED
      BY <1>1, <2>2, <2>6, <2>8 DEF w
  <1>4. <<>> \in S /\ \A u \in S : \A x \in T : Append(u, x) \in S
    <2> QED
      BY <1>2, <1>3, EmptySeq, AppendProperties
  <1>5. S \in SUBSET Seq(T)
    OBVIOUS
  <1> HIDE DEF S
  <1>6. S = Seq(T)
    BY <1>4, <1>5, EverySeq
  <1> QED
    BY <1>6 DEF S

\* Nothing that h gives is left out.
LosesNone(h, s) ==
    \A i \in 1..Len(s) : \A k \in 1..Len(h[s[i]]) :
        \E j \in 1..Len(Flat(h, s)) : Flat(h, s)[j] = h[s[i]][k]

\* Nothing that comes of an element is left out.
LEMMA FlatHas ==
    ASSUME NEW T, NEW U, NEW h \in Maps(T, U), NEW s \in Seq(T)
    PROVE  LosesNone(h, s)
  <1> DEFINE Has(u) == \A l \in 1..Len(u) : \A m \in 1..Len(h[u[l]]) :
                           \E j \in 1..Len(Flat(h, u)) : Flat(h, u)[j] = h[u[l]][m]
             S == {u \in Seq(T) : Has(u)}
  <1>1. Has(<<>>)
    BY EmptySeq
  <1>2. ASSUME NEW u \in Seq(T), NEW x \in T, Has(u)
        PROVE  Has(Append(u, x))
    <2> DEFINE f == Flat(h, u)  g == Flat(h, Append(u, x))
    <2>1. /\ Append(u, x) \in Seq(T) /\ Len(Append(u, x)) = Len(u) + 1 /\ Len(u) \in Nat
          /\ Append(u, x)[Len(u) + 1] = x /\ \A l \in 1..Len(u) : Append(u, x)[l] = u[l]
      BY AppendProperties
    <2>2. f \in Seq(U) /\ g = f \o h[x]
      <3> HIDE DEF S, Has
      <3> QED
        BY FlatAppends
    <2>3. h[x] \in Seq(U)
      BY DEF Maps
    <2>4. \A l \in 1..Len(u) : \A m \in 1..Len(h[u[l]]) :
              \E j \in 1..Len(f) : f[j] = h[u[l]][m]
      BY <1>2
    <2> HIDE DEF f, g
    <2>5. /\ Len(f) \in Nat /\ Len(h[x]) \in Nat /\ Len(g) = Len(f) + Len(h[x])
          /\ \A j \in 1..Len(f) : g[j] = f[j]
          /\ \A j \in 1..Len(h[x]) : g[Len(f) + j] = h[x][j]
      BY <2>2, <2>3
    <2>6. ASSUME NEW l \in 1..Len(Append(u, x)), NEW m \in 1..Len(h[Append(u, x)[l]])
          PROVE  \E j \in 1..Len(g) : g[j] = h[Append(u, x)[l]][m]
      <3>1. CASE l = Len(u) + 1
        <4>1. m \in 1..Len(h[x]) /\ Len(f) + m \in 1..Len(g)
          BY <2>1, <2>5, <3>1
        <4> QED
          BY <2>1, <2>5, <3>1, <4>1
      <3>2. CASE l # Len(u) + 1
        <4>1. l \in 1..Len(u) /\ Append(u, x)[l] = u[l]
          BY <2>1, <3>2
        <4>2. PICK j \in 1..Len(f) : f[j] = h[u[l]][m]
          BY <2>4, <4>1
        <4>3. j \in 1..Len(g) /\ g[j] = f[j]
          BY <2>5
        <4> QED
          BY <4>1, <4>2, <4>3
      <3> QED
        BY <3>1, <3>2
    <2> QED
      BY <2>6 DEF g
  <1>3. <<>> \in S /\ \A u \in S : \A x \in T : Append(u, x) \in S
    <2> HIDE DEF Has
    <2> QED
      BY <1>1, <1>2, EmptySeq, AppendProperties
  <1>4. S \in SUBSET Seq(T)
    OBVIOUS
  <1> HIDE DEF S
  <1>5. S = Seq(T)
    BY <1>3, <1>4, EverySeq
  <1> QED
    BY <1>5 DEF S, LosesNone

-----------------------------------------------------------------------------
(* Conversations.                                                            *)

\* All that may be sent for the messages.
ItemsOf(m) ==
    {Talk!Said("user", "system", m.text), Talk!Said("assistant", "tool_response", m.text),
     Talk!Said("assistant", None, m.text), Talk!Said(m.role, None, m.parts),
     Talk!Said("user", m.role, m.text), Talk!Item("output", None, None, m.answers, m.text)}
    \cup {Talk!Item("call", None, None, m.calls[i], "") : i \in 1..Len(m.calls)}
AllItems == UNION {ItemsOf(m) : m \in Messages}

\* A message is translated into items.
LEMMA ItemsAreItems ==
    ASSUME NEW m \in Messages
    PROVE  Talk!Items(m) \in Seq(AllItems)
  <1> DEFINE calls == [i \in 1..Len(m.calls) |-> Talk!Item("call", None, None, m.calls[i], "")]
             spoken == IF m.text = "" THEN <<>> ELSE <<Talk!Said("assistant", None, m.text)>>
  <1>1. \A x \in ItemsOf(m) : <<x>> \in Seq(AllItems)
    BY DEF AllItems
  <1>2. calls \in Seq(AllItems)
    <2>1. ASSUME NEW i \in 1..Len(m.calls)
          PROVE  calls[i] \in AllItems
      <3>1. Talk!Item("call", None, None, m.calls[i], "") \in ItemsOf(m)
        BY DEF ItemsOf
      <3> QED
        BY <3>1 DEF AllItems
    <2>2. Len(m.calls) \in Nat
      BY ConversationAssumption, LenProperties
    <2>3. calls \in [1..Len(m.calls) -> AllItems]
      BY <2>1
    <2> QED
      BY <2>2, <2>3, SeqDef
  <1>3. spoken \in Seq(AllItems)
    <2>1. Talk!Said("assistant", None, m.text) \in ItemsOf(m)
      BY DEF ItemsOf
    <2> QED
      BY <1>1, <2>1, EmptySeq
  <1> HIDE DEF calls, spoken
  <1>4. spoken \o calls \in Seq(AllItems)
    BY <1>2, <1>3, ConcatProperties
  <1>5. CASE m.role = "assistant"
    BY <1>4, <1>5 DEF Talk!Items, calls, spoken
  <1>6. CASE m.role # "assistant"
    <2>1. \E x \in ItemsOf(m) : Talk!Items(m) = <<x>>
      BY <1>6 DEF Talk!Items, ItemsOf
    <2> QED
      BY <1>1, <2>1
  <1> QED
    BY <1>5, <1>6

Translated == [m \in Messages |-> Talk!Items(m)]

\* The input of a request is what comes of its messages one by one.
LEMMA InputIsFlat ==
    ASSUME NEW ms \in Seq(Messages)
    PROVE  Talk!Input(ms) = Flat(Translated, ms) /\ Translated \in Maps(Messages, AllItems)
  <1>1. \A i \in 1..Len(ms) : Translated[ms[i]] = Talk!Items(ms[i])
    BY DEF Translated
  <1> QED
    BY <1>1, ItemsAreItems DEF Talk!Input, Flat, Translated, Maps

\* A message that is added adds its items at the end.
LEMMA InputGrows ==
    ASSUME NEW ms \in Seq(Messages), NEW m \in Messages
    PROVE  /\ Talk!Input(ms) \in Seq(AllItems)
           /\ Talk!Input(Append(ms, m)) = Talk!Input(ms) \o Talk!Items(m)
  <1>1. Append(ms, m) \in Seq(Messages) /\ Translated[m] = Talk!Items(m)
    BY DEF Translated
  <1>2. /\ Talk!Input(ms) = Flat(Translated, ms) /\ Translated \in Maps(Messages, AllItems)
        /\ Talk!Input(Append(ms, m)) = Flat(Translated, Append(ms, m))
    BY <1>1, InputIsFlat
  <1> QED
    BY <1>1, <1>2, FlatAppends

\* A prefix stays one when the sequence grows.
LEMMA PrefixStays ==
    ASSUME NEW T, NEW s \in Seq(T), NEW t \in Seq(T), NEW u \in Seq(T),
           Talk!IsPrefix(s, t)
    PROVE  Talk!IsPrefix(s, t \o u)
  <1>1. Len(s) \in Nat /\ Len(t) \in Nat /\ Len(u) \in Nat /\ Len(s) <= Len(t)
        /\ SubSeq(s, 1, Len(s)) = SubSeq(t, 1, Len(s))
    BY DEF Talk!IsPrefix
  <1>2. Len(t \o u) = Len(t) + Len(u)
    BY ConcatProperties
  <1>3. SubSeq(t \o u, 1, Len(s)) = SubSeq(t, 1, Len(s))
    <2>1. CASE Len(s) = 0
      BY <2>1, SubSeqEmpty
    <2>2. CASE Len(s) # 0
      <3>1. 1 \in 1..Len(t) /\ Len(s) \in 1..Len(t)
        BY <1>1, <2>2
      <3> QED
        BY <3>1, SubSeqOfConcat1
    <2> QED
      BY <2>1, <2>2
  <1> QED
    BY <1>1, <1>2, <1>3 DEF Talk!IsPrefix

\* What was sent last is the beginning of what would be sent now, under the same key.
Key == IF client.key # None THEN client.key ELSE Talk!Affinity(client.model, messages)
Tools == [i \in 1..Len(client.tools) |-> Talk!MappedTool(client.tools[i])]

\* A payload is a record, of which some fields may be replaced.
IsPayload(p) ==
    /\ {"input", "session", "tools", "key", "reasoning", "instructions"} \subseteq DOMAIN p
    /\ p = [x \in DOMAIN p |-> p[x]]

TalkInv ==
    /\ messages \in Seq(Messages)
    /\ payload # <<>> =>
         /\ messages # <<>>
         /\ IsPayload(payload[1])
         /\ payload[1].input \in Seq(AllItems)
         /\ Talk!IsPrefix(payload[1].input, Talk!Input(messages))
         /\ payload[1].session = <<Key>> /\ payload[1].tools = Tools
         /\ payload[1].key \in {<<>>, payload[1].session}

\* A conversation begins in the invariant.
LEMMA TalkBegins == Talk!Init => TalkInv
  BY EmptySeq DEF TalkInv, Talk!Init

\* The payload that is built now, and what becomes of it when it is reshaped.
LEMMA PayloadIsWhole ==
    ASSUME messages \in Seq(Messages)
    PROVE  LET p == Talk!Payload(messages) IN
           /\ IsPayload(p) /\ p.input = Talk!Input(messages)
           /\ p.session = <<Key>> /\ p.tools = Tools /\ p.key = p.session
  BY DEF Talk!Payload, IsPayload, Key, Tools

\* A reshaped payload has the input, the session and the tools it had.
LEMMA ReshapedIsWhole ==
    ASSUME NEW p, IsPayload(p), NEW q
    PROVE  LET r == [p EXCEPT !.reasoning = None, !.key = <<>>, !.instructions = q] IN
           /\ IsPayload(r) /\ r.input = p.input /\ r.session = p.session
           /\ r.tools = p.tools /\ r.key = <<>>
  BY DEF IsPayload

\* Each step of a conversation keeps the invariant and what was sent before.
LEMMA TalkStep ==
    ASSUME TalkInv, [Talk!Next]_talkVars
    PROVE  TalkInv' /\ Talk!KeepsPrefix
  <1>1. /\ Talk!Input(messages) \in Seq(AllItems)
        /\ \A m \in Messages : Talk!Items(m) \in Seq(AllItems)
             /\ Talk!Input(Append(messages, m)) = Talk!Input(messages) \o Talk!Items(m)
    <2>1. messages \in Seq(Messages)
      BY DEF TalkInv
    <2>2. ASSUME NEW m \in Messages
          PROVE  /\ Talk!Items(m) \in Seq(AllItems) /\ Talk!Input(messages) \in Seq(AllItems)
                 /\ Talk!Input(Append(messages, m)) = Talk!Input(messages) \o Talk!Items(m)
      BY <2>1, InputGrows, ItemsAreItems
    <2>3. messages = <<>> => Talk!Input(messages) \in Seq(AllItems)
      BY EmptySeq DEF Talk!Input, Talk!FlattenSeq
    <2>4. messages # <<>> => messages[1] \in Messages
      BY <2>1
    <2> QED
      BY <2>2, <2>3, <2>4
  <1>2. Talk!IsPrefix(Talk!Input(messages), Talk!Input(messages))
    BY <1>1 DEF Talk!IsPrefix
  <1>3. payload # <<>> => Talk!IsPrefix(payload[1].input, payload[1].input)
    BY DEF Talk!IsPrefix, TalkInv
  <1>4. CASE Talk!Say
    <2>1. PICK m \in Messages : messages' = Append(messages, m)
      BY <1>4 DEF Talk!Say
    <2>2. messages' \in Seq(Messages) /\ messages' # <<>>
      BY <2>1 DEF TalkInv
    <2>3. messages # <<>> => messages'[1] = messages[1]
      BY <2>1 DEF TalkInv
    <2>4. payload' = payload /\ client' = client /\ Tools' = Tools
      BY <1>4 DEF Talk!Say, Tools, Talk!operator
    <2>5. payload # <<>> => Key' = Key
      BY <2>2, <2>3, <2>4 DEF Key, Talk!Affinity, TalkInv
    <2>6. payload # <<>> => Talk!IsPrefix(payload[1].input, Talk!Input(messages'))
      BY <1>1, <2>1, PrefixStays DEF TalkInv
    <2> QED
      BY <1>3, <2>2, <2>4, <2>5, <2>6 DEF TalkInv, Talk!KeepsPrefix, Talk!Sent
  <1>5. CASE Talk!Ask
    <2>1. payload' = <<Talk!Payload(messages)>> /\ messages' = messages
          /\ client' = client /\ messages # <<>>
      BY <1>5 DEF Talk!Ask
    <2>2. Key' = Key /\ Tools' = Tools
      BY <2>1 DEF Key, Tools
    <2> QED
      BY <1>1, <1>2, <2>1, <2>2, PayloadIsWhole DEF TalkInv, Talk!KeepsPrefix, Talk!Sent
  <1>6. CASE Talk!Reshape
    <2>1. PICK q : payload' = <<[payload[1] EXCEPT !.reasoning = None, !.key = <<>>,
                                                  !.instructions = q]>>
      BY <1>6 DEF Talk!Reshape
    <2>2. messages' = messages /\ client' = client /\ payload # <<>>
      BY <1>6 DEF Talk!Reshape, Talk!Sent
    <2>3. Key' = Key /\ Tools' = Tools
      BY <2>2 DEF Key, Tools
    <2> QED
      BY ZenonT(40), <1>3, <2>1, <2>2, <2>3, ReshapedIsWhole DEF TalkInv, Talk!KeepsPrefix, Talk!Sent
  <1>7. CASE UNCHANGED <<client, messages, payload>>
    BY <1>3, <1>7 DEF TalkInv, Key, Tools, Talk!KeepsPrefix, Talk!Sent
  <1> QED
    BY <1>4, <1>5, <1>6, <1>7
    DEF Talk!Next, Talk!EditFile, Talk!Configure, Talk!Restart, talkVars

\* Whether one sequence is made of all of another does not depend on how h is written.
LEMMA FlatSame ==
    ASSUME NEW T, NEW g, NEW h, NEW s \in Seq(T), \A x \in T : g[x] = h[x]
    PROVE  Flat(g, s) = Flat(h, s)
  <1>1. \A i \in 1..Len(s) : g[s[i]] = h[s[i]]
    OBVIOUS
  <1> QED
    BY <1>1 DEF Flat

\* One element is a sequence.
LEMMA SingletonIsSeq == \A T : \A x \in T : <<x>> \in Seq(T)
  OBVIOUS

\* What comes of one element.
LEMMA FlatOfOne ==
    ASSUME NEW T, NEW U, NEW h \in Maps(T, U), NEW x \in T
    PROVE  Flat(h, <<x>>) = h[x]
  <1> DEFINE none == <<>>
  <1>1. none \in Seq(T) /\ <<x>> = Append(none, x)
    BY EmptySeq
  <1> HIDE DEF none
  <1>2. Flat(h, Append(none, x)) = Flat(h, none) \o h[x]
    BY <1>1, FlatAppends
  <1>3. <<>> \o h[x] = h[x]
    <2>1. h[x] \in Seq(U)
      BY DEF Maps
    <2> QED
      BY <2>1, ConcatEmptySeq
  <1> QED
    BY <1>1, <1>2, <1>3, FlatOfNone DEF none

\* Elements that map to nothing leave nothing.
LEMMA FlatOfEmpty ==
    ASSUME NEW T, NEW h \in Maps(T, {}), NEW s \in Seq(T)
    PROVE  Flat(h, s) = <<>>
  <1>1. Flat(h, s) \in Seq({})
    BY FlatIsSeq
  <1> QED
    BY <1>1

\* The id of an item of a type, and nothing of the others.
IdOf(type) == [x \in AllItems |-> IF x.type = type THEN <<x.id>> ELSE <<>>]
ItemIds == {x.id : x \in AllItems}

\* The ids of one kind are collected item by item.
LEMMA IdsAreFlat ==
    ASSUME NEW type, NEW s \in Seq(AllItems)
    PROVE  Talk!Ids(type, s) = Flat(IdOf(type), s)
  <1>1. \A i \in 1..Len(s) :
            IdOf(type)[s[i]] = IF s[i].type = type THEN <<s[i].id>> ELSE <<>>
    BY DEF IdOf
  <1> QED
    BY <1>1 DEF Talk!Ids, Flat

\* Each item has at most one id.
LEMMA IdOfIsMap ==
    ASSUME NEW type
    PROVE  IdOf(type) \in Maps(AllItems, ItemIds)
  <1>1. \A x \in AllItems : x.id \in ItemIds
    BY DEF ItemIds
  <1>2. \A x \in AllItems :
            (IF x.type = type THEN <<x.id>> ELSE <<>>) \in Seq(ItemIds)
    BY <1>1, EmptySeq
  <1> QED
    BY <1>2 DEF IdOf, Maps

\* What an item that is alone says.
LEMMA IdOfOne ==
    ASSUME NEW type, NEW x \in AllItems
    PROVE  Flat(IdOf(type), <<x>>) = IF x.type = type THEN <<x.id>> ELSE <<>>
  <1>1. Flat(IdOf(type), <<x>>) = IdOf(type)[x]
    BY IdOfIsMap, FlatOfOne
  <1> QED
    BY <1>1 DEF IdOf

\* The calls of a message, as items.
CallOf(id) == Talk!Item("call", None, None, id, "")
CallItems(m) == [i \in 1..Len(m.calls) |-> CallOf(m.calls[i])]

\* The calls of a message are translated into items.
LEMMA CallItemsAreItems ==
    ASSUME NEW m \in Messages
    PROVE  /\ m.calls \in Seq(Talk!ToSet(m.calls))
           /\ \A id \in Talk!ToSet(m.calls) : CallOf(id) \in AllItems
           /\ CallItems(m) \in Seq(AllItems)
  <1>1. m.calls \in Seq(Talk!ToSet(m.calls))
    BY ConversationAssumption
  <1>2. ASSUME NEW id \in Talk!ToSet(m.calls)
        PROVE  CallOf(id) \in AllItems
    <2>1. PICK i \in 1..Len(m.calls) : id = m.calls[i]
      BY DEF Talk!ToSet
    <2>2. CallOf(id) \in ItemsOf(m)
      BY <2>1 DEF CallOf, ItemsOf
    <2> QED
      BY <2>2 DEF AllItems
  <1>3. \A i \in 1..Len(m.calls) : CallOf(m.calls[i]) \in AllItems
    BY <1>2 DEF Talk!ToSet
  <1>4. Len(m.calls) \in Nat
    BY <1>1, LenProperties
  <1> QED
    BY <1>1, <1>2, <1>3, <1>4 DEF CallItems

\* The ids of the calls are those of the message, in their order.
LEMMA IdsOfCalls ==
    ASSUME NEW m \in Messages
    PROVE  /\ Flat(IdOf("call"), CallItems(m)) = m.calls
           /\ Flat(IdOf("output"), CallItems(m)) = <<>>
  <1> DEFINE ids == Talk!ToSet(m.calls)
             made == [id \in ids |-> <<CallOf(id)>>]
             item == [id \in ids |-> CallOf(id)]
  <1>1. m.calls \in Seq(ids) /\ item \in [ids -> AllItems]
        /\ \A id \in ids : CallOf(id) \in AllItems /\ item[id] = CallOf(id)
    BY CallItemsAreItems
  <1>2. made \in Maps(ids, AllItems)
    BY <1>1 DEF Maps
  <1>3. \A id \in ids : item[id] \in AllItems /\ made[id] = <<item[id]>>
    BY <1>1
  <1> HIDE DEF ids, item, made
  <1>4. Flat(made, m.calls) = Mapped(item, m.calls)
    BY <1>1, <1>2, <1>3, FlatOfSingles
  <1>5. \A i \in 1..Len(m.calls) : item[m.calls[i]] = CallOf(m.calls[i])
    BY <1>1
  <1>6. CallItems(m) = Flat(made, m.calls)
    BY <1>4, <1>5 DEF CallItems, Mapped
  <1>7. ASSUME NEW type
        PROVE  Flat(IdOf(type), CallItems(m))
                 = Flat([id \in ids |-> Flat(IdOf(type), made[id])], m.calls)
    BY <1>1, <1>2, <1>6, IdOfIsMap, FlatOfFlat
  <1>8. ASSUME NEW type, NEW id \in ids
        PROVE  Flat(IdOf(type), made[id]) = IF type = "call" THEN <<id>> ELSE <<>>
    <2>1. /\ Flat(IdOf(type), <<CallOf(id)>>)
             = IF CallOf(id).type = type THEN <<CallOf(id).id>> ELSE <<>>
      BY <1>1, IdOfOne
    <2> USE DEF made
    <2>2. CallOf(id).type = "call" /\ CallOf(id).id = id
      BY DEF CallOf, Talk!Item
    <2> QED
      BY <2>1, <2>2
  <1>9. Flat(IdOf("call"), CallItems(m)) = m.calls
    <2> DEFINE same == [x \in ids |-> x]
               each == [id \in ids |-> Flat(IdOf("call"), made[id])]
    <2>1. \A id \in ids : same[id] \in ids /\ each[id] = <<same[id]>>
      BY <1>8
    <2>2. each = [id \in ids |-> each[id]]
      OBVIOUS
    <2>3. Flat(IdOf("call"), CallItems(m)) = Flat(each, m.calls)
      BY <1>7
    <2>4. \A i \in 1..Len(m.calls) : same[m.calls[i]] = m.calls[i]
      BY <1>1
    <2>5. [i \in 1..Len(m.calls) |-> m.calls[i]] = m.calls
      BY <1>1
    <2> HIDE DEF same, each
    <2>6. each \in Maps(ids, ids)
      <3>1. \A id \in ids : <<same[id]>> \in Seq(ids)
        BY <2>1
      <3> QED
        BY <2>1, <2>2, <3>1 DEF Maps
    <2>7. Flat(each, m.calls) = Mapped(same, m.calls)
      BY <1>1, <2>1, <2>6, FlatOfSingles
    <2> QED
      BY <2>3, <2>4, <2>5, <2>7 DEF Mapped
  <1>10. Flat(IdOf("output"), CallItems(m)) = <<>>
    <2>1. [id \in ids |-> Flat(IdOf("output"), made[id])] \in Maps(ids, {})
      BY <1>8, EmptySeq DEF Maps
    <2> QED
      BY <1>1, <1>7, <2>1, FlatOfEmpty
  <1> QED
    BY <1>9, <1>10

\* A message that the assistant did not say is one item.
LEMMA OneItem ==
    ASSUME NEW m \in Messages, m.role # "assistant"
    PROVE  \E x \in AllItems :
              /\ Talk!Items(m) = <<x>> /\ x.type # "call"
              /\ IF m.role = "tool" /\ m.answers # None
                 THEN x.type = "output" /\ x.id = m.answers ELSE x.type # "output"
              /\ x.content \in {m.text, m.parts}
  <1>1. ItemsOf(m) \subseteq AllItems
    BY DEF AllItems
  <1>2. CASE m.role = "system"
    <2> DEFINE y == Talk!Said("user", "system", m.text)
    <2>1. y \in ItemsOf(m)
      BY DEF ItemsOf
    <2>2. Talk!Items(m) = <<y>>
      BY <1>2 DEF Talk!Items
    <2>3. y.type = "message" /\ y.content = m.text
      BY DEF Talk!Said, Talk!Item
    <2> HIDE DEF y
    <2> QED
      BY <1>1, <1>2, <2>1, <2>2, <2>3
  <1>3. CASE m.role = "tool" /\ m.answers # None
    <2> DEFINE y == Talk!Item("output", None, None, m.answers, m.text)
    <2>1. y \in ItemsOf(m)
      BY DEF ItemsOf
    <2>2. Talk!Items(m) = <<y>>
      BY <1>3 DEF Talk!Items
    <2>3. y.type = "output" /\ y.id = m.answers /\ y.content = m.text
      BY DEF Talk!Item
    <2> HIDE DEF y
    <2> QED
      BY <1>1, <1>3, <2>1, <2>2, <2>3
  <1>4. CASE m.role = "tool" /\ m.answers = None
    <2> DEFINE y == Talk!Said("assistant", "tool_response", m.text)
    <2>1. y \in ItemsOf(m)
      BY DEF ItemsOf
    <2>2. Talk!Items(m) = <<y>>
      BY <1>4 DEF Talk!Items
    <2>3. y.type = "message" /\ y.content = m.text
      BY DEF Talk!Said, Talk!Item
    <2> HIDE DEF y
    <2> QED
      BY <1>1, <1>4, <2>1, <2>2, <2>3
  <1>5. CASE m.role \in {"user", "developer"}
    <2> DEFINE y == Talk!Said(m.role, None, m.parts)
    <2>1. y \in ItemsOf(m)
      BY DEF ItemsOf
    <2>2. Talk!Items(m) = <<y>>
      BY <1>5 DEF Talk!Items
    <2>3. y.type = "message" /\ y.content = m.parts
      BY DEF Talk!Said, Talk!Item
    <2> HIDE DEF y
    <2> QED
      BY <1>1, <1>5, <2>1, <2>2, <2>3
  <1>6. CASE m.role \notin {"system", "tool", "user", "developer"}
    <2> DEFINE y == Talk!Said("user", m.role, m.text)
    <2>1. y \in ItemsOf(m)
      BY DEF ItemsOf
    <2>2. Talk!Items(m) = <<y>>
      BY <1>6 DEF Talk!Items
    <2>3. y.type = "message" /\ y.content = m.text
      BY DEF Talk!Said, Talk!Item
    <2> HIDE DEF y
    <2> QED
      BY <1>1, <1>6, <2>1, <2>2, <2>3
  <1> QED
    BY <1>2, <1>3, <1>4, <1>5, <1>6

\* What of a message is the id of a call, and what is the id of a call it answers.
LEMMA IdsOfMessage ==
    ASSUME NEW m \in Messages
    PROVE  /\ Flat(IdOf("call"), Talk!Items(m)) = Talk!CallsOf(m)
           /\ Flat(IdOf("output"), Talk!Items(m)) = Talk!AnswersOf(m)
  <1> DEFINE spoken == IF m.text = "" THEN <<>> ELSE <<Talk!Said("assistant", None, m.text)>>
  <1>1. CASE m.role = "assistant"
    <2>1. Talk!Items(m) = spoken \o CallItems(m)
      BY <1>1 DEF Talk!Items, CallItems, CallOf
    <2>2. spoken \in Seq(AllItems)
      <3>1. Talk!Said("assistant", None, m.text) \in ItemsOf(m)
        BY DEF ItemsOf
      <3>2. Talk!Said("assistant", None, m.text) \in AllItems
        BY <3>1 DEF AllItems
      <3> QED
        BY <3>2, SingletonIsSeq, EmptySeq
    <2>3. ASSUME NEW type \in {"call", "output"}
          PROVE  Flat(IdOf(type), spoken) = <<>>
      <3>1. CASE m.text = ""
        BY <3>1, FlatOfNone
      <3>2. CASE m.text # ""
        <4>1. Talk!Said("assistant", None, m.text) \in ItemsOf(m)
          BY DEF ItemsOf
        <4>2. Talk!Said("assistant", None, m.text) \in AllItems
          BY <4>1 DEF AllItems
        <4>3. Talk!Said("assistant", None, m.text).type # type
          BY DEF Talk!Said, Talk!Item
        <4> QED
          BY <3>2, <4>2, <4>3, IdOfOne
      <3> QED
        BY <3>1, <3>2
    <2> HIDE DEF spoken
    <2>4. ASSUME NEW type \in {"call", "output"}
          PROVE  Flat(IdOf(type), Talk!Items(m)) = Flat(IdOf(type), CallItems(m))
      <3>1. CallItems(m) \in Seq(AllItems)
        BY CallItemsAreItems
      <3>2. Flat(IdOf(type), spoken \o CallItems(m))
              = Flat(IdOf(type), spoken) \o Flat(IdOf(type), CallItems(m))
        <4> DEFINE calls == CallItems(m)
        <4>1. calls \in Seq(AllItems)
          BY <3>1
        <4> HIDE DEF calls
        <4>2. Flat(IdOf(type), spoken \o calls)
                = Flat(IdOf(type), spoken) \o Flat(IdOf(type), calls)
          BY <2>2, <4>1, IdOfIsMap, FlatConcat
        <4> QED
          BY <4>2 DEF calls
      <3>3. Flat(IdOf(type), CallItems(m)) \in Seq(ItemIds)
        BY <3>1, IdOfIsMap, FlatIsSeq
      <3>4. <<>> \o Flat(IdOf(type), CallItems(m)) = Flat(IdOf(type), CallItems(m))
        BY <3>3, ConcatEmptySeq
      <3> QED
        BY <2>1, <2>3, <3>2, <3>4
    <2> QED
      BY <1>1, <2>4, IdsOfCalls DEF Talk!CallsOf, Talk!AnswersOf
  <1>2. CASE m.role # "assistant"
    <2>1. PICK x \in AllItems :
              /\ Talk!Items(m) = <<x>> /\ x.type # "call"
              /\ IF m.role = "tool" /\ m.answers # None
                 THEN x.type = "output" /\ x.id = m.answers ELSE x.type # "output"
      BY <1>2, OneItem
    <2>3. \A type : Flat(IdOf(type), Talk!Items(m)) = IF x.type = type THEN <<x.id>> ELSE <<>>
      BY <2>1, IdOfOne
    <2>4. /\ Flat(IdOf("call"), Talk!Items(m)) = <<>>
          /\ Flat(IdOf("output"), Talk!Items(m))
               = IF m.role = "tool" /\ m.answers # None THEN <<m.answers>> ELSE <<>>
      BY <2>1, <2>3
    <2> QED
      BY <1>2, <2>4 DEF Talk!CallsOf, Talk!AnswersOf
  <1> QED
    BY <1>1, <1>2

\* So it is for all the messages.
LEMMA IdsOfInput ==
    ASSUME NEW ms \in Seq(Messages), NEW type, NEW expected,
           \A m \in Messages : Flat(IdOf(type), Talk!Items(m)) = expected[m]
    PROVE  Talk!Ids(type, Talk!Input(ms)) = Flat(expected, ms)
  <1> DEFINE both == [m \in Messages |-> Flat(IdOf(type), Translated[m])]
  <1>1. Talk!Input(ms) = Flat(Translated, ms) /\ Translated \in Maps(Messages, AllItems)
    BY InputIsFlat
  <1>2. Flat(Translated, ms) \in Seq(AllItems)
    BY <1>1, FlatIsSeq
  <1>3. Talk!Ids(type, Talk!Input(ms)) = Flat(IdOf(type), Flat(Translated, ms))
    BY <1>1, <1>2, IdsAreFlat
  <1>4. Flat(IdOf(type), Flat(Translated, ms)) = Flat(both, ms)
    BY <1>1, IdOfIsMap, FlatOfFlat
  <1>5. \A m \in Messages : both[m] = expected[m]
    BY DEF Translated
  <1> HIDE DEF both
  <1>6. Flat(both, ms) = Flat(expected, ms)
    BY <1>5, FlatSame
  <1> QED
    BY <1>3, <1>4, <1>6

\* The first of one element.
LEMMA FirstOfOne == \A x : 1 \in 1..Len(<<x>>) /\ <<x>>[1] = x
  OBVIOUS

\* The first element stays the first.
LEMMA FirstOfConcat ==
    ASSUME NEW T, NEW x \in T, NEW s \in Seq(T)
    PROVE  1 \in 1..Len(<<x>> \o s) /\ (<<x>> \o s)[1] = x
  OBVIOUS

\* Every text is in some item of its message, and every item of it is sent.
LEMMA TextsAreSent ==
    ASSUME NEW ms \in Seq(Messages), NEW i \in 1..Len(ms), ms[i].text # ""
    PROVE  \E j \in 1..Len(Talk!Input(ms)) :
               Talk!Input(ms)[j].content \in {ms[i].text, ms[i].parts}
  <1> DEFINE m == ms[i]
  <1>1. m \in Messages /\ m.text # ""
    BY ElementOfSeq
  <1> HIDE DEF m
  <1>2. /\ Talk!Items(m) \in Seq(AllItems) /\ 1 \in 1..Len(Talk!Items(m))
        /\ Talk!Items(m)[1].content \in {m.text, m.parts}
    <2>1. Talk!Items(m) \in Seq(AllItems)
      BY <1>1, ItemsAreItems
    <2>2. CASE m.role = "assistant"
      <3> DEFINE first == Talk!Said("assistant", None, m.text)
                 calls == CallItems(m)
      <3>1. Talk!Items(m) = <<first>> \o calls
        BY <1>1, <2>2 DEF Talk!Items, CallItems, CallOf
      <3>2. calls \in Seq(AllItems)
        BY <1>1, CallItemsAreItems
      <3>3. first \in AllItems /\ first.content = m.text
        <4>1. first \in ItemsOf(m)
          BY DEF ItemsOf
        <4>2. first \in AllItems
          <5> HIDE DEF first
          <5> QED
            BY <1>1, <4>1 DEF AllItems
        <4> QED
          BY <4>2 DEF Talk!Said, Talk!Item
      <3> HIDE DEF first, calls
      <3>4. 1 \in 1..Len(<<first>> \o calls) /\ (<<first>> \o calls)[1] = first
        BY <3>2, <3>3, FirstOfConcat
      <3> QED
        BY <2>1, <3>1, <3>3, <3>4
    <2>3. CASE m.role # "assistant"
      <3>1. PICK x \in AllItems : Talk!Items(m) = <<x>> /\ x.content \in {m.text, m.parts}
        BY <1>1, <2>3, OneItem
      <3>2. 1 \in 1..Len(<<x>>) /\ <<x>>[1] = x
        BY FirstOfOne
      <3> QED
        BY <2>1, <3>1, <3>2
    <2> QED
      BY <2>2, <2>3
  <1>3. Translated[ms[i]] = Talk!Items(m) /\ ms[i] = m
    BY <1>1 DEF m, Translated
  <1>4. Talk!Input(ms) = Flat(Translated, ms) /\ Translated \in Maps(Messages, AllItems)
    BY InputIsFlat
  <1>5. 1 \in 1..Len(Translated[ms[i]])
    BY <1>2, <1>3
  <1>6. \E j \in 1..Len(Flat(Translated, ms)) :
            Flat(Translated, ms)[j] = Translated[ms[i]][1]
    <2>1. LosesNone(Translated, ms)
      BY <1>4, FlatHas
    <2> QED
      BY <1>5, <2>1 DEF LosesNone
  <1> QED
    BY <1>2, <1>3, <1>4, <1>6

\* The payload of any messages has all their calls, answers and texts.
LEMMA PayloadLosesNothing ==
    ASSUME messages \in Seq(Messages)
    PROVE  Talk!HistoryIsWhole
  <1> DEFINE calls == [m \in Messages |-> Talk!CallsOf(m)]
             answers == [m \in Messages |-> Talk!AnswersOf(m)]
  <1>1. Talk!Payload(messages).input = Talk!Input(messages)
    BY PayloadIsWhole
  <1>2. /\ \A m \in Messages : Flat(IdOf("call"), Talk!Items(m)) = calls[m]
        /\ \A m \in Messages : Flat(IdOf("output"), Talk!Items(m)) = answers[m]
    BY IdsOfMessage
  <1>3. /\ \A i \in 1..Len(messages) : calls[messages[i]] = Talk!CallsOf(messages[i])
        /\ \A i \in 1..Len(messages) : answers[messages[i]] = Talk!AnswersOf(messages[i])
    BY ElementOfSeq
  <1> HIDE DEF calls, answers
  <1>4. /\ Talk!Ids("call", Talk!Input(messages)) = Flat(calls, messages)
        /\ Talk!Ids("output", Talk!Input(messages)) = Flat(answers, messages)
    BY <1>2, IdsOfInput
  <1>5. /\ Flat(calls, messages)
             = Talk!FlattenSeq([i \in 1..Len(messages) |-> Talk!CallsOf(messages[i])])
        /\ Flat(answers, messages)
             = Talk!FlattenSeq([i \in 1..Len(messages) |-> Talk!AnswersOf(messages[i])])
    BY <1>3 DEF Flat
  <1> QED
    BY <1>1, <1>4, <1>5, TextsAreSent DEF Talk!HistoryIsWhole

-----------------------------------------------------------------------------
(* The list of models.                                                       *)

\* What a list of models is made of.
Slug == (UNION {List!Slugs(d) : d \in Documents})
        \cup (UNION {List!ToSet(e) : e \in Extras}) \cup List!ToSet(Fallback)
Tiers == {Absent} \cup (UNION {{List!ServiceTiers(d[i].tiers) : i \in DOMAIN d} : d \in Documents})
Model == [slug : Slug, listed : BOOLEAN, priority : Int, tiers : Tiers]
ExtraSlug == Slug \ {Absent, ""}

\* The module's cardinality is the library's.
LEMMA ListCardinality == \A S : List!Cardinality(S) = Cardinality(S)
  BY DEF List!Cardinality, Cardinality

\* An entry of a document is parsed into a model of its name.
LEMMA ParsedIsModel ==
    ASSUME NEW d \in Documents, NEW i \in DOMAIN d
    PROVE  /\ List!Parsed(d[i]) \in Model
           /\ List!Parsed(d[i]).slug = d[i].slug
           /\ List!Parsed(d[i]).priority \in Int
  <1>1. d[i].slug \in Slug
    <2>1. d[i].slug \in List!Slugs(d)
      BY DEF List!Slugs
    <2> QED
      BY <2>1 DEF Slug
  <1>2. List!ServiceTiers(d[i].tiers) \in Tiers
    BY DEF Tiers
  <1>3. (IF d[i].priority = Absent THEN MaxInt ELSE d[i].priority) \in Int
    BY ListAssumption
  <1> QED
    BY <1>1, <1>2, <1>3 DEF Model, List!Parsed

\* By priority and then by place is a strict order of the items.
LEMMA EarlierOrders ==
    ASSUME NEW d \in Documents
    PROVE  /\ \A i \in DOMAIN d : ~List!Earlier(d, i, i)
           /\ \A i, j \in DOMAIN d : i # j => List!Earlier(d, i, j) \/ List!Earlier(d, j, i)
           /\ \A i, j, k \in DOMAIN d :
                List!Earlier(d, i, j) /\ List!Earlier(d, j, k) => List!Earlier(d, i, k)
  <1>1. /\ DOMAIN d \subseteq Int
        /\ \A i \in DOMAIN d : List!Parsed(d[i]).priority \in Int
    BY ListAssumption, ParsedIsModel
  <1> DEFINE P(i) == List!Parsed(d[i]).priority
  <1>2. \A i \in DOMAIN d : i \in Int /\ P(i) \in Int
    BY <1>1
  <1>3. \A i, j : List!Earlier(d, i, j) <=> P(i) < P(j) \/ (P(i) = P(j) /\ i < j)
    BY DEF List!Earlier
  <1> HIDE DEF P
  <1> QED
    BY <1>2, <1>3

\* The usable items each at its place.
LEMMA ParsedInOrder ==
    ASSUME NEW d \in Documents
    PROVE  LET N == Cardinality(List!Usable(d)) IN
           /\ N \in Nat
           /\ List!ParseCatalog(d) \in Seq(Model) /\ Len(List!ParseCatalog(d)) = N
           /\ \E g \in [1..N -> List!Usable(d)] :
                /\ \A n \in 1..N : List!ParseCatalog(d)[n] = List!Parsed(d[g[n]])
                /\ \A m, n \in 1..N : m < n => List!Earlier(d, g[m], g[n])
                /\ \A i \in List!Usable(d) : \E n \in 1..N : g[n] = i
  <1> DEFINE U == List!Usable(d)
             N == Cardinality(U)
             Upto(i) == {j \in U : j = i \/ List!Earlier(d, j, i)}
             P == [i \in U |-> Cardinality(Upto(i))]
             g == [n \in 1..N |-> CHOOSE i \in U : P[i] = n]
  <1>1. U \subseteq DOMAIN d /\ DOMAIN d = 1..Len(d) /\ Len(d) \in Nat
    <2>1. U \subseteq DOMAIN d
      BY DEF List!Usable
    <2>2. d \in Seq(List!ToSet(d))
      BY ListAssumption
    <2> QED
      BY <2>1, <2>2, LenProperties
  <1>2. IsFiniteSet(U) /\ N \in Nat
    <2>1. IsFiniteSet(1..Len(d))
      BY <1>1, FS_Interval
    <2>2. IsFiniteSet(U)
      BY <1>1, <2>1, FS_Subset
    <2> QED
      BY <2>2, FS_CardinalityType
  <1> HIDE DEF U
  <1>3. ASSUME NEW i \in U
        PROVE  IsFiniteSet(Upto(i)) /\ P[i] \in 1..N
    <2>1. Upto(i) \subseteq U /\ i \in Upto(i)
      OBVIOUS
    <2> HIDE DEF Upto
    <2>2. IsFiniteSet(Upto(i)) /\ Cardinality(Upto(i)) <= N
      BY <1>2, <2>1, FS_Subset
    <2>3. Cardinality(Upto(i)) \in Nat /\ Cardinality(Upto(i)) # 0
      BY <2>1, <2>2, FS_CardinalityType, FS_EmptySet
    <2> QED
      BY <1>2, <2>2, <2>3
  <1>4. ASSUME NEW i \in U, NEW j \in U, List!Earlier(d, j, i)
        PROVE  P[j] < P[i]
    <2>1. Upto(j) \subseteq Upto(i) /\ i \in Upto(i) /\ i \notin Upto(j)
      BY <1>1, <1>4, EarlierOrders
    <2>2. P[i] = Cardinality(Upto(i)) /\ P[j] = Cardinality(Upto(j))
      OBVIOUS
    <2>3. /\ IsFiniteSet(Upto(i)) /\ IsFiniteSet(Upto(j))
          /\ Cardinality(Upto(i)) \in Nat /\ Cardinality(Upto(j)) \in Nat
      BY <1>3, FS_CardinalityType
    <2> HIDE DEF Upto
    <2>4. /\ Cardinality(Upto(j)) <= Cardinality(Upto(i))
          /\ Cardinality(Upto(j)) = Cardinality(Upto(i)) => Upto(i) = Upto(j)
      BY <2>1, <2>3, FS_Subset
    <2> QED
      BY <2>1, <2>2, <2>3, <2>4
  <1>5. ASSUME NEW i \in U, NEW j \in U, i # j
        PROVE  (P[i] < P[j] /\ List!Earlier(d, i, j)) \/ (P[j] < P[i] /\ List!Earlier(d, j, i))
    BY <1>1, <1>4, <1>5, EarlierOrders
  <1>6. ASSUME NEW n \in 1..N
        PROVE  \E i \in U : P[i] = n
    <2>1. P \in [U -> 1..N]
      <3>1. \A i \in U : P[i] \in 1..N
        BY <1>3
      <3> HIDE DEF Upto
      <3>2. P = [i \in U |-> P[i]]
        OBVIOUS
      <3> HIDE DEF P
      <3> QED
        BY <3>1, <3>2
    <2>2. \A i, j \in U : P[i] = P[j] => i = j
      <3>1. \A i \in U : P[i] \in Int
        BY <1>2, <1>3
      <3> HIDE DEF P
      <3> QED
        BY <1>5, <3>1
    <2> HIDE DEF P
    <2>3. P \in Injection(U, 1..N)
      BY <2>1, <2>2 DEF Injection, IsInjective
    <2>4. IsFiniteSet(1..N) /\ Cardinality(1..N) = N
      <3>1. Cardinality(1..N) = (IF 1 > N THEN 0 ELSE N - 1 + 1) /\ IsFiniteSet(1..N)
        BY <1>2, FS_Interval
      <3> QED
        BY <1>2, <3>1
    <2>5. P \in Surjection(U, 1..N)
      BY <2>3, <2>4, FS_Injection
    <2> QED
      BY <2>5 DEF Surjection
  <1>7. ASSUME NEW n \in 1..N
        PROVE  g[n] \in U /\ P[g[n]] = n
    <2>1. \E i \in U : P[i] = n
      BY <1>6
    <2> HIDE DEF P
    <2> QED
      BY <2>1
  <1>8. g \in [1..N -> U]
    <2>1. \A n \in 1..N : g[n] \in U
      BY <1>7
    <2> HIDE DEF P, N
    <2>2. g = [n \in 1..N |-> g[n]]
      OBVIOUS
    <2> HIDE DEF g
    <2> QED
      BY <2>1, <2>2
  <1>9. List!ParseCatalog(d) = [n \in 1..N |-> List!Parsed(d[g[n]])]
    <2>1. List!ParseCatalog(d) = [n \in 1..N |->
              List!Parsed(d[CHOOSE i \in U : Cardinality(Upto(i)) = n])]
      <3>1. List!Cardinality(U) = N /\ \A i : List!Cardinality(Upto(i)) = Cardinality(Upto(i))
        BY ListCardinality
      <3>2. List!ParseCatalog(d) = [n \in 1..List!Cardinality(U) |->
                List!Parsed(d[CHOOSE i \in U : List!Cardinality(Upto(i)) = n])]
        BY DEF List!ParseCatalog, U
      <3> HIDE DEF U, Upto, N
      <3> QED
        BY <3>1, <3>2
    <2>2. ASSUME NEW n \in 1..N
          PROVE  g[n] = CHOOSE i \in U : Cardinality(Upto(i)) = n
      <3> DEFINE Q(i) == Cardinality(Upto(i))
      <3>1. \A i \in U : P[i] = Q(i)
        OBVIOUS
      <3> HIDE DEF P, Q
      <3>2. (CHOOSE i \in U : P[i] = n) = CHOOSE i \in U : Q(i) = n
        BY <3>1
      <3> QED
        BY <3>2 DEF Q
    <2> HIDE DEF g, U, Upto
    <2> QED
      BY <2>1, <2>2
  <1> HIDE DEF g
  <1>10. /\ List!ParseCatalog(d) \in Seq(Model) /\ Len(List!ParseCatalog(d)) = N
         /\ \A n \in 1..N : List!ParseCatalog(d)[n] = List!Parsed(d[g[n]])
    <2>1. \A n \in 1..N : List!Parsed(d[g[n]]) \in Model
      BY <1>1, <1>8, ParsedIsModel
    <2> QED
      BY <1>2, <1>9, <2>1
  <1>11. ASSUME NEW m \in 1..N, NEW n \in 1..N, m < n
         PROVE  List!Earlier(d, g[m], g[n])
    <2>1. g[m] \in U /\ g[n] \in U /\ P[g[m]] = m /\ P[g[n]] = n
      BY <1>7
    <2> HIDE DEF P
    <2>2. g[m] # g[n]
      BY <1>2, <1>11, <2>1
    <2> QED
      BY <1>2, <1>5, <1>11, <2>1, <2>2
  <1>12. ASSUME NEW i \in U
         PROVE  \E n \in 1..N : g[n] = i
    <2>1. P[i] \in 1..N
      BY <1>3
    <2>2. P[g[P[i]]] = P[i] /\ g[P[i]] \in U
      BY <1>7, <2>1
    <2>3. P[i] \in Int /\ \A j \in U : P[j] \in Int
      <3>1. \A j \in U : P[j] \in 1..N
        BY <1>3
      <3> HIDE DEF P
      <3> QED
        BY <1>2, <3>1
    <2> HIDE DEF P
    <2>4. g[P[i]] = i
      BY <1>5, <2>2, <2>3
    <2> QED
      BY <2>1, <2>4
  <1> QED
    BY <1>2, <1>8, <1>10, <1>11, <1>12 DEF U

\* A list with some of the extra models behind it, and the next priority.
Joins(base, given) ==
    {r \in [models : Seq(Model), next : Int] :
        /\ Len(base) <= Len(r.models)
        /\ \A i \in 1..Len(base) : r.models[i] = base[i]
        /\ \A i, j \in 1..Len(r.models) : r.models[i].slug = r.models[j].slug => i = j
        /\ \A i \in 1..Len(r.models) : i > Len(base) => r.models[i].slug \in List!ToSet(given)}

Join(r, slug) ==
    IF slug \in List!Slugs(r.models) THEN r
    ELSE [models |-> Append(r.models, List!Bare(slug, r.next)), next |-> List!Next64(r.next)]

\* The priority after another is a number, also at the end of the range.
LEMMA NextIsInt == \A p \in Int : List!Next64(p) \in Int
  BY ListAssumption DEF List!Next64

\* The names in a list, by their places.
LEMMA SlugsAre ==
    ASSUME NEW ms \in Seq(Model)
    PROVE  List!Slugs(ms) = {ms[i].slug : i \in 1..Len(ms)}
  BY DEF List!Slugs

\* Joining one extra model keeps what was joined and adds its name.
LEMMA JoinKeeps ==
    ASSUME NEW base \in Seq(Model), NEW given \in Seq(ExtraSlug),
           NEW r \in Joins(base, given), NEW i \in 1..Len(given)
    PROVE  /\ Join(r, given[i]) \in Joins(base, given)
           /\ List!Slugs(r.models) \subseteq List!Slugs(Join(r, given[i]).models)
           /\ given[i] \in List!Slugs(Join(r, given[i]).models)
  <1> DEFINE slug == given[i]  q == Join(r, slug)
  <1>1. CASE slug \in List!Slugs(r.models)
    BY <1>1 DEF Join
  <1>2. CASE slug \notin List!Slugs(r.models)
    <2> DEFINE n == Len(r.models)  bare == List!Bare(slug, r.next)
    <2>1. /\ r.models \in Seq(Model) /\ r.next \in Int /\ n \in Nat
          /\ slug \in ExtraSlug /\ slug \in List!ToSet(given)
      <3>1. r \in [models : Seq(Model), next : Int]
        BY DEF Joins
      <3>2. i \in DOMAIN given /\ given[i] \in ExtraSlug
        OBVIOUS
      <3>3. given[i] \in List!ToSet(given)
        BY <3>2 DEF List!ToSet
      <3> QED
        BY <3>1, <3>2, <3>3
    <2>2. bare \in Model /\ bare.slug = slug
      BY <2>1 DEF List!Bare, Model, ExtraSlug, Tiers
    <2>3. q = [models |-> Append(r.models, bare), next |-> List!Next64(r.next)]
      BY <1>2 DEF Join
    <2> HIDE DEF bare, q
    <2>4. /\ q.models \in Seq(Model) /\ Len(q.models) = n + 1
          /\ q.models[n + 1] = bare /\ \A k \in 1..n : q.models[k] = r.models[k]
      BY <2>1, <2>2, <2>3, AppendProperties
    <2>5. q \in [models : Seq(Model), next : Int]
      BY <2>1, <2>3, <2>4, NextIsInt
    <2>6. /\ Len(base) \in Nat /\ Len(base) <= n
          /\ \A k \in 1..Len(base) : r.models[k] = base[k]
          /\ \A k, l \in 1..n : r.models[k].slug = r.models[l].slug => k = l
          /\ \A k \in 1..n : k > Len(base) => r.models[k].slug \in List!ToSet(given)
      BY DEF Joins
    <2>7. \A k \in 1..n : r.models[k].slug # slug
      BY <1>2, <2>1, SlugsAre
    <2>8. \A k \in 1..(n + 1) : k \in 1..n \/ k = n + 1
      BY <2>1
    <2>9. \A k \in 1..Len(base) : q.models[k] = base[k]
      BY <2>1, <2>4, <2>6
    <2>10. \A k, l \in 1..(n + 1) : q.models[k].slug = q.models[l].slug => k = l
      BY ZenonT(40), <2>2, <2>4, <2>6, <2>7, <2>8
    <2>11. \A k \in 1..(n + 1) : k > Len(base) => q.models[k].slug \in List!ToSet(given)
      BY <2>1, <2>2, <2>4, <2>6, <2>8
    <2>12. q \in Joins(base, given)
      BY <2>1, <2>4, <2>5, <2>6, <2>9, <2>10, <2>11 DEF Joins
    <2>13. /\ List!Slugs(q.models) = {q.models[k].slug : k \in 1..(n + 1)}
           /\ List!Slugs(r.models) = {r.models[k].slug : k \in 1..n}
      BY <2>1, <2>4, SlugsAre
    <2>14. n + 1 \in 1..(n + 1) /\ 1..n \subseteq 1..(n + 1)
      BY <2>1
    <2> HIDE DEF n
    <2>15. List!Slugs(r.models) \subseteq List!Slugs(q.models)
      BY <2>4, <2>13, <2>14
    <2>16. slug \in List!Slugs(q.models)
      BY <2>2, <2>4, <2>13, <2>14
    <2> QED
      BY <2>12, <2>15, <2>16 DEF q
  <1> QED
    BY <1>1, <1>2

\* What is served: the list, and behind it the extra models that it lacks.
LEMMA ExtrasFollow ==
    ASSUME NEW base, NEW given, base \in Seq(Model), given \in Seq(ExtraSlug),
           \A i, j \in 1..Len(base) : base[i].slug = base[j].slug => i = j
    PROVE  LET ms == List!WithExtras(base, given) IN
           /\ ms \in Seq(Model) /\ Len(base) <= Len(ms)
           /\ \A i \in 1..Len(base) : ms[i] = base[i]
           /\ \A i, j \in 1..Len(ms) : ms[i].slug = ms[j].slug => i = j
           /\ \A i \in 1..Len(ms) : i > Len(base) => ms[i].slug \in List!ToSet(given)
           /\ List!ToSet(given) \subseteq List!Slugs(ms)
  <1> DEFINE n == Len(given)
             V == Joins(base, given)
             b == [models |-> base, next |-> List!Next64(List!Highest(base))]
             step == [i \in 1..n |-> [r \in V |-> Join(r, given[i])]]
             Body(g) == [i \in 0..n |-> IF i = 0 THEN b ELSE Join(g[i - 1], given[i])]
             F == CHOOSE g : g = Body(g)
  <1>1. n \in Nat
    OBVIOUS
  <1>2. b \in V
    <2>1. List!Highest(base) \in Int
      <3>1. CASE base = <<>>
        BY <3>1 DEF List!Highest
      <3>2. CASE base # <<>>
        <4> DEFINE ps == {base[i].priority : i \in DOMAIN base}
        <4>1. DOMAIN base = 1..Len(base) /\ Len(base) \in Nat /\ Len(base) # 0
              /\ \A i \in 1..Len(base) : base[i] \in Model
          BY <3>2
        <4>2. \A i \in 1..Len(base) : base[i].priority \in Int
          BY <4>1 DEF Model
        <4>3. \E p \in ps : \A i \in DOMAIN base : base[i].priority <= p
          <5> DEFINE pr == [i \in 1..Len(base) |-> base[i].priority]
                     Top(k) == \E m \in 1..k : \A i \in 1..k : pr[i] <= pr[m]
                     S == {k \in Nat : k + 1 <= Len(base) => Top(k + 1)}
          <5>1. \A i \in 1..Len(base) : pr[i] = base[i].priority /\ pr[i] \in Int
            BY <4>2
          <5> HIDE DEF pr
          <5>2. 0 \in S
            BY <5>1, <4>1
          <5>3. ASSUME NEW k \in S
                PROVE  k + 1 \in S
            <6>1. k \in Nat /\ (k + 1 <= Len(base) => Top(k + 1))
              OBVIOUS
            <6>2. ASSUME (k + 1) + 1 <= Len(base)
                  PROVE  Top((k + 1) + 1)
              <7> DEFINE l == (k + 1) + 1
              <7>1. PICK m \in 1..(k + 1) : \A i \in 1..(k + 1) : pr[i] <= pr[m]
                BY <4>1, <6>1, <6>2
              <7>2. \A i \in 1..l : i \in 1..Len(base) /\ (i \in 1..(k + 1) \/ i = l)
                BY <4>1, <6>1, <6>2
              <7>3. m \in 1..l /\ l \in 1..l
                BY <6>1
              <7> HIDE DEF l
              <7>4. \A i \in 1..l : pr[i] \in Int
                BY <5>1, <7>2
              <7>5. CASE pr[l] <= pr[m]
                <8>1. \A i \in 1..l : pr[i] <= pr[m]
                  BY <7>1, <7>2, <7>5
                <8> QED
                  BY <7>3, <8>1 DEF l
              <7>6. CASE ~(pr[l] <= pr[m])
                <8>1. pr[m] <= pr[l] /\ pr[l] <= pr[l] /\ pr[m] \in Int /\ pr[l] \in Int
                  BY <7>3, <7>4, <7>6
                <8>2. \A i \in 1..l : pr[i] <= pr[l]
                  BY <7>1, <7>2, <7>4, <8>1
                <8> QED
                  BY <7>3, <8>2 DEF l
              <7> QED
                BY <7>5, <7>6
            <6> QED
              BY <6>1, <6>2
          <5>4. S = Nat
            <6>1. S \in SUBSET Nat
              OBVIOUS
            <6> HIDE DEF S
            <6> QED
              BY <5>2, <5>3, <6>1, EveryNat
          <5>5. Len(base) - 1 \in Nat /\ (Len(base) - 1) + 1 = Len(base)
            BY <4>1
          <5>6. Len(base) - 1 \in S
            BY <5>4, <5>5
          <5>7. Top((Len(base) - 1) + 1)
            BY <5>5, <5>6
          <5>8. PICK m \in 1..Len(base) : \A i \in 1..Len(base) : pr[i] <= pr[m]
            BY <5>5, <5>7
          <5> QED
            BY <4>1, <5>1, <5>8
        <4>4. ps \subseteq Int
          BY <4>1, <4>2
        <4>5. List!Highest(base) \in ps
          BY <3>2, <4>3 DEF List!Highest
        <4> QED
          BY <4>4, <4>5
      <3> QED
        BY <3>1, <3>2
    <2>2. List!Next64(List!Highest(base)) \in Int
      BY <2>1, NextIsInt
    <2> QED
      BY <2>2 DEF Joins
  <1>3. \A r \in V : \A i \in 1..n :
            /\ Join(r, given[i]) \in V
            /\ List!Slugs(r.models) \subseteq List!Slugs(Join(r, given[i]).models)
            /\ given[i] \in List!Slugs(Join(r, given[i]).models)
    BY JoinKeeps
  <1>4. List!WithExtras(base, given) = F[n].models
    BY DEF List!WithExtras, Join
  <1> HIDE DEF V, b
  <1>5. step \in [1..n -> [V -> V]]
    BY <1>3
  <1>6. PICK f : f \in [0..n -> V] /\ f[0] = b
                 /\ \A i \in 1..n : f[i] = Join(f[i - 1], given[i])
    <2>1. PICK f : f \in [0..n -> V] /\ f[0] = b
                   /\ \A i \in 1..n : f[i] = step[i][f[i - 1]]
      <3>1. n \in Nat /\ b \in V /\ step \in [1..n -> [V -> V]]
        BY <1>1, <1>2, <1>5
      <3> HIDE DEF step, n
      <3>2. \E f \in [0..n -> V] : f[0] = b /\ \A i \in 1..n : f[i] = step[i][f[i - 1]]
        BY ONLY <3>1, Recursion
      <3> QED
        BY <3>2
    <2>2. ASSUME NEW i \in 1..n
          PROVE  f[i] = Join(f[i - 1], given[i])
      <3>1. i - 1 \in 0..n
        BY <1>1
      <3>2. f[i - 1] \in V
        BY <2>1, <3>1
      <3> QED
        BY <2>1, <3>2
    <2> QED
      BY <2>1, <2>2
  <1>7. F[n] = f[n]
    <2>1. ASSUME NEW i \in 0..n
          PROVE  f[i] = Body(f)[i]
      <3>1. CASE i = 0
        BY <1>6, <3>1
      <3>2. CASE i # 0
        <4>1. i \in 1..n
          BY <1>1, <3>2
        <4> QED
          BY <1>6, <3>2, <4>1
      <3> QED
        BY <3>1, <3>2
    <2>2. f = Body(f)
      <3>1. f = [i \in 0..n |-> f[i]]
        BY <1>6
      <3>2. Body(f) = [i \in 0..n |-> Body(f)[i]]
        OBVIOUS
      <3> HIDE DEF Body
      <3> QED
        BY <2>1, <3>1, <3>2
    <2>3. F = Body(F)
      <3> HIDE DEF Body
      <3> QED
        BY <2>2
    <2> HIDE DEF F
    <2>4. F[0] = b /\ \A i \in 1..n : F[i] = Join(F[i - 1], given[i])
      <3>1. \A i \in 0..n : F[i] = Body(F)[i]
        BY <2>3
      <3>2. 0 \in 0..n /\ \A i \in 1..n : i \in 0..n /\ i # 0
        BY <1>1
      <3> QED
        BY <3>1, <3>2
    <2>5. \A i \in 0..n : f[i] = F[i]
      <3>1. f[0] = F[0]
        BY <1>6, <2>4
      <3>2. \A i \in 1..n : f[i - 1] = F[i - 1] => f[i] = F[i]
        BY <1>6, <2>4
      <3> HIDE DEF n
      <3> QED
        BY ONLY <1>1, <3>1, <3>2, SameRecursion
    <2> QED
      BY <1>1, <2>5
  <1> HIDE DEF Body, F, step
  <1>8. \A i \in 0..n : \A j \in 1..i : given[j] \in List!Slugs(f[i].models)
    <2> DEFINE Done(i) == \A j \in 1..i : given[j] \in List!Slugs(f[i].models)
               S == {i \in Nat : i <= n => Done(i)}
    <2>1. 0 \in S
      OBVIOUS
    <2>2. ASSUME NEW i \in S
          PROVE  i + 1 \in S
      <3>1. SUFFICES ASSUME i + 1 <= n
                     PROVE  Done(i + 1)
        OBVIOUS
      <3>2. i \in 0..n /\ i + 1 \in 1..n /\ (i + 1) - 1 = i /\ Done(i)
        BY <1>1, <3>1
      <3>3. f[i + 1] = Join(f[i], given[i + 1]) /\ f[i] \in V
        BY <1>6, <3>2
      <3>4. /\ List!Slugs(f[i].models) \subseteq List!Slugs(f[i + 1].models)
            /\ given[i + 1] \in List!Slugs(f[i + 1].models)
        BY <1>3, <3>2, <3>3
      <3>5. \A j \in 1..(i + 1) : j \in 1..i \/ j = i + 1
        BY <3>2
      <3> QED
        BY <3>2, <3>4, <3>5
    <2> HIDE DEF Done
    <2>3. S \in SUBSET Nat
      OBVIOUS
    <2> HIDE DEF S
    <2>4. S = Nat
      BY <2>1, <2>2, <2>3, EveryNat
    <2> QED
      BY <1>1, <2>4 DEF S, Done
  <1>9. n \in 0..n /\ f[n] \in V
    BY <1>1, <1>6
  <1>10. List!ToSet(given) \subseteq List!Slugs(f[n].models)
    <2>1. \A j \in 1..n : given[j] \in List!Slugs(f[n].models)
      BY <1>8, <1>9
    <2> QED
      BY <2>1 DEF List!ToSet
  <1> HIDE DEF n
  <1> QED
    BY <1>4, <1>7, <1>9, <1>10 DEF V, Joins

\* The extra models are names, none of them empty.
LEMMA ExtrasAreSlugs ==
    ASSUME NEW given, given \in Extras
    PROVE  List!ParseExtraModels(given) \in Seq(ExtraSlug)
  <1> DEFINE n == Len(given)
             V == Seq(ExtraSlug)
             b == <<>>
             Step(s, i) == IF given[i] = "" \/ List!Contains(s, given[i]) THEN s
                           ELSE Append(s, given[i])
             step == [i \in 1..n |-> [s \in V |-> Step(s, i)]]
             Body(g) == [i \in 0..n |-> IF i = 0 THEN b
                             ELSE IF given[i] = "" \/ List!Contains(g[i - 1], given[i])
                                  THEN g[i - 1]
                             ELSE Append(g[i - 1], given[i])]
             F == CHOOSE g : g = Body(g)
  <1>0. n \in Nat
    BY ListAssumption
  <1>1. n \in Nat /\ \A i \in 1..n : given[i] = "" \/ given[i] \in ExtraSlug
    <2>1. given \in Seq(List!ToSet(given)) /\ Absent \notin List!ToSet(given)
      BY ListAssumption
    <2>2. n \in Nat /\ \A i \in 1..n : given[i] \in List!ToSet(given)
      BY <2>1
    <2>3. List!ToSet(given) \subseteq Slug
      <3>1. List!ToSet(given) \in {List!ToSet(e) : e \in Extras}
        OBVIOUS
      <3> QED
        BY <3>1 DEF Slug
    <2> QED
      BY <2>1, <2>2, <2>3 DEF ExtraSlug
  <1>2. b \in V
    BY EmptySeq
  <1>3. ASSUME NEW s \in V, NEW i \in 1..n
        PROVE  Step(s, i) \in V
    <2>1. CASE given[i] = "" \/ List!Contains(s, given[i])
      BY <2>1
    <2>2. CASE ~(given[i] = "" \/ List!Contains(s, given[i]))
      <3>1. given[i] \in ExtraSlug
        BY <1>1, <2>2
      <3> QED
        BY <2>2, <3>1, AppendProperties
    <2> QED
      BY <2>1, <2>2
  <1>4. List!ParseExtraModels(given) = F[n]
    BY DEF List!ParseExtraModels
  <1> HIDE DEF V, b, n
  <1>5. step \in [1..n -> [V -> V]]
    <2> HIDE DEF Step
    <2> QED
      BY <1>3
  <1>6. PICK f : f \in [0..n -> V] /\ f[0] = b
                 /\ \A i \in 1..n : f[i] = Step(f[i - 1], i)
    <2> HIDE DEF Step
    <2>1. PICK f : f \in [0..n -> V] /\ f[0] = b
                   /\ \A i \in 1..n : f[i] = step[i][f[i - 1]]
      <3>1. n \in Nat /\ b \in V /\ step \in [1..n -> [V -> V]]
        BY <1>0, <1>2, <1>5
      <3> HIDE DEF step
      <3>2. \E f \in [0..n -> V] : f[0] = b /\ \A i \in 1..n : f[i] = step[i][f[i - 1]]
        BY ONLY <3>1, Recursion
      <3> QED
        BY <3>2
    <2>2. ASSUME NEW i \in 1..n
          PROVE  f[i] = Step(f[i - 1], i)
      <3>1. i - 1 \in 0..n
        BY <1>0
      <3>2. f[i - 1] \in V
        BY <2>1, <3>1
      <3> QED
        BY <2>1, <3>2
    <2> QED
      BY <2>1, <2>2
  <1>7. F[n] = f[n]
    <2>1. ASSUME NEW i \in 0..n
          PROVE  f[i] = Body(f)[i]
      <3>1. CASE i = 0
        BY <1>6, <3>1
      <3>2. CASE i # 0
        <4>1. i \in 1..n
          BY <1>0, <3>2
        <4> QED
          BY <1>6, <3>2, <4>1
      <3> QED
        BY <3>1, <3>2
    <2>2. f = Body(f)
      <3>1. f = [i \in 0..n |-> f[i]]
        BY <1>6
      <3>2. Body(f) = [i \in 0..n |-> Body(f)[i]]
        OBVIOUS
      <3> HIDE DEF Body
      <3> QED
        BY <2>1, <3>1, <3>2
    <2>3. F = Body(F)
      <3> HIDE DEF Body
      <3> QED
        BY <2>2
    <2> HIDE DEF F
    <2>4. F[0] = b /\ \A i \in 1..n : F[i] = Step(F[i - 1], i)
      <3>1. \A i \in 0..n : F[i] = Body(F)[i]
        BY <2>3
      <3>2. 0 \in 0..n /\ \A i \in 1..n : i \in 0..n /\ i # 0
        BY <1>0
      <3> QED
        BY <3>1, <3>2
    <2> HIDE DEF Step
    <2>5. \A i \in 0..n : f[i] = F[i]
      <3>1. f[0] = F[0]
        BY <1>6, <2>4
      <3>2. \A i \in 1..n : f[i - 1] = F[i - 1] => f[i] = F[i]
        BY <1>6, <2>4
      <3> QED
        BY ONLY <1>0, <3>1, <3>2, SameRecursion
    <2> QED
      BY <1>0, <2>5
  <1>8. n \in 0..n
    BY <1>0
  <1> QED
    BY <1>4, <1>6, <1>7, <1>8 DEF V

\* The vendor's list, and what it is served for; or the built-in one.
ListInv ==
    /\ \/ entry = <<>> /\ document = <<>>
       \/ entry # <<>> /\ document \in Documents /\ entry = List!ParseCatalog(document)
    /\ extra \in Seq(ExtraSlug)
    /\ listed # <<>> =>
         \/ from = <<>> /\ listed = List!WithExtras(List!FallbackModels, extra)
         \/ from \in Documents /\ listed = List!WithExtras(List!ParseCatalog(from), extra)

\* The list begins in the invariant.
LEMMA ListBegins == List!Init => ListInv
  BY ExtrasAreSlugs DEF ListInv, List!Init

\* Each step of the list keeps the invariant.
LEMMA ListStep ==
    ASSUME ListInv, [List!Next]_listVars
    PROVE  ListInv'
  <1>1. CASE List!Fetch
    BY <1>1 DEF List!Fetch, ListInv
  <1>2. CASE List!Retire
    BY <1>2 DEF List!Retire, ListInv
  <1>3. CASE List!Serve
    <2>1. CASE entry = <<>>
      BY <1>3, <2>1 DEF List!Serve, ListInv
    <2>2. CASE entry # <<>>
      BY <1>3, <2>2 DEF List!Serve, ListInv
    <2> QED
      BY <2>1, <2>2
  <1>4. CASE UNCHANGED listVars
    BY <1>4 DEF listVars, ListInv
  <1> QED
    BY <1>1, <1>2, <1>3, <1>4 DEF List!Next

\* What is served of a document of the vendor.
LEMMA ServedOfDocument ==
    ASSUME from \in Documents, extra \in Seq(ExtraSlug),
           listed = List!WithExtras(List!ParseCatalog(from), extra)
    PROVE  List!ServedInOrder
  <1> DEFINE U == List!Usable(from)
             N == Cardinality(U)
             base == List!ParseCatalog(from)
             Places(i) == {k \in DOMAIN from : from[k].slug = listed[i].slug}
             First(i) == CHOOSE k \in Places(i) : \A l \in Places(i) : k <= l
             vendors == {i \in DOMAIN listed : Places(i) # {}}
  <1>1. N \in Nat /\ base \in Seq(Model) /\ Len(base) = N
    BY ParsedInOrder
  <1>2. PICK g \in [1..N -> U] :
            /\ \A n \in 1..N : base[n] = List!Parsed(from[g[n]])
            /\ \A m, n \in 1..N : m < n => List!Earlier(from, g[m], g[n])
            /\ \A i \in U : \E n \in 1..N : g[n] = i
    BY ParsedInOrder
  <1>3. DOMAIN from = 1..Len(from) /\ Len(from) \in Nat /\ DOMAIN from \subseteq Nat
    <2>1. from \in Seq(List!ToSet(from))
      BY ListAssumption
    <2> QED
      BY <2>1, LenProperties
  <1>4. \A i \in U : /\ i \in DOMAIN from /\ from[i].slug \notin {Absent, ""}
                     /\ \A j \in 1..(i - 1) : from[j].slug # from[i].slug
    BY DEF List!Usable
  <1>5. ASSUME NEW k \in DOMAIN from, from[k].slug \notin {Absent, ""}
        PROVE  \E n \in 1..N : base[n].slug = from[k].slug
    <2> DEFINE K == {i \in DOMAIN from : from[i].slug = from[k].slug}
    <2>1. K \subseteq Nat /\ K # {}
      BY <1>3
    <2>2. PICK i \in K : \A j \in K : i <= j
      <3> HIDE DEF K
      <3> QED
        BY <2>1, LeastNat
    <2>3. \A j \in 1..(i - 1) : j \in DOMAIN from /\ ~(i <= j)
      BY <1>3
    <2>4. i \in U
      BY <1>5, <2>2, <2>3 DEF List!Usable
    <2>5. PICK n \in 1..N : g[n] = i
      BY <1>2, <2>4
    <2>6. base[n].slug = from[i].slug
      BY <1>2, <2>5, ParsedIsModel
    <2> QED
      BY <2>5, <2>6
  <1>6. \A n \in 1..N : /\ g[n] \in U /\ g[n] \in DOMAIN from
                        /\ base[n].slug = from[g[n]].slug
                        /\ base[n].priority = List!Parsed(from[g[n]]).priority
    <2> SUFFICES ASSUME NEW n \in 1..N
                 PROVE  /\ g[n] \in U /\ g[n] \in DOMAIN from
                        /\ base[n].slug = from[g[n]].slug
                        /\ base[n].priority = List!Parsed(from[g[n]]).priority
      OBVIOUS
    <2>1. g[n] \in U /\ base[n] = List!Parsed(from[g[n]])
      BY <1>2
    <2>2. g[n] \in DOMAIN from
      BY <1>4, <2>1
    <2>3. List!Parsed(from[g[n]]).slug = from[g[n]].slug
      BY <2>2, ParsedIsModel
    <2> QED
      BY <2>1, <2>2, <2>3
  <1>7. \A m, n \in 1..N : base[m].slug = base[n].slug => m = n
    <2> SUFFICES ASSUME NEW m \in 1..N, NEW n \in 1..N, base[m].slug = base[n].slug
                 PROVE  m = n
      OBVIOUS
    <2>1. from[g[m]].slug = from[g[n]].slug /\ g[m] \in U /\ g[n] \in U
      BY <1>6
    <2>2. g[m] \in Nat /\ g[n] \in Nat /\ g[m] >= 1 /\ g[n] >= 1
      BY <1>3, <1>6
    <2>3. ~(g[m] < g[n]) /\ ~(g[n] < g[m])
      <3>1. g[m] < g[n] => g[m] \in 1..(g[n] - 1)
        BY <2>2
      <3>2. g[n] < g[m] => g[n] \in 1..(g[m] - 1)
        BY <2>2
      <3> QED
        BY <1>4, <2>1, <3>1, <3>2
    <2>4. g[m] = g[n]
      BY <2>2, <2>3
    <2>5. ~(m < n) /\ ~(n < m)
      BY <1>2, <1>6, <2>4, EarlierOrders
    <2> QED
      BY <1>1, <2>5
  <1> HIDE DEF base, U, N
  <1>8. /\ listed \in Seq(Model) /\ N <= Len(listed)
        /\ \A i \in 1..N : listed[i] = base[i]
        /\ \A i, j \in 1..Len(listed) : listed[i].slug = listed[j].slug => i = j
        /\ \A i \in 1..Len(listed) : i > N => listed[i].slug \in List!ToSet(extra)
        /\ List!ToSet(extra) \subseteq List!Slugs(listed)
    <2>1. \A m, n \in 1..Len(base) : base[m].slug = base[n].slug => m = n
      BY <1>1, <1>7
    <2>2. listed = List!WithExtras(base, extra)
      BY DEF base
    <2> QED
      BY SMTT(30), <1>1, <2>1, <2>2, ExtrasFollow
  <1>9. DOMAIN listed = 1..Len(listed) /\ Len(listed) \in Nat
    BY <1>8
  <1>10. 1..N \subseteq 1..Len(listed)
    <2>1. N \in Nat /\ Len(listed) \in Nat /\ N <= Len(listed)
      BY <1>1, <1>8, <1>9
    <2> QED
      BY <2>1
  <1>11. ASSUME NEW i \in DOMAIN listed
         PROVE  i \in vendors <=> i <= N
    <2>1. ASSUME i <= N
          PROVE  Places(i) # {}
      <3>1. i \in 1..N
        BY <1>9, <2>1
      <3> QED
        BY <1>6, <1>8, <3>1
    <2>2. ASSUME i > N, NEW k \in Places(i)
          PROVE  FALSE
      <3>1. listed[i].slug \in List!ToSet(extra)
        BY <1>8, <1>9, <2>2
      <3>2. listed[i].slug \notin {Absent, ""}
        <4>1. List!ToSet(extra) \subseteq ExtraSlug
          BY DEF List!ToSet
        <4> QED
          BY <3>1, <4>1 DEF ExtraSlug
      <3>3. PICK n \in 1..N : base[n].slug = listed[i].slug
        BY <1>5, <2>2, <3>2
      <3>4. n \in 1..Len(listed) /\ listed[n].slug = listed[i].slug
        BY <1>1, <1>8, <1>9, <3>3
      <3>5. n = i
        BY <1>8, <1>9, <3>4
      <3> QED
        BY <1>1, <2>2, <3>5
    <2> QED
      BY <1>1, <1>9, <2>1, <2>2
  <1>12. ASSUME NEW i \in 1..N
         PROVE  First(i) = g[i] /\ listed[i].priority = List!Parsed(from[g[i]]).priority
    <2>1. listed[i].slug = from[g[i]].slug /\ listed[i].priority = List!Parsed(from[g[i]]).priority
      BY <1>6, <1>8
    <2>2. g[i] \in Places(i) /\ Places(i) \subseteq Nat
      BY <1>3, <1>6, <2>1
    <2>3. \A l \in Places(i) : g[i] <= l
      <3> SUFFICES ASSUME NEW l \in Places(i), ~(g[i] <= l)
                   PROVE  FALSE
        OBVIOUS
      <3>1. l \in 1..(g[i] - 1)
        BY <1>3, <1>6
      <3>2. from[l].slug = from[g[i]].slug
        BY <2>1
      <3> QED
        BY <1>4, <1>6, <3>1, <3>2
    <2> HIDE DEF Places
    <2>4. \A k \in Places(i) : (\A l \in Places(i) : k <= l) => k = g[i]
      BY <2>2, <2>3
    <2>5. First(i) = g[i]
      BY <2>2, <2>3, <2>4
    <2> QED
      BY <2>1, <2>5
  <1>13. List!Slugs(from) \ {Absent, ""} \subseteq List!Slugs(listed)
    <2> SUFFICES ASSUME NEW k \in DOMAIN from, from[k].slug \notin {Absent, ""}
                 PROVE  from[k].slug \in List!Slugs(listed)
      BY DEF List!Slugs
    <2>1. PICK n \in 1..N : base[n].slug = from[k].slug
      BY <1>5
    <2>2. n \in DOMAIN listed /\ listed[n].slug = from[k].slug
      <3>1. n \in 1..Len(listed)
        BY <1>10
      <3>2. listed[n] = base[n]
        BY <1>8, <2>1
      <3> QED
        BY <1>9, <2>1, <3>1, <3>2
    <2> QED
      BY <2>2 DEF List!Slugs
  <1>14. ASSUME NEW i \in vendors, NEW j \in DOMAIN listed
         PROVE  /\ j \notin vendors => i < j
                /\ j \in vendors /\ i < j =>
                     \/ listed[i].priority < listed[j].priority
                     \/ listed[i].priority = listed[j].priority /\ First(i) < First(j)
    <2>1. i \in 1..N
      BY <1>1, <1>9, <1>11
    <2>2. CASE j \notin vendors
      <3>1. ~(j <= N)
        BY <1>11, <2>2
      <3> QED
        BY <1>1, <1>9, <2>1, <2>2, <3>1
    <2>3. CASE j \in vendors /\ i < j
      <3>1. j \in 1..N
        BY <1>1, <1>9, <1>11, <2>3
      <3>2. List!Earlier(from, g[i], g[j])
        BY <1>2, <2>1, <2>3, <3>1
      <3> HIDE DEF First
      <3> QED
        BY <1>12, <2>1, <2>3, <3>1, <3>2 DEF List!Earlier
    <2> QED
      BY <2>2, <2>3
  <1>15. /\ \A i, j \in DOMAIN listed : listed[i].slug = listed[j].slug => i = j
         /\ List!ToSet(extra) \subseteq List!Slugs(listed)
         /\ List!Slugs(from) \ {Absent, ""} \subseteq List!Slugs(listed)
    BY <1>8, <1>9, <1>13
  <1>16. \A i \in vendors, j \in DOMAIN listed :
              /\ j \notin vendors => i < j
              /\ j \in vendors /\ i < j =>
                     \/ listed[i].priority < listed[j].priority
                     \/ listed[i].priority = listed[j].priority /\ First(i) < First(j)
    BY <1>14
  <1> QED
    BY <1>15, <1>16 DEF List!ServedInOrder

\* What is served when there is none.
LEMMA ServedOfFallback ==
    ASSUME extra \in Seq(ExtraSlug),
           from = <<>>, listed = List!WithExtras(List!FallbackModels, extra)
    PROVE  List!ServedInOrder
  <1> DEFINE base == List!FallbackModels
  <1>1. base \in Seq(Model) /\ Len(base) = Len(Fallback)
        /\ \A i \in 1..Len(base) : base[i].slug = Fallback[i]
    <2>1. Fallback \in Seq(List!ToSet(Fallback))
      BY ListAssumption
    <2>2. Len(Fallback) \in Nat /\ DOMAIN Fallback = 1..Len(Fallback)
      BY <2>1
    <2>3. ASSUME NEW i \in 1..Len(Fallback)
          PROVE  List!Bare(Fallback[i], i - 1) \in Model
                 /\ List!Bare(Fallback[i], i - 1).slug = Fallback[i]
      <3>1. Fallback[i] \in List!ToSet(Fallback)
        BY <2>1, <2>2
      <3>2. Fallback[i] \in Slug
        BY <3>1 DEF Slug
      <3>3. i - 1 \in Int
        BY <2>2
      <3> DEFINE p == i - 1
      <3> HIDE DEF p
      <3> QED
        BY <3>2, <3>3 DEF p, List!Bare, Model, Tiers
    <2>4. base = [i \in 1..Len(Fallback) |-> List!Bare(Fallback[i], i - 1)]
      BY <2>2 DEF List!FallbackModels
    <2> QED
      BY <2>2, <2>3, <2>4
  <1>2. \A i, j \in 1..Len(base) : base[i].slug = base[j].slug => i = j
    <2>1. DOMAIN Fallback = 1..Len(Fallback)
      BY ListAssumption
    <2> HIDE DEF base
    <2> QED
      BY <1>1, <2>1, ListAssumption
  <1>3. /\ listed \in Seq(Model)
        /\ \A i, j \in 1..Len(listed) : listed[i].slug = listed[j].slug => i = j
        /\ List!ToSet(extra) \subseteq List!Slugs(listed)
    <2> HIDE DEF base
    <2>1. listed = List!WithExtras(base, extra)
      BY DEF base
    <2>2. base \in Seq(Model) /\ extra \in Seq(ExtraSlug)
      BY <1>1
    <2> DEFINE ms == List!WithExtras(base, extra)
    <2>3. /\ ms \in Seq(Model)
          /\ \A i, j \in 1..Len(ms) : ms[i].slug = ms[j].slug => i = j
          /\ List!ToSet(extra) \subseteq List!Slugs(ms)
      <3> HIDE DEF ms
      <3>1. /\ ms \in Seq(Model) /\ Len(base) <= Len(ms)
            /\ \A i \in 1..Len(base) : ms[i] = base[i]
            /\ \A i, j \in 1..Len(ms) : ms[i].slug = ms[j].slug => i = j
            /\ \A i \in 1..Len(ms) : i > Len(base) => ms[i].slug \in List!ToSet(extra)
            /\ List!ToSet(extra) \subseteq List!Slugs(ms)
        BY ONLY <1>2, <2>2, ExtrasFollow DEF ms
      <3> QED
        BY ONLY <3>1
    <2> HIDE DEF ms
    <2>4. listed = ms
      BY <2>1 DEF ms
    <2> QED
      BY ONLY <2>3, <2>4
  <1>4. DOMAIN listed = 1..Len(listed) /\ DOMAIN from = {} /\ List!Slugs(from) = {}
    BY <1>3 DEF List!Slugs
  <1> QED
    BY <1>3, <1>4 DEF List!ServedInOrder

\* What is served is in order.
LEMMA ServedAsListed == ListInv => List!ServedInOrder
  <1> SUFFICES ASSUME ListInv, listed # <<>>
               PROVE  List!ServedInOrder
    BY DEF List!ServedInOrder
  <1>1. extra \in Seq(ExtraSlug)
    BY DEF ListInv
  <1>2. CASE from = <<>> /\ listed = List!WithExtras(List!FallbackModels, extra)
    BY <1>1, <1>2, ServedOfFallback
  <1>3. CASE from \in Documents /\ listed = List!WithExtras(List!ParseCatalog(from), extra)
    BY <1>1, <1>3, ServedOfDocument
  <1> QED
    BY <1>2, <1>3 DEF ListInv

-----------------------------------------------------------------------------
(* The stream.                                                               *)

StreamChars == StreamBytes \cup {Stream!Replaced}
Decodings == [text : Seq(StreamChars), rest : Seq(StreamBytes)]

\* A round of the loop.
Round(r) == IF Stream!Held(r.rest) THEN r ELSE Stream!Decoded(r)

\* A character has at most two more bytes than its first.
LEMMA NeedsFew == \A x : Stream!Needs(x) \in {0, 1, 2, 3}
  BY DEF Stream!Needs

\* The bytes that follow the first are counted up to the first that does not follow.
LEMMA FollowIs ==
    ASSUME NEW s, s \in Seq(StreamBytes), s # <<>>
    PROVE  LET k == Stream!Follow(s) IN
           /\ k \in 0..Stream!Needs(s[1]) /\ k \in Nat /\ 1 + k <= Len(s)
           /\ \A j \in 1..k : s[1 + j] = "c"
           /\ k < Stream!Needs(s[1]) /\ 2 + k <= Len(s) => s[2 + k] # "c"
  <1> DEFINE need == Stream!Needs(s[1])
             Has(k) == 1 + k <= Len(s) /\ \A j \in 1..k : s[1 + j] = "c"
             Fits(k) == Has(k) /\ \A m \in (k + 1)..need : ~Has(m)
  <1>1. need \in {0, 1, 2, 3} /\ Len(s) \in Nat /\ Len(s) # 0
    BY NeedsFew
  <1> HIDE DEF need
  <1>2. Has(0)
    BY <1>1
  <1>3. \E k \in 0..need : Fits(k)
    <2>1. CASE need = 0
      <3>1. Fits(0) /\ 0 \in 0..need
        BY <1>2, <2>1
      <3> QED
        BY <3>1
    <2>2. CASE need # 0 /\ Has(need)
      <3>1. Fits(need) /\ need \in 0..need
        BY <1>1, <2>2
      <3> QED
        BY <3>1
    <2>3. CASE need = 1 /\ ~Has(1)
      <3>1. \A m \in (0 + 1)..need : m = 1
        BY <2>3
      <3>2. Fits(0) /\ 0 \in 0..need
        BY <1>2, <2>3, <3>1
      <3> QED
        BY <3>2
    <2>4. CASE need = 2 /\ ~Has(2) /\ Has(1)
      <3>1. \A m \in (1 + 1)..need : m = 2
        BY <2>4
      <3>2. Fits(1) /\ 1 \in 0..need
        BY <1>2, <2>4, <3>1
      <3> QED
        BY <3>2
    <2>5. CASE need = 2 /\ ~Has(1) /\ ~Has(2)
      <3>1. \A m \in (0 + 1)..need : m = 1 \/ m = 2
        BY <2>5
      <3>2. Fits(0) /\ 0 \in 0..need
        BY <1>2, <2>5, <3>1
      <3> QED
        BY <3>2
    <2>6. CASE need = 3 /\ ~Has(3) /\ Has(2)
      <3>1. \A m \in (2 + 1)..need : m = 3
        BY <2>6
      <3>2. Fits(2) /\ 2 \in 0..need
        BY <1>2, <2>6, <3>1
      <3> QED
        BY <3>2
    <2>7. CASE need = 3 /\ ~Has(2) /\ ~Has(3) /\ Has(1)
      <3>1. \A m \in (1 + 1)..need : m = 2 \/ m = 3
        BY <2>7
      <3>2. Fits(1) /\ 1 \in 0..need
        BY <1>2, <2>7, <3>1
      <3> QED
        BY <3>2
    <2>8. CASE need = 3 /\ ~Has(1) /\ ~Has(2) /\ ~Has(3)
      <3>1. \A m \in (0 + 1)..need : m = 1 \/ m = 2 \/ m = 3
        BY <2>8
      <3>2. Fits(0) /\ 0 \in 0..need
        BY <1>2, <2>8, <3>1
      <3> QED
        BY <3>2
    <2> QED
      BY <1>1, <2>1, <2>2, <2>3, <2>4, <2>5, <2>6, <2>7, <2>8
  <1>4. Stream!Follow(s) = CHOOSE k \in 0..need : Fits(k)
    BY DEF Stream!Follow, need
  <1> DEFINE k == Stream!Follow(s)
  <1> HIDE DEF Fits
  <1>5. k \in 0..need /\ Fits(k)
    BY <1>3, <1>4
  <1> HIDE DEF k
  <1>6. k \in Nat /\ Has(k)
    BY <1>1, <1>5 DEF Fits
  <1>7. ASSUME k < need, 2 + k <= Len(s)
        PROVE  s[2 + k] # "c"
    <2>1. k + 1 \in (k + 1)..need
      BY <1>1, <1>6, <1>7
    <2>2. ~Has(k + 1)
      BY <1>5, <2>1 DEF Fits
    <2>3. 1 + (k + 1) = 2 + k /\ \A j \in 1..(k + 1) : j \in 1..k \/ j = k + 1
      BY <1>6
    <2> QED
      BY <1>6, <1>7, <2>2, <2>3
  <1> QED
    BY <1>5, <1>6, <1>7 DEF k, need

\* That is the only number of which this holds.
LEMMA FollowOnly ==
    ASSUME NEW s, s \in Seq(StreamBytes), s # <<>>, NEW k \in Nat,
           k <= Stream!Needs(s[1]), 1 + k <= Len(s), \A j \in 1..k : s[1 + j] = "c",
           k < Stream!Needs(s[1]) => 2 + k <= Len(s) /\ s[2 + k] # "c"
    PROVE  Stream!Follow(s) = k
  <1> DEFINE l == Stream!Follow(s)
  <1>1. /\ l \in Nat /\ l <= Stream!Needs(s[1]) /\ 1 + l <= Len(s)
        /\ \A j \in 1..l : s[1 + j] = "c"
        /\ l < Stream!Needs(s[1]) /\ 2 + l <= Len(s) => s[2 + l] # "c"
        /\ Len(s) \in Nat /\ Stream!Needs(s[1]) \in Nat
    BY FollowIs, NeedsFew
  <1> HIDE DEF l
  <1>2. ~(k < l)
    <2> SUFFICES ASSUME k < l
                 PROVE  FALSE
      OBVIOUS
    <2>1. k + 1 \in 1..l /\ 1 + (k + 1) = 2 + k /\ k < Stream!Needs(s[1])
      BY <1>1
    <2> QED
      BY <1>1, <2>1
  <1>3. ~(l < k)
    <2> SUFFICES ASSUME l < k
                 PROVE  FALSE
      OBVIOUS
    <2>1. l + 1 \in 1..k /\ 1 + (l + 1) = 2 + l /\ l < Stream!Needs(s[1]) /\ 2 + l <= Len(s)
      BY <1>1
    <2>2. s[2 + l] = "c"
      BY <2>1
    <2> QED
      BY <1>1, <2>1, <2>2
  <1>4. l = k
    BY <1>1, <1>2, <1>3
  <1> QED
    BY <1>4 DEF l

\* What follows a byte that is not held back makes no difference to it.
LEMMA FollowStays ==
    ASSUME NEW s, s \in Seq(StreamBytes), ~Stream!Held(s), NEW t, t \in Seq(StreamBytes)
    PROVE  LET k == Stream!Follow(s) IN
           /\ s # <<>> /\ k \in Nat /\ 1 + k <= Len(s)
           /\ ~Stream!Held(s \o t) /\ Stream!Char(s \o t) = Stream!Char(s)
           /\ SubSeq(s \o t, 2 + Stream!Follow(s \o t), Len(s \o t))
                = SubSeq(s, 2 + k, Len(s)) \o t
           /\ SubSeq(s, 2 + k, Len(s)) \in Seq(StreamBytes)
           /\ Len(SubSeq(s, 2 + k, Len(s))) < Len(s)
           /\ Stream!Char(s) \in StreamChars
  <1> DEFINE k == Stream!Follow(s)  st == s \o t
  <1>1. /\ s # <<>> /\ k \in Nat /\ k <= Stream!Needs(s[1]) /\ 1 + k <= Len(s)
        /\ \A j \in 1..k : s[1 + j] = "c"
        /\ k < Stream!Needs(s[1]) => 2 + k <= Len(s) /\ s[2 + k] # "c"
        /\ Len(s) \in Nat /\ Len(t) \in Nat /\ Stream!Needs(s[1]) \in Nat
    <2>1. s # <<>>
      BY DEF Stream!Held
    <2>2. /\ k \in Nat /\ k <= Stream!Needs(s[1]) /\ 1 + k <= Len(s)
          /\ \A j \in 1..k : s[1 + j] = "c"
          /\ k < Stream!Needs(s[1]) /\ 2 + k <= Len(s) => s[2 + k] # "c"
          /\ Len(s) \in Nat /\ Len(t) \in Nat /\ Stream!Needs(s[1]) \in Nat
      BY <2>1, FollowIs, NeedsFew
    <2>3. k < Stream!Needs(s[1]) => Len(s) # 1 + k
      BY DEF Stream!Held
    <2> HIDE DEF k
    <2> QED
      BY <2>1, <2>2, <2>3
  <1>2. /\ st \in Seq(StreamBytes) /\ Len(st) = Len(s) + Len(t)
        /\ \A i \in 1..Len(s) : st[i] = s[i]
    BY ConcatProperties
  <1>3. st # <<>> /\ st[1] = s[1]
    BY <1>1, <1>2
  <1> HIDE DEF k, st
  <1>4. /\ 1 + k <= Len(st) /\ \A j \in 1..k : st[1 + j] = "c"
        /\ k < Stream!Needs(st[1]) => 2 + k <= Len(st) /\ st[2 + k] # "c"
    <2>1. \A j \in 1..k : 1 + j \in 1..Len(s)
      BY <1>1
    <2>2. 2 + k <= Len(s) => 2 + k \in 1..Len(s)
      BY <1>1
    <2> QED
      BY <1>1, <1>2, <1>3, <2>1, <2>2
  <1>5. Stream!Follow(st) = k
    BY <1>1, <1>2, <1>3, <1>4, FollowOnly
  <1>6. ~Stream!Held(st) /\ Stream!Char(st) = Stream!Char(s)
    <2>1. k < Stream!Needs(st[1]) => Len(st) # 1 + k
      BY <1>1, <1>2, <1>4
    <2> QED
      BY <1>3, <1>5, <2>1 DEF Stream!Held, Stream!Char, k
  <1>7. SubSeq(st, 2 + k, Len(st)) = SubSeq(s, 2 + k, Len(s)) \o t
    <2> DEFINE u == SubSeq(st, 2 + k, Len(st))  v == SubSeq(s, 2 + k, Len(s))
    <2>1. /\ u \in Seq(StreamBytes) /\ Len(u) = Len(st) - (1 + k)
          /\ \A i \in 1..Len(u) : u[i] = st[(1 + k) + i]
      <3>1. Len(st) \in Nat /\ 1 + k <= Len(st) /\ 2 + k \in Nat /\ 2 + k >= 1
        BY <1>1, <1>2, <1>4
      <3>2. \A i \in (2 + k)..Len(st) : st[i] \in StreamBytes
        BY <1>2, <3>1
      <3>3. 2 + k \in Int /\ Len(st) \in Int
        BY <3>1
      <3>4. /\ u \in Seq(StreamBytes)
            /\ Len(u) = (IF 2 + k <= Len(st) THEN Len(st) - (2 + k) + 1 ELSE 0)
            /\ \A i \in 1..(Len(st) - (2 + k) + 1) : u[i] = st[(2 + k) + i - 1]
        BY <3>2, <3>3, SubSeqProperties
      <3> HIDE DEF u
      <3>5. Len(u) = Len(st) - (1 + k) /\ Len(st) - (2 + k) + 1 = Len(st) - (1 + k)
        BY <3>1, <3>4, <1>1
      <3>6. \A i \in 1..Len(u) : (2 + k) + i - 1 = (1 + k) + i
        BY <1>1
      <3> QED
        BY <3>4, <3>5, <3>6
    <2>2. /\ v \in Seq(StreamBytes) /\ Len(v) = Len(s) - (1 + k)
          /\ \A i \in 1..Len(v) : v[i] = s[(1 + k) + i]
      BY <1>1
    <2> HIDE DEF u, v
    <2>3. /\ v \o t \in Seq(StreamBytes) /\ Len(v \o t) = Len(v) + Len(t)
          /\ \A i \in 1..Len(v) : (v \o t)[i] = v[i]
          /\ \A i \in 1..Len(t) : (v \o t)[Len(v) + i] = t[i]
      <3>1. v \in Seq(StreamBytes)
        BY <2>2
      <3> QED
        BY ONLY t \in Seq(StreamBytes), <3>1, ConcatProperties
    <2>4. \A i \in 1..Len(t) : st[Len(s) + i] = t[i]
      BY ConcatProperties DEF st
    <2>5. Len(u) = Len(v \o t)
      BY <1>1, <1>2, <2>1, <2>2, <2>3
    <2>6. ASSUME NEW i \in 1..Len(u)
          PROVE  u[i] = (v \o t)[i]
      <3>1. CASE i <= Len(v)
        <4>1. i \in 1..Len(v) /\ (1 + k) + i \in 1..Len(s)
          BY <1>1, <2>1, <2>2, <3>1
        <4> QED
          BY <1>2, <2>1, <2>2, <2>3, <4>1
      <3>2. CASE ~(i <= Len(v))
        <4> DEFINE j == i - Len(v)
        <4>1. j \in 1..Len(t) /\ i = Len(v) + j /\ (1 + k) + i = Len(s) + j
          BY <1>1, <1>2, <2>1, <2>2, <3>2
        <4> HIDE DEF j
        <4>2. (v \o t)[i] = t[j] /\ st[(1 + k) + i] = t[j]
          BY <2>3, <2>4, <4>1
        <4> QED
          BY <2>1, <4>2
      <3> QED
        BY <3>1, <3>2
    <2>7. u = v \o t
      BY <2>1, <2>3, <2>5, <2>6, SeqEqual
    <2> QED
      BY <2>7 DEF u, v
  <1>8. /\ SubSeq(s, 2 + k, Len(s)) \in Seq(StreamBytes)
        /\ Len(SubSeq(s, 2 + k, Len(s))) < Len(s)
    BY <1>1
  <1>9. Stream!Char(s) \in StreamChars
    BY <1>1 DEF Stream!Char, StreamChars
  <1> QED
    BY <1>1, <1>5, <1>6, <1>7, <1>8, <1>9 DEF k, st

\* The loop over s: what it has after each round.
Rounds(s, f) ==
    /\ f \in [0..Len(s) -> Decodings]
    /\ f[0] = [text |-> <<>>, rest |-> s]
    /\ \A i \in 1..Len(s) : f[i] = Round(f[i - 1])

\* A round of the loop decodes one character and leaves fewer bytes.
LEMMA RoundKeeps ==
    ASSUME NEW r, r \in Decodings
    PROVE  /\ Round(r) \in Decodings
           /\ ~Stream!Held(r.rest) =>
                /\ Round(r).text = Append(r.text, Stream!Char(r.rest))
                /\ Len(Round(r).rest) < Len(r.rest)
                /\ Stream!Char(r.rest) \in StreamChars
  <1>1. r.text \in Seq(StreamChars) /\ r.rest \in Seq(StreamBytes)
    BY DEF Decodings
  <1>2. CASE Stream!Held(r.rest)
    BY <1>2 DEF Round
  <1>3. CASE ~Stream!Held(r.rest)
    <2> DEFINE c == Stream!Char(r.rest)
               u == SubSeq(r.rest, 2 + Stream!Follow(r.rest), Len(r.rest))
    <2>1. c \in StreamChars /\ u \in Seq(StreamBytes) /\ Len(u) < Len(r.rest)
      <3>1. <<>> \in Seq(StreamBytes)
        BY EmptySeq
      <3> QED
        BY <1>1, <1>3, <3>1, FollowStays
    <2>2. Round(r) = [text |-> Append(r.text, c), rest |-> u]
      BY <1>3 DEF Round, Stream!Decoded
    <2> HIDE DEF c, u
    <2>3. Append(r.text, c) \in Seq(StreamChars)
      BY <1>1, <2>1, AppendProperties
    <2> QED
      BY <2>1, <2>2, <2>3 DEF Decodings, c
  <1> QED
    BY <1>2, <1>3

\* Decoding is as many rounds as there are bytes.
LEMMA DecodeRuns ==
    ASSUME NEW s, s \in Seq(StreamBytes)
    PROVE  \E f : /\ Rounds(s, f)
                  /\ Stream!Decode(s) = [text |-> f[Len(s)].text, carry |-> f[Len(s)].rest]
  <1> DEFINE n == Len(s)
             V == Decodings
             b == [text |-> <<>>, rest |-> s]
             step == [i \in 1..n |-> [r \in V |-> Round(r)]]
             Body(g) == [i \in 0..n |-> IF i = 0 THEN b ELSE Round(g[i - 1])]
             F == CHOOSE g : g = Body(g)
  <1>1. n \in Nat
    OBVIOUS
  <1>2. b \in V
    BY EmptySeq DEF Decodings
  <1>3. \A r \in V : Round(r) \in V
    BY RoundKeeps
  <1>4. Stream!Decode(s) = [text |-> F[n].text, carry |-> F[n].rest]
    BY DEF Stream!Decode, Round
  <1> HIDE DEF V, b, n
  <1>5. step \in [1..n -> [V -> V]]
    BY <1>3
  <1>6. PICK f : f \in [0..n -> V] /\ f[0] = b
                 /\ \A i \in 1..n : f[i] = Round(f[i - 1])
    <2>1. PICK f : f \in [0..n -> V] /\ f[0] = b
                   /\ \A i \in 1..n : f[i] = step[i][f[i - 1]]
      <3>1. n \in Nat /\ b \in V /\ step \in [1..n -> [V -> V]]
        BY <1>1, <1>2, <1>5
      <3> HIDE DEF step
      <3>2. \E f \in [0..n -> V] : f[0] = b /\ \A i \in 1..n : f[i] = step[i][f[i - 1]]
        BY ONLY <3>1, Recursion
      <3> QED
        BY <3>2
    <2>2. ASSUME NEW i \in 1..n
          PROVE  f[i] = Round(f[i - 1])
      <3>1. i - 1 \in 0..n
        BY <1>1
      <3>2. f[i - 1] \in V
        BY <2>1, <3>1
      <3> QED
        BY <2>1, <3>2
    <2> QED
      BY <2>1, <2>2
  <1>7. F[n] = f[n]
    <2>1. ASSUME NEW i \in 0..n
          PROVE  f[i] = Body(f)[i]
      <3>1. CASE i = 0
        BY <1>6, <3>1
      <3>2. CASE i # 0
        <4>1. i \in 1..n
          BY <1>1, <3>2
        <4> QED
          BY <1>6, <3>2, <4>1
      <3> QED
        BY <3>1, <3>2
    <2>2. f = Body(f)
      <3>1. f = [i \in 0..n |-> f[i]]
        BY <1>6
      <3>2. Body(f) = [i \in 0..n |-> Body(f)[i]]
        OBVIOUS
      <3> HIDE DEF Body
      <3> QED
        BY <2>1, <3>1, <3>2
    <2>3. F = Body(F)
      <3> HIDE DEF Body
      <3> QED
        BY <2>2
    <2> HIDE DEF F
    <2>4. F[0] = b /\ \A i \in 1..n : F[i] = Round(F[i - 1])
      <3>1. \A i \in 0..n : F[i] = Body(F)[i]
        BY <2>3
      <3>2. 0 \in 0..n /\ \A i \in 1..n : i \in 0..n /\ i # 0
        BY <1>1
      <3> QED
        BY <3>1, <3>2
    <2>5. \A i \in 0..n : f[i] = F[i]
      <3>1. f[0] = F[0]
        BY <1>6, <2>4
      <3>2. \A i \in 1..n : f[i - 1] = F[i - 1] => f[i] = F[i]
        BY <1>6, <2>4
      <3> QED
        BY ONLY <1>1, <3>1, <3>2, SameRecursion
    <2> QED
      BY <1>1, <2>5
  <1> HIDE DEF F
  <1>8. Rounds(s, f)
    BY <1>6 DEF Rounds, n, V, b
  <1> QED
    BY <1>4, <1>7, <1>8 DEF n

\* As many rounds as there are bytes are enough.
LEMMA RoundsEnd ==
    ASSUME NEW s, s \in Seq(StreamBytes), NEW f, Rounds(s, f)
    PROVE  Stream!Held(f[Len(s)].rest)
  <1> DEFINE n == Len(s)
             Ends(i) == \/ Stream!Held(f[i].rest)
                        \/ Len(f[i].rest) + i <= n
             S == {i \in Nat : i <= n => Ends(i)}
  <1>1. n \in Nat
    OBVIOUS
  <1>2. 0 \in S
    BY <1>1 DEF Rounds
  <1>3. ASSUME NEW i \in S
        PROVE  i + 1 \in S
    <2>0. i \in Nat /\ i + 1 \in Nat /\ (i <= n => Ends(i))
      OBVIOUS
    <2> SUFFICES ASSUME i + 1 <= n
                 PROVE  Ends(i + 1)
      BY <2>0
    <2>1. i \in 0..n /\ i + 1 \in 0..n /\ i + 1 \in 1..n /\ (i + 1) - 1 = i /\ Ends(i)
      BY <1>1, <2>0
    <2>2. f[i + 1] = Round(f[i]) /\ f[i] \in Decodings /\ f[i + 1] \in Decodings
      BY <2>1 DEF Rounds
    <2>3. CASE Stream!Held(f[i].rest)
      BY <2>2, <2>3 DEF Round
    <2>4. CASE ~Stream!Held(f[i].rest)
      <3>1. Len(f[i + 1].rest) < Len(f[i].rest)
        BY <2>2, <2>4, RoundKeeps
      <3>2. Len(f[i].rest) \in Nat /\ Len(f[i + 1].rest) \in Nat
        BY <2>2 DEF Decodings
      <3>3. Len(f[i].rest) + i <= n
        BY <2>1, <2>4
      <3> DEFINE p == Len(f[i].rest)  q == Len(f[i + 1].rest)
      <3>4. q + (i + 1) <= n
        <4>1. q < p /\ p \in Nat /\ q \in Nat /\ p + i <= n
          BY <3>1, <3>2, <3>3
        <4> HIDE DEF p, q, n
        <4> QED
          BY <1>1, <2>0, <4>1
      <3> QED
        BY <3>4
    <2> QED
      BY <2>3, <2>4
  <1>4. S = Nat
    <2>1. S \in SUBSET Nat
      OBVIOUS
    <2> HIDE DEF S
    <2> QED
      BY <1>2, <1>3, <2>1, EveryNat
  <1>5. Ends(n)
    BY <1>1, <1>4
  <1>6. f[n].rest \in Seq(StreamBytes)
    BY <1>1 DEF Rounds, Decodings
  <1>7. Len(f[n].rest) + n <= n => f[n].rest = <<>>
    <2>1. Len(f[n].rest) \in Nat
      BY <1>6
    <2> HIDE DEF n
    <2>2. Len(f[n].rest) + n <= n => Len(f[n].rest) = 0
      BY <1>1, <2>1
    <2> QED
      BY <1>6, <2>2, EmptySeq
  <1> QED
    BY <1>5, <1>7 DEF Stream!Held

\* Once it holds something back it has ended.
LEMMA RoundsStay ==
    ASSUME NEW s, s \in Seq(StreamBytes), NEW f, Rounds(s, f),
           NEW m, m \in 0..Len(s), Stream!Held(f[m].rest)
    PROVE  f[Len(s)] = f[m]
  <1> DEFINE n == Len(s)
             S == {i \in Nat : m + i <= n => f[m + i] = f[m]}
  <1>1. n \in Nat /\ m \in Nat /\ m <= n
    OBVIOUS
  <1> HIDE DEF n
  <1>2. 0 \in S
    BY <1>1
  <1>3. ASSUME NEW i \in S
        PROVE  i + 1 \in S
    <2> SUFFICES ASSUME m + (i + 1) <= n
                 PROVE  f[m + (i + 1)] = f[m]
      OBVIOUS
    <2>1. m + (i + 1) \in 1..n /\ (m + (i + 1)) - 1 = m + i /\ f[m + i] = f[m]
      BY <1>1
    <2>2. f[m + (i + 1)] = Round(f[m + i])
      BY <2>1 DEF Rounds, n
    <2> QED
      BY <2>1, <2>2 DEF Round
  <1>4. S = Nat
    <2>1. S \in SUBSET Nat
      OBVIOUS
    <2> HIDE DEF S
    <2> QED
      BY <1>2, <1>3, <2>1, EveryNat
  <1>5. n - m \in Nat /\ m + (n - m) = n
    BY <1>1
  <1>6. n - m \in S
    BY <1>4, <1>5
  <1> QED
    BY <1>1, <1>5, <1>6 DEF n

\* Decoding holds back only what may be the beginning of a character.
LEMMA DecodeIs ==
    ASSUME NEW s, s \in Seq(StreamBytes)
    PROVE  /\ Stream!Decode(s) \in [text : Seq(StreamChars), carry : Seq(StreamBytes)]
           /\ Stream!Held(Stream!Decode(s).carry)
           /\ Stream!Held(s) => Stream!Decode(s) = [text |-> <<>>, carry |-> s]
  <1>1. PICK f : /\ Rounds(s, f)
                 /\ Stream!Decode(s) = [text |-> f[Len(s)].text, carry |-> f[Len(s)].rest]
    BY DecodeRuns
  <1>2. Len(s) \in 0..Len(s) /\ 0 \in 0..Len(s)
    OBVIOUS
  <1>3. f[Len(s)] \in Decodings
    BY <1>1, <1>2 DEF Rounds
  <1>4. Stream!Held(f[Len(s)].rest)
    BY <1>1, RoundsEnd
  <1>5. ASSUME Stream!Held(s)
        PROVE  Stream!Decode(s) = [text |-> <<>>, carry |-> s]
    <2>1. f[0] = [text |-> <<>>, rest |-> s]
      BY <1>1 DEF Rounds
    <2>2. f[Len(s)] = f[0]
      <3>1. Stream!Held(f[0].rest)
        BY <1>5, <2>1
      <3> QED
        BY <1>1, <1>2, <3>1, RoundsStay
    <2> QED
      BY <1>1, <2>1, <2>2
  <1> QED
    BY <1>1, <1>3, <1>4, <1>5 DEF Decodings

\* A character in front of what was decoded makes no difference to what comes.
LEMMA AppendBehind ==
    ASSUME NEW T, NEW x, x \in T, NEW s, s \in Seq(T), NEW y, y \in T
    PROVE  Append(<<x>> \o s, y) = <<x>> \o Append(s, y)
  <1>1. <<x>> \in Seq(T) /\ <<y>> \in Seq(T) /\ Append(s, y) = s \o <<y>>
    BY AppendIsConcat
  <1>2. <<x>> \o s \in Seq(T)
    BY <1>1, ConcatProperties
  <1>3. Append(<<x>> \o s, y) = (<<x>> \o s) \o <<y>>
    BY <1>2, AppendIsConcat
  <1> QED
    BY <1>1, <1>3, ConcatAssociative

\* What was decoded before does not change a round.
LEMMA RoundBehind ==
    ASSUME NEW r, r \in Decodings, NEW c, c \in StreamChars
    PROVE  Round([text |-> <<c>> \o r.text, rest |-> r.rest])
             = [text |-> <<c>> \o Round(r).text, rest |-> Round(r).rest]
  <1> DEFINE q == [text |-> <<c>> \o r.text, rest |-> r.rest]
  <1>1. q.text = <<c>> \o r.text /\ q.rest = r.rest /\ r.text \in Seq(StreamChars)
    BY DEF Decodings
  <1>2. CASE Stream!Held(r.rest)
    BY <1>2 DEF Round
  <1>3. CASE ~Stream!Held(r.rest)
    <2> DEFINE d == Stream!Char(r.rest)
               u == SubSeq(r.rest, 2 + Stream!Follow(r.rest), Len(r.rest))
    <2>1. d \in StreamChars
      BY <1>3, RoundKeeps
    <2>2. Round(r) = [text |-> Append(r.text, d), rest |-> u]
      BY <1>3 DEF Round, Stream!Decoded
    <2>3. Round(q) = [text |-> Append(q.text, d), rest |-> u]
      BY <1>3 DEF Round, Stream!Decoded
    <2>4. Append(q.text, d) = <<c>> \o Append(r.text, d)
      <3> HIDE DEF d
      <3> QED
        BY <1>1, <2>1, AppendBehind
    <2>5. [text |-> Append(q.text, d), rest |-> u]
            = [text |-> <<c>> \o Append(r.text, d), rest |-> u]
      BY <2>4
    <2> HIDE DEF d, u
    <2>6. Round(r).text = Append(r.text, d) /\ Round(r).rest = u
      BY <2>2
    <2> HIDE DEF q
    <2>7. Round(q) = [text |-> <<c>> \o Round(r).text, rest |-> Round(r).rest]
      BY <2>3, <2>5, <2>6
    <2> QED
      BY <2>7 DEF q
  <1> QED
    BY <1>2, <1>3

\* What is decoded is the first character, and behind it what the rest is decoded to.
LEMMA DecodeNext ==
    ASSUME NEW s, s \in Seq(StreamBytes), ~Stream!Held(s)
    PROVE  LET u == SubSeq(s, 2 + Stream!Follow(s), Len(s)) IN
           Stream!Decode(s) = [text |-> <<Stream!Char(s)>> \o Stream!Decode(u).text,
                               carry |-> Stream!Decode(u).carry]
  <1> DEFINE c == Stream!Char(s)
             u == SubSeq(s, 2 + Stream!Follow(s), Len(s))
  <1>1. c \in StreamChars /\ u \in Seq(StreamBytes) /\ Len(u) < Len(s)
    <2>1. <<>> \in Seq(StreamBytes)
      BY EmptySeq
    <2> QED
      BY <2>1, FollowStays
  <1> HIDE DEF u
  <1>2. PICK f : /\ Rounds(s, f)
                 /\ Stream!Decode(s) = [text |-> f[Len(s)].text, carry |-> f[Len(s)].rest]
    BY DecodeRuns
  <1>3. PICK g : /\ Rounds(u, g)
                 /\ Stream!Decode(u) = [text |-> g[Len(u)].text, carry |-> g[Len(u)].rest]
    BY <1>1, DecodeRuns
  <1> DEFINE k == Len(u)  n == Len(s)
             Behind(i) == f[i + 1] = [text |-> <<c>> \o g[i].text, rest |-> g[i].rest]
             S == {i \in Nat : i <= k => Behind(i)}
  <1>4. k \in Nat /\ n \in Nat /\ k < n
    BY <1>1
  <1>10. Rounds(s, f) <=> /\ f \in [0..n -> Decodings]
                          /\ f[0] = [text |-> <<>>, rest |-> s]
                          /\ \A i \in 1..n : f[i] = Round(f[i - 1])
    BY DEF Rounds
  <1>11. Rounds(u, g) <=> /\ g \in [0..k -> Decodings]
                          /\ g[0] = [text |-> <<>>, rest |-> u]
                          /\ \A i \in 1..k : g[i] = Round(g[i - 1])
    BY DEF Rounds
  <1> HIDE DEF k, n, Behind
  <1>5. 0 \in S
    <2>1. f[0] = [text |-> <<>>, rest |-> s] /\ g[0] = [text |-> <<>>, rest |-> u]
      BY <1>2, <1>3, <1>10, <1>11
    <2>2. 1 \in 1..n /\ 1 - 1 = 0
      BY <1>4
    <2>3. f[1] = Round(f[0])
      BY <1>2, <1>10, <2>2
    <2>4. f[1] = [text |-> Append(<<>>, c), rest |-> u]
      BY <2>1, <2>3 DEF Round, Stream!Decoded, u
    <2>5. Append(<<>>, c) = <<c>> \o <<>>
      <3> HIDE DEF c
      <3>1. <<>> \in Seq(StreamChars) /\ <<c>> \in Seq(StreamChars)
        BY <1>1, EmptySeq
      <3>2. Append(<<>>, c) = <<>> \o <<c>>
        BY <1>1, <3>1, AppendIsConcat
      <3> QED
        BY <3>1, <3>2, ConcatEmptySeq
    <2>6. g[0].text = <<>> /\ g[0].rest = u
      BY <2>1
    <2>7. Behind(0)
      <3>1. 0 + 1 = 1
        OBVIOUS
      <3>2. f[1] = [text |-> <<c>> \o g[0].text, rest |-> g[0].rest]
        BY <2>4, <2>5, <2>6
      <3> HIDE DEF c
      <3> QED
        BY <3>1, <3>2 DEF Behind
    <2> QED
      BY <2>7
  <1>6. ASSUME NEW i \in S
        PROVE  i + 1 \in S
    <2>0. i \in Nat /\ i + 1 \in Nat /\ (i <= k => Behind(i))
      OBVIOUS
    <2> SUFFICES ASSUME i + 1 <= k
                 PROVE  Behind(i + 1)
      BY <2>0
    <2>1. /\ i \in 0..k /\ i + 1 \in 1..k /\ (i + 1) - 1 = i
          /\ (i + 1) + 1 \in 1..n /\ ((i + 1) + 1) - 1 = i + 1
      BY <1>4, <2>0
    <2>2. g[i] \in Decodings /\ g[i + 1] = Round(g[i])
      BY <1>3, <1>11, <2>1
    <2>3. f[(i + 1) + 1] = Round(f[i + 1])
      BY <1>2, <1>10, <2>1
    <2>4. Behind(i)
      BY <1>4, <2>0, <2>1
    <2> HIDE DEF c
    <2> QED
      BY <1>1, <2>2, <2>3, <2>4, RoundBehind DEF Behind
  <1>7. S = Nat
    <2>1. S \in SUBSET Nat
      OBVIOUS
    <2> HIDE DEF S
    <2> QED
      BY <1>5, <1>6, <2>1, EveryNat
  <1>8. Behind(k)
    BY <1>4, <1>7
  <1>9. f[n] = f[k + 1]
    <2>1. Stream!Held(g[k].rest)
      BY <1>1, <1>3, RoundsEnd DEF k
    <2>2. Stream!Held(f[k + 1].rest)
      BY <1>8, <2>1 DEF Behind
    <2>3. k + 1 \in 0..Len(s)
      BY <1>4 DEF n
    <2> QED
      BY <1>2, <2>2, <2>3, RoundsStay DEF n
  <1> HIDE DEF c
  <1>12. Stream!Decode(u).text = g[k].text /\ Stream!Decode(u).carry = g[k].rest
    BY <1>3 DEF k
  <1>13. f[n] = [text |-> <<c>> \o g[k].text, rest |-> g[k].rest]
    BY <1>8, <1>9 DEF Behind
  <1>14. Stream!Decode(s) = [text |-> f[n].text, carry |-> f[n].rest]
    BY <1>2 DEF n
  <1>15. Stream!Decode(s) = [text |-> <<c>> \o g[k].text, carry |-> g[k].rest]
    BY <1>13, <1>14
  <1> QED
    BY <1>12, <1>15 DEF c, u

\* Bytes may be decoded in two parts, if the second begins with what was held back.
LEMMA DecodeConcat ==
    ASSUME NEW s, s \in Seq(StreamBytes), NEW t, t \in Seq(StreamBytes)
    PROVE  LET d == Stream!Decode(s)
               e == Stream!Decode(d.carry \o t)
           IN  Stream!Decode(s \o t) = [text |-> d.text \o e.text, carry |-> e.carry]
  <1>1. PICK f : /\ Rounds(s, f)
                 /\ Stream!Decode(s) = [text |-> f[Len(s)].text, carry |-> f[Len(s)].rest]
    BY DecodeRuns
  <1> DEFINE n == Len(s)
             E(i) == Stream!Decode(f[i].rest \o t)
             InTwo(i) == Stream!Decode(s \o t) = [text |-> f[i].text \o E(i).text, carry |-> E(i).carry]
             S == {i \in Nat : i <= n => InTwo(i)}
  <1>2. n \in Nat
    OBVIOUS
  <1>7. Rounds(s, f) <=> /\ f \in [0..n -> Decodings]
                         /\ f[0] = [text |-> <<>>, rest |-> s]
                         /\ \A i \in 1..n : f[i] = Round(f[i - 1])
    BY DEF Rounds
  <1> HIDE DEF n, InTwo
  <1>3. 0 \in S
    <2>1. f[0] = [text |-> <<>>, rest |-> s]
      BY <1>1, <1>7
    <2>2. s \o t \in Seq(StreamBytes)
      BY ConcatProperties
    <2>3. Stream!Decode(s \o t) \in [text : Seq(StreamChars), carry : Seq(StreamBytes)]
      BY <2>2, DecodeIs
    <2>4. <<>> \o Stream!Decode(s \o t).text = Stream!Decode(s \o t).text
      BY <2>3, ConcatEmptySeq
    <2>5. InTwo(0)
      BY <2>1, <2>3, <2>4 DEF InTwo
    <2> QED
      BY <2>5
  <1>4. ASSUME NEW i \in S
        PROVE  i + 1 \in S
    <2>0. i \in Nat /\ i + 1 \in Nat /\ (i <= n => InTwo(i))
      OBVIOUS
    <2> SUFFICES ASSUME i + 1 <= n
                 PROVE  InTwo(i + 1)
      BY <2>0
    <2>1. i \in 0..n /\ i + 1 \in 1..n /\ (i + 1) - 1 = i /\ InTwo(i)
      BY <1>2, <2>0
    <2>2. f[i] \in Decodings /\ f[i + 1] = Round(f[i])
      BY <1>1, <1>7, <2>1
    <2>3. CASE Stream!Held(f[i].rest)
      BY <2>1, <2>2, <2>3 DEF Round, InTwo
    <2>4. CASE ~Stream!Held(f[i].rest)
      <3> DEFINE p == f[i].rest  c == Stream!Char(p)
                 u == SubSeq(p, 2 + Stream!Follow(p), Len(p))
      <3>1. f[i].text \in Seq(StreamChars) /\ p \in Seq(StreamBytes)
        BY <2>2 DEF Decodings
      <3>2. f[i + 1] = [text |-> Append(f[i].text, c), rest |-> u]
        BY <2>2, <2>4 DEF Round, Stream!Decoded
      <3> HIDE DEF p
      <3>3. /\ ~Stream!Held(p \o t) /\ Stream!Char(p \o t) = c /\ c \in StreamChars
            /\ SubSeq(p \o t, 2 + Stream!Follow(p \o t), Len(p \o t)) = u \o t
            /\ u \in Seq(StreamBytes)
        BY <2>4, <3>1, FollowStays DEF p
      <3> HIDE DEF c, u
      <3>4. p \o t \in Seq(StreamBytes) /\ u \o t \in Seq(StreamBytes)
        BY <3>1, <3>3, ConcatProperties
      <3>5. Stream!Decode(p \o t) = [text |-> <<c>> \o Stream!Decode(u \o t).text,
                                     carry |-> Stream!Decode(u \o t).carry]
        BY <3>3, <3>4, DecodeNext
      <3> DEFINE w == Stream!Decode(u \o t)  a == f[i].text
      <3>6. w.text \in Seq(StreamChars)
        BY <3>4, DecodeIs
      <3> HIDE DEF w, a
      <3>7. Append(a, c) \o w.text = a \o (<<c>> \o w.text)
        <4>1. a \in Seq(StreamChars) /\ <<c>> \in Seq(StreamChars)
          BY <3>1, <3>3 DEF a
        <4>2. Append(a, c) = a \o <<c>>
          BY <3>3, <4>1, AppendIsConcat
        <4>3. (a \o <<c>>) \o w.text = a \o (<<c>> \o w.text)
          <5> DEFINE y == w.text
          <5>1. y \in Seq(StreamChars)
            BY <3>6
          <5> HIDE DEF y
          <5>2. (a \o <<c>>) \o y = a \o (<<c>> \o y)
            BY <4>1, <5>1, ConcatAssociative
          <5> QED
            BY <5>2 DEF y
        <4> QED
          BY <4>2, <4>3
      <3>8. Stream!Decode(s \o t) = [text |-> a \o (<<c>> \o w.text), carry |-> w.carry]
        BY <2>1, <3>5 DEF p, w, a, InTwo
      <3>9. f[i + 1].text = Append(a, c) /\ f[i + 1].rest = u
        BY <3>2 DEF a
      <3>10. InTwo(i + 1) <=> Stream!Decode(s \o t) = [text |-> f[i + 1].text \o w.text,
                                                        carry |-> w.carry]
        BY <3>9 DEF w, InTwo
      <3> QED
        BY <3>7, <3>8, <3>9, <3>10
    <2> QED
      BY <2>3, <2>4
  <1>5. S = Nat
    <2>1. S \in SUBSET Nat
      OBVIOUS
    <2> HIDE DEF S
    <2> QED
      BY <1>3, <1>4, <2>1, EveryNat
  <1>6. InTwo(n)
    BY <1>2, <1>5
  <1> QED
    BY <1>1, <1>6 DEF InTwo, n

\* The lines that are complete, and the text behind them.
Splittings == [lines : Seq(Seq(StreamChars)), rest : Seq(StreamChars)]
NoLines == [lines |-> <<>>, rest |-> <<>>]

\* A line without its carriage return is a text.
LEMMA TrimmedIs ==
    ASSUME NEW s, s \in Seq(StreamChars)
    PROVE  Stream!Trimmed(s) \in Seq(StreamChars)
  <1> DEFINE keep == {i \in 0..Len(s) : \A j \in (i + 1)..Len(s) : s[j] = "\r"}
             m == CHOOSE i \in keep : \A j \in keep : i <= j
  <1>1. Len(s) \in keep /\ keep \subseteq Nat
    OBVIOUS
  <1>2. \E i \in keep : \A j \in keep : i <= j
    <2> HIDE DEF keep
    <2> QED
      BY <1>1, LeastNat
  <1>3. m \in keep
    <2> HIDE DEF keep
    <2> QED
      BY <1>2
  <1>4. m \in 0..Len(s)
    BY <1>3
  <1> HIDE DEF m
  <1>5. SubSeq(s, 1, m) \in Seq(StreamChars)
    BY <1>4
  <1> QED
    BY <1>5 DEF Stream!Trimmed, m

\* Taking a character gives lines and a rest.
LEMMA TakenIs ==
    ASSUME NEW r, r \in Splittings, NEW x, x \in StreamChars
    PROVE  Stream!Taken(r, x) \in Splittings
  <1>1. r.lines \in Seq(Seq(StreamChars)) /\ r.rest \in Seq(StreamChars)
    BY DEF Splittings
  <1> DEFINE y == Stream!Trimmed(r.rest)
  <1>2. y \in Seq(StreamChars)
    BY <1>1, TrimmedIs
  <1>3. CASE x # "\n"
    <2>1. Append(r.rest, x) \in Seq(StreamChars)
      BY <1>1, AppendProperties
    <2>2. Stream!Taken(r, x) = [lines |-> r.lines, rest |-> Append(r.rest, x)]
      BY <1>3 DEF Stream!Taken
    <2> QED
      BY <2>1, <2>2 DEF Splittings
  <1>4. CASE x = "\n"
    <2>1. Stream!Taken(r, x) = [lines |-> IF y = <<>> THEN r.lines ELSE Append(r.lines, y),
                                rest |-> <<>>]
      BY <1>4 DEF Stream!Taken
    <2> HIDE DEF y
    <2>2. Append(r.lines, y) \in Seq(Seq(StreamChars))
      BY <1>1, <1>2, AppendProperties
    <2>3. <<>> \in Seq(StreamChars)
      BY EmptySeq
    <2> QED
      BY <1>1, <2>1, <2>2, <2>3 DEF Splittings
  <1> QED
    BY <1>3, <1>4

\* Splitting takes one character after the other.
LEMMA SplitRuns ==
    ASSUME NEW s, s \in Seq(StreamChars)
    PROVE  \E f : /\ f \in [0..Len(s) -> Splittings]
                  /\ f[0] = NoLines
                  /\ \A i \in 1..Len(s) : f[i] = Stream!Taken(f[i - 1], s[i])
                  /\ Stream!Split(s) = f[Len(s)]
  <1> DEFINE n == Len(s)
             V == Splittings
             b == NoLines
             step == [i \in 1..n |-> [r \in V |-> Stream!Taken(r, s[i])]]
             Body(g) == [i \in 0..n |-> IF i = 0 THEN b ELSE Stream!Taken(g[i - 1], s[i])]
             F == CHOOSE g : g = Body(g)
  <1>1. n \in Nat /\ \A i \in 1..n : s[i] \in StreamChars
    OBVIOUS
  <1>2. b \in V
    BY EmptySeq DEF Splittings, NoLines
  <1>3. \A r \in V : \A i \in 1..n : Stream!Taken(r, s[i]) \in V
    <2> HIDE DEF n, V
    <2> QED
      BY <1>1, TakenIs DEF V
  <1>4. Stream!Split(s) = F[n]
    BY DEF Stream!Split, NoLines
  <1> HIDE DEF V, b, n
  <1>5. step \in [1..n -> [V -> V]]
    BY <1>3
  <1>6. PICK f : f \in [0..n -> V] /\ f[0] = b
                 /\ \A i \in 1..n : f[i] = Stream!Taken(f[i - 1], s[i])
    <2>1. PICK f : f \in [0..n -> V] /\ f[0] = b
                   /\ \A i \in 1..n : f[i] = step[i][f[i - 1]]
      <3>1. n \in Nat /\ b \in V /\ step \in [1..n -> [V -> V]]
        BY <1>1, <1>2, <1>5
      <3> HIDE DEF step
      <3>2. \E f \in [0..n -> V] : f[0] = b /\ \A i \in 1..n : f[i] = step[i][f[i - 1]]
        BY ONLY <3>1, Recursion
      <3> QED
        BY <3>2
    <2>2. ASSUME NEW i \in 1..n
          PROVE  f[i] = Stream!Taken(f[i - 1], s[i])
      <3>1. i - 1 \in 0..n
        BY <1>1
      <3>2. f[i - 1] \in V
        BY <2>1, <3>1
      <3> QED
        BY <2>1, <3>2
    <2> QED
      BY <2>1, <2>2
  <1>7. F[n] = f[n]
    <2>1. ASSUME NEW i \in 0..n
          PROVE  f[i] = Body(f)[i]
      <3>1. CASE i = 0
        BY <1>6, <3>1
      <3>2. CASE i # 0
        <4>1. i \in 1..n
          BY <1>1, <3>2
        <4> QED
          BY <1>6, <3>2, <4>1
      <3> QED
        BY <3>1, <3>2
    <2>2. f = Body(f)
      <3>1. f = [i \in 0..n |-> f[i]]
        BY <1>6
      <3>2. Body(f) = [i \in 0..n |-> Body(f)[i]]
        OBVIOUS
      <3> HIDE DEF Body
      <3> QED
        BY <2>1, <3>1, <3>2
    <2>3. F = Body(F)
      <3> HIDE DEF Body
      <3> QED
        BY <2>2
    <2> HIDE DEF F
    <2>4. F[0] = b /\ \A i \in 1..n : F[i] = Stream!Taken(F[i - 1], s[i])
      <3>1. \A i \in 0..n : F[i] = Body(F)[i]
        BY <2>3
      <3>2. 0 \in 0..n /\ \A i \in 1..n : i \in 0..n /\ i # 0
        BY <1>1
      <3> QED
        BY <3>1, <3>2
    <2>5. \A i \in 0..n : f[i] = F[i]
      <3>0. n \in Nat
        BY <1>1
      <3>1. f[0] = F[0]
        BY <1>6, <2>4
      <3>2. \A i \in 1..n : f[i - 1] = F[i - 1] => f[i] = F[i]
        BY <1>6, <2>4
      <3> QED
        BY ONLY <3>0, <3>1, <3>2, SameRecursion
    <2>6. n \in 0..n
      BY <1>1
    <2> QED
      BY <2>5, <2>6
  <1> HIDE DEF F
  <1> QED
    BY <1>4, <1>6, <1>7 DEF n, V, b

\* A character more is taken by what was split.
LEMMA SplitAppends ==
    ASSUME NEW s, s \in Seq(StreamChars), NEW x, x \in StreamChars
    PROVE  /\ Stream!Split(s) \in Splittings
           /\ Stream!Split(Append(s, x)) = Stream!Taken(Stream!Split(s), x)
  <1> DEFINE n == Len(s)  t == Append(s, x)
  <1>1. /\ n \in Nat /\ t \in Seq(StreamChars) /\ Len(t) = n + 1 /\ t[n + 1] = x
        /\ \A i \in 1..n : t[i] = s[i]
    BY AppendProperties
  <1> HIDE DEF t
  <1>2. PICK f : /\ f \in [0..Len(s) -> Splittings]
                 /\ f[0] = NoLines
                 /\ \A i \in 1..Len(s) : f[i] = Stream!Taken(f[i - 1], s[i])
                 /\ Stream!Split(s) = f[Len(s)]
    BY SplitRuns
  <1>3. PICK g : /\ g \in [0..Len(t) -> Splittings]
                 /\ g[0] = NoLines
                 /\ \A i \in 1..Len(t) : g[i] = Stream!Taken(g[i - 1], t[i])
                 /\ Stream!Split(t) = g[Len(t)]
    BY <1>1, SplitRuns
  <1>4. \A i \in 0..n : f[i] = g[i]
    <2>1. f[0] = g[0]
      BY <1>2, <1>3
    <2>2. ASSUME NEW i \in 1..n, f[i - 1] = g[i - 1]
          PROVE  f[i] = g[i]
      <3>1. i \in 1..Len(t) /\ t[i] = s[i]
        BY <1>1
      <3>2. f[i] = Stream!Taken(f[i - 1], s[i]) /\ g[i] = Stream!Taken(g[i - 1], t[i])
        BY <1>2, <1>3, <3>1
      <3> QED
        BY <2>2, <3>1, <3>2
    <2>3. n \in Nat
      OBVIOUS
    <2> HIDE DEF n
    <2> QED
      BY ONLY <2>1, <2>2, <2>3, SameRecursion
  <1>5. Stream!Split(s) = g[n] /\ Stream!Split(s) \in Splittings
    <2>1. n \in 0..n
      OBVIOUS
    <2> QED
      BY <1>2, <1>4, <2>1
  <1>6. Stream!Split(t) = Stream!Taken(g[n], x)
    <2>1. n + 1 \in 1..Len(t) /\ (n + 1) - 1 = n
      BY <1>1
    <2>2. g[n + 1] = Stream!Taken(g[n], t[n + 1])
      BY <1>3, <2>1
    <2> QED
      BY <1>1, <1>3, <2>2
  <1> QED
    BY <1>5, <1>6 DEF t

\* Of nothing there are no lines.
LEMMA SplitNone == Stream!Split(<<>>) = NoLines
  <1>1. <<>> \in Seq(StreamChars) /\ Len(<<>>) = 0
    BY EmptySeq
  <1> QED
    BY <1>1, SplitRuns

\* Splitting gives lines and a rest.
LEMMA SplitIs ==
    ASSUME NEW s, s \in Seq(StreamChars)
    PROVE  Stream!Split(s) \in Splittings
  <1>1. CASE s = <<>>
    <2>1. <<>> \in Seq(Seq(StreamChars)) /\ <<>> \in Seq(StreamChars)
      BY EmptySeq
    <2>2. NoLines \in Splittings
      BY <2>1 DEF Splittings, NoLines
    <2> QED
      BY <1>1, <2>2, SplitNone
  <1>2. CASE s # <<>>
    <2>1. s[1] \in StreamChars
      BY <1>2
    <2> QED
      BY <2>1, SplitAppends
  <1> QED
    BY <1>1, <1>2

\* What is left of a text has no line in it.
LEMMA RestStays ==
    ASSUME NEW s, s \in Seq(StreamChars)
    PROVE  Stream!Split(Stream!Split(s).rest) = [lines |-> <<>>, rest |-> Stream!Split(s).rest]
  <1> DEFINE Settled(t) == Stream!Split(Stream!Split(t).rest)
                           = [lines |-> <<>>, rest |-> Stream!Split(t).rest]
             S == {t \in Seq(StreamChars) : Settled(t)}
  <1>1. <<>> \in S
    <2>1. NoLines.rest = <<>> /\ NoLines = [lines |-> <<>>, rest |-> NoLines.rest]
      BY DEF NoLines
    <2> QED
      BY <2>1, SplitNone, EmptySeq
  <1>2. ASSUME NEW t \in S, NEW x \in StreamChars
        PROVE  Append(t, x) \in S
    <2>1. t \in Seq(StreamChars) /\ Append(t, x) \in Seq(StreamChars) /\ Settled(t)
      BY AppendProperties
    <2> DEFINE r == Stream!Split(t)
    <2>2. r \in Splittings /\ Stream!Split(Append(t, x)) = Stream!Taken(r, x)
      BY <2>1, SplitAppends
    <2>3. r.rest \in Seq(StreamChars) /\ Stream!Split(r.rest) = [lines |-> <<>>, rest |-> r.rest]
      BY <2>1, <2>2 DEF Splittings
    <2> HIDE DEF r
    <2>4. CASE x = "\n"
      <3>1. Stream!Taken(r, x).rest = <<>>
        BY <2>4 DEF Stream!Taken
      <3> QED
        BY <2>1, <2>2, <3>1, SplitNone DEF NoLines
    <2>5. CASE x # "\n"
      <3>1. Stream!Taken(r, x).rest = Append(r.rest, x)
        BY <2>2, <2>5 DEF Stream!Taken, Splittings
      <3>2. Stream!Split(Append(r.rest, x)) = Stream!Taken(Stream!Split(r.rest), x)
        BY <2>3, SplitAppends
      <3>3. Stream!Taken(Stream!Split(r.rest), x) = [lines |-> <<>>, rest |-> Append(r.rest, x)]
        <4> DEFINE q == [lines |-> <<>>, rest |-> r.rest]
        <4>1. q.lines = <<>> /\ q.rest = r.rest
          OBVIOUS
        <4>2. Stream!Split(r.rest) = q
          BY <2>3
        <4> HIDE DEF q
        <4>3. Stream!Taken(q, x) = [lines |-> q.lines, rest |-> Append(q.rest, x)]
          BY <2>5 DEF Stream!Taken
        <4> QED
          BY <4>1, <4>2, <4>3
      <3> QED
        BY <2>1, <2>2, <3>1, <3>2, <3>3
    <2> QED
      BY <2>4, <2>5
  <1>3. S = Seq(StreamChars)
    <2>1. S \in SUBSET Seq(StreamChars)
      OBVIOUS
    <2> HIDE DEF S
    <2> QED
      BY <1>1, <1>2, <2>1, EverySeq
  <1> QED
    BY <1>3

\* A text may be split in two parts, if the second begins with what was left.
LEMMA SplitConcat ==
    ASSUME NEW s, s \in Seq(StreamChars), NEW t, t \in Seq(StreamChars)
    PROVE  LET d == Stream!Split(s)
               e == Stream!Split(d.rest \o t)
           IN  Stream!Split(s \o t) = [lines |-> d.lines \o e.lines, rest |-> e.rest]
  <1> DEFINE d == Stream!Split(s)
             E(u) == Stream!Split(d.rest \o u)
             InTwo(u) == Stream!Split(s \o u) = [lines |-> d.lines \o E(u).lines, rest |-> E(u).rest]
             S == {u \in Seq(StreamChars) : InTwo(u)}
  <1>1. d \in Splittings /\ d.lines \in Seq(Seq(StreamChars)) /\ d.rest \in Seq(StreamChars)
    BY SplitIs DEF Splittings
  <1>2. <<>> \in S
    <2>1. s \o <<>> = s /\ d.rest \o <<>> = d.rest /\ d.lines \o <<>> = d.lines
      <3> HIDE DEF d
      <3> QED
        BY <1>1, ConcatEmptySeq
    <2>2. E(<<>>) = [lines |-> <<>>, rest |-> d.rest]
      BY <2>1, RestStays
    <2>3. d = [lines |-> d.lines, rest |-> d.rest]
      <3> HIDE DEF d
      <3> QED
        BY <1>1 DEF Splittings
    <2>4. Stream!Split(s \o <<>>) = d
      BY <2>1
    <2> HIDE DEF d
    <2>5. E(<<>>).lines = <<>> /\ E(<<>>).rest = d.rest
      BY <2>2
    <2>6. InTwo(<<>>)
      BY <2>1, <2>3, <2>4, <2>5
    <2> QED
      BY <2>6, EmptySeq
  <1> HIDE DEF d
  <1>3. ASSUME NEW u \in S, NEW x \in StreamChars
        PROVE  Append(u, x) \in S
    <2>1. u \in Seq(StreamChars) /\ Append(u, x) \in Seq(StreamChars) /\ InTwo(u)
      BY AppendProperties
    <2>2. /\ s \o u \in Seq(StreamChars) /\ d.rest \o u \in Seq(StreamChars)
          /\ s \o Append(u, x) = Append(s \o u, x)
          /\ d.rest \o Append(u, x) = Append(d.rest \o u, x)
      <3>1. <<x>> \in Seq(StreamChars) /\ Append(u, x) = u \o <<x>>
        BY <2>1, AppendIsConcat
      <3>2. s \o u \in Seq(StreamChars) /\ d.rest \o u \in Seq(StreamChars)
        BY <1>1, <2>1, ConcatProperties
      <3>3. /\ Append(s \o u, x) = (s \o u) \o <<x>>
            /\ Append(d.rest \o u, x) = (d.rest \o u) \o <<x>>
        BY <3>2, AppendIsConcat
      <3>4. (s \o u) \o <<x>> = s \o (u \o <<x>>)
        BY <2>1, <3>1, ConcatAssociative
      <3> DEFINE v == d.rest
      <3>5. v \in Seq(StreamChars)
        BY <1>1
      <3> HIDE DEF v
      <3>6. (v \o u) \o <<x>> = v \o (u \o <<x>>)
        BY <2>1, <3>1, <3>5, ConcatAssociative
      <3> QED
        BY <3>1, <3>2, <3>3, <3>4, <3>6 DEF v
    <2> DEFINE r == Stream!Split(s \o u)  e == E(u)
    <2>3. /\ Stream!Split(s \o Append(u, x)) = Stream!Taken(r, x)
          /\ E(Append(u, x)) = Stream!Taken(e, x)
          /\ e \in Splittings
      BY <2>2, SplitAppends
    <2>4. r = [lines |-> d.lines \o e.lines, rest |-> e.rest]
      BY <2>1
    <2>5. e.lines \in Seq(Seq(StreamChars)) /\ e.rest \in Seq(StreamChars)
      BY <2>3 DEF Splittings
    <2> HIDE DEF r, e
    <2>6. Stream!Taken(r, x) = [lines |-> d.lines \o Stream!Taken(e, x).lines,
                                rest |-> Stream!Taken(e, x).rest]
      <3>1. CASE x # "\n"
        <4>1. Stream!Taken(r, x) = [lines |-> d.lines \o e.lines, rest |-> Append(e.rest, x)]
          BY <2>4, <3>1 DEF Stream!Taken
        <4>2. /\ Stream!Taken(e, x).lines = e.lines
              /\ Stream!Taken(e, x).rest = Append(e.rest, x)
          BY <2>3, <3>1 DEF Stream!Taken, Splittings
        <4> QED
          BY <4>1, <4>2
      <3>2. CASE x = "\n"
        <4> DEFINE y == Stream!Trimmed(e.rest)
        <4>1. y \in Seq(StreamChars)
          BY <2>5, TrimmedIs
        <4>2. Stream!Taken(r, x) = [lines |-> IF y = <<>> THEN d.lines \o e.lines
                                              ELSE Append(d.lines \o e.lines, y),
                                    rest |-> <<>>]
          BY <2>4, <3>2 DEF Stream!Taken
        <4>3. /\ Stream!Taken(e, x).lines = IF y = <<>> THEN e.lines ELSE Append(e.lines, y)
              /\ Stream!Taken(e, x).rest = <<>>
          BY <3>2 DEF Stream!Taken
        <4> HIDE DEF y
        <4>4. Append(d.lines \o e.lines, y) = d.lines \o Append(e.lines, y)
          <5> DEFINE p == d.lines  q == e.lines  L == Seq(StreamChars)
          <5>1. p \in Seq(L) /\ q \in Seq(L) /\ y \in L
            BY <1>1, <2>5, <4>1
          <5> HIDE DEF p, q, L
          <5>2. <<y>> \in Seq(L) /\ Append(q, y) = q \o <<y>>
            BY <5>1, AppendIsConcat
          <5>3. p \o q \in Seq(L)
            BY <5>1, ConcatProperties
          <5>4. Append(p \o q, y) = (p \o q) \o <<y>>
            BY <5>1, <5>3, AppendIsConcat
          <5>5. (p \o q) \o <<y>> = p \o (q \o <<y>>)
            BY <5>1, <5>2, ConcatAssociative
          <5> QED
            BY <5>2, <5>4, <5>5 DEF p, q
        <4> QED
          BY <4>2, <4>3, <4>4
      <3> QED
        BY <3>1, <3>2
    <2>7. InTwo(Append(u, x))
      BY <2>3, <2>6
    <2> HIDE DEF InTwo
    <2> QED
      BY <2>1, <2>7
  <1>4. S = Seq(StreamChars)
    <2>1. S \in SUBSET Seq(StreamChars)
      OBVIOUS
    <2> HIDE DEF S
    <2> QED
      BY <1>2, <1>3, <2>1, EverySeq
  <1>5. InTwo(t)
    BY <1>4
  <1> QED
    BY <1>5 DEF d

\* The lines are those of all bytes at once.
StreamInv == sent \in Seq(StreamBytes) /\ Stream!ChunksAreImmaterial

\* At most three bytes are held back.
LEMMA HeldIsShort ==
    ASSUME NEW s, s \in Seq(StreamBytes), Stream!Held(s)
    PROVE  Len(s) <= 3
  <1>1. CASE s = <<>>
    BY <1>1
  <1>2. CASE s # <<>>
    <2>1. Stream!Follow(s) \in Nat /\ Len(s) = 1 + Stream!Follow(s)
          /\ Stream!Follow(s) < Stream!Needs(s[1]) /\ Stream!Needs(s[1]) \in {0, 1, 2, 3}
      BY <1>2, FollowIs, NeedsFew DEF Stream!Held
    <2> QED
      BY <2>1
  <1> QED
    BY <1>1, <1>2

\* The stream begins in the invariant.
LEMMA StreamBegins ==
    ASSUME Stream!Init
    PROVE  StreamInv
  <1>1. sent = <<>> /\ carry = <<>> /\ buffer = <<>> /\ lines = <<>>
    BY DEF Stream!Init
  <1>2. <<>> \in Seq(StreamBytes) /\ Stream!Held(<<>>)
    BY EmptySeq DEF Stream!Held
  <1>3. Stream!Decode(<<>>) = [text |-> <<>>, carry |-> <<>>]
    BY <1>2, DecodeIs
  <1>4. Stream!Split(<<>>).lines = <<>> /\ Stream!Split(<<>>).rest = <<>>
    BY SplitNone DEF NoLines
  <1>5. Stream!Decode(<<>>).text = <<>> /\ Stream!Decode(<<>>).carry = <<>>
    BY <1>3
  <1>6. Len(carry) <= 3
    BY <1>1
  <1> QED
    BY <1>1, <1>2, <1>4, <1>5, <1>6 DEF StreamInv, Stream!ChunksAreImmaterial

\* Each step of the stream keeps the invariant.
LEMMA StreamStep ==
    ASSUME StreamInv, [Stream!Next]_streamVars
    PROVE  StreamInv'
  <1>1. CASE UNCHANGED streamVars
    BY <1>1 DEF streamVars, StreamInv, Stream!ChunksAreImmaterial
  <1>2. CASE Stream!Next
    <2>1. PICK chunk \in UNION {[1..n -> StreamBytes] : n \in 1..MaxChunk} :
              LET d == Stream!Decode(carry \o chunk)
                  p == Stream!Split(buffer \o d.text)
              IN  /\ sent' = sent \o chunk
                  /\ carry' = d.carry
                  /\ buffer' = p.rest
                  /\ lines' = lines \o p.lines
      BY <1>2 DEF Stream!Next, Stream!Receive
    <2>2. chunk \in Seq(StreamBytes)
      <3>1. PICK n \in 1..MaxChunk : chunk \in [1..n -> StreamBytes]
        OBVIOUS
      <3>2. n \in Nat
        BY <3>1
      <3> QED
        BY <3>1, <3>2, SeqDef
    <2> DEFINE w == Stream!Decode(sent)
               d == Stream!Decode(carry \o chunk)
               z == Stream!Split(w.text)
               p == Stream!Split(buffer \o d.text)
               v == Stream!Decode(sent \o chunk)
    <2>3. sent \in Seq(StreamBytes) /\ carry = w.carry /\ lines = z.lines /\ buffer = z.rest
      BY DEF StreamInv, Stream!ChunksAreImmaterial
    <2>4. sent \o chunk \in Seq(StreamBytes)
      BY <2>2, <2>3, ConcatProperties
    <2>5. v = [text |-> w.text \o d.text, carry |-> d.carry]
      BY <2>2, <2>3, DecodeConcat
    <2>6. w.text \in Seq(StreamChars) /\ w.carry \in Seq(StreamBytes)
      BY <2>3, DecodeIs
    <2>7. d.text \in Seq(StreamChars) /\ d.carry \in Seq(StreamBytes) /\ Stream!Held(d.carry)
      <3>1. carry \o chunk \in Seq(StreamBytes)
        BY <2>2, <2>3, <2>6, ConcatProperties
      <3> QED
        BY <3>1, DecodeIs
    <2>8. Stream!Split(w.text \o d.text) = [lines |-> z.lines \o p.lines, rest |-> p.rest]
      <3> HIDE DEF w, d
      <3> QED
        BY <2>3, <2>6, <2>7, SplitConcat
    <2>9. /\ sent' = sent \o chunk /\ carry' = d.carry
          /\ buffer' = p.rest /\ lines' = lines \o p.lines
      BY <2>1
    <2>10. Len(d.carry) <= 3
      BY <2>7, HeldIsShort
    <2>11. Stream!Decode(sent)' = v
      BY <2>9
    <2> HIDE DEF w, d, z, p, v
    <2>12. v.text = w.text \o d.text /\ v.carry = d.carry
      BY <2>5
    <2>13. /\ Len(carry') <= 3 /\ carry' = v.carry
           /\ lines' = Stream!Split(v.text).lines
           /\ buffer' = Stream!Split(v.text).rest
      <3>1. Len(carry') <= 3 /\ carry' = v.carry
        BY <2>9, <2>10, <2>12
      <3> DEFINE c == z.lines \o p.lines
      <3>2. Stream!Split(v.text) = [lines |-> c, rest |-> p.rest]
        BY <2>8, <2>12
      <3>3. lines' = c /\ buffer' = p.rest
        BY <2>3, <2>9
      <3> HIDE DEF c
      <3>4. Stream!Split(v.text).lines = c
        BY <3>2
      <3>5. Stream!Split(v.text).rest = p.rest
        BY <3>2
      <3>6. lines' = Stream!Split(v.text).lines /\ buffer' = Stream!Split(v.text).rest
        BY <3>3, <3>4, <3>5
      <3> QED
        BY <3>1, <3>6
    <2>14. Stream!ChunksAreImmaterial'
      BY <2>9, <2>13 DEF Stream!ChunksAreImmaterial, v
    <2> QED
      BY <2>4, <2>9, <2>14 DEF StreamInv
  <1> QED
    BY <1>1, <1>2

-----------------------------------------------------------------------------
(* The text of an answer.                                                    *)

\* The values of each place lead to those of the next by a step.
Leads(n, U, V, b, step) ==
    /\ n \in Nat /\ V \in [0..n -> SUBSET U] /\ b \in V[0]
    /\ \A i \in 1..n : \A r \in V[i - 1] : step[i][r] \in V[i]
Walked(f, n, U, V, b, step) ==
    /\ f \in [0..n -> U] /\ f[0] = b
    /\ \A i \in 1..n : f[i] = step[i][f[i - 1]]
    /\ \A i \in 0..n : f[i] \in V[i]

\* If the values of each place lead to those of the next, there is a walk from the
\* first place to the last.
LEMMA Walks ==
    ASSUME NEW n, NEW U, NEW V, NEW b, NEW step, Leads(n, U, V, b, step)
    PROVE  \E f : Walked(f, n, U, V, b, step)
  <1>0. /\ n \in Nat /\ V \in [0..n -> SUBSET U] /\ b \in V[0]
        /\ \A i \in 1..n : \A r \in V[i - 1] : step[i][r] \in V[i]
    BY DEF Leads
  <1> DEFINE total == [i \in 1..n |-> [r \in U |-> IF step[i][r] \in U THEN step[i][r] ELSE b]]
  <1>1. b \in U /\ \A i \in 0..n : V[i] \subseteq U
    BY <1>0
  <1>2. total \in [1..n -> [U -> U]]
    BY <1>1
  <1>3. PICK f \in [0..n -> U] : f[0] = b /\ \A i \in 1..n : f[i] = total[i][f[i - 1]]
    <2> HIDE DEF total
    <2>1. n \in Nat /\ b \in U /\ total \in [1..n -> [U -> U]]
      BY <1>0, <1>1, <1>2
    <2> QED
      BY ONLY <2>1, Recursion
  <1> DEFINE S == {k \in Nat : k <= n => f[k] \in V[k]}
  <1>4. 0 \in S
    BY <1>0, <1>3
  <1>5. ASSUME NEW k \in Nat, k + 1 <= n, f[k] \in V[k]
        PROVE  f[k + 1] = step[k + 1][f[k]] /\ f[k + 1] \in V[k + 1]
    <2>1. k + 1 \in 1..n /\ k + 1 \in 0..n /\ (k + 1) - 1 = k
      BY <1>0, <1>5
    <2>2. step[k + 1][f[k]] \in V[k + 1]
      BY <1>0, <1>5, <2>1
    <2>3. f[k] \in U /\ step[k + 1][f[k]] \in U
      BY <1>0, <1>1, <1>5, <2>1, <2>2
    <2>4. f[k + 1] = total[k + 1][f[k]]
      BY <1>3, <2>1
    <2> QED
      BY <2>1, <2>2, <2>3, <2>4
  <1>6. ASSUME NEW k \in S
        PROVE  k + 1 \in S
    <2>1. k \in Nat /\ (k <= n => f[k] \in V[k])
      OBVIOUS
    <2>2. k + 1 \in Nat /\ (k + 1 <= n => k <= n)
      BY <1>0, <2>1
    <2>3. k + 1 <= n => f[k + 1] \in V[k + 1]
      BY <1>5, <2>1, <2>2
    <2> QED
      BY <2>2, <2>3
  <1>7. S = Nat
    <2>1. S \in SUBSET Nat
      OBVIOUS
    <2> HIDE DEF S
    <2> QED
      BY <1>4, <1>6, <2>1, EveryNat
  <1>8. \A i \in 0..n : f[i] \in V[i]
    <2>1. \A i \in 0..n : i \in Nat /\ i <= n
      BY <1>0
    <2> QED
      BY <1>7, <2>1
  <1>9. ASSUME NEW i \in 1..n
        PROVE  f[i] = step[i][f[i - 1]]
    <2> DEFINE k == i - 1
    <2>1. k \in Nat /\ k + 1 = i /\ k + 1 <= n /\ k \in 0..n
      BY <1>0
    <2> HIDE DEF k
    <2>2. f[k] \in V[k]
      BY <1>8, <2>1
    <2>3. f[k + 1] = step[k + 1][f[k]]
      BY <1>5, <2>1, <2>2
    <2> QED
      BY <2>1, <2>3 DEF k
  <1> QED
    BY <1>3, <1>8, <1>9 DEF Walked

\* What holds at the first place and is kept at each place holds at the last.
LEMMA WalkKeeps ==
    ASSUME NEW n \in Nat, NEW V, NEW F, F[0] \in V[0],
           \A i \in 1..n : F[i - 1] \in V[i - 1] => F[i] \in V[i]
    PROVE  F[n] \in V[n]
  <1> DEFINE S == {k \in Nat : k <= n => F[k] \in V[k]}
  <1>1. 0 \in S
    OBVIOUS
  <1>2. ASSUME NEW k \in S
        PROVE  k + 1 \in S
    <2>1. (k + 1) - 1 = k /\ (k + 1 <= n => k + 1 \in 1..n)
      OBVIOUS
    <2> QED
      BY <2>1
  <1>3. S = Nat
    <2>1. S \in SUBSET Nat
      OBVIOUS
    <2> HIDE DEF S
    <2> QED
      BY <1>1, <1>2, <2>1, EveryNat
  <1> QED
    BY <1>3

Chars == Answer!Signs \cup Answer!ToSet(Words)

\* What is looked for in a text: the words and the markers.
Tracked == Answer!ToSet(Words) \cup Answer!Markers

Has(s, n, x) == \E i \in 1..n : s[i] = x
Precedes(s, n, x, y) == \E i, j \in 1..n : i < j /\ s[i] = x /\ s[j] = y

\* Of what is looked for, t has only what the first n places of s have, in their
\* order; and it has all of it.
Part(K, t, s, n) ==
    /\ \A x \in K : Has(t, Len(t), x) => Has(s, n, x)
    /\ \A x, y \in K : Precedes(t, Len(t), x, y) => Precedes(s, n, x, y)
Whole(K, t, s, n) ==
    /\ Part(K, t, s, n)
    /\ \A x \in K : Has(s, n, x) => Has(t, Len(t), x)

\* The next character of the text may be appended, or one that is not looked for.
LEMMA PartAppend ==
    ASSUME NEW K, NEW C, NEW t, t \in Seq(C), NEW s, NEW n \in Nat, NEW c \in C,
           Part(K, t, s, n), c \in K => c = s[n + 1]
    PROVE  Part(K, Append(t, c), s, n + 1)
  <1> DEFINE u == Append(t, c)  m == Len(t)
  <1>1. /\ m \in Nat /\ Len(u) = m + 1 /\ u[m + 1] = c /\ \A i \in 1..m : u[i] = t[i]
    BY AppendProperties
  <1> HIDE DEF u, m
  <1>2. /\ \A x \in K : Has(t, m, x) => Has(s, n, x)
        /\ \A x, y \in K : Precedes(t, m, x, y) => Precedes(s, n, x, y)
    BY DEF Part, m
  <1>3. ASSUME NEW x \in K, NEW i \in 1..(m + 1), u[i] = x
        PROVE  Has(s, n + 1, x)
    <2>1. CASE i \in 1..m
      <3>1. Has(t, m, x)
        BY <1>1, <1>3, <2>1 DEF Has
      <3>2. PICK k \in 1..n : s[k] = x
        BY <1>2, <3>1 DEF Has
      <3> QED
        BY <3>2 DEF Has
    <2>2. CASE i = m + 1
      BY <1>1, <1>3, <2>2 DEF Has
    <2> QED
      BY <1>1, <2>1, <2>2
  <1>4. ASSUME NEW x \in K, NEW y \in K, NEW i \in 1..(m + 1), NEW j \in 1..(m + 1),
               i < j, u[i] = x, u[j] = y
        PROVE  Precedes(s, n + 1, x, y)
    <2>1. i \in 1..m
      BY <1>1, <1>4
    <2>2. CASE j \in 1..m
      <3>1. Precedes(t, m, x, y)
        BY <1>1, <1>4, <2>1, <2>2 DEF Precedes
      <3>2. PICK k \in 1..n, l \in 1..n : k < l /\ s[k] = x /\ s[l] = y
        BY <1>2, <3>1 DEF Precedes
      <3>3. k \in 1..(n + 1) /\ l \in 1..(n + 1)
        OBVIOUS
      <3> QED
        BY <3>2, <3>3 DEF Precedes
    <2>3. CASE j = m + 1
      <3>1. Has(t, m, x)
        BY <1>1, <1>4, <2>1 DEF Has
      <3>2. PICK k \in 1..n : s[k] = x
        BY <1>2, <3>1 DEF Has
      <3>3. s[n + 1] = y
        BY <1>1, <1>4, <2>3
      <3>4. k \in 1..(n + 1) /\ n + 1 \in 1..(n + 1) /\ k < n + 1
        OBVIOUS
      <3> QED
        BY <3>2, <3>3, <3>4 DEF Precedes
    <2> QED
      BY <1>1, <2>2, <2>3
  <1> QED
    BY <1>1, <1>3, <1>4 DEF Part, Has, Precedes, u

\* A character of the text may be left out.
LEMMA PartStays ==
    ASSUME NEW K, NEW t, NEW s, NEW n \in Nat, Part(K, t, s, n)
    PROVE  Part(K, t, s, n + 1)
  <1>1. \A x : Has(s, n, x) => Has(s, n + 1, x)
    BY DEF Has
  <1>2. \A x, y : Precedes(s, n, x, y) => Precedes(s, n + 1, x, y)
    <2>1. \A i \in 1..n : i \in 1..(n + 1)
      OBVIOUS
    <2> QED
      BY <2>1 DEF Precedes
  <1> QED
    BY <1>1, <1>2 DEF Part

\* What a text has, and not at its end, it has before.
LEMMA HasNext ==
    ASSUME NEW s, NEW n \in Nat, NEW x, Has(s, n + 1, x), s[n + 1] # x
    PROVE  Has(s, n, x)
  <1>1. PICK i \in 1..(n + 1) : s[i] = x
    BY DEF Has
  <1>2. i \in 1..n
    BY <1>1
  <1> QED
    BY <1>1, <1>2 DEF Has

\* A text that grows has what it had, and the new character.
LEMMA HasAppend ==
    ASSUME NEW C, NEW t, t \in Seq(C), NEW c \in C
    PROVE  /\ Has(Append(t, c), Len(Append(t, c)), c)
           /\ \A x : Has(t, Len(t), x) => Has(Append(t, c), Len(Append(t, c)), x)
  <1> DEFINE u == Append(t, c)  m == Len(t)
  <1>1. /\ m \in Nat /\ Len(u) = m + 1 /\ u[m + 1] = c /\ \A i \in 1..m : u[i] = t[i]
    BY AppendProperties
  <1>2. m + 1 \in 1..(m + 1) /\ \A i \in 1..m : i \in 1..(m + 1)
    BY <1>1
  <1> HIDE DEF u, m
  <1>3. Has(u, Len(u), c) /\ \A x : Has(t, m, x) => Has(u, Len(u), x)
    BY <1>1, <1>2 DEF Has
  <1> QED
    BY <1>3 DEF u, m

\* Nothing is lost if what is looked for is appended.
LEMMA WholeAppend ==
    ASSUME NEW K, NEW C, NEW t, t \in Seq(C), NEW s, NEW n \in Nat, NEW c \in C,
           Whole(K, t, s, n), c \in K \/ s[n + 1] \in K => c = s[n + 1]
    PROVE  Whole(K, Append(t, c), s, n + 1)
  <1>1. Part(K, Append(t, c), s, n + 1)
    BY PartAppend DEF Whole
  <1>2. ASSUME NEW x \in K, Has(s, n + 1, x)
        PROVE  Has(Append(t, c), Len(Append(t, c)), x)
    <2>1. CASE s[n + 1] = x
      BY <2>1, HasAppend
    <2>2. CASE s[n + 1] # x
      <3>1. Has(t, Len(t), x)
        BY <1>2, <2>2, HasNext DEF Whole
      <3> QED
        BY <3>1, HasAppend
    <2> QED
      BY <2>1, <2>2
  <1> QED
    BY <1>1, <1>2 DEF Whole

\* Nothing is lost if what is left out is not looked for.
LEMMA WholeStays ==
    ASSUME NEW K, NEW t, NEW s, NEW n \in Nat, Whole(K, t, s, n), s[n + 1] \notin K
    PROVE  Whole(K, t, s, n + 1)
  <1>1. \A x \in K : Has(s, n + 1, x) => Has(s, n, x)
    BY HasNext
  <1> QED
    BY <1>1, PartStays DEF Whole

\* What is not looked for may leave the end.
LEMMA WholeFront ==
    ASSUME NEW K, NEW C, NEW t, t \in Seq(C), t # <<>>, t[Len(t)] \notin K,
           NEW s, NEW n, Whole(K, t, s, n)
    PROVE  Answer!Front(t) \in Seq(C) /\ Whole(K, Answer!Front(t), s, n)
  <1> DEFINE u == Answer!Front(t)  m == Len(u)
  <1>1. /\ u \in Seq(C) /\ m \in Nat /\ Len(t) = m + 1
        /\ \A i \in 1..m : u[i] = t[i] /\ i \in 1..(m + 1)
    <2> DEFINE k == Len(t) - 1
    <2>1. k \in Nat /\ Len(t) = k + 1 /\ \A i \in 1..k : t[i] \in C
      BY EmptySeq
    <2> HIDE DEF k
    <2>2. /\ SubSeq(t, 1, k) \in Seq(C) /\ Len(SubSeq(t, 1, k)) = k
          /\ \A i \in 1..k : SubSeq(t, 1, k)[i] = t[i]
      BY <2>1
    <2>3. u = SubSeq(t, 1, k)
      BY DEF Answer!Front, k
    <2> HIDE DEF u
    <2> QED
      BY <2>1, <2>2, <2>3
  <1> HIDE DEF u, m
  <1>2. \A x \in K : Has(u, m, x) <=> Has(t, m + 1, x)
    <2>1. \A x \in K : Has(t, m + 1, x) => Has(t, m, x)
      BY <1>1, HasNext
    <2> QED
      BY <1>1, <2>1 DEF Has
  <1>3. \A x, y \in K : Precedes(u, m, x, y) => Precedes(t, m + 1, x, y)
    BY <1>1 DEF Precedes
  <1>4. Whole(K, u, s, n)
    <2>1. Len(t) = m + 1 /\ Len(u) = m
      BY <1>1 DEF m
    <2> QED
      BY <1>2, <1>3, <2>1 DEF Whole, Part
  <1> QED
    BY <1>1, <1>4 DEF u

\* Texts one after the other.
LEMMA WholeConcat ==
    ASSUME NEW K, NEW C, NEW t, t \in Seq(C), NEW u, u \in Seq(C),
           NEW s, s \in Seq(C), NEW v, v \in Seq(C),
           Whole(K, t, s, Len(s)), Whole(K, u, v, Len(v))
    PROVE  t \o u \in Seq(C) /\ Whole(K, t \o u, s \o v, Len(s \o v))
  <1> DEFINE a == t \o u  b == s \o v  m == Len(t)  n == Len(s)  k == Len(u)  l == Len(v)
  <1>1. /\ m \in Nat /\ k \in Nat /\ Len(a) = m + k /\ a \in Seq(C)
        /\ \A i \in 1..m : a[i] = t[i]
        /\ \A i \in 1..k : a[m + i] = u[i]
    BY ConcatProperties
  <1>2. /\ n \in Nat /\ l \in Nat /\ Len(b) = n + l
        /\ \A i \in 1..n : b[i] = s[i]
        /\ \A i \in 1..l : b[n + i] = v[i]
    BY ConcatProperties
  <1> HIDE DEF a, b, m, n, k, l
  <1>3. /\ \A x \in K : (Has(t, m, x) <=> Has(s, n, x)) /\ (Has(u, k, x) <=> Has(v, l, x))
        /\ \A x, y \in K : /\ Precedes(t, m, x, y) => Precedes(s, n, x, y)
                           /\ Precedes(u, k, x, y) => Precedes(v, l, x, y)
    BY DEF Whole, Part, m, n, k, l
  <1>4. \A x : Has(a, m + k, x) <=> Has(t, m, x) \/ Has(u, k, x)
    <2>1. \A i \in 1..(m + k) : i \in 1..m \/ (i - m \in 1..k /\ m + (i - m) = i)
      BY <1>1
    <2>2. \A i \in 1..m : i \in 1..(m + k)
      BY <1>1
    <2>3. \A i \in 1..k : m + i \in 1..(m + k)
      BY <1>1
    <2> QED
      BY ZenonT(40), <1>1, <2>1, <2>2, <2>3 DEF Has
  <1>5. \A x : Has(b, n + l, x) <=> Has(s, n, x) \/ Has(v, l, x)
    <2>1. \A i \in 1..(n + l) : i \in 1..n \/ (i - n \in 1..l /\ n + (i - n) = i)
      BY <1>2
    <2>2. \A i \in 1..n : i \in 1..(n + l)
      BY <1>2
    <2>3. \A i \in 1..l : n + i \in 1..(n + l)
      BY <1>2
    <2> QED
      BY ZenonT(40), <1>2, <2>1, <2>2, <2>3 DEF Has
  <1>6. ASSUME NEW x \in K, NEW y \in K, NEW i \in 1..(m + k), NEW j \in 1..(m + k),
               i < j, a[i] = x, a[j] = y
        PROVE  Precedes(b, n + l, x, y)
    <2>1. CASE j \in 1..m
      <3>1. i \in 1..m
        BY <1>1, <1>6, <2>1
      <3>2. Precedes(t, m, x, y)
        BY <1>1, <1>6, <2>1, <3>1 DEF Precedes
      <3>3. PICK g \in 1..n, h \in 1..n : g < h /\ s[g] = x /\ s[h] = y
        BY <1>3, <3>2 DEF Precedes
      <3>4. g \in 1..(n + l) /\ h \in 1..(n + l)
        BY <1>2
      <3> QED
        BY <1>2, <3>3, <3>4 DEF Precedes
    <2>2. CASE ~(i \in 1..m)
      <3>1. /\ i - m \in 1..k /\ m + (i - m) = i /\ j - m \in 1..k /\ m + (j - m) = j
            /\ i - m < j - m
        BY <1>1, <1>6, <2>2
      <3>2. u[i - m] = x /\ u[j - m] = y
        BY <1>1, <1>6, <3>1
      <3>3. Precedes(u, k, x, y)
        BY <3>1, <3>2 DEF Precedes
      <3>4. PICK g \in 1..l, h \in 1..l : g < h /\ v[g] = x /\ v[h] = y
        BY <1>3, <3>3 DEF Precedes
      <3>5. n + g \in 1..(n + l) /\ n + h \in 1..(n + l) /\ n + g < n + h
        BY <1>2, <3>4
      <3>6. b[n + g] = x /\ b[n + h] = y
        BY <1>2, <3>4
      <3> QED
        BY <3>5, <3>6 DEF Precedes
    <2>3. CASE i \in 1..m /\ ~(j \in 1..m)
      <3>1. j - m \in 1..k /\ m + (j - m) = j
        BY <1>1, <1>6, <2>3
      <3>2. t[i] = x /\ u[j - m] = y
        BY <1>1, <1>6, <2>3, <3>1
      <3>3. Has(t, m, x) /\ Has(u, k, y)
        BY <2>3, <3>1, <3>2 DEF Has
      <3>4. PICK g \in 1..n : s[g] = x
        BY <1>3, <3>3 DEF Has
      <3>5. PICK h \in 1..l : v[h] = y
        BY <1>3, <3>3 DEF Has
      <3>6. g \in 1..(n + l) /\ n + h \in 1..(n + l) /\ g < n + h
        BY <1>2
      <3>7. b[g] = x /\ b[n + h] = y
        BY <1>2, <3>4, <3>5
      <3> QED
        BY <3>6, <3>7 DEF Precedes
    <2> QED
      BY <2>1, <2>2, <2>3
  <1>7. Len(a) = m + k /\ Len(b) = n + l
    BY <1>1, <1>2
  <1>8. Whole(K, a, b, Len(b))
    <2>1. \A x \in K : Has(a, Len(a), x) <=> Has(b, Len(b), x)
      BY <1>3, <1>4, <1>5, <1>7
    <2>2. \A x, y \in K : Precedes(a, Len(a), x, y) => Precedes(b, Len(b), x, y)
      BY <1>6, <1>7 DEF Precedes
    <2> QED
      BY <2>1, <2>2 DEF Whole, Part
  <1> QED
    BY <1>1, <1>8 DEF a, b

\* A text has all of itself.
LEMMA WholeSelf == \A K, s : Whole(K, s, s, Len(s))
  BY DEF Whole, Part

\* What has all of a text that has all of another has all of the other.
LEMMA WholeThrough ==
    ASSUME NEW K, NEW t, NEW s, NEW v, NEW n,
           Whole(K, t, s, Len(s)), Whole(K, s, v, n)
    PROVE  Whole(K, t, v, n)
  BY DEF Whole, Part

\* A text without any of what is looked for is as good as none.
LEMMA WholeOfNone ==
    ASSUME NEW K, NEW t, NEW s, NEW n,
           \A i \in 1..Len(t) : t[i] \notin K, \A i \in 1..n : s[i] \notin K
    PROVE  Whole(K, t, s, n)
  BY DEF Whole, Part, Has, Precedes

\* What is not looked for may stand around a text.
LEMMA WholeBetween ==
    ASSUME NEW K, NEW C, NEW t, t \in Seq(C), NEW s, s \in Seq(C), NEW u, u \in Seq(C),
           NEW v, v \in Seq(C), Whole(K, t, s, Len(s)),
           \A i \in 1..Len(u) : u[i] \notin K, \A i \in 1..Len(v) : v[i] \notin K
    PROVE  (u \o t) \o v \in Seq(C) /\ Whole(K, (u \o t) \o v, s, Len(s))
  <1>1. <<>> \in Seq(C) /\ Len(<<>>) = 0
    BY EmptySeq
  <1>2. Whole(K, u, <<>>, Len(<<>>)) /\ Whole(K, v, <<>>, Len(<<>>))
    <2>1. \A i \in 1..Len(<<>>) : <<>>[i] \notin K
      OBVIOUS
    <2> QED
      BY <2>1, WholeOfNone
  <1>3. <<>> \o s = s /\ s \o <<>> = s
    BY ConcatEmptySeq
  <1> DEFINE e == <<>>  w == u \o t
  <1>4. /\ e \in Seq(C) /\ e \o s = s /\ s \o e = s
        /\ Whole(K, u, e, Len(e)) /\ Whole(K, v, e, Len(e))
    BY <1>1, <1>2, <1>3
  <1> HIDE DEF e, w
  <1>5. w \in Seq(C) /\ Whole(K, w, s, Len(s))
    <2>1. u \o t \in Seq(C) /\ Whole(K, u \o t, e \o s, Len(e \o s))
      BY <1>4, WholeConcat
    <2> QED
      BY <1>4, <2>1 DEF w
  <1>6. w \o v \in Seq(C) /\ Whole(K, w \o v, s, Len(s))
    <2>1. w \o v \in Seq(C) /\ Whole(K, w \o v, s \o e, Len(s \o e))
      BY <1>4, <1>5, WholeConcat
    <2> QED
      BY <1>4, <2>1
  <1> QED
    BY <1>6 DEF w

\* What is looked for may not be cut off at the ends.
LEMMA WholeSub ==
    ASSUME NEW K, NEW C, NEW s, s \in Seq(C), NEW a \in 1..Len(s), NEW b \in 0..Len(s),
           a <= b + 1,
           \A i \in 1..Len(s) : i < a \/ b < i => s[i] \notin K
    PROVE  SubSeq(s, a, b) \in Seq(C) /\ Whole(K, SubSeq(s, a, b), s, Len(s))
  <1> DEFINE t == SubSeq(s, a, b)  m == (b - a) + 1  d == a - 1
  <1>1. /\ t \in Seq(C) /\ Len(t) = m /\ m \in Nat /\ d \in Nat
        /\ \A i \in 1..m : t[i] = s[d + i] /\ d + i \in 1..Len(s)
        /\ \A j \in 1..Len(s) : s[j] \in K => j - d \in 1..m /\ d + (j - d) = j
    BY SubSeqProperties
  <1> HIDE DEF t, m, d
  <1>2. \A x \in K : Has(t, m, x) <=> Has(s, Len(s), x)
    BY <1>1 DEF Has
  <1>3. ASSUME NEW x \in K, NEW y \in K, NEW i \in 1..m, NEW j \in 1..m,
               i < j, t[i] = x, t[j] = y
        PROVE  Precedes(s, Len(s), x, y)
    <2>1. d + i < d + j
      BY <1>1, <1>3
    <2> QED
      BY <1>1, <1>3, <2>1 DEF Precedes
  <1>4. \A x, y \in K : Precedes(t, m, x, y) => Precedes(s, Len(s), x, y)
    BY <1>3 DEF Precedes
  <1> QED
    BY <1>1, <1>2, <1>4 DEF Whole, Part, t

\* What is not looked for may be replaced in its place.
LEMMA WholeSame ==
    ASSUME NEW K, NEW t, NEW s, Len(t) = Len(s), Len(s) \in Nat,
           \A i \in 1..Len(s) : t[i] \in K \/ s[i] \in K => t[i] = s[i]
    PROVE  Whole(K, t, s, Len(s))
  BY DEF Whole, Part, Has, Precedes

\* Signs that are no markers are not looked for.
Plain == Answer!Signs \ Answer!Markers

\* The signs that are no markers are not looked for.
LEMMA PlainSigns ==
    /\ Plain \subseteq Chars /\ Plain \cap Tracked = {}
    /\ Answer!White \subseteq Plain
    /\ {".", "?", "&", "%", "(", ")", "[", "]", "TAG", "URL", "host"} \subseteq Plain
  BY AnswerAssumption DEF Plain, Chars, Tracked, Answer!Signs, Answer!Markers, Answer!White

\* A set of places has a greatest one.
LEMMA GreatestNat ==
    ASSUME NEW n \in Nat, NEW S \in SUBSET (1..n), S # {}
    PROVE  \E m \in S : \A k \in S : m >= k
  <1> DEFINE T == {n - k : k \in S}
  <1>1. T \in SUBSET Nat /\ T # {}
    <2>1. \A k \in S : n - k \in Nat
      OBVIOUS
    <2>2. PICK k \in S : TRUE
      OBVIOUS
    <2>3. n - k \in T
      BY <2>2
    <2> QED
      BY <2>1, <2>3
  <1>2. PICK l \in T : \A k \in T : l <= k
    <2> HIDE DEF T
    <2> QED
      BY <1>1, LeastNat
  <1>3. PICK m \in S : l = n - m
    OBVIOUS
  <1>4. ASSUME NEW k \in S
        PROVE  m >= k
    <2>1. n - m <= n - k
      BY <1>2, <1>3
    <2> QED
      BY <2>1
  <1> QED
    BY <1>3, <1>4

\* Trimming signs off the ends loses no word and no marker.
LEMMA TrimKeeps ==
    ASSUME NEW s, s \in Seq(Chars), NEW set, set \subseteq Plain
    PROVE  /\ Answer!Trim(s, set) \in Seq(Chars)
           /\ Whole(Tracked, Answer!Trim(s, set), s, Len(s))
  <1> DEFINE kept == {i \in DOMAIN s : s[i] \notin set}
             a == CHOOSE i \in kept : \A j \in kept : i <= j
             b == CHOOSE i \in kept : \A j \in kept : i >= j
  <1>1. /\ Len(s) \in Nat /\ DOMAIN s = 1..Len(s)
        /\ \A i \in 1..Len(s) : i \notin kept => s[i] \notin Tracked
    BY PlainSigns
  <1>2. kept \subseteq 1..Len(s)
    BY <1>1
  <1>3. CASE kept = {}
    <2>1. Answer!Trim(s, set) = <<>>
      BY <1>3 DEF Answer!Trim
    <2>2. Whole(Tracked, <<>>, s, Len(s))
      <3>1. \A i \in 1..Len(<<>>) : <<>>[i] \notin Tracked
        OBVIOUS
      <3>2. \A i \in 1..Len(s) : s[i] \notin Tracked
        BY <1>1, <1>3
      <3> QED
        BY <3>1, <3>2, WholeOfNone
    <2> QED
      BY <2>1, <2>2, EmptySeq
  <1>4. CASE kept # {}
    <2>1. Answer!Trim(s, set) = SubSeq(s, a, b)
      BY <1>4 DEF Answer!Trim
    <2> HIDE DEF kept
    <2>2. a \in kept /\ \A j \in kept : a <= j
      <3>1. kept \in SUBSET Nat
        BY <1>2
      <3>2. \E i \in kept : \A j \in kept : i <= j
        BY <1>4, <3>1, LeastNat
      <3> QED
        BY <3>2
    <2>3. b \in kept /\ \A j \in kept : b >= j
      <3>1. \E i \in kept : \A j \in kept : i >= j
        BY <1>1, <1>2, <1>4, GreatestNat
      <3> QED
        BY <3>1
    <2> HIDE DEF a, b
    <2>4. /\ a \in 1..Len(s) /\ b \in 0..Len(s) /\ a <= b + 1
          /\ \A i \in 1..Len(s) : i < a \/ b < i => s[i] \notin Tracked
      <3>1. a \in 1..Len(s) /\ b \in 1..Len(s) /\ a <= b
        BY <1>2, <2>2, <2>3
      <3>2. \A i \in 1..Len(s) : i < a \/ b < i => i \notin kept
        BY <2>2, <2>3, <3>1
      <3> QED
        BY <1>1, <3>1, <3>2
    <2> QED
      BY <2>1, <2>4, WholeSub
  <1> QED
    BY <1>3, <1>4

\* The label of a link has the words of what was cited.
LEMMA LabelKeeps ==
    ASSUME NEW s, s \in Seq(Chars)
    PROVE  Answer!Label(s) \in Seq(Chars) /\ Whole(Tracked, Answer!Label(s), s, Len(s))
  <1> DEFINE t == Answer!Trim(s, Answer!White)
             u == Answer!Trim(t, {"(", ")", "[", "]"})
             v == Answer!Trim(u, Answer!White)
             w == [i \in DOMAIN v |-> CASE v[i] = "[" -> "("
                                        [] v[i] = "]" -> ")"
                                        [] OTHER -> v[i]]
  <1>1. t \in Seq(Chars) /\ Whole(Tracked, t, s, Len(s))
    BY PlainSigns, TrimKeeps
  <1> HIDE DEF t
  <1>2. u \in Seq(Chars) /\ Whole(Tracked, u, s, Len(s))
    <2>1. u \in Seq(Chars) /\ Whole(Tracked, u, t, Len(t))
      BY <1>1, PlainSigns, TrimKeeps
    <2> QED
      BY <1>1, <2>1, WholeThrough
  <1> HIDE DEF u
  <1>3. v \in Seq(Chars) /\ Whole(Tracked, v, s, Len(s))
    <2>1. v \in Seq(Chars) /\ Whole(Tracked, v, u, Len(u))
      BY <1>2, PlainSigns, TrimKeeps
    <2> QED
      BY <1>2, <2>1, WholeThrough
  <1>4. Answer!Label(s) = IF v = <<>> THEN <<"host">> ELSE w
    BY DEF Answer!Label, t, u
  <1> HIDE DEF v
  <1>5. CASE v = <<>>
    <2>1. Len(v) = 0 /\ \A x \in Tracked : ~Has(s, Len(s), x)
      BY <1>3, <1>5 DEF Whole, Has
    <2>2. /\ <<"host">> \in Seq(Chars) /\ Len(<<"host">>) = 1
          /\ \A i \in 1..Len(<<"host">>) : <<"host">>[i] \notin Tracked
      BY PlainSigns
    <2>3. \A i \in 1..Len(s) : s[i] \notin Tracked
      BY <2>1 DEF Has
    <2> QED
      BY <1>4, <1>5, <2>2, <2>3, WholeOfNone
  <1>6. CASE v # <<>>
    <2>1. /\ w \in Seq(Chars) /\ Len(w) = Len(v) /\ Len(v) \in Nat
          /\ \A i \in 1..Len(v) : w[i] \in Tracked \/ v[i] \in Tracked => w[i] = v[i]
      <3>1. DOMAIN v = 1..Len(v) /\ Len(v) \in Nat /\ \A i \in 1..Len(v) : v[i] \in Chars
        BY <1>3
      <3>2. \A i \in 1..Len(v) :
              /\ v[i] = "[" => w[i] = "("
              /\ v[i] = "]" => w[i] = ")"
              /\ v[i] # "[" /\ v[i] # "]" => w[i] = v[i]
        BY <3>1
      <3>3. {"[", "]", "(", ")"} \subseteq Chars /\ {"[", "]", "(", ")"} \cap Tracked = {}
        BY PlainSigns
      <3>4. DOMAIN w = 1..Len(v)
        BY <3>1
      <3> HIDE DEF w
      <3>5. \A i \in 1..Len(v) : /\ w[i] \in Chars
                                 /\ w[i] \in Tracked \/ v[i] \in Tracked => w[i] = v[i]
        BY <3>1, <3>2, <3>3
      <3>6. w = [i \in 1..Len(v) |-> w[i]]
        BY <3>4 DEF w
      <3> QED
        BY <3>1, <3>5, <3>6
    <2> HIDE DEF w
    <2>2. Whole(Tracked, w, v, Len(v))
      BY <2>1, WholeSame
    <2>3. Whole(Tracked, w, s, Len(s))
      BY <1>3, <2>2, WholeThrough
    <2> QED
      BY <1>4, <1>6, <2>1, <2>3
  <1> QED
    BY <1>5, <1>6

\* The link has the words of what was cited.
LEMMA LinkedKeeps ==
    ASSUME NEW s, s \in Seq(Chars)
    PROVE  Answer!Linked(s) \in Seq(Chars) /\ Whole(Tracked, Answer!Linked(s), s, Len(s))
  <1>1. CASE Answer!IsLink(s)
    BY <1>1, WholeSelf DEF Answer!Linked
  <1>2. CASE ~Answer!IsLink(s)
    <2> DEFINE a == <<"[">>  b == <<"]", "(">>  c == Answer!Address  d == <<")">>
               l == Answer!Label(s)
    <2>1. l \in Seq(Chars) /\ Whole(Tracked, l, s, Len(s))
      BY LabelKeeps
    <2>2. {"[", "]", "(", ")", "URL"} \subseteq Chars
          /\ {"[", "]", "(", ")", "URL"} \cap Tracked = {}
      BY PlainSigns
    <2>3. /\ a \in Seq(Chars) /\ b \in Seq(Chars) /\ c \in Seq(Chars) /\ d \in Seq(Chars)
          /\ Len(a) = 1 /\ Len(b) = 2 /\ Len(c) = 4 /\ Len(d) = 1
          /\ \A i \in 1..1 : a[i] \notin Tracked /\ d[i] \notin Tracked
          /\ \A i \in 1..2 : b[i] \notin Tracked
          /\ \A i \in 1..4 : c[i] \notin Tracked
      BY <2>2 DEF Answer!Address
    <2>4. Answer!Linked(s) = (((a \o l) \o b) \o c) \o d
      BY <1>2 DEF Answer!Linked
    <2> HIDE DEF a, b, c, d, l
    <2> DEFINE e == <<>>  p == (a \o l) \o b  q == p \o c
    <2>5. e \in Seq(Chars) /\ \A i \in 1..Len(e) : e[i] \notin Tracked
      BY EmptySeq
    <2>6. \A f \in Seq(Chars) : e \o f = f
      BY ConcatEmptySeq
    <2> HIDE DEF e
    <2>7. p \in Seq(Chars) /\ Whole(Tracked, p, s, Len(s))
      BY <2>1, <2>3, WholeBetween
    <2> HIDE DEF p
    <2>8. q \in Seq(Chars) /\ Whole(Tracked, q, s, Len(s))
      <3>1. (e \o p) \o c \in Seq(Chars) /\ Whole(Tracked, (e \o p) \o c, s, Len(s))
        BY <2>3, <2>5, <2>7, WholeBetween
      <3> QED
        BY <2>6, <2>7, <3>1
    <2> HIDE DEF q
    <2>9. q \o d \in Seq(Chars) /\ Whole(Tracked, q \o d, s, Len(s))
      <3>1. (e \o q) \o d \in Seq(Chars) /\ Whole(Tracked, (e \o q) \o d, s, Len(s))
        BY <2>3, <2>5, <2>8, WholeBetween
      <3> QED
        BY <2>6, <2>8, <3>1
    <2> QED
      BY <2>4, <2>9 DEF q, p
  <1> QED
    BY <1>1, <1>2

\* What s is with some of the citations replaced.
Replacings(s, cited) ==
    {r \in [text : Seq(Chars), floor : Nat] :
        /\ r.floor <= Len(r.text)
        /\ Whole(Tracked, r.text, s, Len(s))
        /\ DOMAIN cited = {} => r.text = s}

\* The places of two texts in a row.
LEMMA InTwoParts ==
    ASSUME NEW C, NEW t, t \in Seq(C), NEW u, u \in Seq(C),
           NEW m, NEW k, Len(t) = m, Len(u) = k
    PROVE  /\ t \o u \in Seq(C) /\ Len(t \o u) = m + k
           /\ \A i \in 1..m : (t \o u)[i] = t[i]
           /\ \A i \in 1..k : (t \o u)[m + i] = u[i]
  <1>1. t \o u \in Seq(C) /\ Len(t \o u) = m + k
    OBVIOUS
  <1>2. \A i \in 1..m : (t \o u)[i] = t[i]
    OBVIOUS
  <1>3. \A i \in 1..k : (t \o u)[m + i] = u[i]
    OBVIOUS
  <1> QED
    BY <1>1, <1>2, <1>3

\* A text is what is left of two places, between them and right of them.
LEMMA InThree ==
    ASSUME NEW C, NEW t, t \in Seq(C), NEW p \in Nat, NEW e \in Nat, p <= e, e <= Len(t)
    PROVE  t = (SubSeq(t, 1, p) \o SubSeq(t, p + 1, e)) \o SubSeq(t, e + 1, Len(t))
  <1> DEFINE n == Len(t)  a == SubSeq(t, 1, p)  b == SubSeq(t, p + 1, e)
             c == SubSeq(t, e + 1, n)  w == a \o b  q == w \o c
  <1>1. n \in Nat /\ e <= n /\ \A i \in 1..n : t[i] \in C
    OBVIOUS
  <1> HIDE DEF n
  <1>2. a \in Seq(C) /\ Len(a) = p /\ \A i \in 1..p : a[i] = t[i]
    BY <1>1
  <1>3. b \in Seq(C) /\ Len(b) = e - p /\ \A i \in 1..(e - p) : b[i] = t[p + i]
    <2>1. \A i \in (p + 1)..e : t[i] \in C
      BY <1>1
    <2>2. /\ b \in Seq(C)
          /\ Len(b) = IF p + 1 <= e THEN (e - (p + 1)) + 1 ELSE 0
          /\ \A i \in 1..((e - (p + 1)) + 1) : b[i] = t[((p + 1) + i) - 1]
      BY <2>1, SubSeqProperties
    <2>3. (e - (p + 1)) + 1 = e - p /\ \A i \in 1..(e - p) : ((p + 1) + i) - 1 = p + i
      OBVIOUS
    <2> HIDE DEF b
    <2> QED
      BY <2>2, <2>3
  <1>4. c \in Seq(C) /\ Len(c) = n - e /\ \A i \in 1..(n - e) : c[i] = t[e + i]
    <2>1. \A i \in (e + 1)..n : t[i] \in C
      BY <1>1
    <2>2. /\ c \in Seq(C)
          /\ Len(c) = IF e + 1 <= n THEN (n - (e + 1)) + 1 ELSE 0
          /\ \A i \in 1..((n - (e + 1)) + 1) : c[i] = t[((e + 1) + i) - 1]
      BY <1>1, <2>1, SubSeqProperties
    <2>3. (n - (e + 1)) + 1 = n - e /\ \A i \in 1..(n - e) : ((e + 1) + i) - 1 = e + i
      BY <1>1
    <2> HIDE DEF c
    <2> QED
      BY <1>1, <2>2, <2>3
  <1> HIDE DEF a, b, c
  <1>5. /\ w \in Seq(C) /\ Len(w) = e
        /\ \A i \in 1..p : w[i] = a[i]
        /\ \A i \in 1..(e - p) : w[p + i] = b[i]
    <2>1. /\ w \in Seq(C) /\ Len(w) = p + (e - p)
          /\ \A i \in 1..p : w[i] = a[i]
          /\ \A i \in 1..(e - p) : w[p + i] = b[i]
      BY <1>2, <1>3, InTwoParts
    <2> HIDE DEF w
    <2> QED
      BY <2>1
  <1> HIDE DEF w
  <1>6. /\ q \in Seq(C) /\ Len(q) = n
        /\ \A i \in 1..e : q[i] = w[i]
        /\ \A i \in 1..(n - e) : q[e + i] = c[i]
    <2>1. /\ q \in Seq(C) /\ Len(q) = e + (n - e)
          /\ \A i \in 1..e : q[i] = w[i]
          /\ \A i \in 1..(n - e) : q[e + i] = c[i]
      <3> DEFINE k == n - e
      <3>1. w \in Seq(C) /\ c \in Seq(C) /\ Len(w) = e /\ Len(c) = k
        BY <1>4, <1>5
      <3> HIDE DEF k
      <3>2. /\ q \in Seq(C) /\ Len(q) = e + k
            /\ \A i \in 1..e : q[i] = w[i]
            /\ \A i \in 1..k : q[e + i] = c[i]
        BY ONLY <3>1, InTwoParts
      <3> QED
        BY <3>2 DEF k
    <2> HIDE DEF q
    <2> QED
      BY <1>1, <2>1
  <1> HIDE DEF q
  <1>7. \A i \in 1..n : q[i] = t[i]
    <2>1. \A i \in 1..p : i \in 1..e /\ q[i] = t[i]
      BY <1>2, <1>5, <1>6
    <2>2. ASSUME NEW i \in 1..n, i > p, i <= e
          PROVE  q[i] = t[i]
      <3>1. i - p \in 1..(e - p) /\ p + (i - p) = i /\ i \in 1..e
        BY <1>1, <2>2
      <3> QED
        BY ZenonT(40), <1>3, <1>5, <1>6, <3>1
    <2>3. ASSUME NEW i \in 1..n, i > e
          PROVE  q[i] = t[i]
      <3>1. i - e \in 1..(n - e) /\ e + (i - e) = i
        BY <1>1, <2>3
      <3> QED
        BY <1>4, <1>6, <3>1
    <2>4. \A i \in 1..n : i \in 1..p \/ (i > p /\ i <= e) \/ i > e
      BY <1>1
    <2> QED
      BY <2>1, <2>2, <2>3, <2>4
  <1>8. q = t
    <2>1. Len(t) = n
      BY DEF n
    <2> QED
      BY <1>6, <1>7, <2>1, SeqEqual
  <1> QED
    BY <1>8 DEF q, w, a, b, c, n

\* Replacing one citation loses no word and doubles none.
LEMMA ReplacedKeeps ==
    ASSUME NEW s, s \in Seq(Chars), NEW cited, DOMAIN cited \subseteq Nat,
           \A k \in DOMAIN cited : cited[k].end \in Nat /\ cited[k].start < cited[k].end,
           NEW place \in Nat, NEW r \in Replacings(s, cited)
    PROVE  Answer!Replaced(r, place, cited) \in Replacings(s, cited)
  <1> DEFINE fit == {k \in DOMAIN cited : cited[k].start = place /\ cited[k].end <= r.floor}
             first == CHOOSE k \in fit : \A l \in fit : k <= l
             end == cited[first].end
             a == SubSeq(r.text, 1, place)
             b == SubSeq(r.text, place + 1, end)
             c == SubSeq(r.text, end + 1, Len(r.text))
  <1>1. CASE fit = {}
    BY <1>1 DEF Answer!Replaced
  <1>2. CASE fit # {}
    <2>1. first \in fit
      <3>1. fit \in SUBSET Nat
        OBVIOUS
      <3> HIDE DEF fit
      <3>2. \E k \in fit : \A l \in fit : k <= l
        BY <1>2, <3>1, LeastNat
      <3> QED
        BY <3>2
    <2>2. Answer!Replaced(r, place, cited) =
              [text |-> (a \o Answer!Linked(b)) \o c, floor |-> place]
      BY <1>2 DEF Answer!Replaced
    <2> HIDE DEF first, fit
    <2> DEFINE t == r.text
    <2>3. /\ t \in Seq(Chars) /\ r.floor \in Nat /\ r.floor <= Len(t)
          /\ Whole(Tracked, t, s, Len(s))
      BY DEF Replacings
    <2>4. end \in Nat /\ end <= Len(t) /\ place < end
      BY <2>1, <2>3 DEF fit
    <2> HIDE DEF end
    <2>5. a \in Seq(Chars) /\ b \in Seq(Chars) /\ c \in Seq(Chars) /\ Len(a) = place
      BY <2>3, <2>4
    <2>6. t = (a \o b) \o c
      <3> DEFINE t3 == t
      <3>1. t3 \in Seq(Chars) /\ end <= Len(t3) /\ place <= end
        BY <2>3, <2>4
      <3> HIDE DEF t3
      <3>2. t3 = (SubSeq(t3, 1, place) \o SubSeq(t3, place + 1, end))
                 \o SubSeq(t3, end + 1, Len(t3))
        BY <2>4, <3>1, InThree
      <3> QED
        BY <3>2 DEF t3
    <2> DEFINE l == Answer!Linked(b)
    <2>7. l \in Seq(Chars) /\ Whole(Tracked, l, b, Len(b))
      BY <2>5, LinkedKeeps
    <2> HIDE DEF l, a, b, c, t
    <2>8. a \o l \in Seq(Chars) /\ Whole(Tracked, a \o l, a \o b, Len(a \o b))
      BY <2>5, <2>7, WholeSelf, WholeConcat
    <2>9. a \o b \in Seq(Chars)
      BY <2>5, ConcatProperties
    <2> DEFINE x == a \o l  y == a \o b  z == x \o c
    <2>10. x \in Seq(Chars) /\ y \in Seq(Chars) /\ Whole(Tracked, x, y, Len(y)) /\ t = y \o c
      BY <2>6, <2>8, <2>9
    <2>11. place <= Len(z)
      <3>0. Len(x) = Len(a) + Len(l) /\ Len(z) = Len(x) + Len(c)
        <4>1. Len(x) = Len(a) + Len(l)
          BY <2>5, <2>7, ConcatProperties
        <4> HIDE DEF x
        <4>2. Len(x \o c) = Len(x) + Len(c)
          BY <2>5, <2>10, ConcatProperties
        <4> QED
          BY <4>1, <4>2
      <3>1. Len(z) = (place + Len(l)) + Len(c)
        BY <2>5, <3>0
      <3>2. Len(l) \in Nat /\ Len(c) \in Nat
        BY <2>5, <2>7
      <3> HIDE DEF z
      <3> QED
        BY <3>1, <3>2
    <2> HIDE DEF x, y
    <2>12. z \in Seq(Chars) /\ Whole(Tracked, z, t, Len(t))
      BY <2>5, <2>10, WholeSelf, WholeConcat
    <2>13. Whole(Tracked, z, s, Len(s))
      BY <2>3, <2>12, WholeThrough DEF t
    <2>14. Answer!Replaced(r, place, cited) = [text |-> z, floor |-> place]
      BY <2>2 DEF x, l
    <2> HIDE DEF z
    <2>15. DOMAIN cited # {}
      BY <2>1 DEF fit
    <2> QED
      BY <2>11, <2>12, <2>13, <2>14, <2>15 DEF Replacings
  <1> QED
    BY <1>1, <1>2

\* Replacing the citations loses no word and doubles none; without any the text
\* stays.
LEMMA CitedKeeps ==
    ASSUME NEW s, s \in Seq(Chars), NEW cited, DOMAIN cited \subseteq Nat,
           \A k \in DOMAIN cited : cited[k].end \in Nat /\ cited[k].start < cited[k].end
    PROVE  /\ Answer!Cited(s, cited) \in Seq(Chars)
           /\ Whole(Tracked, Answer!Cited(s, cited), s, Len(s))
           /\ DOMAIN cited = {} => Answer!Cited(s, cited) = s
  <1> DEFINE n == Len(s)
             V == [i \in 0..n |-> Replacings(s, cited)]
             b == [text |-> s, floor |-> n]
             step == [i \in 1..n |-> [r \in Replacings(s, cited) |->
                                         Answer!Replaced(r, n - i, cited)]]
             Body(g) == [i \in 0..n |-> IF i = 0 THEN b
                                        ELSE Answer!Replaced(g[i - 1], n - i, cited)]
             F == CHOOSE g : g = Body(g)
  <1>1. n \in Nat
    OBVIOUS
  <1>2. b \in Replacings(s, cited)
    BY WholeSelf DEF Replacings
  <1>3. Answer!Cited(s, cited) = F[n].text
    BY DEF Answer!Cited
  <1> HIDE DEF n, b
  <1>4. \A i \in 1..n : \A r \in Replacings(s, cited) :
            Answer!Replaced(r, n - i, cited) \in Replacings(s, cited)
    <2>1. \A i \in 1..n : n - i \in Nat
      BY <1>1
    <2> QED
      BY <2>1, ReplacedKeeps
  <1>5. \E f : f = Body(f)
    <2> DEFINE U == Replacings(s, cited)
    <2>1. 0 \in 0..n /\ \A i \in 1..n : i - 1 \in 0..n /\ i \in 0..n
      BY <1>1
    <2>2. Leads(n, U, V, b, step)
      BY <1>1, <1>2, <1>4, <2>1 DEF Leads
    <2>3. PICK f : /\ f \in [0..n -> U] /\ f[0] = b
                   /\ \A i \in 1..n : f[i] = step[i][f[i - 1]]
                   /\ \A i \in 0..n : f[i] \in V[i]
      <3> HIDE DEF V, U, step
      <3> QED
        BY <2>2, Walks DEF Walked
    <2>4. \A i \in 0..n : i # 0 => f[i] = Answer!Replaced(f[i - 1], n - i, cited)
      <3>1. \A i \in 0..n : i # 0 => i \in 1..n /\ i - 1 \in 0..n
        BY <1>1
      <3> QED
        BY <2>3, <3>1
    <2>5. f = Body(f)
      <3>1. f = [i \in 0..n |-> f[i]]
        BY <2>3
      <3> QED
        BY <2>3, <2>4, <3>1
    <2> QED
      BY <2>5
  <1>6. F = Body(F)
    <2> HIDE DEF Body
    <2> QED
      BY <1>5
  <1> HIDE DEF F
  <1>7. F[n] \in V[n]
    <2>1. 0 \in 0..n /\ \A i \in 1..n : i \in 0..n /\ i # 0 /\ i - 1 \in 0..n
      BY <1>1
    <2>2. F[0] = b /\ \A i \in 1..n : F[i] = Answer!Replaced(F[i - 1], n - i, cited)
      BY <1>6, <2>1
    <2>3. F[0] \in V[0] /\ \A i \in 1..n : F[i - 1] \in V[i - 1] => F[i] \in V[i]
      BY <1>2, <1>4, <2>1, <2>2
    <2> HIDE DEF V
    <2> QED
      BY <1>1, <2>3, WalkKeeps
  <1>8. F[n] \in Replacings(s, cited)
    BY <1>1, <1>7
  <1> QED
    BY <1>3, <1>8 DEF Replacings

\* A marker stands at two places of a text, or around a place.
Marks(s, a, b) == s[a] = "OPEN" /\ b \in Answer!Ends(s, a)
Cut(s, i) == \E a, b \in 1..Len(s) : Marks(s, a, b) /\ a < i /\ i < b

\* What is left of the first n places of s.
Strippings == [out : Seq(Chars), until : Nat]
StrippingsOf(s, n) ==
    {r \in Strippings :
        /\ Part(Tracked, r.out, s, n)
        /\ \A x \in Answer!Markers : ~Has(r.out, Len(r.out), x)
        /\ \A i \in 1..n : Answer!IsWord(s[i]) => Has(r.out, Len(r.out), s[i]) \/ Cut(s, i)
        /\ n < r.until => \E a \in 1..n : Marks(s, a, r.until)}

\* One place of the text: a word is kept or stands within a marker.
LEMMA StripKeeps ==
    ASSUME NEW s, s \in Seq(Chars), NEW n \in Nat, n + 1 <= Len(s), NEW r \in StrippingsOf(s, n)
    PROVE  Answer!Strip(s, r, n + 1) \in StrippingsOf(s, n + 1)
  <1> DEFINE x == s[n + 1]  out == r.out  until == r.until
  <1>1. /\ out \in Seq(Chars) /\ until \in Nat /\ r = [out |-> out, until |-> until]
        /\ Part(Tracked, out, s, n)
        /\ \A y \in Answer!Markers : ~Has(out, Len(out), y)
        /\ \A i \in 1..n : Answer!IsWord(s[i]) => Has(out, Len(out), s[i]) \/ Cut(s, i)
        /\ n < until => \E a \in 1..n : Marks(s, a, until)
    BY DEF StrippingsOf, Strippings
  <1>2. /\ Len(s) \in Nat /\ n + 1 \in 1..Len(s) /\ x \in Chars
        /\ \A i \in 1..n : i \in 1..(n + 1) /\ i \in 1..Len(s)
        /\ \A i \in 1..(n + 1) : i \in 1..n \/ i = n + 1
    BY DEF x
  <1>3. \A c \in Answer!Markers : ~Answer!IsWord(c)
    BY AnswerAssumption DEF Answer!IsWord, Answer!Signs
  <1> HIDE DEF x, out, until
  <1>4. Part(Tracked, out, s, n + 1)
    BY <1>1, PartStays
  \* The next place when nothing is put out.
  <1>5. ASSUME NEW u \in Nat, Answer!IsWord(x) => Cut(s, n + 1),
               n + 1 < u => \E a \in 1..(n + 1) : Marks(s, a, u)
        PROVE  [out |-> out, until |-> u] \in StrippingsOf(s, n + 1)
    BY <1>1, <1>2, <1>4, <1>5 DEF StrippingsOf, Strippings, x
  <1>6. CASE n + 1 <= until
    <2>1. PICK a \in 1..n : Marks(s, a, until)
      BY <1>1, <1>6
    <2>2. until \in 1..Len(s) /\ s[until] = "CLOSE"
      BY <1>2, <2>1 DEF Marks, Answer!Ends
    <2>3. Answer!IsWord(x) => n + 1 # until
      BY <1>3, <2>2 DEF Answer!Markers, x
    <2>4. Answer!IsWord(x) => Cut(s, n + 1)
      <3>1. n + 1 # until => n + 1 < until /\ a < n + 1 /\ a \in 1..Len(s)
        BY <1>1, <1>2, <1>6
      <3> QED
        BY <2>1, <2>2, <2>3, <3>1 DEF Cut
    <2>5. a \in 1..(n + 1)
      BY <1>2
    <2>6. Answer!Strip(s, r, n + 1) = [out |-> out, until |-> until]
      BY <1>1, <1>6 DEF Answer!Strip, until
    <2> QED
      BY <1>1, <1>5, <2>1, <2>4, <2>5, <2>6
  <1>7. CASE ~(n + 1 <= until) /\ x = "OPEN" /\ Answer!Ends(s, n + 1) # {}
    <2> DEFINE E == Answer!Ends(s, n + 1)  u == CHOOSE j \in E : \A k \in E : j <= k
    <2>1. E \subseteq Nat /\ E # {}
      BY <1>2, <1>7 DEF Answer!Ends
    <2>2. u \in E
      <3> HIDE DEF E
      <3>1. \E j \in E : \A k \in E : j <= k
        BY <2>1, LeastNat
      <3> QED
        BY <3>1
    <2>3. Answer!Strip(s, r, n + 1) = [out |-> out, until |-> u]
      BY <1>7 DEF Answer!Strip, x, out, until
    <2> HIDE DEF u
    <2>4. u \in Nat /\ Marks(s, n + 1, u)
      BY <1>7, <2>1, <2>2 DEF Marks, x
    <2>5. n + 1 \in 1..(n + 1) /\ ~Answer!IsWord(x)
      BY <1>2, <1>3, <1>7 DEF Answer!Markers
    <2> QED
      BY <1>5, <2>3, <2>4, <2>5
  <1>8. CASE ~(n + 1 <= until) /\ x \in Answer!Markers /\ ~(x = "OPEN" /\ Answer!Ends(s, n + 1) # {})
    <2>1. Answer!Strip(s, r, n + 1) = [out |-> out, until |-> until]
      <3>1. Answer!Strip(s, r, n + 1) = r
        BY <1>8 DEF Answer!Strip, x, until
      <3> QED
        BY <1>1, <3>1
    <2>2. ~Answer!IsWord(x) /\ ~(n + 1 < until)
      BY <1>1, <1>3, <1>8
    <2> QED
      BY <1>1, <1>5, <2>1, <2>2
  <1>9. CASE ~(n + 1 <= until) /\ x \notin Answer!Markers
    <2> DEFINE o == Append(out, x)
    <2>1. Answer!Strip(s, r, n + 1) = [out |-> o, until |-> until]
      BY <1>9 DEF Answer!Strip, x, out, until, Answer!Markers
    <2>2. o \in Seq(Chars)
      BY <1>1, <1>2, AppendProperties
    <2>3. Part(Tracked, o, s, n + 1)
      BY <1>1, <1>2, PartAppend DEF x
    <2>4. Has(o, Len(o), x) /\ \A y : Has(out, Len(out), y) => Has(o, Len(o), y)
      BY <1>1, <1>2, HasAppend
    <2>5. \A y \in Answer!Markers : ~Has(o, Len(o), y)
      <3>1. /\ Len(o) = Len(out) + 1 /\ Len(out) \in Nat /\ o[Len(out) + 1] = x
            /\ \A i \in 1..Len(out) : o[i] = out[i]
        BY <1>1, <1>2, AppendProperties
      <3> HIDE DEF o
      <3>2. ASSUME NEW y \in Answer!Markers, Has(o, Len(o), y)
            PROVE  Has(out, Len(out), y)
        <4>1. PICK i \in 1..(Len(out) + 1) : o[i] = y
          BY <3>1, <3>2 DEF Has
        <4>2. i # Len(out) + 1
          BY <1>9, <3>1, <4>1
        <4>3. i \in 1..Len(out)
          BY <3>1, <4>2
        <4> QED
          BY <3>1, <4>1, <4>3 DEF Has
      <3> QED
        BY <1>1, <3>2
    <2>6. \A i \in 1..(n + 1) : Answer!IsWord(s[i]) => Has(o, Len(o), s[i]) \/ Cut(s, i)
      <3> HIDE DEF o
      <3> QED
        BY <1>1, <1>2, <2>4 DEF x
    <2>7. ~(n + 1 < until)
      BY <1>1, <1>9
    <2> HIDE DEF o
    <2> QED
      BY <1>1, <2>1, <2>2, <2>3, <2>5, <2>6, <2>7 DEF StrippingsOf, Strippings
  <1> QED
    BY <1>6, <1>7, <1>8, <1>9

\* Of a text without its markers: no marker is left, and each word but those within
\* a marker.
LEMMA StrippedKeeps ==
    ASSUME NEW s, s \in Seq(Chars)
    PROVE  LET t == Answer!Stripped(s) IN
           /\ t \in Seq(Chars) /\ Part(Tracked, t, s, Len(s))
           /\ \A x \in Answer!Markers : ~Has(t, Len(t), x)
           /\ \A i \in 1..Len(s) : Answer!IsWord(s[i]) => Has(t, Len(t), s[i]) \/ Cut(s, i)
  <1> DEFINE n == Len(s)
             U == Strippings
             V == [i \in 0..n |-> StrippingsOf(s, i)]
             b == [out |-> <<>>, until |-> 0]
             step == [i \in 1..n |-> [r \in U |-> Answer!Strip(s, r, i)]]
             Body(g) == [i \in 0..n |-> IF i = 0 THEN b ELSE Answer!Strip(s, g[i - 1], i)]
             F == CHOOSE g : g = Body(g)
  <1>1. /\ n \in Nat /\ 0 \in 0..n
        /\ \A i \in 1..n : i \in 0..n /\ i # 0 /\ i - 1 \in Nat /\ (i - 1) + 1 = i
        /\ \A i \in 1..n : i - 1 \in 0..n
        /\ \A i \in 0..n : i # 0 => i \in 1..n
    OBVIOUS
  <1>2. b \in StrippingsOf(s, 0)
    <2>1. <<>> \in Seq(Chars) /\ Len(<<>>) = 0
      BY EmptySeq
    <2> QED
      BY <2>1 DEF StrippingsOf, Strippings, Part, Has, Precedes
  <1>3. Answer!Stripped(s) = F[n].out
    BY DEF Answer!Stripped
  <1>4. \A i \in 1..n : \A r \in StrippingsOf(s, i - 1) :
            Answer!Strip(s, r, i) \in StrippingsOf(s, i)
    <2>1. ASSUME NEW i \in 1..n, NEW r \in StrippingsOf(s, i - 1)
          PROVE  Answer!Strip(s, r, i) \in StrippingsOf(s, i)
      <3> DEFINE k == i - 1
      <3>1. k \in Nat /\ k + 1 = i /\ k + 1 <= Len(s) /\ r \in StrippingsOf(s, k)
        BY <1>1
      <3> HIDE DEF k
      <3> QED
        BY <3>1, StripKeeps
    <2> QED
      BY <2>1
  <1> HIDE DEF n, b
  <1>5. \A i \in 0..n : StrippingsOf(s, i) \subseteq U
    BY DEF StrippingsOf
  <1> HIDE DEF U
  <1>6. \E f : f = Body(f)
    <2>1. Leads(n, U, V, b, step)
      BY <1>1, <1>2, <1>4, <1>5 DEF Leads
    <2>2. PICK f : /\ f \in [0..n -> U] /\ f[0] = b
                   /\ \A i \in 1..n : f[i] = step[i][f[i - 1]]
                   /\ \A i \in 0..n : f[i] \in V[i]
      <3> HIDE DEF V, step
      <3> QED
        BY <2>1, Walks DEF Walked
    <2>3. \A i \in 0..n : i # 0 => f[i] = Answer!Strip(s, f[i - 1], i)
      BY <1>1, <2>2
    <2>4. f = Body(f)
      <3>1. f = [i \in 0..n |-> f[i]]
        BY <2>2
      <3> QED
        BY <2>2, <2>3, <3>1
    <2> QED
      BY <2>4
  <1>7. F = Body(F)
    <2> HIDE DEF Body
    <2> QED
      BY <1>6
  <1> HIDE DEF F
  <1>8. F[n] \in V[n]
    <2>1. F[0] = b /\ \A i \in 1..n : F[i] = Answer!Strip(s, F[i - 1], i)
      BY <1>1, <1>7
    <2>2. F[0] \in V[0] /\ \A i \in 1..n : F[i - 1] \in V[i - 1] => F[i] \in V[i]
      BY <1>1, <1>2, <1>4, <2>1
    <2> HIDE DEF V
    <2> QED
      BY <1>1, <2>2, WalkKeeps
  <1>9. F[n] \in StrippingsOf(s, n)
    BY <1>1, <1>8
  <1> QED
    BY <1>3, <1>9 DEF StrippingsOf, Strippings, n

\* What the first n places of s are without the tags; one that is skipped is the "&".
Untaggings == [out : Seq(Chars), skip : BOOLEAN]
UntaggingsOf(s, n) ==
    {r \in Untaggings : /\ Whole(Tracked, r.out, s, n)
                        /\ r.skip => n < Len(s) /\ s[n + 1] = "&"}

\* What a place of the text leaves of it, by its parts.
LEMMA UntaggingIs ==
    ASSUME NEW s, NEW n, NEW o \in Seq(Chars), NEW skip \in BOOLEAN, Whole(Tracked, o, s, n),
           skip => n < Len(s) /\ s[n + 1] = "&"
    PROVE  [out |-> o, skip |-> skip] \in UntaggingsOf(s, n)
  <1> DEFINE r == [out |-> o, skip |-> skip]
  <1>1. r \in Untaggings
    BY DEF Untaggings
  <1>2. r.out = o /\ (r.skip => skip)
    OBVIOUS
  <1> HIDE DEF r
  <1>3. r \in UntaggingsOf(s, n)
    BY <1>1, <1>2 DEF UntaggingsOf
  <1> QED
    BY <1>3 DEF r

\* One place of the text: a tag goes, and no word.
LEMMA UntagKeeps ==
    ASSUME NEW s, s \in Seq(Chars), NEW n \in Nat, n + 1 <= Len(s), NEW r \in UntaggingsOf(s, n)
    PROVE  Answer!Untag(s, r, n + 1) \in UntaggingsOf(s, n + 1)
  <1> DEFINE x == s[n + 1]  out == r.out
  <1>1. /\ out \in Seq(Chars) /\ Whole(Tracked, out, s, n)
        /\ r.skip \in BOOLEAN /\ (r.skip => x = "&")
    BY DEF UntaggingsOf, Untaggings
  <1>2. x \in Chars /\ n + 1 \in 1..Len(s)
    BY DEF x
  <1>3. {"TAG", "&", "?"} \cap Tracked = {}
    BY PlainSigns
  <1> HIDE DEF x, out
  <1>4. CASE r.skip
    <2>1. Whole(Tracked, out, s, n + 1)
      BY <1>1, <1>3, <1>4, WholeStays DEF x
    <2>2. Answer!Untag(s, r, n + 1) = [out |-> out, skip |-> FALSE]
      BY <1>4 DEF Answer!Untag, out
    <2> QED
      BY <1>1, <2>1, <2>2, UntaggingIs
  <1>5. CASE ~r.skip /\ (x # "TAG" \/ out = <<>> \/ Answer!Last(out) \notin {"?", "&"})
    <2> DEFINE o == Append(out, x)
    <2>1. Answer!Untag(s, r, n + 1) = [out |-> o, skip |-> FALSE]
      BY <1>5 DEF Answer!Untag, out, x
    <2>2. o \in Seq(Chars)
      BY <1>1, <1>2, AppendProperties
    <2>3. Whole(Tracked, o, s, n + 1)
      BY <1>1, <1>2, WholeAppend DEF x
    <2> HIDE DEF o
    <2> QED
      BY <2>1, <2>2, <2>3, UntaggingIs
  <1>6. CASE ~r.skip /\ x = "TAG" /\ out # <<>> /\ Answer!Last(out) \in {"?", "&"}
    <2>1. Whole(Tracked, out, s, n + 1)
      BY <1>1, <1>3, <1>6, WholeStays DEF x
    <2>2. CASE Answer!Last(out) = "?" /\ n + 1 < Len(s) /\ s[(n + 1) + 1] = "&"
      <3>1. Answer!Untag(s, r, n + 1) = [out |-> out, skip |-> TRUE]
        BY <1>6, <2>2 DEF Answer!Untag, out, x
      <3> QED
        BY <1>1, <2>1, <2>2, <3>1, UntaggingIs
    <2>3. CASE ~(Answer!Last(out) = "?" /\ n + 1 < Len(s) /\ s[(n + 1) + 1] = "&")
      <3> DEFINE o == Answer!Front(out)
      <3>1. Answer!Untag(s, r, n + 1) = [out |-> o, skip |-> FALSE]
        BY <1>6, <2>3 DEF Answer!Untag, out, x
      <3>2. out[Len(out)] \notin Tracked
        BY <1>3, <1>6 DEF Answer!Last
      <3>3. o \in Seq(Chars) /\ Whole(Tracked, o, s, n + 1)
        BY <1>1, <1>6, <2>1, <3>2, WholeFront
      <3> HIDE DEF o
      <3> QED
        BY <3>1, <3>3, UntaggingIs
    <2> QED
      BY <2>2, <2>3
  <1> QED
    BY <1>4, <1>5, <1>6

\* The tags go, and no word.
LEMMA UntaggedKeeps ==
    ASSUME NEW s, s \in Seq(Chars)
    PROVE  \E r \in UntaggingsOf(s, Len(s)) : Answer!Untagged(s) = r.out
  <1> DEFINE n == Len(s)
             U == Untaggings
             V == [i \in 0..n |-> UntaggingsOf(s, i)]
             b == [out |-> <<>>, skip |-> FALSE]
             step == [i \in 1..n |-> [r \in U |-> Answer!Untag(s, r, i)]]
             Body(g) == [i \in 0..n |-> IF i = 0 THEN b ELSE Answer!Untag(s, g[i - 1], i)]
             F == CHOOSE g : g = Body(g)
  <1>1. /\ n \in Nat /\ 0 \in 0..n
        /\ \A i \in 1..n : i \in 0..n /\ i # 0 /\ i - 1 \in Nat /\ (i - 1) + 1 = i
        /\ \A i \in 1..n : i - 1 \in 0..n
        /\ \A i \in 0..n : i # 0 => i \in 1..n
    OBVIOUS
  <1>2. b \in UntaggingsOf(s, 0)
    <2>1. <<>> \in Seq(Chars) /\ Len(<<>>) = 0
      BY EmptySeq
    <2> QED
      BY <2>1 DEF UntaggingsOf, Untaggings, Whole, Part, Has, Precedes
  <1>3. Answer!Untagged(s) = F[n].out
    BY DEF Answer!Untagged
  <1>4. \A i \in 1..n : \A r \in UntaggingsOf(s, i - 1) :
            Answer!Untag(s, r, i) \in UntaggingsOf(s, i)
    <2>1. ASSUME NEW i \in 1..n, NEW r \in UntaggingsOf(s, i - 1)
          PROVE  Answer!Untag(s, r, i) \in UntaggingsOf(s, i)
      <3> DEFINE k == i - 1
      <3>1. k \in Nat /\ k + 1 = i /\ k + 1 <= Len(s) /\ r \in UntaggingsOf(s, k)
        BY <1>1
      <3> HIDE DEF k
      <3> QED
        BY <3>1, UntagKeeps
    <2> QED
      BY <2>1
  <1> HIDE DEF n, b
  <1>5. \A i \in 0..n : UntaggingsOf(s, i) \subseteq U
    BY DEF UntaggingsOf
  <1> HIDE DEF U
  <1>6. \E f : f = Body(f)
    <2>1. Leads(n, U, V, b, step)
      BY <1>1, <1>2, <1>4, <1>5 DEF Leads
    <2>2. PICK f : /\ f \in [0..n -> U] /\ f[0] = b
                   /\ \A i \in 1..n : f[i] = step[i][f[i - 1]]
                   /\ \A i \in 0..n : f[i] \in V[i]
      <3> HIDE DEF V, step
      <3> QED
        BY <2>1, Walks DEF Walked
    <2>3. \A i \in 0..n : i # 0 => f[i] = Answer!Untag(s, f[i - 1], i)
      BY <1>1, <2>2
    <2>4. f = Body(f)
      <3>1. f = [i \in 0..n |-> f[i]]
        BY <2>2
      <3> QED
        BY <2>2, <2>3, <3>1
    <2> QED
      BY <2>4
  <1>7. F = Body(F)
    <2> HIDE DEF Body
    <2> QED
      BY <1>6
  <1> HIDE DEF F
  <1>8. F[n] \in V[n]
    <2>1. F[0] = b /\ \A i \in 1..n : F[i] = Answer!Untag(s, F[i - 1], i)
      BY <1>1, <1>7
    <2>2. F[0] \in V[0] /\ \A i \in 1..n : F[i - 1] \in V[i - 1] => F[i] \in V[i]
      BY <1>1, <1>2, <1>4, <2>1
    <2> HIDE DEF V
    <2> QED
      BY <1>1, <2>2, WalkKeeps
  <1>9. F[n] \in UntaggingsOf(s, n)
    BY <1>1, <1>8
  <1> QED
    BY <1>3, <1>9 DEF n

\* Where a link's address starts, and that it is closed before the next parenthesis
\* opens, or before the end.
LinkAt(t, i) == 1 < i /\ t[i - 1] = "]" /\ t[i] = "("
Closer(c) == c \in {")"} \cup Answer!White
Links(t) ==
    \A i, j \in 1..Len(t) : LinkAt(t, i) /\ i < j /\ t[j] = "(" =>
        \E k \in (i + 1)..(j - 1) : Closer(t[k])
Settled(t) ==
    \A i \in 1..Len(t) : LinkAt(t, i) => \E k \in (i + 1)..Len(t) : Closer(t[k])

\* A character more opens no second parenthesis in a link that is open.
LEMMA LinksAppend ==
    ASSUME NEW C, NEW t, t \in Seq(C), NEW c \in C, Links(t), c # "(" \/ Settled(t)
    PROVE  Links(Append(t, c))
  <1> DEFINE u == Append(t, c)  m == Len(t)
  <1>1. /\ m \in Nat /\ Len(u) = m + 1 /\ u[m + 1] = c /\ \A i \in 1..m : u[i] = t[i]
    BY AppendProperties
  <1>2. /\ \A i, j \in 1..m : LinkAt(t, i) /\ i < j /\ t[j] = "(" =>
               \E k \in (i + 1)..(j - 1) : Closer(t[k])
        /\ c = "(" => \A i \in 1..m : LinkAt(t, i) => \E k \in (i + 1)..m : Closer(t[k])
    BY DEF Links, Settled
  <1> HIDE DEF u, m
  <1>3. ASSUME NEW i \in 1..(m + 1), NEW j \in 1..(m + 1), LinkAt(u, i), i < j, u[j] = "("
        PROVE  \E k \in (i + 1)..(j - 1) : Closer(u[k])
    <2>1. i \in 1..m /\ (j \in 1..m \/ j = m + 1) /\ (1 < i => i - 1 \in 1..m)
      BY <1>1, <1>3
    <2>2. LinkAt(t, i)
      BY <1>1, <1>3, <2>1 DEF LinkAt
    <2>3. CASE j \in 1..m
      <3>1. PICK k \in (i + 1)..(j - 1) : Closer(t[k])
        BY <1>1, <1>2, <1>3, <2>1, <2>2, <2>3
      <3>2. k \in 1..m
        BY <1>1, <2>1, <2>3
      <3> QED
        BY <1>1, <3>1, <3>2
    <2>4. CASE j = m + 1
      <3>1. PICK k \in (i + 1)..m : Closer(t[k])
        BY <1>1, <1>2, <1>3, <2>1, <2>2, <2>4
      <3>2. k \in 1..m /\ k \in (i + 1)..(j - 1)
        BY <1>1, <2>1, <2>4
      <3> QED
        BY <1>1, <3>1, <3>2
    <2> QED
      BY <2>1, <2>3, <2>4
  <1>4. Links(u)
    BY <1>1, <1>3 DEF Links
  <1> QED
    BY <1>4 DEF u

\* A character more leaves all links closed, or closes them, unless it opens one.
LEMMA SettledAppend ==
    ASSUME NEW C, NEW t, t \in Seq(C), NEW c \in C,
           Closer(c) \/ (Settled(t) /\ ~(c = "(" /\ t # <<>> /\ t[Len(t)] = "]"))
    PROVE  Settled(Append(t, c))
  <1> DEFINE u == Append(t, c)  m == Len(t)
  <1>1. /\ m \in Nat /\ Len(u) = m + 1 /\ u[m + 1] = c /\ \A i \in 1..m : u[i] = t[i]
    BY AppendProperties
  <1>2. m = 0 => t = <<>>
    BY EmptySeq
  <1>3. \/ Closer(c)
        \/ /\ \A i \in 1..m : LinkAt(t, i) => \E k \in (i + 1)..m : Closer(t[k])
           /\ c = "(" /\ m # 0 => t[m] # "]"
    BY <1>2 DEF Settled
  <1>4. c = "(" => ~Closer(c)
    BY DEF Closer, Answer!White
  <1> HIDE DEF u, m
  <1>5. ASSUME NEW i \in 1..(m + 1), LinkAt(u, i)
        PROVE  \E k \in (i + 1)..(m + 1) : Closer(u[k])
    <2>1. CASE i = m + 1
      <3>1. c = "(" /\ m # 0 /\ m \in 1..m /\ u[m] = "]"
        BY <1>1, <1>5, <2>1 DEF LinkAt
      <3> QED
        BY <1>1, <1>3, <1>4, <3>1
    <2>2. CASE i # m + 1
      <3>1. i \in 1..m /\ m + 1 \in (i + 1)..(m + 1) /\ (1 < i => i - 1 \in 1..m)
        BY <1>1, <2>2
      <3>2. LinkAt(t, i)
        BY <1>1, <1>5, <3>1 DEF LinkAt
      <3>3. CASE Closer(c)
        BY <1>1, <3>1, <3>3
      <3>4. CASE ~Closer(c)
        <4>1. PICK k \in (i + 1)..m : Closer(t[k])
          BY <1>3, <3>1, <3>2, <3>4
        <4>2. k \in 1..m /\ k \in (i + 1)..(m + 1)
          BY <1>1, <3>1
        <4> QED
          BY <1>1, <4>1, <4>2
      <3> QED
        BY <3>3, <3>4
    <2> QED
      BY <2>1, <2>2
  <1>6. Settled(u)
    BY <1>1, <1>5 DEF Settled
  <1> QED
    BY <1>6 DEF u

\* What the first n places of s are with their addresses encoded.
Encodings == [out : Seq(Chars), depth : Nat]
EncodingsOf(s, n) ==
    {r \in Encodings : /\ Whole(Tracked, r.out, s, n)
                       /\ Links(r.out)
                       /\ r.depth = 0 => Settled(r.out)}

\* One character: in an address its parentheses are encoded.
LEMMA EncodeKeeps ==
    ASSUME NEW s, s \in Seq(Chars), NEW n \in Nat, n + 1 <= Len(s), NEW r \in EncodingsOf(s, n)
    PROVE  Answer!Encode(r, s[n + 1]) \in EncodingsOf(s, n + 1)
  <1> DEFINE x == s[n + 1]  out == r.out  depth == r.depth
  <1>1. /\ out \in Seq(Chars) /\ Whole(Tracked, out, s, n) /\ depth \in Nat
        /\ Links(out) /\ (depth = 0 => Settled(out))
    BY DEF EncodingsOf, Encodings
  <1>2. x \in Chars
    <2>1. n + 1 \in 1..Len(s)
      OBVIOUS
    <2> QED
      BY <2>1 DEF x
  <1>3. {"%", "(", ")"} \cap Tracked = {} /\ "%" \in Chars
    BY PlainSigns
  <1> HIDE DEF x, out, depth
  \* What is put out, and the depth behind it.
  <1>4. ASSUME NEW c \in Chars, NEW d \in Nat, c \in Tracked \/ x \in Tracked => c = x,
               c # "(" \/ depth = 0,
               d = 0 => \/ Closer(c)
                        \/ depth = 0 /\ ~(c = "(" /\ out # <<>> /\ Answer!Last(out) = "]")
        PROVE  [out |-> Append(out, c), depth |-> d] \in EncodingsOf(s, n + 1)
    <2> DEFINE o == Append(out, c)
    <2>1. o \in Seq(Chars)
      BY <1>1, AppendProperties
    <2>2. Whole(Tracked, o, s, n + 1)
      BY <1>1, <1>4, WholeAppend DEF x
    <2>3. Links(o)
      BY <1>1, <1>4, LinksAppend
    <2>4. d = 0 => Settled(o)
      BY <1>1, <1>4, SettledAppend DEF Answer!Last
    <2> HIDE DEF o
    <2> DEFINE e == [out |-> o, depth |-> d]
    <2>5. e \in Encodings /\ e.out = o /\ e.depth = d
      BY <2>1 DEF Encodings
    <2> HIDE DEF e
    <2>6. e \in EncodingsOf(s, n + 1)
      BY <2>2, <2>3, <2>4, <2>5 DEF EncodingsOf
    <2> QED
      BY <2>6 DEF e, o
  <1>5. CASE depth = 0
    <2> DEFINE d == IF x = "(" /\ out # <<>> /\ Answer!Last(out) = "]" THEN 1 ELSE 0
    <2>1. Answer!Encode(r, x) = [out |-> Append(out, x), depth |-> d]
      BY <1>5 DEF Answer!Encode, out, depth
    <2>2. d \in Nat /\ (d = 0 => ~(x = "(" /\ out # <<>> /\ Answer!Last(out) = "]"))
      OBVIOUS
    <2> HIDE DEF d
    <2> QED
      BY <1>2, <1>4, <1>5, <2>1, <2>2 DEF x
  <1>6. CASE depth # 0 /\ x \in Answer!White
    <2>1. Answer!Encode(r, x) = [out |-> Append(out, x), depth |-> 0]
      BY <1>6 DEF Answer!Encode, out, depth, Answer!White
    <2>2. Closer(x) /\ x # "("
      BY <1>6 DEF Closer, Answer!White
    <2> QED
      BY <1>2, <1>4, <2>1, <2>2 DEF x
  <1>7. CASE depth # 0 /\ x = "("
    <2>1. Answer!Encode(r, x) = [out |-> Append(out, "%"), depth |-> depth + 1]
      BY <1>7 DEF Answer!Encode, out, depth, Answer!White
    <2>2. depth + 1 \in Nat /\ depth + 1 # 0
      BY <1>1
    <2> QED
      BY <1>3, <1>4, <1>7, <2>1, <2>2 DEF x
  <1>8. CASE depth # 0 /\ x = ")"
    <2> DEFINE c == IF depth = 1 THEN ")" ELSE "%"
    <2>1. Answer!Encode(r, x) = [out |-> Append(out, c), depth |-> depth - 1]
      BY <1>8 DEF Answer!Encode, out, depth, Answer!White
    <2>2. /\ depth - 1 \in Nat /\ (depth - 1 = 0 => Closer(c))
          /\ c \in Chars /\ c # "(" /\ c \notin Tracked
      BY <1>1, <1>2, <1>3, <1>8 DEF Closer
    <2> HIDE DEF c
    <2> QED
      BY <1>3, <1>4, <1>8, <2>1, <2>2 DEF x
  <1>9. CASE depth # 0 /\ x \notin Answer!White /\ x # "(" /\ x # ")"
    <2>1. Answer!Encode(r, x) = [out |-> Append(out, x), depth |-> depth]
      BY <1>9 DEF Answer!Encode, out, depth, Answer!White
    <2> QED
      BY <1>1, <1>2, <1>4, <1>9, <2>1 DEF x
  <1> QED
    BY <1>5, <1>6, <1>7, <1>8, <1>9 DEF x

\* The parentheses of addresses are encoded, and no word is lost.
LEMMA EncodedKeeps ==
    ASSUME NEW s, s \in Seq(Chars)
    PROVE  \E r \in EncodingsOf(s, Len(s)) : Answer!Encoded(s) = r.out
  <1> DEFINE n == Len(s)
             U == Encodings
             V == [i \in 0..n |-> EncodingsOf(s, i)]
             b == [out |-> <<>>, depth |-> 0]
             step == [i \in 1..n |-> [r \in U |-> Answer!Encode(r, s[i])]]
             Body(g) == [i \in 0..n |-> IF i = 0 THEN b ELSE Answer!Encode(g[i - 1], s[i])]
             F == CHOOSE g : g = Body(g)
  <1>1. /\ n \in Nat /\ 0 \in 0..n
        /\ \A i \in 1..n : i \in 0..n /\ i # 0 /\ i - 1 \in Nat /\ (i - 1) + 1 = i
        /\ \A i \in 1..n : i - 1 \in 0..n
        /\ \A i \in 0..n : i # 0 => i \in 1..n
    OBVIOUS
  <1>2. b \in EncodingsOf(s, 0)
    <2>1. <<>> \in Seq(Chars) /\ Len(<<>>) = 0
      BY EmptySeq
    <2> QED
      BY <2>1 DEF EncodingsOf, Encodings, Whole, Part, Has, Precedes, Links, Settled
  <1>3. Answer!Encoded(s) = F[n].out
    BY DEF Answer!Encoded
  <1>4. \A i \in 1..n : \A r \in EncodingsOf(s, i - 1) :
            Answer!Encode(r, s[i]) \in EncodingsOf(s, i)
    <2>1. ASSUME NEW i \in 1..n, NEW r \in EncodingsOf(s, i - 1)
          PROVE  Answer!Encode(r, s[i]) \in EncodingsOf(s, i)
      <3> DEFINE k == i - 1
      <3>1. k \in Nat /\ k + 1 = i /\ k + 1 <= Len(s) /\ r \in EncodingsOf(s, k)
        BY <1>1
      <3> HIDE DEF k
      <3> QED
        BY <3>1, EncodeKeeps
    <2> QED
      BY <2>1
  <1> HIDE DEF n, b
  <1>5. \A i \in 0..n : EncodingsOf(s, i) \subseteq U
    BY DEF EncodingsOf
  <1> HIDE DEF U
  <1>6. \E f : f = Body(f)
    <2>1. Leads(n, U, V, b, step)
      BY <1>1, <1>2, <1>4, <1>5 DEF Leads
    <2>2. PICK f : /\ f \in [0..n -> U] /\ f[0] = b
                   /\ \A i \in 1..n : f[i] = step[i][f[i - 1]]
                   /\ \A i \in 0..n : f[i] \in V[i]
      <3> HIDE DEF V, step
      <3> QED
        BY <2>1, Walks DEF Walked
    <2>3. \A i \in 0..n : i # 0 => f[i] = Answer!Encode(f[i - 1], s[i])
      BY <1>1, <2>2
    <2>4. f = Body(f)
      <3>1. f = [i \in 0..n |-> f[i]]
        BY <2>2
      <3> QED
        BY <2>2, <2>3, <3>1
    <2> QED
      BY <2>4
  <1>7. F = Body(F)
    <2> HIDE DEF Body
    <2> QED
      BY <1>6
  <1> HIDE DEF F
  <1>8. F[n] \in V[n]
    <2>1. F[0] = b /\ \A i \in 1..n : F[i] = Answer!Encode(F[i - 1], s[i])
      BY <1>1, <1>7
    <2>2. F[0] \in V[0] /\ \A i \in 1..n : F[i - 1] \in V[i - 1] => F[i] \in V[i]
      BY <1>1, <1>2, <1>4, <2>1
    <2> HIDE DEF V
    <2> QED
      BY <1>1, <2>2, WalkKeeps
  <1>9. F[n] \in EncodingsOf(s, n)
    BY <1>1, <1>8
  <1> QED
    BY <1>3, <1>9 DEF n

\* What the first n places of s are without those that may go.
Remainders == Seq(Chars)
RemaindersOf(s, n, places) == {t \in Remainders : Whole(Tracked, t, s, n)}

Left(s, t, n, places) == IF n \in places THEN t ELSE Append(t, s[n])

\* One place of the text: left out or kept.
LEMMA LeftKeeps ==
    ASSUME NEW s, s \in Seq(Chars), NEW places, \A i \in places : s[i] \notin Tracked,
           NEW n \in Nat, n + 1 <= Len(s), NEW t \in RemaindersOf(s, n, places)
    PROVE  Left(s, t, n + 1, places) \in RemaindersOf(s, n + 1, places)
  <1>1. t \in Seq(Chars) /\ Whole(Tracked, t, s, n) /\ s[n + 1] \in Chars
    <2>1. n + 1 \in 1..Len(s)
      OBVIOUS
    <2> QED
      BY <2>1 DEF RemaindersOf, Remainders
  <1>2. CASE n + 1 \in places
    BY <1>1, <1>2, WholeStays DEF Left, RemaindersOf, Remainders
  <1>3. CASE n + 1 \notin places
    <2> DEFINE u == Append(t, s[n + 1])
    <2>1. u \in Seq(Chars) /\ Whole(Tracked, u, s, n + 1)
      BY <1>1, AppendProperties, WholeAppend
    <2>2. Left(s, t, n + 1, places) = u
      BY <1>3 DEF Left
    <2> HIDE DEF u
    <2> QED
      BY <2>1, <2>2 DEF RemaindersOf, Remainders
  <1> QED
    BY <1>2, <1>3

\* Leaving out places of signs loses no word.
LEMMA WithoutKeeps ==
    ASSUME NEW s, s \in Seq(Chars), NEW places, \A i \in places : s[i] \notin Tracked
    PROVE  \E r \in RemaindersOf(s, Len(s), places) : Answer!Without(s, places) = r
  <1> DEFINE n == Len(s)
             U == Remainders
             V == [i \in 0..n |-> RemaindersOf(s, i, places)]
             b == <<>>
             step == [i \in 1..n |-> [r \in U |-> Left(s, r, i, places)]]
             Body(g) == [i \in 0..n |-> IF i = 0 THEN b ELSE Left(s, g[i - 1], i, places)]
             F == CHOOSE g : g = Body(g)
  <1>1. /\ n \in Nat /\ 0 \in 0..n
        /\ \A i \in 1..n : i \in 0..n /\ i # 0 /\ i - 1 \in Nat /\ (i - 1) + 1 = i
        /\ \A i \in 1..n : i - 1 \in 0..n
        /\ \A i \in 0..n : i # 0 => i \in 1..n
    OBVIOUS
  <1>2. b \in RemaindersOf(s, 0, places)
    <2>1. <<>> \in Seq(Chars) /\ Len(<<>>) = 0
      BY EmptySeq
    <2> QED
      BY <2>1 DEF RemaindersOf, Remainders, Whole, Part, Has, Precedes
  <1>3. Answer!Without(s, places) = F[n]
    BY DEF Answer!Without, Left
  <1>4. \A i \in 1..n : \A r \in RemaindersOf(s, i - 1, places) :
            Left(s, r, i, places) \in RemaindersOf(s, i, places)
    <2>1. ASSUME NEW i \in 1..n, NEW r \in RemaindersOf(s, i - 1, places)
          PROVE  Left(s, r, i, places) \in RemaindersOf(s, i, places)
      <3> DEFINE k == i - 1
      <3>1. k \in Nat /\ k + 1 = i /\ k + 1 <= Len(s) /\ r \in RemaindersOf(s, k, places)
        BY <1>1
      <3> HIDE DEF k
      <3> QED
        BY <3>1, LeftKeeps
    <2> QED
      BY <2>1
  <1> HIDE DEF n, b
  <1>5. \A i \in 0..n : RemaindersOf(s, i, places) \subseteq U
    BY DEF RemaindersOf
  <1> HIDE DEF U
  <1>6. \E f : f = Body(f)
    <2>1. Leads(n, U, V, b, step)
      BY <1>1, <1>2, <1>4, <1>5 DEF Leads
    <2>2. PICK f : /\ f \in [0..n -> U] /\ f[0] = b
                   /\ \A i \in 1..n : f[i] = step[i][f[i - 1]]
                   /\ \A i \in 0..n : f[i] \in V[i]
      <3> HIDE DEF V, step
      <3> QED
        BY <2>1, Walks DEF Walked
    <2>3. \A i \in 0..n : i # 0 => f[i] = Left(s, f[i - 1], i, places)
      BY <1>1, <2>2
    <2>4. f = Body(f)
      <3>1. f = [i \in 0..n |-> f[i]]
        BY <2>2
      <3> QED
        BY <2>2, <2>3, <3>1
    <2> QED
      BY <2>4
  <1>7. F = Body(F)
    <2> HIDE DEF Body
    <2> QED
      BY <1>6
  <1> HIDE DEF F
  <1>8. F[n] \in V[n]
    <2>1. F[0] = b /\ \A i \in 1..n : F[i] = Left(s, F[i - 1], i, places)
      BY <1>1, <1>7
    <2>2. F[0] \in V[0] /\ \A i \in 1..n : F[i - 1] \in V[i - 1] => F[i] \in V[i]
      BY <1>1, <1>2, <1>4, <2>1
    <2> HIDE DEF V
    <2> QED
      BY <1>1, <2>2, WalkKeeps
  <1>9. F[n] \in RemaindersOf(s, n, places)
    BY <1>1, <1>8
  <1> QED
    BY <1>3, <1>9 DEF n

\* Tidying loses no word.
LEMMA TidiedKeeps ==
    ASSUME NEW s, s \in Seq(Chars)
    PROVE  Answer!Tidied(s) \in Seq(Chars) /\ Whole(Tracked, Answer!Tidied(s), s, Len(s))
  <1> DEFINE Follower(t, i) == IF i < Len(t) THEN t[i + 1] ELSE ""
             doubled == {i \in DOMAIN s : s[i] = " " /\ Follower(s, i) = " "}
             single == Answer!Without(s, doubled)
             loose == {i \in DOMAIN single :
                           /\ single[i] = " "
                           /\ \/ Follower(single, i) \in {".", "\n"}
                              \/ i > 1 /\ single[i - 1] = "\n"}
             tight == Answer!Without(single, loose)
             full == {i \in DOMAIN tight : tight[i] \notin Answer!White}
             last == CHOOSE i \in full : \A j \in full : i >= j
  <1>1. " " \notin Tracked /\ Answer!White \cap Tracked = {}
    BY PlainSigns DEF Answer!White
  <1>2. Answer!Tidied(s) = IF full = {} THEN <<>> ELSE SubSeq(tight, 1, last)
    BY DEF Answer!Tidied
  <1>3. single \in Seq(Chars) /\ Whole(Tracked, single, s, Len(s))
    <2>1. \A i \in doubled : s[i] \notin Tracked
      BY <1>1
    <2> HIDE DEF doubled
    <2> QED
      BY <2>1, WithoutKeeps DEF RemaindersOf, Remainders
  <1> HIDE DEF single
  <1>4. tight \in Seq(Chars) /\ Whole(Tracked, tight, s, Len(s))
    <2>1. \A i \in loose : single[i] \notin Tracked
      BY <1>1
    <2> HIDE DEF loose
    <2>2. tight \in Seq(Chars) /\ Whole(Tracked, tight, single, Len(single))
      BY <1>3, <2>1, WithoutKeeps DEF RemaindersOf, Remainders
    <2> QED
      BY <1>3, <2>2, WholeThrough
  <1> HIDE DEF tight
  <1>5. /\ Len(tight) \in Nat /\ full \subseteq 1..Len(tight)
        /\ \A i \in 1..Len(tight) : i \notin full => tight[i] \notin Tracked
    <2>1. Len(tight) \in Nat /\ DOMAIN tight = 1..Len(tight)
      BY <1>4
    <2>2. \A i \in DOMAIN tight : i \notin full => tight[i] \in Answer!White
      OBVIOUS
    <2>3. full \subseteq DOMAIN tight
      OBVIOUS
    <2> HIDE DEF full
    <2>4. \A i \in DOMAIN tight : i \notin full => tight[i] \notin Tracked
      BY <1>1, <2>2
    <2> QED
      BY <2>1, <2>3, <2>4
  <1> HIDE DEF full
  <1>6. CASE full = {}
    <2>1. Whole(Tracked, <<>>, tight, Len(tight))
      <3>1. \A i \in 1..Len(<<>>) : <<>>[i] \notin Tracked
        OBVIOUS
      <3> QED
        BY <1>5, <1>6, <3>1, WholeOfNone
    <2>2. Whole(Tracked, <<>>, s, Len(s))
      BY <1>4, <2>1, WholeThrough
    <2> QED
      BY <1>2, <1>6, <2>2, EmptySeq
  <1>7. CASE full # {}
    <2>1. last \in full /\ \A j \in full : last >= j
      <3>1. \E i \in full : \A j \in full : i >= j
        BY <1>5, <1>7, GreatestNat
      <3> QED
        BY <3>1
    <2> HIDE DEF last
    <2> DEFINE t == SubSeq(tight, 1, last)
    <2>2. /\ 1 \in 1..Len(tight) /\ last \in 0..Len(tight) /\ 1 <= last + 1
          /\ \A i \in 1..Len(tight) : i < 1 \/ last < i => tight[i] \notin Tracked
      <3>1. last \in 1..Len(tight)
        BY <1>5, <2>1
      <3>2. \A i \in 1..Len(tight) : last < i => i \notin full
        BY <2>1, <3>1
      <3> QED
        BY <1>5, <3>1, <3>2
    <2>3. t \in Seq(Chars) /\ Whole(Tracked, t, tight, Len(tight))
      BY <1>4, <2>2, WholeSub
    <2> HIDE DEF t
    <2>4. Whole(Tracked, t, s, Len(s))
      BY <1>4, <2>3, WholeThrough
    <2> QED
      BY <1>2, <1>7, <2>3, <2>4 DEF t
  <1> QED
    BY <1>6, <1>7

\* What is shown of a text with its citations: no marker; what is looked for in its
\* order; all words but those that are cut off with a marker; and closed links.
LEMMA CleanKeeps ==
    ASSUME NEW s, s \in Seq(Chars), NEW cited, DOMAIN cited \subseteq Nat,
           \A k \in DOMAIN cited : cited[k].end \in Nat /\ cited[k].start < cited[k].end
    PROVE  LET t == Answer!Clean(s, cited) IN
           /\ t \in Seq(Chars) /\ Part(Tracked, t, s, Len(s))
           /\ \A x \in Answer!Markers : ~Has(t, Len(t), x)
           /\ \A i \in 1..Len(s) : Answer!IsWord(s[i]) =>
                  \/ Has(t, Len(t), s[i])
                  \/ /\ Precedes(s, Len(s), "OPEN", s[i])
                     /\ Precedes(s, Len(s), s[i], "CLOSE")
                     /\ DOMAIN cited = {} => Cut(s, i)
           /\ (\A x \in Answer!Markers : ~Has(s, Len(s), x)) => Links(t)
  <1> DEFINE joined == Answer!Cited(s, cited)
             stripped == Answer!Stripped(joined)
             untagged == Answer!Untagged(stripped)
             encoded == Answer!Encoded(untagged)
             tidied == Answer!Tidied(encoded)
             marked == \E i \in DOMAIN joined : joined[i] \in Answer!Markers
             t == IF marked THEN tidied ELSE encoded
  <1>1. /\ joined \in Seq(Chars) /\ Whole(Tracked, joined, s, Len(s))
        /\ DOMAIN cited = {} => joined = s
    BY CitedKeeps
  <1>2. Answer!Clean(s, cited) = t
    BY DEF Answer!Clean
  <1> HIDE DEF joined
  <1>3. /\ stripped \in Seq(Chars) /\ Part(Tracked, stripped, joined, Len(joined))
        /\ \A x \in Answer!Markers : ~Has(stripped, Len(stripped), x)
        /\ \A i \in 1..Len(joined) : Answer!IsWord(joined[i]) =>
               Has(stripped, Len(stripped), joined[i]) \/ Cut(joined, i)
    BY <1>1, StrippedKeeps
  <1> HIDE DEF stripped
  <1>4. untagged \in Seq(Chars) /\ Whole(Tracked, untagged, stripped, Len(stripped))
    BY <1>3, UntaggedKeeps DEF UntaggingsOf, Untaggings
  <1> HIDE DEF untagged
  <1>5. /\ encoded \in Seq(Chars) /\ Links(encoded)
        /\ Whole(Tracked, encoded, untagged, Len(untagged))
    BY <1>4, EncodedKeeps DEF EncodingsOf, Encodings
  <1> HIDE DEF encoded
  <1>6. tidied \in Seq(Chars) /\ Whole(Tracked, tidied, encoded, Len(encoded))
    BY <1>5, TidiedKeeps
  <1> HIDE DEF tidied
  <1>7. t \in Seq(Chars) /\ Whole(Tracked, t, stripped, Len(stripped))
    <2>1. Whole(Tracked, encoded, stripped, Len(stripped))
      BY <1>4, <1>5, WholeThrough
    <2>2. Whole(Tracked, tidied, stripped, Len(stripped))
      BY <1>6, <2>1, WholeThrough
    <2> QED
      BY <1>5, <1>6, <2>1, <2>2
  <1>8. Part(Tracked, t, s, Len(s))
    <2>1. Part(Tracked, t, stripped, Len(stripped)) /\ Part(Tracked, joined, s, Len(s))
      BY <1>1, <1>7 DEF Whole
    <2> HIDE DEF t
    <2> QED
      BY <1>3, <2>1 DEF Part
  <1>9. /\ Answer!Markers \subseteq Tracked /\ {"OPEN", "CLOSE"} \subseteq Tracked
        /\ \A c : Answer!IsWord(c) => c \in Tracked
    BY DEF Tracked, Answer!Markers, Answer!IsWord
  <1>10. \A x \in Answer!Markers : ~Has(t, Len(t), x)
    <2> HIDE DEF t
    <2> QED
      BY <1>3, <1>7, <1>9 DEF Whole, Part
  <1>11. ASSUME NEW i \in 1..Len(s), Answer!IsWord(s[i]), ~Has(t, Len(t), s[i])
         PROVE  /\ Precedes(s, Len(s), "OPEN", s[i])
                /\ Precedes(s, Len(s), s[i], "CLOSE")
                /\ DOMAIN cited = {} => Cut(s, i)
    <2> DEFINE w == s[i]
    <2>1. w \in Tracked /\ Has(s, Len(s), w)
      BY <1>9, <1>11 DEF Has
    <2>2. Has(joined, Len(joined), w)
      BY <1>1, <2>1 DEF Whole
    <2>3. ~Has(stripped, Len(stripped), w)
      <3> HIDE DEF t
      <3> QED
        BY <1>7, <1>11, <2>1 DEF Whole
    <2>4. \A j \in 1..Len(joined) : joined[j] = w => Cut(joined, j)
      BY <1>3, <1>11, <2>3
    <2>5. PICK j \in 1..Len(joined) : joined[j] = w
      BY <2>2 DEF Has
    <2> HIDE DEF w, t
    <2>6. PICK a \in 1..Len(joined), b \in 1..Len(joined) :
              Marks(joined, a, b) /\ a < j /\ j < b
      BY <2>4, <2>5 DEF Cut
    <2>7. joined[a] = "OPEN" /\ joined[b] = "CLOSE"
      BY <2>6 DEF Marks, Answer!Ends
    <2>8. Precedes(joined, Len(joined), "OPEN", w) /\ Precedes(joined, Len(joined), w, "CLOSE")
      BY <2>5, <2>6, <2>7 DEF Precedes
    <2>9. Precedes(s, Len(s), "OPEN", w) /\ Precedes(s, Len(s), w, "CLOSE")
      BY <1>1, <1>9, <2>1, <2>8 DEF Whole, Part
    <2>10. DOMAIN cited = {} => Cut(s, i)
      BY <1>1, <2>4 DEF w
    <2> QED
      BY <2>9, <2>10 DEF w
  <1>12. ASSUME \A x \in Answer!Markers : ~Has(s, Len(s), x)
         PROVE  Links(t)
    <2>1. \A x \in Answer!Markers : ~Has(joined, Len(joined), x)
      BY <1>1, <1>9, <1>12 DEF Whole, Part
    <2>2. ~marked
      <3>1. DOMAIN joined = 1..Len(joined)
        BY <1>1
      <3> QED
        BY <2>1, <3>1 DEF Has
    <2> HIDE DEF marked
    <2> QED
      BY <1>5, <2>2
  <1> HIDE DEF t
  <1> QED
    BY <1>2, <1>7, <1>8, <1>10, <1>11, <1>12

\* The order in which the model says the words.
Earlier(v, w) == \E a, b \in DOMAIN Words : a < b /\ Words[a] = v /\ Words[b] = w

\* A text that is being said has the words that were said, in their order.
AnswerTypes ==
    /\ text \in Seq(Chars) /\ said \in 0..Len(Words)
    /\ spans \in Seq([start : Nat, end : Nat])
    /\ \A k \in DOMAIN spans : spans[k].start < spans[k].end
InTurn(t, n) ==
    /\ \A i \in 1..Len(t) : Answer!IsWord(t[i]) => \E a \in 1..n : Words[a] = t[i]
    /\ \A i, j \in 1..Len(t) : i < j /\ Answer!IsWord(t[i]) /\ Answer!IsWord(t[j]) =>
           Earlier(t[i], t[j])
AnswerInv == AnswerTypes /\ InTurn(text, said) /\ Answer!AnswerIsReadable

\* An answer begins in the invariant.
LEMMA AnswerBegins == Answer!Init => AnswerInv
  <1> SUFFICES ASSUME Answer!Init
               PROVE  AnswerInv
    OBVIOUS
  <1>1. text = <<>> /\ said = 0 /\ spans = <<>> /\ shown = <<>>
    BY DEF Answer!Init
  <1>2. Len(Words) \in Nat
    BY AnswerAssumption
  <1>3. <<>> \in Seq(Chars) /\ <<>> \in Seq([start : Nat, end : Nat]) /\ Len(<<>>) = 0
        /\ DOMAIN <<>> = {}
    BY EmptySeq
  <1>4. AnswerTypes
    BY <1>1, <1>2, <1>3 DEF AnswerTypes
  <1>5. InTurn(text, said)
    BY <1>1, <1>3 DEF InTurn
  <1> QED
    BY <1>1, <1>4, <1>5 DEF AnswerInv, Answer!AnswerIsReadable

\* A word of the text is at one place of it.
LEMMA OneTurn ==
    ASSUME AnswerTypes, InTurn(text, said),
           NEW i \in 1..Len(text), NEW j \in 1..Len(text),
           Answer!IsWord(text[i]), text[i] = text[j]
    PROVE  i = j
  <1>1. \A v : ~Earlier(v, v)
    <2>1. DOMAIN Words \subseteq Nat
      BY AnswerAssumption
    <2> QED
      BY <2>1, AnswerAssumption DEF Earlier
  <1>2. ~(i < j) /\ ~(j < i)
    BY <1>1 DEF InTurn
  <1> QED
    BY <1>2 DEF AnswerTypes

\* A piece of what the model says has the next word, at most once.
LEMMA PieceInTurn ==
    ASSUME AnswerTypes, said < Len(Words), NEW piece \in Pieces
    PROVE  LET u == [i \in DOMAIN piece |-> IF piece[i] = "word" THEN Words[said + 1]
                                            ELSE piece[i]]
           IN  /\ u \in Seq(Chars)
               /\ \A i \in 1..Len(u) : Answer!IsWord(u[i]) => u[i] = Words[said + 1]
               /\ \A i, j \in 1..Len(u) :
                      Answer!IsWord(u[i]) /\ Answer!IsWord(u[j]) => i = j
  <1> DEFINE next == Words[said + 1]
             u == [i \in DOMAIN piece |-> IF piece[i] = "word" THEN next ELSE piece[i]]
  <1>1. next \in Answer!ToSet(Words)
    <2>1. said + 1 \in 1..Len(Words)
      BY AnswerAssumption DEF AnswerTypes
    <2> QED
      BY <2>1, AnswerAssumption DEF Answer!ToSet
  <1>2. /\ piece \in Seq(Answer!Signs \cup {"word"})
        /\ \A i, j \in DOMAIN piece : piece[i] = "word" /\ piece[j] = "word" => i = j
    BY AnswerAssumption
  <1> HIDE DEF next
  <1>3. DOMAIN piece = 1..Len(piece) /\ Len(piece) \in Nat
        /\ \A i \in 1..Len(piece) : piece[i] \in Answer!Signs \cup {"word"}
    BY <1>2
  <1>4. \A i \in 1..Len(piece) : piece[i] # "word" => ~Answer!IsWord(piece[i])
    BY <1>3, AnswerAssumption DEF Answer!IsWord
  <1>5. \A i \in 1..Len(piece) : u[i] = IF piece[i] = "word" THEN next ELSE piece[i]
    BY <1>3
  <1>6. u \in Seq(Chars) /\ Len(u) = Len(piece)
    <2>1. \A i \in 1..Len(piece) : u[i] \in Chars
      <3> HIDE DEF u
      <3> QED
        BY <1>1, <1>3, <1>5 DEF Chars
    <2>2. u = [i \in 1..Len(piece) |-> u[i]]
      BY <1>3
    <2> HIDE DEF u
    <2> QED
      BY <1>3, <2>1, <2>2
  <1> HIDE DEF u
  <1>7. /\ \A i \in 1..Len(u) : Answer!IsWord(u[i]) => u[i] = next
        /\ \A i, j \in 1..Len(u) : Answer!IsWord(u[i]) /\ Answer!IsWord(u[j]) => i = j
    BY <1>2, <1>3, <1>4, <1>5, <1>6
  <1> QED
    BY <1>6, <1>7 DEF u, next

\* What the model says keeps the words in turn.
LEMMA SayKeeps ==
    ASSUME AnswerInv, Answer!Say
    PROVE  AnswerInv'
  <1>1. PICK piece \in Pieces :
            text' = text \o [i \in DOMAIN piece |-> IF piece[i] = "word" THEN Words[said + 1]
                                                    ELSE piece[i]]
    BY DEF Answer!Say
  <1> DEFINE u == [i \in DOMAIN piece |-> IF piece[i] = "word" THEN Words[said + 1]
                                          ELSE piece[i]]
             m == Len(text)  k == Len(u)
  <1>2. /\ shown = <<>> /\ said < Len(Words) /\ said' = said + 1 /\ UNCHANGED <<spans, shown>>
        /\ text' = text \o u
    BY <1>1 DEF Answer!Say
  <1>3. /\ text \in Seq(Chars) /\ said \in 0..Len(Words) /\ Len(Words) \in Nat
        /\ DOMAIN Words = 1..Len(Words)
    BY AnswerAssumption DEF AnswerInv, AnswerTypes
  <1>4. /\ u \in Seq(Chars)
        /\ \A i \in 1..k : Answer!IsWord(u[i]) => u[i] = Words[said + 1]
        /\ \A i, j \in 1..k : Answer!IsWord(u[i]) /\ Answer!IsWord(u[j]) => i = j
    BY <1>2, PieceInTurn DEF AnswerInv
  <1> HIDE DEF u
  <1>5. /\ text' \in Seq(Chars) /\ Len(text') = m + k /\ m \in Nat /\ k \in Nat
        /\ \A i \in 1..m : text'[i] = text[i]
        /\ \A i \in 1..k : text'[m + i] = u[i]
    <2>1. /\ text \o u \in Seq(Chars) /\ Len(text \o u) = m + k
          /\ \A i \in 1..m : (text \o u)[i] = text[i]
          /\ \A i \in 1..k : (text \o u)[m + i] = u[i]
      BY <1>3, <1>4, InTwoParts
    <2>2. m \in Nat /\ k \in Nat
      BY <1>3, <1>4
    <2> QED
      BY <1>2, <2>1, <2>2
  <1>6. /\ \A i \in 1..m : Answer!IsWord(text[i]) => \E a \in 1..said : Words[a] = text[i]
        /\ \A i, j \in 1..m : i < j /\ Answer!IsWord(text[i]) /\ Answer!IsWord(text[j]) =>
               Earlier(text[i], text[j])
    BY DEF AnswerInv, InTurn
  <1> HIDE DEF m, k
  <1>7. \A i \in 1..(m + k) : i \in 1..m \/ (i - m \in 1..k /\ m + (i - m) = i)
    BY <1>5
  <1>8. ASSUME NEW i \in 1..(m + k), Answer!IsWord(text'[i])
        PROVE  \E a \in 1..(said + 1) : Words[a] = text'[i]
    <2>1. CASE i \in 1..m
      <3>1. PICK a \in 1..said : Words[a] = text[i]
        BY <1>5, <1>6, <1>8, <2>1
      <3>2. a \in 1..(said + 1)
        BY <1>3
      <3> QED
        BY <1>5, <2>1, <3>1, <3>2
    <2>2. CASE i - m \in 1..k /\ m + (i - m) = i
      <3>1. text'[i] = Words[said + 1]
        BY <1>4, <1>5, <1>8, <2>2
      <3>2. said + 1 \in 1..(said + 1)
        BY <1>3
      <3> QED
        BY <3>1, <3>2
    <2> QED
      BY <1>7, <2>1, <2>2
  <1>9. ASSUME NEW i \in 1..(m + k), NEW j \in 1..(m + k), i < j,
               Answer!IsWord(text'[i]), Answer!IsWord(text'[j])
        PROVE  Earlier(text'[i], text'[j])
    <2>1. CASE j \in 1..m
      <3>1. i \in 1..m
        BY <1>5, <1>9, <2>1
      <3> QED
        BY <1>5, <1>6, <1>9, <2>1, <3>1
    <2>2. CASE i \in 1..m /\ ~(j \in 1..m)
      <3>1. PICK a \in 1..said : Words[a] = text[i]
        BY <1>5, <1>6, <1>9, <2>2
      <3>2. j - m \in 1..k /\ text'[j] = Words[said + 1]
        BY <1>4, <1>5, <1>7, <1>9, <2>2
      <3>3. a \in DOMAIN Words /\ said + 1 \in DOMAIN Words /\ a < said + 1
        BY <1>2, <1>3
      <3> QED
        BY <1>5, <2>2, <3>1, <3>2, <3>3 DEF Earlier
    <2>3. CASE ~(i \in 1..m)
      <3>1. /\ i - m \in 1..k /\ m + (i - m) = i /\ j - m \in 1..k /\ m + (j - m) = j
            /\ i - m # j - m
        BY <1>5, <1>9, <2>3
      <3>2. Answer!IsWord(u[i - m]) /\ Answer!IsWord(u[j - m])
        BY <1>5, <1>9, <3>1
      <3> QED
        BY <1>4, <3>1, <3>2
    <2> QED
      BY <2>1, <2>2, <2>3
  <1>10. InTurn(text', said + 1)
    BY <1>5, <1>8, <1>9 DEF InTurn
  <1>11. AnswerTypes'
    <2>1. said + 1 \in 0..Len(Words)
      BY <1>2, <1>3
    <2> QED
      BY <1>2, <1>5, <2>1 DEF AnswerInv, AnswerTypes
  <1>12. Answer!AnswerIsReadable'
    BY <1>2 DEF Answer!AnswerIsReadable
  <1> QED
    BY <1>2, <1>10, <1>11, <1>12 DEF AnswerInv, InTurn

\* A citation is about a part of the text.
LEMMA CiteKeeps ==
    ASSUME AnswerInv, Answer!Cite
    PROVE  AnswerInv'
  <1>1. PICK start \in 0..Len(text), length \in 1..MaxSpan :
            spans' = Append(spans, [start |-> start, end |-> start + length])
    BY DEF Answer!Cite
  <1>2. shown = <<>> /\ UNCHANGED <<text, said, shown>>
    BY DEF Answer!Cite
  <1> DEFINE c == [start |-> start, end |-> start + length]
             C == [start : Nat, end : Nat]
             n == Len(spans)
  <1>3. c \in C /\ c.start < c.end
    <2>1. start \in Nat /\ start + length \in Nat /\ start < start + length
      BY AnswerAssumption
    <2> QED
      BY <2>1
  <1>4. spans \in Seq(C) /\ \A k \in DOMAIN spans : spans[k].start < spans[k].end
    BY DEF AnswerInv, AnswerTypes
  <1>5. spans' = Append(spans, c)
    BY <1>1
  <1> HIDE DEF c, C
  <1>6. /\ spans' \in Seq(C) /\ n \in Nat
        /\ DOMAIN spans' = 1..(n + 1) /\ DOMAIN spans = 1..n
        /\ spans'[n + 1] = c /\ \A k \in 1..n : spans'[k] = spans[k]
    BY <1>3, <1>4, <1>5, AppendProperties
  <1>7. \A k \in DOMAIN spans' : spans'[k].start < spans'[k].end
    BY <1>3, <1>4, <1>6
  <1>8. AnswerTypes'
    BY <1>2, <1>6, <1>7 DEF AnswerInv, AnswerTypes, C
  <1> QED
    BY <1>2, <1>8 DEF AnswerInv, InTurn, Answer!AnswerIsReadable

\* What is shown is readable.
LEMMA ShowKeeps ==
    ASSUME AnswerInv, Answer!Show
    PROVE  AnswerInv'
  <1> DEFINE t == Answer!Clean(text, spans)
  <1>1. UNCHANGED <<text, said, spans>> /\ (shown' = <<>> \/ shown' = t)
    BY DEF Answer!Show
  <1>2. /\ text \in Seq(Chars) /\ DOMAIN spans \subseteq Nat
        /\ DOMAIN text = 1..Len(text)
        /\ \A k \in DOMAIN spans : spans[k].end \in Nat /\ spans[k].start < spans[k].end
        /\ (spans = <<>> => DOMAIN spans = {})
    <2> DEFINE C == [start : Nat, end : Nat]
    <2>1. /\ text \in Seq(Chars) /\ spans \in Seq(C)
          /\ \A k \in DOMAIN spans : spans[k].start < spans[k].end
      BY DEF AnswerInv, AnswerTypes
    <2>2. \A c \in C : c.end \in Nat
      OBVIOUS
    <2> HIDE DEF C
    <2>3. DOMAIN spans = 1..Len(spans) /\ Len(spans) \in Nat
      BY <2>1
    <2>4. \A k \in DOMAIN spans : spans[k] \in C
      BY <2>1, <2>3
    <2>5. spans = <<>> => DOMAIN spans = {}
      BY <2>3
    <2> QED
      BY <2>1, <2>2, <2>3, <2>4, <2>5
  <1>3. /\ t \in Seq(Chars) /\ Part(Tracked, t, text, Len(text))
        /\ \A x \in Answer!Markers : ~Has(t, Len(t), x)
        /\ \A i \in 1..Len(text) : Answer!IsWord(text[i]) =>
               \/ Has(t, Len(t), text[i])
               \/ /\ Precedes(text, Len(text), "OPEN", text[i])
                  /\ Precedes(text, Len(text), text[i], "CLOSE")
                  /\ DOMAIN spans = {} => Cut(text, i)
        /\ (\A x \in Answer!Markers : ~Has(text, Len(text), x)) => Links(t)
    BY <1>2, CleanKeeps
  <1>4. DOMAIN t = 1..Len(t)
    BY <1>3
  <1> HIDE DEF t
  <1>5. ASSUME NEW i \in 1..Len(t), NEW j \in 1..Len(t), i < j,
               Answer!IsWord(t[i]), Answer!IsWord(t[j])
        PROVE  Earlier(t[i], t[j])
    <2>1. t[i] \in Tracked /\ t[j] \in Tracked /\ Precedes(t, Len(t), t[i], t[j])
      BY <1>5 DEF Tracked, Answer!IsWord, Precedes
    <2>2. Precedes(text, Len(text), t[i], t[j])
      BY <1>3, <2>1 DEF Part
    <2>3. PICK k \in 1..Len(text), l \in 1..Len(text) :
              k < l /\ text[k] = t[i] /\ text[l] = t[j]
      BY <2>2 DEF Precedes
    <2> QED
      BY <1>5, <2>3 DEF AnswerInv, InTurn
  <1>6. ASSUME NEW i \in 1..Len(text), Answer!IsWord(text[i]), ~Has(t, Len(t), text[i])
        PROVE  \E a, b \in 1..Len(text) :
                   /\ text[a] = "OPEN" /\ text[b] = "CLOSE" /\ a < i /\ i < b
                   /\ spans = <<>> => b <= a + Reach
    <2>1. CASE spans = <<>>
      <3>1. PICK a \in 1..Len(text), b \in 1..Len(text) : Marks(text, a, b) /\ a < i /\ i < b
        BY <1>2, <1>3, <1>6, <2>1 DEF Cut
      <3> QED
        BY <3>1 DEF Marks, Answer!Ends
    <2>2. CASE spans # <<>>
      <3>1. PICK a \in 1..Len(text), k \in 1..Len(text) :
                a < k /\ text[a] = "OPEN" /\ text[k] = text[i]
        BY <1>3, <1>6 DEF Precedes
      <3>2. PICK l \in 1..Len(text), b \in 1..Len(text) :
                l < b /\ text[l] = text[i] /\ text[b] = "CLOSE"
        BY <1>3, <1>6 DEF Precedes
      <3>3. i = k /\ i = l
        BY <1>6, <3>1, <3>2, OneTurn DEF AnswerInv
      <3> QED
        BY <2>2, <3>1, <3>2, <3>3
    <2> QED
      BY <2>1, <2>2
  <1>7. CASE shown' = <<>>
    BY <1>1, <1>7 DEF AnswerInv, AnswerTypes, InTurn, Answer!AnswerIsReadable
  <1>8. CASE shown' = t
    <2>1. \A c : c \in Answer!ToSet(t) <=> Has(t, Len(t), c)
      BY <1>4 DEF Answer!ToSet, Has
    <2>2. Answer!ToSet(t) \cap Answer!Markers = {}
      BY <1>3, <2>1
    <2>3. \A c : c \in Answer!ToSet(text) <=> Has(text, Len(text), c)
      BY <1>2 DEF Answer!ToSet, Has
    <2>4. Answer!ToSet(text) \cap Answer!Markers = {} =>
              \A i, j \in 1..Len(t) :
                  1 < i /\ i < j /\ t[i - 1] = "]" /\ t[i] = "(" /\ t[j] = "("
                  => \E k \in (i + 1)..(j - 1) : t[k] \in {")"} \cup Answer!White
      BY <1>3, <2>3 DEF Links, LinkAt, Closer
    <2>5. /\ \A i, j \in DOMAIN t :
               i < j /\ Answer!IsWord(t[i]) /\ Answer!IsWord(t[j]) =>
                   \E a, b \in DOMAIN Words : a < b /\ Words[a] = t[i] /\ Words[b] = t[j]
      BY <1>4, <1>5 DEF Earlier
    <2>6. \A i \in DOMAIN text :
              Answer!IsWord(text[i])
              /\ ~(\E a, b \in DOMAIN text :
                       /\ text[a] = "OPEN" /\ text[b] = "CLOSE" /\ a < i /\ i < b
                       /\ spans = <<>> => b <= a + Reach)
              => text[i] \in Answer!ToSet(t)
      BY <1>2, <1>6, <2>1
    <2>7. Answer!AnswerIsReadable'
      BY <1>1, <1>4, <1>8, <2>2, <2>4, <2>5, <2>6 DEF Answer!AnswerIsReadable
    <2> QED
      BY <1>1, <2>7 DEF AnswerInv, AnswerTypes, InTurn
  <1> QED
    BY <1>1, <1>7, <1>8

\* Each step of an answer keeps the invariant.
LEMMA AnswerStep ==
    ASSUME AnswerInv, [Answer!Next]_answerVars
    PROVE  AnswerInv'
  <1>1. CASE UNCHANGED answerVars
    <2>1. text' = text /\ said' = said /\ spans' = spans /\ shown' = shown
      BY <1>1 DEF answerVars
    <2>2. AnswerTypes'
      BY <2>1 DEF AnswerInv, AnswerTypes
    <2>3. InTurn(text, said)'
      BY <2>1 DEF AnswerInv, InTurn
    <2>4. Answer!AnswerIsReadable'
      BY <2>1 DEF AnswerInv, Answer!AnswerIsReadable
    <2> QED
      BY <2>2, <2>3, <2>4 DEF AnswerInv
  <1> QED
    BY <1>1, SayKeeps, CiteKeeps, ShowKeeps DEF Answer!Next
=============================================================================
