---------------------------- MODULE SequenceLemmas ----------------------------
(***************************************************************************)
(* What the proofs need of sequences put together from pieces: least       *)
(* elements, induction over a sequence, and the laws of FlattenSeq.  The   *)
(* theorem modules state induction with an operator as a parameter; here   *)
(* it is stated with a set.                                                *)
(***************************************************************************)
EXTENDS Integers, SequencesExt, FiniteSetTheorems, WellFoundedInduction, TLAPS

-----------------------------------------------------------------------------
(* Least elements, and induction over a sequence.                          *)

LEMMA NatLeast ==
    ASSUME NEW T, T \subseteq Nat, T # {}
    PROVE  \E x \in T : \A y \in T : x <= y
<1> DEFINE U == {0 .. n : n \in T}
<1>1. IsWellFoundedOn(StrictSubsetOrdering(Nat), FiniteSubsetsOf(Nat))
  BY FS_StrictSubsetOrderingWellFounded
<1>2. U \subseteq FiniteSubsetsOf(Nat) /\ U # {}
  <2>1. ASSUME NEW n \in T
        PROVE  0 .. n \in FiniteSubsetsOf(Nat)
    <3>1. IsFiniteSet(0 .. n)
      BY FS_Interval
    <3> QED
      BY <3>1 DEF FiniteSubsetsOf
  <2> QED
    BY <2>1
<1>3. PICK X \in U : \A Y \in U : ~ (<<Y, X>> \in StrictSubsetOrdering(Nat))
  <2> HIDE DEF U
  <2> QED
    BY <1>1, <1>2, WFMin
<1>4. PICK x \in T : X = 0 .. x
  OBVIOUS
<1>5. ASSUME NEW y \in T, y < x
      PROVE  FALSE
  <2>1. /\ 0 .. y \subseteq 0 .. x /\ x \in 0 .. x /\ x \notin 0 .. y
        /\ 0 .. y \in SUBSET Nat /\ 0 .. x \in SUBSET Nat
    BY <1>5
  <2>2. <<0 .. y, X>> \in StrictSubsetOrdering(Nat)
    BY <1>4, <2>1 DEF StrictSubsetOrdering
  <2> QED
    BY <1>3, <2>2
<1> QED
  BY <1>5

LEMMA SeqInduction ==
    ASSUME NEW S, NEW G, <<>> \in G, \A s \in Seq(S), x \in S : s \in G => Append(s, x) \in G
    PROVE  Seq(S) \subseteq G
<1> SUFFICES ASSUME NEW t \in Seq(S) PROVE t \in G
  OBVIOUS
<1>1. PICK n \in Nat : n = Len(t) /\ DOMAIN t = 1 .. n
  OBVIOUS
<1> DEFINE T == {m \in 0 .. n : SubSeq(t, 1, m) \notin G}
<1>2. T = {}
  <2> SUFFICES ASSUME T # {} PROVE FALSE
    OBVIOUS
  <2>1. PICK m \in T : \A k \in T : m <= k
    <3>1. T \subseteq Nat
      OBVIOUS
    <3> HIDE DEF T
    <3> QED
      BY <3>1, NatLeast
  <2>2. m \in 0 .. n /\ SubSeq(t, 1, m) \notin G
    OBVIOUS
  <2>3. m # 0
    <3>1. SubSeq(t, 1, 0) = <<>>
      OBVIOUS
    <3> QED
      BY <2>2, <3>1
  <2>4. PICK l \in 0 .. n : l + 1 = m
    <3>1. m - 1 \in 0 .. n /\ (m - 1) + 1 = m
      BY <2>2, <2>3
    <3> QED
      BY <3>1
  <2>5. l \notin T
    <3>1. ~(m <= l)
      BY <2>4
    <3> HIDE DEF T
    <3> QED
      BY <2>1, <3>1
  <2>6. PICK s : s = SubSeq(t, 1, l)
    OBVIOUS
  <2>7. s \in Seq(S) /\ s \in G /\ t[m] \in S
    BY <1>1, <2>2, <2>3, <2>4, <2>5, <2>6
  <2>8. SubSeq(t, 1, m) = Append(s, t[m])
    <3>1. m \in 1 .. n /\ l = m - 1
      BY <2>2, <2>3, <2>4
    <3> QED
      BY <1>1, <2>6, <3>1
  <2>9. Append(s, t[m]) \in G
    BY <2>7
  <2> QED
    BY <2>2, <2>8, <2>9
<1>3. n \notin T
  <2> HIDE DEF T
  <2> QED
    BY <1>2
<1>4. SubSeq(t, 1, n) = t
  BY <1>1
<1>5. n \in 0 .. n
  OBVIOUS
<1>6. SubSeq(t, 1, n) \in G
  BY <1>3, <1>5
<1> QED
  BY <1>4, <1>6, Zenon

\* The definition, as an equation.
LEMMA FlattenBy ==
    ASSUME NEW S, NEW seqs \in Seq(Seq(S)), NEW n \in Nat \ {0}, n = Len(seqs)
    PROVE  \E flat : /\ FlattenSeq(seqs) = flat[n]
                     /\ \A i \in 1 .. n : flat[i] = IF i = 1 THEN seqs[i] ELSE flat[i - 1] \o seqs[i]
<1>1. DOMAIN seqs = 1 .. n
  OBVIOUS
<1>2. \A i \in 1 .. n : seqs[i] \in Seq(S)
  BY <1>1
<1> DEFINE Body(f) == [i \in 1 .. Len(seqs) |-> IF i = 1 THEN seqs[i] ELSE f[i - 1] \o seqs[i]]
           flat == CHOOSE f : f = Body(f)
           Built(m) == \E f : \A i \in 1 .. m : f[i] = IF i = 1 THEN seqs[i] ELSE f[i - 1] \o seqs[i]
           T == {m \in 0 .. n : ~Built(m)}
<1>3. T = {}
  <2> SUFFICES ASSUME T # {} PROVE FALSE
    OBVIOUS
  <2>1. PICK m \in T : \A k \in T : m <= k
    <3>1. T \subseteq Nat
      OBVIOUS
    <3> HIDE DEF T
    <3> QED
      BY <3>1, NatLeast
  <2>2. m \in 0 .. n /\ ~Built(m)
    OBVIOUS
  <2>3. Built(0)
    OBVIOUS
  <2>4. m # 0
    BY <2>2, <2>3
  <2>5. PICK l \in 0 .. n : l + 1 = m
    <3>1. m - 1 \in 0 .. n /\ (m - 1) + 1 = m
      BY <2>2, <2>4
    <3> QED
      BY <3>1
  <2>6. l \notin T
    <3>1. ~(m <= l)
      BY <2>5
    <3> HIDE DEF T
    <3> QED
      BY <2>1, <3>1
  <2>7. PICK f : \A i \in 1 .. l : f[i] = IF i = 1 THEN seqs[i] ELSE f[i - 1] \o seqs[i]
    BY <2>6
  <2>8. PICK last : last = IF m = 1 THEN seqs[m] ELSE f[m - 1] \o seqs[m]
    OBVIOUS
  <2>9. PICK g : g = [i \in 1 .. m |-> IF i = m THEN last ELSE f[i]]
    OBVIOUS
  <2>10. ASSUME NEW i \in 1 .. m
         PROVE  g[i] = IF i = 1 THEN seqs[i] ELSE g[i - 1] \o seqs[i]
    <3>1. CASE i = m
      <4>1. g[i] = last
        BY <2>9, <3>1
      <4>2. CASE m = 1
        BY <2>8, <3>1, <4>1, <4>2
      <4>3. CASE m # 1
        <5>1. m - 1 \in 1 .. m /\ m - 1 # m
          BY <2>2, <2>4, <4>3
        <5>2. g[m - 1] = f[m - 1]
          BY <2>9, <5>1
        <5> QED
          BY <2>8, <3>1, <4>1, <4>3, <5>2
      <4> QED
        BY <4>2, <4>3
    <3>2. CASE i # m
      <4>1. i \in 1 .. l
        BY <2>2, <2>5, <3>2
      <4>2. g[i] = f[i]
        BY <2>9, <3>2
      <4>3. CASE i = 1
        BY <2>7, <4>1, <4>2, <4>3
      <4>4. CASE i # 1
        <5>1. m \in Nat /\ i \in Nat /\ 1 < i /\ i <= m
          BY <2>2, <4>4
        <5>2. i - 1 \in 1 .. m /\ i - 1 # m
          BY <5>1
        <5>3. g[i - 1] = f[i - 1]
          BY <2>9, <5>2
        <5> QED
          BY <2>7, <4>1, <4>2, <4>4, <5>3
      <4> QED
        BY <4>3, <4>4
    <3> QED
      BY <3>1, <3>2
  <2>11. Built(m)
    BY <2>10
  <2> QED
    BY <2>2, <2>11
<1>4. Built(n)
  <2>1. n \notin T /\ n \in 0 .. n
    <3> HIDE DEF T
    <3> QED
      BY <1>3
  <2> HIDE DEF Built
  <2> QED
    BY <2>1
<1>5. PICK f : \A i \in 1 .. n : f[i] = IF i = 1 THEN seqs[i] ELSE f[i - 1] \o seqs[i]
  BY <1>4
<1>6. PICK g : g = [i \in 1 .. n |-> f[i]]
  OBVIOUS
<1>7. g = Body(g)
  <2>1. ASSUME NEW i \in 1 .. n
        PROVE  g[i] = IF i = 1 THEN seqs[i] ELSE g[i - 1] \o seqs[i]
    <3>1. CASE i = 1
      BY <1>5, <1>6, <3>1
    <3>2. CASE i # 1
      <4>1. i - 1 \in 1 .. n
        BY <3>2
      <4> QED
        BY <1>5, <1>6, <3>2, <4>1
    <3> QED
      BY <3>1, <3>2
  <2> QED
    BY <1>6, <2>1
<1>8. flat = Body(flat)
  <2> HIDE DEF Body
  <2> QED
    BY <1>7
<1>9. FlattenSeq(seqs) = flat[n]
  BY <1>1 DEF FlattenSeq
<1> HIDE DEF flat
<1>10. \A i \in 1 .. n : flat[i] = IF i = 1 THEN seqs[i] ELSE flat[i - 1] \o seqs[i]
  BY <1>1, <1>8
<1> QED
  BY <1>9, <1>10

\* What is put together from sequences over a set is one.
LEMMA FlattenIs ==
    ASSUME NEW S, NEW seqs \in Seq(Seq(S))
    PROVE  FlattenSeq(seqs) \in Seq(S)
<1>1. PICK n \in Nat : n = Len(seqs) /\ DOMAIN seqs = 1 .. n
  OBVIOUS
<1>2. \A i \in 1 .. n : seqs[i] \in Seq(S)
  BY <1>1
<1>3. CASE n = 0
  <2>1. seqs = <<>> /\ Len(seqs) = 0
    BY <1>1, <1>3
  <2> QED
    BY <2>1 DEF FlattenSeq
<1>4. CASE n # 0
  <2>1. n \in Nat \ {0} /\ n = Len(seqs)
    BY <1>1, <1>4
  <2>2. PICK flat : /\ FlattenSeq(seqs) = flat[n]
                    /\ \A i \in 1 .. n : flat[i] = IF i = 1 THEN seqs[i] ELSE flat[i - 1] \o seqs[i]
    BY <2>1, FlattenBy
  <2> DEFINE U == {i \in 1 .. n : flat[i] \notin Seq(S)}
  <2>3. U = {}
    <3> SUFFICES ASSUME U # {} PROVE FALSE
      OBVIOUS
    <3>1. PICK i \in U : \A k \in U : i <= k
      <4>1. U \subseteq Nat
        OBVIOUS
      <4> HIDE DEF U
      <4> QED
        BY <4>1, NatLeast
    <3>2. i \in 1 .. n /\ flat[i] \notin Seq(S)
      OBVIOUS
    <3>3. i # 1
      BY <1>2, <2>2, <3>2
    <3>4. i - 1 \in 1 .. n /\ ~(i <= i - 1)
      BY <3>2, <3>3
    <3>5. i - 1 \notin U
      <4> HIDE DEF U
      <4> QED
        BY <3>1, <3>4
    <3>6. flat[i - 1] \in Seq(S) /\ seqs[i] \in Seq(S)
      BY <1>2, <3>2, <3>4, <3>5
    <3>7. flat[i] = flat[i - 1] \o seqs[i]
      BY <2>2, <3>2, <3>3
    <3> QED
      BY <3>2, <3>6, <3>7
  <2>4. n \in 1 .. n
    BY <1>4
  <2> QED
    BY <2>2, <2>3, <2>4
<1> QED
  BY <1>3, <1>4

LEMMA FlattenNone == FlattenSeq(<<>>) = <<>>
<1>1. Len(<<>>) = 0
  OBVIOUS
<1> QED
  BY <1>1 DEF FlattenSeq

LEMMA FlattenMore ==
    ASSUME NEW S, NEW seqs \in Seq(Seq(S)), NEW s \in Seq(S)
    PROVE  FlattenSeq(Append(seqs, s)) = FlattenSeq(seqs) \o s
<1>1. PICK n \in Nat : n = Len(seqs) /\ DOMAIN seqs = 1 .. n
  OBVIOUS
<1>2. PICK m \in Nat \ {0} : m = n + 1
  OBVIOUS
<1>3. PICK all : all = Append(seqs, s)
  OBVIOUS
<1>4. /\ all \in Seq(Seq(S)) /\ m = Len(all) /\ all[m] = s
      /\ \A i \in 1 .. n : all[i] = seqs[i]
  BY <1>1, <1>2, <1>3
<1>5. PICK g : /\ FlattenSeq(all) = g[m]
               /\ \A i \in 1 .. m : g[i] = IF i = 1 THEN all[i] ELSE g[i - 1] \o all[i]
  BY <1>4, FlattenBy
<1>6. CASE n = 0
  <2>1. seqs = <<>> /\ m = 1
    BY <1>1, <1>2, <1>6
  <2>2. g[m] = s
    BY <1>4, <1>5, <2>1
  <2>3. FlattenSeq(seqs) = <<>>
    BY <2>1, FlattenNone
  <2>4. <<>> \o s = s
    OBVIOUS
  <2> QED
    BY <1>3, <1>5, <2>2, <2>3, <2>4
<1>7. CASE n # 0
  <2>1. PICK f : /\ FlattenSeq(seqs) = f[n]
                 /\ \A i \in 1 .. n : f[i] = IF i = 1 THEN seqs[i] ELSE f[i - 1] \o seqs[i]
    <3>1. n \in Nat \ {0} /\ n = Len(seqs)
      BY <1>1, <1>7
    <3> QED
      BY <3>1, FlattenBy
  <2> DEFINE T == {i \in 1 .. n : f[i] # g[i]}
  <2>2. T = {}
    <3> SUFFICES ASSUME T # {} PROVE FALSE
      OBVIOUS
    <3>1. PICK i \in T : \A k \in T : i <= k
      <4>1. T \subseteq Nat
        OBVIOUS
      <4> HIDE DEF T
      <4> QED
        BY <4>1, NatLeast
    <3>2. i \in 1 .. n /\ f[i] # g[i] /\ i \in 1 .. m /\ all[i] = seqs[i]
      BY <1>2, <1>4
    <3>3. i # 1
      BY <1>5, <2>1, <3>2
    <3>4. i - 1 \in 1 .. n /\ ~(i <= i - 1)
      BY <3>2, <3>3
    <3>5. i - 1 \notin T
      <4> HIDE DEF T
      <4> QED
        BY <3>1, <3>4
    <3>6. f[i - 1] = g[i - 1]
      BY <3>4, <3>5
    <3> QED
      BY <1>5, <2>1, <3>2, <3>3, <3>6
  <2>3. n \in 1 .. n /\ m # 1 /\ m - 1 = n /\ m \in 1 .. m
    BY <1>2, <1>7
  <2>4. f[n] = g[n]
    BY <2>2, <2>3
  <2>5. g[m] = g[n] \o s
    BY <1>4, <1>5, <2>3
  <2> QED
    BY <1>3, <1>5, <2>1, <2>4, <2>5
<1> QED
  BY <1>6, <1>7

-----------------------------------------------------------------------------
(* What a function makes of every member of a sequence, one after another: *)
(* the form of every conversion to and from the wire.                      *)

\* A name for it keeps the provers from taking the set apart.
Conversion(S, T) == [S -> Seq(T)]

FlatMap(f, s) == FlattenSeq([k \in DOMAIN s |-> f[s[k]]])

LEMMA MapIs ==
    ASSUME NEW S, NEW T, NEW s \in Seq(S), NEW f \in [S -> T]
    PROVE  [k \in DOMAIN s |-> f[s[k]]] \in Seq(T)
<1>1. PICK n \in Nat : n = Len(s) /\ DOMAIN s = 1 .. n
  OBVIOUS
<1>2. \A k \in 1 .. n : s[k] \in S
  BY <1>1
<1>3. \A k \in 1 .. n : f[s[k]] \in T
  BY <1>2
<1>4. PICK g : g = [k \in DOMAIN s |-> f[s[k]]]
  OBVIOUS
<1>5. g \in [1 .. n -> T]
  BY <1>1, <1>3, <1>4
<1>6. g \in Seq(T)
  BY <1>5
<1> QED
  BY <1>4, <1>6

LEMMA FlatMapNone == ASSUME NEW f PROVE FlatMap(f, <<>>) = <<>>
<1>1. PICK g : g = [k \in DOMAIN <<>> |-> f[<<>>[k]]]
  OBVIOUS
<1>2. g = <<>>
  BY <1>1
<1> QED
  BY <1>1, <1>2, FlattenNone DEF FlatMap

LEMMA FlatMapIs ==
    ASSUME NEW S, NEW T, NEW f \in Conversion(S, T), NEW s \in Seq(S)
    PROVE  FlatMap(f, s) \in Seq(T)
<1>1. PICK g : g = [k \in DOMAIN s |-> f[s[k]]]
  OBVIOUS
<1>2. g \in Seq(Seq(T))
  BY <1>1, MapIs DEF Conversion
<1> QED
  BY <1>1, <1>2, FlattenIs DEF FlatMap

LEMMA FlatMapMore ==
    ASSUME NEW S, NEW T, NEW f \in Conversion(S, T), NEW s \in Seq(S), NEW x \in S
    PROVE  FlatMap(f, Append(s, x)) = FlatMap(f, s) \o f[x]
<1>1. PICK n \in Nat : n = Len(s) /\ DOMAIN s = 1 .. n
  OBVIOUS
<1>2. PICK g : g = [k \in DOMAIN s |-> f[s[k]]]
  OBVIOUS
<1>3. PICK t : t = Append(s, x)
  OBVIOUS
<1>4. PICK m \in Nat : m = n + 1
  OBVIOUS
<1>5. /\ DOMAIN t = 1 .. m /\ t[m] = x /\ t \in Seq(S)
      /\ \A k \in 1 .. n : t[k] = s[k]
  BY <1>1, <1>3, <1>4
<1>6. PICK h : h = [k \in DOMAIN t |-> f[t[k]]]
  OBVIOUS
<1>7. g \in Seq(Seq(T)) /\ Len(g) = n /\ DOMAIN g = 1 .. n
  <2>1. g \in Seq(Seq(T))
    BY <1>2, MapIs DEF Conversion
  <2>2. DOMAIN g = 1 .. n
    BY <1>1, <1>2
  <2> QED
    BY <2>1, <2>2
<1>8. f[x] \in Seq(T)
  BY DEF Conversion
<1>9. h = Append(g, f[x])
  <2>1. PICK a : a = Append(g, f[x])
    OBVIOUS
  <2>2. DOMAIN a = 1 .. m /\ a[m] = f[x] /\ \A k \in 1 .. n : a[k] = g[k]
    BY <1>4, <1>7, <2>1
  <2>3. a \in Seq(Seq(T)) /\ h \in Seq(Seq(T))
    BY <1>5, <1>6, <1>7, <1>8, <2>1, MapIs DEF Conversion
  <2>4. DOMAIN h = 1 .. m
    BY <1>5, <1>6
  <2>5. \A k \in 1 .. m : h[k] = a[k]
    <3> SUFFICES ASSUME NEW k \in 1 .. m PROVE h[k] = a[k]
      OBVIOUS
    <3>1. h[k] = f[t[k]]
      BY <1>5, <1>6
    <3>2. CASE k = m
      BY <1>5, <2>2, <3>1, <3>2
    <3>3. CASE k # m
      <4>1. k \in 1 .. n
        BY <1>4, <3>3
      <4>2. g[k] = f[s[k]]
        BY <1>1, <1>2, <4>1
      <4> QED
        BY <1>5, <2>2, <3>1, <4>1, <4>2
    <3> QED
      BY <3>2, <3>3
  <2>6. h = a
    BY <2>2, <2>3, <2>4, <2>5
  <2> QED
    BY <2>1, <2>6
<1>10. FlattenSeq(Append(g, f[x])) = FlattenSeq(g) \o f[x]
  BY <1>7, <1>8, FlattenMore
<1> QED
  BY <1>2, <1>3, <1>6, <1>9, <1>10 DEF FlatMap

LEMMA FlatMapOne ==
    ASSUME NEW S, NEW T, NEW f \in Conversion(S, T), NEW x \in S
    PROVE  FlatMap(f, <<x>>) = f[x]
<1>1. <<>> \in Seq(S) /\ Append(<<>>, x) = <<x>>
  OBVIOUS
<1>2. FlatMap(f, Append(<<>>, x)) = FlatMap(f, <<>>) \o f[x]
  BY <1>1, FlatMapMore
<1>3. f[x] \in Seq(T)
  BY DEF Conversion
<1>4. <<>> \o f[x] = f[x]
  BY <1>3
<1> QED
  BY <1>1, <1>2, <1>4, FlatMapNone

LEMMA FlatMapBoth ==
    ASSUME NEW S, NEW T, NEW f \in Conversion(S, T), NEW s \in Seq(S), NEW t \in Seq(S)
    PROVE  FlatMap(f, s \o t) = FlatMap(f, s) \o FlatMap(f, t)
<1> DEFINE G == {u \in Seq(S) : FlatMap(f, s \o u) = FlatMap(f, s) \o FlatMap(f, u)}
<1>1. <<>> \in G
  <2>1. s \o <<>> = s /\ <<>> \in Seq(S)
    OBVIOUS
  <2>2. FlatMap(f, s) \o <<>> = FlatMap(f, s)
    <3>1. FlatMap(f, s) \in Seq(T)
      BY FlatMapIs
    <3> QED
      BY <3>1
  <2> QED
    BY <2>1, <2>2, FlatMapNone
<1>2. ASSUME NEW u \in Seq(S), NEW x \in S, u \in G
      PROVE  Append(u, x) \in G
  <2>1. FlatMap(f, s \o u) = FlatMap(f, s) \o FlatMap(f, u)
    BY <1>2
  <2>2. s \o Append(u, x) = Append(s \o u, x) /\ s \o u \in Seq(S) /\ Append(u, x) \in Seq(S)
    OBVIOUS
  <2>3. /\ FlatMap(f, Append(s \o u, x)) = FlatMap(f, s \o u) \o f[x]
        /\ FlatMap(f, Append(u, x)) = FlatMap(f, u) \o f[x]
    BY <2>2, FlatMapMore
  <2>4. FlatMap(f, s) \in Seq(T) /\ FlatMap(f, u) \in Seq(T) /\ f[x] \in Seq(T)
    BY FlatMapIs DEF Conversion
  <2>5. (FlatMap(f, s) \o FlatMap(f, u)) \o f[x] = FlatMap(f, s) \o (FlatMap(f, u) \o f[x])
    <3>1. PICK a, b, c : a = FlatMap(f, s) /\ b = FlatMap(f, u) /\ c = f[x]
      OBVIOUS
    <3>2. a \in Seq(T) /\ b \in Seq(T) /\ c \in Seq(T)
      BY <2>4, <3>1
    <3>3. (a \o b) \o c = a \o (b \o c)
      BY <3>2
    <3> QED
      BY <3>1, <3>3, Zenon
  <2> QED
    BY <2>1, <2>2, <2>3, <2>5
<1>3. Seq(S) \subseteq G
  <2> HIDE DEF G
  <2> QED
    BY <1>1, <1>2, SeqInduction
<1> QED
  BY <1>3

\* Two conversions in a row are one.
LEMMA FlatMapTwice ==
    ASSUME NEW R, NEW S, NEW T, NEW g \in Conversion(R, S), NEW f \in Conversion(S, T),
           NEW h \in Conversion(R, T), \A r \in R : h[r] = FlatMap(f, g[r]),
           NEW s \in Seq(R)
    PROVE  FlatMap(f, FlatMap(g, s)) = FlatMap(h, s)
<1> DEFINE G == {u \in Seq(R) : FlatMap(f, FlatMap(g, u)) = FlatMap(h, u)}
<1>1. <<>> \in G
  <2>1. <<>> \in Seq(R)
    OBVIOUS
  <2>2. FlatMap(g, <<>>) = <<>> /\ FlatMap(f, <<>>) = <<>> /\ FlatMap(h, <<>>) = <<>>
    BY FlatMapNone
  <2> QED
    BY <2>1, <2>2
<1>2. ASSUME NEW u \in Seq(R), NEW x \in R, u \in G
      PROVE  Append(u, x) \in G
  <2>1. FlatMap(f, FlatMap(g, u)) = FlatMap(h, u)
    BY <1>2
  <2>2. FlatMap(g, Append(u, x)) = FlatMap(g, u) \o g[x]
    BY FlatMapMore
  <2>3. FlatMap(g, u) \in Seq(S) /\ g[x] \in Seq(S)
    <3>1. g[x] \in Seq(S)
      BY DEF Conversion
    <3> QED
      BY <3>1, FlatMapIs
  <2>4. FlatMap(f, FlatMap(g, u) \o g[x]) = FlatMap(f, FlatMap(g, u)) \o FlatMap(f, g[x])
    <3>1. PICK a, b : a = FlatMap(g, u) /\ b = g[x]
      OBVIOUS
    <3>2. a \in Seq(S) /\ b \in Seq(S)
      BY <2>3, <3>1
    <3>3. FlatMap(f, a \o b) = FlatMap(f, a) \o FlatMap(f, b)
      <4>1. f \in Conversion(S, T)
        OBVIOUS
      <4> QED
        BY <3>2, <4>1, FlatMapBoth
    <3> QED
      BY <3>1, <3>3, Zenon
  <2>5. FlatMap(h, Append(u, x)) = FlatMap(h, u) \o h[x]
    BY FlatMapMore
  <2>6. Append(u, x) \in Seq(R)
    OBVIOUS
  <2> QED
    BY <2>1, <2>2, <2>4, <2>5, <2>6
<1>3. Seq(R) \subseteq G
  <2> HIDE DEF G
  <2> QED
    BY <1>1, <1>2, SeqInduction
<1> QED
  BY <1>3

\* One for one, the positions are kept.
LEMMA FlatMapSingles ==
    ASSUME NEW S, NEW T, NEW F \in [S -> T], NEW f \in Conversion(S, T),
           \A x \in S : f[x] = <<F[x]>>, NEW s \in Seq(S)
    PROVE  FlatMap(f, s) = [k \in DOMAIN s |-> F[s[k]]]
<1> DEFINE G == {u \in Seq(S) : FlatMap(f, u) = [k \in DOMAIN u |-> F[u[k]]]}
<1>1. <<>> \in G
  <2>1. PICK g : g = [k \in DOMAIN <<>> |-> F[<<>>[k]]]
    OBVIOUS
  <2>2. g = <<>> /\ <<>> \in Seq(S)
    BY <2>1
  <2> QED
    BY <2>1, <2>2, FlatMapNone
<1>2. ASSUME NEW u \in Seq(S), NEW x \in S, u \in G
      PROVE  Append(u, x) \in G
  <2>1. PICK g : g = [k \in DOMAIN u |-> F[u[k]]]
    OBVIOUS
  <2>2. FlatMap(f, u) = g
    BY <1>2, <2>1
  <2>3. PICK t : t = Append(u, x)
    OBVIOUS
  <2>4. PICK h : h = [k \in DOMAIN t |-> F[t[k]]]
    OBVIOUS
  <2>5. PICK n \in Nat, m \in Nat : n = Len(u) /\ DOMAIN u = 1 .. n /\ m = n + 1
    OBVIOUS
  <2>6. g \in Seq(T) /\ t \in Seq(S)
    BY <2>1, <2>3, MapIs
  <2>7. h \in Seq(T)
    <3>1. t \in Seq(S)
      BY <2>6
    <3>2. [k \in DOMAIN t |-> F[t[k]]] \in Seq(T)
      BY <3>1, MapIs
    <3> QED
      BY <2>4, <3>2, Zenon
  <2>8. DOMAIN t = 1 .. m /\ t[m] = x /\ \A k \in 1 .. n : t[k] = u[k]
    BY <2>3, <2>5
  <2>9. DOMAIN g = 1 .. n /\ Len(g) = n /\ F[x] \in T
    <3>1. DOMAIN g = 1 .. n
      BY <2>1, <2>5
    <3> QED
      BY <2>6, <3>1
  <2>10. PICK a : a = g \o <<F[x]>>
    OBVIOUS
  <2>11. /\ a \in Seq(T) /\ DOMAIN a = 1 .. m /\ a[m] = F[x]
         /\ \A k \in 1 .. n : a[k] = g[k]
    <3>1. PICK y \in T : y = F[x]
      OBVIOUS
    <3>2. a = g \o <<y>> /\ g \in Seq(T) /\ <<y>> \in Seq(T) /\ Len(g) = n /\ DOMAIN g = 1 .. n
      BY <2>6, <2>9, <2>10, <3>1
    <3>3. a \in Seq(T) /\ Len(a) = m
      BY <2>5, <3>2
    <3>4. a[m] = y
      BY <2>5, <3>2
    <3>5. \A k \in 1 .. n : a[k] = g[k]
      BY <2>5, <3>2
    <3> QED
      BY <3>1, <3>3, <3>4, <3>5
  <2>12. \A k \in 1 .. m : h[k] = a[k]
    <3> SUFFICES ASSUME NEW k \in 1 .. m PROVE h[k] = a[k]
      OBVIOUS
    <3>1. h[k] = F[t[k]]
      BY <2>4, <2>8
    <3>2. CASE k = m
      BY <2>8, <2>11, <3>1, <3>2
    <3>3. CASE k # m
      <4>1. k \in 1 .. n
        BY <2>5, <3>3
      <4>2. g[k] = F[u[k]]
        BY <2>1, <2>5, <4>1
      <4> QED
        BY <2>8, <2>11, <3>1, <4>1, <4>2
    <3> QED
      BY <3>2, <3>3
  <2>13. DOMAIN h = 1 .. m
    BY <2>4, <2>8
  <2>14. h = a
    BY <2>7, <2>11, <2>12, <2>13
  <2>15. FlatMap(f, t) = g \o <<F[x]>>
    <3>1. FlatMap(f, t) = FlatMap(f, u) \o f[x]
      BY <2>3, FlatMapMore
    <3> QED
      BY <2>2, <3>1
  <2> QED
    BY <2>3, <2>4, <2>6, <2>10, <2>14, <2>15
<1>3. Seq(S) \subseteq G
  <2> HIDE DEF G
  <2> QED
    BY <1>1, <1>2, SeqInduction
<1> QED
  BY <1>3

\* Nothing changes what is not changed.
LEMMA FlatMapSame ==
    ASSUME NEW S, NEW f \in Conversion(S, S), \A x \in S : f[x] = <<x>>, NEW s \in Seq(S)
    PROVE  FlatMap(f, s) = s
<1>1. PICK F : F = [x \in S |-> x]
  OBVIOUS
<1>2. F \in [S -> S] /\ \A x \in S : f[x] = <<F[x]>>
  BY <1>1
<1>3. FlatMap(f, s) = [k \in DOMAIN s |-> F[s[k]]]
  BY <1>2, FlatMapSingles
<1>4. [k \in DOMAIN s |-> F[s[k]]] = s
  <2>1. PICK g : g = [k \in DOMAIN s |-> F[s[k]]]
    OBVIOUS
  <2>2. \A k \in DOMAIN s : g[k] = s[k]
    BY <1>1, <2>1
  <2>3. g \in Seq(S)
    BY <1>2, <2>1, MapIs
  <2>4. DOMAIN g = DOMAIN s
    BY <2>1
  <2>5. g = s
    BY <2>2, <2>3, <2>4
  <2> QED
    BY <2>1, <2>5
<1> QED
  BY <1>3, <1>4

\* What is left out everywhere leaves nothing.
LEMMA FlatMapNothing ==
    ASSUME NEW S, NEW f, \A x \in S : f[x] = <<>>, NEW s \in Seq(S)
    PROVE  FlatMap(f, s) = <<>>
<1>1. PICK e : e = [x \in S |-> <<>>]
  OBVIOUS
<1>2. e \in Conversion(S, {}) /\ \A x \in S : e[x] = f[x]
  <2>1. <<>> \in Seq({})
    OBVIOUS
  <2> QED
    BY <1>1, <2>1 DEF Conversion
<1>3. FlatMap(e, s) \in Seq({})
  BY <1>2, FlatMapIs
<1>4. FlatMap(e, s) = <<>>
  BY <1>3
<1>5. FlatMap(f, s) = FlatMap(e, s)
  <2>1. \A k \in DOMAIN s : s[k] \in S
    OBVIOUS
  <2>2. [k \in DOMAIN s |-> f[s[k]]] = [k \in DOMAIN s |-> e[s[k]]]
    BY <1>2, <2>1
  <2> QED
    BY <2>2 DEF FlatMap
<1> QED
  BY <1>4, <1>5

\* What has the same members has the same image.
LEMMA SeqWider ==
    ASSUME NEW S, NEW T, S \subseteq T, NEW s \in Seq(S) PROVE s \in Seq(T)
OBVIOUS

LEMMA FlatMapAlike ==
    ASSUME NEW S, NEW f, NEW g, \A x \in S : f[x] = g[x], NEW s \in Seq(S)
    PROVE  FlatMap(f, s) = FlatMap(g, s)
<1>1. \A k \in DOMAIN s : s[k] \in S
  OBVIOUS
<1>2. [k \in DOMAIN s |-> f[s[k]]] = [k \in DOMAIN s |-> g[s[k]]]
  BY <1>1
<1> QED
  BY <1>2 DEF FlatMap

LEMMA FlatMapSingle ==
    ASSUME NEW f, NEW x, NEW T, f[x] \in Seq(T)
    PROVE  FlatMap(f, <<x>>) = f[x]
<1>1. PICK g : g = [y \in {x} |-> f[y]]
  OBVIOUS
<1>2. g \in Conversion({x}, T) /\ \A y \in {x} : f[y] = g[y]
  BY <1>1 DEF Conversion
<1>3. FlatMap(g, <<x>>) = g[x] /\ g[x] = f[x]
  BY <1>1, <1>2, FlatMapOne
<1>5. FlatMap(f, <<x>>) = FlatMap(g, <<x>>)
  <2>1. \A k \in DOMAIN <<x>> : <<x>>[k] = x
    OBVIOUS
  <2>2. f[x] = g[x]
    BY <1>2
  <2>3. [k \in DOMAIN <<x>> |-> f[<<x>>[k]]] = [k \in DOMAIN <<x>> |-> g[<<x>>[k]]]
    BY <2>1, <2>2, Zenon
  <2> QED
    BY <2>3, Zenon DEF FlatMap
<1> QED
  BY <1>3, <1>5

LEMMA FlatMapAll ==
    ASSUME NEW S, NEW f, \A x \in S : f[x] = <<x>>, NEW s \in Seq(S)
    PROVE  FlatMap(f, s) = s
<1>1. PICK g : g = [x \in S |-> <<x>>]
  OBVIOUS
<1>2. g \in Conversion(S, S) /\ \A x \in S : g[x] = <<x>> /\ f[x] = g[x]
  <2>1. \A x \in S : <<x>> \in Seq(S)
    OBVIOUS
  <2> QED
    BY <1>1, <2>1 DEF Conversion
<1>3. FlatMap(g, s) = s
  BY <1>2, FlatMapSame
<1>4. FlatMap(f, s) = FlatMap(g, s)
  BY <1>2, FlatMapAlike
<1> QED
  BY <1>3, <1>4

\* Two conversions in a row, whatever they are elsewhere.
Through(R, S, T, g, f, h) ==
    /\ \A r \in R : g[r] \in Seq(S)
    /\ \A x \in S : f[x] \in Seq(T)
    /\ \A r \in R : h[r] = FlatMap(f, g[r])

LEMMA FlatMapThrough ==
    ASSUME NEW R, NEW S, NEW T, NEW g, NEW f, NEW h, Through(R, S, T, g, f, h), NEW s \in Seq(R)
    PROVE  FlatMap(f, FlatMap(g, s)) = FlatMap(h, s)
<1>0. /\ \A r \in R : g[r] \in Seq(S)
      /\ \A x \in S : f[x] \in Seq(T)
      /\ \A r \in R : h[r] = FlatMap(f, g[r])
  BY DEF Through
<1>1. PICK g1 : g1 = [r \in R |-> g[r]]
  OBVIOUS
<1>2. PICK f1 : f1 = [x \in S |-> f[x]]
  OBVIOUS
<1>3. PICK h1 : h1 = [r \in R |-> h[r]]
  OBVIOUS
<1>4. g1 \in Conversion(R, S) /\ \A r \in R : g1[r] = g[r]
  BY <1>0, <1>1 DEF Conversion
<1>5. f1 \in Conversion(S, T) /\ \A x \in S : f1[x] = f[x]
  BY <1>0, <1>2 DEF Conversion
<1>6. \A r \in R : h1[r] = h[r]
  BY <1>3
<1>7. \A t \in Seq(S) : FlatMap(f, t) = FlatMap(f1, t)
  <2>1. \A x \in S : f[x] = f1[x]
    BY <1>5
  <2> QED
    BY <2>1, FlatMapAlike
<1>8. \A r \in R : h1[r] = FlatMap(f1, g1[r])
  <2> SUFFICES ASSUME NEW r \in R PROVE h1[r] = FlatMap(f1, g1[r])
    OBVIOUS
  <2>1. g[r] \in Seq(S) /\ g1[r] = g[r]
    BY <1>0, <1>4
  <2>2. FlatMap(f, g[r]) = FlatMap(f1, g[r])
    BY <1>7, <2>1
  <2> QED
    BY <1>0, <1>6, <2>1, <2>2
<1>9. h1 \in Conversion(R, T)
  <2>1. \A t \in Seq(S) : FlatMap(f1, t) \in Seq(T)
    BY <1>5, FlatMapIs
  <2>2. \A r \in R : h[r] \in Seq(T)
    <3> SUFFICES ASSUME NEW r \in R PROVE h[r] \in Seq(T)
      OBVIOUS
    <3>1. g1[r] \in Seq(S)
      <4>1. g1[r] = g[r] /\ g[r] \in Seq(S)
        BY <1>0, <1>4
      <4> QED
        BY <4>1
    <3>2. FlatMap(f1, g1[r]) \in Seq(T)
      BY <2>1, <3>1
    <3> QED
      BY <1>6, <1>8, <3>2
  <2> QED
    BY <1>3, <2>2 DEF Conversion
<1>10. FlatMap(f1, FlatMap(g1, s)) = FlatMap(h1, s)
  BY <1>4, <1>5, <1>8, <1>9, FlatMapTwice
<1>11. FlatMap(g, s) = FlatMap(g1, s) /\ FlatMap(h, s) = FlatMap(h1, s)
  <2>1. FlatMap(g, s) = FlatMap(g1, s)
    BY <1>4, FlatMapAlike
  <2>2. FlatMap(h, s) = FlatMap(h1, s)
    BY <1>6, FlatMapAlike
  <2> QED
    BY <2>1, <2>2
<1>12. FlatMap(g1, s) \in Seq(S)
  BY <1>4, FlatMapIs
<1>13. FlatMap(f, FlatMap(g1, s)) = FlatMap(f1, FlatMap(g1, s))
  BY <1>7, <1>12
<1> QED
  BY <1>10, <1>11, <1>13

\* One for one, whatever they are elsewhere.
Each(S, F, f) == \A x \in S : f[x] = <<F[x]>>

LEMMA FlatMapEach ==
    ASSUME NEW S, NEW F, NEW f, Each(S, F, f), NEW s \in Seq(S)
    PROVE  FlatMap(f, s) = [k \in DOMAIN s |-> F[s[k]]]
<1>0. PICK T : T = {F[x] : x \in S}
  OBVIOUS
<1>1. PICK F1 : F1 = [x \in S |-> F[x]]
  OBVIOUS
<1>2. PICK f1 : f1 = [x \in S |-> <<F[x]>>]
  OBVIOUS
<1>3. F1 \in [S -> T] /\ \A x \in S : F1[x] = F[x]
  BY <1>0, <1>1
<1>4. f1 \in Conversion(S, T) /\ \A x \in S : f1[x] = <<F1[x]>> /\ f[x] = f1[x]
  <2>1. \A y \in T : <<y>> \in Seq(T)
    OBVIOUS
  <2>2. \A x \in S : <<F[x]>> \in Seq(T)
    BY <1>0, <2>1
  <2>3. f1 \in Conversion(S, T)
    BY <1>2, <2>2 DEF Conversion
  <2> QED
    BY <1>2, <1>3, <2>3 DEF Each
<1>5. FlatMap(f1, s) = [k \in DOMAIN s |-> F1[s[k]]]
  BY <1>3, <1>4, FlatMapSingles
<1>6. FlatMap(f, s) = FlatMap(f1, s)
  BY <1>4, FlatMapAlike
<1>7. [k \in DOMAIN s |-> F1[s[k]]] = [k \in DOMAIN s |-> F[s[k]]]
  <2>1. \A k \in DOMAIN s : s[k] \in S
    OBVIOUS
  <2> QED
    BY <1>3, <2>1
<1> QED
  BY <1>5, <1>6, <1>7

=============================================================================
