--------------------------- MODULE RunQueueProofs ---------------------------
(***************************************************************************)
(* The runqueues are exact, drop the dead and implement a FIFO, for any    *)
(* number of tasks, any nice values and any workload.                      *)
(***************************************************************************)
EXTENDS RunQueue, FiniteSetTheorems, SequenceTheorems, WellFoundedInduction, TLAPS

-----------------------------------------------------------------------------
(***************************************************************************)
(* Sequences.                                                              *)
(***************************************************************************)
\* A non-empty set of natural numbers has a least element.
LEMMA LeastNat ==
    ASSUME NEW S \in SUBSET Nat, S # {}
    PROVE  \E x \in S : \A y \in S : x <= y
<1> DEFINE R == {xy \in Nat \X Nat : xy[1] < xy[2]}
<1>1. IsWellFoundedOn(R, Nat)
    <2>1. OpToRel(<, Nat) = R  BY DEF OpToRel
    <2> QED  BY Zenon, <2>1, NatLessThanWellFounded
<1>2. PICK x \in S : \A y \in S : ~(<< y, x >> \in R)
    <2> HIDE DEF R
    <2> QED  BY Zenon, <1>1, WFMin
<1>3. ASSUME NEW y \in S, y < x PROVE FALSE
    <2>1. << y, x >> \in R  BY <1>3
    <2> QED  BY Zenon, <1>2, <2>1
<1>4. ASSUME NEW y \in S PROVE x <= y  BY <1>3
<1> QED  BY Zenon, <1>4

\* A sequence without its first n elements.
LEMMA SuffixIs ==
    ASSUME NEW S, NEW u \in Seq(S), NEW n \in 0 .. Len(u)
    PROVE  LET v == SubSeq(u, n + 1, Len(u))
           IN  /\ v \in Seq(S) /\ Len(v) = Len(u) - n
               /\ \A i \in 1 .. (Len(u) - n) : v[i] = u[n + i]
<1>1. Len(u) \in Nat /\ \A i \in (n + 1) .. Len(u) : u[i] \in S
    BY LenProperties, ElementOfSeq
<1>2. n + 1 \in Int /\ Len(u) \in Int  BY <1>1
<1> DEFINE v == SubSeq(u, n + 1, Len(u))
<1>3. /\ v \in Seq(S) /\ Len(v) = IF n + 1 <= Len(u) THEN Len(u) - (n + 1) + 1 ELSE 0
      /\ \A i \in 1 .. (Len(u) - (n + 1) + 1) : v[i] = u[(n + 1) + i - 1]
    BY <1>1, <1>2, SubSeqProperties
<1> HIDE DEF v
<1>4. Len(v) = Len(u) - n /\ \A i \in 1 .. (Len(u) - n) : v[i] = u[n + i]
    BY <1>1, <1>3
<1> QED  BY <1>3, <1>4 DEF v

\* v is u without its entry n, the first x.
WithoutAt(S, u, x, v, n) ==
    /\ u[n] = x /\ \A i \in 1 .. (n - 1) : u[i] # x
    /\ v \in Seq(S) /\ Len(v) = Len(u) - 1
    /\ \A i \in 1 .. (Len(u) - 1) : v[i] = IF i < n THEN u[i] ELSE u[i + 1]

\* RemoveFirst takes out one occurrence: the rest keep their order.
LEMMA RemoveFirstIs ==
    ASSUME NEW S, NEW u \in Seq(S), NEW x, Contains(u, x)
    PROVE  \E n \in 1 .. Len(u) : WithoutAt(S, u, x, RemoveFirst(u, x), n)
<1> DEFINE I == {i \in 1 .. Len(u) : u[i] = x}
<1>1. Len(u) \in Nat  BY LenProperties
<1>2. I # {} /\ I \in SUBSET Nat  BY <1>1 DEF Contains
<1>3. \E m \in I : \A y \in I : m <= y
    <2> HIDE DEF I
    <2> QED  BY <1>2, LeastNat
<1> DEFINE n == Min(I)
<1>4. n \in I /\ \A y \in I : n <= y
    <2> HIDE DEF I
    <2> QED  BY Zenon, <1>3 DEF Min
<1>5. RemoveFirst(u, x) = RemoveAt(u, n)
    BY <1>2 DEF RemoveFirst, Contains
<1> HIDE DEF n
<1>6. n \in 1 .. Len(u) /\ u[n] = x /\ \A i \in 1 .. (n - 1) : u[i] # x
    BY <1>1, <1>4
<1> DEFINE a == SubSeq(u, 1, n - 1)
           b == SubSeq(u, n + 1, Len(u))
           v == RemoveFirst(u, x)
<1>7. a \in Seq(S) /\ Len(a) = n - 1 /\ \A i \in 1 .. (n - 1) : a[i] = u[i]
    <2>1. \A i \in 1 .. (n - 1) : u[i] \in S  BY <1>1, <1>6, ElementOfSeq
    <2> QED  BY <1>1, <1>6, <2>1, SubSeqProperties
<1>8. b \in Seq(S) /\ Len(b) = Len(u) - n /\ \A i \in 1 .. (Len(u) - n) : b[i] = u[n + i]
    <2>1. n \in 0 .. Len(u)  BY <1>1, <1>6
    <2> QED  BY <2>1, SuffixIs
<1>9. v = a \o b  BY <1>5 DEF RemoveAt
<1> HIDE DEF a, b, v
<1>10. /\ v \in Seq(S) /\ Len(v) = Len(a) + Len(b)
       /\ \A i \in 1 .. (Len(a) + Len(b)) : v[i] = IF i <= Len(a) THEN a[i] ELSE b[i - Len(a)]
    BY Zenon, <1>7, <1>8, <1>9, ConcatProperties
<1>11. Len(v) = Len(u) - 1  BY <1>1, <1>6, <1>7, <1>8, <1>10
<1>12. ASSUME NEW i \in 1 .. (Len(u) - 1) PROVE v[i] = IF i < n THEN u[i] ELSE u[i + 1]
    <2>1. v[i] = IF i <= n - 1 THEN a[i] ELSE b[i - (n - 1)]
        BY <1>1, <1>6, <1>7, <1>8, <1>10, <1>12
    <2>2. CASE i < n
        <3>1. i \in 1 .. (n - 1)  BY <1>6, <1>12, <2>2
        <3> QED  BY <1>6, <1>7, <2>1, <2>2, <3>1
    <2>3. CASE ~(i < n)
        <3>1. i - (n - 1) \in 1 .. (Len(u) - n) /\ n + (i - (n - 1)) = i + 1 /\ ~(i <= n - 1)
            BY <1>1, <1>6, <1>12, <2>3
        <3> QED  BY <1>8, <2>1, <2>3, <3>1
    <2> QED  BY <2>2, <2>3
<1>13. WithoutAt(S, u, x, v, n)  BY <1>6, <1>10, <1>11, <1>12 DEF WithoutAt
<1> QED  BY Zenon, <1>6, <1>13 DEF v

-----------------------------------------------------------------------------
(***************************************************************************)
(* Popping an array up to its first live entry.                            *)
(***************************************************************************)
Array == [Levels -> Seq(Task)]

LEMMA LevelsNat ==
    /\ Levels \subseteq Nat /\ process_get_priority(0) \in Levels
    /\ \A n \in Nices : process_get_priority(n) \in Levels
  BY TaskAssumption DEF Levels, process_get_priority

LEMMA PlacesIs ==
    ASSUME NEW rq \in Array
    PROVE  /\ Places(rq) \subseteq Levels \X Nat
           /\ \A l \in Levels : \A i : << l, i >> \in Places(rq) <=> i \in 1 .. Len(rq[l])
           /\ \A e \in Places(rq) : e[1] \in Levels /\ e[2] \in 1 .. Len(rq[e[1]]) /\ e = << e[1], e[2] >>
<1>1. \A l \in Levels : DOMAIN rq[l] = 1 .. Len(rq[l]) /\ Len(rq[l]) \in Nat
    BY LenProperties DEF Array
<1>2. \A l \in Levels : \A i : << l, i >> \in Places(rq) <=> i \in 1 .. Len(rq[l])
    BY <1>1 DEF Places
<1>3. ASSUME NEW e \in Places(rq)
      PROVE  e[1] \in Levels /\ e[2] \in 1 .. Len(rq[e[1]]) /\ e = << e[1], e[2] >>
    <2>1. PICK l \in Levels : e \in {l} \X DOMAIN rq[l]  BY DEF Places
    <2> QED  BY <1>1, <2>1
<1>4. ASSUME NEW e \in Places(rq) PROVE e \in Levels \X Nat
    BY <1>1, <1>3
<1> QED  BY <1>2, <1>3, <1>4

\* The first of some places: the lowest level, its foremost entry.
LEMMA FirstIs ==
    ASSUME NEW live \in SUBSET (Levels \X Nat), live # {}
    PROVE  /\ FirstLive(live) \in live
           /\ \A f \in live : ~Precedes(f, FirstLive(live))
<1> DEFINE L == {e[1] : e \in live}
<1>1. L \in SUBSET Nat /\ L # {}  BY Zenon, LevelsNat
<1>2. PICK l \in L : \A m \in L : l <= m
    <2> HIDE DEF L
    <2> QED  BY <1>1, LeastNat
<1> DEFINE I == {e[2] : e \in {f \in live : f[1] = l}}
<1>3. I \in SUBSET Nat /\ I # {}  BY <1>2
<1>4. PICK i \in I : \A j \in I : i <= j
    <2> HIDE DEF I
    <2> QED  BY <1>3, LeastNat
<1>5. PICK e \in live : e[1] = l /\ e[2] = i  BY <1>4
<1>6. ASSUME NEW f \in live PROVE ~Precedes(f, e)
    <2>1. l <= f[1] /\ f[1] \in Nat /\ l \in Nat /\ f[2] \in Nat /\ i \in Nat
        BY <1>1, <1>2, <1>3, <1>4
    <2>2. f[1] = l => i <= f[2]  BY <1>4
    <2> QED  BY <1>5, <2>1, <2>2 DEF Precedes
<1>7. \E x \in live : \A f \in live : ~Precedes(f, x)  BY Zenon, <1>6
<1> QED  BY Zenon, <1>7 DEF FirstLive

\* How many entries of the list at level l are popped.
CutAt(rq, live, l) ==
    LET e == FirstLive(live)
    IN  IF live = {} \/ l < e[1] THEN Len(rq[l]) ELSE IF l = e[1] THEN e[2] ELSE 0

LEMMA RestIs ==
    ASSUME NEW rq \in Array, NEW live \in SUBSET Places(rq), NEW l \in Levels
    PROVE  /\ CutAt(rq, live, l) \in 0 .. Len(rq[l])
           /\ Rest(rq, live)[l] = SubSeq(rq[l], CutAt(rq, live, l) + 1, Len(rq[l]))
<1> DEFINE e == FirstLive(live)
<1>1. rq[l] \in Seq(Task) /\ Len(rq[l]) \in Nat /\ l \in Nat
    BY LenProperties, LevelsNat DEF Array
<1>2. live # {} => e[1] \in Nat /\ (e[1] = l => e[2] \in 1 .. Len(rq[l]))
    <2>1. live \subseteq Levels \X Nat  BY PlacesIs
    <2>2. live # {} => e \in Places(rq)  BY Zenon, <2>1, FirstIs
    <2> HIDE DEF e
    <2> QED  BY <2>2, PlacesIs, LevelsNat
<1> HIDE DEF e
<1>3. Rest(rq, live)[l] = IF live = {} \/ l < e[1] THEN << >>
                          ELSE IF l = e[1] THEN SubSeq(rq[l], e[2] + 1, Len(rq[l]))
                          ELSE rq[l]
    BY DEF Rest, e
<1>4. CutAt(rq, live, l) =
        IF live = {} \/ l < e[1] THEN Len(rq[l]) ELSE IF l = e[1] THEN e[2] ELSE 0
    BY DEF CutAt, e
<1>5. CASE live = {} \/ l < e[1]
    <2>1. SubSeq(rq[l], Len(rq[l]) + 1, Len(rq[l])) = << >>  BY <1>1, SubSeqEmpty
    <2> QED  BY <1>1, <1>3, <1>4, <1>5, <2>1
<1>6. CASE ~(live = {} \/ l < e[1]) /\ l = e[1]
    <2>1. /\ CutAt(rq, live, l) = e[2]
          /\ Rest(rq, live)[l] = SubSeq(rq[l], e[2] + 1, Len(rq[l]))
        BY Zenon, <1>3, <1>4, <1>6
    <2>2. e[2] \in 0 .. Len(rq[l])  BY <1>1, <1>2, <1>6
    <2> QED  BY Zenon, <2>1, <2>2
<1>7. CASE ~(live = {} \/ l < e[1]) /\ l # e[1]
    <2>1. SubSeq(rq[l], 1, Len(rq[l])) = rq[l]  BY <1>1, SubSeqFull
    <2> QED  BY <1>1, <1>3, <1>4, <1>7, <2>1
<1> QED  BY Zenon, <1>5, <1>6, <1>7

LEMMA PoppedIs ==
    ASSUME NEW rq \in Array, NEW live \in SUBSET Places(rq), NEW t
    PROVE  t \in Popped(rq, live) <=>
               \E l \in Levels : \E i \in 1 .. CutAt(rq, live, l) : rq[l][i] = t
<1>1. ASSUME NEW l \in Levels, NEW i \in 1 .. Len(rq[l])
      PROVE  (\A e \in live : ~Precedes(e, << l, i >>)) <=> i <= CutAt(rq, live, l)
    <2> DEFINE E == FirstLive(live)
    <2>1. CASE live = {}  BY <1>1, <2>1, LenProperties DEF CutAt, Array
    <2>2. CASE live # {}
        <3>1. live \subseteq Levels \X Nat  BY PlacesIs
        <3>2. E \in live /\ \A f \in live : ~Precedes(f, E)  BY Zenon, <2>2, <3>1, FirstIs
        <3>3. CutAt(rq, live, l) = IF l < E[1] THEN Len(rq[l]) ELSE IF l = E[1] THEN E[2] ELSE 0
            BY <2>2 DEF CutAt
        <3> HIDE DEF E
        <3>4. /\ \A f \in live : f[1] \in Nat /\ f[2] \in Nat
              /\ E[1] \in Nat /\ E[2] \in Nat /\ l \in Nat /\ Len(rq[l]) \in Nat
            BY Zenon, <3>1, <3>2, LevelsNat, LenProperties DEF Array
        <3>5. ASSUME \A e \in live : ~Precedes(e, << l, i >>) PROVE i <= CutAt(rq, live, l)
            <4>1. ~Precedes(E, << l, i >>)  BY Zenon, <3>2, <3>5
            <4> QED  BY <3>3, <3>4, <4>1 DEF Precedes
        <3>6. ASSUME i <= CutAt(rq, live, l), NEW e \in live PROVE ~Precedes(e, << l, i >>)
            <4>1. ~Precedes(e, E)  BY Zenon, <3>2, <3>6
            <4> QED  BY <3>3, <3>4, <3>6, <4>1 DEF Precedes
        <3> QED  BY Zenon, <3>5, <3>6
    <2> QED  BY Zenon, <2>1, <2>2
<1>2. ASSUME t \in Popped(rq, live)
      PROVE  \E l \in Levels : \E i \in 1 .. CutAt(rq, live, l) : rq[l][i] = t
    <2>1. PICK f \in Places(rq) : (\A e \in live : ~Precedes(e, f)) /\ t = rq[f[1]][f[2]]
        BY Zenon, <1>2 DEF Popped, Entry
    <2>2. f[1] \in Levels /\ f[2] \in 1 .. Len(rq[f[1]]) /\ f = << f[1], f[2] >>
        BY Zenon, PlacesIs
    <2>3. f[2] <= CutAt(rq, live, f[1])  BY <1>1, <2>1, <2>2
    <2>4. CutAt(rq, live, f[1]) \in 0 .. Len(rq[f[1]])  BY Zenon, <2>2, RestIs
    <2>5. f[2] \in 1 .. CutAt(rq, live, f[1])  BY <2>2, <2>3, <2>4
    <2> QED  BY Zenon, <2>1, <2>2, <2>5
<1>3. ASSUME NEW l \in Levels, NEW i \in 1 .. CutAt(rq, live, l), rq[l][i] = t
      PROVE  t \in Popped(rq, live)
    <2>1. CutAt(rq, live, l) \in 0 .. Len(rq[l])  BY Zenon, RestIs
    <2>2. i \in 1 .. Len(rq[l]) /\ i <= CutAt(rq, live, l)  BY <2>1
    <2>3. << l, i >> \in Places(rq) /\ \A e \in live : ~Precedes(e, << l, i >>)
        BY Zenon, <1>1, <2>2, PlacesIs
    <2>4. t = Entry(rq, << l, i >>)  BY <1>3 DEF Entry
    <2> QED  BY Zenon, <2>3, <2>4 DEF Popped
<1> QED  BY Zenon, <1>2, <1>3

\* Of an array without duplicates the popped tasks and the rest are disjoint.
LEMMA CutFacts ==
    ASSUME NEW rq \in Array, OnceOn(rq), NEW live \in SUBSET Places(rq)
    PROVE  /\ Rest(rq, live) \in Array /\ OnceOn(Rest(rq, live))
           /\ \A t : On(Rest(rq, live), t) <=> On(rq, t) /\ t \notin Popped(rq, live)
           /\ \A t \in Popped(rq, live) : t \in Task /\ On(rq, t)
           /\ \A l \in Levels : \A t : Contains(Rest(rq, live)[l], t) => Contains(rq[l], t)
<1> DEFINE r    == Rest(rq, live)
           n(l) == CutAt(rq, live, l)
<1>1. ASSUME NEW l \in Levels
      PROVE  /\ rq[l] \in Seq(Task) /\ Len(rq[l]) \in Nat /\ DOMAIN rq[l] = 1 .. Len(rq[l])
             /\ n(l) \in 0 .. Len(rq[l])
             /\ r[l] \in Seq(Task) /\ Len(r[l]) = Len(rq[l]) - n(l)
             /\ DOMAIN r[l] = 1 .. (Len(rq[l]) - n(l))
             /\ \A i \in 1 .. (Len(rq[l]) - n(l)) : r[l][i] = rq[l][n(l) + i]
    <2>1. rq[l] \in Seq(Task) /\ Len(rq[l]) \in Nat /\ DOMAIN rq[l] = 1 .. Len(rq[l])
        BY LenProperties DEF Array
    <2>2. n(l) \in 0 .. Len(rq[l]) /\ r[l] = SubSeq(rq[l], n(l) + 1, Len(rq[l]))
        BY Zenon, RestIs
    <2> HIDE DEF n, r
    <2>3. /\ r[l] \in Seq(Task) /\ Len(r[l]) = Len(rq[l]) - n(l)
          /\ \A i \in 1 .. (Len(rq[l]) - n(l)) : r[l][i] = rq[l][n(l) + i]
        BY <2>1, <2>2, SuffixIs
    <2> QED  BY <2>1, <2>2, <2>3, LenProperties
<1>2. r \in Array
    <2>1. r = [l \in Levels |-> r[l]]  BY DEF Rest
    <2> HIDE DEF r
    <2> QED  BY <1>1, <2>1 DEF Array
<1> HIDE DEF r, n
<1>3. ASSUME NEW l \in Levels, NEW t
      PROVE  Contains(r[l], t) <=> \E i \in 1 .. Len(rq[l]) : i > n(l) /\ rq[l][i] = t
    <2>1. ASSUME NEW i \in 1 .. Len(r[l]), r[l][i] = t
          PROVE  \E j \in 1 .. Len(rq[l]) : j > n(l) /\ rq[l][j] = t
        <3>1. n(l) + i \in 1 .. Len(rq[l]) /\ n(l) + i > n(l) /\ rq[l][n(l) + i] = t
            BY <1>1, <2>1
        <3> QED  BY <3>1
    <2>2. ASSUME NEW i \in 1 .. Len(rq[l]), i > n(l), rq[l][i] = t PROVE Contains(r[l], t)
        <3>1. i - n(l) \in 1 .. Len(r[l]) /\ n(l) + (i - n(l)) = i  BY <1>1, <2>2
        <3>2. r[l][i - n(l)] = t  BY <1>1, <2>2, <3>1
        <3> QED  BY Zenon, <3>1, <3>2 DEF Contains
    <2> QED  BY Zenon, <2>1, <2>2 DEF Contains
<1>4. OnceOn(r)
    <2> SUFFICES ASSUME NEW l \in Levels, NEW m \in Levels,
                        NEW i \in DOMAIN r[l], NEW j \in DOMAIN r[m], r[l][i] = r[m][j]
                 PROVE  l = m /\ i = j
        BY Zenon DEF OnceOn
    <2>1. ASSUME NEW a \in Levels, NEW b \in DOMAIN r[a]
          PROVE  n(a) + b \in DOMAIN rq[a] /\ r[a][b] = rq[a][n(a) + b]
        <3>1. /\ DOMAIN rq[a] = 1 .. Len(rq[a]) /\ n(a) \in 0 .. Len(rq[a]) /\ Len(rq[a]) \in Nat
              /\ DOMAIN r[a] = 1 .. (Len(rq[a]) - n(a))
              /\ \A c \in 1 .. (Len(rq[a]) - n(a)) : r[a][c] = rq[a][n(a) + c]
            BY Zenon, <1>1
        <3> QED  BY <3>1
    <2>2. /\ n(l) + i \in DOMAIN rq[l] /\ n(m) + j \in DOMAIN rq[m]
          /\ rq[l][n(l) + i] = rq[m][n(m) + j]
        BY Zenon, <2>1
    <2>3. l = m /\ n(l) + i = n(m) + j  BY <2>2 DEF OnceOn
    <2> QED  BY <1>1, <2>3
<1>5. ASSUME NEW t
      PROVE  t \in Popped(rq, live) <=>
                \E l \in Levels : \E i \in 1 .. Len(rq[l]) : i <= n(l) /\ rq[l][i] = t
    <2>1. t \in Popped(rq, live) <=> \E l \in Levels : \E i \in 1 .. n(l) : rq[l][i] = t
        BY PoppedIs DEF n
    <2>2. ASSUME NEW l \in Levels, NEW i PROVE i \in 1 .. n(l) <=> i \in 1 .. Len(rq[l]) /\ i <= n(l)
        BY <1>1
    <2> QED  BY Zenon, <2>1, <2>2
<1>6. ASSUME NEW t PROVE On(r, t) <=> On(rq, t) /\ t \notin Popped(rq, live)
    <2>1. ASSUME On(r, t) PROVE On(rq, t) /\ t \notin Popped(rq, live)
        <3>0. PICK l \in Levels : \E i \in 1 .. Len(rq[l]) : i > n(l) /\ rq[l][i] = t
            BY Zenon, <1>3, <2>1 DEF On
        <3>1. PICK i \in 1 .. Len(rq[l]) : i > n(l) /\ rq[l][i] = t  BY Zenon, <3>0
        <3>2. ASSUME t \in Popped(rq, live) PROVE FALSE
            <4>0. PICK m \in Levels : \E j \in 1 .. Len(rq[m]) : j <= n(m) /\ rq[m][j] = t
                BY Zenon, <1>5, <3>2
            <4>1. PICK j \in 1 .. Len(rq[m]) : j <= n(m) /\ rq[m][j] = t  BY Zenon, <4>0
            <4>2. l = m /\ i = j  BY <1>1, <3>1, <4>1 DEF OnceOn
            <4> QED  BY <1>1, <3>1, <4>1, <4>2
        <3> QED  BY Zenon, <3>1, <3>2 DEF On, Contains
    <2>2. ASSUME On(rq, t), t \notin Popped(rq, live) PROVE On(r, t)
        <3>0. PICK l \in Levels : \E i \in 1 .. Len(rq[l]) : rq[l][i] = t
            BY Zenon, <2>2 DEF On, Contains
        <3>1. PICK i \in 1 .. Len(rq[l]) : rq[l][i] = t  BY Zenon, <3>0
        <3>2. ~(i <= n(l))  BY Zenon, <1>5, <2>2, <3>1
        <3>3. i > n(l)  BY <1>1, <3>2
        <3> QED  BY Zenon, <1>3, <3>1, <3>3 DEF On
    <2> QED  BY Zenon, <2>1, <2>2
<1>7. ASSUME NEW t \in Popped(rq, live) PROVE t \in Task /\ On(rq, t)
    <2>0. PICK l \in Levels : \E i \in 1 .. Len(rq[l]) : rq[l][i] = t  BY Zenon, <1>5
    <2>1. PICK i \in 1 .. Len(rq[l]) : rq[l][i] = t  BY Zenon, <2>0
    <2>2. t \in Task  BY <1>1, <2>1, ElementOfSeq
    <2> QED  BY Zenon, <2>1, <2>2 DEF On, Contains
<1>8. ASSUME NEW l \in Levels, NEW t, Contains(r[l], t) PROVE Contains(rq[l], t)
    BY Zenon, <1>3, <1>8 DEF Contains
<1> QED  BY Zenon, <1>2, <1>4, <1>6, <1>7, <1>8 DEF r

-----------------------------------------------------------------------------
(***************************************************************************)
(* What the functions of scheduler.c keep.                                 *)
(***************************************************************************)
\* Taking the tasks P off the queues keeps the account exact.
LEMMA TakeExact ==
    ASSUME NEW q \in RQState, Exact(q), NEW r \in RQState, NEW P,
           \A t \in P : t \in Task /\ q.on_queue[t],
           OnceOn(r.active), OnceOn(r.expired),
           \A t \in Task : ~(On(r.active, t) /\ On(r.expired, t)),
           \A t \in Task : On(r.active, t) \/ On(r.expired, t) <=>
                              (On(q.active, t) \/ On(q.expired, t)) /\ t \notin P,
           r.on_queue = [t \in Task |-> q.on_queue[t] /\ t \notin P],
           r.ready = q.ready - Cardinality(P)
    PROVE  Exact(r)
<1> DEFINE S == {t \in Task : q.on_queue[t]}
<1>1. IsFiniteSet(S) /\ S \cap P = P  BY Zenon, TaskAssumption, FS_Subset
<1>2. {t \in Task : r.on_queue[t]} = S \ P  OBVIOUS
<1>3. Cardinality(S \ P) = Cardinality(S) - Cardinality(P)
    <2> HIDE DEF S
    <2> QED  BY <1>1, FS_Difference
<1>4. r.ready = Cardinality({t \in Task : r.on_queue[t]})  BY Zenon, <1>2, <1>3 DEF Exact
<1>5. \A t \in Task : r.on_queue[t] <=> On(r.active, t) \/ On(r.expired, t)
    BY Zenon DEF Exact
<1> QED  BY Zenon, <1>4, <1>5 DEF Exact

\* A dead task that is still linked is linked where scheduler_remove_process()
\* does not look: its nice value has changed since it was queued.
Misfiled(q) ==
    \A t \in Task : q.state[t] = "TERMINATED" =>
        /\ ~Contains(q.active[process_get_priority(q.nice[t])], t)
        /\ ~Contains(q.expired[process_get_priority(q.nice[t])], t)

Sound(q) == q \in RQState /\ Exact(q) /\ Misfiled(q)

\* r differs from q in the queues only.
SameTasks(q, r) ==
    r.state = q.state /\ r.nice = q.nice /\ r.boost = q.boost /\ r.current = q.current

\* No task is linked at a level where it was not.
Within(q, r) ==
    \A l \in Levels : \A t : Contains(r.active[l], t) \/ Contains(r.expired[l], t) =>
                               Contains(q.active[l], t) \/ Contains(q.expired[l], t)

LEMMA WithinMisfiled ==
    ASSUME NEW q \in RQState, NEW r \in RQState, Within(q, r), SameTasks(q, r), Misfiled(q)
    PROVE  Misfiled(r)
<1>1. \A t \in Task : process_get_priority(q.nice[t]) \in Levels
    BY LevelsNat DEF RQState
<1> QED  BY Zenon, <1>1 DEF Misfiled, Within, SameTasks

LEMMA LiveIs ==
    ASSUME NEW q, NEW rq \in Array, Live(q, rq) # {}
    PROVE  LET x == Entry(rq, FirstLive(Live(q, rq)))
           IN  x \in Popped(rq, Live(q, rq)) /\ q.state[x] # "TERMINATED"
<1> DEFINE L == Live(q, rq)
           e == FirstLive(L)
<1>1. L \subseteq Places(rq) /\ L # {}  BY DEF Live
<1>2. L \subseteq Levels \X Nat  BY Zenon, <1>1, PlacesIs
<1>3. e \in L /\ \A f \in L : ~Precedes(f, e)
    <2> HIDE DEF L
    <2> QED  BY Zenon, <1>1, <1>2, FirstIs
<1>4. q.state[Entry(rq, e)] # "TERMINATED"
    <2> HIDE DEF e
    <2> QED  BY Zenon, <1>3 DEF Live, Drained
<1> HIDE DEF e, L
<1>5. Entry(rq, e) \in Popped(rq, L)  BY Zenon, <1>1, <1>3 DEF Popped
<1> QED  BY Zenon, <1>4, <1>5 DEF e, L

\* scheduler_pick_next() keeps the queues sound; the task it returns is live and
\* has left them.
LEMMA PickSound ==
    ASSUME NEW q, Sound(q)
    PROVE  LET r == scheduler_pick_next(q)
               n == PickedNext(q)
           IN  /\ Sound(r) /\ SameTasks(q, r)
               /\ \A t \in Task : r.on_queue[t] => q.on_queue[t]
               /\ n = Idle \/ (/\ n \in Task /\ q.on_queue[n] /\ ~r.on_queue[n]
                               /\ q.state[n] # "TERMINATED")
<1> DEFINE r  == scheduler_pick_next(q)
           n  == PickedNext(q)
           LA == Live(q, q.active)
           LX == Live(q, q.expired)
           PA == Popped(q.active, LA)
           PX == Popped(q.expired, LX)
           P  == PA \cup (IF LA = {} THEN PX ELSE {})
<1>1. /\ q \in RQState /\ q.active \in Array /\ q.expired \in Array
      /\ OnceOn(q.active) /\ OnceOn(q.expired)
    BY Zenon DEF Sound, RQState, Array, Exact
<1>2. LA \subseteq Places(q.active) /\ LX \subseteq Places(q.expired)  BY DEF Live
<1>3. r = [q EXCEPT !.active   = IF LA = {} THEN Rest(q.expired, LX) ELSE Rest(q.active, LA),
                    !.expired  = IF LA = {} THEN Rest(q.active, LA) ELSE @,
                    !.ready    = @ - Cardinality(P),
                    !.on_queue = [t \in Task |-> @[t] /\ t \notin P]]
    BY DEF scheduler_pick_next
<1>4. n = IF LA = {}
          THEN IF LX = {} THEN Idle ELSE Entry(q.expired, FirstLive(LX))
          ELSE Entry(q.active, FirstLive(LA))
    BY DEF PickedNext
<1>5. /\ LA # {} => /\ Entry(q.active, FirstLive(LA)) \in PA
                    /\ q.state[Entry(q.active, FirstLive(LA))] # "TERMINATED"
      /\ LX # {} => /\ Entry(q.expired, FirstLive(LX)) \in PX
                    /\ q.state[Entry(q.expired, FirstLive(LX))] # "TERMINATED"
    BY Zenon, <1>1, LiveIs
<1> HIDE DEF LA, LX
<1>6. /\ Rest(q.active, LA) \in Array /\ OnceOn(Rest(q.active, LA))
      /\ \A t : On(Rest(q.active, LA), t) <=> On(q.active, t) /\ t \notin PA
      /\ \A t \in PA : t \in Task /\ On(q.active, t)
      /\ \A l \in Levels : \A t : Contains(Rest(q.active, LA)[l], t) => Contains(q.active[l], t)
    BY Zenon, <1>1, <1>2, CutFacts
<1>7. /\ Rest(q.expired, LX) \in Array /\ OnceOn(Rest(q.expired, LX))
      /\ \A t : On(Rest(q.expired, LX), t) <=> On(q.expired, t) /\ t \notin PX
      /\ \A t \in PX : t \in Task /\ On(q.expired, t)
      /\ \A l \in Levels : \A t : Contains(Rest(q.expired, LX)[l], t) => Contains(q.expired[l], t)
    BY Zenon, <1>1, <1>2, CutFacts
<1> HIDE DEF PA, PX, n, r
<1>8. \A t \in P : t \in Task /\ q.on_queue[t]
    BY <1>6, <1>7 DEF Sound, Exact
<1>9. IsFiniteSet(P) /\ Cardinality(P) \in Nat
    <2>1. P \in SUBSET Task  BY Zenon, <1>8
    <2> HIDE DEF P
    <2> QED  BY Zenon, <2>1, TaskAssumption, FS_Subset, FS_CardinalityType
<1>10. /\ r.ready = q.ready - Cardinality(P)
       /\ r.on_queue = [t \in Task |-> q.on_queue[t] /\ t \notin P]
       /\ r.active = IF LA = {} THEN Rest(q.expired, LX) ELSE Rest(q.active, LA)
       /\ r.expired = IF LA = {} THEN Rest(q.active, LA) ELSE q.expired
       /\ SameTasks(q, r)
    <2> HIDE DEF P
    <2> QED  BY <1>1, <1>3 DEF RQState, SameTasks
<1>11. r \in RQState
    <2> HIDE DEF P
    <2>1. q.ready - Cardinality(P) \in Int  BY <1>1, <1>9 DEF RQState
    <2>2. r.active \in Array /\ r.expired \in Array  BY <1>1, <1>6, <1>7, <1>10
    <2>3. [t \in Task |-> q.on_queue[t] /\ t \notin P] \in [Task -> BOOLEAN]  BY Zenon
    <2> QED  BY Zenon, <1>1, <1>3, <1>10, <2>1, <2>2, <2>3 DEF RQState, Array
<1>12. Exact(r)
    <2>1. \A t \in Task : ~(On(q.active, t) /\ On(q.expired, t))  BY Zenon DEF Sound, Exact
    <2>2. OnceOn(r.active) /\ OnceOn(r.expired)  BY <1>1, <1>6, <1>7, <1>10
    <2>3. ASSUME NEW t \in Task
          PROVE  /\ ~(On(r.active, t) /\ On(r.expired, t))
                 /\ On(r.active, t) \/ On(r.expired, t) <=>
                        (On(q.active, t) \/ On(q.expired, t)) /\ t \notin P
        <3>1. CASE LA = {}
            <4>1. r.active = Rest(q.expired, LX) /\ r.expired = Rest(q.active, LA)
                BY Zenon, <1>10, <3>1
            <4>2. t \in P <=> t \in PA \/ t \in PX  BY <3>1
            <4> QED  BY Zenon, <1>6, <1>7, <2>1, <4>1, <4>2
        <3>2. CASE LA # {}
            <4>1. r.active = Rest(q.active, LA) /\ r.expired = q.expired
                BY Zenon, <1>10, <3>2
            <4>2. t \in P <=> t \in PA  BY <3>2
            <4> QED  BY Zenon, <1>6, <2>1, <4>1, <4>2
        <3> QED  BY Zenon, <3>1, <3>2
    <2> HIDE DEF P
    <2> QED  BY Zenon, <1>1, <1>8, <1>10, <1>11, <2>2, <2>3, TakeExact DEF Sound
<1>13. Misfiled(r)
    <2>1. Within(q, r)  BY <1>6, <1>7, <1>10 DEF Within
    <2> QED  BY Zenon, <1>1, <1>10, <1>11, <2>1, WithinMisfiled DEF Sound
<1>14. n = Idle \/ (n \in P /\ q.state[n] # "TERMINATED")  BY <1>4, <1>5
<1>15. \A t \in Task : r.on_queue[t] <=> q.on_queue[t] /\ t \notin P
    <2> HIDE DEF P
    <2> QED  BY Zenon, <1>10
<1>16. n = Idle \/ (n \in Task /\ q.on_queue[n] /\ ~r.on_queue[n] /\ q.state[n] # "TERMINATED")
    <2> HIDE DEF P
    <2> QED  BY Zenon, <1>8, <1>14, <1>15
<1> QED  BY Zenon, <1>10, <1>11, <1>12, <1>13, <1>15, <1>16 DEF Sound, r, n

\* runqueue_enqueue() of a task that is on neither array.
LEMMA EnqueueOn ==
    ASSUME NEW rq \in Array, OnceOn(rq), NEW t \in Task, ~On(rq, t), NEW l \in Levels
    PROVE  LET rr == runqueue_enqueue(rq, t, l)
           IN  /\ rr \in Array /\ OnceOn(rr)
               /\ \A x : On(rr, x) <=> On(rq, x) \/ x = t
               /\ \A m \in Levels : \A x : Contains(rr[m], x) => Contains(rq[m], x) \/ x = t
<1> DEFINE rr == runqueue_enqueue(rq, t, l)
<1>1. \A m \in Levels : rq[m] \in Seq(Task) /\ Len(rq[m]) \in Nat /\ DOMAIN rq[m] = 1 .. Len(rq[m])
    BY LenProperties DEF Array
<1>2. /\ rr \in Array /\ rr[l] = Append(rq[l], t) /\ \A m \in Levels : m # l => rr[m] = rq[m]
      /\ Append(rq[l], t) \in Seq(Task)
    <2>1. Append(rq[l], t) \in Seq(Task)  BY <1>1, AppendProperties
    <2> QED  BY <2>1 DEF runqueue_enqueue, Array
<1> HIDE DEF rr
<1>3. /\ Len(rr[l]) = Len(rq[l]) + 1 /\ DOMAIN rr[l] = 1 .. (Len(rq[l]) + 1)
      /\ rr[l][Len(rq[l]) + 1] = t /\ \A i \in 1 .. Len(rq[l]) : rr[l][i] = rq[l][i]
    BY <1>1, <1>2, AppendProperties, LenProperties
<1>4. ASSUME NEW m \in Levels, NEW i \in DOMAIN rr[m]
      PROVE  \/ i \in DOMAIN rq[m] /\ rr[m][i] = rq[m][i]
             \/ m = l /\ i = Len(rq[l]) + 1 /\ rr[m][i] = t
    <2>1. CASE m # l  BY <1>2, <2>1
    <2>2. CASE m = l
        <3>1. i \in 1 .. Len(rq[l]) \/ i = Len(rq[l]) + 1  BY <1>1, <1>3, <2>2
        <3> QED  BY <1>1, <1>3, <2>2, <3>1
    <2> QED  BY Zenon, <2>1, <2>2
<1>5. \A m \in Levels : \A i \in DOMAIN rq[m] : rq[m][i] # t
    BY Zenon, <1>1 DEF On, Contains
<1>6. OnceOn(rr)
    <2> SUFFICES ASSUME NEW a \in Levels, NEW b \in Levels,
                        NEW i \in DOMAIN rr[a], NEW j \in DOMAIN rr[b], rr[a][i] = rr[b][j]
                 PROVE  a = b /\ i = j
        BY Zenon DEF OnceOn
    <2>1. /\ \/ i \in DOMAIN rq[a] /\ rr[a][i] = rq[a][i]
             \/ a = l /\ i = Len(rq[l]) + 1 /\ rr[a][i] = t
          /\ \/ j \in DOMAIN rq[b] /\ rr[b][j] = rq[b][j]
             \/ b = l /\ j = Len(rq[l]) + 1 /\ rr[b][j] = t
        BY Zenon, <1>4
    <2>2. CASE i \in DOMAIN rq[a] /\ rr[a][i] = rq[a][i] /\ j \in DOMAIN rq[b] /\ rr[b][j] = rq[b][j]
        <3>1. rq[a][i] = rq[b][j]  BY Zenon, <2>2
        <3> QED  BY <2>2, <3>1 DEF OnceOn
    <2>3. ~(i \in DOMAIN rq[a] /\ rr[a][i] = rq[a][i] /\ rr[b][j] = t)  BY Zenon, <1>5
    <2>4. ~(j \in DOMAIN rq[b] /\ rr[b][j] = rq[b][j] /\ rr[a][i] = t)  BY Zenon, <1>5
    <2> QED  BY Zenon, <2>1, <2>2, <2>3, <2>4
<1>7. ASSUME NEW m \in Levels, NEW x
      PROVE  Contains(rr[m], x) <=> Contains(rq[m], x) \/ (m = l /\ x = t)
    <2>1. DOMAIN rr[m] = 1 .. Len(rr[m])  BY <1>2, LenProperties DEF Array
    <2>2. ASSUME Contains(rr[m], x) PROVE Contains(rq[m], x) \/ (m = l /\ x = t)
        BY Zenon, <1>1, <1>4, <2>1, <2>2 DEF Contains
    <2>3. ASSUME Contains(rq[m], x) PROVE Contains(rr[m], x)
        <3>1. CASE m # l  BY Zenon, <1>2, <2>3, <3>1
        <3>2. CASE m = l
            <4>1. PICK i \in 1 .. Len(rq[l]) : rq[l][i] = x  BY Zenon, <2>3, <3>2 DEF Contains
            <4>2. i \in 1 .. Len(rr[l]) /\ rr[l][i] = x  BY <1>1, <1>3, <4>1
            <4> QED  BY Zenon, <3>2, <4>2 DEF Contains
        <3> QED  BY Zenon, <3>1, <3>2
    <2>4. ASSUME m = l, x = t PROVE Contains(rr[m], x)
        <3>1. Len(rq[l]) + 1 \in 1 .. Len(rr[l])  BY <1>1, <1>3
        <3> QED  BY Zenon, <1>3, <2>4, <3>1 DEF Contains
    <2> QED  BY Zenon, <2>2, <2>3, <2>4
<1> QED  BY Zenon, <1>2, <1>6, <1>7 DEF On, rr

\* A task that is linked nowhere is queued at its level, on either array.
LEMMA EnterSound ==
    ASSUME NEW q, Sound(q), NEW t \in Task, ~q.on_queue[t], NEW r \in RQState,
           LET l == process_get_priority(q.nice[t])
           IN  \/ r.active = runqueue_enqueue(q.active, t, l) /\ r.expired = q.expired
               \/ r.active = q.active /\ r.expired = runqueue_enqueue(q.expired, t, l),
           r.on_queue = [q.on_queue EXCEPT ![t] = TRUE], r.ready = q.ready + 1,
           r.state = [q.state EXCEPT ![t] = "READY"], r.nice = q.nice
    PROVE  Sound(r)
<1> DEFINE l == process_get_priority(q.nice[t])
<1>1. /\ q \in RQState /\ q.active \in Array /\ q.expired \in Array /\ Exact(q)
      /\ OnceOn(q.active) /\ OnceOn(q.expired) /\ q.on_queue \in [Task -> BOOLEAN]
      /\ q.state \in [Task -> TState] /\ q.nice \in [Task -> Nices]
    BY Zenon DEF Sound, RQState, Array, Exact
<1>2. l \in Levels  BY Zenon, <1>1, LevelsNat
<1>3. ~On(q.active, t) /\ ~On(q.expired, t)  BY Zenon, <1>1 DEF Exact
<1> DEFINE A == runqueue_enqueue(q.active, t, l)
           X == runqueue_enqueue(q.expired, t, l)
<1>4. \/ r.active = A /\ r.expired = q.expired
      \/ r.active = q.active /\ r.expired = X
    BY Zenon
<1> HIDE DEF l
<1>5. /\ OnceOn(A) /\ \A x : On(A, x) <=> On(q.active, x) \/ x = t
      /\ \A m \in Levels : \A x : Contains(A[m], x) => Contains(q.active[m], x) \/ x = t
    BY Zenon, <1>1, <1>2, <1>3, EnqueueOn
<1>6. /\ OnceOn(X) /\ \A x : On(X, x) <=> On(q.expired, x) \/ x = t
      /\ \A m \in Levels : \A x : Contains(X[m], x) => Contains(q.expired[m], x) \/ x = t
    BY Zenon, <1>1, <1>2, <1>3, EnqueueOn
<1> HIDE DEF A, X
<1>7. \A x \in Task : r.on_queue[x] <=> q.on_queue[x] \/ x = t  BY <1>1
<1>8. r.ready = Cardinality({x \in Task : r.on_queue[x]})
    <2> DEFINE S == {x \in Task : q.on_queue[x]}
    <2>1. {x \in Task : r.on_queue[x]} = S \cup {t} /\ t \notin S  BY Zenon, <1>7
    <2>2. IsFiniteSet(S) /\ q.ready = Cardinality(S)  BY Zenon, <1>1, TaskAssumption, FS_Subset DEF Exact
    <2> HIDE DEF S
    <2>3. Cardinality(S \cup {t}) = Cardinality(S) + 1  BY Zenon, <2>1, <2>2, FS_AddElement
    <2> QED  BY <2>1, <2>2, <2>3
<1>9. Exact(r)
    <2>1. OnceOn(r.active) /\ OnceOn(r.expired)  BY Zenon, <1>1, <1>4, <1>5, <1>6
    <2>2. ASSUME NEW x \in Task
          PROVE  /\ r.on_queue[x] <=> On(r.active, x) \/ On(r.expired, x)
                 /\ ~(On(r.active, x) /\ On(r.expired, x))
        <3>1. /\ q.on_queue[x] <=> On(q.active, x) \/ On(q.expired, x)
              /\ ~(On(q.active, x) /\ On(q.expired, x))
            BY Zenon, <1>1 DEF Exact
        <3> QED  BY Zenon, <1>3, <1>4, <1>5, <1>6, <1>7, <3>1
    <2> QED  BY Zenon, <1>8, <2>1, <2>2 DEF Exact
<1>10. Misfiled(r)
    <2> SUFFICES ASSUME NEW x \in Task, r.state[x] = "TERMINATED"
                 PROVE  /\ ~Contains(r.active[process_get_priority(r.nice[x])], x)
                        /\ ~Contains(r.expired[process_get_priority(r.nice[x])], x)
        BY Zenon DEF Misfiled
    <2>1. x # t /\ q.state[x] = "TERMINATED"  BY <1>1
    <2>2. process_get_priority(r.nice[x]) \in Levels  BY Zenon, <1>1, LevelsNat
    <2>3. /\ ~Contains(q.active[process_get_priority(r.nice[x])], x)
          /\ ~Contains(q.expired[process_get_priority(r.nice[x])], x)
        BY Zenon, <2>1 DEF Sound, Misfiled
    <2> QED  BY Zenon, <1>4, <1>5, <1>6, <2>1, <2>2, <2>3
<1> QED  BY Zenon, <1>9, <1>10 DEF Sound

\* A task becomes READY and queued, whichever array it is put on.
Entered(q, t, c, A, X) ==
    [q EXCEPT !.state[t] = "READY", !.on_queue[t] = TRUE, !.ready = @ + 1,
              !.boost[t] = c, !.active = A, !.expired = X]

Enters(q, r, t, c, A, X) ==
    /\ r \in RQState /\ r.active = A /\ r.expired = X /\ r.ready = q.ready + 1
    /\ r.on_queue = [q.on_queue EXCEPT ![t] = TRUE] /\ r.nice = q.nice
    /\ r.state = [q.state EXCEPT ![t] = "READY"] /\ r.current = q.current
    /\ r.boost[t] = c /\ \A x \in Task : x # t => r.boost[x] = q.boost[x]

LEMMA EnterIs ==
    ASSUME NEW q \in RQState, NEW t \in Task, NEW A \in Array, NEW X \in Array,
           NEW c \in 0 .. PRIORITY_YIELD_BOOST_MAX, NEW r, r = Entered(q, t, c, A, X)
    PROVE  Enters(q, r, t, c, A, X)
<1> DEFINE st == [q.state EXCEPT ![t] = "READY"]
           oq == [q.on_queue EXCEPT ![t] = TRUE]
           bo == [q.boost EXCEPT ![t] = c]
           n  == q.ready + 1
<1>1. /\ q.state \in [Task -> TState] /\ q.on_queue \in [Task -> BOOLEAN] /\ q.ready \in Int
      /\ q.boost \in [Task -> 0 .. PRIORITY_YIELD_BOOST_MAX]
    BY Zenon DEF RQState
<1>2. st \in [Task -> TState]  BY <1>1 DEF TState
<1>3. oq \in [Task -> BOOLEAN] /\ n \in Int /\ bo \in [Task -> 0 .. PRIORITY_YIELD_BOOST_MAX]
    BY <1>1
<1>4. r = [ active |-> A, expired |-> X, ready |-> n, on_queue |-> oq, state |-> st,
            nice |-> q.nice, boost |-> bo, current |-> q.current ]
    BY Zenon DEF Entered, RQState
<1>0. bo[t] = c /\ \A x \in Task : x # t => bo[x] = q.boost[x]  BY <1>1
<1> HIDE DEF st, oq, bo, n
<1>5. /\ r.active = A /\ r.expired = X /\ r.ready = n /\ r.on_queue = oq /\ r.nice = q.nice
      /\ r.state = st /\ r.boost = bo /\ r.current = q.current
    BY <1>4
<1>6. r \in RQState  BY <1>2, <1>3, <1>4 DEF RQState, Array
<1> QED  BY Zenon, <1>0, <1>5, <1>6 DEF st, oq, n, Enters

\* A task that is not dead is queued now.
Joins(q, r, t) ==
    /\ Sound(r) /\ r.current = q.current
    /\ \A x \in Task : x # t => r.on_queue[x] = q.on_queue[x] /\ r.state[x] = q.state[x]
    /\ r.state[t] \in {q.state[t], "READY"}
    /\ q.state[t] # "TERMINATED" => r.on_queue[t]

\* scheduler_add_process() of a live task that is not queued.
LEMMA AddIs ==
    ASSUME NEW q, Sound(q), NEW t \in Task, q.state[t] # "TERMINATED", ~q.on_queue[t]
    PROVE  Enters(q, scheduler_add_process(q, t), t, q.boost[t], q.active,
                  runqueue_enqueue(q.expired, t, process_get_priority(q.nice[t])))
<1> DEFINE r == scheduler_add_process(q, t)
           l == process_get_priority(q.nice[t])
           X == runqueue_enqueue(q.expired, t, l)
<1>1. /\ q \in RQState /\ q.nice[t] \in Nices /\ l \in Levels /\ q.expired \in Array
      /\ OnceOn(q.expired) /\ ~On(q.expired, t)
    BY LevelsNat DEF Sound, RQState, Exact, Array
<1>2. X \in Array
    <2> HIDE DEF l
    <2> QED  BY Zenon, <1>1, EnqueueOn
<1>3. r = [q EXCEPT !.state[t] = "READY", !.on_queue[t] = TRUE, !.ready = @ + 1,
                    !.expired = X]
    BY DEF scheduler_add_process
<1> HIDE DEF l, X, r
<1>4. /\ q.active \in Array /\ q.boost[t] \in 0 .. PRIORITY_YIELD_BOOST_MAX
      /\ r = Entered(q, t, q.boost[t], q.active, X)
    BY ZenonT(30), <1>1, <1>3 DEF RQState, Array, Entered
<1>5. Enters(q, r, t, q.boost[t], q.active, X)  BY Zenon, <1>1, <1>2, <1>4, EnterIs
<1> QED  BY Zenon, <1>5 DEF r, l, X

LEMMA AddSound ==
    ASSUME NEW q, Sound(q), NEW t \in Task
    PROVE  Joins(q, scheduler_add_process(q, t), t)
<1> DEFINE r == scheduler_add_process(q, t)
<1>1. CASE q.state[t] = "TERMINATED" \/ q.on_queue[t]
    BY Zenon, <1>1 DEF scheduler_add_process, Joins
<1>2. CASE ~(q.state[t] = "TERMINATED" \/ q.on_queue[t])
    <2> DEFINE l == process_get_priority(q.nice[t])
               X == runqueue_enqueue(q.expired, t, l)
    <2>1. Enters(q, r, t, q.boost[t], q.active, X)  BY Zenon, <1>2, AddIs
    <2> HIDE DEF l, X, r
    <2>2. /\ r \in RQState /\ r.active = q.active /\ r.expired = X /\ r.ready = q.ready + 1
          /\ r.on_queue = [q.on_queue EXCEPT ![t] = TRUE]
          /\ r.state = [q.state EXCEPT ![t] = "READY"] /\ r.nice = q.nice /\ r.current = q.current
        BY Zenon, <2>1 DEF Enters
    <2>3. Sound(r)  BY Zenon, <1>2, <2>2, EnterSound DEF X, l
    <2>4. /\ \A x \in Task : x # t => r.on_queue[x] = q.on_queue[x] /\ r.state[x] = q.state[x]
          /\ r.state[t] = "READY" /\ r.on_queue[t]
        BY <2>2 DEF Sound, RQState
    <2> QED  BY Zenon, <1>2, <2>2, <2>3, <2>4 DEF r, Joins
<1> QED  BY Zenon, <1>1, <1>2

\* The bonus turns of a nice value are at most PRIORITY_YIELD_BOOST_MAX.
LEMMA BoostBound ==
    \A n \in Nices : priority_yield_boost(n) \in 0 .. PRIORITY_YIELD_BOOST_MAX
<1> SUFFICES ASSUME NEW n \in Nices
             PROVE  priority_yield_boost(n) \in 0 .. PRIORITY_YIELD_BOOST_MAX
    OBVIOUS
<1>1. n \in -20 .. 19  BY TaskAssumption
<1> QED  BY <1>1 DEF priority_yield_boost, PRIORITY_YIELD_BOOST_MAX

\* scheduler_yield_requeue() of a live task that is not queued.
Requeues(q, r, t) ==
    LET l == process_get_priority(q.nice[t])
    IN  IF q.boost[t] > 0
        THEN Enters(q, r, t, q.boost[t] - 1, runqueue_enqueue(q.active, t, l), q.expired)
        ELSE Enters(q, r, t, priority_yield_boost(q.nice[t]), q.active,
                    runqueue_enqueue(q.expired, t, l))

LEMMA RequeueIs ==
    ASSUME NEW q, Sound(q), NEW t \in Task, q.state[t] # "TERMINATED", ~q.on_queue[t]
    PROVE  Requeues(q, scheduler_yield_requeue(q, t), t)
<1> DEFINE r == scheduler_yield_requeue(q, t)
           l == process_get_priority(q.nice[t])
           A == runqueue_enqueue(q.active, t, l)
           X == runqueue_enqueue(q.expired, t, l)
<1>1. /\ q \in RQState /\ q.nice[t] \in Nices /\ l \in Levels
      /\ q.active \in Array /\ q.expired \in Array /\ OnceOn(q.active) /\ OnceOn(q.expired)
      /\ ~On(q.active, t) /\ ~On(q.expired, t)
    BY LevelsNat DEF Sound, RQState, Exact, Array
<1>2. A \in Array /\ X \in Array
    <2> HIDE DEF l
    <2> QED  BY Zenon, <1>1, EnqueueOn
<1>3. r = IF q.boost[t] > 0
          THEN [q EXCEPT !.state[t] = "READY", !.on_queue[t] = TRUE, !.ready = @ + 1,
                         !.boost[t] = @ - 1, !.active = A]
          ELSE [q EXCEPT !.state[t] = "READY", !.on_queue[t] = TRUE, !.ready = @ + 1,
                         !.boost[t] = priority_yield_boost(q.nice[t]), !.expired = X]
    BY <1>1 DEF scheduler_yield_requeue, RQState
<1> DEFINE b == priority_yield_boost(q.nice[t])
           c == q.boost[t] - 1
<1>4. /\ b \in 0 .. PRIORITY_YIELD_BOOST_MAX
      /\ q.boost[t] > 0 => c \in 0 .. PRIORITY_YIELD_BOOST_MAX
    BY <1>1, BoostBound DEF RQState, PRIORITY_YIELD_BOOST_MAX
<1> HIDE DEF l, A, X, r, b
<1>5. ASSUME q.boost[t] > 0 PROVE Enters(q, r, t, c, A, q.expired)
    <2>1. r = Entered(q, t, c, A, q.expired)
        BY ZenonT(30), <1>1, <1>3, <1>5 DEF RQState, Entered
    <2> HIDE DEF c
    <2> QED  BY Zenon, <1>1, <1>2, <1>4, <1>5, <2>1, EnterIs
<1>6. ASSUME ~(q.boost[t] > 0) PROVE Enters(q, r, t, b, q.active, X)
    <2>1. r = Entered(q, t, b, q.active, X)
        BY ZenonT(30), <1>1, <1>3, <1>6 DEF b, RQState, Entered
    <2> QED  BY Zenon, <1>1, <1>2, <1>4, <2>1, EnterIs
<1> QED  BY Zenon, <1>5, <1>6 DEF Requeues, r, l, A, X, b

LEMMA RequeueSound ==
    ASSUME NEW q, Sound(q), NEW t \in Task
    PROVE  Joins(q, scheduler_yield_requeue(q, t), t)
<1> DEFINE r == scheduler_yield_requeue(q, t)
<1>1. CASE q.state[t] = "TERMINATED" \/ q.on_queue[t]
    BY Zenon, <1>1 DEF scheduler_yield_requeue, Joins
<1>2. CASE ~(q.state[t] = "TERMINATED" \/ q.on_queue[t])
    <2> DEFINE l == process_get_priority(q.nice[t])
               A == runqueue_enqueue(q.active, t, l)
               X == runqueue_enqueue(q.expired, t, l)
    <2>1. Requeues(q, r, t)  BY Zenon, <1>2, RequeueIs
    <2> HIDE DEF r
    <2>2. /\ r \in RQState /\ r.ready = q.ready + 1
          /\ \/ r.active = A /\ r.expired = q.expired
             \/ r.active = q.active /\ r.expired = X
          /\ r.on_queue = [q.on_queue EXCEPT ![t] = TRUE]
          /\ r.state = [q.state EXCEPT ![t] = "READY"] /\ r.nice = q.nice /\ r.current = q.current
        BY Zenon, <2>1 DEF Requeues, Enters
    <2> HIDE DEF l, A, X
    <2>3. Sound(r)  BY Zenon, <1>2, <2>2, EnterSound DEF A, X, l
    <2>4. /\ \A x \in Task : x # t => r.on_queue[x] = q.on_queue[x] /\ r.state[x] = q.state[x]
          /\ r.state[t] = "READY" /\ r.on_queue[t]
        BY <2>2 DEF Sound, RQState
    <2> QED  BY Zenon, <1>2, <2>2, <2>3, <2>4 DEF r, Joins
<1> QED  BY Zenon, <1>1, <1>2

\* runqueue_remove() of a task from the list it is on.
LEMMA RemoveOn ==
    ASSUME NEW rq \in Array, OnceOn(rq), NEW t \in Task, NEW l \in Levels, Contains(rq[l], t)
    PROVE  LET rr == [rq EXCEPT ![l] = RemoveFirst(@, t)]
           IN  /\ rr \in Array /\ OnceOn(rr)
               /\ \A x : On(rr, x) <=> On(rq, x) /\ x # t
               /\ \A m \in Levels : \A x : Contains(rr[m], x) => Contains(rq[m], x)
<1> DEFINE rr == [rq EXCEPT ![l] = RemoveFirst(@, t)]
<1>1. \A m \in Levels : rq[m] \in Seq(Task) /\ Len(rq[m]) \in Nat /\ DOMAIN rq[m] = 1 .. Len(rq[m])
    BY LenProperties DEF Array
<1> DEFINE v == RemoveFirst(rq[l], t)
<1>0. PICK n \in 1 .. Len(rq[l]) : WithoutAt(Task, rq[l], t, v, n)
    BY Zenon, <1>1, RemoveFirstIs
<1>2. /\ n \in 1 .. Len(rq[l])
      /\ rq[l][n] = t /\ v \in Seq(Task) /\ Len(v) = Len(rq[l]) - 1
      /\ \A i \in 1 .. (Len(rq[l]) - 1) : v[i] = IF i < n THEN rq[l][i] ELSE rq[l][i + 1]
    BY Zenon, <1>0 DEF WithoutAt
<1> HIDE DEF v
<1>3. rr \in Array /\ rr[l] = v /\ \A m \in Levels : m # l => rr[m] = rq[m]
    BY <1>2 DEF Array, v
<1> HIDE DEF rr
<1> DEFINE src(m, i) == IF m = l /\ ~(i < n) THEN i + 1 ELSE i
<1>4. \A m \in Levels : DOMAIN rr[m] = 1 .. Len(rr[m])  BY <1>3, LenProperties DEF Array
<1>5. ASSUME NEW m \in Levels, NEW i \in DOMAIN rr[m]
      PROVE  /\ i \in Nat /\ src(m, i) \in DOMAIN rq[m] /\ rr[m][i] = rq[m][src(m, i)]
             /\ m = l => src(m, i) # n
    <2>1. CASE m # l  BY <1>1, <1>3, <2>1
    <2>2. CASE m = l
        <3>1. i \in 1 .. (Len(rq[l]) - 1)  BY <1>2, <1>3, <1>4, <2>2
        <3>2. v[i] = IF i < n THEN rq[l][i] ELSE rq[l][i + 1]  BY Zenon, <1>2, <3>1
        <3>3. src(m, i) \in 1 .. Len(rq[l]) /\ src(m, i) # n  BY <1>1, <2>2, <3>1
        <3> QED  BY <1>1, <1>3, <2>2, <3>1, <3>2, <3>3
    <2> QED  BY Zenon, <2>1, <2>2
<1>6. ASSUME NEW m \in Levels, NEW j \in DOMAIN rq[m], m # l \/ j # n
      PROVE  \E i \in DOMAIN rr[m] : rr[m][i] = rq[m][j]
    <2>1. CASE m # l  BY Zenon, <1>3, <2>1
    <2>2. CASE m = l
        <3> DEFINE i == IF j < n THEN j ELSE j - 1
        <3>1. /\ j \in 1 .. Len(rq[l]) /\ j # n /\ i \in 1 .. (Len(rq[l]) - 1)
              /\ i < n => i = j
              /\ ~(i < n) => i + 1 = j
            BY <1>1, <1>6, <2>2
        <3> HIDE DEF i
        <3>2. v[i] = IF i < n THEN rq[l][i] ELSE rq[l][i + 1]  BY Zenon, <1>2, <3>1
        <3>3. v[i] = rq[l][j]  BY <3>1, <3>2
        <3>4. i \in DOMAIN rr[l]  BY <1>2, <1>3, <1>4, <3>1
        <3> QED  BY Zenon, <1>3, <2>2, <3>3, <3>4
    <2> QED  BY Zenon, <2>1, <2>2
<1>7. OnceOn(rr)
    <2> SUFFICES ASSUME NEW a \in Levels, NEW b \in Levels,
                        NEW i \in DOMAIN rr[a], NEW j \in DOMAIN rr[b], rr[a][i] = rr[b][j]
                 PROVE  a = b /\ i = j
        BY Zenon DEF OnceOn
    <2>1. /\ i \in Nat /\ src(a, i) \in DOMAIN rq[a] /\ rr[a][i] = rq[a][src(a, i)]
          /\ j \in Nat /\ src(b, j) \in DOMAIN rq[b] /\ rr[b][j] = rq[b][src(b, j)]
        BY Zenon, <1>5
    <2>2. a = b /\ src(a, i) = src(b, j)
        <3> DEFINE ii == src(a, i)
                   jj == src(b, j)
        <3>1. ii \in DOMAIN rq[a] /\ jj \in DOMAIN rq[b] /\ rq[a][ii] = rq[b][jj]  BY Zenon, <2>1
        <3> HIDE DEF ii, jj
        <3>2. a = b /\ ii = jj  BY <3>1 DEF OnceOn
        <3> QED  BY Zenon, <3>2 DEF ii, jj
    <2>3. n \in Nat  BY <1>1
    <2> QED  BY <2>1, <2>2, <2>3
<1>8. ASSUME NEW m \in Levels, NEW x, Contains(rr[m], x) PROVE Contains(rq[m], x) /\ x # t
    <2>1. PICK i \in DOMAIN rr[m] : rr[m][i] = x  BY Zenon, <1>4, <1>8 DEF Contains
    <2> DEFINE j == src(m, i)
    <2>2. j \in DOMAIN rq[m] /\ rq[m][j] = x /\ (m = l => j # n)  BY Zenon, <1>5, <2>1
    <2> HIDE DEF j
    <2>3. n \in DOMAIN rq[l] /\ rq[l][n] = t  BY Zenon, <1>1, <1>2
    <2>4. x # t  BY <2>2, <2>3 DEF OnceOn
    <2> QED  BY Zenon, <1>1, <2>2, <2>4 DEF Contains
<1>9. ASSUME NEW m \in Levels, NEW x, Contains(rq[m], x), x # t PROVE Contains(rr[m], x)
    <2>1. PICK j \in DOMAIN rq[m] : rq[m][j] = x  BY Zenon, <1>1, <1>9 DEF Contains
    <2>2. m # l \/ j # n  BY Zenon, <1>2, <1>9, <2>1
    <2>3. PICK i \in DOMAIN rr[m] : rr[m][i] = rq[m][j]  BY Zenon, <1>6, <2>2
    <2> QED  BY Zenon, <1>4, <2>1, <2>3 DEF Contains
<1>10. \A x : On(rr, x) <=> On(rq, x) /\ x # t  BY Zenon, <1>8, <1>9 DEF On
<1> QED  BY Zenon, <1>3, <1>7, <1>8, <1>10 DEF rr

\* scheduler_remove_process() after the state of its task was changed: if it does
\* not find the task, then the task is not at the level of its nice value.
LEMMA RemoveSound ==
    ASSUME NEW q \in RQState, Exact(q), NEW t \in Task,
           \A x \in Task \ {t} : q.state[x] = "TERMINATED" =>
               /\ ~Contains(q.active[process_get_priority(q.nice[x])], x)
               /\ ~Contains(q.expired[process_get_priority(q.nice[x])], x)
    PROVE  LET r == scheduler_remove_process(q, t)
           IN  /\ Sound(r) /\ SameTasks(q, r)
               /\ \A x \in Task : r.on_queue[x] => q.on_queue[x]
<1> DEFINE r == scheduler_remove_process(q, t)
           l == process_get_priority(q.nice[t])
<1>1. /\ q.active \in Array /\ q.expired \in Array /\ OnceOn(q.active) /\ OnceOn(q.expired)
      /\ l \in Levels /\ \A x \in Task : process_get_priority(q.nice[x]) \in Levels
      /\ \A x \in Task : /\ q.on_queue[x] <=> On(q.active, x) \/ On(q.expired, x)
                         /\ ~(On(q.active, x) /\ On(q.expired, x))
    <2>1. \A x \in Task : q.nice[x] \in Nices  BY DEF RQState
    <2> QED  BY Zenon, <2>1, LevelsNat DEF RQState, Array, Exact
<1>2. CASE r = q /\ ~Contains(q.active[l], t) /\ ~Contains(q.expired[l], t)
    <2>1. Misfiled(q)  BY Zenon, <1>2 DEF Misfiled
    <2> QED  BY Zenon, <1>2, <2>1 DEF Sound, SameTasks
<1>3. ~q.on_queue[t] => r = q /\ ~Contains(q.active[l], t) /\ ~Contains(q.expired[l], t)
    <2>1. ~q.on_queue[t] => r = q  BY Zenon DEF scheduler_remove_process
    <2>2. ~q.on_queue[t] => ~Contains(q.active[l], t) /\ ~Contains(q.expired[l], t)
        <3> HIDE DEF l
        <3> QED  BY Zenon, <1>1 DEF On
    <2> QED  BY Zenon, <2>1, <2>2
<1> DEFINE oq == [x \in Task |-> q.on_queue[x] /\ x \notin {t}]
           A  == [q.active EXCEPT ![l] = RemoveFirst(@, t)]
           X  == [q.expired EXCEPT ![l] = RemoveFirst(@, t)]
<1>4. ASSUME NEW a \in Array, NEW x \in Array, OnceOn(a), OnceOn(x), q.on_queue[t],
             r = [ active |-> a, expired |-> x, ready |-> q.ready - 1, on_queue |-> oq,
                   state |-> q.state, nice |-> q.nice, boost |-> q.boost, current |-> q.current ],
             \A y : On(a, y) <=> On(q.active, y) /\ y # t,
             \A y : On(x, y) <=> On(q.expired, y) /\ y # t,
             \A m \in Levels : \A y : /\ Contains(a[m], y) => Contains(q.active[m], y)
                                      /\ Contains(x[m], y) => Contains(q.expired[m], y)
      PROVE  /\ Sound(r) /\ SameTasks(q, r)
             /\ \A y \in Task : r.on_queue[y] => q.on_queue[y]
    <2> HIDE DEF r, l
    <2>1. oq \in [Task -> BOOLEAN] /\ q.ready - 1 \in Int  BY DEF RQState
    <2> DEFINE n == q.ready - 1
    <2> HIDE DEF oq
    <2>2. r \in RQState
        <3> HIDE DEF n
        <3> QED  BY <1>4, <2>1 DEF RQState, Array, n
    <2>3. /\ r.active = a /\ r.expired = x /\ r.ready = q.ready - 1 /\ r.on_queue = oq
          /\ SameTasks(q, r)
        BY <1>4 DEF SameTasks
    <2>4. \A y \in Task : On(r.active, y) \/ On(r.expired, y) <=>
                            (On(q.active, y) \/ On(q.expired, y)) /\ y \notin {t}
        BY Zenon, <1>4, <2>3
    <2>5. \A y \in Task : ~(On(r.active, y) /\ On(r.expired, y))  BY Zenon, <1>1, <1>4, <2>3
    <2>6. Exact(r)
        <3>1. r.ready = q.ready - Cardinality({t})
            <4>1. Cardinality({t}) = 1  BY Zenon, FS_Singleton
            <4> QED  BY Zenon, <2>3, <4>1
        <3>2. \A y \in {t} : y \in Task /\ q.on_queue[y]  BY Zenon, <1>4
        <3>3. r.on_queue = [y \in Task |-> q.on_queue[y] /\ y \notin {t}]  BY Zenon, <2>3 DEF oq
        <3>4. OnceOn(r.active) /\ OnceOn(r.expired)  BY Zenon, <1>4, <2>3
        <3> QED  BY Zenon, <2>2, <2>4, <2>5, <3>1, <3>2, <3>3, <3>4, TakeExact
    <2>7. Misfiled(r)
        <3> SUFFICES ASSUME NEW y \in Task, r.state[y] = "TERMINATED"
                     PROVE  /\ ~Contains(r.active[process_get_priority(r.nice[y])], y)
                            /\ ~Contains(r.expired[process_get_priority(r.nice[y])], y)
            BY Zenon DEF Misfiled
        <3> DEFINE m == process_get_priority(q.nice[y])
        <3>1. m \in Levels /\ m = process_get_priority(r.nice[y]) /\ q.state[y] = "TERMINATED"
            BY Zenon, <1>1, <2>3 DEF SameTasks
        <3>2. y # t => ~Contains(q.active[m], y) /\ ~Contains(q.expired[m], y)  BY Zenon, <3>1
        <3> HIDE DEF m
        <3>3. y = t => ~Contains(a[m], y) /\ ~Contains(x[m], y)  BY Zenon, <1>4, <3>1 DEF On
        <3> QED  BY Zenon, <1>4, <2>3, <3>1, <3>2, <3>3
    <2>8. \A y \in Task : r.on_queue[y] => q.on_queue[y]  BY Zenon, <2>3 DEF oq
    <2> QED  BY Zenon, <2>2, <2>3, <2>6, <2>7, <2>8 DEF Sound
<1>5. CASE q.on_queue[t] /\ Contains(q.active[l], t)
    <2>1. r = [ active |-> A, expired |-> q.expired, ready |-> q.ready - 1, on_queue |-> oq,
                state |-> q.state, nice |-> q.nice, boost |-> q.boost, current |-> q.current ]
        BY ZenonT(30), <1>5 DEF scheduler_remove_process, RQState
    <2> HIDE DEF l, r, oq
    <2>2. /\ A \in Array /\ OnceOn(A) /\ \A y : On(A, y) <=> On(q.active, y) /\ y # t
          /\ \A m \in Levels : \A y : Contains(A[m], y) => Contains(q.active[m], y)
        BY Zenon, <1>1, <1>5, RemoveOn
    <2> HIDE DEF A
    <2>3. ~On(q.expired, t)  BY Zenon, <1>1, <1>5 DEF On
    <2> QED  BY Zenon, <1>1, <1>4, <1>5, <2>1, <2>2, <2>3 DEF r
<1>6. CASE q.on_queue[t] /\ ~Contains(q.active[l], t) /\ Contains(q.expired[l], t)
    <2>1. r = [ active |-> q.active, expired |-> X, ready |-> q.ready - 1, on_queue |-> oq,
                state |-> q.state, nice |-> q.nice, boost |-> q.boost, current |-> q.current ]
        BY ZenonT(30), <1>6 DEF scheduler_remove_process, RQState
    <2> HIDE DEF l, r, oq
    <2>2. /\ X \in Array /\ OnceOn(X) /\ \A y : On(X, y) <=> On(q.expired, y) /\ y # t
          /\ \A m \in Levels : \A y : Contains(X[m], y) => Contains(q.expired[m], y)
        BY Zenon, <1>1, <1>6, RemoveOn
    <2> HIDE DEF X
    <2>3. ~On(q.active, t)  BY Zenon, <1>1, <1>6 DEF On
    <2> QED  BY Zenon, <1>1, <1>4, <1>6, <2>1, <2>2, <2>3 DEF r
<1>7. q.on_queue[t] /\ ~Contains(q.active[l], t) /\ ~Contains(q.expired[l], t) => r = q
    BY Zenon DEF scheduler_remove_process
<1> QED  BY Zenon, <1>2, <1>3, <1>5, <1>6, <1>7

\* A task is on an array when it is the entry of a place of it.
LEMMA OnPlaces ==
    ASSUME NEW rq \in Array, NEW t, On(rq, t)
    PROVE  \E e \in Places(rq) : Entry(rq, e) = t
<1>1. \A m \in Levels : DOMAIN rq[m] = 1 .. Len(rq[m])  BY LenProperties DEF Array
<1>2. PICK l \in Levels : \E i \in DOMAIN rq[l] : rq[l][i] = t  BY Zenon, <1>1 DEF On, Contains
<1>3. PICK i \in DOMAIN rq[l] : rq[l][i] = t  BY Zenon, <1>2
<1>4. << l, i >> \in Places(rq)  BY <1>3 DEF Places
<1>5. Entry(rq, << l, i >>) = t  BY <1>3 DEF Entry
<1> QED  BY Zenon, <1>4, <1>5

\* scheduler_pick_next() returns the idle thread only if no live task is queued.
LEMMA NoneLive ==
    ASSUME NEW q, Sound(q), PickedNext(q) = Idle, NEW t \in Task, q.on_queue[t]
    PROVE  q.state[t] = "TERMINATED"
<1> SUFFICES ASSUME q.state[t] # "TERMINATED" PROVE FALSE
    OBVIOUS
<1>1. q.active \in Array /\ q.expired \in Array /\ (On(q.active, t) \/ On(q.expired, t))
    BY Zenon DEF Sound, RQState, Array, Exact
<1> DEFINE LA == Live(q, q.active)
           LX == Live(q, q.expired)
<1>2. LA # {} \/ LX # {}
    <2>1. CASE On(q.active, t)
        <3>1. PICK e \in Places(q.active) : Entry(q.active, e) = t  BY Zenon, <1>1, <2>1, OnPlaces
        <3>2. e \in LA  BY Zenon, <3>1 DEF Live, Drained
        <3> QED  BY Zenon, <3>2
    <2>2. CASE On(q.expired, t)
        <3>1. PICK e \in Places(q.expired) : Entry(q.expired, e) = t  BY Zenon, <1>1, <2>2, OnPlaces
        <3>2. e \in LX  BY Zenon, <3>1 DEF Live, Drained
        <3> QED  BY Zenon, <3>2
    <2> QED  BY Zenon, <1>1, <2>1, <2>2
<1>3. Idle = IF LA = {}
             THEN IF LX = {} THEN Idle ELSE Entry(q.expired, FirstLive(LX))
             ELSE Entry(q.active, FirstLive(LA))
    BY DEF PickedNext
<1>4. LA # {} => Entry(q.active, FirstLive(LA)) \in Task
    <2>1. LA \subseteq Places(q.active)  BY DEF Live
    <2>2. OnceOn(q.active)  BY Zenon DEF Sound, Exact
    <2>3. LA # {} => Entry(q.active, FirstLive(LA)) \in Popped(q.active, LA)  BY Zenon, <1>1, LiveIs
    <2> HIDE DEF LA
    <2>4. \A x \in Popped(q.active, LA) : x \in Task  BY Zenon, <1>1, <2>1, <2>2, CutFacts
    <2> QED  BY Zenon, <2>3, <2>4
<1>5. LX # {} => Entry(q.expired, FirstLive(LX)) \in Task
    <2>1. LX \subseteq Places(q.expired)  BY DEF Live
    <2>2. OnceOn(q.expired)  BY Zenon DEF Sound, Exact
    <2>3. LX # {} => Entry(q.expired, FirstLive(LX)) \in Popped(q.expired, LX)  BY Zenon, <1>1, LiveIs
    <2> HIDE DEF LX
    <2>4. \A x \in Popped(q.expired, LX) : x \in Task  BY Zenon, <1>1, <2>1, <2>2, CutFacts
    <2> QED  BY Zenon, <2>3, <2>4
<1> HIDE DEF LA, LX
<1> QED  BY <1>2, <1>3, <1>4, <1>5, TaskAssumption

-----------------------------------------------------------------------------
(***************************************************************************)
(* The steps.                                                              *)
(***************************************************************************)
\* r differs from q in the tasks' own fields only.
SameQueues(q, r) ==
    /\ r \in RQState /\ r.active = q.active /\ r.expired = q.expired
    /\ r.ready = q.ready /\ r.on_queue = q.on_queue

\* Tasks change outside the queues: whoever is dead was dead already and keeps its
\* level, or is not queued.
LEMMA RetaskSound ==
    ASSUME NEW q, Sound(q), NEW r, SameQueues(q, r),
           \A x \in Task : r.state[x] = "TERMINATED" =>
               (q.state[x] = "TERMINATED" /\ r.nice[x] = q.nice[x]) \/ ~q.on_queue[x]
    PROVE  Sound(r)
<1>1. Exact(r)  BY Zenon DEF Sound, Exact, SameQueues
<1>2. Misfiled(r)
    <2> SUFFICES ASSUME NEW x \in Task, r.state[x] = "TERMINATED"
                 PROVE  /\ ~Contains(r.active[process_get_priority(r.nice[x])], x)
                        /\ ~Contains(r.expired[process_get_priority(r.nice[x])], x)
        BY Zenon DEF Misfiled
    <2>1. CASE q.state[x] = "TERMINATED" /\ r.nice[x] = q.nice[x]
        BY Zenon, <2>1 DEF Sound, Misfiled, SameQueues
    <2>2. CASE ~q.on_queue[x]
        <3>1. ~On(r.active, x) /\ ~On(r.expired, x)  BY Zenon, <2>2 DEF Sound, Exact, SameQueues
        <3>2. r.nice[x] \in Nices  BY DEF SameQueues, RQState
        <3>3. process_get_priority(r.nice[x]) \in Levels  BY Zenon, <3>2, LevelsNat
        <3> QED  BY Zenon, <3>1, <3>3 DEF On
    <2> QED  BY Zenon, <2>1, <2>2
<1> QED  BY Zenon, <1>1, <1>2 DEF Sound, SameQueues

LEMMA RQFields ==
    ASSUME NEW q \in RQState
    PROVE  /\ q.active \in Array /\ q.expired \in Array /\ q.ready \in Int
           /\ q.on_queue \in [Task -> BOOLEAN] /\ q.state \in [Task -> TState]
           /\ q.nice \in [Task -> Nices] /\ q.current \in Task
           /\ q.boost \in [Task -> 0 .. PRIORITY_YIELD_BOOST_MAX]
  BY Zenon DEF RQState, Array

LEMMA RQRecord ==
    ASSUME NEW ac \in Array, NEW ex \in Array, NEW n \in Int, NEW oq \in [Task -> BOOLEAN],
           NEW st \in [Task -> TState], NEW ni \in [Task -> Nices],
           NEW bo \in [Task -> 0 .. PRIORITY_YIELD_BOOST_MAX], NEW cu \in Task
    PROVE  [ active |-> ac, expired |-> ex, ready |-> n, on_queue |-> oq, state |-> st,
             nice |-> ni, boost |-> bo, current |-> cu ] \in RQState
  BY DEF RQState, Array

\* Another state for one task.
InState(q, t, x) == [q EXCEPT !.state[t] = x]

Restated(q, r, t, x) ==
    /\ SameQueues(q, r) /\ r.state[t] = x /\ \A y \in Task : y # t => r.state[y] = q.state[y]
    /\ r.nice = q.nice /\ r.boost = q.boost /\ r.current = q.current

LEMMA StateIs ==
    ASSUME NEW q \in RQState, NEW t \in Task, NEW x \in TState, NEW r, r = InState(q, t, x)
    PROVE  Restated(q, r, t, x)
<1> DEFINE st == [q.state EXCEPT ![t] = x]
<1>1. st \in [Task -> TState]  BY DEF RQState
<1>2. r = [ active |-> q.active, expired |-> q.expired, ready |-> q.ready,
            on_queue |-> q.on_queue, state |-> st, nice |-> q.nice, boost |-> q.boost,
            current |-> q.current ]
    BY Zenon DEF RQState, InState
<1>0. st[t] = x /\ \A y \in Task : y # t => st[y] = q.state[y]  BY DEF RQState
<1> HIDE DEF st
<1>3. /\ r.active = q.active /\ r.expired = q.expired /\ r.ready = q.ready
      /\ r.on_queue = q.on_queue /\ r.nice = q.nice /\ r.state = st
      /\ r.boost = q.boost /\ r.current = q.current
    BY <1>2
<1>4. r \in RQState
    <2>1. /\ q.active \in Array /\ q.expired \in Array /\ q.ready \in Int
          /\ q.on_queue \in [Task -> BOOLEAN] /\ q.nice \in [Task -> Nices] /\ q.current \in Task
          /\ q.boost \in [Task -> 0 .. PRIORITY_YIELD_BOOST_MAX]
        BY Zenon, RQFields
    <2> QED  BY <1>1, <1>2, <2>1 DEF RQState, Array
<1> QED  BY Zenon, <1>0, <1>3, <1>4 DEF SameQueues, Restated

\* process_set_current() of a task that is not queued.
Runs(q, r, n) ==
    /\ Sound(r) /\ SameQueues(q, r) /\ r.current = n /\ ~r.on_queue[n]
    /\ r.state[n] = "RUNNING" /\ \A x \in Task : x # n => r.state[x] = q.state[x]
    /\ r.nice = q.nice /\ r.boost = q.boost

LEMMA CurrentIs ==
    ASSUME NEW q, Sound(q), NEW n \in Task, ~q.on_queue[n]
    PROVE  Runs(q, process_set_current(q, n), n)
<1> DEFINE r  == process_set_current(q, n)
           st == [q.state EXCEPT ![n] = "RUNNING"]
<1>1. q \in RQState  BY Zenon DEF Sound
<1>2. st \in [Task -> TState]  BY <1>1 DEF RQState, TState
<1>3. r = [ active |-> q.active, expired |-> q.expired, ready |-> q.ready,
            on_queue |-> q.on_queue, state |-> st, nice |-> q.nice, boost |-> q.boost,
            current |-> n ]
    <2>1. r = [q EXCEPT !.current = n, !.state = st]  BY <1>1 DEF RQState, process_set_current
    <2> HIDE DEF st, r
    <2> QED  BY Zenon, <1>1, <2>1 DEF RQState
<1>0. st[n] = "RUNNING" /\ \A x \in Task : x # n => st[x] = q.state[x]  BY <1>1 DEF RQState
<1> HIDE DEF st, r
<1>4. /\ r.active = q.active /\ r.expired = q.expired /\ r.ready = q.ready
      /\ r.on_queue = q.on_queue /\ r.nice = q.nice /\ r.state = st
      /\ r.boost = q.boost /\ r.current = n
    BY <1>3
<1>5. r \in RQState  BY Zenon, <1>1, <1>2, <1>3, RQFields, RQRecord
<1>6. SameQueues(q, r)  BY Zenon, <1>4, <1>5 DEF SameQueues
<1>7. \A x \in Task : r.state[x] = "TERMINATED" => q.state[x] = "TERMINATED" /\ r.nice[x] = q.nice[x]
    BY <1>1, <1>4 DEF st, RQState
<1>8. Sound(r)  BY Zenon, <1>6, <1>7, RetaskSound
<1> QED  BY Zenon, <1>0, <1>4, <1>6, <1>8 DEF r, Runs

\* The live entries depend on the states of queued tasks only.
LEMMA SameLive ==
    ASSUME NEW q, Sound(q), NEW r, SameQueues(q, r),
           \A x \in Task : q.on_queue[x] => r.state[x] = q.state[x]
    PROVE  PickedNext(r) = PickedNext(q)
<1>1. r.active = q.active /\ r.expired = q.expired /\ q.active \in Array /\ q.expired \in Array
    BY Zenon DEF Sound, SameQueues, RQState, Array
<1>2. ASSUME NEW rq \in Array, \A x \in Task : On(rq, x) => q.on_queue[x]
      PROVE  Live(r, rq) = Live(q, rq)
    <2>1. ASSUME NEW e \in Places(rq) PROVE Entry(rq, e) \in Task /\ On(rq, Entry(rq, e))
        <3>1. e[1] \in Levels /\ e[2] \in 1 .. Len(rq[e[1]])  BY Zenon, PlacesIs
        <3>2. rq[e[1]] \in Seq(Task)  BY Zenon, <3>1 DEF Array
        <3>3. rq[e[1]][e[2]] \in Task  BY Zenon, <3>1, <3>2, ElementOfSeq
        <3> QED  BY Zenon, <3>1, <3>3 DEF On, Contains, Entry
    <2>2. \A e \in Places(rq) : r.state[Entry(rq, e)] = q.state[Entry(rq, e)]  BY Zenon, <1>2, <2>1
    <2> QED  BY Zenon, <2>2 DEF Live, Drained
<1>3. \A x \in Task : On(q.active, x) \/ On(q.expired, x) => q.on_queue[x]
    BY Zenon DEF Sound, Exact
<1>4. Live(r, r.active) = Live(q, q.active) /\ Live(r, r.expired) = Live(q, q.expired)
    BY Zenon, <1>1, <1>2, <1>3
<1> QED  BY <1>1, <1>4 DEF PickedNext

\* The inductive invariant: the queues are sound, and the running task is neither
\* queued nor dead.
RQInv ==
    /\ Sound(s) /\ ~s.on_queue[s.current]
    /\ s.state[s.current] \in {"RUNNING", "READY"}

\* What a step does to it, and to dead tasks.
RQKept(q, r) ==
    /\ Sound(r) /\ ~r.on_queue[r.current] /\ r.state[r.current] \in {"RUNNING", "READY"}
    /\ \A t \in Task : q.state[t] = "TERMINATED" => r.state[t] # "RUNNING"

\* A task that is picked from sound queues and made current.
LEMMA SwitchKept ==
    ASSUME NEW q, Sound(q), PickedNext(q) # Idle, NEW p \in RQState,
           \A t \in Task : p.state[t] = "TERMINATED" => t # PickedNext(q) /\ q.state[t] # "RUNNING"
    PROVE  RQKept(p, Switch(q))
<1> DEFINE n == PickedNext(q)
           r == scheduler_pick_next(q)
<1>1. /\ Sound(r) /\ SameTasks(q, r) /\ n \in Task /\ ~r.on_queue[n]
    BY Zenon, PickSound
<1> DEFINE w == process_set_current(r, n)
<1> HIDE DEF n, r
<1>2. /\ Sound(w) /\ w.current = n /\ ~w.on_queue[n] /\ w.state[n] = "RUNNING"
      /\ \A t \in Task : t # n => w.state[t] = r.state[t]
    <2>1. Runs(r, w, n)  BY Zenon, <1>1, CurrentIs
    <2> HIDE DEF w
    <2> QED  BY Zenon, <2>1 DEF Runs
<1>3. Switch(q) = w  BY DEF Switch, n, r
<1> HIDE DEF w
<1>5. w.state[n] = "RUNNING" /\ \A t \in Task : t # n => w.state[t] = q.state[t]
    BY Zenon, <1>1, <1>2 DEF SameTasks
<1>6. \A t \in Task : p.state[t] = "TERMINATED" => w.state[t] # "RUNNING"
    BY Zenon, <1>5 DEF n
<1> QED  BY Zenon, <1>2, <1>3, <1>5, <1>6 DEF RQKept

LEMMA YieldKept ==
    ASSUME RQInv, Yield
    PROVE  RQKept(s, s')
<1> DEFINE c == s.current
           q == scheduler_yield_requeue(s, c)
           r == scheduler_pick_next(q)
<1>1. Sound(s) /\ ~s.on_queue[c] /\ s.state[c] \in {"RUNNING", "READY"} /\ s \in RQState
    BY Zenon DEF RQInv, Sound
<1>2. c \in Task /\ s.state[c] # "TERMINATED"
    <2>1. c \in Task  BY Zenon, <1>1, RQFields
    <2> QED  BY <1>1, <2>1
<1>3. s' = IF PickedNext(q) = c THEN r ELSE Switch(q)  BY Zenon DEF Yield
<1> HIDE DEF c
<1>4. /\ Sound(q) /\ q.current = c /\ q.on_queue[c] /\ q.state[c] \in {s.state[c], "READY"}
      /\ \A x \in Task : x # c => q.state[x] = s.state[x]
    <2>1. Joins(s, q, c)  BY Zenon, <1>1, <1>2, RequeueSound
    <2> HIDE DEF q
    <2> QED  BY Zenon, <1>2, <2>1 DEF c, Joins
<1> HIDE DEF q
<1>5. q.state[c] \in {"RUNNING", "READY"}  BY <1>1, <1>4
<1>6. PickedNext(q) # Idle
    <2>1. q.state[c] # "TERMINATED"  BY <1>5
    <2> QED  BY Zenon, <1>2, <1>4, <2>1, NoneLive
<1>7. /\ Sound(r) /\ SameTasks(q, r) /\ PickedNext(q) \in Task
      /\ ~r.on_queue[PickedNext(q)] /\ q.state[PickedNext(q)] # "TERMINATED"
    BY Zenon, <1>4, <1>6, PickSound
<1> HIDE DEF r
<1>8. CASE PickedNext(q) = c
    <2>1. s' = r /\ r.current = c /\ r.state = q.state  BY Zenon, <1>3, <1>4, <1>7, <1>8 DEF SameTasks
    <2>2. \A t \in Task : s.state[t] = "TERMINATED" => r.state[t] # "RUNNING"
        <3>1. \A t \in Task : s.state[t] = "TERMINATED" => t # c  BY Zenon, <1>2
        <3> QED  BY <1>4, <2>1, <3>1
    <2> QED  BY Zenon, <1>5, <1>7, <1>8, <2>1, <2>2 DEF RQKept
<1>9. CASE PickedNext(q) # c
    <2>1. \A t \in Task : s.state[t] = "TERMINATED" => t # PickedNext(q) /\ q.state[t] # "RUNNING"
        <3>1. \A t \in Task : s.state[t] = "TERMINATED" => t # c  BY Zenon, <1>2
        <3>2. \A t \in Task : s.state[t] = "TERMINATED" => q.state[t] = "TERMINATED"
            BY Zenon, <1>4, <3>1
        <3>3. \A t \in Task : s.state[t] = "TERMINATED" => t # PickedNext(q)  BY Zenon, <1>7, <3>2
        <3> QED  BY <3>2, <3>3
    <2>2. s' = Switch(q)  BY Zenon, <1>3, <1>9
    <2> QED  BY Zenon, <1>1, <1>4, <1>6, <2>1, <2>2, SwitchKept
<1> QED  BY Zenon, <1>8, <1>9

LEMMA PreemptKept ==
    ASSUME RQInv, Preempt
    PROVE  RQKept(s, s')
<1> DEFINE c == s.current
           r == scheduler_pick_next(s)
           n == PickedNext(s)
           a == scheduler_add_process(r, c)
<1>1. Sound(s) /\ ~s.on_queue[c] /\ s.state[c] \in {"RUNNING", "READY"} /\ s \in RQState
    BY Zenon DEF RQInv, Sound
<1>2. c \in Task /\ s.state[c] # "TERMINATED"
    <2>1. c \in Task  BY Zenon, <1>1, RQFields
    <2> QED  BY <1>1, <2>1
<1>3. s' = IF n = Idle THEN r ELSE process_set_current(a, n)  BY Zenon DEF Preempt
<1>4. /\ Sound(r) /\ SameTasks(s, r) /\ \A t \in Task : r.on_queue[t] => s.on_queue[t]
      /\ n = Idle \/ (n \in Task /\ s.on_queue[n] /\ ~r.on_queue[n] /\ s.state[n] # "TERMINATED")
    BY Zenon, <1>1, PickSound
<1> HIDE DEF c, r, n
<1>5. r.state = s.state /\ r.current = c  BY Zenon, <1>4 DEF SameTasks, c
<1>6. CASE n = Idle
    <2>1. s' = r  BY Zenon, <1>3, <1>6
    <2>2. \A t \in Task : s.state[t] = "TERMINATED" => r.state[t] # "RUNNING"  BY <1>5
    <2> QED  BY Zenon, <1>1, <1>2, <1>4, <1>5, <2>1, <2>2 DEF RQKept
<1>7. CASE n # Idle
    <2>1. n \in Task /\ n # c /\ ~r.on_queue[n] /\ s.state[n] # "TERMINATED"
        BY Zenon, <1>1, <1>4, <1>7
    <2>2. /\ Sound(a) /\ r.state[c] # "TERMINATED" /\ a.state[c] \in {r.state[c], "READY"}
          /\ \A x \in Task : x # c => a.on_queue[x] = r.on_queue[x] /\ a.state[x] = r.state[x]
        <3>1. Joins(r, a, c)  BY Zenon, <1>2, <1>4, AddSound
        <3> HIDE DEF a
        <3> QED  BY Zenon, <1>2, <1>5, <3>1 DEF Joins
    <2> DEFINE w == process_set_current(a, n)
    <2> HIDE DEF a
    <2>3. ~a.on_queue[n]  BY Zenon, <2>1, <2>2
    <2>4. Runs(a, w, n)  BY Zenon, <2>1, <2>2, <2>3, CurrentIs
    <2>5. s' = w  BY Zenon, <1>3, <1>7 DEF a
    <2> HIDE DEF w
    <2>6. \A t \in Task : s.state[t] = "TERMINATED" => w.state[t] # "RUNNING"
        <3> TAKE t \in Task
        <3> HAVE s.state[t] = "TERMINATED"
        <3>1. t # n /\ t # c  BY Zenon, <1>2, <2>1
        <3>2. w.state[t] = "TERMINATED"  BY Zenon, <1>5, <2>2, <2>4, <3>1 DEF Runs
        <3> QED  BY <3>2
    <2>7. w.state[w.current] \in {"RUNNING", "READY"}  BY Zenon, <2>4 DEF Runs
    <2> QED  BY Zenon, <2>4, <2>5, <2>6, <2>7 DEF RQKept, Runs
<1> QED  BY Zenon, <1>6, <1>7

\* Block and Exit: the current task gives the CPU to its successor.
LEMMA LeaveKept ==
    ASSUME RQInv, PickedNext(s) # Idle, NEW x \in {"BLOCKED", "TERMINATED"},
           s' = Switch(InState(s, s.current, x))
    PROVE  RQKept(s, s')
<1> DEFINE c == s.current
           q == InState(s, c, x)
<1>1. Sound(s) /\ ~s.on_queue[c] /\ s.state[c] \in {"RUNNING", "READY"} /\ s \in RQState
    BY Zenon DEF RQInv, Sound
<1>2. c \in Task /\ s.state[c] # "TERMINATED" /\ x \in TState /\ x # "RUNNING"
    <2>1. c \in Task  BY Zenon, <1>1, RQFields
    <2> QED  BY <1>1, <2>1 DEF TState
<1> HIDE DEF c
<1>3. /\ SameQueues(s, q) /\ q.state[c] = x /\ q.nice = s.nice
      /\ \A t \in Task : t # c => q.state[t] = s.state[t]
    <2>1. Restated(s, q, c, x)  BY Zenon, <1>1, <1>2, StateIs
    <2> HIDE DEF q
    <2> QED  BY Zenon, <2>1 DEF Restated
<1> HIDE DEF q
<1>4. Sound(q)  BY Zenon, <1>1, <1>3, RetaskSound
<1>5. PickedNext(q) = PickedNext(s)  BY Zenon, <1>1, <1>3, SameLive
<1>6. PickedNext(s) \in Task /\ s.state[PickedNext(s)] # "TERMINATED"
    BY Zenon, <1>1, PickSound
<1>7. \A t \in Task : s.state[t] = "TERMINATED" => t # PickedNext(q) /\ q.state[t] # "RUNNING"
    <2>1. \A t \in Task : s.state[t] = "TERMINATED" => t # c /\ t # PickedNext(q)
        BY Zenon, <1>2, <1>5, <1>6
    <2> QED  BY <1>3, <2>1
<1> QED  BY Zenon, <1>1, <1>4, <1>5, <1>7, SwitchKept DEF q, c

\* Create and Wake: a task that is not running joins the queues.
LEMMA JoinKept ==
    ASSUME RQInv, NEW t \in Task, t # s.current, NEW q, Sound(q), SameQueues(s, q),
           q.current = s.current, q.state[t] = "READY",
           \A x \in Task : x # t => q.state[x] = s.state[x]
    PROVE  RQKept(s, scheduler_add_process(q, t))
<1> DEFINE r == scheduler_add_process(q, t)
           c == s.current
<1>1. c \in Task /\ ~s.on_queue[c] /\ s.state[c] \in {"RUNNING", "READY"}
    BY Zenon, RQFields DEF RQInv, Sound
<1>2. Joins(q, r, t)  BY Zenon, AddSound
<1> HIDE DEF r
<1>3. r.current = c /\ r.state[c] = s.state[c] /\ ~r.on_queue[c] /\ Sound(r)
    BY Zenon, <1>1, <1>2 DEF Joins, SameQueues
<1>4. r.state[t] = "READY" /\ \A x \in Task : x # t => r.state[x] = s.state[x]
    BY Zenon, <1>2 DEF Joins
<1>5. \A x \in Task : s.state[x] = "TERMINATED" => r.state[x] # "RUNNING"  BY <1>4
<1> QED  BY Zenon, <1>1, <1>3, <1>5 DEF RQKept, r

\* Kill and Stop: a task that is not running is taken off the queues, if it is found.
LEMMA WithdrawKept ==
    ASSUME RQInv, NEW t \in Task, t # s.current, s.state[t] # "TERMINATED",
           NEW x \in {"BLOCKED", "TERMINATED"},
           s' = scheduler_remove_process(InState(s, t, x), t)
    PROVE  RQKept(s, s')
<1> DEFINE q == InState(s, t, x)
           r == scheduler_remove_process(q, t)
           c == s.current
<1>1. c \in Task /\ ~s.on_queue[c] /\ s.state[c] \in {"RUNNING", "READY"} /\ s \in RQState
    BY Zenon, RQFields DEF RQInv, Sound
<1>2. Restated(s, q, t, x)
    <2>1. x \in TState  BY DEF TState
    <2> QED  BY Zenon, <1>1, <2>1, StateIs
<1> HIDE DEF q
<1>3. /\ q \in RQState /\ q.active = s.active /\ q.expired = s.expired /\ q.nice = s.nice
      /\ q.ready = s.ready /\ q.on_queue = s.on_queue /\ q.current = c /\ q.state[t] = x
      /\ \A y \in Task : y # t => q.state[y] = s.state[y]
    BY Zenon, <1>2 DEF Restated, SameQueues
<1>4. Exact(q)  BY Zenon, <1>3 DEF RQInv, Sound, Exact
<1>5. \A y \in Task \ {t} : q.state[y] = "TERMINATED" =>
          /\ ~Contains(q.active[process_get_priority(q.nice[y])], y)
          /\ ~Contains(q.expired[process_get_priority(q.nice[y])], y)
    <2>1. Misfiled(s)  BY Zenon DEF RQInv, Sound
    <2> QED  BY Zenon, <1>3, <2>1 DEF Misfiled
<1>6. Sound(r) /\ SameTasks(q, r) /\ \A y \in Task : r.on_queue[y] => q.on_queue[y]
    BY Zenon, <1>3, <1>4, <1>5, RemoveSound
<1>7. s' = r  BY Zenon DEF q
<1> HIDE DEF r
<1>8. r.current = c /\ r.state = q.state  BY Zenon, <1>3, <1>6 DEF SameTasks
<1>9. ~r.on_queue[c] /\ r.state[c] = s.state[c]  BY Zenon, <1>1, <1>3, <1>6, <1>8
<1>10. \A y \in Task : s.state[y] = "TERMINATED" => r.state[y] # "RUNNING"
    <2>1. x # "RUNNING"  OBVIOUS
    <2> QED  BY <1>3, <1>8, <2>1
<1> QED  BY Zenon, <1>1, <1>6, <1>7, <1>8, <1>9, <1>10 DEF RQKept

\* process_create() in a free slot.
Reborn(q, t) == [q EXCEPT !.state[t] = "READY", !.nice[t] = 0, !.boost[t] = 0]

Born(q, r, t) ==
    /\ Sound(r) /\ SameQueues(q, r) /\ r.current = q.current
    /\ r.state[t] = "READY" /\ r.nice[t] = 0 /\ r.boost[t] = 0
    /\ \A x \in Task : x # t => /\ r.state[x] = q.state[x] /\ r.nice[x] = q.nice[x]
                                /\ r.boost[x] = q.boost[x]

LEMMA RebornIs ==
    ASSUME RQInv, NEW t \in Task
    PROVE  Born(s, Reborn(s, t), t)
<1> DEFINE q  == Reborn(s, t)
           st == [s.state EXCEPT ![t] = "READY"]
           ni == [s.nice EXCEPT ![t] = 0]
           bo == [s.boost EXCEPT ![t] = 0]
<1>1. Sound(s) /\ s \in RQState  BY Zenon DEF RQInv, Sound
<1>3. /\ s.active \in Array /\ s.expired \in Array /\ s.ready \in Int
      /\ s.on_queue \in [Task -> BOOLEAN] /\ s.state \in [Task -> TState]
      /\ s.nice \in [Task -> Nices] /\ s.current \in Task
      /\ s.boost \in [Task -> 0 .. PRIORITY_YIELD_BOOST_MAX]
    BY Zenon, <1>1, RQFields
<1>4. st \in [Task -> TState]  BY <1>3 DEF TState
<1>5. ni \in [Task -> Nices]  BY <1>3, TaskAssumption
<1>6. bo \in [Task -> 0 .. PRIORITY_YIELD_BOOST_MAX]
    <2>1. 0 \in 0 .. PRIORITY_YIELD_BOOST_MAX  BY DEF PRIORITY_YIELD_BOOST_MAX
    <2> QED  BY <1>3, <2>1
<1>7. q = [s EXCEPT !.state = st, !.nice = ni, !.boost = bo]  BY <1>1 DEF RQState, Reborn
<1>8. /\ st[t] = "READY" /\ ni[t] = 0 /\ bo[t] = 0
      /\ \A x \in Task : x # t => st[x] = s.state[x] /\ ni[x] = s.nice[x] /\ bo[x] = s.boost[x]
    BY <1>3
<1> HIDE DEF st, ni, bo, q
<1>9. q = [ active |-> s.active, expired |-> s.expired, ready |-> s.ready,
            on_queue |-> s.on_queue, state |-> st, nice |-> ni, boost |-> bo,
            current |-> s.current ]
    BY Zenon, <1>1, <1>7 DEF RQState
<1>10. /\ q.active = s.active /\ q.expired = s.expired /\ q.ready = s.ready
       /\ q.on_queue = s.on_queue /\ q.state = st /\ q.nice = ni /\ q.boost = bo
       /\ q.current = s.current
    BY <1>9
<1>11. q \in RQState  BY <1>3, <1>4, <1>5, <1>6, <1>9, RQRecord
<1>12. SameQueues(s, q)  BY Zenon, <1>10, <1>11 DEF SameQueues
<1>13. Sound(q)
    <2>1. \A x \in Task : q.state[x] = "TERMINATED" =>
              s.state[x] = "TERMINATED" /\ q.nice[x] = s.nice[x]
        BY <1>8, <1>10
    <2> QED  BY Zenon, <1>1, <1>12, <2>1, RetaskSound
<1> QED  BY Zenon, <1>8, <1>10, <1>12, <1>13 DEF Born, q

LEMMA CreateKept ==
    ASSUME RQInv, NEW t \in Task, Create(t)
    PROVE  RQKept(s, s')
<1> DEFINE q == Reborn(s, t)
<1>1. t # s.current /\ s' = scheduler_add_process(q, t)  BY Zenon DEF Create, Reborn
<1>2. Born(s, q, t)  BY Zenon, RebornIs
<1> HIDE DEF q
<1> QED  BY Zenon, <1>1, <1>2, JoinKept DEF Born

LEMMA WakeKept ==
    ASSUME RQInv, NEW t \in Task, Wake(t)
    PROVE  RQKept(s, s')
<1> DEFINE q == InState(s, t, "READY")
<1>1. Sound(s) /\ s \in RQState /\ "READY" \in TState  BY Zenon DEF RQInv, Sound, TState
<1>2. t # s.current /\ s' = scheduler_add_process(q, t)  BY Zenon DEF Wake, InState
<1>3. Restated(s, q, t, "READY")  BY Zenon, <1>1, StateIs
<1> HIDE DEF q
<1>4. Sound(q)
    <2>1. \A x \in Task : q.state[x] = "TERMINATED" =>
              s.state[x] = "TERMINATED" /\ q.nice[x] = s.nice[x]
        BY <1>3 DEF Restated
    <2>2. SameQueues(s, q)  BY Zenon, <1>3 DEF Restated
    <2> QED  BY Zenon, <1>1, <2>1, <2>2, RetaskSound
<1> QED  BY Zenon, <1>2, <1>3, <1>4, JoinKept DEF Restated

LEMMA SetNiceKept ==
    ASSUME RQInv, NEW t \in Task, SetNice(t)
    PROVE  RQKept(s, s')
<1>1. Sound(s) /\ s \in RQState  BY Zenon DEF RQInv, Sound
<1>2. PICK n \in Nices : s' = [s EXCEPT !.nice[t] = n]  BY Zenon DEF SetNice
<1> DEFINE ni == [s.nice EXCEPT ![t] = n]
<1>3. /\ s.active \in Array /\ s.expired \in Array /\ s.ready \in Int
      /\ s.on_queue \in [Task -> BOOLEAN] /\ s.state \in [Task -> TState]
      /\ s.nice \in [Task -> Nices] /\ s.current \in Task
      /\ s.boost \in [Task -> 0 .. PRIORITY_YIELD_BOOST_MAX]
    BY Zenon, <1>1, RQFields
<1>4. ni \in [Task -> Nices] /\ \A x \in Task : x # t => ni[x] = s.nice[x]  BY <1>3
<1>5. s' = [s EXCEPT !.nice = ni]  BY <1>1, <1>2 DEF RQState
<1> HIDE DEF ni
<1>6. s' = [ active |-> s.active, expired |-> s.expired, ready |-> s.ready,
             on_queue |-> s.on_queue, state |-> s.state, nice |-> ni, boost |-> s.boost,
             current |-> s.current ]
    BY Zenon, <1>1, <1>5 DEF RQState
<1>7. /\ s'.active = s.active /\ s'.expired = s.expired /\ s'.ready = s.ready
      /\ s'.on_queue = s.on_queue /\ s'.state = s.state /\ s'.nice = ni /\ s'.current = s.current
    BY <1>6
<1>8. s' \in RQState  BY <1>3, <1>4, <1>6, RQRecord
<1>9. SameQueues(s, s')  BY Zenon, <1>7, <1>8 DEF SameQueues
<1>10. Sound(s')
    <2>1. s.state[t] # "TERMINATED"  BY Zenon DEF SetNice
    <2>2. \A x \in Task : s'.state[x] = "TERMINATED" =>
              s.state[x] = "TERMINATED" /\ s'.nice[x] = s.nice[x]
        BY Zenon, <1>4, <1>7, <2>1
    <2> QED  BY Zenon, <1>1, <1>9, <2>2, RetaskSound
<1>11. \A x \in Task : s.state[x] = "TERMINATED" => s'.state[x] # "RUNNING"  BY <1>7
<1>12. ~s'.on_queue[s'.current] /\ s'.state[s'.current] \in {"RUNNING", "READY"}
    BY Zenon, <1>7 DEF RQInv
<1> QED  BY Zenon, <1>10, <1>11, <1>12 DEF RQKept

LEMMA RQInitInv == RQInit => RQInv
<1> SUFFICES ASSUME RQInit PROVE RQInv
    OBVIOUS
<1> DEFINE em == [l \in Levels |-> << >>]
           oq == [t \in Task |-> FALSE]
           st == [t \in Task |-> IF t = First THEN "RUNNING" ELSE "TERMINATED"]
           ze == [t \in Task |-> 0]
<1>1. s = [ active |-> em, expired |-> em, ready |-> 0, on_queue |-> oq, state |-> st,
            nice |-> ze, boost |-> ze, current |-> First ]
    BY DEF RQInit
<1>2. em \in Array /\ \A l \in Levels : em[l] = << >>
    <2>1. << >> \in Seq(Task)  BY EmptySeq
    <2> QED  BY <2>1 DEF Array
<1>3. oq \in [Task -> BOOLEAN] /\ \A t \in Task : ~oq[t]  BY Zenon
<1>4. st \in [Task -> TState] /\ st[First] = "RUNNING" /\ First \in Task  BY TaskAssumption DEF TState
<1>5. ze \in [Task -> Nices] /\ ze \in [Task -> 0 .. PRIORITY_YIELD_BOOST_MAX] /\ 0 \in Int
    BY TaskAssumption DEF PRIORITY_YIELD_BOOST_MAX
<1> HIDE DEF em, oq, st, ze
<1>6. /\ s.active = em /\ s.expired = em /\ s.ready = 0 /\ s.on_queue = oq
      /\ s.state = st /\ s.current = First
    BY <1>1
<1>7. s \in RQState  BY Zenon, <1>1, <1>2, <1>3, <1>4, <1>5, RQRecord
<1>8. \A l \in Levels : DOMAIN em[l] = {} /\ \A t : ~Contains(em[l], t)
    <2> TAKE l \in Levels
    <2>1. em[l] = << >> /\ DOMAIN << >> = {} /\ Len(<< >>) = 0  BY <1>2, EmptySeq, LenProperties
    <2>2. 1 .. 0 = {}  OBVIOUS
    <2> QED  BY Zenon, <2>1, <2>2 DEF Contains
<1>9. OnceOn(em) /\ \A t : ~On(em, t)  BY Zenon, <1>8 DEF OnceOn, On
<1>10. 0 = Cardinality({t \in Task : oq[t]})
    <2>1. {t \in Task : oq[t]} = {}  BY Zenon, <1>3
    <2> QED  BY <2>1, FS_EmptySet
<1>11. Exact(s)  BY Zenon, <1>3, <1>6, <1>9, <1>10 DEF Exact
<1>12. Misfiled(s)
    <2>1. \A t \in Task : process_get_priority(s.nice[t]) \in Levels
        BY Zenon, <1>7, RQFields, LevelsNat
    <2> QED  BY Zenon, <1>6, <1>8, <2>1 DEF Misfiled
<1>13. ~s.on_queue[s.current] /\ s.state[s.current] \in {"RUNNING", "READY"}
    BY Zenon, <1>3, <1>4, <1>6
<1> QED  BY Zenon, <1>7, <1>11, <1>12, <1>13 DEF RQInv, Sound

LEMMA RQStepKept == RQInv /\ RQNext => RQKept(s, s')
<1> SUFFICES ASSUME RQInv, RQNext PROVE RQKept(s, s')
    OBVIOUS
<1>1. CASE Yield  BY Zenon, <1>1, YieldKept
<1>2. CASE Preempt  BY Zenon, <1>2, PreemptKept
<1>3. CASE Block
    <2>1. PickedNext(s) # Idle /\ s' = Switch(InState(s, s.current, "BLOCKED"))
        BY Zenon, <1>3 DEF Block, InState
    <2> QED  BY Zenon, <2>1, LeaveKept
<1>4. CASE Exit
    <2>1. PickedNext(s) # Idle /\ s' = Switch(InState(s, s.current, "TERMINATED"))
        BY Zenon, <1>4 DEF Exit, InState
    <2> QED  BY Zenon, <2>1, LeaveKept
<1>5. ASSUME NEW t \in Task, Create(t) PROVE RQKept(s, s')  BY Zenon, <1>5, CreateKept
<1>6. ASSUME NEW t \in Task, Wake(t) PROVE RQKept(s, s')  BY Zenon, <1>6, WakeKept
<1>7. ASSUME NEW t \in Task, Kill(t) PROVE RQKept(s, s')
    <2>1. /\ t # s.current /\ s.state[t] # "TERMINATED"
          /\ s' = scheduler_remove_process(InState(s, t, "TERMINATED"), t)
        BY Zenon, <1>7 DEF Kill, InState
    <2> QED  BY Zenon, <2>1, WithdrawKept
<1>8. ASSUME NEW t \in Task, Stop(t) PROVE RQKept(s, s')
    <2>1. /\ t # s.current /\ s.state[t] = "READY"
          /\ s' = scheduler_remove_process(InState(s, t, "BLOCKED"), t)
        BY Zenon, <1>8 DEF Stop, InState
    <2>2. s.state[t] # "TERMINATED"  BY <2>1
    <2> QED  BY Zenon, <2>1, <2>2, WithdrawKept
<1>9. ASSUME NEW t \in Task, SetNice(t) PROVE RQKept(s, s')  BY Zenon, <1>9, SetNiceKept
<1> QED  BY Zenon, <1>1, <1>2, <1>3, <1>4, <1>5, <1>6, <1>7, <1>8, <1>9 DEF RQNext

\* The run queues stay sound whatever the order of yields, preemptions, blocking,
\* kills, stops and renices: the inductive invariant behind the results below.
THEOREM RQInductive == RQSpec => []RQInv
<1>1. RQInv /\ [RQNext]_s => RQInv'
    <2>1. RQInv /\ RQNext => RQInv'  BY Zenon, RQStepKept DEF RQKept, RQInv
    <2>2. RQInv /\ UNCHANGED s => RQInv'
        BY Zenon DEF RQInv
    <2> QED  BY Zenon, <2>1, <2>2
<1> QED  BY <1>1, RQInitInv, PTL DEF RQSpec

\* Every field of the run queues keeps its type (struct runqueue, scheduler.c).
THEOREM RQTypeCorrect == RQSpec => []RQTypeOK
<1>1. RQInv => RQTypeOK  BY Zenon DEF RQInv, Sound, RQTypeOK
<1> QED  BY <1>1, RQInductive, PTL

\* What sched_validate_runqueues() looks for holds for any number of tasks and any
\* nice values: linked once, on one array, on_queue and ready_count exact.
THEOREM QueuesExactHolds == RQSpec => []QueuesExact
<1>1. RQInv => QueuesExact  BY Zenon DEF RQInv, Sound, QueuesExact
<1> QED  BY <1>1, RQInductive, PTL

\* scheduler_pick_next() never dispatches a task that was killed, found on its
\* queue by the kill or not (KILL-FIX-001).
THEOREM DeadNotDispatchedHolds == RQSpec => DeadNotDispatched
<1>1. RQInv /\ [RQNext]_s =>
        [\A t \in Task : s.state[t] = "TERMINATED" => s'.state[t] # "RUNNING"]_s
    BY Zenon, RQStepKept DEF RQKept
<1> QED  BY <1>1, RQInductive, PTL DEF RQSpec, DeadNotDispatched

-----------------------------------------------------------------------------
(***************************************************************************)
(* Tasks of equal priority: the two arrays are one queue.                  *)
(***************************************************************************)
\* Two lists end to end: taking from the front; adding at the back.
LEMMA ConcatEnds ==
    ASSUME NEW S, NEW a \in Seq(S), NEW x \in Seq(S)
    PROVE  a # << >> => /\ a \o x # << >> /\ Head(a \o x) = Head(a)
                        /\ Tail(a \o x) = Tail(a) \o x
<1>1. ASSUME a # << >>
      PROVE  a \o x # << >> /\ Head(a \o x) = Head(a) /\ Tail(a \o x) = Tail(a) \o x
    <2>1. /\ Len(a) \in Nat \ {0} /\ Len(x) \in Nat /\ a \o x \in Seq(S)
          /\ Len(a \o x) = Len(a) + Len(x)
          /\ \A i \in 1 .. Len(a) + Len(x) :
                (a \o x)[i] = IF i <= Len(a) THEN a[i] ELSE x[i - Len(a)]
        BY <1>1, ConcatProperties, LenProperties, EmptySeq
    <2>2. a \o x # << >>  BY <1>1, ConcatEqualIffEmpty
    <2> DEFINE u == a \o x
    <2>3. u[1] = a[1]  BY <2>1
    <2>4. /\ Tail(a) \in Seq(S) /\ Len(Tail(a)) = Len(a) - 1
          /\ \A i \in 1 .. (Len(a) - 1) : Tail(a)[i] = a[i + 1]
        BY <1>1, HeadTailProperties
    <2> HIDE DEF u
    <2>5. /\ Tail(u) \in Seq(S) /\ Len(Tail(u)) = Len(u) - 1
          /\ \A i \in 1 .. (Len(u) - 1) : Tail(u)[i] = u[i + 1]
        BY <2>1, <2>2, HeadTailProperties DEF u
    <2>6. /\ Tail(a) \o x \in Seq(S) /\ Len(Tail(a) \o x) = Len(a) - 1 + Len(x)
          /\ \A i \in 1 .. Len(a) - 1 + Len(x) :
                (Tail(a) \o x)[i] = IF i <= Len(a) - 1 THEN Tail(a)[i] ELSE x[i - (Len(a) - 1)]
        BY <2>4, ConcatProperties
    <2> DEFINE v == Tail(a) \o x
    <2> HIDE DEF v
    <2>7. ASSUME NEW i \in 1 .. Len(Tail(u)) PROVE Tail(u)[i] = v[i]
        <3>1. i \in 1 .. (Len(u) - 1) /\ i \in 1 .. Len(a) - 1 + Len(x) /\ i \in Nat
              /\ i + 1 \in 1 .. Len(a) + Len(x)
            BY <2>1, <2>5, <2>7 DEF u
        <3>2. Tail(u)[i] = IF i + 1 <= Len(a) THEN a[i + 1] ELSE x[i + 1 - Len(a)]
            BY <2>1, <2>5, <3>1 DEF u
        <3>3. v[i] = IF i <= Len(a) - 1 THEN Tail(a)[i] ELSE x[i - (Len(a) - 1)]
            BY <2>6, <3>1 DEF v
        <3>4. i + 1 - Len(a) = i - (Len(a) - 1) /\ (i + 1 <= Len(a) <=> i <= Len(a) - 1)
              /\ (i <= Len(a) - 1 => i \in 1 .. (Len(a) - 1))
            BY <2>1, <3>1
        <3> QED  BY <2>4, <3>2, <3>3, <3>4
    <2>8. Len(Tail(u)) = Len(v)  BY <2>1, <2>5, <2>6 DEF u, v
    <2>9. Tail(u) = v
        <3>1. v \in Seq(S)  BY <2>6 DEF v
        <3> QED  BY <2>5, <2>7, <2>8, <3>1, SeqEqual
    <2> QED  BY <2>2, <2>3, <2>9 DEF u, v
<1> QED  BY <1>1

Behind(a, x, e) == a \o Append(x, e) = Append(a \o x, e)

LEMMA ConcatAppend ==
    ASSUME NEW S, NEW a \in Seq(S), NEW x \in Seq(S), NEW e \in S
    PROVE  Behind(a, x, e)
<1>1. Append(x, e) = x \o << e >> /\ Append(a \o x, e) = (a \o x) \o << e >>
    BY ConcatProperties, AppendIsConcat
<1>2. << e >> \in Seq(S)  OBVIOUS
<1> QED  BY <1>1, <1>2, ConcatAssociative DEF Behind

\* RemoveFirst of two lists end to end.
RemovedOf(a, x, e) ==
    /\ Contains(a \o x, e) <=> Contains(a, e) \/ Contains(x, e)
    /\ Contains(a, e) => RemoveFirst(a \o x, e) = RemoveFirst(a, e) \o x
    /\ ~Contains(a, e) /\ Contains(x, e) => RemoveFirst(a \o x, e) = a \o RemoveFirst(x, e)

LEMMA ConcatRemove ==
    ASSUME NEW S, NEW a \in Seq(S), NEW x \in Seq(S), NEW e
    PROVE  RemovedOf(a, x, e)
<1> DEFINE u == a \o x
<1>1. /\ Len(a) \in Nat /\ Len(x) \in Nat /\ u \in Seq(S) /\ Len(u) = Len(a) + Len(x)
      /\ \A i \in 1 .. Len(a) + Len(x) : u[i] = IF i <= Len(a) THEN a[i] ELSE x[i - Len(a)]
    BY ConcatProperties, LenProperties
<1> HIDE DEF u
<1>2. ASSUME NEW i \in 1 .. Len(a) PROVE i \in 1 .. Len(u) /\ u[i] = a[i]  BY <1>1
<1>3. ASSUME NEW i \in 1 .. Len(x) PROVE Len(a) + i \in 1 .. Len(u) /\ u[Len(a) + i] = x[i]
    <2>1. Len(a) + i \in 1 .. Len(a) + Len(x) /\ ~(Len(a) + i <= Len(a)) /\ Len(a) + i - Len(a) = i
        BY <1>1
    <2> QED  BY <1>1, <2>1
<1>4. ASSUME NEW i \in 1 .. Len(u)
      PROVE  (i \in 1 .. Len(a) /\ u[i] = a[i])
             \/ (i - Len(a) \in 1 .. Len(x) /\ u[i] = x[i - Len(a)])
    BY <1>1
<1>5. Contains(u, e) <=> Contains(a, e) \/ Contains(x, e)
    BY Zenon, <1>2, <1>3, <1>4 DEF Contains
<1>6. ASSUME Contains(u, e), NEW v \in Seq(S), Len(v) = Len(u) - 1,
             NEW n \in 1 .. Len(u), u[n] = e, \A i \in 1 .. (n - 1) : u[i] # e,
             \A i \in 1 .. (Len(u) - 1) : v[i] = IF i < n THEN u[i] ELSE u[i + 1]
      PROVE  RemoveFirst(u, e) = v
    <2> DEFINE w == RemoveFirst(u, e)
    <2>1. PICK m \in 1 .. Len(u) : WithoutAt(S, u, e, w, m)  BY Zenon, <1>1, <1>6, RemoveFirstIs
    <2> HIDE DEF w
    <2>2. /\ u[m] = e /\ \A i \in 1 .. (m - 1) : u[i] # e
          /\ w \in Seq(S) /\ Len(w) = Len(u) - 1
          /\ \A i \in 1 .. (Len(u) - 1) : w[i] = IF i < m THEN u[i] ELSE u[i + 1]
        BY <2>1 DEF WithoutAt
    <2>3. m = n
        <3>1. m \in Int /\ n \in Int /\ ~(n \in 1 .. (m - 1)) /\ ~(m \in 1 .. (n - 1))
            BY <1>1, <1>6, <2>2
        <3> QED  BY <3>1
    <2>4. \A i \in 1 .. Len(w) : w[i] = v[i]  BY <1>6, <2>2, <2>3
    <2>5. w = v  BY Zenon, <1>6, <2>2, <2>4, SeqEqual
    <2> QED  BY <2>5 DEF w
<1>7. ASSUME Contains(a, e) PROVE RemoveFirst(u, e) = RemoveFirst(a, e) \o x
    <2> DEFINE b == RemoveFirst(a, e)
               v == b \o x
    <2>1. PICK n \in 1 .. Len(a) : WithoutAt(S, a, e, b, n)  BY Zenon, <1>7, RemoveFirstIs
    <2> HIDE DEF b
    <2>2. /\ a[n] = e /\ \A i \in 1 .. (n - 1) : a[i] # e
          /\ b \in Seq(S) /\ Len(b) = Len(a) - 1
          /\ \A i \in 1 .. (Len(a) - 1) : b[i] = IF i < n THEN a[i] ELSE a[i + 1]
        BY <2>1 DEF WithoutAt
    <2>3. /\ v \in Seq(S) /\ Len(v) = Len(b) + Len(x)
          /\ \A i \in 1 .. Len(b) + Len(x) : v[i] = IF i <= Len(b) THEN b[i] ELSE x[i - Len(b)]
        BY Zenon, <2>2, ConcatProperties
    <2> HIDE DEF v
    <2>4. n \in 1 .. Len(u) /\ u[n] = e  BY <1>2, <2>2
    <2>5. \A i \in 1 .. (n - 1) : u[i] # e
        <3>1. \A i \in 1 .. (n - 1) : i \in 1 .. Len(a)  BY <1>1
        <3> QED  BY <1>2, <2>2, <3>1
    <2>6. ASSUME NEW i \in 1 .. (Len(u) - 1) PROVE v[i] = IF i < n THEN u[i] ELSE u[i + 1]
        <3>0. i \in Nat /\ n \in Nat /\ n <= Len(a) /\ i + 1 \in 1 .. Len(a) + Len(x)
              /\ i \in 1 .. Len(a) + Len(x) /\ i \in 1 .. Len(b) + Len(x)
            BY <1>1, <2>2, <2>6
        <3>1. CASE i <= Len(a) - 1
            <4>1. i \in 1 .. (Len(a) - 1) /\ i <= Len(a) /\ i + 1 <= Len(a) /\ i <= Len(b)
                BY <1>1, <2>2, <3>0, <3>1
            <4>2. v[i] = b[i] /\ u[i] = a[i] /\ u[i + 1] = a[i + 1]
                BY <1>1, <2>3, <3>0, <4>1
            <4>3. b[i] = IF i < n THEN a[i] ELSE a[i + 1]  BY <2>2, <4>1
            <4> QED  BY Zenon, <4>2, <4>3
        <3>2. CASE ~(i <= Len(a) - 1)
            <4>1. ~(i < n) /\ ~(i + 1 <= Len(a)) /\ ~(i <= Len(b)) /\ i + 1 - Len(a) = i - Len(b)
                BY <1>1, <2>2, <3>0, <3>2
            <4>2. v[i] = x[i - Len(b)]  BY <2>3, <3>0, <4>1
            <4>3. u[i + 1] = x[i + 1 - Len(a)]  BY <1>1, <3>0, <4>1
            <4> QED  BY Zenon, <4>1, <4>2, <4>3
        <3> QED  BY <3>1, <3>2
    <2>7. Len(v) = Len(u) - 1 /\ Contains(u, e)  BY <1>1, <1>5, <1>7, <2>2, <2>3
    <2> QED  BY Zenon, <1>6, <2>3, <2>4, <2>5, <2>6, <2>7 DEF b, v
<1>8. ASSUME ~Contains(a, e), Contains(x, e) PROVE RemoveFirst(u, e) = a \o RemoveFirst(x, e)
    <2> DEFINE b == RemoveFirst(x, e)
               v == a \o b
    <2>1. PICK k \in 1 .. Len(x) : WithoutAt(S, x, e, b, k)  BY Zenon, <1>8, RemoveFirstIs
    <2> HIDE DEF b
    <2>2. /\ x[k] = e /\ \A i \in 1 .. (k - 1) : x[i] # e
          /\ b \in Seq(S) /\ Len(b) = Len(x) - 1
          /\ \A i \in 1 .. (Len(x) - 1) : b[i] = IF i < k THEN x[i] ELSE x[i + 1]
        BY <2>1 DEF WithoutAt
    <2>3. /\ v \in Seq(S) /\ Len(v) = Len(a) + Len(b)
          /\ \A i \in 1 .. Len(a) + Len(b) : v[i] = IF i <= Len(a) THEN a[i] ELSE b[i - Len(a)]
        BY Zenon, <2>2, ConcatProperties
    <2> HIDE DEF v
    <2> DEFINE n == Len(a) + k
    <2>4. n \in 1 .. Len(u) /\ u[n] = e  BY <1>3, <2>2
    <2>5. ASSUME NEW i \in 1 .. (n - 1) PROVE u[i] # e
        <3>1. i \in 1 .. Len(a) \/ i - Len(a) \in 1 .. (k - 1)  BY <1>1
        <3>2. i \in 1 .. Len(u) /\ (i \in 1 .. Len(a) => ~(i - Len(a) \in 1 .. Len(x)))  BY <1>1
        <3>3. \A j \in 1 .. Len(a) : a[j] # e  BY Zenon, <1>8 DEF Contains
        <3>4. CASE i \in 1 .. Len(a)  BY <1>2, <3>3, <3>4
        <3>5. CASE i - Len(a) \in 1 .. (k - 1)
            <4>1. ~(i \in 1 .. Len(a))  BY <1>1, <3>5
            <4> QED  BY <1>4, <2>2, <3>2, <3>5, <4>1
        <3> QED  BY <3>1, <3>4, <3>5
    <2>6. ASSUME NEW i \in 1 .. (Len(u) - 1) PROVE v[i] = IF i < n THEN u[i] ELSE u[i + 1]
        <3>0. i \in Nat /\ k \in Nat /\ k <= Len(x) /\ 1 <= k /\ i + 1 \in 1 .. Len(a) + Len(x)
              /\ i \in 1 .. Len(a) + Len(x) /\ i \in 1 .. Len(a) + Len(b)
            BY <1>1, <2>2, <2>6
        <3>1. CASE i <= Len(a)
            <4>1. i < n  BY <1>1, <3>0, <3>1
            <4> QED  BY <1>1, <2>3, <3>0, <3>1, <4>1
        <3>2. CASE ~(i <= Len(a))
            <4>1. /\ ~(i + 1 <= Len(a)) /\ i - Len(a) \in 1 .. (Len(x) - 1)
                  /\ i - Len(a) + 1 = i + 1 - Len(a) /\ (i < n <=> i - Len(a) < k)
                BY <1>1, <2>2, <3>0, <3>2
            <4>2. v[i] = b[i - Len(a)] /\ u[i] = x[i - Len(a)] /\ u[i + 1] = x[i + 1 - Len(a)]
                <5>1. v[i] = b[i - Len(a)]  BY Zenon, <2>3, <3>0, <3>2
                <5>2. u[i] = x[i - Len(a)]  BY Zenon, <1>1, <3>0, <3>2
                <5>3. u[i + 1] = x[i + 1 - Len(a)]
                    <6>1. ~(i + 1 <= Len(a))  BY Zenon, <4>1
                    <6> QED  BY <1>1, <3>0, <6>1
                <5> QED  BY <5>1, <5>2, <5>3
            <4>3. b[i - Len(a)] = IF i - Len(a) < k THEN x[i - Len(a)] ELSE x[i - Len(a) + 1]
                BY <2>2, <4>1
            <4> QED  BY Zenon, <4>1, <4>2, <4>3
        <3> QED  BY <3>1, <3>2
    <2>7. Len(v) = Len(u) - 1 /\ Contains(u, e)  BY <1>1, <1>5, <1>8, <2>2, <2>3
    <2> HIDE DEF n
    <2> QED  BY Zenon, <1>6, <2>3, <2>4, <2>5, <2>6, <2>7 DEF b, v
<1> QED  BY Zenon, <1>5, <1>7, <1>8 DEF u, RemovedOf

Z == process_get_priority(0)

\* Tasks of equal priority are queued at one level.
LEMMA FlatIs ==
    ASSUME NEW q \in RQState, AllEqual(q)
    PROVE  /\ Z \in Levels /\ q.active[Z] \in Seq(Task) /\ q.expired[Z] \in Seq(Task)
           /\ Ready(q) = q.active[Z] \o q.expired[Z] /\ Ready(q) \in Seq(Task)
           /\ \A l \in Levels : l # Z => q.active[l] = << >> /\ q.expired[l] = << >>
           /\ \A t \in Task : process_get_priority(q.nice[t]) = Z
<1>1. Z \in Levels /\ q.active \in Array /\ q.expired \in Array  BY Zenon, LevelsNat, RQFields DEF Z
<1>2. \A l \in Levels : q.active[l] \in Seq(Task) /\ q.expired[l] \in Seq(Task)
    BY <1>1 DEF Array
<1>3. Ready(q) = q.active[Z] \o q.expired[Z]  BY Zenon DEF Ready, Z
<1>4. q.active[Z] \o q.expired[Z] \in Seq(Task)  BY Zenon, <1>1, <1>2, ConcatProperties
<1>5. ASSUME NEW l \in Levels, l # Z PROVE q.active[l] = << >> /\ q.expired[l] = << >>
    <2>1. q.active[l] \o q.expired[l] = << >>  BY Zenon, <1>5 DEF AllEqual, Z
    <2> QED  BY <1>2, <2>1, ConcatEqualIffEmpty
<1>6. \A t \in Task : process_get_priority(q.nice[t]) = Z  BY Zenon DEF AllEqual, Z
<1> QED  BY Zenon, <1>1, <1>2, <1>3, <1>4, <1>5, <1>6

\* Popping an array with one list that is not empty takes the head of that list.
FlatPops(rq) ==
    LET live == Places(rq)
    IN  /\ rq[Z] = << >> => live = {}
        /\ rq[Z] # << >> => /\ live # {} /\ Entry(rq, FirstLive(live)) = Head(rq[Z])
                            /\ Rest(rq, live)[Z] = Tail(rq[Z])
        /\ \A l \in Levels : rq[l] = << >> => Rest(rq, live)[l] = << >>

LEMMA FlatPop ==
    ASSUME NEW rq \in Array, \A l \in Levels : l # Z => rq[l] = << >>
    PROVE  FlatPops(rq)
<1> DEFINE P == Places(rq)
<1>0. Z \in Levels /\ Z \in Nat  BY Zenon, LevelsNat DEF Z
<1>1. \A l \in Levels : rq[l] \in Seq(Task) /\ Len(rq[l]) \in Nat  BY LenProperties DEF Array
<1>2. /\ P \subseteq Levels \X Nat
      /\ \A l \in Levels : \A i : << l, i >> \in P <=> i \in 1 .. Len(rq[l])
      /\ \A e \in P : e[1] \in Levels /\ e[2] \in 1 .. Len(rq[e[1]]) /\ e = << e[1], e[2] >>
    BY Zenon, PlacesIs
<1>3. \A l \in Levels : rq[l] = << >> => Len(rq[l]) = 0  BY EmptySeq
<1>4. \A e \in P : e[1] = Z
    <2> TAKE e \in P
    <2> SUFFICES ASSUME e[1] # Z PROVE FALSE
        OBVIOUS
    <2>1. e[1] \in Levels /\ e[2] \in 1 .. Len(rq[e[1]]) /\ Len(rq[e[1]]) = 0  BY Zenon, <1>2, <1>3
    <2> QED  BY <2>1
<1>5. ASSUME NEW l \in Levels
      PROVE  /\ CutAt(rq, P, l) \in 0 .. Len(rq[l])
             /\ Rest(rq, P)[l] = SubSeq(rq[l], CutAt(rq, P, l) + 1, Len(rq[l]))
    BY Zenon, RestIs
<1>6. ASSUME NEW l \in Levels, rq[l] = << >> PROVE Rest(rq, P)[l] = << >>
    <2>1. CutAt(rq, P, l) + 1 \in Int /\ Len(rq[l]) \in Int /\ Len(rq[l]) < CutAt(rq, P, l) + 1
        BY <1>1, <1>5, <1>6
    <2>2. SubSeq(rq[l], CutAt(rq, P, l) + 1, Len(rq[l])) = << >>  BY <2>1, SubSeqEmpty
    <2> QED  BY Zenon, <1>5, <2>2
<1>7. ASSUME rq[Z] = << >> PROVE P = {}
    <2> SUFFICES ASSUME NEW e \in P PROVE FALSE
        OBVIOUS
    <2>1. e[2] \in 1 .. 0  BY Zenon, <1>0, <1>2, <1>3, <1>4, <1>7
    <2> QED  BY <2>1
<1>8. ASSUME rq[Z] # << >>
      PROVE  P # {} /\ Entry(rq, FirstLive(P)) = Head(rq[Z]) /\ Rest(rq, P)[Z] = Tail(rq[Z])
    <2>1. Len(rq[Z]) \in Nat \ {0}  BY <1>0, <1>1, <1>8, EmptySeq
    <2>2. 1 \in 1 .. Len(rq[Z])  BY <2>1
    <2>3. << Z, 1 >> \in P  BY Zenon, <1>0, <1>2, <2>2
    <2> DEFINE e == FirstLive(P)
    <2>4. e \in P /\ \A f \in P : ~Precedes(f, e)
        <3>1. P # {}  BY Zenon, <2>3
        <3> HIDE DEF P
        <3> QED  BY Zenon, <1>2, <3>1, FirstIs
    <2>5. CutAt(rq, P, Z) = IF P = {} \/ Z < e[1] THEN Len(rq[Z]) ELSE IF Z = e[1] THEN e[2] ELSE 0
        BY DEF CutAt
    <2> HIDE DEF e
    <2>6. e[1] = Z /\ e[2] \in Nat \ {0}
        <3>1. e[1] = Z /\ e[2] \in 1 .. Len(rq[Z])  BY Zenon, <1>2, <1>4, <2>4
        <3> QED  BY <2>1, <3>1
    <2>7. e[2] = 1
        <3>1. ~Precedes(<< Z, 1 >>, e)  BY Zenon, <2>3, <2>4
        <3> QED  BY <1>0, <2>6, <3>1 DEF Precedes
    <2>8. Entry(rq, e) = Head(rq[Z])  BY <2>6, <2>7 DEF Entry
    <2>9. CutAt(rq, P, Z) = 1
        <3>1. P # {} /\ ~(Z < e[1])  BY <1>0, <2>3, <2>6
        <3> QED  BY Zenon, <2>5, <2>6, <2>7, <3>1
    <2>10. Rest(rq, P)[Z] = SubSeq(rq[Z], 2, Len(rq[Z]))
        <3>1. Rest(rq, P)[Z] = SubSeq(rq[Z], 1 + 1, Len(rq[Z]))  BY Zenon, <1>0, <1>5, <2>9
        <3>2. 1 + 1 = 2  OBVIOUS
        <3> QED  BY Zenon, <3>1, <3>2
    <2>11. Tail(rq[Z]) = SubSeq(rq[Z], 2, Len(rq[Z]))  BY Zenon, <1>0, <1>1, <1>8, TailIsSubSeq
    <2> QED  BY Zenon, <2>3, <2>8, <2>10, <2>11 DEF e
<1> HIDE DEF P
<1> QED  BY Zenon, <1>6, <1>7, <1>8 DEF FlatPops, P

\* scheduler_pick_next() takes the head of the one queue.
FlatPicks(q, n, r) ==
    /\ AllEqual(r)
    /\ Ready(q) = << >> => n = Idle /\ Ready(r) = << >>
    /\ Ready(q) # << >> => n = Head(Ready(q)) /\ Ready(r) = Tail(Ready(q))

LEMMA FlatPick ==
    ASSUME NEW q, Sound(q), AllEqual(q)
    PROVE  FlatPicks(q, PickedNext(q), scheduler_pick_next(q))
<1> DEFINE r  == scheduler_pick_next(q)
           n  == PickedNext(q)
           LA == Live(q, q.active)
           LX == Live(q, q.expired)
           a  == q.active[Z]
           x  == q.expired[Z]
<1>1. /\ q \in RQState /\ q.active \in Array /\ q.expired \in Array
      /\ Sound(r) /\ SameTasks(q, r)
    BY Zenon, PickSound, RQFields DEF Sound
<1>2. /\ Z \in Levels /\ a \in Seq(Task) /\ x \in Seq(Task) /\ Ready(q) = a \o x
      /\ \A l \in Levels : l # Z => q.active[l] = << >> /\ q.expired[l] = << >>
      /\ \A t \in Task : process_get_priority(q.nice[t]) = Z
    BY Zenon, <1>1, FlatIs
<1>3. ASSUME NEW rq \in Array, rq = q.active \/ rq = q.expired,
             \A l \in Levels : l # Z => rq[l] = << >>
      PROVE  Live(q, rq) = Places(rq)
    <2>1. ASSUME NEW e \in Places(rq) PROVE q.state[Entry(rq, e)] # "TERMINATED"
        <3>1. e[1] \in Levels /\ e[2] \in 1 .. Len(rq[e[1]])  BY Zenon, PlacesIs
        <3>2. rq[e[1]] \in Seq(Task)  BY Zenon, <3>1 DEF Array
        <3>3. rq[e[1]][e[2]] \in Task  BY Zenon, <3>1, <3>2, ElementOfSeq
        <3>4. e[1] = Z
            <4> SUFFICES ASSUME e[1] # Z PROVE FALSE
                OBVIOUS
            <4>1. rq[e[1]] = << >>  BY Zenon, <1>3, <3>1
            <4>2. e[2] \in 1 .. 0  BY Zenon, <3>1, <4>1, EmptySeq
            <4> QED  BY <4>2
        <3>5. Contains(rq[Z], Entry(rq, e))  BY Zenon, <3>1, <3>4 DEF Contains, Entry
        <3>6. Misfiled(q)  BY Zenon DEF Sound
        <3> QED  BY Zenon, <1>2, <1>3, <3>3, <3>5, <3>6 DEF Misfiled, Entry
    <2> QED  BY Zenon, <2>1 DEF Live, Drained
<1>4. LA = Places(q.active) /\ LX = Places(q.expired)  BY Zenon, <1>1, <1>2, <1>3
<1>5. FlatPops(q.active) /\ FlatPops(q.expired)  BY Zenon, <1>1, <1>2, FlatPop
<1>6. /\ r.active = IF LA = {} THEN Rest(q.expired, LX) ELSE Rest(q.active, LA)
      /\ r.expired = IF LA = {} THEN Rest(q.active, LA) ELSE q.expired
    BY <1>1 DEF scheduler_pick_next, RQState
<1>7. n = IF LA = {}
          THEN IF LX = {} THEN Idle ELSE Entry(q.expired, FirstLive(LX))
          ELSE Entry(q.active, FirstLive(LA))
    BY DEF PickedNext
<1> HIDE DEF LA, LX, r, n
<1>8. /\ a = << >> => LA = {}
      /\ a # << >> => /\ LA # {} /\ Entry(q.active, FirstLive(LA)) = Head(a)
                      /\ Rest(q.active, LA)[Z] = Tail(a)
      /\ x = << >> => LX = {}
      /\ x # << >> => /\ LX # {} /\ Entry(q.expired, FirstLive(LX)) = Head(x)
                      /\ Rest(q.expired, LX)[Z] = Tail(x)
      /\ \A l \in Levels : /\ q.active[l] = << >> => Rest(q.active, LA)[l] = << >>
                           /\ q.expired[l] = << >> => Rest(q.expired, LX)[l] = << >>
    BY Zenon, <1>4, <1>5 DEF FlatPops
<1>9. AllEqual(r)
    <2>1. \A l \in Levels : l # Z => r.active[l] = << >> /\ r.expired[l] = << >>
        BY Zenon, <1>2, <1>6, <1>8
    <2>2. << >> \o << >> = << >>  BY EmptySeq, ConcatEmptySeq
    <2>3. \A l \in Levels \ {Z} : r.active[l] \o r.expired[l] = << >>  BY Zenon, <2>1, <2>2
    <2> QED  BY Zenon, <1>1, <2>3 DEF AllEqual, SameTasks, Z
<1>10. Ready(r) = r.active[Z] \o r.expired[Z]  BY Zenon DEF Ready, Z
<1> HIDE DEF a, x
<1>11. CASE a # << >>
    <2>1. n = Head(a) /\ r.active[Z] = Tail(a) /\ r.expired[Z] = x
        BY Zenon, <1>6, <1>7, <1>8, <1>11 DEF x
    <2>2. a \o x # << >> /\ Head(a \o x) = Head(a) /\ Tail(a \o x) = Tail(a) \o x
        BY Zenon, <1>2, <1>11, ConcatEnds
    <2> QED  BY Zenon, <1>2, <1>9, <1>10, <2>1, <2>2 DEF FlatPicks, n, r
<1>12. CASE a = << >> /\ x # << >>
    <2>1. n = Head(x) /\ r.active[Z] = Tail(x) /\ r.expired[Z] = << >>
        BY Zenon, <1>2, <1>6, <1>7, <1>8, <1>12 DEF a
    <2>2. a \o x = x  BY Zenon, <1>2, <1>12, ConcatEmptySeq
    <2>3. Tail(x) \in Seq(Task)  BY Zenon, <1>2, <1>12, HeadTailProperties
    <2>4. Tail(x) \o << >> = Tail(x)  BY Zenon, <2>3, ConcatEmptySeq
    <2> QED  BY Zenon, <1>2, <1>9, <1>10, <1>12, <2>1, <2>2, <2>4 DEF FlatPicks, n, r
<1>13. CASE a = << >> /\ x = << >>
    <2>1. n = Idle /\ r.active[Z] = << >> /\ r.expired[Z] = << >>
        BY Zenon, <1>2, <1>6, <1>7, <1>8, <1>13 DEF a, x
    <2>2. << >> \o << >> = << >>  BY EmptySeq, ConcatEmptySeq
    <2> QED  BY Zenon, <1>2, <1>9, <1>10, <1>13, <2>1, <2>2 DEF FlatPicks, n, r
<1> QED  BY Zenon, <1>11, <1>12, <1>13

\* A task that becomes ready goes to the end of the one queue.
LEMMA FlatEnter ==
    ASSUME NEW q \in RQState, AllEqual(q), NEW t \in Task, NEW r,
           Enters(q, r, t, 0, q.active, runqueue_enqueue(q.expired, t, Z))
    PROVE  AllEqual(r) /\ Ready(r) = Append(Ready(q), t)
<1> DEFINE X == runqueue_enqueue(q.expired, t, Z)
<1>1. /\ Z \in Levels /\ q.active[Z] \in Seq(Task) /\ q.expired[Z] \in Seq(Task)
      /\ Ready(q) = q.active[Z] \o q.expired[Z]
      /\ \A l \in Levels : l # Z => q.active[l] = << >> /\ q.expired[l] = << >>
    BY Zenon, FlatIs
<1>2. X[Z] = Append(q.expired[Z], t) /\ \A l \in Levels : l # Z => X[l] = q.expired[l]
    BY <1>1 DEF runqueue_enqueue, RQState
<1>3. /\ r.active = q.active /\ r.expired = X /\ r.nice = q.nice /\ r.boost[t] = 0
      /\ \A x \in Task : x # t => r.boost[x] = q.boost[x]
    BY Zenon DEF Enters
<1> HIDE DEF X
<1>4. \A l \in Levels : l # Z => r.active[l] = q.active[l] /\ r.expired[l] = q.expired[l]
    BY Zenon, <1>2, <1>3
<1>5. AllEqual(r)  BY Zenon, <1>3, <1>4 DEF AllEqual, Z
<1>6. Ready(r) = q.active[Z] \o Append(q.expired[Z], t)  BY Zenon, <1>2, <1>3 DEF Ready, Z
<1>7. q.active[Z] \o Append(q.expired[Z], t) = Append(q.active[Z] \o q.expired[Z], t)
    <2>1. Behind(q.active[Z], q.expired[Z], t)  BY Zenon, <1>1, ConcatAppend
    <2> QED  BY Zenon, <2>1 DEF Behind
<1> QED  BY Zenon, <1>1, <1>5, <1>6, <1>7

-----------------------------------------------------------------------------
(***************************************************************************)
(* The steps, seen as steps of one queue.                                  *)
(***************************************************************************)
Stutters(q, r) == Ready(r) = Ready(q) /\ r.current = q.current

Rotates(q, r) ==
    /\ r.current = Head(Append(Ready(q), q.current))
    /\ Ready(r) = Tail(Append(Ready(q), q.current))

Leaves(q, r) == Ready(q) # << >> /\ r.current = Head(Ready(q)) /\ Ready(r) = Tail(Ready(q))

Arrives(q, r, t) ==
    /\ ~Contains(Ready(q), t) /\ t # q.current
    /\ Ready(r) = Append(Ready(q), t) /\ r.current = q.current

Withdraws(q, r, t) ==
    /\ Contains(Ready(q), t)
    /\ Ready(r) = RemoveFirst(Ready(q), t) /\ r.current = q.current

FlatStep(q, r) ==
    \/ Stutters(q, r) \/ Rotates(q, r) \/ Leaves(q, r)
    \/ \E t \in Task : Arrives(q, r, t) \/ Withdraws(q, r, t)

LEMMA FlatStepIs ==
    ASSUME s.current # Idle, FlatStep(s, s')
    PROVE  Fifo!FifoStep
<1>1. CASE Stutters(s, s')
    BY Zenon, <1>1 DEF Stutters, Fifo!FifoStep, Ready
<1>2. CASE Rotates(s, s')
    BY Zenon, <1>2 DEF Rotates, Fifo!FifoStep, Fifo!FifoNext, Fifo!Rotate, Ready
<1>3. CASE Leaves(s, s')
    BY Zenon, <1>3 DEF Leaves, Fifo!FifoStep, Fifo!FifoNext, Fifo!Leave, Ready
<1>4. ASSUME NEW t \in Task, Arrives(s, s', t) PROVE Fifo!FifoStep
    <2>1. Fifo!Arrive(t)
        BY Zenon, <1>4 DEF Arrives, Fifo!Arrive, Ready, Contains, Fifo!Contains
    <2> QED  BY Zenon, <2>1 DEF Fifo!FifoStep, Fifo!FifoNext
<1>5. ASSUME NEW t \in Task, Withdraws(s, s', t) PROVE Fifo!FifoStep
    <2>1. \A u : Fifo!RemoveFirst(u, t) = RemoveFirst(u, t)
        BY Zenon DEF RemoveFirst, Fifo!RemoveFirst, Contains, Fifo!Contains,
            RemoveAt, Fifo!RemoveAt, Min, Fifo!Min
    <2>2. Fifo!Withdraw(t)
        BY Zenon, <1>5, <2>1 DEF Withdraws, Fifo!Withdraw, Ready, Contains, Fifo!Contains
    <2> QED  BY Zenon, <2>2 DEF Fifo!FifoStep, Fifo!FifoNext
<1> QED  BY Zenon, <1>1, <1>2, <1>3, <1>4, <1>5 DEF FlatStep

LEMMA SameReady ==
    ASSUME NEW q, NEW r, SameQueues(q, r)
    PROVE  /\ Ready(r) = Ready(q)
           /\ r.nice = q.nice /\ r.boost = q.boost /\ AllEqual(q) => AllEqual(r)
  BY Zenon DEF SameQueues, Ready, AllEqual

\* Switching to the next task takes the head of the queue.
LEMMA FlatSwitch ==
    ASSUME NEW q, Sound(q), AllEqual(q), Ready(q) # << >>
    PROVE  LET r == scheduler_pick_next(q)
               n == PickedNext(q)
           IN  /\ n = Head(Ready(q)) /\ n \in Task /\ Sound(r) /\ SameTasks(q, r) /\ AllEqual(r)
               /\ ~r.on_queue[n] /\ Ready(r) = Tail(Ready(q))
               /\ Switch(q).current = n /\ Ready(Switch(q)) = Tail(Ready(q))
<1> DEFINE r == scheduler_pick_next(q)
           n == PickedNext(q)
           w == process_set_current(r, n)
<1>1. FlatPicks(q, n, r)  BY Zenon, FlatPick
<1>2. q \in RQState  BY Zenon DEF Sound
<1>3. Ready(q) \in Seq(Task)  BY Zenon, <1>2, FlatIs
<1>4. Head(Ready(q)) \in Task  BY Zenon, <1>3, HeadTailProperties
<1>5. /\ Sound(r) /\ SameTasks(q, r)
      /\ n = Idle \/ (n \in Task /\ ~r.on_queue[n])
    BY Zenon, PickSound
<1> HIDE DEF r, n
<1>6. n = Head(Ready(q)) /\ Ready(r) = Tail(Ready(q)) /\ AllEqual(r)  BY Zenon, <1>1 DEF FlatPicks
<1>7. n \in Task /\ ~r.on_queue[n]  BY Zenon, <1>4, <1>5, <1>6, TaskAssumption
<1>8. Runs(r, w, n)  BY Zenon, <1>5, <1>7, CurrentIs
<1>9. Switch(q) = w  BY Zenon DEF Switch, r, n
<1> HIDE DEF w
<1>10. SameQueues(r, w) /\ w.current = n  BY Zenon, <1>8 DEF Runs
<1>11. Ready(w) = Ready(r)  BY Zenon, <1>10, SameReady
<1> QED  BY Zenon, <1>5, <1>6, <1>7, <1>9, <1>10, <1>11 DEF r, n

LEMMA YieldFlat ==
    ASSUME RQInv, Yield, AllEqual(s)
    PROVE  FlatStep(s, s')
<1> DEFINE c == s.current
           q == scheduler_yield_requeue(s, c)
           r == scheduler_pick_next(q)
<1>1. Sound(s) /\ ~s.on_queue[c] /\ s.state[c] \in {"RUNNING", "READY"} /\ s \in RQState
    BY Zenon DEF RQInv, Sound
<1>2. c \in Task /\ s.state[c] # "TERMINATED"
    <2>1. c \in Task  BY Zenon, <1>1, RQFields
    <2> QED  BY <1>1, <2>1
<1>3. s' = IF PickedNext(q) = c THEN r ELSE Switch(q)  BY Zenon DEF Yield
<1>4. Requeues(s, q, c) /\ Joins(s, q, c)  BY Zenon, <1>1, <1>2, RequeueIs, RequeueSound
<1>5. Enters(s, q, c, 0, s.active, runqueue_enqueue(s.expired, c, Z))
    <2> HIDE DEF q, c
    <2>1. s.boost[c] = 0 /\ s.nice[c] = 0  BY Zenon, <1>2 DEF AllEqual
    <2>2. ~(0 > 0) /\ priority_yield_boost(0) = 0  BY DEF priority_yield_boost
    <2> QED  BY Zenon, <1>4, <2>1, <2>2 DEF Requeues, Z
<1> HIDE DEF q
<1>6. Sound(q) /\ q.current = c  BY Zenon, <1>4 DEF Joins
<1>7. AllEqual(q) /\ Ready(q) = Append(Ready(s), c)
    <2> HIDE DEF c
    <2> QED  BY Zenon, <1>1, <1>2, <1>5, FlatEnter
<1>8. Ready(q) # << >>
    <2>1. Ready(s) \in Seq(Task)  BY Zenon, <1>1, FlatIs
    <2> QED  BY <1>2, <1>7, <2>1, AppendProperties
<1>9. /\ PickedNext(q) = Head(Ready(q)) /\ SameTasks(q, r) /\ Ready(r) = Tail(Ready(q))
      /\ Switch(q).current = PickedNext(q) /\ Ready(Switch(q)) = Tail(Ready(q))
    BY Zenon, <1>6, <1>7, <1>8, FlatSwitch
<1> HIDE DEF r
<1>10. s'.current = Head(Ready(q)) /\ Ready(s') = Tail(Ready(q))
    <2>1. CASE PickedNext(q) = c
        <3>1. s' = r /\ r.current = c  BY Zenon, <1>3, <1>6, <1>9, <2>1 DEF SameTasks
        <3> QED  BY Zenon, <1>9, <2>1, <3>1
    <2>2. CASE PickedNext(q) # c  BY Zenon, <1>3, <1>9, <2>2
    <2> QED  BY Zenon, <2>1, <2>2
<1> QED  BY Zenon, <1>7, <1>10 DEF FlatStep, Rotates, c

LEMMA PreemptFlat ==
    ASSUME RQInv, Preempt, AllEqual(s)
    PROVE  FlatStep(s, s')
<1> DEFINE c == s.current
           r == scheduler_pick_next(s)
           n == PickedNext(s)
           a == scheduler_add_process(r, c)
           w == process_set_current(a, n)
<1>1. Sound(s) /\ ~s.on_queue[c] /\ s.state[c] \in {"RUNNING", "READY"} /\ s \in RQState
    BY Zenon DEF RQInv, Sound
<1>2. c \in Task /\ s.state[c] # "TERMINATED"
    <2>1. c \in Task  BY Zenon, <1>1, RQFields
    <2> QED  BY <1>1, <2>1
<1>3. s' = IF n = Idle THEN r ELSE w  BY Zenon DEF Preempt
<1>4. /\ Sound(r) /\ SameTasks(s, r) /\ \A t \in Task : r.on_queue[t] => s.on_queue[t]
    BY Zenon, <1>1, PickSound
<1>5. FlatPicks(s, n, r)  BY Zenon, <1>1, FlatPick
<1>6. CASE Ready(s) = << >>
    <2> HIDE DEF n, r
    <2>1. n = Idle /\ Ready(r) = Ready(s)  BY Zenon, <1>5, <1>6 DEF FlatPicks
    <2> QED  BY Zenon, <1>3, <1>4, <2>1 DEF FlatStep, Stutters, SameTasks
<1>7. CASE Ready(s) # << >>
    <2>1. /\ n = Head(Ready(s)) /\ n \in Task /\ AllEqual(r) /\ ~r.on_queue[n]
          /\ Ready(r) = Tail(Ready(s))
        BY Zenon, <1>1, <1>7, FlatSwitch
    <2>0. n # c
        <3>1. n \in Task => n = Idle \/ s.on_queue[n]  BY Zenon, <1>1, PickSound
        <3> QED  BY Zenon, <1>1, <2>1, <3>1, TaskAssumption
    <2> HIDE DEF n, r, c
    <2>2. r.state[c] # "TERMINATED" /\ ~r.on_queue[c]  BY Zenon, <1>1, <1>2, <1>4 DEF SameTasks
    <2>3. /\ Enters(r, a, c, r.boost[c], r.active,
                    runqueue_enqueue(r.expired, c, process_get_priority(r.nice[c])))
          /\ Joins(r, a, c)
        BY Zenon, <1>2, <1>4, <2>2, AddIs, AddSound
    <2>4. r.boost[c] = 0 /\ r.nice[c] = 0  BY Zenon, <1>2, <2>1 DEF AllEqual
    <2> HIDE DEF a
    <2>5. Enters(r, a, c, 0, r.active, runqueue_enqueue(r.expired, c, Z))
        BY Zenon, <2>3, <2>4 DEF Z
    <2>6. r \in RQState  BY Zenon, <1>4 DEF Sound
    <2>7. Ready(a) = Append(Ready(r), c)  BY Zenon, <1>2, <2>1, <2>5, <2>6, FlatEnter
    <2>8. Sound(a) /\ ~a.on_queue[n]  BY Zenon, <2>0, <2>1, <2>3 DEF Joins
    <2>9. Runs(a, w, n)  BY Zenon, <2>1, <2>8, CurrentIs
    <2> HIDE DEF w
    <2>10. SameQueues(a, w) /\ w.current = n  BY Zenon, <2>9 DEF Runs
    <2>11. Ready(w) = Ready(a)  BY Zenon, <2>10, SameReady
    <2>12. s' = w  BY Zenon, <1>3, <2>1, TaskAssumption
    <2>13. Ready(s) \in Seq(Task)  BY Zenon, <1>1, FlatIs
    <2>14. /\ Head(Append(Ready(s), c)) = Head(Ready(s))
           /\ Tail(Append(Ready(s), c)) = Append(Tail(Ready(s)), c)
        BY <1>7, <2>13, HeadTailAppend
    <2> QED  BY Zenon, <2>1, <2>7, <2>10, <2>11, <2>12, <2>14 DEF FlatStep, Rotates, c
<1> QED  BY Zenon, <1>6, <1>7

LEMMA LeaveFlat ==
    ASSUME RQInv, AllEqual(s), PickedNext(s) # Idle, NEW x \in {"BLOCKED", "TERMINATED"},
           s' = Switch(InState(s, s.current, x))
    PROVE  FlatStep(s, s')
<1> DEFINE c == s.current
           q == InState(s, c, x)
<1>1. Sound(s) /\ ~s.on_queue[c] /\ s \in RQState /\ c \in Task
    BY Zenon, RQFields DEF RQInv, Sound
<1>2. FlatPicks(s, PickedNext(s), scheduler_pick_next(s))  BY Zenon, <1>1, FlatPick
<1>3. Ready(s) # << >>  BY Zenon, <1>2 DEF FlatPicks
<1> HIDE DEF c
<1>4. Restated(s, q, c, x)
    <2>1. x \in TState  BY DEF TState
    <2> QED  BY Zenon, <1>1, <2>1, StateIs
<1> HIDE DEF q
<1>5. /\ SameQueues(s, q) /\ q.nice = s.nice /\ q.boost = s.boost
      /\ \A t \in Task : t # c => q.state[t] = s.state[t]
    BY Zenon, <1>4 DEF Restated
<1>6. Sound(q)  BY Zenon, <1>1, <1>5, RetaskSound
<1>7. AllEqual(q) /\ Ready(q) = Ready(s)  BY Zenon, <1>5, SameReady
<1>8. Switch(q).current = Head(Ready(q)) /\ Ready(Switch(q)) = Tail(Ready(q))
    BY Zenon, <1>3, <1>6, <1>7, FlatSwitch
<1>9. s' = Switch(q)  BY Zenon DEF q, c
<1> QED  BY Zenon, <1>3, <1>7, <1>8, <1>9 DEF FlatStep, Leaves

\* The one queue holds the tasks that are queued.
LEMMA ReadyOn ==
    ASSUME NEW q, Sound(q), AllEqual(q), NEW t \in Task
    PROVE  Contains(Ready(q), t) => q.on_queue[t]
<1>1. /\ Z \in Levels /\ q.active[Z] \in Seq(Task) /\ q.expired[Z] \in Seq(Task)
      /\ Ready(q) = q.active[Z] \o q.expired[Z]
    BY Zenon, FlatIs DEF Sound
<1>2. Contains(Ready(q), t) <=> Contains(q.active[Z], t) \/ Contains(q.expired[Z], t)
    <2>1. RemovedOf(q.active[Z], q.expired[Z], t)  BY Zenon, <1>1, ConcatRemove
    <2> QED  BY Zenon, <1>1, <2>1 DEF RemovedOf
<1> QED  BY Zenon, <1>1, <1>2 DEF Sound, Exact, On

\* Create and Wake.
LEMMA ArriveFlat ==
    ASSUME RQInv, AllEqual(s), NEW t \in Task, t # s.current, NEW q, Sound(q), SameQueues(s, q),
           q.current = s.current, q.state[t] = "READY", AllEqual(q)
    PROVE  FlatStep(s, scheduler_add_process(q, t))
<1> DEFINE r == scheduler_add_process(q, t)
<1>1. Ready(q) = Ready(s)  BY Zenon, SameReady
<1>2. CASE q.on_queue[t]
    <2>1. r = q  BY Zenon, <1>2 DEF scheduler_add_process
    <2> QED  BY Zenon, <1>1, <2>1 DEF FlatStep, Stutters
<1>3. CASE ~q.on_queue[t]
    <2>1. q.state[t] # "TERMINATED"  OBVIOUS
    <2>2. Enters(q, r, t, q.boost[t], q.active,
                 runqueue_enqueue(q.expired, t, process_get_priority(q.nice[t])))
        BY Zenon, <1>3, <2>1, AddIs
    <2> HIDE DEF r
    <2>3. q.boost[t] = 0 /\ q.nice[t] = 0 /\ q \in RQState  BY Zenon DEF AllEqual, Sound
    <2>4. Enters(q, r, t, 0, q.active, runqueue_enqueue(q.expired, t, Z))
        BY Zenon, <2>2, <2>3 DEF Z
    <2>5. Ready(r) = Append(Ready(q), t)  BY Zenon, <2>3, <2>4, FlatEnter
    <2>6. r.current = q.current  BY Zenon, <2>4 DEF Enters
    <2>7. ~Contains(Ready(q), t)  BY Zenon, <1>3, ReadyOn
    <2> QED  BY Zenon, <1>1, <2>5, <2>6, <2>7 DEF FlatStep, Arrives, r
<1> QED  BY Zenon, <1>2, <1>3

\* Kill and Stop.
LEMMA WithdrawFlat ==
    ASSUME RQInv, AllEqual(s), NEW t \in Task, NEW x \in {"BLOCKED", "TERMINATED"},
           s' = scheduler_remove_process(InState(s, t, x), t)
    PROVE  FlatStep(s, s')
<1> DEFINE q == InState(s, t, x)
           r == scheduler_remove_process(q, t)
           a == q.active[Z]
           e == q.expired[Z]
<1>1. s \in RQState  BY Zenon DEF RQInv, Sound
<1>2. Restated(s, q, t, x)
    <2>1. x \in TState  BY DEF TState
    <2> QED  BY Zenon, <1>1, <2>1, StateIs
<1>3. s' = r  BY Zenon
<1> HIDE DEF q
<1>4. q \in RQState /\ AllEqual(q) /\ Ready(q) = Ready(s) /\ q.current = s.current
    BY Zenon, <1>2, SameReady DEF Restated, SameQueues
<1>5. /\ Z \in Levels /\ a \in Seq(Task) /\ e \in Seq(Task) /\ Ready(q) = a \o e
      /\ process_get_priority(q.nice[t]) = Z
    BY Zenon, <1>4, FlatIs
<1>6. CASE r = q  BY Zenon, <1>3, <1>4, <1>6 DEF FlatStep, Stutters
<1>7. CASE q.on_queue[t] /\ Contains(a, t)
    <2>1. r.active[Z] = RemoveFirst(a, t) /\ r.expired[Z] = e /\ r.current = q.current
        BY <1>4, <1>5, <1>7 DEF scheduler_remove_process, RQState
    <2> HIDE DEF r, a, e
    <2>2. Ready(r) = RemoveFirst(a, t) \o e  BY Zenon, <2>1 DEF Ready, Z
    <2>3. Contains(a \o e, t) /\ RemoveFirst(a \o e, t) = RemoveFirst(a, t) \o e
        <3>1. RemovedOf(a, e, t)  BY Zenon, <1>5, ConcatRemove
        <3> QED  BY Zenon, <1>7, <3>1 DEF RemovedOf
    <2> QED  BY Zenon, <1>3, <1>4, <1>5, <2>1, <2>2, <2>3 DEF FlatStep, Withdraws
<1>8. CASE q.on_queue[t] /\ ~Contains(a, t) /\ Contains(e, t)
    <2>1. r.active[Z] = a /\ r.expired[Z] = RemoveFirst(e, t) /\ r.current = q.current
        BY <1>4, <1>5, <1>8 DEF scheduler_remove_process, RQState
    <2> HIDE DEF r, a, e
    <2>2. Ready(r) = a \o RemoveFirst(e, t)  BY Zenon, <2>1 DEF Ready, Z
    <2>3. Contains(a \o e, t) /\ RemoveFirst(a \o e, t) = a \o RemoveFirst(e, t)
        <3>1. RemovedOf(a, e, t)  BY Zenon, <1>5, ConcatRemove
        <3> QED  BY Zenon, <1>8, <3>1 DEF RemovedOf
    <2> QED  BY Zenon, <1>3, <1>4, <1>5, <2>1, <2>2, <2>3 DEF FlatStep, Withdraws
<1>9. r = q \/ (q.on_queue[t] /\ (Contains(a, t) \/ Contains(e, t)))
    BY Zenon, <1>5 DEF scheduler_remove_process
<1> QED  BY Zenon, <1>6, <1>7, <1>8, <1>9

LEMMA FlatStepHolds ==
    ASSUME RQInv, RQNext, AllEqual(s)
    PROVE  FlatStep(s, s')
<1>0. Sound(s) /\ s \in RQState /\ "READY" \in TState  BY Zenon DEF RQInv, Sound, TState
<1>1. CASE Yield  BY Zenon, <1>1, YieldFlat
<1>2. CASE Preempt  BY Zenon, <1>2, PreemptFlat
<1>3. CASE Block
    <2>1. PickedNext(s) # Idle /\ s' = Switch(InState(s, s.current, "BLOCKED"))
        BY Zenon, <1>3 DEF Block, InState
    <2> QED  BY Zenon, <2>1, LeaveFlat
<1>4. CASE Exit
    <2>1. PickedNext(s) # Idle /\ s' = Switch(InState(s, s.current, "TERMINATED"))
        BY Zenon, <1>4 DEF Exit, InState
    <2> QED  BY Zenon, <2>1, LeaveFlat
<1>5. ASSUME NEW t \in Task, Create(t) PROVE FlatStep(s, s')
    <2> DEFINE q == Reborn(s, t)
    <2>1. t # s.current /\ s' = scheduler_add_process(q, t)  BY Zenon, <1>5 DEF Create, Reborn
    <2>2. Born(s, q, t)  BY Zenon, RebornIs
    <2> HIDE DEF q
    <2>3. SameQueues(s, q) /\ Sound(q) /\ q.current = s.current /\ q.state[t] = "READY"
        BY Zenon, <2>2 DEF Born
    <2>4. AllEqual(q)  BY Zenon, <2>2 DEF Born, AllEqual, SameQueues
    <2> QED  BY Zenon, <2>1, <2>3, <2>4, ArriveFlat
<1>6. ASSUME NEW t \in Task, Wake(t) PROVE FlatStep(s, s')
    <2> DEFINE q == InState(s, t, "READY")
    <2>1. t # s.current /\ s' = scheduler_add_process(q, t)  BY Zenon, <1>6 DEF Wake, InState
    <2>2. Restated(s, q, t, "READY")  BY Zenon, <1>0, StateIs
    <2> HIDE DEF q
    <2>3. /\ SameQueues(s, q) /\ q.nice = s.nice /\ q.boost = s.boost /\ q.current = s.current
          /\ q.state[t] = "READY" /\ \A x \in Task : x # t => q.state[x] = s.state[x]
        BY Zenon, <2>2 DEF Restated
    <2>4. AllEqual(q)  BY Zenon, <2>3, SameReady
    <2>5. Sound(q)
        <3>1. \A x \in Task : q.state[x] = "TERMINATED" =>
                  s.state[x] = "TERMINATED" /\ q.nice[x] = s.nice[x]
            BY <2>3
        <3> QED  BY Zenon, <1>0, <2>3, <3>1, RetaskSound
    <2> QED  BY Zenon, <2>1, <2>3, <2>4, <2>5, ArriveFlat
<1>7. ASSUME NEW t \in Task, Kill(t) PROVE FlatStep(s, s')
    <2>1. s' = scheduler_remove_process(InState(s, t, "TERMINATED"), t)
        BY Zenon, <1>7 DEF Kill, InState
    <2> QED  BY Zenon, <2>1, WithdrawFlat
<1>8. ASSUME NEW t \in Task, Stop(t) PROVE FlatStep(s, s')
    <2>1. s' = scheduler_remove_process(InState(s, t, "BLOCKED"), t)
        BY Zenon, <1>8 DEF Stop, InState
    <2> QED  BY Zenon, <2>1, WithdrawFlat
<1>9. ASSUME NEW t \in Task, SetNice(t) PROVE FlatStep(s, s')
    <2>1. PICK n \in Nices : s' = [s EXCEPT !.nice[t] = n]  BY Zenon, <1>9 DEF SetNice
    <2>2. s'.active = s.active /\ s'.expired = s.expired /\ s'.current = s.current
        BY <1>0, <2>1 DEF RQState
    <2> QED  BY Zenon, <2>2 DEF FlatStep, Stutters, Ready
<1> QED  BY Zenon, <1>1, <1>2, <1>3, <1>4, <1>5, <1>6, <1>7, <1>8, <1>9 DEF RQNext

\* The active and the expired array of tasks of equal priority behave as the one
\* FIFO of ready tasks that the model of the process core uses: yield and preemption
\* rotate it, wakers append to it, blocking takes its head, kills take from its
\* middle.  For any number of tasks, and also after priorities were given back.
THEOREM ImplementsFifoHolds == RQSpec => ImplementsFifo
<1>1. RQInit => Fifo!FifoInit
    <2> SUFFICES ASSUME RQInit PROVE Fifo!FifoInit
        OBVIOUS
    <2>1. process_get_priority(0) \in Levels  BY Zenon, LevelsNat
    <2>2. /\ s.active[process_get_priority(0)] = << >> /\ s.expired[process_get_priority(0)] = << >>
          /\ s.current = First
        BY <2>1 DEF RQInit
    <2>3. << >> \o << >> = << >>  BY EmptySeq, ConcatEmptySeq
    <2> QED  BY Zenon, <2>2, <2>3 DEF Fifo!FifoInit, Ready
<1>2. RQInv => s.current # Idle  BY Zenon, RQFields, TaskAssumption DEF RQInv, Sound
<1>3. RQInv /\ [RQNext]_s => [AllEqual(s) /\ AllEqual(s') => Fifo!FifoStep]_s
    BY Zenon, <1>2, FlatStepHolds, FlatStepIs
<1> QED  BY <1>1, <1>3, RQInductive, PTL DEF RQSpec, ImplementsFifo
=============================================================================
