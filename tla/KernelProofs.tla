---------------------------- MODULE KernelProofs ----------------------------
(***************************************************************************)
(* Lemmas about the functions of KernelState: which of them keep the state *)
(* good, and whose references they take and give.                          *)
(***************************************************************************)
EXTENDS KernelState, SequenceTheorems, WellFoundedInduction, TLAPS

-----------------------------------------------------------------------------
\* A non-empty set of natural numbers has a least element, Min.
LEMMA MinOfNat ==
    ASSUME NEW S \in SUBSET Nat, S # {}
    PROVE  Min(S) \in S /\ \A y \in S : Min(S) <= y
<1> DEFINE R == {ss \in Nat \X Nat : ss[1] < ss[2]}
<1>1. IsWellFoundedOn(R, Nat)
    <2>1. OpToRel(<, Nat) = R  BY DEF OpToRel
    <2> QED  BY Zenon, <2>1, NatLessThanWellFounded
<1>2. PICK x \in S : \A y \in S : ~(<< y, x >> \in R)
    <2> HIDE DEF R
    <2> QED  BY Zenon, <1>1, WFMin
<1>3. ASSUME NEW y \in S, y < x PROVE FALSE
    <2>1. << y, x >> \in R  BY <1>3
    <2> QED  BY <1>2, <2>1
<1>4. \A y \in S : x <= y  BY <1>3
<1> QED
    BY Zenon, <1>4 DEF Min

\* RemoveAt shifts the elements after the removed one.
LEMMA RemoveAtIs ==
    ASSUME NEW S, NEW s \in Seq(S), NEW n \in 1 .. Len(s)
    PROVE  /\ RemoveAt(s, n) \in Seq(S)
           /\ Len(RemoveAt(s, n)) = Len(s) - 1
           /\ \A j \in 1 .. (Len(s) - 1) :
                RemoveAt(s, n)[j] = IF j < n THEN s[j] ELSE s[j + 1]
<1> DEFINE u == SubSeq(s, 1, n - 1)
           v == SubSeq(s, n + 1, Len(s))
<1>1. Len(s) \in Nat  BY LenProperties
<1>2. /\ u \in Seq(S) /\ Len(u) = n - 1
      /\ \A j \in 1 .. (n - 1) : u[j] = s[j]
    BY <1>1, SubSeqProperties
<1>3. /\ v \in Seq(S) /\ Len(v) = Len(s) - n
      /\ \A j \in 1 .. (Len(s) - n) : v[j] = s[n + j]
    BY <1>1, SubSeqProperties
<1>4. RemoveAt(s, n) = u \o v  BY DEF RemoveAt
<1> HIDE DEF u, v
<1>5. /\ u \o v \in Seq(S) /\ Len(u \o v) = Len(u) + Len(v)
      /\ \A j \in 1 .. (Len(u) + Len(v)) :
            (u \o v)[j] = IF j <= Len(u) THEN u[j] ELSE v[j - Len(u)]
    BY Zenon, <1>2, <1>3, ConcatProperties
<1> QED  BY <1>1, <1>2, <1>3, <1>4, <1>5

\* RemoveFirst keeps a sequence a sequence over the same set.
LEMMA RemoveFirstType ==
    ASSUME NEW S, NEW s \in Seq(S), NEW e
    PROVE  RemoveFirst(s, e) \in Seq(S)
<1> DEFINE I == {j \in 1 .. Len(s) : s[j] = e}
<1>1. CASE I = {}
    BY Zenon, <1>1 DEF RemoveFirst, Contains
<1>2. CASE I # {}
    <2>1. Min(I) \in I
        <3>1. I \in SUBSET Nat  OBVIOUS
        <3> HIDE DEF I
        <3> QED  BY <1>2, <3>1, MinOfNat
    <2>2. RemoveFirst(s, e) = RemoveAt(s, Min(I))
        BY <1>2 DEF RemoveFirst, Contains
    <2> QED  BY <2>1, <2>2, RemoveAtIs
<1> QED  BY <1>1, <1>2

\* On a sequence without repetition RemoveFirst removes e and nothing else.
LEMMA RemoveFirstInjective ==
    ASSUME NEW S, NEW s \in Seq(S), IsInjective(s), NEW e
    PROVE  /\ IsInjective(RemoveFirst(s, e))
           /\ \A x : Contains(RemoveFirst(s, e), x) <=> Contains(s, x) /\ x # e
<1> DEFINE I == {j \in 1 .. Len(s) : s[j] = e}
           r == RemoveFirst(s, e)
<1>1. CASE I = {}
    BY Zenon, <1>1 DEF RemoveFirst, Contains
<1>2. CASE I # {}
    <2>1. Min(I) \in I
        <3>1. I \in SUBSET Nat  OBVIOUS
        <3> HIDE DEF I
        <3> QED  BY <1>2, <3>1, MinOfNat
    <2>2. r = RemoveAt(s, Min(I))
        BY <1>2 DEF RemoveFirst, Contains
    <2> DEFINE n == Min(I)
    <2>3. n \in 1 .. Len(s) /\ s[n] = e  BY <2>1
    <2>4. \A j \in 1 .. Len(s) : s[j] = e => j = n
        BY <2>3 DEF IsInjective
    <2> HIDE DEF n, r
    <2>5. /\ r \in Seq(S) /\ Len(r) = Len(s) - 1
          /\ \A j \in 1 .. (Len(s) - 1) : r[j] = IF j < n THEN s[j] ELSE s[j + 1]
        BY Zenon, <2>2, <2>3, RemoveAtIs DEF n
    <2>6. IsInjective(r)
        BY <2>3, <2>5 DEF IsInjective
    <2>7. ASSUME NEW x, Contains(r, x) PROVE Contains(s, x) /\ x # e
        BY <2>3, <2>4, <2>5, <2>7 DEF Contains
    <2>8. ASSUME NEW x, Contains(s, x), x # e PROVE Contains(r, x)
        <3>1. PICK j \in 1 .. Len(s) : s[j] = x  BY <2>8 DEF Contains
        <3>2. CASE j < n  BY <3>1, <3>2, <2>3, <2>5 DEF Contains
        <3>3. CASE j > n
            <4>1. j - 1 \in 1 .. Len(r) /\ r[j - 1] = x
                BY <3>1, <3>3, <2>3, <2>5
            <4> QED  BY <4>1 DEF Contains
        <3>4. j # n  BY <3>1, <2>3, <2>8
        <3> QED  BY <3>2, <3>3, <3>4, <2>3
    <2> QED  BY <2>6, <2>7, <2>8 DEF r
<1> QED  BY <1>1, <1>2

\* Appending a new element keeps a sequence free of repetitions.
LEMMA AppendFresh ==
    ASSUME NEW S, NEW s \in Seq(S), IsInjective(s), NEW e \in S, ~Contains(s, e)
    PROVE  /\ Append(s, e) \in Seq(S) /\ IsInjective(Append(s, e))
           /\ \A x : Contains(Append(s, e), x) <=> Contains(s, x) \/ x = e
<1> DEFINE r == Append(s, e)
<1>1. /\ r \in Seq(S) /\ Len(r) = Len(s) + 1 /\ Len(s) \in Nat
      /\ \A j \in 1 .. Len(s) : r[j] = s[j]
      /\ r[Len(s) + 1] = e
    BY AppendProperties, LenProperties
<1> HIDE DEF r
<1>2. IsInjective(r)
    BY <1>1 DEF IsInjective, Contains
<1>3. ASSUME NEW x PROVE Contains(r, x) <=> Contains(s, x) \/ x = e
    BY <1>1 DEF Contains
<1> QED  BY <1>1, <1>2, <1>3 DEF r

\* Taking the head off a sequence without repetition.
LEMMA TailOfInjective ==
    ASSUME NEW S, NEW s \in Seq(S), IsInjective(s), s # << >>
    PROVE  /\ Head(s) \in S /\ Contains(s, Head(s))
           /\ Tail(s) \in Seq(S) /\ IsInjective(Tail(s))
           /\ \A x : Contains(Tail(s), x) <=> Contains(s, x) /\ x # Head(s)
<1> DEFINE t == Tail(s)
<1>1. /\ Head(s) \in S /\ Head(s) = s[1]
      /\ t \in Seq(S) /\ Len(s) \in Nat /\ Len(s) >= 1 /\ Len(t) = Len(s) - 1
      /\ \A j \in 1 .. Len(t) : t[j] = s[j + 1]
    BY HeadTailProperties, LenProperties, EmptySeq
<1> HIDE DEF t
<1>2. IsInjective(t)
    <2> SUFFICES ASSUME NEW a \in DOMAIN t, NEW b \in DOMAIN t, t[a] = t[b]
                 PROVE  a = b
        BY DEF IsInjective
    <2>1. /\ a \in 1 .. Len(t) /\ b \in 1 .. Len(t)
          /\ a + 1 \in DOMAIN s /\ b + 1 \in DOMAIN s
        BY <1>1
    <2>2. s[a + 1] = s[b + 1]  BY <1>1, <2>1
    <2>3. a + 1 = b + 1  BY <2>1, <2>2 DEF IsInjective
    <2> QED  BY <2>1, <2>3
<1>3. ASSUME NEW x, Contains(t, x) PROVE Contains(s, x) /\ x # Head(s)
    BY <1>1, <1>3 DEF Contains, IsInjective
<1>4. ASSUME NEW x, Contains(s, x), x # Head(s) PROVE Contains(t, x)
    <2>1. PICK j \in 1 .. Len(s) : s[j] = x  BY <1>4 DEF Contains
    <2>2. j - 1 \in 1 .. Len(t) /\ t[j - 1] = x  BY <1>1, <1>4, <2>1
    <2> QED  BY <2>2 DEF Contains
<1>5. Contains(s, Head(s))  BY <1>1 DEF Contains
<1> QED  BY <1>1, <1>2, <1>3, <1>4, <1>5 DEF t

-----------------------------------------------------------------------------
\* The inductive invariant of the kernel state.
KInv(k) == /\ k \in KState
           /\ QueueSound(k) /\ LinkSound(k)
           /\ Covered(k) /\ Unheld(k)

\* kk is a good state that differs from k neither in its current process nor in
\* the slack of a process, and has no new wait link.
Keeps(k, kk) ==
    /\ KInv(kk)
    /\ kk.current = k.current
    /\ \A q \in Proc : Slack(kk, q) = Slack(k, q)
    /\ \A q \in Proc : kk.wait_on[q] \in {k.wait_on[q], None}

\* The same, but the function in progress holds one more reference on p.
Lends(k, kk, p) ==
    /\ KInv(kk)
    /\ kk.current = k.current
    /\ \A q \in Proc : Slack(kk, q) = Slack(k, q) + One(q = p)
    /\ \A q \in Proc : kk.wait_on[q] \in {k.wait_on[q], None}

\* A sequence of functions that each keep the state good keeps it good.
LEMMA KeepsTrans ==
    ASSUME NEW k, NEW k1, NEW k2, Keeps(k, k1), Keeps(k1, k2)
    PROVE  Keeps(k, k2)
  BY DEF Keeps

\* A borrowed reference stays borrowed across functions that keep the state good.
LEMMA LendsTrans ==
    ASSUME NEW k, NEW k1, NEW k2, NEW p \in Proc, Lends(k, k1, p), Keeps(k1, k2)
    PROVE  Lends(k, k2, p)
  BY DEF Keeps, Lends

\* A change of fields that carry no reference, which frees no PCB.
LEMMA SameRefs ==
    ASSUME NEW k, KInv(k), NEW kk \in KState,
           kk.ref = k.ref, kk.reaped = k.reaped, kk.on_queue = k.on_queue,
           kk.wait_on = k.wait_on, kk.rq = k.rq, kk.waiters = k.waiters,
           kk.current = k.current,
           \A q \in Proc : kk.state[q] = "FREE" => k.state[q] = "FREE"
    PROVE  Keeps(k, kk)
<1>1. \A q \in Proc : Held(kk, q) = Held(k, q) /\ Slack(kk, q) = Slack(k, q)
    BY DEF Held, Slack
<1>2. QueueSound(kk) /\ LinkSound(kk)
    BY DEF KInv, QueueSound, LinkSound, Linked
<1>3. Covered(kk) /\ Unheld(kk)
    BY <1>1 DEF KInv, Covered, Unheld
<1> QED  BY <1>1, <1>2, <1>3 DEF Keeps, KInv

\* process_ref() takes a reference.
LEMMA RefLends ==
    ASSUME NEW k, KInv(k), NEW p \in Proc
    PROVE  Lends(k, process_ref(k, p), p)
<1> DEFINE kk == process_ref(k, p)
           R  == [k.ref EXCEPT ![p] = @ + 1]
<1>1. k \in KState /\ k.ref \in [Proc -> Nat]  BY DEF KInv, KState
<1>2. R \in [Proc -> Nat]  BY <1>1
<1>3. kk = [k EXCEPT !.ref = R]  BY <1>1 DEF process_ref
<1>4. kk \in KState
    <2> HIDE DEF R, kk
    <2>1. [k EXCEPT !.ref = R] \in KState  BY <1>1, <1>2, Zenon DEF KState
    <2> QED  BY <2>1, <1>3
<1>5. /\ kk.ref = R /\ kk.state = k.state /\ kk.reaped = k.reaped
      /\ kk.on_queue = k.on_queue /\ kk.wait_on = k.wait_on /\ kk.rq = k.rq
      /\ kk.waiters = k.waiters /\ kk.current = k.current
    BY <1>1, <1>3 DEF KState
<1> HIDE DEF kk
<1>6. \A q \in Proc : Held(kk, q) = Held(k, q)  BY <1>5 DEF Held
<1>7. \A q \in Proc : Slack(kk, q) = Slack(k, q) + One(q = p)
    BY <1>1, <1>5, <1>6 DEF Slack, One, Held
<1>8. QueueSound(kk) /\ LinkSound(kk)
    BY <1>5 DEF KInv, QueueSound, LinkSound, Linked
<1>9. Covered(kk) /\ Unheld(kk)
    BY <1>1, <1>5, <1>6, <1>7 DEF KInv, Covered, Unheld, One, Slack, Held
<1> QED  BY <1>4, <1>5, <1>7, <1>8, <1>9 DEF Lends, KInv, kk

\* process_unref() of a reference that is not accounted for elsewhere: it frees
\* the PCB only when nothing holds it.
LEMMA UnrefReturns ==
    ASSUME NEW k, KInv(k), NEW p \in Proc, Slack(k, p) >= 1
    PROVE  LET kk == process_unref(k, p)
           IN  /\ KInv(kk) /\ kk.current = k.current /\ kk.wait_on = k.wait_on
               /\ \A q \in Proc : Slack(kk, q) = Slack(k, q) - One(q = p)
<1> DEFINE kk == process_unref(k, p)
           R  == [k.ref EXCEPT ![p] = @ - 1]
           S  == [k.state EXCEPT ![p] = IF k.ref[p] = 1 THEN "FREE" ELSE @]
<1>1. k \in KState /\ k.ref \in [Proc -> Nat] /\ k.state \in [Proc -> PState]
    BY DEF KInv, KState
<1>0. \A q \in Proc : Held(k, q) \in Nat  BY DEF Held, One
<1>2. R \in [Proc -> Nat] /\ k.ref[p] >= 1 + Held(k, p)
    BY <1>0, <1>1 DEF Slack
<1>3. S \in [Proc -> PState]  BY <1>1 DEF PState
<1>4. kk = [k EXCEPT !.ref = R, !.state = S]  BY <1>1 DEF process_unref
<1>5. kk \in KState
    <2> HIDE DEF R, S, kk
    <2>1. [k EXCEPT !.ref = R, !.state = S] \in KState
        BY <1>1, <1>2, <1>3, Zenon DEF KState
    <2> QED  BY <2>1, <1>4
<1>6. /\ kk.ref = R /\ kk.state = S /\ kk.reaped = k.reaped
      /\ kk.on_queue = k.on_queue /\ kk.wait_on = k.wait_on /\ kk.rq = k.rq
      /\ kk.waiters = k.waiters /\ kk.current = k.current
    BY <1>1, <1>4 DEF KState
<1> HIDE DEF kk
<1>7. \A q \in Proc : Held(kk, q) = Held(k, q)  BY <1>6 DEF Held
<1>8. \A q \in Proc : Slack(kk, q) = Slack(k, q) - One(q = p)
    BY <1>0, <1>1, <1>2, <1>6, <1>7 DEF Slack, One
<1>9. QueueSound(kk) /\ LinkSound(kk)
    BY <1>6 DEF KInv, QueueSound, LinkSound, Linked
<1>10. Covered(kk)
    <2>1. \A q \in Proc : Slack(k, q) \in Int  BY <1>0, <1>1 DEF Slack
    <2> QED  BY <1>8, <2>1 DEF KInv, Covered, One
<1>11. Unheld(kk)
    BY <1>0, <1>1, <1>2, <1>6, <1>7 DEF KInv, Unheld
<1> QED  BY <1>5, <1>6, <1>8, <1>9, <1>10, <1>11 DEF KInv, kk

\* Slack counts references.
LEMMA SlackNat ==
    ASSUME NEW k, KInv(k), NEW p \in Proc
    PROVE  Slack(k, p) \in Nat
<1>1. Held(k, p) \in Nat /\ k.ref[p] \in Nat
    BY DEF KInv, KState, Held, One
<1> QED  BY <1>1 DEF KInv, Covered, Slack

\* The borrower of a reference may return it.
LEMMA LentSlack ==
    ASSUME NEW k, KInv(k), NEW kk, NEW p \in Proc, Lends(k, kk, p)
    PROVE  KInv(kk) /\ Slack(kk, p) >= 1 /\ kk.current = k.current
  BY SlackNat DEF Lends, One

\* A function that takes and returns one reference keeps the state good.
LEMMA LoanReturned ==
    ASSUME NEW k, KInv(k), NEW kk, NEW p \in Proc, Lends(k, kk, p)
    PROVE  Keeps(k, process_unref(kk, p))
<1>1. Slack(k, p) \in Int /\ Slack(k, p) >= 0
    BY DEF KInv, Covered, KState, Slack, Held, One
<1>2. KInv(kk) /\ Slack(kk, p) >= 1  BY <1>1 DEF Lends, One
<1>3. \A q \in Proc : Slack(k, q) \in Int
    BY DEF KInv, KState, Slack, Held, One
<1> QED  BY <1>2, <1>3, UnrefReturns DEF Lends, Keeps, One

-----------------------------------------------------------------------------
\* Changing the state of a process to anything but FREE keeps the state good.
LEMMA SetStateKeeps ==
    ASSUME NEW k, KInv(k), NEW p \in Proc, NEW x \in PState \ {"FREE"}
    PROVE  Keeps(k, [k EXCEPT !.state[p] = x])
<1> DEFINE kk == [k EXCEPT !.state[p] = x]
           S  == [k.state EXCEPT ![p] = x]
<1>1. k \in KState /\ k.state \in [Proc -> PState]  BY DEF KInv, KState
<1>2. S \in [Proc -> PState]  BY <1>1
<1>3. kk = [k EXCEPT !.state = S]  BY <1>1
<1>4. kk \in KState
    <2> HIDE DEF S, kk
    <2>1. [k EXCEPT !.state = S] \in KState  BY <1>1, <1>2, Zenon DEF KState
    <2> QED  BY <2>1, <1>3
<1>5. /\ kk.ref = k.ref /\ kk.state = S /\ kk.reaped = k.reaped
      /\ kk.on_queue = k.on_queue /\ kk.wait_on = k.wait_on /\ kk.rq = k.rq
      /\ kk.waiters = k.waiters /\ kk.current = k.current
    BY <1>1, <1>3 DEF KState
<1>6. \A q \in Proc : kk.state[q] = "FREE" => k.state[q] = "FREE"
    BY <1>1, <1>5
<1> QED  BY Zenon, <1>4, <1>5, <1>6, SameRefs

\* A function that does nothing keeps the state good.
LEMMA KeepsRefl ==
    ASSUME NEW k, KInv(k)
    PROVE  Keeps(k, k)
  BY DEF Keeps

\* process_set_ready().
LEMMA SetReadyKeeps ==
    ASSUME NEW k, KInv(k), NEW p \in Proc
    PROVE  Keeps(k, process_set_ready(k, p))
  BY SetStateKeeps, KeepsRefl DEF process_set_ready, PState

\* scheduler_add_process(): the reference it takes belongs to the ready queue.
LEMMA AddKeeps ==
    ASSUME NEW k, KInv(k), NEW p \in Proc
    PROVE  Keeps(k, scheduler_add_process(k, p))
<1>1. CASE Dead(k, p) \/ k.on_queue[p]
    BY <1>1, KeepsRefl DEF scheduler_add_process
<1>2. CASE ~(Dead(k, p) \/ k.on_queue[p])
    <2> DEFINE kk == scheduler_add_process(k, p)
               R  == [k.ref EXCEPT ![p] = @ + 1]
               S  == [k.state EXCEPT ![p] = "READY"]
               O  == [k.on_queue EXCEPT ![p] = TRUE]
               Q  == Append(k.rq, p)
    <2>1. /\ k \in KState /\ k.ref \in [Proc -> Nat] /\ k.rq \in Seq(Proc)
          /\ k.state \in [Proc -> PState] /\ k.on_queue \in [Proc -> BOOLEAN]
        BY DEF KInv, KState
    <2>2. ~k.on_queue[p] /\ k.state[p] # "FREE" /\ ~Dead(k, p)
        BY <1>2 DEF Dead
    <2>3. /\ R \in [Proc -> Nat] /\ S \in [Proc -> PState]
          /\ O \in [Proc -> BOOLEAN]
        BY <2>1 DEF PState
    <2>4. /\ Q \in Seq(Proc) /\ IsInjective(Q)
          /\ \A x : Contains(Q, x) <=> Contains(k.rq, x) \/ x = p
        BY <2>1, <2>2, AppendFresh DEF KInv, QueueSound
    <2>5. kk = [k EXCEPT !.ref = R, !.state = S, !.on_queue = O, !.rq = Q]
        <3>1. process_ref(k, p) = [k EXCEPT !.ref = R]  BY <2>1 DEF process_ref
        <3>2. ~Dead(process_ref(k, p), p)  BY <2>1, <2>2, <3>1 DEF Dead, KState
        <3>3. process_set_ready(process_ref(k, p), p)
                = [k EXCEPT !.ref = R, !.state = S]
            BY <2>1, <3>1, <3>2 DEF process_set_ready, KState
        <3> QED  BY <1>2, <2>1, <3>3 DEF scheduler_add_process, KState
    <2>6. kk \in KState
        <3> HIDE DEF R, S, O, Q, kk
        <3>1. [k EXCEPT !.ref = R, !.state = S, !.on_queue = O, !.rq = Q] \in KState
            BY <2>1, <2>3, <2>4, Zenon DEF KState
        <3> QED  BY <3>1, <2>5
    <2>7. /\ kk.ref = R /\ kk.state = S /\ kk.reaped = k.reaped
          /\ kk.on_queue = O /\ kk.wait_on = k.wait_on /\ kk.rq = Q
          /\ kk.waiters = k.waiters /\ kk.current = k.current
        BY <2>1, <2>5 DEF KState
    <2> HIDE DEF kk, Q
    <2>8. \A q \in Proc : Held(kk, q) = Held(k, q) + One(q = p)
        BY <2>1, <2>2, <2>7 DEF Held, One
    <2>9. \A q \in Proc : Held(k, q) \in Nat  BY DEF Held, One
    <2>10. ASSUME NEW q \in Proc PROVE Slack(kk, q) = Slack(k, q)
        <3>1. k.ref[q] \in Nat /\ kk.ref[q] = k.ref[q] + One(q = p)
            BY <2>1, <2>7 DEF One
        <3> QED  BY <2>8, <2>9, <3>1 DEF Slack, One
    <2>11. QueueSound(kk) /\ LinkSound(kk)
        BY <2>1, <2>4, <2>7 DEF KInv, QueueSound, LinkSound, Linked
    <2>12. Covered(kk)  BY <2>10 DEF KInv, Covered
    <2>13. Unheld(kk)
        BY <2>1, <2>2, <2>7, <2>8, <2>9 DEF KInv, Unheld, One
    <2> QED  BY <2>6, <2>7, <2>10, <2>11, <2>12, <2>13 DEF Keeps, KInv, kk
<1> QED  BY <1>1, <1>2

\* scheduler_remove_process(): the queue's reference is dropped with the entry.
LEMMA RemoveKeeps ==
    ASSUME NEW k, KInv(k), NEW p \in Proc
    PROVE  Keeps(k, scheduler_remove_process(k, p))
<1>1. CASE ~k.on_queue[p]
    BY <1>1, KeepsRefl DEF scheduler_remove_process
<1>2. CASE k.on_queue[p]
    <2> DEFINE O  == [k.on_queue EXCEPT ![p] = FALSE]
               Q  == RemoveFirst(k.rq, p)
               kk == [k EXCEPT !.on_queue = O, !.rq = Q]
    <2>1. /\ k \in KState /\ k.rq \in Seq(Proc) /\ k.ref \in [Proc -> Nat]
          /\ k.on_queue \in [Proc -> BOOLEAN]
        BY DEF KInv, KState
    <2>2. O \in [Proc -> BOOLEAN]  BY <2>1
    <2>3. /\ Q \in Seq(Proc) /\ IsInjective(Q)
          /\ \A x : Contains(Q, x) <=> Contains(k.rq, x) /\ x # p
        BY <2>1, RemoveFirstType, RemoveFirstInjective DEF KInv, QueueSound
    <2>4. scheduler_remove_process(k, p) = process_unref(kk, p)
        BY <1>2, <2>1 DEF scheduler_remove_process
    <2>5. kk \in KState
        <3> HIDE DEF O, Q
        <3> QED  BY <2>1, <2>2, <2>3, Zenon DEF KState
    <2>6. /\ kk.ref = k.ref /\ kk.state = k.state /\ kk.reaped = k.reaped
          /\ kk.on_queue = O /\ kk.wait_on = k.wait_on /\ kk.rq = Q
          /\ kk.waiters = k.waiters /\ kk.current = k.current
        BY <2>1 DEF KState
    <2> HIDE DEF kk, Q
    <2>7. \A q \in Proc : Held(kk, q) = Held(k, q) - One(q = p)
        BY <1>2, <2>1, <2>6 DEF Held, One
    <2>8. \A q \in Proc : Held(k, q) \in Nat /\ Held(kk, q) \in Nat
        BY DEF Held, One
    <2>9. ASSUME NEW q \in Proc PROVE Slack(kk, q) = Slack(k, q) + One(q = p)
        BY <2>1, <2>6, <2>7, <2>8 DEF Slack, One
    <2>10. QueueSound(kk) /\ LinkSound(kk)
        BY <2>1, <2>3, <2>6 DEF KInv, QueueSound, LinkSound, Linked
    <2>11. Covered(kk) /\ Unheld(kk)
        <3>1. \A q \in Proc : Slack(k, q) \in Int  BY <2>1, <2>8 DEF Slack
        <3> QED  BY <2>6, <2>7, <2>8, <2>9, <3>1 DEF KInv, Covered, Unheld, One
    <2>12. Lends(k, kk, p)
        BY <2>5, <2>6, <2>9, <2>10, <2>11 DEF Lends, KInv
    <2> QED  BY <2>4, <2>12, LoanReturned
<1> QED  BY <1>1, <1>2

\* scheduler_pick_next() hands the queue's reference on its head to the caller.
LEMMA PickLends ==
    ASSUME NEW k, KInv(k), k.rq # << >>
    PROVE  /\ PickedNext(k) \in Proc
           /\ Lends(k, scheduler_pick_next(k), PickedNext(k))
<1> DEFINE p  == Head(k.rq)
           O  == [k.on_queue EXCEPT ![p] = FALSE]
           Q  == Tail(k.rq)
           kk == [k EXCEPT !.on_queue = O, !.rq = Q]
<1>1. /\ k \in KState /\ k.rq \in Seq(Proc) /\ k.ref \in [Proc -> Nat]
      /\ k.on_queue \in [Proc -> BOOLEAN]
    BY DEF KInv, KState
<1>2. /\ p \in Proc /\ Contains(k.rq, p)
      /\ Q \in Seq(Proc) /\ IsInjective(Q)
      /\ \A x : Contains(Q, x) <=> Contains(k.rq, x) /\ x # p
    BY <1>1, TailOfInjective DEF KInv, QueueSound
<1> HIDE DEF p, Q
<1>3. O \in [Proc -> BOOLEAN] /\ k.on_queue[p]
    BY <1>1, <1>2 DEF KInv, QueueSound
<1>4. PickedNext(k) = p /\ scheduler_pick_next(k) = kk
    BY <1>1 DEF PickedNext, scheduler_pick_next, p, Q
<1>5. kk \in KState
    <2> HIDE DEF O
    <2> QED  BY <1>1, <1>2, <1>3, Zenon DEF KState
<1>6. /\ kk.ref = k.ref /\ kk.state = k.state /\ kk.reaped = k.reaped
      /\ kk.on_queue = O /\ kk.wait_on = k.wait_on /\ kk.rq = Q
      /\ kk.waiters = k.waiters /\ kk.current = k.current
    BY <1>1 DEF KState
<1> HIDE DEF kk
<1>7. \A q \in Proc : Held(kk, q) = Held(k, q) - One(q = p)
    BY <1>1, <1>2, <1>3, <1>6 DEF Held, One
<1>8. \A q \in Proc : Held(k, q) \in Nat /\ Held(kk, q) \in Nat
    BY DEF Held, One
<1>9. ASSUME NEW q \in Proc PROVE Slack(kk, q) = Slack(k, q) + One(q = p)
    BY <1>1, <1>6, <1>7, <1>8 DEF Slack, One
<1>10. QueueSound(kk) /\ LinkSound(kk)
    BY <1>1, <1>2, <1>6 DEF KInv, QueueSound, LinkSound, Linked
<1>11. Covered(kk) /\ Unheld(kk)
    <2>1. \A q \in Proc : Slack(k, q) \in Int  BY <1>1, <1>8 DEF Slack
    <2> QED  BY <1>6, <1>7, <1>8, <1>9, <2>1 DEF KInv, Covered, Unheld, One
<1>12. Lends(k, kk, p)
    BY <1>5, <1>6, <1>9, <1>10, <1>11 DEF Lends, KInv
<1> QED  BY <1>2, <1>4, <1>12

\* process_set_current(n) spends the reference the caller holds on n, and makes
\* that of the outgoing process available.
LEMMA SetCurrent ==
    ASSUME NEW k, KInv(k), NEW n \in Proc \cup {Idle},
           n \in Proc /\ n # k.current => Slack(k, n) >= 1
    PROVE  LET kk == process_set_current(k, n)
           IN  /\ KInv(kk) /\ kk.current = n /\ kk.wait_on = k.wait_on
               /\ \A q \in Proc : Slack(kk, q)
                       = Slack(k, q) + One(q = k.current) - One(q = n)
<1> DEFINE kk == process_set_current(k, n)
           S  == IF n \in Proc THEN [k.state EXCEPT ![n] = "RUNNING"] ELSE k.state
<1>1. /\ k \in KState /\ k.ref \in [Proc -> Nat] /\ k.state \in [Proc -> PState]
      /\ k.current \in Proc \cup {Idle}
    BY DEF KInv, KState
<1>2. S \in [Proc -> PState]  BY <1>1 DEF PState
<1>3. kk = [k EXCEPT !.current = n, !.state = S]
    BY Zenon, <1>1 DEF process_set_current, KState
<1>4. kk \in KState
    <2> HIDE DEF S, kk
    <2>1. [k EXCEPT !.current = n, !.state = S] \in KState
        BY <1>1, <1>2, Zenon DEF KState
    <2> QED  BY <2>1, <1>3
<1>5. /\ kk.ref = k.ref /\ kk.state = S /\ kk.reaped = k.reaped
      /\ kk.on_queue = k.on_queue /\ kk.wait_on = k.wait_on /\ kk.rq = k.rq
      /\ kk.waiters = k.waiters /\ kk.current = n
    BY <1>1, <1>3 DEF KState
<1> HIDE DEF kk
<1>6. \A q \in Proc : Held(k, q) \in Nat /\ Held(kk, q) \in Nat
    BY DEF Held, One
<1>7. ASSUME NEW q \in Proc
      PROVE  Held(kk, q) = Held(k, q) - One(q = k.current) + One(q = n)
    BY <1>5 DEF Held, One
<1>8. ASSUME NEW q \in Proc
      PROVE  Slack(kk, q) = Slack(k, q) + One(q = k.current) - One(q = n)
    BY <1>1, <1>5, <1>6, <1>7 DEF Slack, One
<1>9. QueueSound(kk) /\ LinkSound(kk)
    BY <1>5 DEF KInv, QueueSound, LinkSound, Linked
<1>10. Covered(kk)
    <2>1. \A q \in Proc : Slack(k, q) \in Int  BY <1>1, <1>6 DEF Slack
    <2> QED  BY <1>8, <2>1 DEF KInv, Covered, One
<1>11. Unheld(kk)
    <2> SUFFICES ASSUME NEW q \in Proc, kk.state[q] = "FREE" PROVE Held(kk, q) = 0
        BY DEF Unheld
    <2>1. q # n /\ k.state[q] = "FREE"  BY <1>1, <1>5
    <2>2. Held(k, q) = 0  BY <2>1 DEF KInv, Unheld
    <2> QED  BY <1>6, <1>7, <2>1, <2>2 DEF One
<1> QED  BY <1>4, <1>5, <1>8, <1>9, <1>10, <1>11 DEF KInv, kk

\* switch_away() from the current process p spends one reference on n.
LEMMA SwitchAway ==
    ASSUME NEW k, KInv(k), NEW p \in Proc, k.current = p,
           NEW n \in Proc \cup {Idle}, n \in Proc => Slack(k, n) >= 1
    PROVE  LET kk == switch_away(k, p, n)
           IN  KInv(kk) /\ kk.wait_on = k.wait_on
<1> DEFINE k1 == process_set_current(k, n)
<1>1. /\ KInv(k1) /\ k1.wait_on = k.wait_on
      /\ \A q \in Proc : Slack(k1, q) = Slack(k, q) + One(q = p) - One(q = n)
    BY SetCurrent
<1>2. Slack(k, p) \in Int /\ Slack(k, p) >= 0
    BY DEF KInv, Covered, KState, Slack, Held, One
<1>3. Slack(k1, p) >= 1
    BY <1>1, <1>2 DEF One
<1> HIDE DEF k1
<1> QED  BY <1>1, <1>3, UnrefReturns DEF switch_away, k1

\* scheduler_pick_next() and the switch to its choice.
LEMMA PickAndSwitch ==
    ASSUME NEW k, KInv(k), NEW p \in Proc, k.current = p
    PROVE  LET kk == switch_away(scheduler_pick_next(k), p, PickedNext(k))
           IN  KInv(kk) /\ \A q \in Proc : kk.wait_on[q] \in {k.wait_on[q], None}
<1>1. CASE k.rq = << >>
    BY <1>1, SwitchAway, ConstantsAssumption DEF scheduler_pick_next, PickedNext
<1>2. CASE k.rq # << >>
    <2> DEFINE k1 == scheduler_pick_next(k)
               n  == PickedNext(k)
    <2>1. n \in Proc /\ Lends(k, k1, n)  BY <1>2, PickLends
    <2>2. Slack(k, n) \in Int /\ Slack(k, n) >= 0
        BY <2>1 DEF KInv, Covered, KState, Slack, Held, One
    <2> HIDE DEF k1, n
    <2>3. KInv(k1) /\ k1.current = p /\ Slack(k1, n) >= 1
        BY <2>1, <2>2 DEF Lends, One
    <2>4. /\ KInv(switch_away(k1, p, n))
          /\ switch_away(k1, p, n).wait_on = k1.wait_on
        BY <2>1, <2>3, SwitchAway
    <2> QED  BY <2>1, <2>4 DEF Lends, k1, n
<1> QED  BY <1>1, <1>2

-----------------------------------------------------------------------------
\* wo_unlink() of a linked waiter hands its wait object's reference to the caller.
LEMMA UnlinkLends ==
    ASSUME NEW k, KInv(k), NEW p \in Proc, NEW w \in WaitObj, k.wait_on[p] = w
    PROVE  Lends(k, wo_unlink(k, w, p), p) /\ wo_unlink(k, w, p).wait_on[p] = None
<1> DEFINE kk == wo_unlink(k, w, p)
           s  == k.waiters[w]
           t  == RemoveFirst(s, p)
           W  == [k.waiters EXCEPT ![w] = t]
           A  == [k.wait_on EXCEPT ![p] = None]
<1>1. /\ k \in KState /\ k.ref \in [Proc -> Nat]
      /\ k.waiters \in [WaitObj -> Seq(Proc)] /\ s \in Seq(Proc)
      /\ k.wait_on \in [Proc -> WaitObj \cup {None}] /\ w # None
    BY Zenon, ConstantsAssumption DEF KInv, KState, WaitObj
<1>2. IsInjective(s) /\ Contains(s, p)
    BY DEF KInv, LinkSound, Linked
<1> HIDE DEF s
<1>3. /\ t \in Seq(Proc) /\ IsInjective(t)
      /\ \A x \in Proc : Contains(t, x) <=> Contains(s, x) /\ x # p
    BY <1>1, <1>2, RemoveFirstType, RemoveFirstInjective
<1> HIDE DEF t
<1>4. W \in [WaitObj -> Seq(Proc)] /\ A \in [Proc -> WaitObj \cup {None}]
    BY <1>1, <1>3
<1>5. kk = [k EXCEPT !.waiters = W, !.wait_on = A]
    BY <1>1 DEF wo_unlink, s, t
<1>6. kk \in KState
    <2> HIDE DEF W, A, kk
    <2>1. [k EXCEPT !.waiters = W, !.wait_on = A] \in KState
        BY <1>1, <1>4, Zenon DEF KState
    <2> QED  BY <2>1, <1>5
<1>7. /\ kk.ref = k.ref /\ kk.state = k.state /\ kk.reaped = k.reaped
      /\ kk.on_queue = k.on_queue /\ kk.wait_on = A /\ kk.rq = k.rq
      /\ kk.waiters = W /\ kk.current = k.current
    BY <1>1, <1>5 DEF KState
<1> HIDE DEF kk
<1>8. \A q \in Proc : Held(k, q) \in Nat /\ Held(kk, q) \in Nat
    BY DEF Held, One
<1>9. ASSUME NEW q \in Proc PROVE Held(kk, q) = Held(k, q) - One(q = p)
    BY <1>1, <1>7 DEF Held, One
<1>10. ASSUME NEW q \in Proc PROVE Slack(kk, q) = Slack(k, q) + One(q = p)
    BY <1>1, <1>7, <1>8, <1>9 DEF Slack, One
<1>11. QueueSound(kk)  BY <1>7 DEF KInv, QueueSound
<1>12. LinkSound(kk)
    <2>1. ASSUME NEW v \in WaitObj PROVE IsInjective(kk.waiters[v])
        BY <1>1, <1>3, <1>7 DEF KInv, LinkSound
    <2>2. ASSUME NEW v \in WaitObj, NEW q \in Proc
          PROVE  Linked(kk, v, q) <=> kk.wait_on[q] = v
        <3>1. v # None  BY ConstantsAssumption DEF WaitObj
        <3>2. Linked(k, v, q) <=> k.wait_on[q] = v  BY DEF KInv, LinkSound
        <3>3. CASE v = w
            BY <1>1, <1>3, <1>7, <3>1, <3>2, <3>3 DEF Linked, s
        <3>4. CASE v # w
            BY <1>1, <1>7, <3>1, <3>2, <3>4 DEF Linked
        <3> QED  BY <3>3, <3>4
    <2> QED  BY <2>1, <2>2 DEF LinkSound
<1>13. Covered(kk) /\ Unheld(kk)
    <2>1. \A q \in Proc : Slack(k, q) \in Int  BY <1>1, <1>8 DEF Slack
    <2> QED  BY <1>7, <1>8, <1>9, <1>10, <2>1 DEF KInv, Covered, Unheld, One
<1>14. Lends(k, kk, p)
    BY <1>1, <1>6, <1>7, <1>10, <1>11, <1>12, <1>13 DEF Lends, KInv
<1> QED  BY <1>1, <1>7, <1>14 DEF kk

\* wait_object_abort() drops the reference of the object it unlinks from.
LEMMA AbortKeeps ==
    ASSUME NEW k, KInv(k), NEW p \in Proc, NEW w \in WaitObj
    PROVE  /\ Keeps(k, wait_object_abort(k, w, p))
           /\ k.wait_on[p] = w => wait_object_abort(k, w, p).wait_on[p] = None
<1>1. Linked(k, w, p) <=> k.wait_on[p] = w  BY DEF KInv, LinkSound
<1>2. CASE k.wait_on[p] = w
    <2> DEFINE k1 == wo_unlink(k, w, p)
    <2>1. Lends(k, k1, p) /\ k1.wait_on[p] = None  BY <1>2, UnlinkLends
    <2>2. wait_object_abort(k, w, p) = process_unref(k1, p)
        BY <1>1, <1>2 DEF wait_object_abort
    <2> HIDE DEF k1
    <2>3. Slack(k1, p) >= 1 /\ KInv(k1)  BY <2>1, LentSlack
    <2>4. process_unref(k1, p).wait_on = k1.wait_on  BY <2>3, UnrefReturns
    <2> QED  BY <2>1, <2>2, <2>4, LoanReturned
<1>3. CASE k.wait_on[p] # w
    BY <1>1, <1>3, KeepsRefl DEF wait_object_abort
<1> QED  BY <1>2, <1>3

\* The kill paths' guarded abort.
LEMMA AbortIfBlockedKeeps ==
    ASSUME NEW k, KInv(k), NEW p \in Proc
    PROVE  Keeps(k, abort_if_blocked(k, p))
<1>1. k.wait_on[p] \in WaitObj \cup {None}  BY DEF KInv, KState
<1> QED  BY <1>1, AbortKeeps, KeepsRefl DEF abort_if_blocked

\* The sleep list holds no reference: changing it and the deadlines is harmless.
LEMMA SleepFieldsKeep ==
    ASSUME NEW k, KInv(k), NEW L \in Seq(Proc), NEW D \in [Proc -> Nat]
    PROVE  /\ Keeps(k, [k EXCEPT !.sleepers = L])
           /\ Keeps(k, [k EXCEPT !.deadline = D])
           /\ Keeps(k, [k EXCEPT !.sleepers = L, !.deadline = D])
<1>1. k \in KState  BY DEF KInv
<1>2. /\ [k EXCEPT !.sleepers = L] \in KState /\ [k EXCEPT !.deadline = D] \in KState
      /\ [k EXCEPT !.sleepers = L, !.deadline = D] \in KState
    BY <1>1, Zenon DEF KState
<1>3. Keeps(k, [k EXCEPT !.sleepers = L])  BY Zenon, <1>1, <1>2, SameRefs DEF KState
<1>4. Keeps(k, [k EXCEPT !.deadline = D])  BY Zenon, <1>1, <1>2, SameRefs DEF KState
<1>5. Keeps(k, [k EXCEPT !.sleepers = L, !.deadline = D])
    BY ZenonT(40), <1>1, <1>2, SameRefs DEF KState
<1> QED  BY <1>3, <1>4, <1>5

\* sleep_list_remove(), and with it the reset of wake_deadline.
LEMMA SleepRemoveKeeps ==
    ASSUME NEW k, KInv(k), NEW p \in Proc
    PROVE  /\ Keeps(k, sleep_list_remove(k, p))
           /\ Keeps(k, [sleep_list_remove(k, p) EXCEPT !.deadline[p] = 0])
<1> DEFINE L == RemoveFirst(k.sleepers, p)
           D == [k.deadline EXCEPT ![p] = 0]
<1>1. /\ k \in KState /\ k.sleepers \in Seq(Proc) /\ k.deadline \in [Proc -> Nat]
    BY DEF KInv, KState
<1>2. L \in Seq(Proc) /\ D \in [Proc -> Nat]  BY <1>1, RemoveFirstType
<1>3. /\ sleep_list_remove(k, p) = [k EXCEPT !.sleepers = L]
      /\ [sleep_list_remove(k, p) EXCEPT !.deadline[p] = 0]
           = [k EXCEPT !.sleepers = L, !.deadline = D]
    BY <1>1 DEF sleep_list_remove, KState
<1> HIDE DEF L, D
<1>4. /\ Keeps(k, [k EXCEPT !.sleepers = L])
      /\ Keeps(k, [k EXCEPT !.sleepers = L, !.deadline = D])
    BY Zenon, <1>2, SleepFieldsKeep
<1> QED  BY <1>3, <1>4, Zenon

-----------------------------------------------------------------------------
(***************************************************************************)
(* The compound functions: waking, blocking, creating, terminating,        *)
(* reaping and switching.  Each lemma composes those above in the order of *)
(* the calls the C function makes.                                         *)
(***************************************************************************)
\* kk is a good state with no new wait link: all that a system call may assume
\* of the state another one leaves behind.
Quiet(k, kk) ==
    /\ KInv(kk)
    /\ \A q \in Proc : kk.wait_on[q] \in {k.wait_on[q], None}

\* What keeps the state good adds no wait link.
LEMMA KeepsQuiet ==
    ASSUME NEW k, NEW kk, Keeps(k, kk)
    PROVE  Quiet(k, kk)
  BY DEF Keeps, Quiet

\* A last step that only leaves a good state may follow ones that keep it.
LEMMA QuietAfterKeeps ==
    ASSUME NEW k, NEW k1, NEW k2, Keeps(k, k1), Quiet(k1, k2)
    PROVE  Quiet(k, k2)
  BY DEF Keeps, Quiet

-----------------------------------------------------------------------------
\* One turn of the waker's loop: the popped waiter is readied if BLOCKED, and
\* the reference of the wait object is dropped.
LEMMA WakePoppedKeeps ==
    ASSUME NEW k, KInv(k), NEW p \in Proc, NEW w \in WaitObj, k.wait_on[p] = w
    PROVE  Keeps(k, wake_popped(k, w, p))
<1> DEFINE k1 == wo_unlink(k, w, p)
           k2 == [sleep_list_remove(k1, p) EXCEPT !.deadline[p] = 0]
           k3 == process_set_ready(k2, p)
           k4 == scheduler_add_process(k3, p)
<1>1. Lends(k, k1, p)  BY UnlinkLends
<1>2. wake_popped(k, w, p)
        = process_unref(IF k.state[p] = "BLOCKED" THEN k4 ELSE k1, p)
    BY DEF wake_popped
<1> HIDE DEF k1
<1>3. KInv(k1)  BY <1>1 DEF Lends
<1>4. Keeps(k1, k2)  BY Zenon, <1>3, SleepRemoveKeeps
<1> HIDE DEF k2
<1>5. KInv(k2)  BY <1>4 DEF Keeps
<1>6. Keeps(k2, k3)  BY <1>5, SetReadyKeeps
<1> HIDE DEF k3
<1>7. KInv(k3)  BY <1>6 DEF Keeps
<1>8. Keeps(k3, k4)  BY <1>7, AddKeeps
<1> HIDE DEF k4
<1>9. Lends(k, k4, p)  BY <1>1, <1>4, <1>6, <1>8, KeepsTrans, LendsTrans
<1> QED  BY <1>1, <1>2, <1>9, LoanReturned

\* Waking a child_wait queue.
LEMMA WakeChildKeeps ==
    ASSUME NEW k, KInv(k), NEW q \in Proc
    PROVE  Keeps(k, wake_child_wait(k, q))
<1>1. q \in WaitObj  BY DEF WaitObj
<1>2. Linked(k, q, q) => k.wait_on[q] = q  BY <1>1 DEF KInv, LinkSound
<1> QED  BY <1>1, <1>2, WakePoppedKeeps, KeepsRefl DEF wake_child_wait

\* wo_park_and_cleanup() leaves its caller on no wait object.
LEMMA CleanupKeeps ==
    ASSUME NEW k, KInv(k), NEW p \in Proc, NEW w \in WaitObj
    PROVE  /\ Keeps(k, wait_object_cleanup(k, w, p))
           /\ k.wait_on[p] \in {w, None}
                => wait_object_cleanup(k, w, p).wait_on[p] = None
<1> DEFINE k1 == wait_object_abort(k, w, p)
           k2 == [sleep_list_remove(k1, p) EXCEPT !.deadline[p] = 0]
<1>1. /\ Keeps(k, k1) /\ KInv(k1)
      /\ k.wait_on[p] \in {w, None} => k1.wait_on[p] = None
    BY AbortKeeps DEF Keeps
<1>2. wait_object_cleanup(k, w, p) = k2  BY DEF wait_object_cleanup
<1> HIDE DEF k1
<1>3. Keeps(k1, k2)  BY <1>1, SleepRemoveKeeps
<1> HIDE DEF k2
<1> QED  BY <1>1, <1>2, <1>3, KeepsTrans DEF Keeps

-----------------------------------------------------------------------------
\* Reparenting changes no reference.
LEMMA ReparentKeeps ==
    ASSUME NEW k, KInv(k), NEW c \in Proc
    PROVE  Keeps(k, reparent(k, c))
<1>1. CASE c = InitProc  BY <1>1, KeepsRefl DEF reparent
<1>2. CASE c # InitProc
    <2> DEFINE P == [q \in Proc |-> IF q \in Children(k, c) THEN InitProc
                                    ELSE k.parent[q]]
               N == [q \in Proc |-> k.kin[q] \/ q \in Children(k, c)]
               kk == [k EXCEPT !.parent = P, !.kin = N]
    <2>1. /\ k \in KState /\ k.parent \in [Proc -> Proc \cup {None}]
          /\ k.kin \in [Proc -> BOOLEAN]
        BY DEF KInv, KState
    <2>2. P \in [Proc -> Proc \cup {None}] /\ N \in [Proc -> BOOLEAN]
        BY <2>1, ConstantsAssumption
    <2>3. reparent(k, c) = kk  BY <1>2 DEF reparent
    <2> HIDE DEF P, N
    <2>4. kk \in KState  BY <2>1, <2>2, Zenon DEF KState
    <2>5. Keeps(k, kk)  BY Zenon, <2>1, <2>4, SameRefs DEF KState
    <2> QED  BY <2>3, <2>5
<1> QED  BY <1>1, <1>2

\* process_on_terminate().
LEMMA OnTerminateKeeps ==
    ASSUME NEW k, KInv(k), NEW c \in Proc
    PROVE  Keeps(k, process_on_terminate(k, c))
<1> DEFINE z  == InheritsZombie(k, c)
           k1 == reparent(k, c)
           k2 == wake_parent(k1, c)
           k3 == wake_init(k2, z)
           k4 == wake_child_wait(k3, c)
<1>1. Keeps(k, k1)  BY ReparentKeeps
<1>2. process_on_terminate(k, c) = k4  BY DEF process_on_terminate
<1> HIDE DEF k1
<1>3. KInv(k1)  BY <1>1 DEF Keeps
<1>4. Keeps(k1, k2)
    BY <1>3, WakeChildKeeps, KeepsRefl DEF wake_parent, HasParent
<1> HIDE DEF k2, z
<1>5. KInv(k2)  BY <1>4 DEF Keeps
<1>6. Keeps(k2, k3)
    BY <1>5, WakeChildKeeps, KeepsRefl, ConstantsAssumption DEF wake_init
<1> HIDE DEF k3
<1>7. KInv(k3)  BY <1>6 DEF Keeps
<1>8. Keeps(k3, k4)  BY <1>7, WakeChildKeeps
<1> HIDE DEF k4
<1> QED  BY <1>1, <1>2, <1>4, <1>6, <1>8, KeepsTrans

\* The termination sequence of every kill path.
LEMMA TerminateKeeps ==
    ASSUME NEW k, KInv(k), NEW p \in Proc
    PROVE  Keeps(k, terminate(k, p))
<1> DEFINE k1 == [k EXCEPT !.state[p] = "TERMINATED"]
           k2 == process_on_terminate(k1, p)
           k3 == scheduler_remove_process(k2, p)
<1>1. Keeps(k, k1)  BY SetStateKeeps DEF PState
<1>2. terminate(k, p) = k3  BY DEF terminate
<1> HIDE DEF k1
<1>3. KInv(k1)  BY <1>1 DEF Keeps
<1>4. Keeps(k1, k2)  BY <1>3, OnTerminateKeeps
<1> HIDE DEF k2
<1>5. KInv(k2)  BY <1>4 DEF Keeps
<1>6. Keeps(k2, k3)  BY <1>5, RemoveKeeps
<1> HIDE DEF k3
<1> QED  BY <1>1, <1>2, <1>4, <1>6, KeepsTrans

\* reap_claim_release(): the claimed creation reference is dropped once.
LEMMA ClaimKeeps ==
    ASSUME NEW k, KInv(k), NEW p \in Proc
    PROVE  Keeps(k, reap_claim_release(k, p))
<1>1. CASE k.reaped[p]  BY <1>1, KeepsRefl DEF reap_claim_release
<1>2. CASE ~k.reaped[p]
    <2> DEFINE R  == [k.reaped EXCEPT ![p] = TRUE]
               kk == [k EXCEPT !.reaped[p] = TRUE]
    <2>1. /\ k \in KState /\ k.ref \in [Proc -> Nat]
          /\ k.reaped \in [Proc -> BOOLEAN]
        BY DEF KInv, KState
    <2>2. R \in [Proc -> BOOLEAN]  BY <2>1
    <2>3. kk = [k EXCEPT !.reaped = R]  BY <2>1
    <2>4. kk \in KState
        <3> HIDE DEF R, kk
        <3>1. [k EXCEPT !.reaped = R] \in KState  BY <2>1, <2>2, Zenon DEF KState
        <3> QED  BY <3>1, <2>3
    <2>5. /\ kk.ref = k.ref /\ kk.state = k.state /\ kk.reaped = R
          /\ kk.on_queue = k.on_queue /\ kk.wait_on = k.wait_on /\ kk.rq = k.rq
          /\ kk.waiters = k.waiters /\ kk.current = k.current
        BY <2>1, <2>3 DEF KState
    <2>6. reap_claim_release(k, p) = process_unref(kk, p)
        BY <1>2 DEF reap_claim_release
    <2> HIDE DEF kk
    <2>7. \A q \in Proc : Held(k, q) \in Nat /\ Held(kk, q) \in Nat
        BY DEF Held, One
    <2>8. ASSUME NEW q \in Proc PROVE Held(kk, q) = Held(k, q) - One(q = p)
        BY <1>2, <2>1, <2>5 DEF Held, One
    <2>9. ASSUME NEW q \in Proc PROVE Slack(kk, q) = Slack(k, q) + One(q = p)
        BY <2>1, <2>5, <2>7, <2>8 DEF Slack, One
    <2>10. QueueSound(kk) /\ LinkSound(kk)
        BY <2>5 DEF KInv, QueueSound, LinkSound, Linked
    <2>11. Covered(kk) /\ Unheld(kk)
        <3>1. \A q \in Proc : Slack(k, q) \in Nat  BY SlackNat
        <3> QED  BY <2>5, <2>7, <2>8, <2>9, <3>1 DEF KInv, Covered, Unheld, One
    <2>12. Lends(k, kk, p)
        BY <2>4, <2>5, <2>9, <2>10, <2>11 DEF Lends, KInv
    <2> QED  BY <2>6, <2>12, LoanReturned
<1> QED  BY <1>1, <1>2

\* waitpid()'s reaping of a zombie.
LEMMA ReapKeeps ==
    ASSUME NEW k, KInv(k), NEW c \in Proc
    PROVE  Keeps(k, reap(k, c))
<1> DEFINE k1 == process_ref(k, c)
           k2 == [k1 EXCEPT !.parent[c] = None, !.kin[c] = FALSE]
           k3 == reap_claim_release(k2, c)
           k4 == scheduler_remove_process(k3, c)
<1>1. Lends(k, k1, c)  BY RefLends
<1>2. reap(k, c) = process_unref(k4, c)  BY DEF reap
<1> HIDE DEF k1
<1>3. KInv(k1)  BY <1>1 DEF Lends
<1>4. Keeps(k1, k2)
    <2> DEFINE P == [k1.parent EXCEPT ![c] = None]
               N == [k1.kin EXCEPT ![c] = FALSE]
    <2>1. /\ k1 \in KState /\ k1.parent \in [Proc -> Proc \cup {None}]
          /\ k1.kin \in [Proc -> BOOLEAN]
        BY Zenon, <1>3 DEF KInv, KState
    <2>2. P \in [Proc -> Proc \cup {None}] /\ N \in [Proc -> BOOLEAN]  BY <2>1
    <2>3. k2 = [k1 EXCEPT !.parent = P, !.kin = N]  BY <2>1 DEF KState
    <2> HIDE DEF P, N, k2
    <2>4. [k1 EXCEPT !.parent = P, !.kin = N] \in KState
        BY <2>1, <2>2, Zenon DEF KState
    <2>5. Keeps(k1, [k1 EXCEPT !.parent = P, !.kin = N])
        BY ZenonT(40), <1>3, <2>1, <2>4, SameRefs DEF KState
    <2> QED  BY <2>3, <2>5
<1> HIDE DEF k2
<1>5. KInv(k2)  BY <1>4 DEF Keeps
<1>6. Keeps(k2, k3)  BY <1>5, ClaimKeeps
<1> HIDE DEF k3
<1>7. KInv(k3)  BY <1>6 DEF Keeps
<1>8. Keeps(k3, k4)  BY <1>7, RemoveKeeps
<1> HIDE DEF k4
<1>9. Lends(k, k4, c)  BY <1>1, <1>4, <1>6, <1>8, KeepsTrans, LendsTrans
<1> QED  BY <1>2, <1>9, LoanReturned

-----------------------------------------------------------------------------
\* Linking a process that is on no wait object, with its timer.
LEMMA LinkKeeps ==
    ASSUME NEW k, KInv(k), NEW p \in Proc, NEW w \in WaitObj, NEW d \in Nat,
           k.wait_on[p] = None
    PROVE  LET kk == wait_object_link(k, w, p, d)
           IN  /\ KInv(kk) /\ kk.current = k.current
               /\ kk.wait_on = [k.wait_on EXCEPT ![p] = w]
<1> DEFINE R  == [k.ref EXCEPT ![p] = @ + 1]
           A  == [k.wait_on EXCEPT ![p] = w]
           s  == k.waiters[w]
           W  == [k.waiters EXCEPT ![w] = Append(s, p)]
           S  == [k.state EXCEPT ![p] = "BLOCKED"]
           kk == [process_ref(k, p) EXCEPT !.wait_on[p] = w,
                       !.waiters[w] = Append(@, p), !.state[p] = "BLOCKED"]
<1>1. /\ k \in KState /\ k.ref \in [Proc -> Nat] /\ k.state \in [Proc -> PState]
      /\ k.wait_on \in [Proc -> WaitObj \cup {None}]
      /\ k.waiters \in [WaitObj -> Seq(Proc)] /\ s \in Seq(Proc)
      /\ w # None /\ ~Contains(s, p) /\ IsInjective(s)
    <2>1. w # None  BY ConstantsAssumption DEF WaitObj
    <2>2. IsInjective(s) /\ ~Contains(s, p)  BY <2>1 DEF KInv, LinkSound, Linked
    <2> HIDE DEF s
    <2> QED  BY <2>1, <2>2 DEF KInv, KState, s
<1>2. /\ Append(s, p) \in Seq(Proc) /\ IsInjective(Append(s, p))
      /\ \A x : Contains(Append(s, p), x) <=> Contains(s, x) \/ x = p
    BY <1>1, AppendFresh
<1>3. /\ R \in [Proc -> Nat] /\ A \in [Proc -> WaitObj \cup {None}]
      /\ W \in [WaitObj -> Seq(Proc)] /\ S \in [Proc -> PState]
    BY <1>1, <1>2 DEF PState
<1>4. kk = [k EXCEPT !.ref = R, !.wait_on = A, !.waiters = W, !.state = S]
    BY <1>1 DEF process_ref, KState
<1>5. kk \in KState
    <2> HIDE DEF R, A, W, S, kk
    <2>1. [k EXCEPT !.ref = R, !.wait_on = A, !.waiters = W, !.state = S] \in KState
        BY <1>1, <1>3, Zenon DEF KState
    <2> QED  BY <2>1, <1>4
<1>6. /\ kk.ref = R /\ kk.state = S /\ kk.reaped = k.reaped
      /\ kk.on_queue = k.on_queue /\ kk.wait_on = A /\ kk.rq = k.rq
      /\ kk.waiters = W /\ kk.current = k.current
    BY ZenonT(40), <1>1, <1>4 DEF KState
<1>7. wait_object_link(k, w, p, d) = IF d = 0 THEN kk ELSE sleep_list_push(kk, p, d)
    BY DEF wait_object_link
<1> HIDE DEF kk, s
<1>8. \A q \in Proc : Held(k, q) \in Nat /\ Held(kk, q) \in Nat
    BY DEF Held, One
<1>9. ASSUME NEW q \in Proc PROVE Held(kk, q) = Held(k, q) + One(q = p)
    BY <1>1, <1>6 DEF Held, One
<1>10. ASSUME NEW q \in Proc PROVE Slack(kk, q) = Slack(k, q)
    <2>1. k.ref[q] \in Nat /\ kk.ref[q] = k.ref[q] + One(q = p)
        BY <1>1, <1>6 DEF One
    <2> QED  BY <1>8, <1>9, <2>1 DEF Slack, One
<1>11. QueueSound(kk)  BY <1>6 DEF KInv, QueueSound
<1>12. LinkSound(kk)
    <2>1. ASSUME NEW v \in WaitObj PROVE IsInjective(kk.waiters[v])
        BY <1>1, <1>2, <1>6 DEF KInv, LinkSound
    <2>2. ASSUME NEW v \in WaitObj, NEW q \in Proc
          PROVE  Linked(kk, v, q) <=> kk.wait_on[q] = v
        <3>1. v # None  BY ConstantsAssumption DEF WaitObj
        <3>2. Linked(k, v, q) <=> k.wait_on[q] = v  BY DEF KInv, LinkSound
        <3>3. CASE v = w
            BY <1>1, <1>2, <1>6, <3>1, <3>2, <3>3 DEF Linked, s
        <3>4. CASE v # w
            BY <1>1, <1>6, <3>1, <3>2, <3>4 DEF Linked
        <3> QED  BY <3>3, <3>4
    <2> QED  BY <2>1, <2>2 DEF LinkSound
<1>13. Covered(kk)  BY <1>10 DEF KInv, Covered
<1>14. Unheld(kk)
    <2> SUFFICES ASSUME NEW q \in Proc, kk.state[q] = "FREE" PROVE Held(kk, q) = 0
        BY DEF Unheld
    <2>1. q # p /\ k.state[q] = "FREE"  BY <1>1, <1>6
    <2>2. Held(k, q) = 0  BY <2>1 DEF KInv, Unheld
    <2> QED  BY <1>8, <1>9, <2>1, <2>2 DEF One
<1>15. KInv(kk)  BY <1>5, <1>11, <1>12, <1>13, <1>14 DEF KInv
<1>16. Keeps(kk, sleep_list_push(kk, p, d)) /\ sleep_list_push(kk, p, d).wait_on = A
    <2> DEFINE L == << p >> \o kk.sleepers
               D == [kk.deadline EXCEPT ![p] = d]
    <2>1. kk.sleepers \in Seq(Proc) /\ kk.deadline \in [Proc -> Nat]
        BY <1>5 DEF KState
    <2>2. L \in Seq(Proc) /\ D \in [Proc -> Nat]  BY <2>1
    <2>3. sleep_list_push(kk, p, d) = [kk EXCEPT !.sleepers = L, !.deadline = D]
        BY <1>5 DEF sleep_list_push, KState
    <2> HIDE DEF L, D
    <2>4. Keeps(kk, [kk EXCEPT !.sleepers = L, !.deadline = D])
        BY Zenon, <1>15, <2>2, SleepFieldsKeep
    <2>5. [kk EXCEPT !.sleepers = L, !.deadline = D].wait_on = A
        BY <1>5, <1>6 DEF KState
    <2> QED  BY <2>3, <2>4, <2>5, Zenon
<1> QED  BY <1>6, <1>7, <1>15, <1>16 DEF Keeps

\* process_create() fills a free slot and queues it.
LEMMA CreateQuiet ==
    ASSUME NEW k, KInv(k), NEW p \in Proc, NEW c \in Proc, k.state[c] = "FREE"
    PROVE  Quiet(k, process_create(k, p, c))
<1> DEFINE S  == [k.state EXCEPT ![c] = "READY"]
           R  == [k.ref EXCEPT ![c] = 1]
           B  == [k.reaped EXCEPT ![c] = FALSE]
           O  == [k.on_queue EXCEPT ![c] = FALSE]
           A  == [k.wait_on EXCEPT ![c] = None]
           D  == [k.deadline EXCEPT ![c] = 0]
           P  == [k.parent EXCEPT ![c] = p]
           N  == [q \in Proc |-> IF q = c THEN TRUE ELSE k.kin[q] /\ k.parent[q] # c]
           kk == [k EXCEPT !.state[c] = "READY", !.ref[c] = 1, !.reaped[c] = FALSE,
                    !.on_queue[c] = FALSE, !.wait_on[c] = None, !.deadline[c] = 0,
                    !.parent[c] = p,
                    !.kin = [q \in Proc |-> IF q = c THEN TRUE
                                            ELSE @[q] /\ k.parent[q] # c]]
<1>1. /\ k \in KState /\ k.state \in [Proc -> PState] /\ k.ref \in [Proc -> Nat]
      /\ k.reaped \in [Proc -> BOOLEAN] /\ k.on_queue \in [Proc -> BOOLEAN]
      /\ k.wait_on \in [Proc -> WaitObj \cup {None}]
      /\ k.deadline \in [Proc -> Nat] /\ k.parent \in [Proc -> Proc \cup {None}]
      /\ k.kin \in [Proc -> BOOLEAN]
    BY DEF KInv, KState
<1>2. /\ S \in [Proc -> PState] /\ R \in [Proc -> Nat] /\ B \in [Proc -> BOOLEAN]
      /\ O \in [Proc -> BOOLEAN] /\ A \in [Proc -> WaitObj \cup {None}]
      /\ D \in [Proc -> Nat] /\ P \in [Proc -> Proc \cup {None}]
      /\ N \in [Proc -> BOOLEAN]
    BY Zenon, <1>1 DEF PState
<1>3. kk = [k EXCEPT !.state = S, !.ref = R, !.reaped = B, !.on_queue = O,
                     !.wait_on = A, !.deadline = D, !.parent = P, !.kin = N]
    BY <1>1 DEF KState
<1>4. kk \in KState
    <2> HIDE DEF S, R, B, O, A, D, P, N, kk
    <2>1. [k EXCEPT !.state = S, !.ref = R, !.reaped = B, !.on_queue = O,
              !.wait_on = A, !.deadline = D, !.parent = P, !.kin = N] \in KState
        BY <1>1, <1>2, Zenon DEF KState
    <2> QED  BY <2>1, <1>3
<1>5. /\ kk.ref = R /\ kk.state = S /\ kk.reaped = B /\ kk.on_queue = O
      /\ kk.wait_on = A /\ kk.rq = k.rq /\ kk.waiters = k.waiters
      /\ kk.current = k.current
    BY <1>1, <1>3 DEF KState
<1>6. process_create(k, p, c) = scheduler_add_process(kk, c)
    BY DEF process_create
<1> HIDE DEF kk
<1>7. Held(k, c) = 0  BY DEF KInv, Unheld
<1>8. /\ k.reaped[c] /\ ~k.on_queue[c] /\ k.current # c /\ k.wait_on[c] = None
    BY <1>7 DEF Held, One
<1>9. O = k.on_queue /\ A = k.wait_on  BY ZenonT(40), <1>1, <1>8
<1>10. ASSUME NEW q \in Proc
       PROVE  Slack(kk, q) >= 0 /\ (kk.state[q] = "FREE" => Held(kk, q) = 0)
    <2>1. CASE q = c
        BY <1>1, <1>5, <1>8, <1>9, <2>1 DEF Slack, Held, One
    <2>2. CASE q # c
        <3>1. Held(kk, q) = Held(k, q) /\ kk.ref[q] = k.ref[q]
              /\ kk.state[q] = k.state[q]
            BY <1>1, <1>5, <1>9, <2>2 DEF Held
        <3> QED  BY <3>1 DEF Slack, KInv, Covered, Unheld
    <2> QED  BY <2>1, <2>2
<1>11. QueueSound(kk) /\ LinkSound(kk)
    BY <1>5, <1>9 DEF KInv, QueueSound, LinkSound, Linked
<1>12. KInv(kk)  BY <1>4, <1>10, <1>11 DEF KInv, Covered, Unheld
<1>13. Keeps(kk, scheduler_add_process(kk, c))  BY <1>12, AddKeeps
<1> QED  BY <1>5, <1>6, <1>9, <1>13 DEF Keeps, Quiet

-----------------------------------------------------------------------------
\* Switching from the current process to the head of the queue, or to idle.
LEMMA DeadQuiet ==
    ASSUME NEW k, KInv(k), NEW p \in Proc, k.current = p
    PROVE  Quiet(k, schedule_dead(k, p))
  BY PickAndSwitch DEF Quiet, schedule_dead

\* Requeueing the current process and running the next one, possibly itself.
LEMMA RequeueQuiet ==
    ASSUME NEW k, KInv(k), NEW p \in Proc, k.current = p
    PROVE  LET queued == scheduler_add_process(k, p)
               next   == PickedNext(queued)
               picked == scheduler_pick_next(queued)
           IN  /\ next = p => /\ Quiet(k, process_unref(picked, p))
                              /\ Quiet(k, process_unref(
                                    [picked EXCEPT !.state[p] = "RUNNING"], p))
               /\ Quiet(k, switch_away(picked, p, next))
<1> DEFINE k1   == scheduler_add_process(k, p)
           next == PickedNext(k1)
           k2   == scheduler_pick_next(k1)
           k3   == [k2 EXCEPT !.state[p] = "RUNNING"]
<1>1. Keeps(k, k1) /\ KInv(k1) /\ k1.current = p  BY AddKeeps DEF Keeps
<1> HIDE DEF k1
<1>2. Quiet(k, switch_away(k2, p, next))
    BY <1>1, PickAndSwitch, QuietAfterKeeps DEF Quiet
<1>3. ASSUME next = p
      PROVE  Quiet(k, process_unref(k2, p)) /\ Quiet(k, process_unref(k3, p))
    <2>1. k1.rq # << >>  BY <1>3, ConstantsAssumption DEF PickedNext
    <2>2. Lends(k1, k2, p)  BY <1>1, <1>3, <2>1, PickLends
    <2> HIDE DEF k2
    <2>3. KInv(k2)  BY <2>2 DEF Lends
    <2>4. Keeps(k2, k3)  BY <2>3, SetStateKeeps DEF PState
    <2> HIDE DEF k3
    <2>5. Keeps(k1, process_unref(k2, p)) /\ Keeps(k1, process_unref(k3, p))
        BY <1>1, <2>2, <2>4, LendsTrans, LoanReturned
    <2> QED  BY <1>1, <2>5, KeepsQuiet, QuietAfterKeeps
<1> QED  BY <1>2, <1>3 DEF k1
=============================================================================
