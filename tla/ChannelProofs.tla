--------------------------- MODULE ChannelProofs ---------------------------
(***************************************************************************)
(* Proofs for Channel, for any number of processes, channels, handles and  *)
(* grant slots.  Each function of channel.c is shown to leave the count of *)
(* every channel equal to the number of its users, up to one reference     *)
(* that the function in progress owes (Owing).                             *)
(***************************************************************************)
EXTENDS Channel, FiniteSetTheorems, WellFoundedInduction, TLAPS

\* The handles, grants and staged bindings of a channel: its users.
HeldIn(q, c) == {u \in Proc \X Handle : q.handles[u[1]][u[2]].ch = c}
GrantedIn(q, c) == {i \in Slot : q.grants[i].used /\ q.grants[i].ch = c}
StagedIn(q, c) == {fd \in Fd : q.staged[fd].ch = c}

Users(q, c) ==
    Cardinality(HeldIn(q, c)) + Cardinality(GrantedIn(q, c)) + Cardinality(StagedIn(q, c))

\* Every reference has a user, but for one of channel e that the running
\* function holds (of none when e = NoChan).
Owing(q, e) ==
    /\ q \in KState
    /\ \A c \in Chan : q.ref[c] = Users(q, c) + (IF c = e THEN 1 ELSE 0)
    /\ \A c \in Chan : c \in q.heap <=> q.ref[c] > 0
    /\ \A i \in Slot : q.grants[i].used =>
         q.grants[i].ch \in Chan /\ q.grants[i].from \in Proc /\ q.grants[i].to \in Proc

-----------------------------------------------------------------------------
\* A non-empty set of natural numbers has a least element, Min.
LEMMA LeastOfNat ==
    ASSUME NEW S \in SUBSET Nat, S # {}
    PROVE  Min(S) \in S /\ \A y \in S : Min(S) <= y
<1> DEFINE R == {ss \in Nat \X Nat : ss[1] < ss[2]}
<1>1. IsWellFoundedOn(R, Nat)
    <2>1. OpToRel(<, Nat) = R  BY DEF OpToRel
    <2> QED  BY Zenon, <2>1, NatLessThanWellFounded
<1>2. PICK x \in S : \A y \in S : ~(<< y, x >> \in R)
    <2> HIDE DEF R
    <2> QED  BY Zenon, <1>1, WFMin
<1>3. ASSUME NEW y \in S, y < x PROVE FALSE
    <2>1. << y, x >> \in R  BY <1>3
    <2> QED  BY <1>2, <2>1
<1>4. \A y \in S : x <= y  BY <1>3
<1> QED
    BY Zenon, <1>4 DEF Min

\* The sets of users are finite.
LEMMA UsersFinite ==
    ASSUME NEW q, NEW c
    PROVE  /\ IsFiniteSet(HeldIn(q, c)) /\ Cardinality(HeldIn(q, c)) \in Nat
           /\ IsFiniteSet(GrantedIn(q, c)) /\ Cardinality(GrantedIn(q, c)) \in Nat
           /\ IsFiniteSet(StagedIn(q, c)) /\ Cardinality(StagedIn(q, c)) \in Nat
           /\ Users(q, c) \in Nat
<1> USE ChannelAssumption
<1>1. IsFiniteSet(Handle) /\ IsFiniteSet(Slot) /\ IsFiniteSet(Fd)
    <2>1. 0 \in Int /\ 1 \in Int /\ 2 \in Int /\ MaxHandle \in Int /\ NGrants \in Int
        OBVIOUS
    <2> QED  BY Zenon, <2>1, FS_Interval DEF Handle, Slot, Fd
<1>2. IsFiniteSet(Proc \X Handle)  BY <1>1, FS_Product
<1>3. IsFiniteSet(HeldIn(q, c))  BY <1>2, FS_Subset DEF HeldIn
<1>4. IsFiniteSet(GrantedIn(q, c))  BY <1>1, FS_Subset DEF GrantedIn
<1>5. IsFiniteSet(StagedIn(q, c))  BY <1>1, FS_Subset DEF StagedIn
<1>6. /\ Cardinality(HeldIn(q, c)) \in Nat
      /\ Cardinality(GrantedIn(q, c)) \in Nat
      /\ Cardinality(StagedIn(q, c)) \in Nat
    BY <1>3, <1>4, <1>5, FS_CardinalityType
<1> QED  BY <1>3, <1>4, <1>5, <1>6 DEF Users

\* When nothing is owed, a count is exactly the number of users.
LEMMA ExactRef ==
    ASSUME NEW q, Owing(q, NoChan), NEW c \in Chan
    PROVE  q.ref[c] = Users(q, c)
<1>1. Users(q, c) \in Nat /\ c # NoChan  BY UsersFinite, ChannelAssumption
<1>2. q.ref[c] = Users(q, c) + (IF c = NoChan THEN 1 ELSE 0)  BY Zenon DEF Owing
<1> QED  BY <1>1, <1>2

LEMMA ExactOwing ==
    ASSUME NEW q \in KState,
           \A c \in Chan : q.ref[c] = Users(q, c),
           \A c \in Chan : c \in q.heap <=> q.ref[c] > 0,
           \A i \in Slot : q.grants[i].used =>
              q.grants[i].ch \in Chan /\ q.grants[i].from \in Proc /\ q.grants[i].to \in Proc
    PROVE  Owing(q, NoChan)
<1>1. ASSUME NEW c \in Chan PROVE q.ref[c] = Users(q, c) + (IF c = NoChan THEN 1 ELSE 0)
    <2>1. Users(q, c) \in Nat /\ c # NoChan  BY UsersFinite, ChannelAssumption
    <2> QED  BY <2>1
<1> QED  BY Zenon, <1>1 DEF Owing

\* The users are read off handles, grants and bindings alone.
LEMMA SameUsers ==
    ASSUME NEW q, NEW r, NEW c, r.handles = q.handles, r.grants = q.grants,
           r.staged = q.staged
    PROVE  Users(r, c) = Users(q, c)
  BY DEF Users, HeldIn, GrantedIn, StagedIn

-----------------------------------------------------------------------------
\* channel_unref() settles the reference that is owed, and touches no user.
LEMMA UnrefPays ==
    ASSUME NEW q, NEW e \in Chan \cup {NoChan}, Owing(q, e)
    PROVE  /\ Owing(channel_unref(q, e), NoChan)
           /\ channel_unref(q, e).handles = q.handles
           /\ channel_unref(q, e).grants = q.grants
           /\ channel_unref(q, e).staged = q.staged
           /\ channel_unref(q, e).state = q.state
<1> USE ChannelAssumption
<1>1. CASE e = NoChan  BY <1>1 DEF channel_unref
<1>2. CASE e # NoChan
    <2> DEFINE r == channel_unref(q, e)
    <2>1. r = [q EXCEPT !.ref[e] = IF @ > 0 THEN @ - 1 ELSE 0,
                        !.heap = IF q.ref[e] <= 1 THEN @ \ {e} ELSE @]
        BY <1>2 DEF channel_unref
    <2>2. q \in KState /\ q.ref \in [Chan -> Nat] /\ e \in Chan
        BY <1>2 DEF Owing, KState
    <2>3. /\ r.handles = q.handles /\ r.grants = q.grants
          /\ r.staged = q.staged /\ r.state = q.state
          /\ r.heap = IF q.ref[e] <= 1 THEN q.heap \ {e} ELSE q.heap
          /\ r.ref = [q.ref EXCEPT ![e] = IF @ > 0 THEN @ - 1 ELSE 0]
        BY <2>1, <2>2 DEF KState
    <2>4. r.ref \in [Chan -> Nat]  BY <2>2, <2>3
    <2>5. r \in KState  BY Zenon, <2>1, <2>2, <2>3, <2>4 DEF KState
    <2>6. q.ref[e] = Users(q, e) + 1 /\ Users(q, e) \in Nat
        BY <2>2, UsersFinite DEF Owing
    <2> HIDE DEF r
    <2>7. \A c \in Chan : Users(r, c) = Users(q, c)  BY <2>3, SameUsers
    <2>8. \A c \in Chan : r.ref[c] = Users(r, c) + (IF c = NoChan THEN 1 ELSE 0)
        BY <2>2, <2>3, <2>6, <2>7, UsersFinite DEF Owing
    <2>9. \A c \in Chan : c \in r.heap <=> r.ref[c] > 0
        BY <2>2, <2>3, <2>6 DEF Owing
    <2>10. Owing(r, NoChan)  BY <2>3, <2>5, <2>8, <2>9 DEF Owing
    <2> QED  BY <2>3, <2>10 DEF r
<1> QED  BY <1>1, <1>2

\* channel_ref() on an allocated channel takes a reference that is owed.
LEMMA RefOwes ==
    ASSUME NEW q, NEW e \in Chan, Owing(q, NoChan), e \in q.heap
    PROVE  /\ Owing(channel_ref(q, e), e)
           /\ channel_ref(q, e).handles = q.handles
           /\ channel_ref(q, e).grants = q.grants
           /\ channel_ref(q, e).staged = q.staged
           /\ channel_ref(q, e).state = q.state
<1> DEFINE r == channel_ref(q, e)
<1>1. q \in KState /\ q.ref \in [Chan -> Nat]  BY DEF Owing, KState
<1>2. /\ r.handles = q.handles /\ r.grants = q.grants
      /\ r.staged = q.staged /\ r.state = q.state /\ r.heap = q.heap
      /\ r.ref = [q.ref EXCEPT ![e] = @ + 1]
    BY <1>1 DEF KState, channel_ref
<1>3. r \in KState
    <2>1. r.ref \in [Chan -> Nat]  BY <1>1, <1>2
    <2> QED  BY Zenon, <1>1, <1>2, <2>1 DEF KState, channel_ref
<1> HIDE DEF r
<1>4. \A c \in Chan : Users(r, c) = Users(q, c) /\ Users(q, c) \in Nat
    BY <1>2, SameUsers, UsersFinite
<1>5. \A c \in Chan : r.ref[c] = Users(r, c) + (IF c = e THEN 1 ELSE 0)
    BY ChannelAssumption, <1>1, <1>2, <1>4 DEF Owing
<1>6. \A c \in Chan : c \in r.heap <=> r.ref[c] > 0
    BY <1>1, <1>2 DEF Owing
<1>7. Owing(r, e)  BY <1>2, <1>3, <1>5, <1>6 DEF Owing
<1> QED  BY <1>2, <1>7 DEF r

-----------------------------------------------------------------------------
One(b) == IF b THEN 1 ELSE 0

\* Membership of one element changes: so does the count.
LEMMA CountMoves ==
    ASSUME NEW S, NEW T, IsFiniteSet(S), NEW e, S \ {e} = T \ {e}
    PROVE  Cardinality(T) = Cardinality(S) + One(e \in T) - One(e \in S)
<1>1. IsFiniteSet(S \ {e}) /\ Cardinality(S) \in Nat /\ Cardinality(S \ {e}) \in Nat
    BY Zenon, FS_RemoveElement, FS_CardinalityType
<1>2. Cardinality(S) = Cardinality(S \ {e}) + One(e \in S)
    BY <1>1, FS_RemoveElement DEF One
<1>3. Cardinality(T) = Cardinality(S \ {e}) + One(e \in T)
    <2>1. CASE e \in T
        <3>1. T = (S \ {e}) \cup {e}  BY <2>1
        <3> QED  BY <1>1, <2>1, <3>1, FS_AddElement DEF One
    <2>2. CASE e \notin T
        <3>1. T = S \ {e}  BY <2>2
        <3> QED  BY <1>1, <2>2, <3>1 DEF One
    <2> QED  BY <2>1, <2>2
<1> QED  BY <1>1, <1>2, <1>3 DEF One

\* One entry of a handle table changes.
Puts(new, old, p, x, e) == new = [old EXCEPT ![p][x] = e]

LEMMA HandleSet ==
    ASSUME NEW q \in KState, NEW r, NEW p \in Proc, NEW x \in Handle, NEW e, NEW c,
           Puts(r.handles, q.handles, p, x, e)
    PROVE  Cardinality(HeldIn(r, c))
             = Cardinality(HeldIn(q, c)) + One(e.ch = c) - One(q.handles[p][x].ch = c)
<1>1. q.handles \in [Proc -> [Handle -> Entry]]  BY DEF KState
<1>2. \A u \in Proc \X Handle : u # << p, x >> =>
          r.handles[u[1]][u[2]] = q.handles[u[1]][u[2]]
    BY <1>1 DEF Puts
<1>3. r.handles[p][x] = e  BY <1>1 DEF Puts
<1>4. HeldIn(q, c) \ {<< p, x >>} = HeldIn(r, c) \ {<< p, x >>}
    BY <1>2 DEF HeldIn
<1>5. << p, x >> \in HeldIn(r, c) <=> e.ch = c  BY <1>3 DEF HeldIn
<1>6. << p, x >> \in HeldIn(q, c) <=> q.handles[p][x].ch = c  BY DEF HeldIn
<1>7. IsFiniteSet(HeldIn(q, c))  BY UsersFinite
<1>8. Cardinality(HeldIn(r, c)) = Cardinality(HeldIn(q, c))
          + One(<< p, x >> \in HeldIn(r, c)) - One(<< p, x >> \in HeldIn(q, c))
    BY <1>4, <1>7, CountMoves
<1> QED  BY <1>5, <1>6, <1>8 DEF One

\* One staged binding changes.
LEMMA BindSet ==
    ASSUME NEW q \in KState, NEW r, NEW fd \in Fd, NEW b, NEW c,
           r.staged = [q.staged EXCEPT ![fd] = b]
    PROVE  Cardinality(StagedIn(r, c))
             = Cardinality(StagedIn(q, c)) + One(b.ch = c) - One(q.staged[fd].ch = c)
<1>1. q.staged \in [Fd -> Bind]  BY DEF KState
<1>2. StagedIn(q, c) \ {fd} = StagedIn(r, c) \ {fd}  BY <1>1 DEF StagedIn
<1>3. fd \in StagedIn(r, c) <=> b.ch = c  BY <1>1 DEF StagedIn
<1>4. fd \in StagedIn(q, c) <=> q.staged[fd].ch = c  BY DEF StagedIn
<1>5. IsFiniteSet(StagedIn(q, c))  BY UsersFinite
<1>6. Cardinality(StagedIn(r, c)) = Cardinality(StagedIn(q, c))
          + One(fd \in StagedIn(r, c)) - One(fd \in StagedIn(q, c))
    BY <1>2, <1>5, CountMoves
<1> QED  BY <1>3, <1>4, <1>6 DEF One

\* One grant slot changes.
LEMMA GrantSet ==
    ASSUME NEW q \in KState, NEW r, NEW i \in Slot, NEW g, NEW c,
           r.grants = [q.grants EXCEPT ![i] = g]
    PROVE  Cardinality(GrantedIn(r, c))
             = Cardinality(GrantedIn(q, c)) + One(g.used /\ g.ch = c)
               - One(q.grants[i].used /\ q.grants[i].ch = c)
<1>1. q.grants \in [Slot -> Grant]  BY DEF KState
<1>2. GrantedIn(q, c) \ {i} = GrantedIn(r, c) \ {i}  BY <1>1 DEF GrantedIn
<1>3. i \in GrantedIn(r, c) <=> g.used /\ g.ch = c  BY <1>1 DEF GrantedIn
<1>4. i \in GrantedIn(q, c) <=> q.grants[i].used /\ q.grants[i].ch = c  BY DEF GrantedIn
<1>5. IsFiniteSet(GrantedIn(q, c))  BY UsersFinite
<1>6. Cardinality(GrantedIn(r, c)) = Cardinality(GrantedIn(q, c))
          + One(i \in GrantedIn(r, c)) - One(i \in GrantedIn(q, c))
    BY Zenon, <1>2, <1>5, CountMoves
<1> QED  BY <1>3, <1>4, <1>6 DEF One

-----------------------------------------------------------------------------
\* The handle that process_alloc_handle() takes was empty.
LEMMA FreeHandleEmpty ==
    ASSUME NEW q, NEW p \in Proc, FreeHandle(q, p) # 0
    PROVE  FreeHandle(q, p) \in Handle /\ q.handles[p][FreeHandle(q, p)].ch = NoChan
<1> DEFINE empty == {x \in Handle : q.handles[p][x].ch = NoChan}
<1>1. empty # {} /\ FreeHandle(q, p) = Min(empty)  BY DEF FreeHandle
<1>2. empty \in SUBSET Nat  BY ChannelAssumption DEF Handle
<1>3. Min(empty) \in empty
    <2> HIDE DEF empty
    <2> QED  BY <1>1, <1>2, LeastOfNat
<1> QED  BY <1>1, <1>3

\* A new handle is the user of the reference that was owed.
LEMMA AllocPays ==
    ASSUME NEW q, NEW c \in Chan, Owing(q, c), NEW p \in Proc, FreeHandle(q, p) # 0,
           NEW end \in Ends, NEW rights \in SUBSET Rights
    PROVE  LET x == FreeHandle(q, p)
               r == process_alloc_handle(q, p, c, end, rights)
           IN  /\ Owing(r, NoChan)
               /\ r.handles = [q.handles EXCEPT ![p][x] =
                                 [ch |-> c, end |-> end, rights |-> rights]]
               /\ r.grants = q.grants /\ r.staged = q.staged /\ r.state = q.state
<1> DEFINE x == FreeHandle(q, p)
           e == [ch |-> c, end |-> end, rights |-> rights]
           r == process_alloc_handle(q, p, c, end, rights)
<1>1. x \in Handle /\ q.handles[p][x].ch = NoChan  BY FreeHandleEmpty
<1>2. q \in KState /\ q.handles \in [Proc -> [Handle -> Entry]]  BY DEF Owing, KState
<1>3. r = [q EXCEPT !.handles[p][x] = e]  BY DEF process_alloc_handle
<1>4. e \in Entry /\ e.ch = c  BY DEF Entry
<1> HIDE DEF x, e, r
<1>5. /\ r.handles = [q.handles EXCEPT ![p][x] = e] /\ r.grants = q.grants
      /\ r.staged = q.staged /\ r.state = q.state /\ r.ref = q.ref /\ r.heap = q.heap
    BY Zenon, <1>2, <1>3 DEF KState
<1>6. r.handles \in [Proc -> [Handle -> Entry]]
    <2>1. [q.handles[p] EXCEPT ![x] = e] \in [Handle -> Entry]  BY <1>1, <1>2, <1>4
    <2> QED  BY <1>2, <1>5, <2>1
<1>7. r \in KState  BY Zenon, <1>2, <1>3, <1>5, <1>6 DEF KState
<1>8. \A d \in Chan : r.ref[d] = Users(r, d) + (IF d = NoChan THEN 1 ELSE 0)
    <2> SUFFICES ASSUME NEW d \in Chan PROVE r.ref[d] = Users(r, d)
        BY ChannelAssumption, UsersFinite
    <2>1. Cardinality(HeldIn(r, d)) = Cardinality(HeldIn(q, d)) + One(c = d)
              - One(q.handles[p][x].ch = d)
        BY <1>1, <1>2, <1>4, <1>5, HandleSet DEF Puts
    <2>2. q.handles[p][x].ch # d  BY <1>1, ChannelAssumption
    <2>3. GrantedIn(r, d) = GrantedIn(q, d) /\ StagedIn(r, d) = StagedIn(q, d)
        BY <1>5 DEF GrantedIn, StagedIn
    <2>4. q.ref[d] = Users(q, d) + One(c = d)  BY DEF Owing, One
    <2> QED  BY <1>5, <2>1, <2>2, <2>3, <2>4, UsersFinite DEF Users, One
<1>9. Owing(r, NoChan)  BY <1>5, <1>7, <1>8 DEF Owing
<1> QED  BY <1>5, <1>9 DEF x, e, r

\* process_close_handle() gives the handle's reference back.
LEMMA CloseKeeps ==
    ASSUME NEW q, Owing(q, NoChan), NEW p \in Proc, NEW x \in Handle
    PROVE  LET r == process_close_handle(q, p, x)
           IN  /\ Owing(r, NoChan)
               /\ r.handles = [q.handles EXCEPT ![p][x] = NoEntry]
               /\ r.grants = q.grants /\ r.staged = q.staged /\ r.state = q.state
<1> DEFINE r == [q EXCEPT !.handles[p][x] = NoEntry]
           c == q.handles[p][x].ch
<1>1. q \in KState /\ q.handles \in [Proc -> [Handle -> Entry]]  BY DEF Owing, KState
<1>2. q.handles[p][x] \in Entry  BY <1>1
<1>3. c \in Chan \cup {NoChan}  BY <1>2 DEF Entry
<1>4. NoEntry \in Entry /\ NoEntry.ch = NoChan  BY DEF Entry, NoEntry, Ends
<1>5. /\ r.handles = [q.handles EXCEPT ![p][x] = NoEntry] /\ r.grants = q.grants
      /\ r.staged = q.staged /\ r.state = q.state /\ r.ref = q.ref /\ r.heap = q.heap
    BY <1>1 DEF KState
<1>6. r.handles \in [Proc -> [Handle -> Entry]]
    <2>1. [q.handles[p] EXCEPT ![x] = NoEntry] \in [Handle -> Entry]  BY <1>1, <1>4
    <2> QED  BY <1>1, <1>5, <2>1
<1>7. r \in KState  BY Zenon, <1>1, <1>5, <1>6 DEF KState
<1>8. process_close_handle(q, p, x) = channel_unref(r, c)  BY DEF process_close_handle
<1> HIDE DEF r
<1>9. \A d \in Chan : r.ref[d] = Users(r, d) + (IF d = c THEN 1 ELSE 0)
    <2> TAKE d \in Chan
    <2>1. Cardinality(HeldIn(r, d)) = Cardinality(HeldIn(q, d)) + One(NoChan = d) - One(c = d)
        BY <1>1, <1>4, <1>5, HandleSet DEF Puts
    <2>2. NoChan # d  BY ChannelAssumption
    <2>3. GrantedIn(r, d) = GrantedIn(q, d) /\ StagedIn(r, d) = StagedIn(q, d)
        BY <1>5 DEF GrantedIn, StagedIn
    <2>4. q.ref[d] = Users(q, d)  BY <2>2, UsersFinite DEF Owing
    <2> QED  BY <1>5, <2>1, <2>2, <2>3, <2>4, UsersFinite DEF Users, One
<1>10. Owing(r, c)  BY <1>5, <1>7, <1>9 DEF Owing
<1> HIDE DEF c
<1> QED  BY <1>3, <1>5, <1>8, <1>10, UnrefPays

-----------------------------------------------------------------------------
\* A channel that a handle names is allocated.
LEMMA HandleLive ==
    ASSUME NEW q, Owing(q, NoChan), NEW p \in Proc, NEW x \in Handle,
           q.handles[p][x].ch \in Chan
    PROVE  q.handles[p][x].ch \in q.heap
<1> DEFINE c == q.handles[p][x].ch
<1>1. << p, x >> \in HeldIn(q, c)  BY DEF HeldIn
<1>2. Cardinality(HeldIn(q, c)) # 0  BY Zenon, <1>1, FS_EmptySet, UsersFinite
<1>3. q.ref[c] = Users(q, c)  BY ChannelAssumption, UsersFinite DEF Owing
<1>4. q.ref[c] > 0  BY <1>2, <1>3, UsersFinite DEF Users
<1> QED  BY <1>4 DEF Owing

\* A binding becomes the user of the reference that was owed.
LEMMA BindPays ==
    ASSUME NEW q, NEW c \in Chan, Owing(q, c), NEW fd \in Fd, q.staged[fd].ch = NoChan,
           NEW b \in Bind, b.ch = c
    PROVE  LET r == [q EXCEPT !.staged[fd] = b]
           IN  /\ Owing(r, NoChan)
               /\ r.handles = q.handles /\ r.grants = q.grants /\ r.state = q.state
               /\ r.staged = [q.staged EXCEPT ![fd] = b]
<1> DEFINE r == [q EXCEPT !.staged[fd] = b]
<1>1. q \in KState /\ q.staged \in [Fd -> Bind]  BY DEF Owing, KState
<1>2. /\ r.handles = q.handles /\ r.grants = q.grants /\ r.state = q.state
      /\ r.staged = [q.staged EXCEPT ![fd] = b] /\ r.ref = q.ref /\ r.heap = q.heap
    BY <1>1 DEF KState
<1>3. r \in KState  BY Zenon, <1>1, <1>2 DEF KState
<1> HIDE DEF r
<1>4. \A d \in Chan : r.ref[d] = Users(r, d) + (IF d = NoChan THEN 1 ELSE 0)
    <2> SUFFICES ASSUME NEW d \in Chan PROVE r.ref[d] = Users(r, d)
        BY ChannelAssumption, UsersFinite
    <2>1. Cardinality(StagedIn(r, d)) = Cardinality(StagedIn(q, d)) + One(c = d)
              - One(q.staged[fd].ch = d)
        BY <1>1, <1>2, BindSet
    <2>2. q.staged[fd].ch # d  BY ChannelAssumption
    <2>3. GrantedIn(r, d) = GrantedIn(q, d) /\ HeldIn(r, d) = HeldIn(q, d)
        BY <1>2 DEF GrantedIn, HeldIn
    <2>4. q.ref[d] = Users(q, d) + One(c = d)  BY DEF Owing, One
    <2> QED  BY <1>2, <2>1, <2>2, <2>3, <2>4, UsersFinite DEF Users, One
<1>5. Owing(r, NoChan)  BY <1>2, <1>3, <1>4 DEF Owing
<1> QED  BY Zenon, <1>2, <1>5 DEF r

\* A binding is taken away: its reference is owed.
LEMMA UnbindOwes ==
    ASSUME NEW q, Owing(q, NoChan), NEW fd \in Fd
    PROVE  LET r == [q EXCEPT !.staged[fd] = NoBind]
           IN  /\ Owing(r, q.staged[fd].ch)
               /\ r.handles = q.handles /\ r.grants = q.grants /\ r.state = q.state
               /\ r.staged = [q.staged EXCEPT ![fd] = NoBind]
<1> DEFINE r == [q EXCEPT !.staged[fd] = NoBind]
           c == q.staged[fd].ch
<1>1. q \in KState /\ q.staged \in [Fd -> Bind]  BY DEF Owing, KState
<1>2. NoBind \in Bind /\ NoBind.ch = NoChan  BY DEF Bind, NoBind
<1>3. /\ r.handles = q.handles /\ r.grants = q.grants /\ r.state = q.state
      /\ r.staged = [q.staged EXCEPT ![fd] = NoBind] /\ r.ref = q.ref /\ r.heap = q.heap
    BY <1>1 DEF KState
<1>4. r \in KState  BY Zenon, <1>1, <1>2, <1>3 DEF KState
<1> HIDE DEF r
<1>5. \A d \in Chan : r.ref[d] = Users(r, d) + (IF d = c THEN 1 ELSE 0)
    <2> TAKE d \in Chan
    <2>1. Cardinality(StagedIn(r, d)) = Cardinality(StagedIn(q, d)) + One(NoChan = d)
              - One(c = d)
        BY <1>1, <1>2, <1>3, BindSet
    <2>2. NoChan # d  BY Zenon, ChannelAssumption
    <2>3. GrantedIn(r, d) = GrantedIn(q, d) /\ HeldIn(r, d) = HeldIn(q, d)
        BY <1>3 DEF GrantedIn, HeldIn
    <2>4. q.ref[d] = Users(q, d)  BY <2>2, UsersFinite DEF Owing
    <2> QED  BY <1>3, <2>1, <2>2, <2>3, <2>4, UsersFinite DEF Users, One
<1>6. Owing(r, c)  BY <1>3, <1>4, <1>5 DEF Owing
<1> QED  BY <1>3, <1>6 DEF r

\* A binding, or no binding, of the staging area.
LEMMA BindingType ==
    ASSUME NEW q \in KState, NEW fd \in Fd
    PROVE  q.staged[fd].ch \in Chan \cup {NoChan} /\ q.staged[fd].rights \in SUBSET Rights
<1>1. q.staged[fd] \in Bind  BY DEF KState
<1> QED  BY <1>1 DEF Bind

-----------------------------------------------------------------------------
\* r differs from q in references and bindings only.
Frame(q, r) == r.handles = q.handles /\ r.grants = q.grants /\ r.state = q.state

\* Beyond that, child may have got handles to slave ends.
SlaveOnly(q, r, child) ==
    /\ r.grants = q.grants /\ r.state = q.state
    /\ \A p \in Proc : p # child => r.handles[p] = q.handles[p]
    /\ \A x \in Handle : r.handles[child][x] = q.handles[child][x]
                           \/ r.handles[child][x].end = "slave"

\* One descriptor of stage_spawn_stdio().
LEMMA StageFdKeeps ==
    ASSUME NEW q, Owing(q, NoChan), NEW p \in Proc, NEW hin \in Bindings, NEW fd \in Fd,
           q.staged[fd] = NoBind
    PROVE  LET r == StageFd(q, p, hin, fd)
           IN  /\ Owing(r, NoChan) /\ Frame(q, r)
               /\ \A e \in Fd \ {fd} : r.staged[e] = q.staged[e]
<1> DEFINE c == process_get_handle(q, p, hin[fd], {"transfer"})
           b == [ch |-> c, rights |-> IF fd = 0 THEN {"read"} ELSE {"write"}]
           m == channel_ref(q, c)
           r == StageFd(q, p, hin, fd)
<1>1. CASE hin[fd] = 0 \/ \E e \in 0 .. fd : ~Transferable(q, p, hin, e)
    BY Zenon, <1>1 DEF StageFd, Frame
<1>2. CASE ~(hin[fd] = 0 \/ \E e \in 0 .. fd : ~Transferable(q, p, hin, e))
    <2>1. fd \in 0 .. fd  BY DEF Fd
    <2>2. c # NoChan  BY Zenon, <1>2, <2>1 DEF Transferable
    <2>3. hin[fd] \in Handle /\ c = q.handles[p][hin[fd]].ch
        BY Zenon, <2>2 DEF process_get_handle
    <2>4. q.handles[p][hin[fd]] \in Entry  BY <2>3 DEF Owing, KState
    <2>5. c \in Chan  BY Zenon, <2>2, <2>3, <2>4 DEF Entry
    <2>6. c \in q.heap  BY <2>3, <2>5, HandleLive
    <2>7. r = [m EXCEPT !.staged[fd] = b]  BY <1>2 DEF StageFd
    <2>8. b \in Bind /\ b.ch = c  BY <2>5 DEF Bind, Rights
    <2> HIDE DEF c, b
    <2>9. /\ Owing(m, c) /\ m.handles = q.handles /\ m.grants = q.grants
          /\ m.staged = q.staged /\ m.state = q.state
        BY <2>5, <2>6, RefOwes
    <2>10. m.staged[fd].ch = NoChan  BY <2>9 DEF NoBind
    <2>11. q.staged \in [Fd -> Bind]  BY DEF Owing, KState
    <2> HIDE DEF m, r
    <2>12. /\ Owing(r, NoChan) /\ r.handles = m.handles /\ r.grants = m.grants
           /\ r.state = m.state /\ r.staged = [m.staged EXCEPT ![fd] = b]
        BY <2>5, <2>7, <2>8, <2>9, <2>10, BindPays
    <2> QED  BY <2>9, <2>11, <2>12 DEF Frame, r
<1> QED  BY <1>1, <1>2

\* stage_spawn_stdio() takes a reference for every binding it makes.
LEMMA StageKeeps ==
    ASSUME NEW q, Owing(q, NoChan), \A fd \in Fd : q.staged[fd] = NoBind,
           NEW p \in Proc, NEW hin \in Bindings
    PROVE  LET r == stage_spawn_stdio(q, p, hin) IN Owing(r, NoChan) /\ Frame(q, r)
<1> DEFINE q1 == StageFd(q, p, hin, 0)
           q2 == StageFd(q1, p, hin, 1)
           q3 == StageFd(q2, p, hin, 2)
<1>1. 0 \in Fd /\ 1 \in Fd \ {0} /\ 2 \in Fd \ {0} /\ 2 \in Fd \ {1}  BY DEF Fd
<1>2. Owing(q1, NoChan) /\ Frame(q, q1) /\ q1.staged[1] = NoBind /\ q1.staged[2] = NoBind
    BY <1>1, StageFdKeeps
<1> HIDE DEF q1
<1>3. Owing(q2, NoChan) /\ Frame(q1, q2) /\ q2.staged[2] = NoBind
    BY <1>1, <1>2, StageFdKeeps
<1> HIDE DEF q2
<1>4. Owing(q3, NoChan) /\ Frame(q2, q3)
    BY Zenon, <1>1, <1>3, StageFdKeeps
<1> HIDE DEF q3
<1>5. Frame(q, q3)  BY Zenon, <1>2, <1>3, <1>4 DEF Frame
<1> QED  BY <1>4, <1>5 DEF q1, q2, q3, stage_spawn_stdio

\* One descriptor of clear_spawn_stdio().
LEMMA ClearFdKeeps ==
    ASSUME NEW q, Owing(q, NoChan), NEW fd \in Fd
    PROVE  LET r == ClearFd(q, fd)
           IN  /\ Owing(r, NoChan) /\ Frame(q, r)
               /\ r.staged = [q.staged EXCEPT ![fd] = NoBind]
<1> DEFINE m == [q EXCEPT !.staged[fd] = NoBind]
           c == q.staged[fd].ch
<1>1. c \in Chan \cup {NoChan}  BY BindingType DEF Owing
<1>2. /\ Owing(m, c) /\ m.handles = q.handles /\ m.grants = q.grants /\ m.state = q.state
      /\ m.staged = [q.staged EXCEPT ![fd] = NoBind]
    BY UnbindOwes
<1>3. ClearFd(q, fd) = channel_unref(m, c)  BY Zenon DEF ClearFd
<1> HIDE DEF m, c
<1> QED  BY <1>1, <1>2, <1>3, UnrefPays DEF Frame

\* clear_spawn_stdio() leaves nothing staged and gives back what was.
LEMMA ClearKeeps ==
    ASSUME NEW q, Owing(q, NoChan)
    PROVE  LET r == clear_spawn_stdio(q)
           IN  Owing(r, NoChan) /\ Frame(q, r) /\ \A fd \in Fd : r.staged[fd] = NoBind
<1> DEFINE q1 == ClearFd(q, 0)
           q2 == ClearFd(q1, 1)
           q3 == ClearFd(q2, 2)
<1>1. 0 \in Fd /\ 1 \in Fd /\ 2 \in Fd /\ Fd = {0, 1, 2}  BY DEF Fd
<1>2. Owing(q1, NoChan) /\ Frame(q, q1) /\ q1.staged = [q.staged EXCEPT ![0] = NoBind]
    BY Zenon, <1>1, ClearFdKeeps
<1> HIDE DEF q1
<1>3. Owing(q2, NoChan) /\ Frame(q1, q2) /\ q2.staged = [q1.staged EXCEPT ![1] = NoBind]
    BY Zenon, <1>1, <1>2, ClearFdKeeps
<1> HIDE DEF q2
<1>4. Owing(q3, NoChan) /\ Frame(q2, q3) /\ q3.staged = [q2.staged EXCEPT ![2] = NoBind]
    BY Zenon, <1>1, <1>3, ClearFdKeeps
<1> HIDE DEF q3
<1>5. Frame(q, q3)  BY <1>2, <1>3, <1>4 DEF Frame
<1>6. q.staged \in [Fd -> Bind]  BY DEF Owing, KState
<1>7. \A fd \in Fd : q3.staged[fd] = NoBind  BY <1>1, <1>2, <1>3, <1>4, <1>6
<1> QED  BY <1>4, <1>5, <1>7 DEF q1, q2, q3, clear_spawn_stdio

\* One descriptor of channel_install_spawn_stdio(): the reference moves from the
\* binding to the handle or is dropped.
LEMMA InstallFdKeeps ==
    ASSUME NEW q, Owing(q, NoChan), NEW child \in Proc, NEW fd \in Fd
    PROVE  LET r == InstallFd(q, child, fd) IN Owing(r, NoChan) /\ SlaveOnly(q, r, child)
<1> DEFINE m == [q EXCEPT !.staged[fd] = NoBind]
           c == q.staged[fd].ch
           a == q.staged[fd].rights
           r == InstallFd(q, child, fd)
           x == FreeHandle(m, child)
<1>1. c \in Chan \cup {NoChan} /\ a \in SUBSET Rights  BY BindingType DEF Owing
<1>2. /\ Owing(m, c) /\ m.handles = q.handles /\ m.grants = q.grants /\ m.state = q.state
    BY UnbindOwes
<1>3. FreeHandle(q, child) = x  BY <1>2 DEF FreeHandle
<1>4. r = IF c = NoChan THEN q
          ELSE IF x = 0 THEN channel_unref(m, c)
          ELSE process_alloc_handle(m, child, c, "slave", a)
    BY Zenon, <1>3 DEF InstallFd
<1> HIDE DEF m, c, r, a
<1>5. CASE c = NoChan  BY <1>4, <1>5 DEF SlaveOnly, r
<1>6. CASE c # NoChan /\ x = 0
    <2>1. /\ Owing(r, NoChan) /\ r.handles = m.handles /\ r.grants = m.grants
          /\ r.state = m.state
        BY <1>1, <1>2, <1>4, <1>6, UnrefPays
    <2> QED  BY <1>2, <2>1 DEF SlaveOnly, r
<1>7. CASE c # NoChan /\ x # 0
    <2>1. "slave" \in Ends /\ c \in Chan  BY Zenon, <1>1, <1>7 DEF Ends
    <2>2. /\ Owing(r, NoChan) /\ r.grants = m.grants /\ r.state = m.state
          /\ r.handles = [m.handles EXCEPT ![child][x] =
                             [ch |-> c, end |-> "slave", rights |-> a]]
        <3> HIDE DEF x
        <3> QED  BY <1>1, <1>2, <1>4, <1>7, <2>1, AllocPays DEF x
    <2>3. m.handles \in [Proc -> [Handle -> Entry]]  BY Zenon, <1>2 DEF Owing, KState
    <2> HIDE DEF x
    <2>4. SlaveOnly(q, r, child)  BY <1>2, <2>2, <2>3 DEF SlaveOnly
    <2> QED  BY <2>2, <2>4 DEF r
<1> QED  BY <1>5, <1>6, <1>7

\* channel_install_spawn_stdio(): the child gets slave ends and nothing else.
LEMMA InstallKeeps ==
    ASSUME NEW q, Owing(q, NoChan), NEW child \in Proc
    PROVE  LET r == channel_install_spawn_stdio(q, child)
           IN  Owing(r, NoChan) /\ SlaveOnly(q, r, child)
<1> DEFINE q1 == InstallFd(q, child, 0)
           q2 == InstallFd(q1, child, 1)
           q3 == InstallFd(q2, child, 2)
<1>1. 0 \in Fd /\ 1 \in Fd /\ 2 \in Fd  BY DEF Fd
<1>2. Owing(q1, NoChan) /\ SlaveOnly(q, q1, child)  BY <1>1, InstallFdKeeps
<1> HIDE DEF q1
<1>3. Owing(q2, NoChan) /\ SlaveOnly(q1, q2, child)  BY <1>1, <1>2, InstallFdKeeps
<1> HIDE DEF q2
<1>4. Owing(q3, NoChan) /\ SlaveOnly(q2, q3, child)  BY <1>1, <1>3, InstallFdKeeps
<1> HIDE DEF q3
<1>5. SlaveOnly(q, q3, child)  BY <1>2, <1>3, <1>4 DEF SlaveOnly
<1> QED  BY <1>4, <1>5 DEF q1, q2, q3, channel_install_spawn_stdio

-----------------------------------------------------------------------------
\* The slot of a grant that is accepted or swept.
LEMMA SpentIs ==
    ASSUME NEW g \in Grant
    PROVE  /\ Spent(g) \in Grant /\ Spent(g).used = FALSE
           /\ Spent(g).gen = (g.gen + 1) % GenMod
<1>1. g.gen \in 0 .. (GenMod - 1)  BY DEF Grant
<1>2. (g.gen + 1) % GenMod \in 0 .. (GenMod - 1)  BY <1>1, ChannelAssumption
<1> QED  BY Zenon, <1>2 DEF Grant, Spent

\* What the dying process held on c, as users of c.
LEMMA OwnCount ==
    ASSUME NEW q \in KState, NEW p \in Proc, NEW c
    PROVE  /\ {p} \X Own(q, p, c) \subseteq HeldIn(q, c)
           /\ Cardinality({p} \X Own(q, p, c)) = Cardinality(Own(q, p, c))
           /\ Cardinality(Own(q, p, c)) \in Nat
<1>1. {p} \X Own(q, p, c) \subseteq HeldIn(q, c)  BY DEF Own, HeldIn
<1>2. IsFiniteSet(Own(q, p, c))
    <2>1. 1 \in Int /\ MaxHandle \in Int  BY ChannelAssumption
    <2>2. IsFiniteSet(Handle)  BY Zenon, <2>1, FS_Interval DEF Handle
    <2> QED  BY <2>2, FS_Subset DEF Own
<1>3. Cardinality(Own(q, p, c)) \in Nat  BY <1>2, FS_CardinalityType
<1>4. IsFiniteSet({p}) /\ Cardinality({p}) = 1  BY Zenon, FS_Singleton
<1>5. Cardinality({p} \X Own(q, p, c)) = Cardinality({p}) * Cardinality(Own(q, p, c))
    BY <1>2, <1>4, FS_Product
<1> QED  BY <1>1, <1>3, <1>4, <1>5

\* A part of a finite set is taken away.
LEMMA PartTaken ==
    ASSUME NEW S, IsFiniteSet(S), NEW T \in SUBSET S
    PROVE  /\ Cardinality(S \ T) = Cardinality(S) - Cardinality(T)
           /\ Cardinality(T) \in Nat /\ Cardinality(S) \in Nat
           /\ Cardinality(T) <= Cardinality(S)
<1>1. S \cap T = T  OBVIOUS
<1>2. Cardinality(S \ T) = Cardinality(S) - Cardinality(S \cap T)  BY FS_Difference
<1>3. IsFiniteSet(T) /\ Cardinality(T) <= Cardinality(S)  BY FS_Subset
<1> QED  BY Zenon, <1>1, <1>2, <1>3, FS_CardinalityType

\* channel_cleanup_process() gives back exactly the references of the handles of
\* the dead process and of the grants from or to it.
LEMMA CleanupKeeps ==
    ASSUME NEW q, Owing(q, NoChan), NEW p \in Proc
    PROVE  LET r == channel_cleanup_process(q, p)
           IN  /\ Owing(r, NoChan)
               /\ r.handles = [q.handles EXCEPT ![p] = [x \in Handle |-> NoEntry]]
               /\ r.grants = [i \in Slot |-> IF i \in Swept(q, p) THEN Spent(q.grants[i])
                                             ELSE q.grants[i]]
               /\ r.staged = q.staged /\ r.state = q.state
<1> DEFINE n == Released(q, p)
           R == [c \in Chan |-> IF q.ref[c] > n[c] THEN q.ref[c] - n[c] ELSE 0]
           H == {c \in q.heap : n[c] = 0 \/ q.ref[c] > n[c]}
           E == [q.handles EXCEPT ![p] = [x \in Handle |-> NoEntry]]
           G == [i \in Slot |-> IF i \in Swept(q, p) THEN Spent(q.grants[i]) ELSE q.grants[i]]
           m == [q EXCEPT !.ref = R, !.heap = H]
           r == channel_cleanup_process(q, p)
<1>1. /\ q \in KState /\ q.ref \in [Chan -> Nat] /\ q.grants \in [Slot -> Grant]
      /\ q.handles \in [Proc -> [Handle -> Entry]]
    BY DEF Owing, KState
<1>2. \A i \in Slot : Spent(q.grants[i]) \in Grant /\ Spent(q.grants[i]).used = FALSE
    BY Zenon, <1>1, SpentIs
<1>3. r = [m EXCEPT !.handles = E, !.grants = G]
    BY <1>1 DEF channel_cleanup_process, UnrefAll, KState
<1>4. m \in [heap : {H}, byte : SUBSET Chan, ref : {R},
              handles : [Proc -> [Handle -> Entry]], grants : [Slot -> Grant],
              staged : [Fd -> Bind], state : [Proc -> {"FREE", "LIVE", "TERMINATED"}]]
    <2> HIDE DEF n, R, H
    <2> QED  BY Zenon, <1>1 DEF KState
<1>5. /\ r.handles = E /\ r.grants = G /\ r.ref = R /\ r.heap = H
      /\ r.staged = q.staged /\ r.state = q.state /\ r.byte = q.byte
    <2> HIDE DEF n, R, H, E, G
    <2> QED  BY <1>1, <1>3 DEF KState
<1>6. \A c \in Chan : n[c] = Cardinality(Own(q, p, c)) + Cardinality(SweptOn(q, p, c))
    BY DEF Released
<1> HIDE DEF n, r, m
<1>7. ASSUME NEW c \in Chan
      PROVE  /\ n[c] \in Nat /\ n[c] <= q.ref[c]
             /\ Users(r, c) = q.ref[c] - n[c]
    <2>1. HeldIn(r, c) = HeldIn(q, c) \ ({p} \X Own(q, p, c))
        <3>1. \A x \in Handle : r.handles[p][x].ch # c
            BY <1>1, <1>5, ChannelAssumption DEF NoEntry
        <3>2. \A s \in Proc \ {p} : r.handles[s] = q.handles[s]  BY Zenon, <1>1, <1>5
        <3> QED  BY Zenon, <3>1, <3>2 DEF HeldIn, Own
    <2>2. GrantedIn(r, c) = GrantedIn(q, c) \ SweptOn(q, p, c)
        <3>1. \A i \in Swept(q, p) : r.grants[i].used = FALSE
            BY <1>2, <1>5 DEF Swept
        <3>2. \A i \in Slot \ Swept(q, p) : r.grants[i] = q.grants[i]  BY <1>5
        <3> QED  BY Zenon, <3>1, <3>2 DEF GrantedIn, SweptOn, Swept
    <2>3. SweptOn(q, p, c) \subseteq GrantedIn(q, c)  BY Zenon DEF SweptOn, Swept, GrantedIn
    <2>4. StagedIn(r, c) = StagedIn(q, c)  BY Zenon, <1>5 DEF StagedIn
    <2>5. /\ Cardinality(HeldIn(r, c)) = Cardinality(HeldIn(q, c)) - Cardinality(Own(q, p, c))
          /\ Cardinality(Own(q, p, c)) \in Nat
          /\ Cardinality(Own(q, p, c)) <= Cardinality(HeldIn(q, c))
        <3> DEFINE T == {p} \X Own(q, p, c)
        <3>1. T \in SUBSET HeldIn(q, c) /\ Cardinality(T) = Cardinality(Own(q, p, c))
            BY Zenon, <1>1, OwnCount
        <3> HIDE DEF T
        <3>2. /\ Cardinality(HeldIn(q, c) \ T) = Cardinality(HeldIn(q, c)) - Cardinality(T)
              /\ Cardinality(T) \in Nat /\ Cardinality(T) <= Cardinality(HeldIn(q, c))
            BY Zenon, <3>1, PartTaken, UsersFinite
        <3> QED  BY Zenon, <2>1, <3>1, <3>2 DEF T
    <2>6. /\ Cardinality(GrantedIn(r, c))
               = Cardinality(GrantedIn(q, c)) - Cardinality(SweptOn(q, p, c))
          /\ Cardinality(SweptOn(q, p, c)) \in Nat
          /\ Cardinality(SweptOn(q, p, c)) <= Cardinality(GrantedIn(q, c))
        BY <2>2, <2>3, PartTaken, UsersFinite
    <2>7. q.ref[c] = Users(q, c)  BY ChannelAssumption, UsersFinite DEF Owing
    <2> QED  BY <1>6, <2>4, <2>5, <2>6, <2>7, UsersFinite DEF Users
<1>8. r \in KState
    <2>1. r.ref \in [Chan -> Nat]  BY <1>1, <1>5, <1>7
    <2>2. r.heap \in SUBSET Chan /\ r.byte \in SUBSET Chan  BY Zenon, <1>1, <1>5 DEF KState
    <2>3. r.handles \in [Proc -> [Handle -> Entry]]
        <3>1. NoEntry \in Entry  BY Zenon DEF Entry, NoEntry, Ends
        <3> QED  BY <1>1, <1>5, <3>1
    <2>4. r.grants \in [Slot -> Grant]  BY <1>2, <1>1, <1>5
    <2>5. r.staged \in [Fd -> Bind] /\ r.state \in [Proc -> {"FREE", "LIVE", "TERMINATED"}]
        BY <1>1, <1>5 DEF KState
    <2> HIDE DEF R, H, E, G
    <2>6. r \in [heap : {H}, byte : SUBSET Chan, ref : {R}, handles : {E}, grants : {G},
                 staged : [Fd -> Bind], state : [Proc -> {"FREE", "LIVE", "TERMINATED"}]]
        BY Zenon, <1>3, <1>4
    <2> QED  BY Zenon, <1>5, <2>1, <2>2, <2>3, <2>4, <2>6 DEF KState
<1>9. \A c \in Chan : r.ref[c] = Users(r, c) + (IF c = NoChan THEN 1 ELSE 0)
    <2> SUFFICES ASSUME NEW c \in Chan PROVE r.ref[c] = Users(r, c)
        BY ChannelAssumption, UsersFinite
    <2> QED  BY <1>1, <1>5, <1>7
<1>10. \A c \in Chan : c \in r.heap <=> r.ref[c] > 0
    BY <1>1, <1>5, <1>7 DEF Owing
<1>11. \A i \in Slot : r.grants[i].used =>
          r.grants[i].ch \in Chan /\ r.grants[i].from \in Proc /\ r.grants[i].to \in Proc
    BY <1>2, <1>1, <1>5 DEF Owing
<1>12. Owing(r, NoChan)  BY Zenon, <1>8, <1>9, <1>10, <1>11 DEF Owing
<1> QED  BY <1>5, <1>12 DEF r

-----------------------------------------------------------------------------
\* A PCB that has been freed holds nothing.
FreeHoldsNothing ==
    \A p \in Proc, x \in Handle : k.state[p] = "FREE" => k.handles[p][x].ch = NoChan

\* A pending grant is to the process it was made to, or to a pid nobody had, and
\* its maker has a PCB.
GrantInv ==
    \A i \in Slot : k.grants[i].used =>
        /\ h.target[i] \in {Nobody, k.grants[i].to}
        /\ k.state[k.grants[i].from] # "FREE"

\* Until the generation of a slot comes round, it counts the grants made there
\* before the pending one, and the ids spent are smaller.
GenInv ==
    \A i \in Slot : h.uses[i] <= GenMod =>
        /\ k.grants[i].used \/ h.uses[i] < GenMod =>
             k.grants[i].gen = h.uses[i] - One(k.grants[i].used)
        /\ \A g \in 0 .. (GenMod - 1) :
             << g, i >> \in h.spent => g < h.uses[i] - One(k.grants[i].used)

ChInv ==
    /\ Owing(k, NoChan) /\ h \in History
    /\ \A fd \in Fd : k.staged[fd] = NoBind
    /\ FreeHoldsNothing
    /\ GrantInv
    /\ GenInv
    /\ OnlyCreatorWrites

-----------------------------------------------------------------------------
\* A slot is left alone, spent, or granted under the generation it had.
SlotStep(i) ==
    \/ k'.grants[i] = k.grants[i]
    \/ k.grants[i].used /\ k'.grants[i] = Spent(k.grants[i])
    \/ ~k.grants[i].used /\ k'.grants[i].used /\ k'.grants[i].gen = k.grants[i].gen

SlotsStep == \A i \in Slot : SlotStep(i) /\ h'.uses[i] <= MaxGrants

\* What a step leaves, but for the records: exact counts, nothing staged, and
\* nothing held by a free PCB.
Settled ==
    /\ Owing(k', NoChan)
    /\ \A fd \in Fd : k'.staged[fd] = NoBind
    /\ \A p \in Proc, x \in Handle : k'.state[p] = "FREE" => k'.handles[p][x].ch = NoChan

\* The records of recipients and of creators are right after the step.
RightTargets(target) ==
    /\ target \in [Slot -> Proc \cup {Nobody, Gone}]
    /\ \A i \in Slot : k'.grants[i].used =>
         target[i] \in {Nobody, k'.grants[i].to} /\ k'.state[k'.grants[i].from] # "FREE"

Master(e) == e.ch # NoChan /\ e.end = "master" /\ e.rights # {"read"}

RightCreators(creator) ==
    /\ creator \in [Chan -> Proc \cup {Nobody}]
    /\ \A p \in Proc, x \in Handle :
         Master(k'.handles[p][x]) => creator[k'.handles[p][x].ch] = p

\* Then generations still tell the ids of a slot apart.
LEMMA HistoryStep ==
    ASSUME NEW target \in [Slot -> Proc \cup {Nobody, Gone}],
           NEW creator \in [Chan -> Proc \cup {Nobody}],
           k \in KState, k' \in KState, h \in History, GenInv, SlotsStep,
           Track(target, creator)
    PROVE  /\ h' \in History /\ GenInv'
           /\ \A i \in Slot : k'.grants[i].used => h'.target[i] = target[i]
           /\ \A c \in Chan : c \in k'.heap => h'.creator[c] = creator[c]
<1> DEFINE S == h.spent \cup {<< k.grants[i].gen, i >> :
                    i \in {j \in Slot : k.grants[j].used /\ ~k'.grants[j].used}}
           U == [i \in Slot |-> IF ~k.grants[i].used /\ k'.grants[i].used
                                THEN h.uses[i] + 1 ELSE h.uses[i]]
           T == [i \in Slot |-> IF k'.grants[i].used THEN target[i] ELSE Nobody]
           C == [c \in Chan |-> IF c \in k'.heap THEN creator[c] ELSE Nobody]
<1>0. GenMod \in Nat /\ GenMod > 0 /\ MaxGrants \in Nat  BY ChannelAssumption
<1>1. h' = [spent |-> S, uses |-> U, target |-> T, creator |-> C]  BY Zenon DEF Track
<1>2. k.grants \in [Slot -> Grant] /\ k'.grants \in [Slot -> Grant]  BY Zenon DEF KState
<1>3. \A i \in Slot : /\ k.grants[i].used \in BOOLEAN /\ k'.grants[i].used \in BOOLEAN
                      /\ k.grants[i].gen \in 0 .. (GenMod - 1)
    <2> TAKE i \in Slot
    <2>1. k.grants[i] \in Grant /\ k'.grants[i] \in Grant  BY <1>2
    <2> QED  BY Zenon, <2>1 DEF Grant
<1>4. h.spent \in SUBSET ((0 .. (GenMod - 1)) \X Slot) /\ h.uses \in [Slot -> 0 .. MaxGrants]
    BY DEF History
<1>5. S \in SUBSET ((0 .. (GenMod - 1)) \X Slot)  BY <1>3, <1>4
<1>6. T \in [Slot -> Proc \cup {Nobody, Gone}]  OBVIOUS
<1>7. C \in [Chan -> Proc \cup {Nobody}]  BY Zenon
<1>8. \A i \in Slot : U[i] = IF ~k.grants[i].used /\ k'.grants[i].used
                             THEN h.uses[i] + 1 ELSE h.uses[i]
    BY Zenon
<1>9. \A i \in Slot : \A g : << g, i >> \in S <=>
          << g, i >> \in h.spent
          \/ (g = k.grants[i].gen /\ k.grants[i].used /\ ~k'.grants[i].used)
    OBVIOUS
<1>10. \A i \in Slot : k'.grants[i].used => T[i] = target[i]  BY Zenon
<1>11. \A c \in Chan : c \in k'.heap => C[c] = creator[c]  BY Zenon
<1>12. U \in [Slot -> Nat]  BY <1>4
<1> HIDE DEF S, U, T, C
<1>13. h'.spent = S /\ h'.uses = U /\ h'.target = T /\ h'.creator = C  BY <1>1
<1>14. U \in [Slot -> 0 .. MaxGrants]
    <2>1. \A i \in Slot : U[i] <= MaxGrants  BY Zenon, <1>13 DEF SlotsStep
    <2> QED  BY <1>0, <1>12, <2>1
<1>15. h' \in History  BY Zenon, <1>1, <1>5, <1>6, <1>7, <1>14 DEF History
<1>16. ASSUME NEW i \in Slot, U[i] <= GenMod
       PROVE  /\ k'.grants[i].used \/ U[i] < GenMod =>
                   k'.grants[i].gen = U[i] - One(k'.grants[i].used)
              /\ \A g \in 0 .. (GenMod - 1) :
                   << g, i >> \in S => g < U[i] - One(k'.grants[i].used)
    <2>1. h.uses[i] \in Nat  BY <1>4, <1>0
    <2>2. h.uses[i] <= GenMod =>
             /\ k.grants[i].used \/ h.uses[i] < GenMod =>
                  k.grants[i].gen = h.uses[i] - One(k.grants[i].used)
             /\ \A g \in 0 .. (GenMod - 1) :
                  << g, i >> \in h.spent => g < h.uses[i] - One(k.grants[i].used)
        BY Zenon DEF GenInv
    <2>3. CASE k'.grants[i] = k.grants[i]
        <3>1. U[i] = h.uses[i] /\ \A g : << g, i >> \in S <=> << g, i >> \in h.spent
            BY Zenon, <1>8, <1>9, <2>3
        <3> QED  BY Zenon, <1>16, <2>2, <2>3, <3>1
    <2>4. CASE k.grants[i].used /\ k'.grants[i] = Spent(k.grants[i])
        <3>1. ~k'.grants[i].used /\ k'.grants[i].gen = (k.grants[i].gen + 1) % GenMod
            <4>1. k.grants[i] \in Grant  BY <1>2
            <4> QED  BY Zenon, <2>4, <4>1, SpentIs
        <3>2. U[i] = h.uses[i]  BY <1>8, <3>1
        <3>3. /\ k.grants[i].gen = h.uses[i] - 1
              /\ \A g \in 0 .. (GenMod - 1) : << g, i >> \in h.spent => g < h.uses[i] - 1
            BY <1>16, <2>2, <2>4, <3>2 DEF One
        <3>4. ASSUME h.uses[i] < GenMod PROVE k'.grants[i].gen = h.uses[i]
            <4>1. k'.grants[i].gen = h.uses[i] % GenMod  BY <2>1, <3>1, <3>3
            <4> QED  BY <1>0, <2>1, <3>4, <4>1
        <3>5. \A g \in 0 .. (GenMod - 1) : << g, i >> \in S => g < h.uses[i]
            <4> TAKE g \in 0 .. (GenMod - 1)
            <4> QED  BY <1>0, <1>9, <2>1, <3>3
        <3> QED  BY <2>1, <3>1, <3>2, <3>4, <3>5 DEF One
    <2>5. CASE /\ ~k.grants[i].used /\ k'.grants[i].used
               /\ k'.grants[i].gen = k.grants[i].gen
        <3>1. U[i] = h.uses[i] + 1  BY Zenon, <1>8, <2>5
        <3>2. h.uses[i] < GenMod  BY <1>0, <1>16, <2>1, <3>1
        <3>3. /\ k.grants[i].gen = h.uses[i]
              /\ \A g \in 0 .. (GenMod - 1) : << g, i >> \in h.spent => g < h.uses[i]
            BY <1>0, <2>1, <2>2, <2>5, <3>2 DEF One
        <3>4. \A g : << g, i >> \in S <=> << g, i >> \in h.spent  BY Zenon, <1>9, <2>5
        <3> QED  BY <2>1, <2>5, <3>1, <3>3, <3>4 DEF One
    <2>6. SlotStep(i)  BY Zenon DEF SlotsStep
    <2> QED  BY Zenon, <2>3, <2>4, <2>5, <2>6 DEF SlotStep
<1>17. GenInv'  BY Zenon, <1>13, <1>16 DEF GenInv
<1> QED  BY <1>10, <1>11, <1>13, <1>15, <1>17

\* Only the creator of a channel has more than a read-only handle of its master
\* end, if that is so by the records the step writes.
LEMMA CreatorStep ==
    ASSUME NEW creator, Owing(k', NoChan), RightCreators(creator),
           \A c \in Chan : c \in k'.heap => h'.creator[c] = creator[c]
    PROVE  OnlyCreatorWrites'
<1> SUFFICES ASSUME NEW p \in Proc, NEW x \in Handle, Master(k'.handles[p][x])
             PROVE  h'.creator[k'.handles[p][x].ch] = p
    BY Zenon DEF OnlyCreatorWrites, Master
<1>1. k'.handles[p][x] \in Entry  BY DEF Owing, KState
<1>2. k'.handles[p][x].ch \in Chan  BY Zenon, <1>1 DEF Entry, Master
<1>3. k'.handles[p][x].ch \in k'.heap  BY Zenon, <1>2, HandleLive
<1>4. creator[k'.handles[p][x].ch] = p  BY DEF RightCreators
<1> QED  BY Zenon, <1>2, <1>3, <1>4

-----------------------------------------------------------------------------
\* At boot there are no channels, no handles and no grants.
LEMMA ChInvInit == Init => ChInv
<1> SUFFICES ASSUME Init PROVE ChInv
    BY Zenon
<1> USE ChannelAssumption
<1>1. NoEntry \in Entry /\ NoEntry.ch = NoChan /\ NoBind \in Bind /\ NoBind.ch = NoChan
    BY Zenon DEF NoEntry, Entry, NoBind, Bind, Ends
<1>2. k \in KState
    <2>1. [used |-> FALSE, from |-> 0, to |-> 0, ch |-> NoChan, gen |-> 0] \in Grant
        BY DEF Grant
    <2>2. [x \in Handle |-> NoEntry] \in [Handle -> Entry]  BY Zenon, <1>1
    <2> QED  BY <1>1, <2>1, <2>2 DEF Init, KState
<1>3. \A c \in Chan : HeldIn(k, c) = {} /\ GrantedIn(k, c) = {} /\ StagedIn(k, c) = {}
    BY <1>1 DEF Init, HeldIn, GrantedIn, StagedIn
<1>4. \A c \in Chan : Users(k, c) = 0  BY <1>3, FS_EmptySet DEF Users
<1>5. Owing(k, NoChan)
    <2>1. k.heap = {} /\ \A c \in Chan : k.ref[c] = 0  BY Zenon DEF Init
    <2>2. \A i \in Slot : k.grants[i].used = FALSE  BY Zenon DEF Init
    <2> QED  BY <1>2, <1>4, <2>1, <2>2 DEF Owing
<1>6. h \in History  BY DEF Init, History, Nobody, Gone
<1>7. FreeHoldsNothing  BY Zenon, <1>1 DEF Init, FreeHoldsNothing
<1>8. GrantInv  BY Zenon DEF Init, GrantInv
<1>9. GenInv  BY DEF Init, GenInv, One
<1>10. OnlyCreatorWrites  BY Zenon, <1>1 DEF Init, OnlyCreatorWrites
<1>11. \A fd \in Fd : k.staged[fd] = NoBind  BY Zenon DEF Init
<1> QED  BY Zenon, <1>5, <1>6, <1>7, <1>8, <1>9, <1>10, <1>11 DEF ChInv

\* The invariant holds after a step that leaves counts exact and nothing staged,
\* and whose records of targets and creators are right.
LEMMA ChInvNext ==
    ASSUME ChInv, NEW target, NEW creator, Track(target, creator), Settled, SlotsStep,
           RightTargets(target), RightCreators(creator)
    PROVE  ChInv'
<1>1. /\ Owing(k, NoChan)' /\ Owing(k', NoChan) /\ k \in KState /\ k' \in KState
      /\ h \in History /\ GenInv
    BY Zenon DEF Settled, ChInv, Owing, Users, HeldIn, GrantedIn, StagedIn
<1>2. /\ target \in [Slot -> Proc \cup {Nobody, Gone}]
      /\ creator \in [Chan -> Proc \cup {Nobody}]
    BY Zenon DEF RightTargets, RightCreators
<1>3. /\ h' \in History /\ GenInv'
      /\ \A i \in Slot : k'.grants[i].used => h'.target[i] = target[i]
      /\ \A c \in Chan : c \in k'.heap => h'.creator[c] = creator[c]
    BY Zenon, <1>1, <1>2, HistoryStep
<1>4. GrantInv'  BY Zenon, <1>3 DEF GrantInv, RightTargets
<1>5. FreeHoldsNothing'  BY Zenon DEF FreeHoldsNothing, Settled
<1>6. OnlyCreatorWrites'  BY Zenon, <1>1, <1>3, CreatorStep
<1>7. \A fd \in Fd : k'.staged[fd] = NoBind  BY DEF Settled
<1> QED  BY Zenon, <1>1, <1>3, <1>4, <1>5, <1>6, <1>7 DEF ChInv

\* A step that changes no grant and makes no creator.
QuietChange ==
    /\ Track(h.target, h.creator)
    /\ Owing(k', NoChan)
    /\ \A fd \in Fd : k'.staged[fd] = NoBind
    /\ k'.grants = k.grants
    /\ \A p \in Proc : k'.state[p] = "FREE" => k.state[p] = "FREE"
    /\ \A p \in Proc, x \in Handle :
         \/ k'.handles[p][x] = k.handles[p][x]
         \/ k'.handles[p][x].ch = NoChan
         \/ k'.state[p] # "FREE" /\ k'.handles[p][x].end = "slave"

\* The types of the records.
LEMMA HistoryTypes ==
    ASSUME ChInv
    PROVE  /\ h.target \in [Slot -> Proc \cup {Nobody, Gone}]
           /\ h.creator \in [Chan -> Proc \cup {Nobody}]
           /\ h.uses \in [Slot -> 0 .. MaxGrants]
  BY DEF ChInv, History

\* No slot is granted, so no use is counted.
LEMMA NoNewGrant ==
    ASSUME ChInv, NEW target, NEW creator, Track(target, creator),
           \A i \in Slot : SlotStep(i) /\ (k'.grants[i].used => k.grants[i].used)
    PROVE  SlotsStep
<1> DEFINE U == [i \in Slot |-> IF ~k.grants[i].used /\ k'.grants[i].used
                                THEN h.uses[i] + 1 ELSE h.uses[i]]
<1>1. h'.uses = U  BY Zenon DEF Track
<1>2. \A i \in Slot : U[i] = h.uses[i]  OBVIOUS
<1> HIDE DEF U
<1>3. \A i \in Slot : h'.uses[i] = h.uses[i]  BY <1>1, <1>2
<1>4. h.uses \in [Slot -> 0 .. MaxGrants] /\ MaxGrants \in Nat
    BY HistoryTypes, ChannelAssumption
<1>5. \A i \in Slot : h.uses[i] <= MaxGrants  BY <1>4
<1> QED  BY Zenon, <1>3, <1>5 DEF SlotsStep

LEMMA QuietStep == ASSUME ChInv, QuietChange PROVE ChInv'
<1>1. Track(h.target, h.creator) /\ k'.grants = k.grants  BY DEF QuietChange
<1>2. SlotsStep
    <2>1. \A i \in Slot : SlotStep(i) /\ (k'.grants[i].used => k.grants[i].used)
        BY Zenon, <1>1 DEF SlotStep
    <2> QED  BY Zenon, <1>1, <2>1, NoNewGrant
<1>3. Settled
    <2>1. \A p \in Proc, x \in Handle : k'.state[p] = "FREE" => k'.handles[p][x].ch = NoChan
        BY DEF QuietChange, ChInv, FreeHoldsNothing
    <2> QED  BY Zenon, <2>1 DEF QuietChange, Settled
<1>4. RightTargets(h.target)
    <2> SUFFICES ASSUME NEW i \in Slot, k'.grants[i].used
                 PROVE  /\ h.target[i] \in {Nobody, k'.grants[i].to}
                        /\ k'.state[k'.grants[i].from] # "FREE"
        BY Zenon, HistoryTypes DEF RightTargets
    <2>1. h.target[i] \in {Nobody, k.grants[i].to} /\ k.state[k.grants[i].from] # "FREE"
        BY Zenon, <1>1 DEF ChInv, GrantInv
    <2>2. k.grants[i].from \in Proc  BY Zenon, <1>1 DEF ChInv, Owing
    <2> QED  BY <1>1, <2>1, <2>2 DEF QuietChange
<1>5. RightCreators(h.creator)
    <2> SUFFICES ASSUME NEW p \in Proc, NEW x \in Handle, Master(k'.handles[p][x])
                 PROVE  h.creator[k'.handles[p][x].ch] = p
        BY Zenon, HistoryTypes DEF RightCreators
    <2>1. k'.handles[p][x] = k.handles[p][x]  BY Zenon DEF QuietChange, Master
    <2> QED  BY Zenon, <2>1 DEF ChInv, OnlyCreatorWrites, Master
<1> QED  BY <1>1, <1>2, <1>3, <1>4, <1>5, ChInvNext

\* sys_ch_create(), with and without room in the handle table.
LEMMA CreateStep == ASSUME ChInv, NEW p \in Proc, Create(p) PROVE ChInv'
<1>1. PICK c \in Chan \ k.heap, byte \in BOOLEAN :
        LET q == [k EXCEPT !.heap = @ \cup {c}, !.ref[c] = 1,
                           !.byte = IF byte THEN @ \cup {c} ELSE @ \ {c}]
        IN  /\ k' = IF FreeHandle(q, p) = 0 THEN channel_unref(q, c)
                    ELSE process_alloc_handle(q, p, c, "master", CH_R_ALL)
            /\ Track(h.target, [h.creator EXCEPT ![c] = p])
    BY Zenon DEF Create
<1> DEFINE q == [k EXCEPT !.heap = @ \cup {c}, !.ref[c] = 1,
                          !.byte = IF byte THEN @ \cup {c} ELSE @ \ {c}]
           creator == [h.creator EXCEPT ![c] = p]
<1>2. /\ k \in KState /\ k.ref \in [Chan -> Nat] /\ k.heap \in SUBSET Chan
      /\ k.handles \in [Proc -> [Handle -> Entry]] /\ k.byte \in SUBSET Chan
    BY DEF ChInv, Owing, KState
<1>3. /\ q.handles = k.handles /\ q.grants = k.grants /\ q.staged = k.staged
      /\ q.state = k.state /\ q.ref = [k.ref EXCEPT ![c] = 1] /\ q.heap = k.heap \cup {c}
    BY <1>2 DEF KState
<1>4. q \in KState
    <2>1. q.ref \in [Chan -> Nat] /\ q.heap \in SUBSET Chan  BY <1>2, <1>3
    <2>2. q.byte \in SUBSET Chan  BY <1>2 DEF KState
    <2> QED  BY Zenon, <1>2, <2>1, <2>2 DEF KState
<1>5. k.ref[c] = 0 /\ Users(k, c) = 0
    <2>1. k.ref[c] = Users(k, c)  BY ChannelAssumption, UsersFinite DEF ChInv, Owing
    <2> QED  BY <1>1, <1>2, <2>1 DEF ChInv, Owing
<1>6. k' = IF FreeHandle(q, p) = 0 THEN channel_unref(q, c)
           ELSE process_alloc_handle(q, p, c, "master", CH_R_ALL)
    BY Zenon, <1>1
<1> HIDE DEF q
<1>7. Owing(q, c)
    <2>1. \A d \in Chan : Users(q, d) = Users(k, d)  BY Zenon, <1>3, SameUsers
    <2>2. \A d \in Chan : k.ref[d] = Users(k, d)  BY ChannelAssumption, UsersFinite DEF ChInv, Owing
    <2>3. \A d \in Chan : q.ref[d] = Users(q, d) + (IF d = c THEN 1 ELSE 0)
        BY <1>2, <1>3, <1>5, <2>1, <2>2, UsersFinite
    <2>4. \A d \in Chan : d \in q.heap <=> q.ref[d] > 0
        BY <1>2, <1>3 DEF ChInv, Owing
    <2> QED  BY Zenon, <1>3, <1>4, <2>3, <2>4 DEF ChInv, Owing
<1>8. /\ Owing(k', NoChan) /\ k'.grants = k.grants /\ k'.staged = k.staged
      /\ k'.state = k.state
      /\ \/ k'.handles = k.handles
         \/ \E x \in Handle : k'.handles = [k.handles EXCEPT ![p][x] =
                  [ch |-> c, end |-> "master", rights |-> CH_R_ALL]]
    <2>1. CASE FreeHandle(q, p) = 0
        BY <1>3, <1>6, <1>7, <2>1, UnrefPays
    <2>2. CASE FreeHandle(q, p) # 0
        <3>1. "master" \in Ends /\ CH_R_ALL \in SUBSET Rights  BY DEF Ends, CH_R_ALL
        <3>2. FreeHandle(q, p) \in Handle  BY <2>2, FreeHandleEmpty
        <3>3. /\ Owing(k', NoChan) /\ k'.grants = q.grants /\ k'.staged = q.staged
              /\ k'.state = q.state
              /\ k'.handles = [q.handles EXCEPT ![p][FreeHandle(q, p)] =
                                 [ch |-> c, end |-> "master", rights |-> CH_R_ALL]]
            BY <1>6, <1>7, <2>2, <3>1, AllocPays
        <3> QED  BY Zenon, <1>3, <3>2, <3>3
    <2> QED  BY Zenon, <2>1, <2>2
<1>9. creator \in [Chan -> Proc \cup {Nobody}]  BY HistoryTypes
<1>10. Track(h.target, creator)  BY Zenon, <1>1
<1>11. creator[c] = p /\ \A d \in Chan : d # c => creator[d] = h.creator[d]  BY Zenon, HistoryTypes
<1> HIDE DEF creator
<1>12. SlotsStep
    <2>1. \A i \in Slot : SlotStep(i) /\ (k'.grants[i].used => k.grants[i].used)
        BY Zenon, <1>8 DEF SlotStep
    <2> QED  BY Zenon, <1>10, <2>1, NoNewGrant
<1>13. RightTargets(h.target)
    BY Zenon, <1>8, HistoryTypes DEF RightTargets, ChInv, GrantInv
<1>14. \A s \in Proc, x \in Handle :
           \/ k'.handles[s][x] = k.handles[s][x]
           \/ s = p /\ k'.handles[s][x].ch = c
    <2>1. CASE k'.handles = k.handles  BY Zenon, <2>1
    <2>2. ASSUME NEW y \in Handle,
                 k'.handles = [k.handles EXCEPT ![p][y] =
                                 [ch |-> c, end |-> "master", rights |-> CH_R_ALL]]
          PROVE  \A s \in Proc, x \in Handle :
                     \/ k'.handles[s][x] = k.handles[s][x]
                     \/ s = p /\ k'.handles[s][x].ch = c
        BY <1>2, <2>2
    <2> QED  BY Zenon, <1>8, <2>1, <2>2
<1>15. Settled
    <2> SUFFICES ASSUME NEW s \in Proc, NEW x \in Handle, k'.state[s] = "FREE"
                 PROVE  k'.handles[s][x].ch = NoChan
        BY <1>8 DEF Settled, ChInv
    <2>1. k.state[s] = "FREE" /\ k.state[p] = "LIVE"  BY Zenon, <1>8 DEF Create, Live
    <2>2. k'.handles[s][x] = k.handles[s][x]  BY Zenon, <1>14, <2>1
    <2> QED  BY Zenon, <2>1, <2>2 DEF ChInv, FreeHoldsNothing
<1>16. RightCreators(creator)
    <2> SUFFICES ASSUME NEW s \in Proc, NEW x \in Handle, Master(k'.handles[s][x])
                 PROVE  creator[k'.handles[s][x].ch] = s
        BY Zenon, <1>9 DEF RightCreators
    <2>1. CASE k'.handles[s][x] = k.handles[s][x]
        <3>1. k.handles[s][x] \in Entry  BY Zenon, <1>2
        <3>2. k.handles[s][x].ch \in Chan  BY Zenon, <2>1, <3>1 DEF Entry, Master
        <3>3. k.handles[s][x].ch # c  BY <3>2, HandleLive DEF ChInv
        <3>4. h.creator[k.handles[s][x].ch] = s
            BY Zenon, <2>1 DEF ChInv, OnlyCreatorWrites, Master
        <3> QED  BY Zenon, <1>11, <2>1, <3>2, <3>3, <3>4
    <2>2. CASE s = p /\ k'.handles[s][x].ch = c  BY <1>11, <2>2
    <2> QED  BY Zenon, <1>14, <2>1, <2>2
<1> QED  BY Zenon, <1>10, <1>12, <1>13, <1>15, <1>16, ChInvNext

\* sys_ch_close().
LEMMA CloseStep ==
    ASSUME ChInv, NEW p \in Proc, NEW x \in Handle, sys_ch_close(p, x)
    PROVE  ChInv'
<1>1. k' = process_close_handle(k, p, x) /\ Track(h.target, h.creator)
    BY Zenon DEF sys_ch_close
<1>2. /\ Owing(k', NoChan) /\ k'.handles = [k.handles EXCEPT ![p][x] = NoEntry]
      /\ k'.grants = k.grants /\ k'.staged = k.staged /\ k'.state = k.state
    BY <1>1, CloseKeeps DEF ChInv
<1>3. k.handles \in [Proc -> [Handle -> Entry]]  BY Zenon DEF ChInv, Owing, KState
<1>4. NoEntry.ch = NoChan  BY Zenon DEF NoEntry
<1>5. \A s \in Proc, y \in Handle :
          k'.handles[s][y] = k.handles[s][y] \/ k'.handles[s][y].ch = NoChan
    BY <1>2, <1>3, <1>4
<1>6. QuietChange  BY <1>1, <1>2, <1>5 DEF QuietChange, ChInv
<1> QED  BY <1>6, QuietStep

\* A process dies: nothing is released yet.
LEMMA ExitStep == ASSUME ChInv, NEW p \in Proc, Exit(p) PROVE ChInv'
<1>1. k' = [k EXCEPT !.state[p] = "TERMINATED"] /\ Track(h.target, h.creator)
    BY Zenon DEF Exit
<1>2. k \in KState /\ k.state \in [Proc -> {"FREE", "LIVE", "TERMINATED"}]
    BY DEF ChInv, Owing, KState
<1>3. /\ k'.handles = k.handles /\ k'.grants = k.grants /\ k'.staged = k.staged
      /\ k'.ref = k.ref /\ k'.heap = k.heap
      /\ k'.state = [k.state EXCEPT ![p] = "TERMINATED"]
    BY <1>1, <1>2 DEF KState
<1>4. k' \in KState
    <2>1. k'.state \in [Proc -> {"FREE", "LIVE", "TERMINATED"}]  BY <1>2, <1>3
    <2> QED  BY Zenon, <1>1, <1>2, <1>3, <2>1 DEF KState
<1>5. \A c : Users(k', c) = Users(k, c)  BY <1>3, SameUsers
<1>6. Owing(k', NoChan)  BY <1>3, <1>4, <1>5 DEF ChInv, Owing
<1>7. \A s \in Proc : k'.state[s] = "FREE" => k.state[s] = "FREE"  BY Zenon, <1>2, <1>3
<1>8. QuietChange  BY <1>1, <1>3, <1>6, <1>7 DEF QuietChange, ChInv
<1> QED  BY <1>8, QuietStep

\* sys_spawn_ex(): a bad handle, a failed load or a child with bound stdio.
LEMMA SpawnStep ==
    ASSUME ChInv, NEW p \in Proc, NEW hin \in Bindings, sys_spawn_ex(p, hin)
    PROVE  ChInv'
<1> DEFINE staged == stage_spawn_stdio(k, p, hin)
           free   == {c \in Proc : k.state[c] = "FREE"}
           child  == Min(free)
           born   == [staged EXCEPT !.state[child] = "LIVE"]
           loaded == channel_install_spawn_stdio(born, child)
<1>1. Owing(staged, NoChan) /\ Frame(k, staged)
    BY StageKeeps DEF ChInv
<1>2. Track(h.target, h.creator)  BY DEF sys_spawn_ex
<1>3. CASE k' = clear_spawn_stdio(staged)
    <2>1. /\ Owing(k', NoChan) /\ Frame(staged, k') /\ \A fd \in Fd : k'.staged[fd] = NoBind
        <3> HIDE DEF staged
        <3> QED  BY Zenon, <1>1, <1>3, ClearKeeps
    <2>2. k'.handles = k.handles /\ k'.grants = k.grants /\ k'.state = k.state
        BY Zenon, <1>1, <2>1 DEF Frame
    <2>3. QuietChange  BY Zenon, <1>2, <2>1, <2>2 DEF QuietChange
    <2> QED  BY Zenon, <2>3, QuietStep
<1>4. CASE free # {} /\ k' = clear_spawn_stdio(loaded)
    <2>1. child \in free
        <3>1. free \in SUBSET Nat  BY Zenon, ChannelAssumption
        <3> HIDE DEF free
        <3> QED  BY Zenon, <1>4, <3>1, LeastOfNat
    <2>2. child \in Proc  BY Zenon, <2>1
    <2> HIDE DEF staged, free, child
    <2>3. staged \in KState /\ staged.state \in [Proc -> {"FREE", "LIVE", "TERMINATED"}]
        BY <1>1 DEF Owing, KState
    <2>4. /\ born.handles = staged.handles /\ born.grants = staged.grants
          /\ born.staged = staged.staged /\ born.ref = staged.ref
          /\ born.heap = staged.heap /\ born.state = [staged.state EXCEPT ![child] = "LIVE"]
        BY Zenon, <2>3 DEF KState
    <2>5. born \in KState
        <3>1. born.state \in [Proc -> {"FREE", "LIVE", "TERMINATED"}]  BY Zenon, <2>3, <2>4
        <3> QED  BY Zenon, <2>3, <2>4, <3>1 DEF KState
    <2> HIDE DEF born
    <2>6. \A c : Users(born, c) = Users(staged, c)  BY <2>4, SameUsers
    <2>7. Owing(born, NoChan)  BY <1>1, <2>4, <2>5, <2>6 DEF Owing
    <2>8. Owing(loaded, NoChan) /\ SlaveOnly(born, loaded, child)
        BY Zenon, <2>2, <2>7, InstallKeeps
    <2> HIDE DEF loaded
    <2>9. Owing(k', NoChan) /\ Frame(loaded, k') /\ \A fd \in Fd : k'.staged[fd] = NoBind
        BY Zenon, <1>4, <2>8, ClearKeeps
    <2>10. k'.grants = k.grants /\ k'.state = [k.state EXCEPT ![child] = "LIVE"]
        BY Zenon, <1>1, <2>4, <2>8, <2>9 DEF Frame, SlaveOnly
    <2>11. k.state \in [Proc -> {"FREE", "LIVE", "TERMINATED"}]  BY Zenon DEF ChInv, Owing, KState
    <2>12. \A s \in Proc : k'.state[s] = "FREE" => k.state[s] = "FREE"  BY Zenon, <2>10, <2>11
    <2>13. \A s \in Proc, y \in Handle :
               \/ k'.handles[s][y] = k.handles[s][y]
               \/ k'.state[s] # "FREE" /\ k'.handles[s][y].end = "slave"
        BY <1>1, <2>2, <2>4, <2>8, <2>9, <2>10, <2>11 DEF Frame, SlaveOnly
    <2>14. QuietChange  BY <1>2, <2>9, <2>10, <2>12, <2>13 DEF QuietChange
    <2> QED  BY <2>14, QuietStep
<1> QED  BY <1>3, <1>4 DEF sys_spawn_ex

\* sys_ch_grant(): the grant is the user of the reference it takes.
LEMMA GrantStep ==
    ASSUME ChInv, NEW p \in Proc, NEW x \in Handle, NEW to \in Proc, sys_ch_grant(p, x, to)
    PROVE  ChInv'
<1> DEFINE c == k.handles[p][x].ch
           m == channel_ref(k, c)
<1>1. PICK i \in Slot :
        /\ ~k.grants[i].used
        /\ k' = [channel_ref(k, c) EXCEPT
                    !.grants[i] = [@ EXCEPT !.used = TRUE, !.from = p, !.to = to, !.ch = c]]
        /\ Track([h.target EXCEPT ![i] = IF k.state[to] = "FREE" THEN Nobody ELSE to],
                 h.creator)
    BY Zenon DEF sys_ch_grant
<1> DEFINE g == [k.grants[i] EXCEPT !.used = TRUE, !.from = p, !.to = to, !.ch = c]
           target == [h.target EXCEPT ![i] = IF k.state[to] = "FREE" THEN Nobody ELSE to]
<1>2. /\ Owing(k, NoChan) /\ k \in KState /\ k.handles \in [Proc -> [Handle -> Entry]]
      /\ k.grants \in [Slot -> Grant] /\ k.byte \in SUBSET Chan
    BY Zenon DEF ChInv, Owing, KState
<1>3. c \in Chan
    <2>1. k.handles[p][x] \in Entry  BY Zenon, <1>2
    <2>2. process_get_handle(k, p, x, {"read"}) \in Chan  BY Zenon, <1>2 DEF sys_ch_grant
    <2>3. process_get_handle(k, p, x, {"read"}) # NoChan  BY Zenon, <2>2, ChannelAssumption
    <2> QED  BY Zenon, <2>2, <2>3 DEF process_get_handle
<1>4. c \in k.heap  BY <1>2, <1>3, HandleLive
<1>5. k.grants[i] \in Grant  BY <1>2
<1>6. /\ g \in Grant /\ g.used /\ g.ch = c /\ g.from = p /\ g.to = to
      /\ g.gen = k.grants[i].gen
    <2> HIDE DEF c
    <2> QED  BY Zenon, <1>3, <1>5 DEF Grant
<1>7. /\ Owing(m, c) /\ m.handles = k.handles /\ m.grants = k.grants
      /\ m.staged = k.staged /\ m.state = k.state
    <2> HIDE DEF c
    <2> QED  BY <1>2, <1>3, <1>4, RefOwes
<1>8. k' = [m EXCEPT !.grants[i] = g]  BY <1>1, <1>7
<1>9. Track(target, h.creator)  BY Zenon, <1>1
<1> HIDE DEF c, m, g, target
<1>10. m \in KState  BY <1>7 DEF Owing
<1>11. /\ k'.handles = k.handles /\ k'.staged = k.staged /\ k'.state = k.state
       /\ k'.ref = m.ref /\ k'.heap = m.heap /\ k'.grants = [k.grants EXCEPT ![i] = g]
    BY <1>7, <1>8, <1>10 DEF KState
<1>12. k' \in KState
    <2>1. k'.grants \in [Slot -> Grant]  BY <1>2, <1>6, <1>11
    <2> QED  BY Zenon, <1>8, <1>10, <1>11, <2>1 DEF KState
<1>13. ASSUME NEW d \in Chan PROVE k'.ref[d] = Users(k', d)
    <2>1. Cardinality(GrantedIn(k', d)) = Cardinality(GrantedIn(m, d))
              + One(g.used /\ g.ch = d) - One(m.grants[i].used /\ m.grants[i].ch = d)
        BY <1>7, <1>10, <1>11, GrantSet
    <2>2. Cardinality(GrantedIn(k', d)) = Cardinality(GrantedIn(m, d)) + One(c = d)
        <3>1. ~m.grants[i].used  BY <1>1, <1>7
        <3> QED  BY <1>6, <2>1, <3>1, UsersFinite DEF One
    <2>3. HeldIn(k', d) = HeldIn(m, d) /\ StagedIn(k', d) = StagedIn(m, d)
        BY Zenon, <1>7, <1>11 DEF HeldIn, StagedIn
    <2>4. k'.ref[d] = Users(m, d) + One(c = d)  BY Zenon, <1>7, <1>11 DEF Owing, One
    <2>5. One(c = d) \in Nat  BY DEF One
    <2> QED  BY <2>2, <2>3, <2>4, <2>5, UsersFinite DEF Users
<1>14. Owing(k', NoChan)
    <2>1. \A j \in Slot : k'.grants[j] = IF j = i THEN g ELSE k.grants[j]  BY <1>2, <1>11
    <2>2. \A j \in Slot : k'.grants[j].used => k'.grants[j].ch \in Chan
                              /\ k'.grants[j].from \in Proc /\ k'.grants[j].to \in Proc
        <3> TAKE j \in Slot
        <3>1. CASE j = i  BY Zenon, <1>3, <1>6, <2>1, <3>1
        <3>2. CASE j # i  BY Zenon, <1>2, <2>1, <3>2 DEF Owing
        <3> QED  BY Zenon, <3>1, <3>2
    <2>3. \A d \in Chan : d \in k'.heap <=> k'.ref[d] > 0  BY Zenon, <1>7, <1>11 DEF Owing
    <2> QED  BY Zenon, <1>12, <1>13, <2>2, <2>3, ExactOwing
<1>15. /\ target \in [Slot -> Proc \cup {Nobody, Gone}] /\ target[i] \in {Nobody, to}
       /\ \A j \in Slot : j # i => target[j] = h.target[j]
    BY HistoryTypes DEF target
<1>16. k'.grants[i] = g /\ \A j \in Slot : j # i => k'.grants[j] = k.grants[j]
    BY <1>2, <1>11
<1>17. SlotsStep
    <2>1. ~k.grants[i].used  BY <1>1
    <2>2. \A j \in Slot : SlotStep(j)  BY Zenon, <1>6, <1>16, <2>1 DEF SlotStep
    <2>3. \A j \in Slot : h'.uses[j] <= MaxGrants  BY Zenon DEF sys_ch_grant
    <2> QED  BY <2>2, <2>3 DEF SlotsStep
<1>18. RightTargets(target)
    <2> SUFFICES ASSUME NEW j \in Slot, k'.grants[j].used
                 PROVE  /\ target[j] \in {Nobody, k'.grants[j].to}
                        /\ k'.state[k'.grants[j].from] # "FREE"
        BY Zenon, <1>15 DEF RightTargets
    <2>1. CASE j = i
        <3>1. k'.state[p] = "LIVE"  BY Zenon, <1>11 DEF sys_ch_grant, Live
        <3> QED  BY Zenon, <1>6, <1>15, <1>16, <2>1, <3>1
    <2>2. CASE j # i
        <3>1. k'.grants[j] = k.grants[j] /\ target[j] = h.target[j]  BY Zenon, <1>15, <1>16, <2>2
        <3> QED  BY <1>11, <3>1 DEF ChInv, GrantInv
    <2> QED  BY Zenon, <2>1, <2>2
<1>19. Settled
    <2>1. \A fd \in Fd : k'.staged[fd] = NoBind  BY Zenon, <1>11 DEF ChInv
    <2>2. \A s \in Proc, y \in Handle : k'.state[s] = "FREE" => k'.handles[s][y].ch = NoChan
        <3>1. k'.state = k.state /\ k'.handles = k.handles  BY Zenon, <1>11
        <3>2. FreeHoldsNothing  BY Zenon DEF ChInv
        <3> QED  BY <3>1, <3>2 DEF FreeHoldsNothing
    <2> QED  BY Zenon, <1>14, <2>1, <2>2 DEF Settled
<1>20. RightCreators(h.creator)
    <2>1. \A s \in Proc, y \in Handle :
              Master(k.handles[s][y]) => h.creator[k.handles[s][y].ch] = s
        BY Zenon DEF Master, ChInv, OnlyCreatorWrites
    <2>2. k'.handles = k.handles  BY Zenon, <1>11
    <2>3. h.creator \in [Chan -> Proc \cup {Nobody}]  BY Zenon, HistoryTypes
    <2> QED  BY <2>1, <2>2, <2>3 DEF RightCreators
<1> QED  BY <1>9, <1>17, <1>18, <1>19, <1>20, ChInvNext

\* sys_ch_accept(): the reference moves from the grant to a read-only handle.
LEMMA AcceptStep ==
    ASSUME ChInv, NEW p \in Proc, NEW gen, NEW i \in Slot, sys_ch_accept(p, gen, i)
    PROVE  ChInv'
<1> DEFINE c == k.grants[i].ch
           x == FreeHandle(k, p)
           e == [ch |-> c, end |-> "master", rights |-> {"read"}]
           g == Spent(k.grants[i])
           m == [k EXCEPT !.handles[p][x] = e]
<1>1. /\ k.state[p] = "LIVE" /\ k.grants[i].used /\ x # 0
      /\ k' = [process_alloc_handle(k, p, c, "master", {"read"})
                  EXCEPT !.grants[i] = Spent(@)]
      /\ Track(h.target, h.creator)
    BY DEF sys_ch_accept, Live
<1>2. /\ Owing(k, NoChan) /\ k \in KState /\ k.handles \in [Proc -> [Handle -> Entry]]
      /\ k.grants \in [Slot -> Grant]
    BY Zenon DEF ChInv, Owing, KState
<1>3. x \in Handle /\ k.handles[p][x].ch = NoChan  BY Zenon, <1>1, FreeHandleEmpty
<1>4. c \in Chan  BY Zenon, <1>1, <1>2 DEF Owing
<1>5. k.grants[i] \in Grant  BY Zenon, <1>2
<1>6. g \in Grant /\ g.used = FALSE  BY Zenon, <1>5, SpentIs
<1>7. e \in Entry /\ e.ch = c /\ e.rights = {"read"}
    <2> HIDE DEF c
    <2> QED  BY <1>4 DEF Entry, Ends, Rights
<1>8. process_alloc_handle(k, p, c, "master", {"read"}) = m
    BY <1>1 DEF process_alloc_handle
<1> HIDE DEF c, x, e
<1>9. m.grants = k.grants  BY <1>2 DEF KState
<1>10. k' = [m EXCEPT !.grants[i] = g]
    <2>1. k' = [m EXCEPT !.grants[i] = Spent(m.grants[i])]  BY Zenon, <1>1, <1>8
    <2> QED  BY <1>9, <2>1
<1>11. m.handles \in [Proc -> [Handle -> Entry]]
       /\ m.handles = [k.handles EXCEPT ![p][x] = e]
    <2>1. [k.handles[p] EXCEPT ![x] = e] \in [Handle -> Entry]  BY <1>2, <1>3, <1>7
    <2>2. m.handles = [k.handles EXCEPT ![p][x] = e]  BY <1>2 DEF KState
    <2> QED  BY <1>2, <2>1, <2>2
<1>12. m \in KState  BY Zenon, <1>2, <1>11 DEF KState
<1>13. /\ m.staged = k.staged /\ m.state = k.state /\ m.ref = k.ref /\ m.heap = k.heap
    BY <1>2 DEF KState
<1> HIDE DEF m, g
<1>14. /\ k'.handles = m.handles /\ k'.staged = k.staged /\ k'.state = k.state
       /\ k'.ref = k.ref /\ k'.heap = k.heap /\ k'.grants = [k.grants EXCEPT ![i] = g]
    BY <1>9, <1>10, <1>12, <1>13 DEF KState
<1>15. k' \in KState
    <2>1. k'.grants \in [Slot -> Grant]  BY <1>2, <1>6, <1>14
    <2> QED  BY Zenon, <1>10, <1>12, <1>14, <2>1 DEF KState
<1>16. ASSUME NEW d \in Chan PROVE k'.ref[d] = Users(k', d)
    <2>1. Cardinality(GrantedIn(k', d)) = Cardinality(GrantedIn(k, d)) - One(c = d)
        <3>1. Cardinality(GrantedIn(k', d)) = Cardinality(GrantedIn(k, d))
                  + One(g.used /\ g.ch = d) - One(k.grants[i].used /\ k.grants[i].ch = d)
            <4>1. k \in KState /\ k'.grants = [k.grants EXCEPT ![i] = g]  BY Zenon, <1>2, <1>14
            <4> QED  BY <4>1, GrantSet
        <3>2. k.grants[i].used  BY Zenon, <1>1
        <3> QED  BY <1>6, <3>1, <3>2, UsersFinite DEF One, c
    <2>2. Cardinality(HeldIn(k', d)) = Cardinality(HeldIn(k, d)) + One(c = d)
        <3>1. Puts(k'.handles, k.handles, p, x, e)  BY Zenon, <1>11, <1>14 DEF Puts
        <3>2. Cardinality(HeldIn(k', d)) = Cardinality(HeldIn(k, d)) + One(e.ch = d)
                  - One(k.handles[p][x].ch = d)
            <4>1. k \in KState /\ x \in Handle  BY Zenon, <1>2, <1>3
            <4> QED  BY <3>1, <4>1, HandleSet
        <3>3. k.handles[p][x].ch # d  BY Zenon, <1>3, ChannelAssumption
        <3> QED  BY <1>7, <3>2, <3>3, UsersFinite DEF One
    <2>3. StagedIn(k', d) = StagedIn(k, d)  BY Zenon, <1>14 DEF StagedIn
    <2>4. k'.ref[d] = Users(k, d)
        <3>1. Owing(k, NoChan) /\ k'.ref = k.ref  BY Zenon, <1>2, <1>14
        <3> QED  BY <3>1, ExactRef
    <2>5. One(c = d) \in Nat  BY DEF One
    <2> QED  BY <2>1, <2>2, <2>3, <2>4, <2>5, UsersFinite DEF Users
<1>17. Owing(k', NoChan)
    <2>1. \A j \in Slot : k'.grants[j] = IF j = i THEN g ELSE k.grants[j]  BY <1>2, <1>14
    <2>2. \A j \in Slot : k'.grants[j].used => k'.grants[j].ch \in Chan
                              /\ k'.grants[j].from \in Proc /\ k'.grants[j].to \in Proc
        <3> TAKE j \in Slot
        <3>1. CASE j = i  BY Zenon, <1>6, <2>1, <3>1
        <3>2. CASE j # i  BY Zenon, <1>2, <2>1, <3>2 DEF Owing
        <3> QED  BY Zenon, <3>1, <3>2
    <2>3. \A d \in Chan : d \in k'.heap <=> k'.ref[d] > 0  BY Zenon, <1>2, <1>14 DEF Owing
    <2> QED  BY Zenon, <1>15, <1>16, <2>2, <2>3, ExactOwing
<1>18. Track(h.target, h.creator)  BY <1>1
<1>19. /\ k'.grants[i] = g /\ k.grants[i].used
       /\ \A j \in Slot : j # i => k'.grants[j] = k.grants[j]
    BY <1>1, <1>2, <1>14
<1>20. SlotsStep
    <2>1. \A j \in Slot : SlotStep(j)  BY <1>19 DEF SlotStep, g
    <2>2. \A j \in Slot : k'.grants[j].used => k.grants[j].used  BY Zenon, <1>6, <1>19
    <2> QED  BY Zenon, <1>18, <2>1, <2>2, NoNewGrant
<1>21. RightTargets(h.target)
    <2> SUFFICES ASSUME NEW j \in Slot, k'.grants[j].used
                 PROVE  /\ h.target[j] \in {Nobody, k'.grants[j].to}
                        /\ k'.state[k'.grants[j].from] # "FREE"
        BY Zenon, HistoryTypes DEF RightTargets
    <2>1. k'.grants[j] = k.grants[j]  BY Zenon, <1>6, <1>19
    <2> QED  BY <1>14, <2>1 DEF ChInv, GrantInv
<1>22. \A s \in Proc, y \in Handle :
           k'.handles[s][y] = k.handles[s][y] \/ (s = p /\ k'.handles[s][y] = e)
    <2> TAKE s \in Proc, y \in Handle
    <2>1. CASE s # p  BY <1>2, <1>11, <1>14, <2>1
    <2>2. CASE s = p
        <3>1. k'.handles[p] = [k.handles[p] EXCEPT ![x] = e]  BY Zenon, <1>2, <1>11, <1>14
        <3>2. k.handles[p] \in [Handle -> Entry]  BY Zenon, <1>2
        <3> QED  BY Zenon, <2>2, <3>1, <3>2
    <2> QED  BY <2>1, <2>2
<1>23. Settled
    <2> SUFFICES ASSUME NEW s \in Proc, NEW y \in Handle, k'.state[s] = "FREE"
                 PROVE  k'.handles[s][y].ch = NoChan
        BY <1>14, <1>17 DEF Settled, ChInv
    <2>1. k.state[s] = "FREE" /\ s # p  BY Zenon, <1>1, <1>14
    <2>2. k'.handles[s][y] = k.handles[s][y]  BY Zenon, <1>22, <2>1
    <2> QED  BY <2>1, <2>2 DEF ChInv, FreeHoldsNothing
<1>24. RightCreators(h.creator)
    <2> SUFFICES ASSUME NEW s \in Proc, NEW y \in Handle, Master(k'.handles[s][y])
                 PROVE  h.creator[k'.handles[s][y].ch] = s
        BY Zenon, HistoryTypes DEF RightCreators
    <2>1. k'.handles[s][y] = k.handles[s][y]  BY <1>7, <1>22 DEF Master
    <2> QED  BY Zenon, <2>1 DEF ChInv, OnlyCreatorWrites, Master
<1> QED  BY <1>18, <1>20, <1>21, <1>23, <1>24, ChInvNext

\* process_unref() to zero: the handles are closed, the grants from and to the
\* process are swept, and with them every claim of its pid.
LEMMA ReapStep == ASSUME ChInv, NEW p \in Proc, Reap(p) PROVE ChInv'
<1> DEFINE q == [k EXCEPT !.state[p] = "FREE"]
           target == [i \in Slot |-> IF h.target[i] = p THEN Gone ELSE h.target[i]]
           creator == [c \in Chan |-> IF h.creator[c] = p THEN Nobody ELSE h.creator[c]]
<1>1. k' = channel_cleanup_process(q, p) /\ Track(target, creator)
    BY Zenon DEF Reap
<1>2. /\ Owing(k, NoChan) /\ k \in KState /\ k.handles \in [Proc -> [Handle -> Entry]]
      /\ k.grants \in [Slot -> Grant]
      /\ k.state \in [Proc -> {"FREE", "LIVE", "TERMINATED"}]
    BY Zenon DEF ChInv, Owing, KState
<1>3. /\ q.handles = k.handles /\ q.grants = k.grants /\ q.staged = k.staged
      /\ q.ref = k.ref /\ q.heap = k.heap /\ q.state = [k.state EXCEPT ![p] = "FREE"]
    BY <1>2 DEF KState
<1>4. q \in KState
    <2>1. q.state \in [Proc -> {"FREE", "LIVE", "TERMINATED"}]  BY <1>2, <1>3
    <2> QED  BY Zenon, <1>2, <1>3, <2>1 DEF KState
<1> HIDE DEF q, target, creator
<1>5. \A c : Users(q, c) = Users(k, c)  BY <1>3, SameUsers
<1>6. Owing(q, NoChan)  BY <1>2, <1>3, <1>4, <1>5 DEF Owing
<1>7. /\ Owing(k', NoChan)
      /\ k'.handles = [q.handles EXCEPT ![p] = [x \in Handle |-> NoEntry]]
      /\ k'.grants = [i \in Slot |-> IF i \in Swept(q, p) THEN Spent(q.grants[i])
                                     ELSE q.grants[i]]
      /\ k'.staged = q.staged /\ k'.state = q.state
    BY Zenon, <1>1, <1>6, CleanupKeeps
<1>8. Swept(q, p) = Swept(k, p)  BY Zenon, <1>3 DEF Swept
<1>9. \A i \in Slot : k'.grants[i] = IF i \in Swept(k, p) THEN Spent(k.grants[i])
                                     ELSE k.grants[i]
    <2>1. k'.grants = [i \in Slot |-> IF i \in Swept(k, p) THEN Spent(k.grants[i])
                                      ELSE k.grants[i]]
        BY Zenon, <1>3, <1>7, <1>8
    <2> QED  BY <2>1
<1>10. \A i \in Slot : k'.grants[i].used =>
           /\ k'.grants[i] = k.grants[i] /\ k.grants[i].used
           /\ k.grants[i].from # p /\ k.grants[i].to # p
    <2> TAKE i \in Slot
    <2>1. k.grants[i] \in Grant  BY Zenon, <1>2
    <2>2. Spent(k.grants[i]).used = FALSE  BY Zenon, <2>1, SpentIs
    <2> QED  BY Zenon, <1>9, <2>2 DEF Swept
<1>11. Track(target, creator)  BY <1>1
<1>12. SlotsStep
    <2>1. \A i \in Slot : SlotStep(i)  BY <1>9 DEF SlotStep, Swept
    <2>2. \A i \in Slot : k'.grants[i].used => k.grants[i].used  BY Zenon, <1>10
    <2> QED  BY <1>11, <2>1, <2>2, NoNewGrant
<1>13. \A x \in Handle : k'.handles[p][x].ch = NoChan
    <2>1. k'.handles[p] = [x \in Handle |-> NoEntry]  BY Zenon, <1>2, <1>3, <1>7
    <2> QED  BY <2>1 DEF NoEntry
<1>14. \A s \in Proc : s # p => k'.handles[s] = k.handles[s] /\ k'.state[s] = k.state[s]
    BY <1>2, <1>3, <1>7
<1>15. RightTargets(target)
    <2>1. target \in [Slot -> Proc \cup {Nobody, Gone}]  BY Zenon, HistoryTypes DEF target
    <2>2. ASSUME NEW i \in Slot, k'.grants[i].used
          PROVE  /\ target[i] \in {Nobody, k'.grants[i].to}
                 /\ k'.state[k'.grants[i].from] # "FREE"
        <3>1. /\ k'.grants[i] = k.grants[i] /\ k.grants[i].used
              /\ k.grants[i].from # p /\ k.grants[i].to # p
            BY Zenon, <1>10, <2>2
        <3>2. h.target[i] \in {Nobody, k.grants[i].to} /\ k.state[k.grants[i].from] # "FREE"
            BY Zenon, <3>1 DEF ChInv, GrantInv
        <3>3. target[i] = h.target[i]
            <4>1. Nobody # p  BY Zenon, ChannelAssumption DEF Nobody
            <4> QED  BY <3>1, <3>2, <4>1 DEF target
        <3>4. k.grants[i].from \in Proc  BY Zenon, <1>2, <3>1 DEF Owing
        <3> QED  BY Zenon, <1>14, <3>1, <3>2, <3>3, <3>4
    <2> QED  BY Zenon, <2>1, <2>2 DEF RightTargets
<1>16. Settled
    <2>1. \A fd \in Fd : k'.staged[fd] = NoBind  BY <1>3, <1>7 DEF ChInv
    <2>2. ASSUME NEW s \in Proc, NEW x \in Handle, k'.state[s] = "FREE"
          PROVE  k'.handles[s][x].ch = NoChan
        <3>1. CASE s = p  BY Zenon, <1>13, <3>1
        <3>2. CASE s # p  BY <1>14, <2>2, <3>2 DEF ChInv, FreeHoldsNothing
        <3> QED  BY Zenon, <3>1, <3>2
    <2> QED  BY Zenon, <1>7, <2>1, <2>2 DEF Settled
<1>17. RightCreators(creator)
    <2>1. creator \in [Chan -> Proc \cup {Nobody}]  BY Zenon, HistoryTypes DEF creator
    <2>2. ASSUME NEW s \in Proc, NEW x \in Handle, Master(k'.handles[s][x])
          PROVE  creator[k'.handles[s][x].ch] = s
        <3>1. s # p /\ k'.handles[s] = k.handles[s]  BY Zenon, <1>13, <1>14, <2>2 DEF Master
        <3>2. h.creator[k.handles[s][x].ch] = s
            BY <2>2, <3>1 DEF ChInv, OnlyCreatorWrites, Master
        <3>3. k.handles[s][x] \in Entry  BY <1>2
        <3>4. k.handles[s][x].ch \in Chan  BY <2>2, <3>1, <3>3 DEF Entry, Master
        <3> QED  BY Zenon, <3>1, <3>2, <3>4 DEF creator
    <2> QED  BY Zenon, <2>1, <2>2 DEF RightCreators
<1> QED  BY <1>11, <1>12, <1>15, <1>16, <1>17, ChInvNext

-----------------------------------------------------------------------------
\* The inductive invariant holds in every reachable state.
THEOREM ChInductive == Spec => []ChInv
<1>1. ChInv /\ [Next]_vars => ChInv'
    <2> SUFFICES ASSUME ChInv, [Next]_vars PROVE ChInv'
        BY Zenon
    <2>1. ASSUME Next PROVE ChInv'
        <3>1. PICK p \in Proc :
                \/ Create(p) \/ Exit(p) \/ Reap(p)
                \/ \E x \in Handle : sys_ch_close(p, x) \/ \E to \in Proc : sys_ch_grant(p, x, to)
                \/ \E gen \in 0 .. (GenMod - 1), i \in Slot : sys_ch_accept(p, gen, i)
                \/ \E hin \in Bindings : sys_spawn_ex(p, hin)
            BY Zenon, <2>1 DEF Next
        <3> QED
            BY Zenon, <3>1, CreateStep, ExitStep, ReapStep, CloseStep, GrantStep, AcceptStep,
               SpawnStep
    <2>2. ASSUME UNCHANGED vars PROVE ChInv'
        <3>1. k' = k /\ h' = h  BY Zenon, <2>2 DEF vars
        <3>2. Owing(k', NoChan) /\ Owing(k, NoChan)'
            BY Zenon, <3>1 DEF ChInv, Owing, Users, HeldIn, GrantedIn, StagedIn
        <3>3. /\ h' \in History /\ \A fd \in Fd : k'.staged[fd] = NoBind
            BY Zenon, <3>1 DEF ChInv
        <3>4. FreeHoldsNothing' /\ GrantInv' /\ GenInv' /\ OnlyCreatorWrites'
            BY <3>1 DEF ChInv, FreeHoldsNothing, GrantInv, GenInv, OnlyCreatorWrites
        <3> QED  BY Zenon, <3>2, <3>3, <3>4 DEF ChInv
    <2> QED  BY <2>1, <2>2
<1> QED  BY <1>1, ChInvInit, PTL DEF Spec

\* Channel state is well formed however processes create, close, grant, accept,
\* spawn, exit and are reaped.
THEOREM ChTypeCorrect == Spec => []ChTypeOK
<1>1. ChInv => ChTypeOK  BY DEF ChInv, Owing, ChTypeOK
<1> QED  BY <1>1, ChInductive, PTL

\* channel_ref() and channel_unref() balance on every path: the count of a
\* channel is the number of its handles and grants, and it is freed exactly
\* when that reaches zero.
THEOREM ChannelRefExactHolds == Spec => []ChannelRefExact
<1>1. ChInv => ChannelRefExact
    <2> SUFFICES ASSUME ChInv PROVE ChannelRefExact
        BY Zenon
    <2>1. ASSUME NEW c \in Chan
          PROVE  k.ref[c] = Cardinality(Held(c)) + Cardinality(Granted(c))
        <3>1. Held(c) = HeldIn(k, c)
            BY Zenon, ChannelAssumption DEF Held, HeldIn, ChInv, FreeHoldsNothing
        <3>2. Granted(c) = GrantedIn(k, c)  BY DEF Granted, GrantedIn
        <3>3. StagedIn(k, c) = {}  BY ChannelAssumption DEF StagedIn, ChInv, NoBind
        <3>4. k.ref[c] = Users(k, c)  BY ChannelAssumption, UsersFinite DEF ChInv, Owing
        <3> QED  BY <3>1, <3>2, <3>3, <3>4, FS_EmptySet, UsersFinite DEF Users
    <2>2. \A c \in Chan : c \in k.heap <=> k.ref[c] > 0  BY Zenon DEF ChInv, Owing
    <2> QED  BY <2>1, <2>2 DEF ChannelRefExact, ChInv
<1> QED  BY <1>1, ChInductive, PTL

\* An accepted or swept grant id names no grant again until the generation of
\* its slot has come round.
THEOREM StaleIdRefusedHolds == Spec => []StaleIdRefused
<1>1. ChInv => StaleIdRefused
    <2> SUFFICES ASSUME ChInv, NEW i \in Slot, k.grants[i].used, h.uses[i] <= GenMod,
                        << k.grants[i].gen, i >> \in h.spent
                 PROVE  FALSE
        BY Zenon DEF StaleIdRefused
    <2>1. k.grants[i].gen \in 0 .. (GenMod - 1)
        <3>1. k.grants[i] \in Grant  BY Zenon DEF ChInv, Owing, KState
        <3> QED  BY Zenon, <3>1 DEF Grant
    <2>2. k.grants[i].gen = h.uses[i] - 1 /\ k.grants[i].gen < h.uses[i] - 1
        BY Zenon, <2>1 DEF ChInv, GenInv, One
    <2> QED  BY <2>1, <2>2
<1> QED  BY <1>1, ChInductive, PTL

\* Pids are reused, but a grant outlives neither its recipient nor its maker.
THEOREM GrantForOneHolds == Spec => []GrantForOne
<1>1. ChInv => GrantForOne
    <2> SUFFICES ASSUME ChInv, NEW i \in Slot, k.grants[i].used
                 PROVE  h.target[i] # Gone /\ k.state[k.grants[i].from] # "FREE"
        BY Zenon DEF GrantForOne
    <2>1. h.target[i] \in {Nobody, k.grants[i].to} /\ k.state[k.grants[i].from] # "FREE"
        BY DEF ChInv, GrantInv
    <2>2. k.grants[i].to \in Proc  BY DEF ChInv, Owing
    <2>3. Gone # Nobody /\ Gone \notin Proc  BY ChannelAssumption DEF Gone, Nobody
    <2> QED  BY Zenon, <2>1, <2>2, <2>3
<1> QED  BY <1>1, ChInductive, PTL

\* Only the process that created a channel can write to its master end or pass
\* the channel on.
THEOREM OnlyCreatorWritesHolds == Spec => []OnlyCreatorWrites
<1>1. ChInv => OnlyCreatorWrites  BY DEF ChInv
<1> QED  BY <1>1, ChInductive, PTL
=============================================================================
