------------------------------ MODULE Channel ------------------------------
(***************************************************************************)
(* Channel objects and the capabilities to them (ipc/channel.c): handle    *)
(* tables, one-shot grants, the binding of a child's stdio at spawn, and   *)
(* the release of everything a dead process held.  What travels through a  *)
(* channel is in ChannelRing.                                              *)
(*                                                                         *)
(* Every call is one step: system calls run with interrupts off, none of   *)
(* these blocks, and the model is of the default build, in which one CPU   *)
(* runs processes.                                                         *)
(***************************************************************************)
EXTENDS Integers, FiniteSets, FiniteSetsExt

CONSTANTS
    Proc,           \* process ids, a set of positive numbers; init is the least
    Chan,           \* memory for channel objects
    NoChan,         \* the null pointer
    MaxHandle,      \* CH_MAX_HANDLES - 1
    NGrants,        \* CH_NGRANTS
    GenMod,         \* values of the 16-bit generation of a grant slot
    MaxGrants,      \* bound: how often a slot is granted in a behaviour
    Bindings        \* the handles, or 0, that spawns name for descriptors 0, 1, 2

ASSUME ChannelAssumption ==
    /\ IsFiniteSet(Proc) /\ Proc \subseteq Nat \ {0} /\ Proc # {}
    /\ NoChan \notin Chan
    /\ MaxHandle \in Nat /\ NGrants \in Nat /\ MaxGrants \in Nat
    /\ GenMod \in Nat \ {0}
    /\ Bindings \subseteq [0 .. 2 -> 0 .. MaxHandle]

VARIABLES
    k,              \* the state of channel.c and of the process table
    h               \* ghost: what happened to the grants

vars == << k, h >>

Handle == 1 .. MaxHandle
Slot == 1 .. NGrants
Fd == 0 .. 2

Ends == {"master", "slave"}
Rights == {"read", "write", "transfer"}
CH_R_ALL == Rights

\* An entry of a handle table.  The end of an empty one is never read.
Entry == [ch : Chan \cup {NoChan}, end : Ends, rights : SUBSET Rights]

NoEntry == [ch |-> NoChan, end |-> "master", rights |-> {}]

\* An entry of g_grants; from and to are 0 in a free slot.
Grant == [used : BOOLEAN, from : Proc \cup {0}, to : Proc \cup {0},
          ch : Chan \cup {NoChan}, gen : 0 .. (GenMod - 1)]

\* An entry of g_exec_stdio.
Bind == [ch : Chan \cup {NoChan}, rights : SUBSET Rights]

NoBind == [ch |-> NoChan, rights |-> {}]

\* The recipient of a grant made to a pid that no process had, and of one whose
\* recipient has been reaped.
Nobody == 0
Gone == -1

KState == [
    heap    : SUBSET Chan,                   \* allocated channels
    byte    : SUBSET Chan,                   \* those with CH_BYTE in flags
    ref     : [Chan -> Nat],
    handles : [Proc -> [Handle -> Entry]],
    grants  : [Slot -> Grant],
    staged  : [Fd -> Bind],
    state   : [Proc -> {"FREE", "LIVE", "TERMINATED"}] ]

History == [
    spent   : SUBSET ((0 .. (GenMod - 1)) \X Slot),    \* ids accepted or swept
    uses    : [Slot -> 0 .. MaxGrants],
    target  : [Slot -> Proc \cup {Nobody, Gone}],      \* whom the grant was made to
    creator : [Chan -> Proc \cup {Nobody}] ]

\* Every variable in its range.
ChTypeOK == k \in KState /\ h \in History

Init ==
    /\ k = [ heap    |-> {},
             byte    |-> {},
             ref     |-> [c \in Chan |-> 0],
             handles |-> [p \in Proc |-> [x \in Handle |-> NoEntry]],
             grants  |-> [i \in Slot |-> [used |-> FALSE, from |-> 0, to |-> 0,
                                          ch |-> NoChan, gen |-> 0]],
             staged  |-> [fd \in Fd |-> NoBind],
             state   |-> [p \in Proc |-> IF p = Min(Proc) THEN "LIVE" ELSE "FREE"] ]
    /\ h = [ spent   |-> {},
             uses    |-> [i \in Slot |-> 0],
             target  |-> [i \in Slot |-> Nobody],
             creator |-> [c \in Chan |-> Nobody] ]

-----------------------------------------------------------------------------
(* The functions of channel.c, from state q to state *)

channel_ref(q, c) == [q EXCEPT !.ref[c] = @ + 1]

\* The last reference frees the rings and the object.
channel_unref(q, c) ==
    IF c = NoChan THEN q
    ELSE [q EXCEPT !.ref[c] = IF @ > 0 THEN @ - 1 ELSE 0,
                   !.heap = IF q.ref[c] <= 1 THEN @ \ {c} ELSE @]

\* The first free entry of a handle table; 0 when it is full.
FreeHandle(q, p) ==
    LET empty == {x \in Handle : q.handles[p][x].ch = NoChan}
    IN  IF empty = {} THEN 0 ELSE Min(empty)

process_alloc_handle(q, p, c, end, rights) ==
    LET x == FreeHandle(q, p)
    IN  IF x = 0 THEN q
        ELSE [q EXCEPT !.handles[p][x] = [ch |-> c, end |-> end, rights |-> rights]]

\* The channel of a handle that has the rights a call needs.
process_get_handle(q, p, x, need) ==
    IF x \in Handle /\ need \subseteq q.handles[p][x].rights
    THEN q.handles[p][x].ch ELSE NoChan

process_close_handle(q, p, x) ==
    channel_unref([q EXCEPT !.handles[p][x] = NoEntry], q.handles[p][x].ch)

\* Mutant: the generation is not bumped.
spent_same_gen(g) == [g EXCEPT !.used = FALSE, !.from = 0, !.to = 0, !.ch = NoChan]

\* A slot that is free for another grant, under a new generation.
Spent(g) == [g EXCEPT !.used = FALSE, !.from = 0, !.to = 0, !.ch = NoChan,
                      !.gen = (@ + 1) % GenMod]

\* channel_unref() n[c] times for each channel c.
UnrefAll(q, n) ==
    [q EXCEPT !.ref = [c \in Chan |-> IF @[c] > n[c] THEN @[c] - n[c] ELSE 0],
              !.heap = {c \in @ : n[c] = 0 \/ q.ref[c] > n[c]}]

\* Mutant: grants to the process stay.
swept_from_only(q, p) == {i \in Slot : q.grants[i].used /\ p = q.grants[i].from}

\* The grants from or to a dying process.
Swept(q, p) ==
    {i \in Slot : q.grants[i].used /\ p \in {q.grants[i].from, q.grants[i].to}}

Own(q, p, c) == {x \in Handle : q.handles[p][x].ch = c}
SweptOn(q, p, c) == {i \in Swept(q, p) : q.grants[i].ch = c}

\* Mutant: the references of the swept grants are kept.
released_handles(q, p) == [c \in Chan |-> Cardinality(Own(q, p, c))]

\* How often the two loops over handles and grants call channel_unref(c).
Released(q, p) ==
    [c \in Chan |-> Cardinality(Own(q, p, c)) + Cardinality(SweptOn(q, p, c))]

channel_cleanup_process(q, p) ==
    [UnrefAll(q, Released(q, p)) EXCEPT
        !.handles[p] = [x \in Handle |-> NoEntry],
        !.grants = [i \in Slot |-> IF i \in Swept(q, p) THEN Spent(@[i]) ELSE @[i]]]

\* A descriptor is left alone, or named by a handle that may be passed on.
Transferable(q, p, hin, fd) ==
    hin[fd] = 0 \/ process_get_handle(q, p, hin[fd], {"transfer"}) # NoChan

\* One descriptor of stage_spawn_stdio(), which ends at the first bad handle: the
\* child's reference is taken now.
StageFd(q, p, hin, fd) ==
    LET c == process_get_handle(q, p, hin[fd], {"transfer"})
    IN  IF hin[fd] = 0 \/ \E e \in 0 .. fd : ~Transferable(q, p, hin, e) THEN q
        ELSE [channel_ref(q, c) EXCEPT !.staged[fd] =
                 [ch |-> c, rights |-> IF fd = 0 THEN {"read"} ELSE {"write"}]]

stage_spawn_stdio(q, p, hin) ==
    StageFd(StageFd(StageFd(q, p, hin, 0), p, hin, 1), p, hin, 2)

\* Also the rollback of a stage_spawn_stdio() that met a bad handle.
ClearFd(q, fd) ==
    channel_unref([q EXCEPT !.staged[fd] = NoBind], q.staged[fd].ch)

clear_spawn_stdio(q) == ClearFd(ClearFd(ClearFd(q, 0), 1), 2)

\* One descriptor of channel_install_spawn_stdio(): the reference moves to the
\* child's handle, or is given back when its table is full.  Which handle the
\* descriptor stands for (stdio_chan) is not kept: its uses look the handle up.
InstallFd(q, child, fd) ==
    LET b == q.staged[fd]
        r == [q EXCEPT !.staged[fd] = NoBind]
    IN  IF b.ch = NoChan THEN q
        ELSE IF FreeHandle(q, child) = 0 THEN channel_unref(r, b.ch)
        ELSE process_alloc_handle(r, child, b.ch, "slave", b.rights)

channel_install_spawn_stdio(q, child) ==
    InstallFd(InstallFd(InstallFd(q, child, 0), child, 1), child, 2)

-----------------------------------------------------------------------------
(* The system calls *)

Live(p) == k.state[p] = "LIVE"

\* What became of the grant slots in this step.
Track(target, creator) ==
    h' = [ spent   |-> h.spent \cup {<< k.grants[i].gen, i >> :
                          i \in {j \in Slot : k.grants[j].used /\ ~k'.grants[j].used}},
           uses    |-> [i \in Slot |-> IF ~k.grants[i].used /\ k'.grants[i].used
                                       THEN h.uses[i] + 1 ELSE h.uses[i]],
           target  |-> [i \in Slot |-> IF k'.grants[i].used THEN target[i] ELSE Nobody],
           creator |-> [c \in Chan |-> IF c \in k'.heap THEN creator[c] ELSE Nobody] ]

\* sys_ch_create(): a full handle table drops the new channel again.
Create(p) ==
    /\ Live(p)
    /\ \E c \in Chan \ k.heap, byte \in BOOLEAN :
         LET q == [k EXCEPT !.heap = @ \cup {c}, !.ref[c] = 1,
                            !.byte = IF byte THEN @ \cup {c} ELSE @ \ {c}]
         IN  /\ k' = IF FreeHandle(q, p) = 0 THEN channel_unref(q, c)
                     ELSE process_alloc_handle(q, p, c, "master", CH_R_ALL)
             /\ Track(h.target, [h.creator EXCEPT ![c] = p])

sys_ch_close(p, x) ==
    /\ Live(p)
    /\ k.handles[p][x].ch # NoChan
    /\ k' = process_close_handle(k, p, x)
    /\ Track(h.target, h.creator)

\* Any pid may be named as the recipient.
sys_ch_grant(p, x, to) ==
    /\ Live(p)
    /\ process_get_handle(k, p, x, {"read"}) \in k.byte
    /\ \E i \in Slot :
         /\ ~k.grants[i].used
         /\ \A j \in Slot : j < i => k.grants[j].used
         /\ LET c == k.handles[p][x].ch
            IN  k' = [channel_ref(k, c) EXCEPT
                         !.grants[i] = [@ EXCEPT !.used = TRUE, !.from = p, !.to = to,
                                                 !.ch = c]]
         /\ Track([h.target EXCEPT ![i] = IF k.state[to] = "FREE" THEN Nobody ELSE to],
                  h.creator)
    /\ \A i \in Slot : h'.uses[i] <= MaxGrants

\* Mutant: the grant carries the rights of a creator.
accept_all_rights(p, gen, i) ==
    /\ Live(p)
    /\ k.grants[i].used /\ k.grants[i].gen = gen /\ k.grants[i].to = p
    /\ FreeHandle(k, p) # 0
    /\ k' = [process_alloc_handle(k, p, k.grants[i].ch, "master", CH_R_ALL)
                EXCEPT !.grants[i] = Spent(@)]
    /\ Track(h.target, h.creator)

\* The reference moves from the grant to the new handle, which can read the
\* master end and nothing else.  With a full table the grant is kept.
sys_ch_accept(p, gen, i) ==
    /\ Live(p)
    /\ k.grants[i].used /\ k.grants[i].gen = gen /\ k.grants[i].to = p
    /\ FreeHandle(k, p) # 0
    /\ k' = [process_alloc_handle(k, p, k.grants[i].ch, "master", {"read"})
                EXCEPT !.grants[i] = Spent(@)]
    /\ Track(h.target, h.creator)

\* sys_spawn_ex() and sys_spawn_ex_argv(): stage, load, install, clear.  Loading
\* fails, or gives the child the lowest free pid.
sys_spawn_ex(p, hin) ==
    LET staged == stage_spawn_stdio(k, p, hin)
        free   == {c \in Proc : k.state[c] = "FREE"}
        child  == Min(free)
        loaded == channel_install_spawn_stdio(
                      [staged EXCEPT !.state[child] = "LIVE"], child)
    IN
    /\ Live(p)
    /\ \/ k' = clear_spawn_stdio(staged)
       \/ /\ \A fd \in Fd : Transferable(k, p, hin, fd)
          /\ free # {}
          /\ k' = clear_spawn_stdio(loaded)
    /\ Track(h.target, h.creator)

\* sys_exit() or a kill: the PCB stays until somebody drops the last reference.
Exit(p) ==
    /\ Live(p) /\ p # Min(Proc)
    /\ k' = [k EXCEPT !.state[p] = "TERMINATED"]
    /\ Track(h.target, h.creator)

\* process_unref() to zero: the pid is free again, the handles are released and
\* the PCB is gone.
Reap(p) ==
    /\ k.state[p] = "TERMINATED"
    /\ k' = channel_cleanup_process([k EXCEPT !.state[p] = "FREE"], p)
    /\ Track([i \in Slot |-> IF h.target[i] = p THEN Gone ELSE h.target[i]],
             [c \in Chan |-> IF h.creator[c] = p THEN Nobody ELSE h.creator[c]])

Next ==
    \E p \in Proc :
        \/ Create(p) \/ Exit(p) \/ Reap(p)
        \/ \E x \in Handle : sys_ch_close(p, x) \/ \E to \in Proc : sys_ch_grant(p, x, to)
        \/ \E gen \in 0 .. (GenMod - 1), i \in Slot : sys_ch_accept(p, gen, i)
        \/ \E hin \in Bindings : sys_spawn_ex(p, hin)

Spec == Init /\ [][Next]_vars

-----------------------------------------------------------------------------
(* Properties *)

Held(c) ==
    {u \in Proc \X Handle : k.state[u[1]] # "FREE" /\ k.handles[u[1]][u[2]].ch = c}

Granted(c) == {i \in Slot : k.grants[i].used /\ k.grants[i].ch = c}

\* channel_ref() and channel_unref() balance on every path, a full table, a bad
\* handle, a failed load and the death of either side of a grant included:
\* each handle and each grant holds one reference, a channel is freed with its
\* last one and not before, and nothing stays staged after a spawn.
ChannelRefExact ==
    /\ \A c \in Chan :
         /\ k.ref[c] = Cardinality(Held(c)) + Cardinality(Granted(c))
         /\ c \in k.heap <=> k.ref[c] > 0
    /\ \A fd \in Fd : k.staged[fd] = NoBind

\* "a stale or re-used id fails cleanly" (channel.c:58-59): an id that was
\* accepted or swept names no grant again, until its slot has been used
\* GenMod times and the generation comes round.
StaleIdRefused ==
    \A i \in Slot : k.grants[i].used /\ h.uses[i] <= GenMod
                       => << k.grants[i].gen, i >> \notin h.spent

\* "that recipient (and only it) may ACCEPT it" (channel.c:55-56), in spite of
\* pids being reused: a grant made to an existing process does not outlive it,
\* and neither outlives the process that made it.
GrantForOne ==
    \A i \in Slot : k.grants[i].used =>
        h.target[i] # Gone /\ k.state[k.grants[i].from] # "FREE"

\* Rights only narrow: through any chain of grants, accepts and spawns, only the
\* process that created a channel can write to its master end or pass it on.
OnlyCreatorWrites ==
    \A p \in Proc, x \in Handle :
        LET e == k.handles[p][x] IN
        e.ch # NoChan /\ e.end = "master" /\ e.rights # {"read"} => h.creator[e.ch] = p
=============================================================================
