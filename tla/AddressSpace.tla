---------------------------- MODULE AddressSpace ----------------------------
(***************************************************************************)
(* User memory of the two-CPU build: page tables, the copy-on-write owner  *)
(* counts of cow.c, the software mapping target active_pml4 of paging.c    *)
(* and the big kernel lock of bkl.c.                                       *)
(*                                                                         *)
(* An address space stands for the process that owns it: threads of one    *)
(* address space share its home CPU, and a CPU never preempts kernel code, *)
(* so a CPU carries at most one kernel operation, op[c].  Between two      *)
(* steps of an operation the other CPU may run anything.  fork, execve and *)
(* spawn are marked calls and run under the big kernel lock; page faults,  *)
(* mmap, munmap, exit and the reaping of a dead process are not.           *)
(*                                                                         *)
(* Every user page of the model is process-private and writable: shared    *)
(* windows (framebuffer, shm), read-only pages and huge pages are left out *)
(* because no owner is counted for them or no write ever reaches them.     *)
(***************************************************************************)
EXTENDS Naturals, FiniteSets

CONSTANTS
    Cpu,            \* the CPUs
    Worker,         \* the CPU that batch processes are placed on, CPU1
    General,        \* the CPU of everything else, CPU0
    Space,          \* address spaces (PML4 frames)
    Kernel,         \* kernel_pml4
    Frame,          \* physical frames for user pages
    NoFrame,        \* a page that is not present
    NoCpu,          \* BKL_UNOWNED
    NPages,         \* user pages are 1..NPages
    Eager,          \* the pages the ELF loader maps, the top of the stack included
    Lazy,           \* the pages of the stack region, populated on demand
    AnonBase,       \* VMM_ANON_VA_BASE, the first page of the mmap window
    COW_MAX_OWNERS  \* where an owner count saturates

ASSUME MemAssumption ==
    /\ NPages \in Nat
    /\ COW_MAX_OWNERS \in Nat
    /\ Eager \cup Lazy \subseteq 1..NPages
    /\ AnonBase \in 1..(NPages + 1)
    /\ {General, Worker} \subseteq Cpu
    /\ Kernel \notin Space
    /\ NoFrame \notin Frame

VARIABLES
    pt,          \* page tables: leaf entries of each space and of the kernel
    tlb,         \* the writable translations a space may have cached: the worst
                 \* case, a translation is cached as soon as the entry allows writing
    cow_table,   \* extra owners of each frame
    free,        \* the frames the page allocator can hand out
    cursor,      \* vma_table: the page each space's next mmap will get
    active_pml4, \* the table paging_map_page() writes to
    status,      \* what each space is: free, built, live, dead, torn down
    home,        \* the CPU that runs the space
    batch,       \* the spaces of batch class, allowed on Worker
    bkl,         \* bkl_word, bkl_owner, bkl_depth
    op,          \* the kernel operation each CPU is in
    h            \* ghost: stray - an unmarked call has moved the target inside
                 \* another CPU's mapping window; over - an mmap has replaced an
                 \* entry that was in use; lost - frames leaked so far

mem == <<pt, tlb, cow_table, free, cursor>>
vars == <<mem, active_pml4, status, home, batch, bkl, op, h>>

-----------------------------------------------------------------------------
(* Types *)

Page == 1..NPages

Anon == AnonBase..NPages

Table == Space \cup {Kernel}

\* A leaf entry: the frame, PAGE_WRITE and PTE_COW.
Pte == [f : Frame \cup {NoFrame}, w : BOOLEAN, cow : BOOLEAN]

NoPte == [f |-> NoFrame, w |-> FALSE, cow |-> FALSE]

Writable(f) == [f |-> f, w |-> TRUE, cow |-> FALSE]

Pc == {"user", "own", "forkpage", "forkmap", "forkfail", "stage", "stagemap",
       "teardown", "release", "unlock", "cowcheck", "cowcopy", "cowunref",
       "settarget", "map", "freepage", "unmap", "restore"}

Call == {"none", "fork", "execve", "spawn", "exit", "fault", "mmap", "munmap"}

\* pc is where the operation stands; s is the calling space, n the one being
\* built or torn down, v and f the page and frame at hand, e the parent's
\* entry before fork demoted it, saved the mapping target to restore, and
\* changed is parent_pte_changed.
Op == [pc : Pc, call : Call, s : Table, n : Table, v : 0..(NPages + 1),
       f : Frame \cup {NoFrame}, e : Pte, saved : Table, changed : BOOLEAN]

NewOp(pc, call, s, n, v, f) ==
    [pc |-> pc, call |-> call, s |-> s, n |-> n, v |-> v, f |-> f,
     e |-> NoPte, saved |-> Kernel, changed |-> FALSE]

Idle == NewOp("user", "none", Kernel, Kernel, 0, NoFrame)

\* bkl_word, bkl_owner and bkl_depth.
Lock == [word : 0..1, owner : Cpu \cup {NoCpu}, depth : 0..1]

FreeLock == [word |-> 0, owner |-> NoCpu, depth |-> 0]

History == [stray : BOOLEAN, over : BOOLEAN, lost : SUBSET Frame]

MemTypeOK ==
    /\ pt \in [Table -> [Page -> Pte]]
    /\ tlb \in [Space -> [Page -> Frame \cup {NoFrame}]]
    /\ cow_table \in [Frame -> 0..COW_MAX_OWNERS]
    /\ free \subseteq Frame
    /\ cursor \in [Space -> 1..(NPages + 1)]
    /\ active_pml4 \in Table
    /\ status \in [Space -> {"free", "built", "live", "dead", "dying"}]
    /\ home \in [Space -> Cpu]
    /\ batch \subseteq Space
    /\ bkl \in Lock
    /\ op \in [Cpu -> Op]
    /\ h \in History

-----------------------------------------------------------------------------
(* Helpers: the copy-on-write counts, the page allocator, the tables *)

\* cow_unref(): an owner leaves; it was the last one iff the count was 0.
cow_unref(t, f) == [t EXCEPT ![f] = IF @ > 0 THEN @ - 1 ELSE 0]

LastOwner(t, f) == t[f] = 0

NoTlb == [v \in Page |-> NoFrame]

\* What the TLB may hold of a table after a flush.
Refill(t) == [v \in Page |-> IF t[v].w THEN t[v].f ELSE NoFrame]

\* The page a walk over pages S takes next, from v on; 0 when it is through.
Walk(S, v) ==
    LET rest == {u \in S : u >= v}
    IN  IF rest = {} THEN 0 ELSE CHOOSE u \in rest : \A w \in rest : u <= w

Present(t) == {v \in Page : pt[t][v].f # NoFrame}

\* CPU c goes on at pc, with nothing else of its operation changed.
Goto(c, pc) == op' = [op EXCEPT ![c].pc = pc]

Done(c) == op' = [op EXCEPT ![c] = Idle]

Start(c, pc, call, s, v, f) ==
    op' = [op EXCEPT ![c] = NewOp(pc, call, s, Kernel, v, f)]

\* Process s is at its own code on CPU c.
Runs(c, s) == op[c].pc = "user" /\ status[s] = "live" /\ home[s] = c

Marked == {"fork", "execve", "spawn"}

\* Between setting the mapping target and giving it back.
Window(o) ==
    o.pc \in {"forkpage", "forkmap", "forkfail", "stage", "stagemap",
              "map", "freepage", "unmap", "restore"}

\* The table an operation believes it is mapping into.
Target(o) == IF o.call \in Marked THEN o.n ELSE o.s

\* CPU c points active_pml4 at table t.
Retarget(c, t) ==
    /\ active_pml4' = t
    /\ h' = [h EXCEPT !.stray =
                @ \/ \E d \in Cpu \ {c} :
                        /\ Window(op[d])
                        /\ ~({op[c].call, op[d].call} \subseteq Marked)]

\* paging_map_page() through the target as it is now; the allocation of a
\* page-table page may fail, and the function then returns without a word.
\* Mapped is the set of tables it may leave behind.
Mapped(v, e) == {pt, [pt EXCEPT ![active_pml4][v] = e]}

-----------------------------------------------------------------------------
(* The big kernel lock around a marked call *)

\* Mutant: the lock word is not tested.
enter_unlocked(c, s, call) ==
    /\ Runs(c, s)
    /\ bkl' = [bkl EXCEPT !.word = 1]
    /\ Start(c, "own", call, s, 0, NoFrame)
    /\ UNCHANGED <<mem, active_pml4, status, home, batch, h>>

\* A process makes a marked call and wins bkl_word.  A CPU that finds the word
\* taken spins with interrupts off, which changes nothing.
Enter(c, s, call) ==
    /\ Runs(c, s)
    /\ bkl.word = 0
    /\ bkl' = [bkl EXCEPT !.word = 1]
    /\ Start(c, "own", call, s, 0, NoFrame)
    /\ UNCHANGED <<mem, active_pml4, status, home, batch, h>>

\* bkl_release() gives the ownership up first and the lock word after it.
Release(c) ==
    /\ op[c].pc = "release"
    /\ bkl' = [bkl EXCEPT !.owner = NoCpu, !.depth = 0]
    /\ Goto(c, "unlock")
    /\ UNCHANGED <<mem, active_pml4, status, home, batch, h>>

Unlock(c) ==
    /\ op[c].pc = "unlock"
    /\ bkl' = [bkl EXCEPT !.word = 0]
    /\ Done(c)
    /\ UNCHANGED <<mem, active_pml4, status, home, batch, h>>

\* Mutant: the loader and fork do not point the target at the new space.
begin_untargeted(c) ==
    LET o == op[c] IN
    /\ o.pc = "own"
    /\ bkl' = [bkl EXCEPT !.owner = c, !.depth = 1]
    /\ \/ \E n \in Space :
            /\ status[n] = "free"
            /\ status' = [status EXCEPT ![n] = "built"]
            /\ op' = [op EXCEPT ![c].n = n, ![c].v = 1,
                         ![c].pc = IF o.call = "fork" THEN "forkpage" ELSE "stage",
                         ![c].saved = IF o.call = "execve" THEN active_pml4 ELSE Kernel]
            /\ UNCHANGED <<active_pml4, h>>
       \/ /\ Goto(c, "release")
          /\ UNCHANGED <<active_pml4, status, h>>
    /\ UNCHANGED <<mem, home, batch>>

\* The owner is recorded and the call begins: process_create(), or
\* paging_create_address_space(), then the mapping target is pointed at the new
\* space.
Begin(c) ==
    LET o == op[c] IN
    /\ o.pc = "own"
    /\ bkl' = [bkl EXCEPT !.owner = c, !.depth = 1]
    /\ \/ \E n \in Space :
            /\ status[n] = "free"
            /\ status' = [status EXCEPT ![n] = "built"]
            /\ op' = [op EXCEPT ![c].n = n, ![c].v = 1,
                         ![c].pc = IF o.call = "fork" THEN "forkpage" ELSE "stage",
                         ![c].saved = IF o.call = "execve" THEN active_pml4 ELSE Kernel]
            /\ Retarget(c, n)
       \/ /\ Goto(c, "release")
          /\ UNCHANGED <<active_pml4, status, h>>
    /\ UNCHANGED <<mem, home, batch>>

-----------------------------------------------------------------------------
(* fork_copy_user_pages() and the rest of sys_fork() *)

\* The entry the child gets: the shared frame read-only and copy-on-write, or,
\* in the eager fallback, a copy with the parent's flags.
ChildPte(o) ==
    IF o.f = o.e.f THEN [f |-> o.f, w |-> FALSE, cow |-> o.e.w \/ o.e.cow]
                   ELSE [o.e EXCEPT !.f = o.f]

\* Mutant: the parent is demoted without PTE_COW.
share_unflagged(c, v) ==
    LET o == op[c]
        e == pt[o.s][v]
    IN
    /\ cow_table[e.f] < COW_MAX_OWNERS
    /\ cow_table' = [cow_table EXCEPT ![e.f] = @ + 1]
    /\ pt' = IF e.w THEN [pt EXCEPT ![o.s][v] = [e EXCEPT !.w = FALSE]]
                    ELSE pt
    /\ op' = [op EXCEPT ![c].pc = "forkmap", ![c].v = v, ![c].e = e, ![c].f = e.f,
                        ![c].changed = @ \/ e.w]
    /\ UNCHANGED free

\* Share one present page: count the child as an owner and demote the parent.
ShareFrame(c, v) ==
    LET o == op[c]
        e == pt[o.s][v]
    IN
    /\ cow_table[e.f] < COW_MAX_OWNERS
    /\ cow_table' = [cow_table EXCEPT ![e.f] = @ + 1]
    /\ pt' = IF e.w THEN [pt EXCEPT ![o.s][v] = [e EXCEPT !.w = FALSE, !.cow = TRUE]]
                    ELSE pt
    /\ op' = [op EXCEPT ![c].pc = "forkmap", ![c].v = v, ![c].e = e, ![c].f = e.f,
                        ![c].changed = @ \/ e.w]
    /\ UNCHANGED free

\* The count is saturated: the child gets a copy, or fork fails.
CopyFrame(c, v) ==
    LET o == op[c]
        e == pt[o.s][v]
    IN
    /\ cow_table[e.f] >= COW_MAX_OWNERS
    /\ \/ \E f \in free :
            /\ free' = free \ {f}
            /\ op' = [op EXCEPT ![c].pc = "forkmap", ![c].v = v, ![c].e = e, ![c].f = f]
       \/ /\ free = {}
          /\ Goto(c, "forkfail")
          /\ UNCHANGED free
    /\ UNCHANGED <<pt, cow_table>>

ForkPage(c) ==
    LET o == op[c]
        v == Walk(Present(o.s), o.v)
    IN
    /\ o.pc = "forkpage"
    /\ v \in Present(o.s)
    /\ ShareFrame(c, v) \/ CopyFrame(c, v)
    /\ UNCHANGED <<cursor, tlb, active_pml4, status, home, batch, bkl, h>>

\* Mutant: a child entry that failed to appear stays counted.
fork_map_keeps_count(c) ==
    LET o == op[c] IN
    /\ o.pc = "forkmap"
    /\ \E q \in Mapped(o.v, ChildPte(o)) :
         \/ /\ q[o.n][o.v].f # NoFrame
            /\ pt' = q
            /\ op' = [op EXCEPT ![c].pc = "forkpage", ![c].v = @ + 1]
            /\ UNCHANGED <<cow_table, free>>
         \/ /\ q[o.n][o.v].f = NoFrame
            /\ IF o.f = o.e.f
                 THEN /\ cow_table' = cow_table
                      /\ pt' = [q EXCEPT ![o.s][o.v] = o.e]
                      /\ free' = free
                 ELSE /\ free' = free \cup {o.f}
                      /\ pt' = q
                      /\ cow_table' = cow_table
            /\ Goto(c, "forkfail")
    /\ UNCHANGED <<cursor, tlb, active_pml4, status, home, batch, bkl, h>>

\* vmm_map_page() and fork_child_mapped(): when the child has no entry, undo
\* the count and the demotion, or free the copy.
ForkMap(c) ==
    LET o == op[c] IN
    /\ o.pc = "forkmap"
    /\ \E q \in Mapped(o.v, ChildPte(o)) :
         \/ /\ q[o.n][o.v].f # NoFrame
            /\ pt' = q
            /\ op' = [op EXCEPT ![c].pc = "forkpage", ![c].v = @ + 1]
            /\ UNCHANGED <<cow_table, free>>
         \/ /\ q[o.n][o.v].f = NoFrame
            /\ IF o.f = o.e.f
                 THEN /\ cow_table' = cow_unref(cow_table, o.f)
                      /\ pt' = [q EXCEPT ![o.s][o.v] = o.e]
                      /\ free' = free
                 ELSE /\ free' = free \cup {o.f}
                      /\ pt' = q
                      /\ cow_table' = cow_table
            /\ Goto(c, "forkfail")
    /\ UNCHANGED <<cursor, tlb, active_pml4, status, home, batch, bkl, h>>

\* Both ways out reload CR3 if an entry of the parent was demoted.
FlushParent(o) == IF o.changed THEN [tlb EXCEPT ![o.s] = Refill(pt[o.s])] ELSE tlb

\* Mutant: the parent keeps its cached translations.
fork_done_unflushed(c) ==
    LET o == op[c] IN
    /\ o.pc = "forkpage"
    /\ Walk(Present(o.s), o.v) = 0
    /\ active_pml4' = Kernel
    /\ \/ /\ status' = [status EXCEPT ![o.n] = "live"]
          /\ tlb' = [tlb EXCEPT ![o.n] = Refill(pt[o.n])]
          /\ home' = [home EXCEPT ![o.n] = c]
          /\ Goto(c, "release")
       \/ /\ status' = [status EXCEPT ![o.n] = "dying"]
          /\ tlb' = FlushParent(o)
          /\ op' = [op EXCEPT ![c].pc = "teardown", ![c].v = 1]
          /\ UNCHANGED home
    /\ UNCHANGED <<cursor, pt, cow_table, free, batch, bkl, h>>

\* The walk is over: the child runs on this CPU, unless its VMA list or its
\* file table cannot be copied.
ForkDone(c) ==
    LET o == op[c] IN
    /\ o.pc = "forkpage"
    /\ Walk(Present(o.s), o.v) = 0
    /\ active_pml4' = Kernel
    /\ \/ /\ status' = [status EXCEPT ![o.n] = "live"]
          /\ tlb' = [FlushParent(o) EXCEPT ![o.n] = Refill(pt[o.n])]
          /\ home' = [home EXCEPT ![o.n] = c]
          /\ Goto(c, "release")
       \/ /\ status' = [status EXCEPT ![o.n] = "dying"]
          /\ tlb' = FlushParent(o)
          /\ op' = [op EXCEPT ![c].pc = "teardown", ![c].v = 1]
          /\ UNCHANGED home
    /\ UNCHANGED <<cursor, pt, cow_table, free, batch, bkl, h>>

\* Out of memory in the walk: process_destroy() takes the half-built child down.
ForkFail(c) ==
    LET o == op[c] IN
    /\ o.pc = "forkfail"
    /\ tlb' = FlushParent(o)
    /\ active_pml4' = Kernel
    /\ status' = [status EXCEPT ![o.n] = "dying"]
    /\ op' = [op EXCEPT ![c].pc = "teardown", ![c].v = 1]
    /\ UNCHANGED <<cursor, pt, cow_table, free, home, batch, bkl, h>>

-----------------------------------------------------------------------------
(* The ELF loader: sys_spawn() and sys_execve() *)

\* Give the target back and take the half-built space down.
StageFails(c, o) ==
    /\ active_pml4' = o.saved
    /\ status' = [status EXCEPT ![o.n] = "dying"]
    /\ op' = [op EXCEPT ![c].pc = "teardown", ![c].v = 1]

\* One page of the image: allocate it (it is filled by physical address).
Stage(c) ==
    LET o == op[c]
        v == Walk(Eager, o.v)
    IN
    /\ o.pc = "stage"
    /\ v \in Eager
    /\ \/ \E f \in free :
            /\ free' = free \ {f}
            /\ op' = [op EXCEPT ![c].pc = "stagemap", ![c].v = v, ![c].f = f]
            /\ UNCHANGED <<active_pml4, status>>
       \/ /\ free = {}
          /\ StageFails(c, o)
          /\ UNCHANGED free
    /\ UNCHANGED <<cursor, pt, tlb, cow_table, home, batch, bkl, h>>

\* Map it; the second phase looks the entry up through the target and fails
\* the load, without freeing the frame, when there is none.
StageMap(c) ==
    LET o == op[c] IN
    /\ o.pc = "stagemap"
    /\ \E q \in Mapped(o.v, Writable(o.f)) :
         /\ pt' = q
         /\ \/ /\ q[active_pml4][o.v].f # NoFrame
               /\ op' = [op EXCEPT ![c].pc = "stage", ![c].v = @ + 1]
               /\ UNCHANGED <<active_pml4, status, h>>
            \/ /\ q[active_pml4][o.v].f = NoFrame
               /\ StageFails(c, o)
               /\ h' = [h EXCEPT !.lost = @ \cup {o.f}]
    /\ UNCHANGED <<cursor, tlb, cow_table, free, home, batch, bkl>>

\* The image is complete.  A spawned process is placed on this CPU or, when it
\* is on the batch list, on Worker; execve swaps the spaces and takes the old
\* one down.
Staged(c) ==
    LET o == op[c] IN
    /\ o.pc = "stage"
    /\ Walk(Eager, o.v) = 0
    /\ active_pml4' = o.saved
    /\ tlb' = [tlb EXCEPT ![o.n] = Refill(pt[o.n])]
    /\ \/ /\ o.call = "spawn"
          /\ status' = [status EXCEPT ![o.n] = "live"]
          /\ \/ home' = [home EXCEPT ![o.n] = c] /\ batch' = batch
             \/ home' = [home EXCEPT ![o.n] = Worker] /\ batch' = batch \cup {o.n}
          /\ Goto(c, "release")
       \/ /\ o.call = "execve"
          /\ status' = [status EXCEPT ![o.n] = "live", ![o.s] = "dying"]
          /\ home' = [home EXCEPT ![o.n] = c]
          /\ batch' = IF o.s \in batch THEN batch \cup {o.n} ELSE batch
          /\ op' = [op EXCEPT ![c].pc = "teardown", ![c].v = 1, ![c].n = o.s]
    /\ UNCHANGED <<cursor, pt, cow_table, free, bkl, h>>

-----------------------------------------------------------------------------
(* Exit, reaping and paging_destroy_address_space() *)

\* sys_exit(), or a fatal signal: the zombie keeps its space.
Exit(c, s) ==
    /\ Runs(c, s)
    /\ status' = [status EXCEPT ![s] = "dead"]
    /\ UNCHANGED <<mem, active_pml4, home, batch, bkl, op, h>>

\* The last reference of a zombie is dropped, on whichever CPU that happens.
Reap(c, s) ==
    /\ op[c].pc = "user"
    /\ status[s] = "dead"
    /\ status' = [status EXCEPT ![s] = "dying"]
    /\ op' = [op EXCEPT ![c] = NewOp("teardown", "exit", Kernel, s, 1, NoFrame)]
    /\ UNCHANGED <<mem, active_pml4, home, batch, bkl, h>>

\* One owned page of the space that goes away.
TeardownPage(c) ==
    LET o == op[c]
        v == Walk(Present(o.n), o.v)
        f == pt[o.n][v].f
    IN
    /\ o.pc = "teardown"
    /\ v \in Present(o.n)
    /\ cow_table' = cow_unref(cow_table, f)
    /\ free' = IF LastOwner(cow_table, f) THEN free \cup {f} ELSE free
    /\ pt' = [pt EXCEPT ![o.n][v] = NoPte]
    /\ op' = [op EXCEPT ![c].v = v + 1]
    /\ UNCHANGED <<cursor, tlb, active_pml4, status, home, batch, bkl, h>>

TeardownDone(c) ==
    LET o == op[c] IN
    /\ o.pc = "teardown"
    /\ Walk(Present(o.n), o.v) = 0
    /\ status' = [status EXCEPT ![o.n] = "free"]
    /\ tlb' = [tlb EXCEPT ![o.n] = NoTlb]
    /\ home' = [home EXCEPT ![o.n] = General]
    /\ batch' = batch \ {o.n}
    /\ cursor' = [cursor EXCEPT ![o.n] = AnonBase]
    /\ IF o.call \in Marked THEN Goto(c, "release") ELSE Done(c)
    /\ UNCHANGED <<pt, cow_table, free, active_pml4, bkl, h>>

\* A process that has blocked is woken through scheduler_add_process_home():
\* one that is not of batch class may run on General only.
Rehome(s) ==
    /\ Runs(Worker, s)
    /\ s \notin batch
    /\ home' = [home EXCEPT ![s] = General]
    /\ tlb' = [tlb EXCEPT ![s] = Refill(pt[s])]
    /\ UNCHANGED <<cursor, pt, cow_table, free, active_pml4, status, batch, bkl, op, h>>

-----------------------------------------------------------------------------
(* User writes and page faults *)

\* A store traps on a copy-on-write page; cow_handle_write() reads the entry.
WriteFault(c, s, v) ==
    /\ Runs(c, s)
    /\ tlb[s][v] = NoFrame
    /\ pt[s][v].cow
    /\ pt[s][v].f # NoFrame
    /\ Start(c, "cowcheck", "fault", s, v, pt[s][v].f)
    /\ UNCHANGED <<mem, active_pml4, status, home, batch, bkl, h>>

\* Under cow_lock: a sole owner gets its page back, anybody else copies it.
CowCheck(c) ==
    LET o == op[c] IN
    /\ o.pc = "cowcheck"
    /\ \/ /\ cow_table[o.f] = 0
          /\ pt' = [pt EXCEPT ![o.s][o.v] = Writable(o.f)]
          /\ tlb' = [tlb EXCEPT ![o.s][o.v] = o.f]
          /\ Done(c)
       \/ /\ cow_table[o.f] > 0
          /\ Goto(c, "cowcopy")
          /\ UNCHANGED <<pt, tlb>>
    /\ UNCHANGED <<cursor, cow_table, free, active_pml4, status, home, batch, bkl, h>>

\* The lock is released by now.  Without memory the process is killed.
CowCopy(c) ==
    LET o == op[c] IN
    /\ o.pc = "cowcopy"
    /\ \/ \E f \in free :
            /\ free' = free \ {f}
            /\ pt' = [pt EXCEPT ![o.s][o.v] = Writable(f)]
            /\ Goto(c, "cowunref")
            /\ UNCHANGED status
       \/ /\ free = {}
          /\ status' = [status EXCEPT ![o.s] = "dead"]
          /\ Done(c)
          /\ UNCHANGED <<pt, free>>
    /\ UNCHANGED <<cursor, tlb, cow_table, active_pml4, home, batch, bkl, h>>

\* The old frame loses this owner; what cow_unref() answers is not looked at.
CowUnref(c) ==
    LET o == op[c] IN
    /\ o.pc = "cowunref"
    /\ cow_table' = cow_unref(cow_table, o.f)
    /\ h' = IF LastOwner(cow_table, o.f) THEN [h EXCEPT !.lost = @ \cup {o.f}] ELSE h
    /\ tlb' = [tlb EXCEPT ![o.s][o.v] = pt[o.s][o.v].f]
    /\ Done(c)
    /\ UNCHANGED <<cursor, pt, free, active_pml4, status, home, batch, bkl>>

\* A page of the lazy stack that is not present: handle_page_fault() allocates.
DemandFault(c, s, v) ==
    /\ Runs(c, s)
    /\ v \in Lazy
    /\ pt[s][v].f = NoFrame
    /\ \/ \E f \in free :
            /\ free' = free \ {f}
            /\ Start(c, "settarget", "fault", s, v, f)
            /\ UNCHANGED status
       \/ /\ free = {}
          /\ status' = [status EXCEPT ![s] = "dead"]
          /\ UNCHANGED <<free, op>>
    /\ UNCHANGED <<cursor, pt, tlb, cow_table, active_pml4, home, batch, bkl, h>>

-----------------------------------------------------------------------------
(* mmap, munmap and the mapping of a page outside the big kernel lock *)

\* vmm_mmap_anon() for one page, at the cursor; NULL when the window or the
\* memory is used up.  vma_cursor_for() gives a space it does not know the first
\* page of the window, whatever fork has put there.
Mmap(c, s) ==
    /\ Runs(c, s)
    /\ cursor[s] \in Anon
    /\ \E f \in free :
         /\ free' = free \ {f}
         /\ Start(c, "settarget", "mmap", s, cursor[s], f)
    /\ UNCHANGED <<pt, tlb, cow_table, cursor, active_pml4, status, home, batch, bkl, h>>

\* vmm_munmap() takes any page above VMM_ANON_VA_BASE, the stack included;
\* where nothing is mapped it changes nothing.
Munmap(c, s, v) ==
    /\ Runs(c, s)
    /\ v \in Anon \cup Lazy
    /\ pt[s][v].f # NoFrame
    /\ Start(c, "settarget", "munmap", s, v, NoFrame)
    /\ UNCHANGED <<mem, active_pml4, status, home, batch, bkl, h>>

\* paging_set_target(); mmap and munmap remember the target they found, the
\* page fault will reset it to the kernel's table.
SetTarget(c) ==
    LET o == op[c] IN
    /\ o.pc = "settarget"
    /\ Retarget(c, o.s)
    /\ op' = [op EXCEPT ![c].pc = IF o.call = "munmap" THEN "freepage" ELSE "map",
                        ![c].saved = IF o.call = "fault" THEN Kernel ELSE active_pml4]
    /\ UNCHANGED <<mem, status, home, batch, bkl>>

\* The new page is mapped; nobody notices when that fails, nor when the entry
\* was in use.  mmap commits its cursor.
MapPage(c) ==
    LET o == op[c] IN
    /\ o.pc = "map"
    /\ \E q \in Mapped(o.v, Writable(o.f)) :
         /\ pt' = q
         /\ h' = [h EXCEPT !.lost = IF q = pt THEN @ \cup {o.f} ELSE @,
                           !.over = @ \/ pt[o.s][o.v].f # NoFrame]
         /\ tlb' = [tlb EXCEPT ![o.s] = Refill(q[o.s])]
    /\ cursor' = IF o.call = "mmap" THEN [cursor EXCEPT ![o.s] = o.v + 1] ELSE cursor
    /\ Goto(c, "restore")
    /\ UNCHANGED <<cow_table, free, active_pml4, status, home, batch, bkl>>

\* Mutant: the frame is freed whoever else owns it.
free_page_shared(c) ==
    LET o == op[c]
        f == pt[o.s][o.v].f
    IN
    /\ o.pc = "freepage"
    /\ IF f = NoFrame
         THEN UNCHANGED <<cow_table, free>>
         ELSE /\ cow_table' = cow_unref(cow_table, f)
              /\ free' = free \cup {f}
    /\ op' = [op EXCEPT ![c].pc = "unmap", ![c].f = f]
    /\ UNCHANGED <<cursor, pt, tlb, active_pml4, status, home, batch, bkl, h>>

\* munmap frees the frame if this was its last owner ...
FreePage(c) ==
    LET o == op[c]
        f == pt[o.s][o.v].f
    IN
    /\ o.pc = "freepage"
    /\ IF f = NoFrame
         THEN UNCHANGED <<cow_table, free>>
         ELSE /\ cow_table' = cow_unref(cow_table, f)
              /\ free' = IF LastOwner(cow_table, f) THEN free \cup {f} ELSE free
    /\ op' = [op EXCEPT ![c].pc = "unmap", ![c].f = f]
    /\ UNCHANGED <<cursor, pt, tlb, active_pml4, status, home, batch, bkl, h>>

\* ... and then clears the entry in the table the target names.
UnmapPage(c) ==
    LET o == op[c] IN
    /\ o.pc = "unmap"
    /\ pt' = [pt EXCEPT ![active_pml4][o.v] = NoPte]
    /\ tlb' = [tlb EXCEPT ![o.s][o.v] = NoFrame]
    /\ Goto(c, "restore")
    /\ UNCHANGED <<cursor, cow_table, free, active_pml4, status, home, batch, bkl, h>>

RestoreTarget(c) ==
    /\ op[c].pc = "restore"
    /\ active_pml4' = op[c].saved
    /\ Done(c)
    /\ UNCHANGED <<mem, status, home, batch, bkl, h>>

-----------------------------------------------------------------------------
(* The specification *)

\* init has been loaded on the general CPU; nothing else runs.
Init ==
    \E s \in Space, g \in [Eager -> Frame] :
        /\ \A u, v \in Eager : g[u] = g[v] => u = v
        /\ pt = [t \in Table |->
                   [v \in Page |-> IF t = s /\ v \in Eager THEN Writable(g[v])
                                                          ELSE NoPte]]
        /\ free = Frame \ {g[v] : v \in Eager}
        /\ status = [t \in Space |-> IF t = s THEN "live" ELSE "free"]
        /\ tlb = [t \in Space |-> Refill(pt[t])]
        /\ cow_table = [f \in Frame |-> 0]
        /\ active_pml4 = Kernel
        /\ home = [t \in Space |-> General]
        /\ batch = {}
        /\ bkl = FreeLock
        /\ op = [c \in Cpu |-> Idle]
        /\ cursor = [t \in Space |-> AnonBase]
        /\ h = [stray |-> FALSE, over |-> FALSE, lost |-> {}]

Locking(c) == Begin(c) \/ Release(c) \/ Unlock(c)

Forking(c) == ForkPage(c) \/ ForkMap(c) \/ ForkDone(c) \/ ForkFail(c)

Loading(c) == Stage(c) \/ StageMap(c) \/ Staged(c)

Faulting(c) == CowCheck(c) \/ CowCopy(c) \/ CowUnref(c)

Mapping(c) ==
    SetTarget(c) \/ MapPage(c) \/ FreePage(c) \/ UnmapPage(c) \/ RestoreTarget(c)

\* CPU c takes the next step of the kernel operation it is in.
Step(c) ==
    \/ Locking(c) \/ Forking(c) \/ Loading(c) \/ Faulting(c) \/ Mapping(c)
    \/ TeardownPage(c) \/ TeardownDone(c)

Next ==
    \/ \E c \in Cpu : Step(c)
    \/ \E c \in Cpu, s \in Space :
         \/ \E call \in Marked : Enter(c, s, call)
         \/ Exit(c, s)
         \/ Reap(c, s)
         \/ Mmap(c, s)
         \/ \E v \in Page :
              WriteFault(c, s, v) \/ DemandFault(c, s, v)
                \/ Munmap(c, s, v)
    \/ \E s \in Space : Rehome(s)

Spec == Init /\ [][Next]_vars

-----------------------------------------------------------------------------
(* Properties *)

\* The entries that map a frame.
Owners(f) == {x \in Space \X Page : pt[x[1]][x[2]].f = f}

\* Operations that have counted an owner whose entry is not there: a child not
\* mapped yet (handlers.c:212), a writer that has moved on (cow.c:184).
Early(f) == {c \in Cpu : /\ op[c].f = f
                         /\ \/ op[c].pc = "forkmap" /\ op[c].e.f = f
                            \/ op[c].pc = "cowunref"}

\* munmap has stopped counting an owner whose entry is still there
\* (paging.c:992-1000).
Late(f) == {c \in Cpu : op[c].pc = "unmap" /\ op[c].f = f}

Leaving(f) == {<<op[c].s, op[c].v>> : c \in Late(f)}

\* What the counts and the isolation rest on: no unmarked call has moved the
\* mapping target inside another CPU's window, and no mmap has replaced an
\* entry that was in use.
Undisturbed == ~h.stray /\ ~h.over

\* The bump cursor of vma.c:20-24 "records the next free VA for each address
\* space": nothing is mapped where a process's next mmap will land.
NextVaFree ==
    \A s \in Space : status[s] = "live" /\ cursor[s] \in Anon => pt[s][cursor[s]].f = NoFrame

\* A mapping window is kept: whoever has pointed active_pml4 at a space
\* still finds it there.
TargetIsMine ==
    \A c \in Cpu : Window(op[c]) => active_pml4 = Target(op[c])

\* The big kernel lock (bkl.c:113-177) admits one CPU: whoever is in a marked
\* call is the only one and holds the word, bkl_owner and bkl_depth name it from
\* its first step to its last, and between calls the lock is free.
BklExclusive ==
    /\ \A c \in Cpu : op[c].call \in Marked =>
         /\ \A d \in Cpu : op[d].call \in Marked => d = c
         /\ bkl = IF op[c].pc \in {"own", "unlock"}
                    THEN [word |-> 1, owner |-> NoCpu, depth |-> 0]
                    ELSE [word |-> 1, owner |-> c, depth |-> 1]
    /\ (\A c \in Cpu : op[c].call \notin Marked) => bkl = FreeLock

\* What the lock is for (bkl.c:5-9): as long as no unmarked call has meddled,
\* the single mapping target of paging.c:21 is never pulled from under a fork,
\* an execve or a spawn by the other CPU.
TargetHeld == ~h.stray => TargetIsMine

\* cow.c:11-15, "refcount[pfn] == N -> N+1 owners share the frame", in every
\* interleaving of faults, forks, failed forks, munmaps and teardowns on two
\* CPUs: a count is one less than the owners, and none is left behind on a
\* frame nobody owns.
CowExact ==
    Undisturbed => \A f \in Frame :
        LET n == Cardinality(Owners(f)) + Cardinality(Early(f)) - Cardinality(Late(f))
        IN  cow_table[f] = IF n = 0 THEN 0 ELSE n - 1

\* fork gives a snapshot (handlers.c:106-283, cow.c:3-7): whatever a process
\* can store to, through its tables or a translation it may still have cached,
\* is a frame nobody else maps and the allocator does not hold.
Snapshot ==
    Undisturbed => \A s \in Space, v \in Page :
        LET e == pt[s][v] IN
        status[s] = "live" /\ (\A c \in Cpu : op[c].s # s)
            => \A f \in {tlb[s][v], IF e.w THEN e.f ELSE NoFrame} \ {NoFrame} :
                 /\ f \notin free
                 /\ Owners(f) \ Leaving(f) = {<<s, v>>}
                 /\ Early(f) = {}

\* A frame the allocator may hand out is mapped nowhere, except by a munmap
\* that is about to clear the entry, and no CPU is still using it.  And no frame
\* goes missing in fork, its failures, exit, execve or munmap: each is free,
\* mapped, in the hands of a CPU, or among those given up in the three places
\* that do: a mapping that fails unnoticed in a fault or a load, and a copy whose
\* last co-owner left in between (cow.c:186).
FramesExact ==
    Undisturbed =>
        /\ \A f \in free :
             /\ Cardinality(Owners(f)) = Cardinality(Late(f))
             /\ \A c \in Cpu : op[c].pc \in {"forkmap", "stagemap", "map", "cowcheck",
                                             "cowcopy", "cowunref"} => op[c].f # f
        /\ \A f \in Frame \ (free \cup h.lost) :
             \/ Owners(f) # {}
             \/ \E c \in Cpu : /\ op[c].f = f
                               /\ op[c].pc \in {"forkmap", "stagemap", "settarget",
                                                "map", "cowunref"}

\* A failed fork heals (handlers.c:271-277): while nobody shares a page of a
\* live process any more, its owner can write to it again, at once or after one
\* fault that needs no memory.
SoleOwnerWrites ==
    Undisturbed => \A s \in Space, v \in Page :
        LET e == pt[s][v] IN
        status[s] = "live" /\ e.f # NoFrame /\ Cardinality(Owners(e.f)) = 1
            /\ Early(e.f) = {} /\ Late(e.f) = {}
            => e.w \/ (e.cow /\ cow_table[e.f] = 0)

=============================================================================
