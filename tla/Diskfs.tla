------------------------------- MODULE Diskfs -------------------------------
(***************************************************************************)
(* The persistent flat filesystem (diskfs.c): superblock, allocation       *)
(* bitmap, inode table, data blocks with one indirect block per file, the  *)
(* boot that mounts or formats it, and the replacement of a file (unlink,  *)
(* create, write) that all of its callers are made of.                     *)
(*                                                                         *)
(* An action ends at one write to the disk, so that the power can fail     *)
(* between any two of them.  The kernel polls the disk and is not          *)
(* preempted in a system call: one operation is in progress at a time.     *)
(*                                                                         *)
(* A block is an array of words, and what a word means depends on who      *)
(* reads it: file data, or block pointers.  Sizes count blocks; the        *)
(* offset inside a block, and the sectors a block is made of, are left     *)
(* out.                                                                    *)
(***************************************************************************)
EXTENDS Integers, Sequences, SequencesExt, FiniteSets, FiniteSetsExt

CONSTANTS
    Name,           \* file names
    NoName,         \* the name in a free inode
    BootLog,        \* the file the first boot writes
    BootMsg,        \* and its contents
    BlockCount,     \* block_count, block 0 (the NULL sentinel) included
    InodeCount,     \* inode_count
    DFS_DIRECT,
    DFS_PTRS_PER_BLOCK,
    MaxFaults,      \* I/O errors, over all boots
    MaxCrashes      \* power failures

Block == 0 .. (BlockCount - 1)
Ino   == 0 .. (InodeCount - 1)
NoIno == InodeCount
Word  == 0 .. BlockCount        \* BlockCount: any index out of range
Content == [0 .. (DFS_PTRS_PER_BLOCK - 1) -> Word]
Zero  == [i \in 0 .. (DFS_PTRS_PER_BLOCK - 1) |-> 0]
DFS_MAX_FILE_BLOCKS == DFS_DIRECT + DFS_PTRS_PER_BLOCK

ASSUME DiskAssumption ==
    /\ {BlockCount, InodeCount, DFS_DIRECT, DFS_PTRS_PER_BLOCK} \subseteq Nat \ {0}
    /\ {MaxFaults, MaxCrashes} \subseteq Nat
    /\ NoName \notin Name /\ BootLog \in Name /\ BootMsg \in Seq(Content)

Inode == [ type     : {"FREE", "FILE"},
           size     : 0 .. DFS_MAX_FILE_BLOCKS,
           name     : Name \cup {NoName},
           direct   : [0 .. (DFS_DIRECT - 1) -> Word],
           indirect : Word ]
FreeInode == [ type |-> "FREE", size |-> 0, name |-> NoName,
               direct |-> [i \in 0 .. (DFS_DIRECT - 1) |-> 0], indirect |-> 0 ]

\* The medium.
Disk == [ valid     : BOOLEAN,          \* the superblock: magic and checksum
          formatted : BOOLEAN,          \* and its fs_formatted
          bitmap    : SUBSET Block,     \* the blocks in use
          inode     : [Ino -> Inode],
          data      : [Block -> Content] ]

\* The operation in progress: a client replaces file `name` by `data`.
Op == [ pc   : {"idle", "free", "clear", "create", "alloc", "zero", "ptr",
                "unalloc", "data", "inode"},
        who  : {"boot", "persist", "cfg"},
        name : Name,
        data : Seq(Content),
        ino  : Ino \cup {NoIno},
        in   : Inode,                   \* the inode in memory
        todo : Seq(Block),              \* blocks still to be freed
        lbn  : Nat,                     \* blocks written
        nb   : Block,                   \* the block just allocated
        want : {"direct", "indirect", "ptr"},
        io   : BOOLEAN ]                \* it has met an I/O error

\* What a power failure wipes out.
Kernel == [ mode    : {"off", "bitmap", "inodes", "sb", "mount", "run"},
            fmt     : BOOLEAN,          \* fs_formatted in the superblock buffer
            fresh   : BOOLEAN,          \* fresh_format
            mounted : BOOLEAN,
            ready   : BOOLEAN,          \* g_diskfs_ready
            bm      : SUBSET Block,     \* g_bitmap
            op      : Op ]

NoOp == [ pc |-> "idle", who |-> "boot", name |-> BootLog, data |-> << >>, ino |-> NoIno,
          in |-> FreeInode, todo |-> << >>, lbn |-> 0, nb |-> 0, want |-> "direct",
          io |-> FALSE ]
Off  == [ mode |-> "off", fmt |-> FALSE, fresh |-> FALSE, mounted |-> FALSE,
          ready |-> FALSE, bm |-> {}, op |-> NoOp ]

VARIABLES
    disk,
    k,      \* the kernel's memory
    h       \* for the properties: I/O errors, power failures, whether one hit a
            \* window that leaves a dangling reference, completed replacements

\* At most one thing: nothing, or the contents that were saved.
NotSaved == {}
History == [ faults  : 0 .. MaxFaults,
             crashes : 0 .. MaxCrashes,
             torn    : BOOLEAN,
             saved   : [Name -> SUBSET Seq(Content)] ]

DiskTypeOK == disk \in Disk /\ k \in Kernel /\ h \in History

\* A blank disk: nothing on it is a valid superblock.
DiskInit ==
    /\ disk = [ valid |-> FALSE, formatted |-> FALSE, bitmap |-> {},
                inode |-> [i \in Ino |-> FreeInode], data |-> [b \in Block |-> Zero] ]
    /\ k = Off
    /\ h = [ faults |-> 0, crashes |-> 0, torn |-> FALSE,
             saved |-> [n \in Name |-> NotSaved] ]

-----------------------------------------------------------------------------
(***************************************************************************)
(* Reading the disk.                                                       *)
(***************************************************************************)
dfs_find_by_name(d, n) ==
    Min({i \in Ino : d.inode[i].type = "FILE" /\ d.inode[i].name = n} \cup {NoIno})

\* Mutant: only the first inode is asked whether it is free.
find_free_any(d) == Min({i \in Ino : i > 0 \/ d.inode[i].type = "FREE"} \cup {NoIno})

dfs_find_free_inode(d) == Min({i \in Ino : d.inode[i].type = "FREE"} \cup {NoIno})

\* An index out of range is a hole.
dfs_iptr_get(d, iblk, idx) == IF iblk \in Block \ {0} THEN d.data[iblk][idx] ELSE 0

\* dfs_map_block() without allocation.
dfs_map_block(d, in, lbn) ==
    IF lbn < DFS_DIRECT THEN in.direct[lbn] ELSE dfs_iptr_get(d, in.indirect, lbn - DFS_DIRECT)

\* diskfs_read() of a whole file: holes read as zeros, and a pointer out of
\* range ends the read.
diskfs_read(d, in) ==
    LET blk(j) == dfs_map_block(d, in, j - 1)
        good   == {j \in 1 .. in.size : blk(j) \notin Block}
        len    == IF good = {} THEN in.size ELSE Min(good) - 1
    IN  [j \in 1 .. len |-> IF blk(j) = 0 THEN Zero ELSE d.data[blk(j)]]

\* The blocks dfs_free_inode_blocks() frees, in its order.
FreeList(d, in) ==
    LET direct   == [i \in 1 .. DFS_DIRECT |-> in.direct[i - 1]]
        pointers == [i \in 1 .. DFS_PTRS_PER_BLOCK |-> dfs_iptr_get(d, in.indirect, i - 1)]
    IN  SelectSeq(direct \o pointers \o << in.indirect >>, LAMBDA b : b \in Block \ {0})

-----------------------------------------------------------------------------
(***************************************************************************)
(* Writing it.  A write that fails may have reached the medium or not.     *)
(***************************************************************************)
Outcome == IF h.faults < MaxFaults THEN BOOLEAN ELSE {TRUE}

\* Write d with outcome ok, record the error, and go on with memory m.
Write(d, ok, m) ==
    /\ disk' \in IF ok THEN {d} ELSE {disk, d}
    /\ k' = [m EXCEPT !.op.io = (@ \/ ~ok) /\ m.op.pc # "idle"]

Charge(ok) == [h EXCEPT !.faults = IF ok THEN @ ELSE @ + 1]

Step(pc) == k.mode = "run" /\ k.op.pc = pc

\* Return to the client.
Done(m) == [m EXCEPT !.op = NoOp]

-----------------------------------------------------------------------------
(***************************************************************************)
(* diskfs_unlink().                                                        *)
(***************************************************************************)
Pointers(d, in) ==
    {dfs_iptr_get(d, in.indirect, i) : i \in 0 .. (DFS_PTRS_PER_BLOCK - 1)} \ {0}

\* A client starts to replace file n.  An error while looking it up counts as
\* "not found"; an error while reading a pointer, as a hole.
Replace(who, n, data) ==
    /\ k.mode = "run" /\ k.op.pc = "idle" /\ k.mounted
    /\ \E ok \in Outcome, ino \in {dfs_find_by_name(disk, n)} :
          LET op    == [NoOp EXCEPT !.who = who, !.name = n, !.data = data, !.io = ~ok]
              list  == FreeList(disk, disk.inode[ino])
              begun == {[op EXCEPT !.pc = IF l = << >> THEN "clear" ELSE "free",
                                   !.ino = ino, !.in = disk.inode[ino], !.todo = l] :
                           l \in IF ok THEN {list}
                                 ELSE {Remove(list, b) : b \in Pointers(disk, disk.inode[ino])}}
          IN  /\ \E o \in IF ino = NoIno THEN {[op EXCEPT !.pc = "create"]}
                          ELSE IF ok THEN begun ELSE begun \cup {[op EXCEPT !.pc = "create"]} :
                     k' = [k EXCEPT !.op = o]
              /\ h' = [Charge(ok) EXCEPT !.saved[n] = NotSaved]
              /\ UNCHANGED disk

\* Mutant: the loop ends after the first block.
free_first_only ==
    /\ Step("free")
    /\ disk' = [disk EXCEPT !.bitmap = k.bm \ {Head(k.op.todo)}]
    /\ k' = [k EXCEPT !.bm = @ \ {Head(k.op.todo)}, !.op.todo = << >>, !.op.pc = "clear"]
    /\ UNCHANGED h

\* dfs_block_free(): the result of the flush is ignored.
FreeBlock ==
    /\ Step("free")
    /\ \E ok \in Outcome :
          LET bm   == k.bm \ {Head(k.op.todo)}
              todo == Tail(k.op.todo)
          IN  /\ Write([disk EXCEPT !.bitmap = bm], ok,
                       [k EXCEPT !.bm = bm, !.op.todo = todo,
                                 !.op.pc = IF todo = << >> THEN "clear" ELSE "free"])
              /\ h' = Charge(ok)

\* The blocks of inode i of disk d.
Refs(d, i) == IF d.inode[i].type = "FILE" THEN ToSet(FreeList(d, d.inode[i])) ELSE {}

\* The inode is cleared last.  Its callers ignore the result.
ClearInode ==
    /\ Step("clear")
    /\ \E ok \in Outcome :
          /\ Write([disk EXCEPT !.inode[k.op.ino] = FreeInode], ok,
                   [k EXCEPT !.op.pc = "create"])
          /\ h' = [Charge(ok) EXCEPT !.torn = @ \/ ~(Refs(disk', k.op.ino) \subseteq k.bm)]

-----------------------------------------------------------------------------
(***************************************************************************)
(* diskfs_create() and diskfs_write().                                     *)
(***************************************************************************)
\* The top of the write loop: the next block of the file is mapped, or has to
\* be allocated (and the indirect block before it), or there is none left.
NextBlock(d, op) ==
    LET blk == dfs_map_block(d, op.in, op.lbn)
    IN  IF op.lbn = Len(op.data) \/ op.lbn = DFS_MAX_FILE_BLOCKS
        THEN [op EXCEPT !.pc = "inode"]
        ELSE IF op.lbn >= DFS_DIRECT /\ op.in.indirect = 0
             THEN [op EXCEPT !.pc = "alloc", !.want = "indirect"]
             ELSE IF blk = 0
                  THEN [op EXCEPT !.pc = "alloc",
                                  !.want = IF op.lbn < DFS_DIRECT THEN "direct" ELSE "ptr"]
                  ELSE [op EXCEPT !.pc = "data", !.nb = blk]

Created == [disk EXCEPT !.inode[dfs_find_free_inode(disk)] =
                [FreeInode EXCEPT !.type = "FILE", !.name = k.op.name]]

\* The name must not exist, but an error while looking says it does not.
Create ==
    /\ Step("create")
    /\ dfs_find_free_inode(disk) # NoIno
    /\ \E ok \in Outcome, ino \in {dfs_find_free_inode(disk)} :
          /\ ok => dfs_find_by_name(disk, k.op.name) = NoIno
          /\ disk' = Created
          /\ k' = [k EXCEPT !.op = NextBlock(Created, [@ EXCEPT !.ino = ino, !.lbn = 0,
                                          !.in = Created.inode[ino], !.io = @ \/ ~ok])]
          /\ h' = Charge(ok)

\* The name is taken, no inode is free, or an error ends the creation (or the
\* write, before its first block).
CreateFails ==
    /\ Step("create")
    /\ \E ok \in Outcome :
          LET possible == /\ dfs_find_by_name(disk, k.op.name) = NoIno
                          /\ dfs_find_free_inode(disk) # NoIno
          IN  /\ ok => ~possible
              /\ disk' \in IF possible THEN {disk, Created} ELSE {disk}
              /\ k' = Done(k) /\ h' = Charge(ok)

\* dfs_block_alloc(): the first free block is marked, and the bitmap flushed.
AllocBlock ==
    /\ Step("alloc")
    /\ \E ok \in Outcome, b \in {Min({c \in Block \ {0} : c \notin k.bm} \cup {BlockCount})} :
          IF b = BlockCount
          THEN /\ ok /\ k' = [k EXCEPT !.op.pc = "inode"]
               /\ UNCHANGED << disk, h >>
          ELSE /\ Write([disk EXCEPT !.bitmap = k.bm \cup {b}], ok,
                        IF ok THEN [k EXCEPT !.bm = @ \cup {b}, !.op.nb = b, !.op.pc = "zero"]
                              ELSE [k EXCEPT !.op.pc = "inode"])
               /\ h' = Charge(ok)

\* Then it is zeroed, and linked: in memory, or in the indirect block.
ZeroBlock ==
    /\ Step("zero")
    /\ \E ok \in Outcome :
          LET nb == k.op.nb
              linked == CASE k.op.want = "direct"   -> [k.op EXCEPT !.in.direct[k.op.lbn] = nb, !.pc = "data"]
                          [] k.op.want = "indirect" -> [k.op EXCEPT !.in.indirect = nb, !.pc = "alloc", !.want = "ptr"]
                          [] k.op.want = "ptr"      -> [k.op EXCEPT !.pc = "ptr"]
          IN  /\ Write([disk EXCEPT !.data[nb] = Zero], ok,
                       [k EXCEPT !.op = IF ok THEN linked ELSE [@ EXCEPT !.pc = "unalloc"]])
              /\ h' = Charge(ok)

\* dfs_iptr_set().  If the pointer reached the disk although the write failed,
\* it refers to a block that is about to be freed.
SetPointer ==
    /\ Step("ptr")
    /\ \E ok \in Outcome :
          LET idx == k.op.lbn - DFS_DIRECT
              set == [disk EXCEPT !.data[k.op.in.indirect][idx] = k.op.nb]
          IN  /\ Write(set, ok, [k EXCEPT !.op.pc = IF ok THEN "data" ELSE "unalloc"])
              /\ h' = [Charge(ok) EXCEPT !.torn = @ \/ (~ok /\ disk' = set)]

\* The block is given back, and the loop ends.
UnallocBlock ==
    /\ Step("unalloc")
    /\ \E ok \in Outcome :
          /\ Write([disk EXCEPT !.bitmap = k.bm \ {k.op.nb}], ok,
                   [k EXCEPT !.bm = @ \ {k.op.nb}, !.op.pc = "inode"])
          /\ h' = Charge(ok)

WriteData ==
    /\ Step("data")
    /\ \E ok \in Outcome :
          LET d  == [disk EXCEPT !.data[k.op.nb] = k.op.data[k.op.lbn + 1]]
              op == [k.op EXCEPT !.lbn = @ + 1]
          IN  /\ Write(d, ok, [k EXCEPT !.op = IF ok THEN NextBlock(d, op)
                                                ELSE [@ EXCEPT !.pc = "inode"]])
              /\ h' = Charge(ok)

\* Mutant: the size is not brought up to date.
write_inode_stale_size ==
    /\ Step("inode")
    /\ disk' = [disk EXCEPT !.inode[k.op.ino] = k.op.in]
    /\ k' = Done(k)
    /\ h' = [h EXCEPT !.saved[k.op.name] =
                IF ~k.op.io /\ k.op.lbn = Len(k.op.data) THEN {k.op.data} ELSE @]

\* The inode is written once, at the end, if it has changed.  The call returns
\* the number of blocks written, even if this last write fails.
WriteInode ==
    /\ Step("inode")
    /\ \E ok \in Outcome :
          LET in   == [k.op.in EXCEPT !.size = Max({@, k.op.lbn})]
              full == ok /\ ~k.op.io /\ k.op.lbn = Len(k.op.data) /\ disk.valid /\ disk.formatted
          IN  /\ in = disk.inode[k.op.ino] => ok
              /\ Write([disk EXCEPT !.inode[k.op.ino] = in], ok, Done(k))
              /\ h' = [Charge(ok) EXCEPT !.saved[k.op.name] = IF full THEN {k.op.data} ELSE @]

-----------------------------------------------------------------------------
(***************************************************************************)
(* diskfs_init(), and power failures.                                      *)
(***************************************************************************)
\* The superblock is read: unreadable, invalid, or valid.
Boot ==
    /\ k.mode = "off"
    /\ \E ok \in Outcome :
          /\ k' = [Off EXCEPT !.mode = IF ~ok THEN "run" ELSE IF disk.valid THEN "sb" ELSE "bitmap",
                              !.fmt = disk.valid /\ disk.formatted]
          /\ h' = Charge(ok)
    /\ UNCHANGED disk

\* diskfs_format(): the bitmap, then the inode table.  If either write fails the
\* superblock will say that there is no filesystem.
FormatBitmap ==
    /\ k.mode = "bitmap"
    /\ \E ok \in Outcome :
          /\ Write([disk EXCEPT !.bitmap = {0}], ok,
                   [k EXCEPT !.mode = IF ok THEN "inodes" ELSE "sb", !.bm = {0}])
          /\ h' = Charge(ok)

FormatInodes ==
    /\ k.mode = "inodes"
    /\ \E ok \in Outcome :
          /\ Write([disk EXCEPT !.inode = [i \in Ino |-> FreeInode]], ok,
                   [k EXCEPT !.mode = "sb", !.fmt = ok, !.fresh = ok, !.mounted = ok])
          /\ h' = Charge(ok)

\* The superblock is written and read back.  After an error the filesystem is
\* not ready, but a fresh one stays mounted.
WriteSuperblock ==
    /\ k.mode = "sb"
    /\ \E ok \in Outcome :
          /\ Write([disk EXCEPT !.valid = TRUE, !.formatted = k.fmt], ok,
                   IF ~ok THEN [k EXCEPT !.mode = "run"]
                   ELSE IF k.fresh
                        THEN [k EXCEPT !.mode = "run", !.ready = TRUE,
                                       !.op = [@ EXCEPT !.pc = "create", !.data = BootMsg]]
                        ELSE [k EXCEPT !.mode = IF k.fmt THEN "mount" ELSE "run",
                                       !.ready = ~k.fmt])
          /\ h' = Charge(ok)

\* Mutant: the bitmap is not read back.
mount_blank_bitmap ==
    /\ k.mode = "mount"
    /\ k' = [k EXCEPT !.mode = "run", !.ready = TRUE, !.mounted = TRUE, !.bm = {0}]
    /\ UNCHANGED << disk, h >>

\* dfs_mount_from_sb() reads the bitmap.
Mount ==
    /\ k.mode = "mount"
    /\ \E ok \in Outcome :
          /\ k' = [k EXCEPT !.mode = "run", !.ready = TRUE, !.mounted = ok,
                            !.bm = IF ok THEN disk.bitmap ELSE @]
          /\ h' = Charge(ok)
    /\ UNCHANGED disk

\* The power fails.  An unlink that has freed blocks of an inode it has not
\* cleared leaves the inode with dangling references.
PowerFail ==
    /\ k.mode # "off" /\ h.crashes < MaxCrashes
    /\ k' = Off
    /\ h' = [h EXCEPT !.crashes = @ + 1,
                      !.torn = @ \/ /\ k.op.pc \in {"free", "clear"}
                                    /\ ~(Refs(disk, k.op.ino) \subseteq disk.bitmap)]
    /\ UNCHANGED disk

DiskStep ==
    \/ FreeBlock \/ ClearInode \/ Create \/ CreateFails \/ AllocBlock \/ ZeroBlock
    \/ SetPointer \/ UnallocBlock \/ WriteData \/ WriteInode
    \/ Boot \/ FormatBitmap \/ FormatInodes \/ WriteSuperblock \/ Mount
=============================================================================
