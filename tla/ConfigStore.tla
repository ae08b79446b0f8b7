---------------------------- MODULE ConfigStore ----------------------------
(***************************************************************************)
(* The clients of the filesystem: the configuration store                  *)
(* (config_store.c), a table in memory that is written through to one      *)
(* file, and the system call that saves a named file                       *)
(* (SYS_PERSIST_WRITE).                                                    *)
(*                                                                         *)
(* The table takes one block per entry, a key word and a value word, so    *)
(* that a file cut short is a table cut short.                             *)
(***************************************************************************)
EXTENDS Diskfs

CONSTANTS
    CFG_DB_NAME,        \* "config.db"
    Key, Val,           \* words: 0 is no key
    CFG_MAX_ENTRIES,
    Saves               \* << name, contents >> pairs that programs save

ASSUME ConfigAssumption ==
    /\ CFG_DB_NAME \in Name /\ DFS_PTRS_PER_BLOCK = 2
    /\ Key \cup Val \subseteq Word \ {0}
    /\ \A f \in Saves : f[1] \in Name \ {CFG_DB_NAME} /\ f[2] \in Seq(Content)

Entry == Key \X Val

VARIABLES
    cfg,        \* g_cfg: whether it has been loaded, and its entries
    acked       \* for the properties: the values set without an I/O error

cvars == << disk, k, h, cfg, acked >>

NoVal == 0
CfgTypeOK ==
    /\ DiskTypeOK
    /\ cfg \in [inited : BOOLEAN, table : Seq(Entry)]
    /\ acked \in [Key -> Val \cup {NoVal}]

Unloaded == [inited |-> FALSE, table |-> << >>]

CfgInit == DiskInit /\ cfg = Unloaded /\ acked = [x \in Key |-> NoVal]

-----------------------------------------------------------------------------
Idle == k.mode = "run" /\ k.op.pc = "idle"

Serialize(table) == [i \in DOMAIN table |-> [w \in {0, 1} |-> table[i][w + 1]]]

\* Mutant: the last entry is not loaded.
load_but_last(d) ==
    LET ino    == dfs_find_by_name(d, CFG_DB_NAME)
        blocks == diskfs_read(d, d.inode[ino])
    IN  IF ~k.ready \/ ~k.mounted \/ ino = NoIno THEN << >>
        ELSE [i \in 1 .. (Len(blocks) - 1) |-> << blocks[i][0], blocks[i][1] >>]

\* cfg_load_from_disk(): entries up to the first that does not parse.
cfg_load_from_disk(d) ==
    LET ino    == dfs_find_by_name(d, CFG_DB_NAME)
        blocks == diskfs_read(d, d.inode[ino])
        parses(i) == blocks[i][0] \in Key /\ blocks[i][1] \in Val
        len    == Min({i \in 1 .. Len(blocks) : ~parses(i)} \cup {Len(blocks) + 1}) - 1
        kept   == Min({len, CFG_MAX_ENTRIES})
    IN  IF ~k.ready \/ ~k.mounted \/ ino = NoIno THEN << >>
        ELSE [i \in 1 .. kept |-> << blocks[i][0], blocks[i][1] >>]

cfg_ensure_init ==
    IF cfg.inited THEN cfg ELSE [inited |-> TRUE, table |-> cfg_load_from_disk(disk)]

\* The value cfg_get() returns for a key: that of its first entry.
cfg_find(table, x) == Min({i \in DOMAIN table : table[i][1] = x} \cup {Len(table) + 1})
cfg_get(table, x) ==
    IF cfg_find(table, x) \in DOMAIN table THEN table[cfg_find(table, x)][2] ELSE NoVal

\* sys_cfg_get() changes nothing but the table it may have to load.
CfgGet ==
    /\ Idle /\ ~cfg.inited
    /\ cfg' = cfg_ensure_init
    /\ UNCHANGED << disk, k, h, acked >>

\* cfg_set(), then cfg_write_through(): the whole table replaces the file.  The
\* call returns 0 however the write went.
CfgSet(x, v) ==
    LET table == cfg_ensure_init.table
        slot  == cfg_find(table, x)
        set   == IF slot \in DOMAIN table THEN [table EXCEPT ![slot] = << x, v >>]
                 ELSE Append(table, << x, v >>)
    IN  /\ Idle
        /\ slot \in DOMAIN table \/ Len(table) < CFG_MAX_ENTRIES
        /\ cfg' = [inited |-> TRUE, table |-> set]
        /\ IF k.ready /\ k.mounted
           THEN Replace("cfg", CFG_DB_NAME, Serialize(set))
           ELSE UNCHANGED << disk, k, h >>
        /\ acked' = [acked EXCEPT ![x] = NoVal]

\* sys_persist_write() does not ask whether the filesystem is ready.
Save == \E f \in Saves : Replace("persist", f[1], f[2]) /\ UNCHANGED << cfg, acked >>

\* What the store may be held to once a step of the filesystem has ended or cut
\* short the write-through of the table.
Acknowledge ==
    acked' = IF k.op.who = "cfg" /\ k.op.pc # "idle" /\ k'.op.pc = "idle"
             THEN [x \in Key |-> IF h'.saved[CFG_DB_NAME] = {k.op.data}
                                 THEN cfg_get(cfg.table, x) ELSE NoVal]
             ELSE acked

CfgNext ==
    \/ CfgGet
    \/ \E x \in Key, v \in Val : CfgSet(x, v)
    \/ Save
    \/ DiskStep /\ UNCHANGED cfg /\ Acknowledge
    \/ PowerFail /\ cfg' = Unloaded /\ Acknowledge

CfgSpec == CfgInit /\ [][CfgNext]_cvars

-----------------------------------------------------------------------------
\* No step has left a dangling reference behind: every pointer is in range, the
\* blocks of a file (but the one being unlinked) are marked in use, on the disk
\* and in memory, and no block belongs to two files or twice to one.
Unlinking(i) == k.op.pc \in {"free", "clear"} /\ k.op.ino = i
BlocksSound ==
    /\ CfgTypeOK
    /\ ~h.torn /\ disk.valid /\ disk.formatted =>
        /\ \A i \in Ino : IsInjective(FreeList(disk, disk.inode[i]))
        /\ \A i, j \in Ino : i # j => Refs(disk, i) \cap Refs(disk, j) = {}
        /\ \A i \in Ino : ~Unlinking(i) =>
              /\ Refs(disk, i) \subseteq disk.bitmap \ {0}
              /\ k.mounted => Refs(disk, i) \subseteq k.bm

\* Without power failures and I/O errors no block is lost: between operations
\* the blocks in use are those of the files.
NoLeak ==
    h.faults = 0 /\ h.crashes = 0 /\ Idle =>
        disk.bitmap = {0} \cup UNION {Refs(disk, i) : i \in Ino}

\* The contents under each name, if there is such a file.
Files(d) == [n \in Name |-> LET i == dfs_find_by_name(d, n)
                            IN  IF i = NoIno THEN {} ELSE {diskfs_read(d, d.inode[i])}]

\* A file that was saved without an I/O error reads back as it was saved until
\* its name is next written, across any number of power failures.
Durable == \A n \in Name : ~h.torn /\ h.saved[n] # NotSaved => Files(disk)[n] = h.saved[n]

\* A value that was set is what cfg_get() returns, in this boot and in later
\* ones, until a power failure or an I/O error hits the rewriting of the table.
CfgSurvives ==
    ~h.torn /\ Idle /\ k.ready /\ k.mounted =>
        \A x \in Key : acked[x] # NoVal => cfg_get(cfg_ensure_init.table, x) = acked[x]

Store == INSTANCE FileStore WITH files <- Files(disk)

\* "simple + safe": every write to a formatted disk is a step of the abstract
\* store, although a replacement takes many writes and may stop after any.
StoreAtomic ==
    [][disk.valid /\ disk.formatted /\ ~h.torn' => [Store!StoreNext]_(Files(disk))]_cvars
=============================================================================
