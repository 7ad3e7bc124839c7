------------------------------ MODULE CacheBlocks ------------------------------
(*****************************************************************************)
(* The blocks of one public memory mapped cache of cachelib.c and the        *)
(* threads of the process that use it.  The table has one entry a block:     *)
(* its flag, its tag, its rwlock and, in blockmap, the position in the       *)
(* mapping its data is at.  A mutex guards the table.                        *)
(*                                                                           *)
(* A block's data stands for its tag as well: want[i] is the data that was   *)
(* loaded under the tag of entry i, store[k] what position k of the mapping  *)
(* holds.  The mapped file keeps store when the process ends; flags, tags    *)
(* and counts are kept by the map file only, which cache_write_mapinfo       *)
(* writes in place, the checksum of the data first.                          *)
(*                                                                           *)
(* Callers are outside src/: they take the mutex with the first call of a    *)
(* load (CACHE_LOCK, BLOCK_WRLOCK) and give it back with the last            *)
(* (BLOCK_LOADED); a reader keeps its block lock but not the mutex.  Running *)
(* off the table (an add to a full cache) and pups_error end the process.    *)
(*****************************************************************************)
EXTENDS Integers, FiniteSets

CONSTANTS
    Threads, NoThread,
    Stuck,       \* holder of an rwlock that nobody will ever release
    MaxLoads,    \* bound on the number of loads: the k-th load is of data k
    Blocks,      \* n_blocks of the new cache
    MaxBlocks,   \* bound on n_blocks
    MaxCount,    \* bound on u_blocks
    Quantum,     \* BLOCK_ALLOC_QUANTUM
    Word,        \* 2^32: the range of an unsigned counter
    Objects,     \* n_objects: objects in a block
    Sizes,       \* sizes callers ask cache_resize for
    Calls        \* calls the threads make

AllCalls == {"add", "addAny", "read", "delete", "setUsed", "clear",
             "compact", "resize", "merge", "save", "crash"}

ASSUME CacheBlocksAssumption ==
    /\ NoThread \notin Threads /\ Stuck \notin Threads \cup {NoThread}
    /\ Blocks \in 1..MaxBlocks /\ MaxBlocks \in Nat
    /\ MaxLoads \in Nat /\ MaxCount \in Nat
    /\ Quantum \in Nat \ {0} /\ Word \in Nat \ {0} /\ Objects \in Nat \ {0}
    /\ Calls \subseteq AllCalls /\ Sizes \subseteq 1..MaxBlocks

(* The counters of an instance are far from wrapping around. *)
ASSUME WordAssumption == MaxBlocks < Word /\ MaxCount + Quantum <= Word

Blank == 0       \* contents of memory nobody has loaded
Partial == -1    \* contents while only some objects are loaded

VARIABLES
    up,        \* the process runs and has the cache mapped
    n,         \* n_blocks
    objects,   \* n_objects is still what it was: cache_clear sets it to 0
    map,       \* blockmap: position of the data of each entry
    used,      \* entries whose BLOCK_USED flag is set
    want,      \* the data loaded under the tag of each entry
    raw,       \* entries whose flag or tag no load has set
    count,     \* u_blocks
    store,     \* the mapped file: contents of each position
    mutex,     \* holder of the cache's mutex
    wr, rd,    \* rwlock of each entry: its writer, its readers
    at,        \* the call each thread is in, or "idle"
    idx,       \* block of that call, or loop index of a walk
    hole,      \* hole_index of a compaction, MaxBlocks for none
    left,      \* objects an add still has to write
    saved,     \* the map file
    loads,     \* history: number of loads
    stained,   \* history: a load went through a map that was not the identity
    mixed      \* history: a table was read back that is not that of the data

table == <<n, objects, map, used, want, raw, count>>
locks == <<mutex, wr, rd>>
local == <<at, idx, hole, left>>
disk == <<store, saved>>
history == <<loads, stained, mixed>>
vars == <<up, table, locks, local, disk, history>>

Index == 0..(MaxBlocks - 1)
Entries == 0..(n - 1)
Identity == [i \in Index |-> i]

-----------------------------------------------------------------------------

(* cache_create: an empty table over a mapping in order. *)
Init ==
    /\ up = TRUE /\ n = Blocks /\ objects = TRUE /\ map = Identity
    /\ used = {} /\ raw = {} /\ count = 0
    /\ want = [i \in Index |-> Blank]
    /\ mutex = NoThread
    /\ wr = [i \in Index |-> NoThread] /\ rd = [i \in Index |-> {}]
    /\ at = [p \in Threads |-> "idle"]
    /\ idx = [p \in Threads |-> 0]
    /\ hole = [p \in Threads |-> MaxBlocks]
    /\ left = [p \in Threads |-> Objects]
    /\ store = [i \in Index |-> Blank]
    /\ saved = [crc |-> store, n |-> 0, objects |-> TRUE, used |-> {},
                want |-> want, raw |-> {}, count |-> 0, whole |-> FALSE]
    /\ loads = 0 /\ stained = FALSE /\ mixed = FALSE

(* The process ends (pups_error, a wild pointer, a signal) and with it all   *)
(* that is not in a file.                                                    *)
End ==
    /\ up' = FALSE
    /\ n' = Blocks /\ objects' = TRUE /\ map' = Identity
    /\ used' = {} /\ raw' = {} /\ count' = 0
    /\ want' = [i \in Index |-> Blank]
    /\ mutex' = NoThread
    /\ wr' = [i \in Index |-> NoThread] /\ rd' = [i \in Index |-> {}]
    /\ at' = [p \in Threads |-> "idle"]
    /\ idx' = [p \in Threads |-> 0]
    /\ hole' = [p \in Threads |-> MaxBlocks]
    /\ left' = [p \in Threads |-> Objects]
    /\ UNCHANGED <<disk, history>>

CanWriteMutant(i) == wr[i] = NoThread        \* mutant: readers do not keep writers out
CanWrite(i) == wr[i] = NoThread /\ rd[i] = {}
CanRead(i) == wr[i] = NoThread

(* cache_access_object refuses an index past the table and, once the objects *)
(* are forgotten, every index.                                               *)
Accessible(i) == i < n /\ objects

(* A call starts by taking the mutex. *)
Enter(p, call, i) ==
    /\ up /\ at[p] = "idle" /\ call \in Calls
    /\ mutex = NoThread /\ mutex' = p
    /\ at' = [at EXCEPT ![p] = call]
    /\ idx' = [idx EXCEPT ![p] = i]
    /\ UNCHANGED <<up, table, wr, rd, hole, left, disk, history>>

(* p is in a call and has the mutex. *)
In(p, call) == up /\ at[p] = call /\ mutex = p

(* The call returns: its local variables are gone. *)
Leave(p) ==
    /\ at' = [at EXCEPT ![p] = "idle"]
    /\ idx' = [idx EXCEPT ![p] = 0]
    /\ hole' = [hole EXCEPT ![p] = MaxBlocks]
    /\ left' = [left EXCEPT ![p] = Objects]

Return(p) == mutex' = NoThread /\ Leave(p)

-----------------------------------------------------------------------------
(* cache_add_block *)

Add(p) == loads < MaxLoads /\ \E i \in Entries : Enter(p, "add", i)

(* ANY_CACHE_BLOCK: the first unused block is looked for without the mutex. *)
Scan(p) ==
    /\ up /\ at[p] = "idle" /\ "addAny" \in Calls /\ loads < MaxLoads
    /\ at' = [at EXCEPT ![p] = "scan"]
    /\ UNCHANGED <<up, table, locks, idx, hole, left, disk, history>>

ScanStep(p) ==
    /\ up /\ at[p] = "scan" /\ idx[p] < n
    /\ IF idx[p] \in used
       THEN idx' = [idx EXCEPT ![p] = @ + 1] /\ UNCHANGED at
       ELSE at' = [at EXCEPT ![p] = "found"] /\ UNCHANGED idx
    /\ UNCHANGED <<up, table, locks, hole, left, disk, history>>

(* No block is unused: n_blocks is raised before cache_resize compares it,   *)
(* so that nothing is resized and the index used next is past every array.   *)
Overrun(p) == up /\ at[p] = "scan" /\ idx[p] >= n /\ End

Found(p) ==
    /\ up /\ at[p] = "found" /\ mutex = NoThread
    /\ mutex' = p
    /\ at' = [at EXCEPT ![p] = "addAny"]
    /\ UNCHANGED <<up, table, wr, rd, idx, hole, left, disk, history>>

(* One object is copied in, the first one once the block's lock is free.     *)
(* Every call counts but the first of an ANY add.  BLOCK_LOADED, on the      *)
(* last: flag and tag are set, both locks are given back.                    *)
WriteObject(p) ==
    LET i == idx[p] IN
    /\ \/ In(p, "add") /\ CanWrite(i) /\ count' = count + 1
       \/ In(p, "addAny") /\ CanWrite(i) /\ UNCHANGED count
       \/ In(p, "more") /\ count' = count + 1
    /\ Accessible(i) /\ count' <= MaxCount
    /\ stained' = (stained \/ map[i] # i)
    /\ IF left[p] > 1
       THEN /\ store' = [store EXCEPT ![map[i]] = Partial]
            /\ wr' = [wr EXCEPT ![i] = p]
            /\ at' = [at EXCEPT ![p] = "more"]
            /\ left' = [left EXCEPT ![p] = @ - 1]
            /\ UNCHANGED <<used, want, raw, mutex, idx, hole, loads>>
       ELSE /\ loads < MaxLoads /\ loads' = loads + 1
            /\ store' = [store EXCEPT ![map[i]] = loads']
            /\ want' = [want EXCEPT ![i] = loads']
            /\ used' = used \cup {i}
            /\ raw' = raw \ {i}
            /\ wr' = [wr EXCEPT ![i] = NoThread]
            /\ Return(p)
    /\ UNCHANGED <<up, n, objects, map, rd, saved, mixed>>

(* The block index or the object index is out of range. *)
RangeError(p) ==
    /\ \E call \in {"add", "addAny", "read"} : In(p, call)
    /\ ~Accessible(idx[p])
    /\ End

-----------------------------------------------------------------------------
(* cache_access_object with BLOCK_RDLOCK, then cache_unlock by the caller;   *)
(* later cache_unlock_block.                                                 *)

Read(p) == \E i \in Entries : Enter(p, "read", i)

ReadLock(p) ==
    /\ In(p, "read") /\ Accessible(idx[p]) /\ CanRead(idx[p])
    /\ rd' = [rd EXCEPT ![idx[p]] = @ \cup {p}]
    /\ mutex' = NoThread
    /\ at' = [at EXCEPT ![p] = "reading"]
    /\ UNCHANGED <<up, table, wr, idx, hole, left, disk, history>>

ReadUnlock(p) ==
    /\ up /\ at[p] = "reading" /\ idx[p] < n /\ p \in rd[idx[p]]
    /\ rd' = [rd EXCEPT ![idx[p]] = @ \ {p}]
    /\ Leave(p)
    /\ UNCHANGED <<up, table, mutex, wr, disk, history>>

(* The lock went elsewhere: unlocking a lock p does not hold may leave it    *)
(* with a count of readers that never comes back to 0.                       *)
ReadUnlockWrong(p) ==
    /\ up /\ at[p] = "reading" /\ idx[p] < n /\ p \notin rd[idx[p]]
    /\ \E r \in {{}, {Stuck}} : rd' = [rd EXCEPT ![idx[p]] = @ \cup r]
    /\ Leave(p)
    /\ UNCHANGED <<up, table, mutex, wr, disk, history>>

ReadUnlockGone(p) == up /\ at[p] = "reading" /\ idx[p] >= n /\ End

-----------------------------------------------------------------------------
(* cache_delete_block, cache_block_set_used, cache_clear *)

Delete(p) == \E i \in Entries : Enter(p, "delete", i)

(* The flags are cleared; nothing reads the tag of an unused block. *)
Forget(S) ==
    /\ used' = used \ S
    /\ raw' = raw \ S
    /\ want' = [i \in Index |-> IF i \in S THEN Blank ELSE want[i]]

DeleteBlockMutant(p) ==                      \* mutant: u_blocks is not tested for 0
    /\ In(p, "delete") /\ CanWrite(idx[p])
    /\ Forget({idx[p]})
    /\ count' = IF idx[p] \in used THEN count - 1 ELSE count
    /\ Return(p)
    /\ UNCHANGED <<up, n, objects, map, wr, rd, disk, history>>

DeleteBlock(p) ==
    /\ In(p, "delete") /\ CanWrite(idx[p])
    /\ Forget({idx[p]})
    /\ count' = IF idx[p] \in used /\ count > 0 THEN count - 1 ELSE count
    /\ Return(p)
    /\ UNCHANGED <<up, n, objects, map, wr, rd, disk, history>>

(* No block lock is taken, and the count follows the calls, not the flags. *)
SetUsed(p) == \E i \in Entries : Enter(p, "setUsed", i)

SetUsedBlock(p) ==
    /\ In(p, "setUsed")
    /\ \/ /\ used' = used \cup {idx[p]}
          /\ raw' = IF idx[p] \in used THEN raw ELSE raw \cup {idx[p]}
          /\ count < MaxCount /\ count' = count + 1
          /\ UNCHANGED want
       \/ /\ Forget({idx[p]})
          /\ count' = IF count > 0 THEN count - 1 ELSE count
    /\ Return(p)
    /\ UNCHANGED <<up, n, objects, map, wr, rd, disk, history>>

(* Every rwlock is initialised anew, held or not, the entries with the tag   *)
(* asked for are freed, and n_objects becomes 0.                             *)
Clear(p) == Enter(p, "clear", 0)

ClearBlocks(p) ==
    /\ In(p, "clear")
    /\ \E S \in SUBSET (used \cap Entries) :
          /\ Forget(S)
          /\ count' = IF count > Cardinality(S) THEN count - Cardinality(S) ELSE 0
    /\ wr' = [i \in Index |-> IF i < n THEN NoThread ELSE wr[i]]
    /\ rd' = [i \in Index |-> IF i < n THEN {} ELSE rd[i]]
    /\ objects' = FALSE
    /\ Return(p)
    /\ UNCHANGED <<up, n, map, disk, history>>

-----------------------------------------------------------------------------
(* cache_resize: arrays and mapping are made anew and the block map is in    *)
(* order again.  The loop compares with an n_blocks already raised, so that  *)
(* flags, tags and locks of new entries are what the allocator returned.     *)

Resize(m) ==
    LET New == n..(m - 1) IN
    /\ n' = m
    /\ map' = IF objects THEN Identity ELSE map
    /\ \E S \in SUBSET New :
          /\ used' = (used \cap 0..(m - 1)) \cup S
          /\ raw' = (raw \cap 0..(m - 1)) \cup New
    /\ \E S \in SUBSET New :
          wr' = [i \in Index |-> CASE i \in S -> Stuck
                                   [] i \in New \ S \/ i >= m -> NoThread
                                   [] OTHER -> wr[i]]
    /\ rd' = [i \in Index |-> IF i \in New \/ i >= m THEN {} ELSE rd[i]]

CallResize(p) == Enter(p, "resize", 0)

ResizeCache(p) ==
    /\ In(p, "resize")
    /\ \E m \in Sizes : m # n /\ Resize(m)
    /\ Return(p)
    /\ UNCHANGED <<up, objects, want, count, disk, history>>

(* cache_merge with a cache of one block: copied to the new last position,   *)
(* its flag taken over, its u_blocks added.                                  *)
Merge(p) == n < MaxBlocks /\ objects /\ loads < MaxLoads /\ Enter(p, "merge", 0)

MergeBlock(p) ==
    /\ In(p, "merge") /\ n < MaxBlocks /\ objects
    /\ n' = n + 1
    /\ map' = Identity
    /\ loads < MaxLoads /\ loads' = loads + 1
    /\ store' = [store EXCEPT ![n] = loads']
    /\ want' = [want EXCEPT ![n] = loads']
    /\ used' \in {used, used \cup {n}}
    /\ raw' = raw
    /\ \E c \in {0, 1} : count + c <= MaxCount /\ count' = count + c
    /\ \E w \in {NoThread, Stuck} : wr' = [wr EXCEPT ![n] = w]
    /\ rd' = [rd EXCEPT ![n] = {}]
    /\ Return(p)
    /\ UNCHANGED <<up, objects, saved, stained, mixed>>

-----------------------------------------------------------------------------
(* cache_compact *)

SwapMutant(f, i, j) == [f EXCEPT ![i] = f[j]]   \* mutant: the saved entry is not put back
Swap(f, i, j) == [f EXCEPT ![i] = f[j], ![j] = f[i]]

MoveBlockMutant(b, h) ==                     \* mutant: the tags are not exchanged
    /\ store' = [store EXCEPT ![h] = store[b]]
    /\ map' = Swap(map, h, b)
    /\ wr' = Swap(wr, h, b)
    /\ rd' = Swap(rd, h, b)
    /\ used' = (used \cup {h}) \ {b}
    /\ raw' = IF b \in raw THEN (raw \cup {h}) \ {b} ELSE raw \ {h}
    /\ UNCHANGED want

(* move_block: position b is copied over position h, then the two entries    *)
(* are exchanged, block map and locks with them.                             *)
MoveBlock(b, h) ==
    /\ store' = [store EXCEPT ![h] = store[b]]
    /\ map' = Swap(map, h, b)
    /\ want' = Swap(want, h, b)
    /\ wr' = Swap(wr, h, b)
    /\ rd' = Swap(rd, h, b)
    /\ used' = (used \cup {h}) \ {b}
    /\ raw' = IF b \in raw THEN (raw \cup {h}) \ {b} ELSE raw \ {h}

Compact(p) == Enter(p, "compact", 0)

Walk(p) ==
    /\ In(p, "compact") /\ idx[p] < n
    /\ IF idx[p] \in used /\ hole[p] < MaxBlocks
       THEN /\ MoveBlock(idx[p], hole[p])
            /\ hole' = [hole EXCEPT ![p] = @ + 1]
       ELSE /\ hole' = IF idx[p] \notin used /\ hole[p] = MaxBlocks
                       THEN [hole EXCEPT ![p] = idx[p]] ELSE hole
            /\ UNCHANGED <<store, map, want, wr, rd, used, raw>>
    /\ idx' = [idx EXCEPT ![p] = @ + 1]
    /\ UNCHANGED <<up, n, objects, count, mutex, at, left, saved, history>>

ShrinkSizeMutant ==                          \* mutant: rounded up to whole quanta
    LET free == (n - count) % Word
    IN  (n - Quantum * ((free + Quantum - 1) \div Quantum)) % Word

(* free_blocks is n_blocks - u_blocks in 32 bits without a sign. *)
ShrinkSize ==
    LET free == (n - count) % Word
    IN  (n - Quantum * (free \div Quantum)) % Word

Shrink(p) ==
    /\ In(p, "compact") /\ idx[p] >= n
    /\ IF ShrinkSize \in {0, n}
       THEN UNCHANGED <<n, map, used, raw, wr, rd>>
       ELSE ShrinkSize <= MaxBlocks /\ Resize(ShrinkSize)
    /\ Return(p)
    /\ UNCHANGED <<up, objects, want, count, disk, history>>

-----------------------------------------------------------------------------
(* cache_write_mapinfo: the checksum of the data, then the table. *)

Save(p) == Enter(p, "save", 0)

Contents == [i \in Index |-> IF i < n THEN store[i] ELSE Blank]

SaveCrc(p) ==
    /\ In(p, "save")
    /\ saved' = [saved EXCEPT !.crc = Contents, !.whole = FALSE]
    /\ at' = [at EXCEPT ![p] = "saveTable"]
    /\ UNCHANGED <<up, table, locks, idx, hole, left, store, history>>

SaveTable(p) ==
    /\ In(p, "saveTable")
    /\ saved' = [saved EXCEPT !.n = n, !.objects = objects, !.used = used,
                     !.want = want, !.raw = raw, !.count = count, !.whole = TRUE]
    /\ Return(p)
    /\ UNCHANGED <<up, table, wr, rd, store, history>>

Crash == up /\ "crash" \in Calls /\ End

(* cache_read_mapinfo and cache_create with CACHE_USE_MAPINFO: the file is   *)
(* mapped in order.  The checksum is compared if the caller asks for it.     *)
Reload ==
    /\ ~up /\ saved.n > 0
    /\ LET agrees == saved.crc = [i \in Index |-> IF i < saved.n THEN store[i] ELSE Blank]
       IN  \E check \in BOOLEAN :
              /\ check => agrees
              /\ mixed' = (mixed \/ ~agrees \/ ~saved.whole)
    /\ up' = TRUE
    /\ n' = saved.n /\ objects' = saved.objects /\ used' = saved.used
    /\ want' = saved.want /\ raw' = saved.raw /\ count' = saved.count
    /\ map' = Identity
    /\ UNCHANGED <<locks, local, disk, loads, stained>>

Stopped == ~up /\ saved.n = 0 /\ UNCHANGED vars

-----------------------------------------------------------------------------

Step(p) ==
    \/ Add(p) \/ Scan(p) \/ ScanStep(p) \/ Overrun(p) \/ Found(p)
    \/ WriteObject(p) \/ RangeError(p)
    \/ Read(p) \/ ReadLock(p)
    \/ ReadUnlock(p) \/ ReadUnlockWrong(p) \/ ReadUnlockGone(p)
    \/ Delete(p) \/ DeleteBlock(p) \/ SetUsed(p) \/ SetUsedBlock(p)
    \/ Clear(p) \/ ClearBlocks(p)
    \/ CallResize(p) \/ ResizeCache(p) \/ Merge(p) \/ MergeBlock(p)
    \/ Compact(p) \/ Walk(p) \/ Shrink(p)
    \/ Save(p) \/ SaveCrc(p) \/ SaveTable(p)

Next == (\E p \in Threads : Step(p)) \/ Crash \/ Reload \/ Stopped

Spec == Init /\ [][Next]_vars

-----------------------------------------------------------------------------

Image == [crc : [Index -> Partial..MaxLoads], n : 0..MaxBlocks,
          objects : BOOLEAN, used : SUBSET Index, want : [Index -> Blank..MaxLoads],
          raw : SUBSET Index, count : 0..MaxCount, whole : BOOLEAN]

(* Types of the variables. *)
TypeOK ==
    /\ up \in BOOLEAN /\ objects \in BOOLEAN
    /\ n \in 1..MaxBlocks /\ count \in 0..MaxCount
    /\ map \in [Index -> Index]
    /\ used \subseteq Entries /\ raw \subseteq Entries
    /\ want \in [Index -> Blank..MaxLoads]
    /\ store \in [Index -> Partial..MaxLoads]
    /\ mutex \in Threads \cup {NoThread}
    /\ wr \in [Index -> Threads \cup {NoThread, Stuck}]
    /\ rd \in [Index -> SUBSET (Threads \cup {Stuck})]
    /\ at \in [Threads -> AllCalls \cup {"idle", "scan", "found", "more", "reading", "saveTable"}]
    /\ idx \in [Threads -> 0..MaxBlocks]
    /\ hole \in [Threads -> 0..MaxBlocks]
    /\ left \in [Threads -> 1..Objects]
    /\ saved \in Image
    /\ loads \in 0..MaxLoads /\ stained \in BOOLEAN /\ mixed \in BOOLEAN

(* Entries whose data a load vouches for: in use, not being written, and not *)
(* marked used by a call that wrote nothing.                                 *)
Settled == {i \in used \ raw : wr[i] \notin Threads}

(* What the comments of cachelib.c promise of a compaction, a resize and a   *)
(* reload: the data found through the block map entry of a block in use is   *)
(* what was loaded under its tag.                                            *)
ReadsBack == up /\ objects /\ ~mixed => \A i \in Settled : store[map[i]] = want[i]

(* The data of every block is at the position of its entry, whatever the     *)
(* block map says, so that the next mapping (a resize, a reload) reads it    *)
(* right: adds, deletions, merges, any number of compactions, saves and      *)
(* crashes keep it so, unless a load went through a block map a compaction   *)
(* left out of order, or the table read back is not the one of the data.     *)
LayoutRight == ~stained /\ ~mixed => \A i \in Settled : store[i] = want[i]

(* While the cache has objects, no two entries share a position and none     *)
(* points past the mapping: after every move, resize, merge and reload.      *)
MapIsPermutation ==
    objects => /\ \A i \in Entries : map[i] \in Entries
               /\ \A i, j \in Entries : map[i] = map[j] => i = j

(* What the table holds, as a set: the data in use. *)
Held == {want[i] : i \in used \ raw}

(* A compaction loses nothing: each of its moves keeps the data in use, and  *)
(* so does the resize at its end, as long as u_blocks is not below the       *)
(* number of blocks in use.  ANY adds do not count the block they take, so   *)
(* it may be, and then the resize cuts off blocks in use.                    *)
CompactionKeeps ==
    [][\A p \in Threads :
          at[p] = "compact" /\ idx[p] # 0 /\ up /\ up' /\ Cardinality(used) <= count
              => Held \subseteq Held']_vars

(* Adds and deletions wait for the readers of a block: the data and the flag *)
(* a reader that still has its lock looks at do not change under it by them. *)
(* (Compaction, resizing and clearing take no block lock.)                   *)
ReadersUndisturbed ==
    [][\A p, q \in Threads :
          /\ up /\ up' /\ at[p] = "reading" /\ p \in rd[idx[p]] /\ idx[p] \in Settled
          /\ at[q] \in {"add", "addAny", "more", "delete"}
          /\ at'[q] # at[q] \/ store' # store
          => /\ store'[map[idx[p]]] = store[map[idx[p]]]
             /\ idx[p] \in used']_vars

===============================================================================
