--------------------------- MODULE CacheBlocksProofs ---------------------------
(* Theorems about CacheBlocks for every number of threads, blocks and loads. *)
EXTENDS CacheBlocks, FiniteSetTheorems, TLAPS

(* The conjuncts of TypeOK, by kind of state. *)
FlagsOK == up \in BOOLEAN /\ objects \in BOOLEAN /\ stained \in BOOLEAN /\ mixed \in BOOLEAN
CountsOK == n \in 1..MaxBlocks /\ count \in 0..MaxCount /\ loads \in 0..MaxLoads
TableOK == map \in [Index -> Index] /\ used \subseteq Entries /\ raw \subseteq Entries
DataOK == want \in [Index -> Blank..MaxLoads] /\ store \in [Index -> Partial..MaxLoads]
LocksOK ==
    /\ mutex \in Threads \cup {NoThread}
    /\ wr \in [Index -> Threads \cup {NoThread, Stuck}]
    /\ rd \in [Index -> SUBSET (Threads \cup {Stuck})]
LocalOK ==
    /\ at \in [Threads -> AllCalls \cup {"idle", "scan", "found", "more", "reading", "saveTable"}]
    /\ idx \in [Threads -> 0..MaxBlocks]
    /\ hole \in [Threads -> 0..MaxBlocks]
    /\ left \in [Threads -> 1..Objects]
ImageOK == saved \in Image

(* Who has the mutex, and what the calls under it rely on: the process runs, *)
(* the index tested at the start of a call stays in range, a block lock is   *)
(* kept for writing between two objects of an add only.                      *)
MutexOK ==
    /\ mutex # NoThread => up
    /\ \A p \in Threads :
          mutex = p /\ at[p] \in {"delete", "setUsed", "more"} => idx[p] < n
    /\ \A i \in Index :
          wr[i] \in Threads => mutex = wr[i] /\ at[wr[i]] = "more" /\ idx[wr[i]] = i

(* The hole of a compaction is behind the entry it looks at. *)
WalkOK ==
    \A p \in Threads :
        /\ at[p] # "compact" => hole[p] = MaxBlocks
        /\ mutex = p /\ at[p] = "compact" =>
              idx[p] <= n /\ (hole[p] < MaxBlocks => hole[p] < idx[p])

(* The map file has no flag past the table it was written from. *)
SavedOK == saved.used \subseteq 0..(saved.n - 1) /\ saved.raw \subseteq 0..(saved.n - 1)

TypeInv == TypeOK /\ MutexOK /\ WalkOK /\ SavedOK

LEMMA TypeParts ==
    /\ TypeOK <=> FlagsOK /\ CountsOK /\ TableOK /\ DataOK /\ LocksOK /\ LocalOK /\ ImageOK
    /\ (FlagsOK /\ CountsOK /\ TableOK /\ DataOK /\ LocksOK /\ LocalOK /\ ImageOK)' => TypeOK'
BY DEF TypeOK, FlagsOK, CountsOK, TableOK, DataOK, LocksOK, LocalOK, ImageOK

LEMMA IndexType ==
    /\ Index = 0..(MaxBlocks - 1) /\ Entries = 0..(n - 1)
    /\ TypeOK => Entries \subseteq Index
BY CacheBlocksAssumption DEF CacheBlocksAssumption, Index, Entries, TypeOK

(* The remainder by a positive number is between 0 and it. *)
LEMMA ModType == \A a \in Int : a % Word \in 0..(Word - 1)
BY CacheBlocksAssumption DEF CacheBlocksAssumption

(* The size a compaction shrinks to is a natural number. *)
LEMMA ShrinkSizeType == TypeOK => ShrinkSize \in Nat
<1> SUFFICES ASSUME TypeOK PROVE ShrinkSize \in Nat
    OBVIOUS
<1> DEFINE free == (n - count) % Word
<1>1. n \in Int /\ count \in Int
  BY DEF TypeOK
<1>2. free \in 0..(Word - 1)
  BY <1>1, ModType
<1>3. Quantum * (free \div Quantum) \in Int
  BY <1>2, CacheBlocksAssumption DEF CacheBlocksAssumption
<1>4. n - Quantum * (free \div Quantum) \in Int
  BY <1>1, <1>3
<1> HIDE DEF free
<1>5. (n - Quantum * (free \div Quantum)) % Word \in 0..(Word - 1)
  BY <1>4, ModType
<1> QED BY <1>5 DEF ShrinkSize, free

(* A set of entries has a size. *)
LEMMA EntriesFinite == ASSUME TypeOK, NEW S \in SUBSET Entries
                       PROVE  Cardinality(S) \in Nat
<1>1. IsFiniteSet(0..(n - 1))
  BY FS_Interval DEF TypeOK
<1>2. IsFiniteSet(S)
  BY <1>1, FS_Subset DEF Entries
<1> QED BY <1>2, FS_CardinalityType

-----------------------------------------------------------------------------
(* Type correctness. *)

(* A call that takes the mutex. *)
LEMMA EnterType ==
    ASSUME TypeOK, NEW p \in Threads, NEW call, NEW i \in 0..MaxBlocks, Enter(p, call, i)
    PROVE  TypeOK'
<1>1. call \in AllCalls
  BY CacheBlocksAssumption DEF CacheBlocksAssumption, Enter
<1>2. (FlagsOK /\ CountsOK /\ TableOK /\ DataOK /\ ImageOK)'
  BY TypeParts DEF Enter, FlagsOK, CountsOK, TableOK, DataOK, ImageOK, Entries,
     table, disk, history
<1>3. LocksOK'
  BY TypeParts DEF Enter, LocksOK
<1>4. LocalOK'
  BY <1>1, TypeParts DEF Enter, LocalOK
<1> QED BY <1>2, <1>3, <1>4, TypeParts

(* A call that starts with the mutex. *)
Entering(p) ==
    \/ Add(p) \/ Read(p) \/ Delete(p) \/ SetUsed(p) \/ Clear(p)
    \/ CallResize(p) \/ Merge(p) \/ Compact(p) \/ Save(p)

LEMMA EnteringCall ==
    ASSUME TypeOK, NEW p \in Threads, Entering(p)
    PROVE  \E call \in AllCalls, i \in 0..MaxBlocks : i < n /\ Enter(p, call, i)
<1>1. 0 \in 0..MaxBlocks /\ 0 < n /\ Entries \subseteq 0..MaxBlocks /\ \A i \in Entries : i < n
  BY CacheBlocksAssumption DEF CacheBlocksAssumption, TypeOK, Entries
<1> QED BY <1>1 DEF Entering, Add, Read, Delete, SetUsed, Clear, CallResize, Merge,
           Compact, Save, AllCalls

(* The end of the process. *)
LEMMA EndType == ASSUME TypeOK, End PROVE TypeOK'
<1>0. FlagsOK'
  <2>1. up' = FALSE /\ objects' = TRUE /\ stained' = stained /\ mixed' = mixed
    BY DEF End, history
  <2> QED BY <2>1, TypeParts, Zenon DEF FlagsOK
<1>1. CountsOK' /\ ImageOK'
  BY TypeParts, CacheBlocksAssumption
  DEF CacheBlocksAssumption, End, CountsOK, ImageOK, disk, history
<1>2. TableOK'
  BY CacheBlocksAssumption DEF CacheBlocksAssumption, End, TableOK, Identity
<1>3. DataOK'
  BY TypeParts, CacheBlocksAssumption
  DEF CacheBlocksAssumption, End, DataOK, Blank, disk
<1>4. LocksOK'
  BY DEF End, LocksOK
<1>5. LocalOK'
  BY CacheBlocksAssumption DEF CacheBlocksAssumption, End, LocalOK
<1> QED BY <1>0, <1>1, <1>2, <1>3, <1>4, <1>5, TypeParts

(* The variables of a call that returns. *)
LEMMA LeaveType == ASSUME TypeOK, NEW p \in Threads, Leave(p) PROVE LocalOK'
BY TypeParts, CacheBlocksAssumption DEF CacheBlocksAssumption, Leave, LocalOK

(* Forgetting flags and tags. *)
LEMMA ForgetType ==
    ASSUME TypeOK, NEW S, Forget(S)
    PROVE  /\ used' \subseteq Entries /\ raw' \subseteq Entries
           /\ want' \in [Index -> Blank..MaxLoads]
<1>1. used \subseteq Entries /\ raw \subseteq Entries /\ want \in [Index -> Blank..MaxLoads]
  BY DEF TypeOK
<1>2. Blank \in Blank..MaxLoads
  BY CacheBlocksAssumption DEF CacheBlocksAssumption, Blank
<1> QED BY <1>1, <1>2 DEF Forget

(* A table made anew for another number of blocks. *)
LEMMA ResizeType ==
    ASSUME TypeOK, NEW m \in 1..MaxBlocks, Resize(m)
    PROVE  /\ n' \in 1..MaxBlocks /\ map' \in [Index -> Index]
           /\ used' \subseteq Entries' /\ raw' \subseteq Entries'
           /\ wr' \in [Index -> Threads \cup {NoThread, Stuck}]
           /\ rd' \in [Index -> SUBSET (Threads \cup {Stuck})]
<1>1. n' = m /\ Entries' = 0..(m - 1) /\ n \in Nat
  BY DEF Resize, Entries, TypeOK
<1>2. map' \in [Index -> Index]
  BY DEF Resize, TypeOK, Identity
<1>3. n..(m - 1) \subseteq 0..(m - 1)
  BY <1>1
<1>4. used' \subseteq Entries' /\ raw' \subseteq Entries'
  BY <1>1, <1>3 DEF Resize
<1>5. wr' \in [Index -> Threads \cup {NoThread, Stuck}]
  BY <1>1 DEF Resize, TypeOK
<1>6. rd' \in [Index -> SUBSET (Threads \cup {Stuck})]
  BY DEF Resize, TypeOK
<1> QED BY <1>1, <1>2, <1>4, <1>5, <1>6

(* Two entries exchanged. *)
LEMMA SwapType ==
    ASSUME NEW T, NEW f \in [Index -> T], NEW i \in Index, NEW j \in Index
    PROVE  Swap(f, i, j) \in [Index -> T]
BY DEF Swap

LEMMA MoveBlockType ==
    ASSUME TypeOK, NEW b \in Entries, NEW h \in Entries, MoveBlock(b, h)
    PROVE  /\ map' \in [Index -> Index]
           /\ used' \subseteq Entries /\ raw' \subseteq Entries
           /\ want' \in [Index -> Blank..MaxLoads]
           /\ store' \in [Index -> Partial..MaxLoads]
           /\ wr' \in [Index -> Threads \cup {NoThread, Stuck}]
           /\ rd' \in [Index -> SUBSET (Threads \cup {Stuck})]
<1>1. b \in Index /\ h \in Index
  BY IndexType
<1>2. used' \subseteq Entries /\ raw' \subseteq Entries
  BY DEF MoveBlock, TypeOK
<1>3. store' \in [Index -> Partial..MaxLoads]
  BY <1>1 DEF MoveBlock, TypeOK
<1>4. map' \in [Index -> Index] /\ want' \in [Index -> Blank..MaxLoads]
  BY <1>1, SwapType DEF MoveBlock, TypeOK
<1>5. wr' \in [Index -> Threads \cup {NoThread, Stuck}]
  BY <1>1, SwapType DEF MoveBlock, TypeOK
<1>6. rd' \in [Index -> SUBSET (Threads \cup {Stuck})]
  BY <1>1, SwapType DEF MoveBlock, TypeOK
<1> QED BY <1>2, <1>3, <1>4, <1>5, <1>6

(* One object of an add. *)
LEMMA WriteObjectType ==
    ASSUME TypeInv, NEW p \in Threads, WriteObject(p)
    PROVE  TypeOK'
<1> DEFINE i == idx[p]
<1>1. TypeOK /\ idx[p] \in 0..MaxBlocks
  BY DEF TypeInv, TypeOK
<1>2. i \in Entries /\ i \in Index
  <2>1. idx[p] < n
    BY DEF WriteObject, Accessible
  <2> QED BY <1>1, <2>1, IndexType DEF TypeOK, Entries
<1>3. map[i] \in Index
  BY <1>1, <1>2 DEF TypeOK
<1>4. FlagsOK'
  <2>1. up' = up /\ objects' = objects /\ mixed' = mixed
    BY DEF WriteObject
  <2>2. stained' \in BOOLEAN
    BY DEF WriteObject
  <2> QED BY <1>1, <2>1, <2>2, TypeParts, Zenon DEF FlagsOK
<1>5. n' = n /\ map' = map /\ rd' = rd /\ saved' = saved /\ Entries' = Entries
  BY DEF WriteObject, Entries
<1>6. count' \in 0..MaxCount
  <2>1. count' \in {count, count + 1} /\ count' <= MaxCount
    BY DEF WriteObject
  <2> QED BY <1>1, <2>1, CacheBlocksAssumption DEF CacheBlocksAssumption, TypeOK
<1>7. CASE left[p] > 1
  <2>1. /\ store' = [store EXCEPT ![map[i]] = Partial]
        /\ wr' = [wr EXCEPT ![i] = p]
        /\ at' = [at EXCEPT ![p] = "more"]
        /\ left' = [left EXCEPT ![p] = @ - 1]
        /\ UNCHANGED <<used, want, raw, mutex, idx, hole, loads>>
    BY <1>7 DEF WriteObject
  <2>2. left[p] - 1 \in 1..Objects
    BY <1>1, <1>7, CacheBlocksAssumption DEF CacheBlocksAssumption, TypeOK
  <2>3. Partial \in Partial..MaxLoads
    BY CacheBlocksAssumption DEF CacheBlocksAssumption, Partial
  <2>4. CountsOK' /\ TableOK' /\ ImageOK'
    BY <1>1, <1>5, <1>6, <2>1, TypeParts DEF CountsOK, TableOK, ImageOK
  <2>5. DataOK'
    BY <1>1, <1>3, <2>1, <2>3, TypeParts DEF DataOK
  <2>6. LocksOK'
    BY <1>1, <1>2, <1>5, <2>1, TypeParts DEF LocksOK
  <2>7. LocalOK'
    BY <1>1, <2>1, <2>2, TypeParts DEF LocalOK
  <2> QED BY <1>4, <2>4, <2>5, <2>6, <2>7, TypeParts
<1>8. CASE ~(left[p] > 1)
  <2>1. /\ loads' = loads + 1 /\ loads < MaxLoads
        /\ store' = [store EXCEPT ![map[i]] = loads']
        /\ want' = [want EXCEPT ![i] = loads']
        /\ used' = used \cup {i}
        /\ raw' = raw \ {i}
        /\ wr' = [wr EXCEPT ![i] = NoThread]
        /\ mutex' = NoThread /\ Leave(p)
    BY <1>8 DEF WriteObject, Return
  <2>2. loads' \in 1..MaxLoads
    BY <1>1, <2>1, CacheBlocksAssumption DEF CacheBlocksAssumption, TypeOK
  <2>3. loads' \in 0..MaxLoads /\ loads' \in Blank..MaxLoads /\ loads' \in Partial..MaxLoads
    BY <2>2, CacheBlocksAssumption DEF CacheBlocksAssumption, Blank, Partial
  <2>4. CountsOK' /\ ImageOK'
    BY <1>1, <1>5, <1>6, <2>3, TypeParts DEF CountsOK, ImageOK
  <2>5. TableOK'
    BY <1>1, <1>2, <1>5, <2>1, TypeParts DEF TableOK
  <2>6. DataOK'
    <3>1. want' \in [Index -> Blank..MaxLoads]
      BY <1>1, <2>1, <2>3 DEF TypeOK
    <3>2. store' \in [Index -> Partial..MaxLoads]
      BY <1>1, <2>1, <2>3 DEF TypeOK
    <3> QED BY <3>1, <3>2 DEF DataOK
  <2>7. LocksOK'
    BY <1>1, <1>2, <1>5, <2>1, TypeParts DEF LocksOK
  <2>8. LocalOK'
    BY <1>1, <2>1, LeaveType
  <2> QED BY <1>4, <2>4, <2>5, <2>6, <2>7, <2>8, TypeParts
<1> QED BY <1>7, <1>8

(* A step of a compaction. *)
LEMMA WalkType ==
    ASSUME TypeInv, NEW p \in Threads, Walk(p)
    PROVE  TypeOK'
<1>1. TypeOK /\ idx[p] \in 0..MaxBlocks /\ hole[p] \in 0..MaxBlocks
  BY DEF TypeInv, TypeOK
<1>2. idx[p] \in Entries /\ idx[p] + 1 \in 0..MaxBlocks
  <2>1. idx[p] < n
    BY DEF Walk
  <2>2. n \in 1..MaxBlocks /\ MaxBlocks \in Nat
    BY <1>1, CacheBlocksAssumption DEF CacheBlocksAssumption, TypeOK
  <2> QED BY <1>1, <2>1, <2>2 DEF Entries
<1>3. ASSUME hole[p] < MaxBlocks PROVE hole[p] \in Entries /\ hole[p] + 1 \in 0..MaxBlocks
  <2>1. hole[p] < idx[p]
    BY <1>3 DEF TypeInv, WalkOK, Walk, In
  <2> QED BY <1>1, <1>2, <2>1, CacheBlocksAssumption DEF CacheBlocksAssumption, TypeOK, Entries
<1>4. (FlagsOK /\ CountsOK /\ ImageOK)' /\ mutex' = mutex /\ Entries' = Entries
  BY <1>1, TypeParts DEF Walk, FlagsOK, CountsOK, ImageOK, Entries, history
<1>5. CASE idx[p] \in used /\ hole[p] < MaxBlocks
  <2>1. MoveBlock(idx[p], hole[p]) /\ hole' = [hole EXCEPT ![p] = @ + 1]
    BY <1>5 DEF Walk
  <2>2. TableOK' /\ DataOK' /\ LocksOK'
    BY <1>1, <1>2, <1>3, <1>4, <1>5, <2>1, MoveBlockType, TypeParts
    DEF TableOK, DataOK, LocksOK
  <2>3. LocalOK'
    BY <1>1, <1>2, <1>3, <1>5, <2>1, TypeParts DEF Walk, LocalOK
  <2> QED BY <1>4, <2>2, <2>3, TypeParts
<1>6. CASE ~(idx[p] \in used /\ hole[p] < MaxBlocks)
  <2>1. /\ hole' \in {hole, [hole EXCEPT ![p] = idx[p]]}
        /\ UNCHANGED <<store, map, want, wr, rd, used, raw>>
    BY <1>6 DEF Walk
  <2>2. TableOK' /\ DataOK' /\ LocksOK'
    BY <1>1, <1>4, <2>1, TypeParts DEF TableOK, DataOK, LocksOK
  <2>3. LocalOK'
    BY <1>1, <1>2, <2>1, TypeParts DEF Walk, LocalOK
  <2> QED BY <1>4, <2>2, <2>3, TypeParts
<1> QED BY <1>5, <1>6

(* Every step keeps the types. *)
LEMMA TypeStep ==
    ASSUME TypeInv, [Next]_vars
    PROVE  TypeOK'
<1>0. TypeOK
  BY DEF TypeInv
<1>1. ASSUME NEW p \in Threads, Step(p) PROVE TypeOK'
  <2>1. CASE Entering(p)
    <3>1. PICK call \in AllCalls, i \in 0..MaxBlocks : Enter(p, call, i)
      BY <1>0, <2>1, EnteringCall
    <3> QED BY <1>0, <3>1, EnterType
  <2>2. CASE Scan(p) \/ ScanStep(p) \/ Found(p)
    <3>1. (FlagsOK /\ CountsOK /\ TableOK /\ DataOK /\ ImageOK)'
      BY <1>0, <2>2, TypeParts
      DEF Scan, ScanStep, Found, FlagsOK, CountsOK, TableOK, DataOK, ImageOK, Entries,
          table, disk, history
    <3>2. LocksOK'
      BY <1>0, <2>2, TypeParts DEF Scan, ScanStep, Found, LocksOK, locks
    <3>3. LocalOK'
      <4>1. CASE Scan(p) \/ Found(p)
        BY <1>0, <4>1, TypeParts DEF Scan, Found, LocalOK, AllCalls
      <4>2. CASE ScanStep(p)
        <5>1. idx[p] + 1 \in 0..MaxBlocks
          <6>1. idx[p] < n
            BY <4>2 DEF ScanStep
          <6> QED BY <1>0, <6>1, CacheBlocksAssumption DEF CacheBlocksAssumption, TypeOK
        <5> QED BY <1>0, <4>2, <5>1, TypeParts DEF ScanStep, LocalOK
      <4> QED BY <2>2, <4>1, <4>2
    <3> QED BY <3>1, <3>2, <3>3, TypeParts
  <2>3. CASE Overrun(p) \/ RangeError(p) \/ ReadUnlockGone(p)
    BY <1>0, <2>3, EndType DEF Overrun, RangeError, ReadUnlockGone
  <2>4. CASE ReadLock(p) \/ ReadUnlock(p) \/ ReadUnlockWrong(p)
    <3>1. (FlagsOK /\ CountsOK /\ TableOK /\ DataOK /\ ImageOK)'
      BY <1>0, <2>4, TypeParts
      DEF ReadLock, ReadUnlock, ReadUnlockWrong, FlagsOK, CountsOK, TableOK, DataOK,
          ImageOK, Entries, table, disk, history
    <3>2. LocksOK'
      <4>1. mutex' \in Threads \cup {NoThread} /\ wr' = wr
        BY <1>0, <2>4 DEF ReadLock, ReadUnlock, ReadUnlockWrong, TypeOK
      <4>2. rd' \in [Index -> SUBSET (Threads \cup {Stuck})]
        BY <1>0, <2>4 DEF ReadLock, ReadUnlock, ReadUnlockWrong, TypeOK
      <4> QED BY <1>0, <4>1, <4>2, TypeParts DEF LocksOK
    <3>3. LocalOK'
      <4>1. CASE ReadLock(p)
        BY <1>0, <4>1, TypeParts DEF ReadLock, LocalOK
      <4>2. CASE ReadUnlock(p) \/ ReadUnlockWrong(p)
        BY <1>0, <4>2, LeaveType DEF ReadUnlock, ReadUnlockWrong
      <4> QED BY <2>4, <4>1, <4>2
    <3> QED BY <3>1, <3>2, <3>3, TypeParts
  <2>5. CASE WriteObject(p)
    BY <2>5, WriteObjectType
  <2>6. CASE DeleteBlock(p) \/ SetUsedBlock(p)
    <3>1. (FlagsOK /\ ImageOK)' /\ n' = n /\ map' = map /\ Entries' = Entries /\ store' = store
      BY <1>0, <2>6, TypeParts
      DEF DeleteBlock, SetUsedBlock, FlagsOK, ImageOK, Entries, disk, history
    <3>2. CountsOK'
      <4>1. count' \in 0..MaxCount /\ loads' = loads
        <5>1. /\ loads' = loads
              /\ \/ count' = count
                 \/ count > 0 /\ count' = count - 1
                 \/ count < MaxCount /\ count' = count + 1
          BY <2>6 DEF DeleteBlock, SetUsedBlock, history
        <5>2. count \in 0..MaxCount /\ MaxCount \in Nat
          BY <1>0, CacheBlocksAssumption DEF CacheBlocksAssumption, TypeOK
        <5> QED BY <5>1, <5>2
      <4> QED BY <1>0, <3>1, <4>1, TypeParts DEF CountsOK
    <3>3. TableOK' /\ DataOK'
      <4>1. CASE Forget({idx[p]})
        BY <1>0, <3>1, <4>1, ForgetType, TypeParts DEF TableOK, DataOK
      <4>2. CASE ~Forget({idx[p]})
        <5>1. /\ used' = used \cup {idx[p]} /\ raw' \in {raw, raw \cup {idx[p]}}
              /\ want' = want
          BY <2>6, <4>2 DEF DeleteBlock, SetUsedBlock
        <5>2. idx[p] \in Entries
          <6>1. at[p] = "setUsed" /\ mutex = p
            BY <2>6, <4>2 DEF DeleteBlock, SetUsedBlock, In
          <6>2. idx[p] < n
            BY <6>1 DEF TypeInv, MutexOK
          <6> QED BY <1>0, <6>2 DEF TypeOK, Entries
        <5> QED BY <1>0, <3>1, <5>1, <5>2, TypeParts DEF TableOK, DataOK
      <4> QED BY <4>1, <4>2
    <3>4. LocksOK'
      BY <1>0, <2>6, TypeParts DEF DeleteBlock, SetUsedBlock, Return, LocksOK
    <3>5. LocalOK'
      BY <1>0, <2>6, LeaveType DEF DeleteBlock, SetUsedBlock, Return
    <3> QED BY <3>1, <3>2, <3>3, <3>4, <3>5, TypeParts
  <2>7. CASE ClearBlocks(p)
    <3>1. PICK S \in SUBSET (used \cap Entries) :
             /\ Forget(S)
             /\ count' = IF count > Cardinality(S) THEN count - Cardinality(S) ELSE 0
      BY <2>7 DEF ClearBlocks
    <3>2. FlagsOK'
      <4>1. up' = up /\ objects' = FALSE /\ stained' = stained /\ mixed' = mixed
        BY <2>7 DEF ClearBlocks, history
      <4> QED BY <1>0, <4>1, TypeParts, Zenon DEF FlagsOK
    <3>3. n' = n /\ map' = map /\ store' = store /\ saved' = saved /\ loads' = loads
          /\ Entries' = Entries
      BY <2>7 DEF ClearBlocks, disk, history, Entries
    <3>4. count' \in 0..MaxCount
      <4>1. Cardinality(S) \in Nat
        BY <1>0, <3>1, EntriesFinite
      <4> QED BY <1>0, <3>1, <4>1, CacheBlocksAssumption DEF CacheBlocksAssumption, TypeOK
    <3>5. CountsOK' /\ ImageOK'
      BY <1>0, <3>3, <3>4, TypeParts DEF CountsOK, ImageOK
    <3>6. TableOK' /\ DataOK'
      BY <1>0, <3>1, <3>3, ForgetType, TypeParts DEF TableOK, DataOK
    <3>7. LocksOK'
      BY <1>0, <2>7, TypeParts DEF ClearBlocks, Return, LocksOK
    <3>8. LocalOK'
      BY <1>0, <2>7, LeaveType DEF ClearBlocks, Return
    <3> QED BY <3>2, <3>5, <3>6, <3>7, <3>8, TypeParts
  <2>8. CASE ResizeCache(p) \/ Shrink(p)
    <3>1. (FlagsOK /\ DataOK /\ ImageOK)' /\ count' = count /\ loads' = loads
      BY <1>0, <2>8, TypeParts DEF ResizeCache, Shrink, FlagsOK, DataOK, ImageOK, disk, history
    <3>2. mutex' = NoThread /\ LocalOK'
      BY <1>0, <2>8, LeaveType DEF ResizeCache, Shrink, Return
    <3>3. CASE \E m \in 1..MaxBlocks : Resize(m)
      <4>1. CountsOK' /\ TableOK' /\ LocksOK'
        BY <1>0, <3>1, <3>2, <3>3, ResizeType, TypeParts DEF CountsOK, TableOK, LocksOK
      <4> QED BY <3>1, <3>2, <4>1, TypeParts
    <3>4. CASE UNCHANGED <<n, map, used, raw, wr, rd>>
      <4>1. CountsOK' /\ TableOK' /\ LocksOK'
        BY <1>0, <3>1, <3>2, <3>4, TypeParts DEF CountsOK, TableOK, LocksOK, Entries
      <4> QED BY <3>1, <3>2, <4>1, TypeParts
    <3>5. (\E m \in 1..MaxBlocks : Resize(m)) \/ UNCHANGED <<n, map, used, raw, wr, rd>>
      <4>1. CASE ResizeCache(p)
        BY <4>1, CacheBlocksAssumption DEF CacheBlocksAssumption, ResizeCache
      <4>2. CASE Shrink(p)
        <5>1. CASE ShrinkSize \in {0, n}
          BY <4>2, <5>1 DEF Shrink
        <5>2. CASE ShrinkSize \notin {0, n}
          <6>1. ShrinkSize <= MaxBlocks /\ Resize(ShrinkSize)
            BY <4>2, <5>2 DEF Shrink
          <6>2. ShrinkSize \in 1..MaxBlocks
            BY <1>0, <5>2, <6>1, ShrinkSizeType, CacheBlocksAssumption
            DEF CacheBlocksAssumption
          <6> QED BY <6>1, <6>2
        <5> QED BY <5>1, <5>2
      <4> QED BY <2>8, <4>1, <4>2
    <3> QED BY <3>3, <3>4, <3>5
  <2>9. CASE MergeBlock(p)
    <3>1. (FlagsOK /\ ImageOK)' /\ n' = n + 1 /\ map' = Identity /\ loads' = loads + 1
      BY <1>0, <2>9, TypeParts DEF MergeBlock, FlagsOK, ImageOK
    <3>2. /\ n \in Index /\ n + 1 \in 1..MaxBlocks /\ loads' \in 1..MaxLoads
          /\ Entries \subseteq Entries' /\ n \in Entries'
      BY <1>0, <2>9, <3>1, CacheBlocksAssumption
      DEF CacheBlocksAssumption, MergeBlock, TypeOK, Index, Entries
    <3>3. loads' \in 0..MaxLoads /\ loads' \in Blank..MaxLoads /\ loads' \in Partial..MaxLoads
      BY <3>2, CacheBlocksAssumption DEF CacheBlocksAssumption, Blank, Partial
    <3>4. count' \in 0..MaxCount
      <4>1. PICK c \in {0, 1} : count + c <= MaxCount /\ count' = count + c
        BY <2>9 DEF MergeBlock
      <4> QED BY <1>0, <4>1, CacheBlocksAssumption DEF CacheBlocksAssumption, TypeOK
    <3>5. CountsOK'
      BY <3>1, <3>2, <3>3, <3>4 DEF CountsOK
    <3>6. TableOK'
      BY <1>0, <2>9, <3>1, <3>2 DEF MergeBlock, TypeOK, TableOK, Identity
    <3>7. DataOK'
      <4>1. want' = [want EXCEPT ![n] = loads'] /\ store' = [store EXCEPT ![n] = loads']
        BY <2>9 DEF MergeBlock
      <4>2. want' \in [Index -> Blank..MaxLoads]
        BY <1>0, <3>3, <4>1 DEF TypeOK
      <4>3. store' \in [Index -> Partial..MaxLoads]
        BY <1>0, <3>3, <4>1 DEF TypeOK
      <4> QED BY <4>2, <4>3 DEF DataOK
    <3>8. LocksOK'
      BY <1>0, <2>9, <3>2, TypeParts DEF MergeBlock, Return, LocksOK
    <3>9. LocalOK'
      BY <1>0, <2>9, LeaveType DEF MergeBlock, Return
    <3> QED BY <3>1, <3>5, <3>6, <3>7, <3>8, <3>9, TypeParts
  <2>10. CASE Walk(p)
    BY <2>10, WalkType
  <2>11. CASE SaveCrc(p) \/ SaveTable(p)
    <3>1. (FlagsOK /\ CountsOK /\ TableOK /\ DataOK)'
      BY <1>0, <2>11, TypeParts
      DEF SaveCrc, SaveTable, FlagsOK, CountsOK, TableOK, DataOK, Entries, table, history
    <3>2. LocksOK'
      BY <1>0, <2>11, TypeParts DEF SaveCrc, SaveTable, Return, LocksOK, locks
    <3>3. LocalOK'
      <4>1. CASE SaveCrc(p)
        BY <1>0, <4>1, TypeParts DEF SaveCrc, LocalOK
      <4>2. CASE SaveTable(p)
        BY <1>0, <4>2, LeaveType DEF SaveTable, Return
      <4> QED BY <2>11, <4>1, <4>2
    <3>4. ImageOK'
      <4>1. saved \in Image
        BY <1>0 DEF TypeOK
      <4>2. CASE SaveCrc(p)
        <5>1. Blank \in Partial..MaxLoads
          BY CacheBlocksAssumption DEF CacheBlocksAssumption, Blank, Partial
        <5>2. Contents \in [Index -> Partial..MaxLoads]
          BY <1>0, <5>1 DEF Contents, TypeOK
        <5>3. saved' = [saved EXCEPT !.crc = Contents, !.whole = FALSE]
          BY <4>2 DEF SaveCrc
        <5> QED BY <4>1, <5>2, <5>3 DEF ImageOK, Image
      <4>3. CASE SaveTable(p)
        <5>1. saved' = [saved EXCEPT !.n = n, !.objects = objects, !.used = used,
                            !.want = want, !.raw = raw, !.count = count, !.whole = TRUE]
          BY <4>3 DEF SaveTable
        <5>2. /\ n \in 0..MaxBlocks /\ used \in SUBSET Index /\ raw \in SUBSET Index
              /\ want \in [Index -> Blank..MaxLoads] /\ count \in 0..MaxCount
          BY <1>0, IndexType DEF TypeOK
        <5>3. objects \in BOOLEAN
          BY <1>0 DEF TypeOK
        <5> QED BY <4>1, <5>1, <5>2, <5>3 DEF ImageOK, Image
      <4> QED BY <2>11, <4>2, <4>3
    <3> QED BY <3>1, <3>2, <3>3, <3>4, TypeParts
  <2> QED BY <1>1, <2>1, <2>2, <2>3, <2>4, <2>5, <2>6, <2>7, <2>8, <2>9, <2>10, <2>11
          DEF Step, Entering
<1>2. CASE Crash
  BY <1>0, <1>2, EndType DEF Crash
<1>3. CASE Reload
  <2>1. FlagsOK'
    <3>1. saved.objects \in BOOLEAN
      BY <1>0 DEF TypeOK, Image
    <3>2. up' = TRUE /\ objects' = saved.objects /\ stained' = stained
      BY <1>3 DEF Reload
    <3>3. mixed' \in BOOLEAN
      BY <1>3 DEF Reload
    <3> QED BY <1>0, <3>1, <3>2, <3>3, TypeParts, Zenon DEF FlagsOK
  <2>2. CountsOK'
    BY <1>0, <1>3, TypeParts DEF Reload, CountsOK, ImageOK, Image
  <2>3. TableOK'
    <3>1. saved.used \subseteq 0..(saved.n - 1) /\ saved.raw \subseteq 0..(saved.n - 1)
      BY DEF TypeInv, SavedOK
    <3>2. n' = saved.n /\ used' = saved.used /\ raw' = saved.raw /\ map' = Identity
      BY <1>3 DEF Reload
    <3> QED BY <3>1, <3>2 DEF TableOK, Entries, Identity
  <2>4. DataOK'
    BY <1>0, <1>3, TypeParts DEF Reload, DataOK, ImageOK, Image, disk
  <2>5. LocksOK' /\ LocalOK' /\ ImageOK'
    BY <1>0, <1>3, TypeParts DEF Reload, LocksOK, LocalOK, ImageOK, locks, local, disk
  <2> QED BY <2>1, <2>2, <2>3, <2>4, <2>5, TypeParts
<1>4. CASE Stopped \/ UNCHANGED vars
  BY <1>0, <1>4 DEF Stopped, vars, TypeOK, Entries, table, locks, local, disk, history
<1> QED BY <1>1, <1>2, <1>3, <1>4 DEF Next

-----------------------------------------------------------------------------
(* The mutex, the walk of a compaction, the map file. *)

(* While a call that is not writing has the mutex, no block is being written. *)
LEMMA NoWriter ==
    ASSUME TypeInv, NEW p \in Threads, mutex = p, at[p] # "more"
    PROVE  \A i \in Index : wr[i] \notin Threads
BY DEF TypeInv, MutexOK

LEMMA MutexStep ==
    ASSUME TypeInv, [Next]_vars
    PROVE  MutexOK'
<1>0. TypeOK /\ MutexOK
  BY DEF TypeInv
<1>a. DOMAIN at = Threads /\ DOMAIN idx = Threads /\ DOMAIN wr = Index
  BY <1>0 DEF TypeOK
<1>b. at = [q \in Threads |-> at[q]] /\ idx = [q \in Threads |-> idx[q]]
      /\ wr = [i \in Index |-> wr[i]]
  BY <1>0 DEF TypeOK
<1>c. NoThread \notin Threads /\ Stuck \notin Threads
  BY CacheBlocksAssumption DEF CacheBlocksAssumption
<1>1. ASSUME NEW p \in Threads, Step(p) PROVE MutexOK'
  <2>1. CASE Entering(p)
    <3>1. PICK call \in AllCalls, i \in 0..MaxBlocks : i < n /\ Enter(p, call, i)
      BY <1>0, <2>1, EnteringCall
    <3>2. mutex = NoThread /\ mutex' = p /\ up' = up /\ up /\ n' = n /\ wr' = wr
      BY <3>1 DEF Enter, table
    <3>3. \A j \in Index : wr[j] \notin Threads
      BY <1>0, <1>c, <3>2 DEF MutexOK
    <3>4. idx'[p] = i
      BY <1>b, <3>1 DEF Enter
    <3> QED BY <1>0, <3>1, <3>2, <3>3, <3>4 DEF MutexOK, Index
  <2>2. CASE Scan(p) \/ ScanStep(p) \/ ReadUnlock(p) \/ ReadUnlockWrong(p)
    <3>1. /\ up' = up /\ n' = n /\ mutex' = mutex /\ wr' = wr /\ Index' = Index
          /\ at[p] \in {"idle", "scan", "reading"}
          /\ at'[p] \in {"idle", "scan", "found"}
          /\ \A q \in Threads \ {p} : at'[q] = at[q] /\ idx'[q] = idx[q]
      BY <1>b, <2>2 DEF Scan, ScanStep, ReadUnlock, ReadUnlockWrong, Leave, Index, table, locks
    <3> QED BY <1>0, <1>c, <3>1 DEF MutexOK
  <2>3. CASE Found(p)
    <3>1. /\ up' = up /\ up /\ n' = n /\ mutex = NoThread /\ mutex' = p /\ wr' = wr
          /\ at'[p] = "addAny"
      BY <1>b, <2>3 DEF Found, table
    <3> QED BY <1>0, <1>c, <3>1 DEF MutexOK, Index
  <2>4. CASE Overrun(p) \/ RangeError(p) \/ ReadUnlockGone(p)
    BY <1>c, <2>4 DEF Overrun, RangeError, ReadUnlockGone, End, MutexOK
  <2>5. CASE ReadLock(p)
    <3>1. mutex = p /\ at[p] = "read" /\ mutex' = NoThread /\ wr' = wr
      BY <2>5 DEF ReadLock, In
    <3>2. \A j \in Index : wr[j] \notin Threads
      BY <3>1, NoWriter
    <3> QED BY <1>c, <3>1, <3>2 DEF MutexOK, Index
  <2>6. CASE WriteObject(p)
    <3>1. /\ mutex = p /\ up /\ up' = up /\ idx[p] < n /\ n' = n
      BY <2>6 DEF WriteObject, In, Accessible
    <3>2. \A j \in Index : wr[j] \in Threads => wr[j] = p /\ at[p] = "more" /\ idx[p] = j
      BY <1>0, <3>1 DEF MutexOK
    <3>3. CASE left[p] > 1
      <4>1. wr' = [wr EXCEPT ![idx[p]] = p] /\ at' = [at EXCEPT ![p] = "more"]
            /\ mutex' = mutex /\ idx' = idx
        BY <3>3, <2>6 DEF WriteObject
      <4> QED BY <1>b, <1>c, <3>1, <3>2, <4>1 DEF MutexOK, Index
    <3>4. CASE ~(left[p] > 1)
      <4>1. wr' = [wr EXCEPT ![idx[p]] = NoThread] /\ mutex' = NoThread
        BY <3>4, <2>6 DEF WriteObject, Return
      <4>2. CASE In(p, "more")
        <5>1. \A j \in Index : wr[j] \in Threads => j = idx[p]
          BY <3>2
        <5> QED BY <1>b, <1>c, <4>1, <5>1 DEF MutexOK, Index
      <4>3. CASE at[p] # "more"
        <5>1. \A j \in Index : wr[j] \notin Threads
          BY <3>1, <4>3, NoWriter
        <5> QED BY <1>b, <1>c, <4>1, <5>1 DEF MutexOK, Index
      <4> QED BY <4>2, <4>3, <2>6 DEF WriteObject, In
    <3> QED BY <3>3, <3>4
  <2>7. CASE DeleteBlock(p) \/ SetUsedBlock(p) \/ SaveTable(p)
    <3>1. mutex = p /\ at[p] # "more" /\ mutex' = NoThread /\ wr' = wr
      BY <2>7 DEF DeleteBlock, SetUsedBlock, SaveTable, In, Return
    <3>2. \A j \in Index : wr[j] \notin Threads
      BY <3>1, NoWriter
    <3> QED BY <1>c, <3>1, <3>2 DEF MutexOK, Index
  <2>8. CASE ClearBlocks(p) \/ ResizeCache(p) \/ MergeBlock(p) \/ Shrink(p)
    <3>1. mutex = p /\ at[p] # "more" /\ mutex' = NoThread
      BY <2>8 DEF ClearBlocks, ResizeCache, MergeBlock, Shrink, In, Return
    <3>2. \A j \in Index : wr[j] \notin Threads
      BY <3>1, NoWriter
    <3>3. \A j \in Index : wr'[j] \notin Threads
      <4>1. CASE ClearBlocks(p)
        BY <1>c, <3>2, <4>1 DEF ClearBlocks
      <4>2. CASE (\E m : Resize(m)) \/ wr' = wr
        BY <1>c, <3>2, <4>2 DEF Resize
      <4>3. CASE MergeBlock(p)
        BY <1>b, <1>c, <3>2, <4>3 DEF MergeBlock
      <4> QED BY <2>8, <4>1, <4>2, <4>3 DEF ResizeCache, Shrink
    <3> QED BY <1>c, <3>1, <3>3 DEF MutexOK, Index
  <2>9. CASE Walk(p) \/ SaveCrc(p)
    <3>1. /\ mutex = p /\ at[p] \in {"compact", "save"} /\ mutex' = p /\ up /\ up' = up
          /\ at'[p] \in {"compact", "saveTable"}
      BY <1>b, <2>9 DEF Walk, SaveCrc, In, locks
    <3>2. \A j \in Index : wr[j] \notin Threads
      BY <3>1, NoWriter
    <3>3. \A j \in Index : wr'[j] \notin Threads
      <4>1. CASE wr' = wr
        BY <3>2, <4>1
      <4>2. CASE Walk(p) /\ idx[p] \in used /\ hole[p] < MaxBlocks
        <5>1. wr' = Swap(wr, hole[p], idx[p])
          BY <4>2 DEF Walk, MoveBlock
        <5>2. idx[p] \in Index
          BY <1>0, <4>2, IndexType DEF TypeOK
        <5>3. hole[p] \in Index
          BY <1>0, <4>2, CacheBlocksAssumption DEF CacheBlocksAssumption, TypeOK, Index
        <5> QED BY <1>b, <3>2, <5>1, <5>2, <5>3 DEF Swap
      <4> QED BY <2>9, <4>1, <4>2 DEF Walk, SaveCrc, locks
    <3> QED BY <1>c, <3>1, <3>3 DEF MutexOK, Index
  <2> QED BY <1>1, <2>1, <2>2, <2>3, <2>4, <2>5, <2>6, <2>7, <2>8, <2>9 DEF Step, Entering
<1>2. CASE Crash
  BY <1>c, <1>2 DEF Crash, End, MutexOK
<1>3. CASE Reload
  <2>1. mutex = NoThread /\ mutex' = mutex /\ wr' = wr
    BY <1>0, <1>3 DEF Reload, MutexOK, locks
  <2> QED BY <1>0, <1>c, <2>1 DEF MutexOK, Index
<1>4. CASE Stopped \/ UNCHANGED vars
  BY <1>0, <1>4 DEF Stopped, vars, MutexOK, Index, table, locks, local
<1> QED BY <1>1, <1>2, <1>3, <1>4 DEF Next

LEMMA WalkStep ==
    ASSUME TypeInv, [Next]_vars
    PROVE  WalkOK'
<1> USE CacheBlocksAssumption DEF CacheBlocksAssumption
<1>0. TypeOK /\ WalkOK /\ MutexOK
  BY DEF TypeInv
<1>1. ASSUME NEW p \in Threads, Step(p) PROVE WalkOK'
  <2>1. CASE Entering(p)
    <3>1. PICK call \in AllCalls, i \in 0..MaxBlocks : i < n /\ Enter(p, call, i)
      BY <1>0, <2>1, EnteringCall
    <3> QED BY <1>0, <3>1 DEF Enter, WalkOK, TypeOK, table
  <2>2. CASE Scan(p) \/ ScanStep(p) \/ ReadUnlock(p) \/ ReadUnlockWrong(p)
    BY <1>0, <2>2 DEF Scan, ScanStep, ReadUnlock, ReadUnlockWrong, Leave, WalkOK, TypeOK,
       table, locks
  <2>3. CASE Found(p)
    BY <1>0, <2>3 DEF Found, WalkOK, TypeOK, table
  <2>4. CASE Overrun(p) \/ RangeError(p) \/ ReadUnlockGone(p)
    BY <2>4 DEF Overrun, RangeError, ReadUnlockGone, End, WalkOK
  <2>5. CASE ReadLock(p)
    BY <1>0, <2>5 DEF ReadLock, In, WalkOK, TypeOK, table
  <2>6. CASE WriteObject(p)
    BY <1>0, <2>6 DEF WriteObject, In, Return, Leave, WalkOK, TypeOK
  <2>7. CASE DeleteBlock(p) \/ SetUsedBlock(p) \/ SaveTable(p)
    BY <1>0, <2>7 DEF DeleteBlock, SetUsedBlock, SaveTable, In, Return, Leave, WalkOK, TypeOK
  <2>8. CASE ClearBlocks(p) \/ ResizeCache(p) \/ MergeBlock(p) \/ Shrink(p)
    BY <1>0, <2>8 DEF ClearBlocks, ResizeCache, MergeBlock, Shrink, In, Return, Leave,
       WalkOK, TypeOK
  <2>9. CASE Walk(p)
    BY <1>0, <2>9 DEF Walk, In, WalkOK, TypeOK
  <2>10. CASE SaveCrc(p)
    BY <1>0, <2>10 DEF SaveCrc, In, WalkOK, TypeOK, table, locks
  <2> QED BY <1>1, <2>1, <2>2, <2>3, <2>4, <2>5, <2>6, <2>7, <2>8, <2>9, <2>10
          DEF Step, Entering
<1>2. CASE Crash
  BY <1>2 DEF Crash, End, WalkOK
<1>3. CASE Reload
  BY <1>0, <1>3 DEF Reload, MutexOK, WalkOK, locks, local
<1>4. CASE Stopped \/ UNCHANGED vars
  BY <1>0, <1>4 DEF Stopped, vars, WalkOK, table, locks, local
<1> QED BY <1>1, <1>2, <1>3, <1>4 DEF Next

LEMMA SavedStep ==
    ASSUME TypeInv, [Next]_vars
    PROVE  SavedOK'
<1>0. TypeOK /\ SavedOK
  BY DEF TypeInv
<1>1. CASE saved' = saved
  BY <1>0, <1>1 DEF SavedOK
<1>2. ASSUME NEW p \in Threads, SaveCrc(p) PROVE SavedOK'
  BY <1>0, <1>2 DEF SaveCrc, SavedOK, TypeOK, Image
<1>3. ASSUME NEW p \in Threads, SaveTable(p) PROVE SavedOK'
  BY <1>0, <1>3 DEF SaveTable, SavedOK, TypeOK, Image, Entries
<1>4. saved' = saved \/ \E p \in Threads : SaveCrc(p) \/ SaveTable(p)
  <2>1. CASE Crash \/ Reload \/ Stopped \/ UNCHANGED vars
    BY <2>1 DEF Crash, Reload, Stopped, vars, disk, End
  <2>2. ASSUME NEW p \in Threads, Step(p), ~SaveCrc(p), ~SaveTable(p) PROVE saved' = saved
    <3>1. CASE Entering(p)
      BY <3>1 DEF Entering, disk, End, Enter, Add, Read, Delete, SetUsed, Clear,
         CallResize, Merge, Compact, Save
    <3>2. CASE \/ Scan(p) \/ ScanStep(p) \/ Overrun(p) \/ Found(p) \/ WriteObject(p)
               \/ RangeError(p) \/ Walk(p) \/ Shrink(p)
      BY <3>2 DEF Scan, ScanStep, Overrun, Found, WriteObject, RangeError, Walk, Shrink,
         disk, End
    <3>3. CASE \/ ReadLock(p) \/ ReadUnlock(p) \/ ReadUnlockWrong(p) \/ ReadUnlockGone(p)
               \/ DeleteBlock(p) \/ SetUsedBlock(p) \/ ClearBlocks(p) \/ ResizeCache(p)
               \/ MergeBlock(p)
      BY <3>3 DEF ReadLock, ReadUnlock, ReadUnlockWrong, ReadUnlockGone, DeleteBlock,
         SetUsedBlock, ClearBlocks, ResizeCache, MergeBlock, disk, End
    <3> QED
      BY <2>2, <3>1, <3>2, <3>3 DEF Step, Entering
  <2> QED
    BY <2>1, <2>2 DEF Next
<1> QED BY <1>1, <1>2, <1>3, <1>4

(* TypeOK and what it rests on hold in every state. *)
LEMMA TypeInvInit == Init => TypeInv
<1> SUFFICES ASSUME Init PROVE TypeInv
    OBVIOUS
<1> USE CacheBlocksAssumption DEF CacheBlocksAssumption
<1>0. FlagsOK
  BY DEF Init, FlagsOK
<1>1. CountsOK /\ TableOK /\ LocksOK /\ LocalOK
  <2>1. CountsOK /\ TableOK
    BY DEF Init, CountsOK, TableOK, Identity
  <2>2. LocksOK
    BY DEF Init, LocksOK
  <2>3. LocalOK
    BY DEF Init, LocalOK
  <2> QED BY <2>1, <2>2, <2>3
<1>2. Blank \in Blank..MaxLoads /\ Blank \in Partial..MaxLoads
  BY DEF Blank, Partial
<1>3. store \in [Index -> Partial..MaxLoads] /\ want \in [Index -> Blank..MaxLoads]
  BY <1>2 DEF Init
<1>4. saved = [crc |-> store, n |-> 0, objects |-> TRUE, used |-> {},
               want |-> want, raw |-> {}, count |-> 0, whole |-> FALSE]
  BY DEF Init
<1>5. ImageOK /\ SavedOK
  BY <1>3, <1>4 DEF ImageOK, SavedOK, Image
<1>6. MutexOK /\ WalkOK
  BY DEF Init, MutexOK, WalkOK
<1> QED BY <1>0, <1>1, <1>3, <1>5, <1>6, TypeParts DEF TypeInv, DataOK

LEMMA TypeInvariant == Spec => []TypeInv
<1>1. TypeInv /\ [Next]_vars => TypeInv'
  BY TypeStep, MutexStep, WalkStep, SavedStep DEF TypeInv
<1> QED BY <1>1, TypeInvInit, PTL DEF Spec

(* The types hold in every state of every cache: no call leaves the table    *)
(* outside its arrays, u_blocks never passes below 0.                        *)
THEOREM TypeCorrect == Spec => []TypeOK
<1>1. TypeInv => TypeOK
  BY DEF TypeInv
<1> QED BY <1>1, TypeInvariant, PTL

-----------------------------------------------------------------------------
(* The block map. *)

(* Exchanging two entries of a block map in order keeps it so. *)
LEMMA SwapInjective ==
    ASSUME \A i \in Entries : map[i] \in Entries,
           \A i, j \in Entries : map[i] = map[j] => i = j,
           map \in [Index -> Index], Entries \subseteq Index,
           NEW a \in Entries, NEW b \in Entries
    PROVE  /\ \A i \in Entries : Swap(map, a, b)[i] \in Entries
           /\ \A i, j \in Entries : Swap(map, a, b)[i] = Swap(map, a, b)[j] => i = j
<1>1. \A i \in Entries : Swap(map, a, b)[i] = IF i = b THEN map[a] ELSE IF i = a THEN map[b] ELSE map[i]
  BY DEF Swap
<1> QED BY <1>1

LEMMA MapStep ==
    ASSUME TypeInv, MapIsPermutation, [Next]_vars
    PROVE  MapIsPermutation'
<1>0. TypeOK
  BY DEF TypeInv
<1>1. CASE UNCHANGED <<n, map>> /\ (objects' => objects)
  BY <1>1 DEF MapIsPermutation, Entries
<1>2. CASE map' = Identity /\ n' \in 0..MaxBlocks
  <2>1. ASSUME NEW i \in Entries' PROVE map'[i] = i
    <3>1. MaxBlocks \in Nat
      BY CacheBlocksAssumption DEF CacheBlocksAssumption
    <3>2. n' \in Nat /\ n' <= MaxBlocks
      BY <1>2, <3>1
    <3>3. i \in 0..(n' - 1)
      BY <2>1 DEF Entries
    <3>4. ASSUME NEW m \in Nat, m <= MaxBlocks PROVE 0..(m - 1) \subseteq Index
      BY <3>1, <3>4 DEF Index
    <3>5. i \in Index
      BY <3>2, <3>3, <3>4, Zenon
    <3> QED BY <1>2, <3>5 DEF Identity
  <2> QED BY <2>1 DEF MapIsPermutation
<1>3. ASSUME NEW p \in Threads, Walk(p), idx[p] \in used, hole[p] < MaxBlocks
      PROVE  MapIsPermutation'
  <2>1. map' = Swap(map, hole[p], idx[p]) /\ n' = n /\ objects' = objects
    BY <1>3 DEF Walk, MoveBlock
  <2>2. idx[p] \in Entries
    BY <1>0, <1>3 DEF TypeOK
  <2>3. hole[p] \in Entries
    <3>1. hole[p] < idx[p]
      BY <1>3 DEF TypeInv, WalkOK, Walk, In
    <3> QED BY <1>0, <2>2, <3>1 DEF TypeOK, Entries
  <2>4. Entries \subseteq Index /\ map \in [Index -> Index] /\ Entries' = Entries
    BY <1>0, <2>1, IndexType DEF TypeOK, Entries
  <2>5. ASSUME objects'
        PROVE  /\ \A i \in Entries : map'[i] \in Entries
               /\ \A i, j \in Entries : map'[i] = map'[j] => i = j
    <3>1. /\ \A i \in Entries : map[i] \in Entries
          /\ \A i, j \in Entries : map[i] = map[j] => i = j
      BY <2>1, <2>5 DEF MapIsPermutation
    <3>2. /\ \A i \in Entries : Swap(map, hole[p], idx[p])[i] \in Entries
          /\ \A i, j \in Entries :
                Swap(map, hole[p], idx[p])[i] = Swap(map, hole[p], idx[p])[j] => i = j
      BY <2>2, <2>3, <2>4, <3>1, SwapInjective
    <3> QED BY <2>1, <3>2
  <2> QED BY <2>4, <2>5 DEF MapIsPermutation
<1>4. ASSUME NEW m \in 1..MaxBlocks, Resize(m), objects' = objects
      PROVE  MapIsPermutation'
  <2>1. n' = m /\ (objects => map' = Identity)
    BY <1>4 DEF Resize
  <2>2. CASE objects
    BY <1>2, <2>1, <2>2
  <2>3. CASE ~objects
    BY <1>4, <2>3 DEF MapIsPermutation
  <2> QED BY <2>2, <2>3
<1>5. ASSUME NEW p \in Threads, Step(p) PROVE MapIsPermutation'
  <2>1. CASE Entering(p)
    BY <1>0, <1>1, <2>1, EnteringCall DEF Enter, table
  <2>2. CASE Scan(p) \/ ScanStep(p) \/ Found(p) \/ ReadLock(p) \/ ReadUnlock(p)
             \/ ReadUnlockWrong(p) \/ DeleteBlock(p) \/ SetUsedBlock(p) \/ SaveCrc(p)
             \/ SaveTable(p) \/ WriteObject(p) \/ ClearBlocks(p)
    BY <1>1, <2>2 DEF Scan, ScanStep, Found, ReadLock, ReadUnlock, ReadUnlockWrong,
       DeleteBlock, SetUsedBlock, SaveCrc, SaveTable, WriteObject, ClearBlocks, table
  <2>3. CASE Overrun(p) \/ RangeError(p) \/ ReadUnlockGone(p)
    BY <1>2, <2>3, CacheBlocksAssumption
    DEF CacheBlocksAssumption, Overrun, RangeError, ReadUnlockGone, End
  <2>4. CASE ResizeCache(p)
    <3>1. PICK m \in 1..MaxBlocks : Resize(m)
      BY <2>4, CacheBlocksAssumption DEF CacheBlocksAssumption, ResizeCache
    <3>2. objects' = objects
      BY <2>4 DEF ResizeCache
    <3> QED BY <1>4, <3>1, <3>2
  <2>5. CASE Shrink(p)
    <3>1. objects' = objects
      BY <2>5 DEF Shrink
    <3>2. CASE ShrinkSize \in {0, n}
      BY <1>1, <2>5, <3>1, <3>2 DEF Shrink
    <3>3. CASE ShrinkSize \notin {0, n}
      <4>1. ShrinkSize <= MaxBlocks /\ Resize(ShrinkSize)
        BY <2>5, <3>3 DEF Shrink
      <4>2. ShrinkSize \in 1..MaxBlocks
        BY <1>0, <3>3, <4>1, ShrinkSizeType, CacheBlocksAssumption DEF CacheBlocksAssumption
      <4> QED BY <1>4, <3>1, <4>1, <4>2
    <3> QED BY <3>2, <3>3
  <2>6. CASE MergeBlock(p)
    <3>1. map' = Identity /\ n' = n + 1 /\ n < MaxBlocks
      BY <2>6 DEF MergeBlock
    <3>2. n' \in 0..MaxBlocks
      BY <1>0, <3>1, CacheBlocksAssumption DEF CacheBlocksAssumption, TypeOK
    <3> QED BY <1>2, <3>1, <3>2
  <2>7. CASE Walk(p)
    <3>1. CASE idx[p] \in used /\ hole[p] < MaxBlocks
      BY <1>3, <2>7, <3>1
    <3>2. CASE ~(idx[p] \in used /\ hole[p] < MaxBlocks)
      BY <1>1, <2>7, <3>2 DEF Walk
    <3> QED BY <3>1, <3>2
  <2> QED BY <1>5, <2>1, <2>2, <2>3, <2>4, <2>5, <2>6, <2>7 DEF Step, Entering
<1>6. CASE Crash
  BY <1>2, <1>6, CacheBlocksAssumption DEF CacheBlocksAssumption, Crash, End
<1>7. CASE Reload
  <2>1. saved.n \in 0..MaxBlocks
    BY <1>0 DEF TypeOK, Image
  <2>2. map' = Identity /\ n' = saved.n
    BY <1>7 DEF Reload
  <2> QED BY <1>2, <2>1, <2>2
<1>8. CASE Stopped \/ UNCHANGED vars
  BY <1>1, <1>8 DEF Stopped, vars, table
<1> QED BY <1>5, <1>6, <1>7, <1>8 DEF Next

(* The block map stays a permutation of the blocks through any sequence of   *)
(* adds, moves, resizes, merges, crashes and reloads.                        *)
THEOREM MapSound == Spec => []MapIsPermutation
<1>1. Init => MapIsPermutation
  BY CacheBlocksAssumption
  DEF CacheBlocksAssumption, Init, MapIsPermutation, Entries, Identity, Index
<1>2. TypeInv /\ MapIsPermutation /\ [Next]_vars => MapIsPermutation'
  BY MapStep
<1> QED BY <1>1, <1>2, TypeInvariant, PTL DEF Spec

-----------------------------------------------------------------------------
(* The layout of the data. *)

(* The table in the map file is right for the checksum beside it, and while  *)
(* it is being written the checksum is that of the data.                     *)
SavedRight ==
    /\ ~stained /\ ~mixed /\ saved.whole =>
          \A i \in saved.used \ saved.raw : saved.crc[i] = saved.want[i]
    /\ \A p \in Threads : mutex = p /\ at[p] = "saveTable" => saved.crc = Contents

(* An add keeps the layout: what is not yet whole is being written. *)
LEMMA LayoutWrite ==
    ASSUME TypeInv, LayoutRight, NEW p \in Threads, WriteObject(p)
    PROVE  LayoutRight'
<1> DEFINE i == idx[p]
<1>1. TypeOK
  BY DEF TypeInv
<1>2. p \in Threads /\ NoThread \notin Threads /\ mixed' = mixed
  BY CacheBlocksAssumption DEF CacheBlocksAssumption, WriteObject
<1>3. i \in Index
  <2>1. i < n
    BY DEF WriteObject, Accessible
  <2> QED BY <1>1, <2>1, CacheBlocksAssumption DEF CacheBlocksAssumption, TypeOK, Index
<1>4. SUFFICES ASSUME ~stained', ~mixed', NEW j \in Settled' PROVE store'[j] = want'[j]
  BY DEF LayoutRight
<1>5. ~stained /\ map[i] = i
  BY <1>4 DEF WriteObject
<1>6. \A k \in Settled : store[k] = want[k]
  BY <1>2, <1>4, <1>5 DEF LayoutRight
<1>7. /\ used \subseteq Index /\ wr = [k \in Index |-> wr[k]]
      /\ store = [k \in Index |-> store[k]] /\ want = [k \in Index |-> want[k]]
  BY <1>1, IndexType DEF TypeOK
<1>8. CASE left[p] > 1
  <2>1. /\ store' = [store EXCEPT ![i] = Partial]
        /\ wr' = [wr EXCEPT ![i] = p]
        /\ UNCHANGED <<used, want, raw>>
    BY <1>5, <1>8 DEF WriteObject
  <2>2. j # i /\ j \in Settled
    BY <1>2, <1>3, <1>4, <1>7, <2>1 DEF Settled
  <2> QED BY <1>3, <1>6, <1>7, <2>1, <2>2
<1>9. CASE ~(left[p] > 1)
  <2>1. /\ store' = [store EXCEPT ![i] = loads']
        /\ want' = [want EXCEPT ![i] = loads']
        /\ used' = used \cup {i}
        /\ raw' = raw \ {i}
        /\ wr' = [wr EXCEPT ![i] = NoThread]
    BY <1>5, <1>9 DEF WriteObject
  <2>2. j = i \/ j \in Settled
    BY <1>4, <1>7, <2>1 DEF Settled
  <2>3. CASE j = i
    BY <1>3, <1>7, <2>1, <2>3
  <2>4. CASE j # i
    BY <1>3, <1>6, <1>7, <2>1, <2>2, <2>4 DEF Settled
  <2> QED BY <2>3, <2>4
<1> QED BY <1>8, <1>9

(* A move keeps the layout: the data and the tag of a block move together. *)
LEMMA LayoutMove ==
    ASSUME TypeInv, LayoutRight, NEW p \in Threads, Walk(p)
    PROVE  LayoutRight'
<1> DEFINE b == idx[p]
           h == hole[p]
<1>1. TypeOK /\ stained' = stained /\ mixed' = mixed
  BY DEF TypeInv, Walk, history
<1>2. CASE ~(b \in used /\ h < MaxBlocks)
  BY <1>1, <1>2 DEF Walk, LayoutRight, Settled
<1>3. CASE b \in used /\ h < MaxBlocks
  <2>1. /\ store' = [store EXCEPT ![h] = store[b]]
        /\ want' = Swap(want, h, b)
        /\ wr' = Swap(wr, h, b)
        /\ used' = (used \cup {h}) \ {b}
        /\ raw' = IF b \in raw THEN (raw \cup {h}) \ {b} ELSE raw \ {h}
    BY <1>3 DEF Walk, MoveBlock
  <2>2. b \in Index /\ used \subseteq Index
    BY <1>1, <1>3, IndexType DEF TypeOK
  <2>3. h \in Index /\ h # b
    <3>1. h < b
      BY <1>3 DEF TypeInv, WalkOK, Walk, In
    <3>2. MaxBlocks \in Nat /\ h \in 0..MaxBlocks /\ b \in 0..(MaxBlocks - 1)
      BY <1>1, <2>2, CacheBlocksAssumption DEF CacheBlocksAssumption, TypeOK, Index
    <3> HIDE DEF h, b
    <3>3. h \in 0..(MaxBlocks - 1) /\ h # b
      BY <3>1, <3>2
    <3> QED BY <3>3 DEF Index
  <2>4. SUFFICES ASSUME ~stained, ~mixed, NEW j \in Settled' PROVE store'[j] = want'[j]
    BY <1>1 DEF LayoutRight
  <2>5. \A k \in Settled : store[k] = want[k]
    BY <2>4 DEF LayoutRight
  <2>6. /\ wr = [k \in Index |-> wr[k]] /\ store = [k \in Index |-> store[k]]
        /\ want = [k \in Index |-> want[k]]
    BY <1>1 DEF TypeOK
  <2>7. /\ wr'[h] = wr[b] /\ want'[h] = want[b] /\ store'[h] = store[b]
        /\ \A k \in Index \ {b, h} : wr'[k] = wr[k] /\ want'[k] = want[k] /\ store'[k] = store[k]
    BY <2>1, <2>2, <2>3, <2>6 DEF Swap
  <2>8. CASE j = h
    <3>1. b \in Settled
      BY <1>3, <2>1, <2>7, <2>8, <2>4 DEF Settled
    <3> QED BY <2>5, <2>7, <2>8, <3>1
  <2>9. CASE j # h
    <3>1. j # b /\ j \in Settled /\ j \in Index
      BY <2>1, <2>2, <2>4, <2>7, <2>9 DEF Settled
    <3> QED BY <2>5, <2>7, <2>9, <3>1
  <2> QED BY <2>8, <2>9
<1> QED BY <1>2, <1>3

LEMMA LayoutStep ==
    ASSUME TypeInv, LayoutRight, SavedRight, [Next]_vars
    PROVE  LayoutRight'
<1>0. TypeOK
  BY DEF TypeInv
<1>1. CASE UNCHANGED <<used, raw, wr, store, want, stained, mixed>>
  BY <1>1 DEF LayoutRight, Settled
<1>2. ASSUME UNCHANGED <<store, stained, mixed>>, NEW S, Forget(S),
             \A i \in Index : wr[i] \notin Threads
      PROVE  LayoutRight'
  <2>1. used' \ raw' \subseteq used \ raw /\ (used' \ raw') \cap S = {} /\ used \subseteq Index
    BY <1>0, <1>2, IndexType DEF Forget, TypeOK
  <2>2. \A i \in used' \ raw' : i \in Settled /\ want'[i] = want[i]
    BY <1>2, <2>1 DEF Forget, Settled
  <2> QED BY <1>2, <2>2 DEF LayoutRight, Settled
<1>3. ASSUME UNCHANGED <<store, stained, mixed, want>>, used' \ raw' \subseteq used \ raw,
             \A i \in Index : wr[i] \notin Threads
      PROVE  LayoutRight'
  BY <1>0, <1>3, IndexType DEF LayoutRight, Settled, TypeOK
<1>4. CASE used' = {}
  BY <1>4 DEF LayoutRight, Settled
<1>5. ASSUME NEW m \in 1..MaxBlocks, Resize(m)
      PROVE  used' \ raw' \subseteq used \ raw
  <2>1. PICK S \in SUBSET (n..(m - 1)) : /\ used' = (used \cap 0..(m - 1)) \cup S
                                         /\ raw' = (raw \cap 0..(m - 1)) \cup n..(m - 1)
    BY <1>5 DEF Resize
  <2> QED BY <2>1
<1>6. ASSUME NEW p \in Threads, Step(p) PROVE LayoutRight'
  <2>1. CASE Entering(p)
    BY <1>0, <1>1, <2>1, EnteringCall DEF Enter, table, disk, history
  <2>2. CASE Scan(p) \/ ScanStep(p) \/ Found(p) \/ ReadLock(p) \/ ReadUnlock(p)
             \/ ReadUnlockWrong(p) \/ SaveCrc(p) \/ SaveTable(p)
    BY <1>1, <2>2 DEF Scan, ScanStep, Found, ReadLock, ReadUnlock, ReadUnlockWrong,
       SaveCrc, SaveTable, table, locks, disk, history
  <2>3. CASE Overrun(p) \/ RangeError(p) \/ ReadUnlockGone(p)
    BY <1>4, <2>3 DEF Overrun, RangeError, ReadUnlockGone, End
  <2>4. CASE WriteObject(p)
    BY <2>4, LayoutWrite
  <2>5. CASE DeleteBlock(p) \/ SetUsedBlock(p)
    <3>1. mutex = p /\ at[p] # "more" /\ UNCHANGED <<store, stained, mixed>>
      BY <2>5 DEF DeleteBlock, SetUsedBlock, In, disk, history
    <3>2. \A i \in Index : wr[i] \notin Threads
      BY <3>1, NoWriter
    <3>3. CASE Forget({idx[p]})
      BY <1>2, <3>1, <3>2, <3>3
    <3>4. CASE ~Forget({idx[p]})
      <4>1. /\ used' = used \cup {idx[p]} /\ want' = want
            /\ raw' = IF idx[p] \in used THEN raw ELSE raw \cup {idx[p]}
        BY <2>5, <3>4 DEF DeleteBlock, SetUsedBlock
      <4>2. used' \ raw' \subseteq used \ raw
        BY <4>1
      <4> QED BY <1>3, <3>1, <3>2, <4>1, <4>2
    <3> QED BY <3>3, <3>4
  <2>6. CASE ClearBlocks(p)
    <3>1. mutex = p /\ at[p] # "more" /\ UNCHANGED <<store, stained, mixed>>
      BY <2>6 DEF ClearBlocks, In, disk, history
    <3>2. PICK S : Forget(S)
      BY <2>6 DEF ClearBlocks
    <3> QED BY <1>2, <3>1, <3>2, NoWriter
  <2>7. CASE ResizeCache(p) \/ Shrink(p)
    <3>1. mutex = p /\ at[p] # "more" /\ UNCHANGED <<store, stained, mixed, want>>
      BY <2>7 DEF ResizeCache, Shrink, In, disk, history
    <3>2. used' \ raw' \subseteq used \ raw
      <4>1. CASE ResizeCache(p)
        BY <1>5, <4>1, CacheBlocksAssumption DEF CacheBlocksAssumption, ResizeCache
      <4>2. CASE Shrink(p) /\ ShrinkSize \in {0, n}
        BY <4>2 DEF Shrink
      <4>3. CASE Shrink(p) /\ ShrinkSize \notin {0, n}
        <5>1. ShrinkSize <= MaxBlocks /\ Resize(ShrinkSize)
          BY <4>3 DEF Shrink
        <5>2. ShrinkSize \in 1..MaxBlocks
          BY <1>0, <4>3, <5>1, ShrinkSizeType, CacheBlocksAssumption
          DEF CacheBlocksAssumption
        <5> QED BY <1>5, <5>1, <5>2
      <4> QED BY <2>7, <4>1, <4>2, <4>3
    <3> QED BY <1>3, <3>1, <3>2, NoWriter
  <2>8. CASE MergeBlock(p)
    <3>1. /\ mutex = p /\ at[p] # "more" /\ UNCHANGED <<stained, mixed>>
          /\ used' \subseteq used \cup {n} /\ raw' = raw
          /\ store' = [store EXCEPT ![n] = loads'] /\ want' = [want EXCEPT ![n] = loads']
      BY <2>8 DEF MergeBlock, In
    <3>2. /\ used \subseteq Index /\ \A i \in used : i # n
          /\ store = [k \in Index |-> store[k]] /\ want = [k \in Index |-> want[k]]
      BY <1>0, IndexType DEF TypeOK, Entries
    <3>3. n \in Index
      BY <1>0, <2>8, CacheBlocksAssumption DEF CacheBlocksAssumption, MergeBlock, TypeOK, Index
    <3>4. \A i \in Index : wr[i] \notin Threads
      BY <3>1, NoWriter
    <3>5. ASSUME ~stained, ~mixed, NEW i \in used' \ raw' PROVE store'[i] = want'[i]
      <4>1. CASE i = n
        BY <3>1, <3>2, <3>3, <4>1
      <4>2. CASE i # n
        <5>1. i \in Settled /\ i \in Index
          BY <3>1, <3>2, <3>4, <3>5, <4>2 DEF Settled
        <5>2. store[i] = want[i]
          BY <3>5, <5>1 DEF LayoutRight
        <5> QED BY <3>1, <3>2, <3>3, <4>2, <5>1, <5>2
      <4> QED BY <4>1, <4>2
    <3> QED BY <3>1, <3>5 DEF LayoutRight, Settled
  <2>9. CASE Walk(p)
    BY <2>9, LayoutMove
  <2> QED BY <1>6, <2>1, <2>2, <2>3, <2>4, <2>5, <2>6, <2>7, <2>8, <2>9 DEF Step, Entering
<1>7. CASE Crash
  BY <1>4, <1>7 DEF Crash, End
<1>8. CASE Reload
  <2> SUFFICES ASSUME ~stained', ~mixed', NEW i \in Settled' PROVE store'[i] = want'[i]
    BY DEF LayoutRight
  <2>1. /\ ~stained /\ ~mixed /\ saved.whole
        /\ saved.crc = [k \in Index |-> IF k < saved.n THEN store[k] ELSE Blank]
    BY <1>8 DEF Reload
  <2>2. i \in saved.used \ saved.raw /\ store' = store /\ want' = saved.want
    BY <1>8 DEF Reload, Settled, disk
  <2>3. i \in Index /\ i < saved.n
    <3>1. saved.used \subseteq 0..(saved.n - 1) /\ saved.used \subseteq Index /\ saved.n \in Nat
      BY <1>0 DEF TypeInv, SavedOK, TypeOK, Image
    <3> QED BY <2>2, <3>1
  <2>4. saved.crc[i] = saved.want[i]
    BY <2>1, <2>2 DEF SavedRight
  <2> QED BY <2>1, <2>2, <2>3, <2>4
<1>9. CASE Stopped \/ UNCHANGED vars
  BY <1>1, <1>9 DEF Stopped, vars, table, locks, disk, history
<1> QED BY <1>6, <1>7, <1>8, <1>9 DEF Next

LEMMA SavedRightStep ==
    ASSUME TypeInv, LayoutRight, SavedRight, [Next]_vars
    PROVE  SavedRight'
<1>0. TypeOK /\ MutexOK
  BY DEF TypeInv
<1>a. NoThread \notin Threads /\ at = [q \in Threads |-> at[q]]
  BY <1>0, CacheBlocksAssumption DEF CacheBlocksAssumption, TypeOK
(* Nothing but the calls of the map file changes it. *)
<1>1. ASSUME saved' = saved, stained => stained', mixed => mixed',
             \A p \in Threads : ~(mutex' = p /\ at'[p] = "saveTable")
      PROVE  SavedRight'
  BY <1>1 DEF SavedRight
<1>2. ASSUME NEW p \in Threads, Step(p) PROVE SavedRight'
  <2>1. CASE Entering(p)
    <3>1. PICK call \in AllCalls, i \in 0..MaxBlocks : Enter(p, call, i)
      BY <1>0, <2>1, EnteringCall
    <3>2. mutex' = p /\ at'[p] # "saveTable" /\ saved' = saved /\ UNCHANGED history
      BY <1>a, <3>1 DEF Enter, AllCalls, disk
    <3> QED BY <1>1, <3>2 DEF history
  <2>2. CASE Scan(p) \/ ScanStep(p) \/ ReadUnlock(p) \/ ReadUnlockWrong(p)
    <3>1. /\ mutex' = mutex /\ saved' = saved /\ UNCHANGED history /\ Contents' = Contents
          /\ at'[p] # "saveTable" /\ \A q \in Threads \ {p} : at'[q] = at[q]
      BY <1>a, <2>2 DEF Scan, ScanStep, ReadUnlock, ReadUnlockWrong, Leave, Contents, Index,
         table, locks, disk
    <3> QED BY <3>1 DEF SavedRight, history
  <2>3. CASE Found(p)
    <3>1. mutex' = p /\ at'[p] = "addAny" /\ saved' = saved /\ UNCHANGED history
      BY <1>a, <2>3 DEF Found, disk
    <3> QED BY <1>1, <3>1 DEF history
  <2>4. CASE Overrun(p) \/ RangeError(p) \/ ReadUnlockGone(p)
    <3>1. mutex' = NoThread /\ saved' = saved /\ UNCHANGED history
      BY <2>4 DEF Overrun, RangeError, ReadUnlockGone, End, disk
    <3> QED BY <1>1, <1>a, <3>1 DEF history
  <2>5. CASE ReadLock(p) \/ DeleteBlock(p) \/ SetUsedBlock(p) \/ ClearBlocks(p)
             \/ ResizeCache(p) \/ Shrink(p) \/ MergeBlock(p)
    <3>1. mutex' = NoThread /\ saved' = saved /\ stained' = stained /\ mixed' = mixed
      BY <2>5 DEF ReadLock, DeleteBlock, SetUsedBlock, ClearBlocks, ResizeCache, Shrink,
         MergeBlock, Return, disk, history
    <3> QED BY <1>1, <1>a, <3>1
  <2>6. CASE WriteObject(p)
    <3>1. saved' = saved /\ mixed' = mixed /\ (stained => stained')
      BY <2>6 DEF WriteObject
    <3>2. CASE left[p] > 1
      <4>1. mutex' = mutex /\ mutex = p /\ at' = [at EXCEPT ![p] = "more"]
        BY <2>6, <3>2 DEF WriteObject, In
      <4> QED BY <1>1, <1>a, <3>1, <4>1
    <3>3. CASE ~(left[p] > 1)
      <4>1. mutex' = NoThread
        BY <2>6, <3>3 DEF WriteObject, Return
      <4> QED BY <1>1, <1>a, <3>1, <4>1
    <3> QED BY <3>2, <3>3
  <2>7. CASE Walk(p)
    <3>1. mutex = p /\ at[p] = "compact" /\ mutex' = mutex /\ at' = at /\ saved' = saved
          /\ UNCHANGED history
      BY <2>7 DEF Walk, In
    <3> QED BY <1>1, <3>1 DEF history
  <2>8. CASE SaveCrc(p)
    <3>1. /\ saved' = [saved EXCEPT !.crc = Contents, !.whole = FALSE]
          /\ UNCHANGED <<n, store>>
      BY <2>8 DEF SaveCrc, table
    <3>2. Contents' = Contents /\ saved \in Image
      BY <1>0, <3>1 DEF Contents, Index, TypeOK
    <3>3. saved'.whole = FALSE /\ saved'.crc = Contents'
      BY <3>1, <3>2 DEF Image
    <3> QED BY <3>3 DEF SavedRight
  <2>9. CASE SaveTable(p)
    <3>1. /\ saved' = [saved EXCEPT !.n = n, !.objects = objects, !.used = used,
                           !.want = want, !.raw = raw, !.count = count, !.whole = TRUE]
          /\ mutex' = NoThread /\ UNCHANGED history
          /\ mutex = p /\ at[p] = "saveTable"
      BY <2>9 DEF SaveTable, In, Return
    <3>2. saved'.crc = saved.crc /\ saved'.used = used /\ saved'.raw = raw /\ saved'.want = want
      BY <1>0, <3>1 DEF TypeOK, Image
    <3>3. saved.crc = Contents
      BY <3>1 DEF SavedRight
    <3>4. ASSUME ~stained, ~mixed, NEW i \in used \ raw PROVE saved.crc[i] = want[i]
      <4>1. i \in Settled /\ i \in Index /\ i < n
        <5>1. i \in Entries /\ i \in Index
          BY <1>0, <3>4, IndexType DEF TypeOK
        <5>2. wr[i] \notin Threads
          BY <3>1, <5>1, NoWriter
        <5> QED BY <1>0, <3>4, <5>1, <5>2 DEF Settled, Entries, TypeOK
      <4>2. store[i] = want[i]
        BY <3>4, <4>1 DEF LayoutRight
      <4> QED BY <3>3, <4>1, <4>2 DEF Contents
    <3> QED BY <1>a, <3>1, <3>2, <3>4 DEF SavedRight, history
  <2> QED BY <1>2, <2>1, <2>2, <2>3, <2>4, <2>5, <2>6, <2>7, <2>8, <2>9 DEF Step, Entering
<1>3. CASE Crash
  <2>1. mutex' = NoThread /\ saved' = saved /\ UNCHANGED history
    BY <1>3 DEF Crash, End, disk
  <2> QED BY <1>1, <1>a, <2>1 DEF history
<1>4. CASE Reload
  <2>1. mutex' = NoThread /\ saved' = saved /\ stained' = stained /\ (mixed => mixed')
    BY <1>0, <1>4 DEF Reload, MutexOK, locks, disk
  <2> QED BY <1>1, <1>a, <2>1
<1>5. CASE Stopped \/ UNCHANGED vars
  BY <1>5 DEF Stopped, vars, SavedRight, Contents, Index, table, locks, local, disk, history
<1> QED BY <1>2, <1>3, <1>4, <1>5 DEF Next

(* Unless a load went through a block map out of order, or a table was read  *)
(* back that is not that of the data, the data of every block in use stays   *)
(* at the position of its entry: through adds by any number of threads,      *)
(* deletions, compactions, resizes, merges, saves, crashes and reloads.      *)
THEOREM LayoutSound == Spec => []LayoutRight
<1>1. Init => LayoutRight /\ SavedRight
  BY DEF Init, LayoutRight, Settled, SavedRight
<1>2. TypeInv /\ (LayoutRight /\ SavedRight) /\ [Next]_vars => (LayoutRight /\ SavedRight)'
  BY LayoutStep, SavedRightStep
<1> QED BY <1>1, <1>2, TypeInvariant, PTL DEF Spec

(* Only a compaction puts the block map out of order. *)
InPlace == map = Identity /\ ~stained /\ \A p \in Threads : at[p] # "compact"

LEMMA InPlaceStep ==
    ASSUME "compact" \notin Calls, TypeInv, InPlace, [Next]_vars
    PROVE  InPlace'
<1>0. TypeOK /\ at = [q \in Threads |-> at[q]] /\ Identity' = Identity
  BY DEF TypeInv, TypeOK, Identity, Index
<1>1. ASSUME map' \in {map, Identity}, stained' = stained, NEW p \in Threads,
             at'[p] # "compact", \A q \in Threads \ {p} : at'[q] = at[q]
      PROVE  InPlace'
  BY <1>0, <1>1 DEF InPlace
<1>2. CASE End
  BY <1>0, <1>2 DEF End, InPlace, history
<1>3. ASSUME NEW p \in Threads, Step(p) PROVE InPlace'
  <2>1. CASE Entering(p)
    <3>1. PICK call \in AllCalls, i \in 0..MaxBlocks : i < n /\ Enter(p, call, i)
      BY <1>0, <2>1, EnteringCall
    <3>2. /\ map' = map /\ stained' = stained /\ at'[p] # "compact"
          /\ \A q \in Threads \ {p} : at'[q] = at[q]
      BY <1>0, <3>1 DEF Enter, table, history
    <3> QED BY <1>1, <3>2
  <2>2. CASE Scan(p) \/ ScanStep(p) \/ Found(p) \/ ReadLock(p) \/ ReadUnlock(p)
             \/ ReadUnlockWrong(p) \/ SaveCrc(p) \/ SaveTable(p)
    <3>1. /\ map' = map /\ stained' = stained /\ at'[p] # "compact"
          /\ \A q \in Threads \ {p} : at'[q] = at[q]
      BY <1>0, <2>2 DEF Scan, ScanStep, Found, ReadLock, ReadUnlock, ReadUnlockWrong,
         SaveCrc, SaveTable, Return, Leave, table, history
    <3> QED BY <1>1, <3>1
  <2>3. CASE DeleteBlock(p) \/ SetUsedBlock(p) \/ ClearBlocks(p) \/ ResizeCache(p)
             \/ MergeBlock(p)
    <3>1. /\ map' \in {map, Identity} /\ stained' = stained /\ at'[p] # "compact"
          /\ \A q \in Threads \ {p} : at'[q] = at[q]
      BY <1>0, <2>3 DEF DeleteBlock, SetUsedBlock, ClearBlocks, ResizeCache, Resize,
         MergeBlock, Return, Leave, history
    <3> QED BY <1>1, <3>1
  <2>4. CASE Overrun(p) \/ RangeError(p) \/ ReadUnlockGone(p)
    BY <1>2, <2>4 DEF Overrun, RangeError, ReadUnlockGone
  <2>5. CASE WriteObject(p)
    <3>1. idx[p] \in Index
      BY <1>0, <2>5, CacheBlocksAssumption
      DEF CacheBlocksAssumption, WriteObject, Accessible, TypeOK, Index
    <3>2. map[idx[p]] = idx[p]
      BY <3>1 DEF InPlace, Identity
    <3>3. map' = map /\ stained' = stained
      BY <1>0, <2>5, <3>2 DEF WriteObject, TypeOK
    <3>4. at'[p] \in {"more", "idle"} /\ \A q \in Threads \ {p} : at'[q] = at[q]
      BY <1>0, <2>5 DEF WriteObject, Return, Leave
    <3> QED BY <1>1, <3>3, <3>4
  <2>6. ~(Walk(p) \/ Shrink(p))
    BY DEF Walk, Shrink, In, InPlace
  <2> QED BY <1>3, <2>1, <2>2, <2>3, <2>4, <2>5, <2>6 DEF Step, Entering
<1>4. CASE Crash
  BY <1>2, <1>4 DEF Crash
<1>5. CASE Reload
  BY <1>0, <1>5 DEF Reload, InPlace, local
<1>6. CASE Stopped \/ UNCHANGED vars
  BY <1>6 DEF Stopped, vars, table, local, history, InPlace, Identity, Index
<1> QED BY <1>3, <1>4, <1>5, <1>6 DEF Next

(* A cache that is never compacted returns for each block in use what was    *)
(* loaded under its tag: the exchange of entries in cache_compact is the     *)
(* only cause of what the run cache_read shows.                              *)
THEOREM UncompactedReadsBack == "compact" \notin Calls => (Spec => []ReadsBack)
<1> SUFFICES ASSUME "compact" \notin Calls PROVE Spec => []ReadsBack
    OBVIOUS
<1>1. Init => InPlace
  BY DEF Init, InPlace
<1>2. TypeInv /\ InPlace /\ [Next]_vars => InPlace'
  BY InPlaceStep
<1>3. TypeInv /\ InPlace /\ LayoutRight => ReadsBack
  <2> SUFFICES ASSUME TypeInv, InPlace, LayoutRight, ~mixed, NEW i \in Settled
               PROVE  store[map[i]] = want[i]
    BY DEF ReadsBack
  <2>1. i \in Index
    BY IndexType DEF TypeInv, TypeOK, Settled
  <2> QED BY <2>1 DEF InPlace, Identity, LayoutRight
<1> QED BY <1>1, <1>2, <1>3, TypeInvariant, LayoutSound, PTL DEF Spec

-----------------------------------------------------------------------------
(* Calls and their locks. *)

(* A call runs under the mutex until it gives it back, and between two       *)
(* objects of an add the block is locked for it.                             *)
Outside == {"idle", "scan", "found", "reading"}
CallOK ==
    \A p \in Threads :
        /\ at[p] \notin Outside => mutex = p
        /\ at[p] = "more" => idx[p] < n /\ wr[idx[p]] = p

LEMMA CallStep ==
    ASSUME TypeInv, CallOK, [Next]_vars
    PROVE  CallOK'
<1>0. TypeOK /\ MutexOK
  BY DEF TypeInv
<1>b. at = [q \in Threads |-> at[q]] /\ idx = [q \in Threads |-> idx[q]]
      /\ wr = [i \in Index |-> wr[i]]
  BY <1>0 DEF TypeOK
<1>c. NoThread \notin Threads
  BY CacheBlocksAssumption DEF CacheBlocksAssumption
<1>d. ASSUME NEW p \in Threads, at'[p] \in Outside,
             \A q \in Threads \ {p} : at'[q] = at[q] /\ at[q] \in Outside
      PROVE  CallOK'
  BY <1>d DEF CallOK, Outside
<1>1. ASSUME NEW p \in Threads, Step(p) PROVE CallOK'
  <2>a. mutex \in {NoThread, p} => \A q \in Threads \ {p} : at[q] \in Outside
    BY <1>c DEF CallOK
  <2>1. CASE Entering(p)
    <3>1. PICK call \in AllCalls, i \in 0..MaxBlocks : i < n /\ Enter(p, call, i)
      BY <1>0, <2>1, EnteringCall
    <3>2. mutex = NoThread /\ mutex' = p /\ at'[p] # "more"
          /\ \A q \in Threads \ {p} : at'[q] = at[q]
      BY <1>b, <3>1 DEF Enter, AllCalls
    <3> QED BY <2>a, <3>2 DEF CallOK, Outside
  <2>2. CASE Scan(p) \/ ScanStep(p) \/ ReadUnlock(p) \/ ReadUnlockWrong(p)
    <3>1. /\ n' = n /\ mutex' = mutex /\ wr' = wr
          /\ at'[p] \in Outside
          /\ \A q \in Threads \ {p} : at'[q] = at[q] /\ idx'[q] = idx[q]
      BY <1>b, <2>2 DEF Scan, ScanStep, ReadUnlock, ReadUnlockWrong, Leave, table, locks, Outside
    <3> QED BY <3>1 DEF CallOK, Outside
  <2>3. CASE Found(p)
    <3>1. /\ mutex = NoThread /\ mutex' = p /\ at'[p] = "addAny"
          /\ \A q \in Threads \ {p} : at'[q] = at[q]
      BY <1>b, <2>3 DEF Found
    <3> QED BY <2>a, <3>1 DEF CallOK, Outside
  <2>4. CASE Overrun(p) \/ RangeError(p) \/ ReadUnlockGone(p)
    <3>1. \A q \in Threads : at'[q] = "idle"
      BY <2>4 DEF Overrun, RangeError, ReadUnlockGone, End
    <3> QED BY <3>1 DEF CallOK, Outside
  <2>5. CASE ReadLock(p)
    <3>1. mutex = p /\ at'[p] = "reading" /\ \A q \in Threads \ {p} : at'[q] = at[q]
      BY <1>b, <2>5 DEF ReadLock, In
    <3> QED BY <1>d, <2>a, <3>1 DEF Outside
  <2>6. CASE WriteObject(p)
    <3>1. mutex = p /\ idx[p] < n /\ n' = n
      BY <2>6 DEF WriteObject, In, Accessible
    <3>2. CASE left[p] > 1
      <4>1. wr' = [wr EXCEPT ![idx[p]] = p] /\ at' = [at EXCEPT ![p] = "more"]
            /\ mutex' = mutex /\ idx' = idx
        BY <3>2, <2>6 DEF WriteObject
      <4>2. idx[p] \in Index
        BY <1>0, <3>1, CacheBlocksAssumption DEF CacheBlocksAssumption, TypeOK, Index
      <4>3. wr'[idx'[p]] = p /\ \A q \in Threads \ {p} : at'[q] = at[q]
        BY <1>b, <4>1, <4>2
      <4> QED BY <2>a, <3>1, <4>1, <4>3 DEF CallOK, Outside
    <3>3. CASE ~(left[p] > 1)
      <4>1. at'[p] = "idle" /\ \A q \in Threads \ {p} : at'[q] = at[q]
        BY <1>b, <3>3, <2>6 DEF WriteObject, Return, Leave
      <4> QED BY <1>d, <2>a, <3>1, <4>1 DEF Outside
    <3> QED BY <3>2, <3>3
  <2>7. CASE DeleteBlock(p) \/ SetUsedBlock(p) \/ SaveTable(p) \/ ClearBlocks(p)
             \/ ResizeCache(p) \/ MergeBlock(p) \/ Shrink(p)
    <3>1. mutex = p /\ at'[p] = "idle" /\ \A q \in Threads \ {p} : at'[q] = at[q]
      BY <1>b, <2>7 DEF DeleteBlock, SetUsedBlock, SaveTable, ClearBlocks, ResizeCache,
         MergeBlock, Shrink, In, Return, Leave
    <3> QED BY <1>d, <2>a, <3>1 DEF Outside
  <2>8. CASE Walk(p) \/ SaveCrc(p)
    <3>1. /\ mutex = p /\ mutex' = p /\ at'[p] \in {"compact", "saveTable"}
          /\ \A q \in Threads \ {p} : at'[q] = at[q]
      BY <1>b, <2>8 DEF Walk, SaveCrc, In, locks
    <3> QED BY <2>a, <3>1 DEF CallOK, Outside
  <2> QED BY <1>1, <2>1, <2>2, <2>3, <2>4, <2>5, <2>6, <2>7, <2>8 DEF Step, Entering
<1>2. CASE Crash
  BY <1>2 DEF Crash, End, CallOK, Outside
<1>3. CASE Reload
  <2>1. \A q \in Threads : at'[q] = at[q] /\ at[q] \in Outside
    BY <1>0, <1>3, <1>c DEF Reload, MutexOK, CallOK, local
  <2> QED BY <2>1 DEF CallOK, Outside
<1>4. CASE Stopped \/ UNCHANGED vars
  BY <1>4 DEF Stopped, vars, CallOK, table, locks, local
<1> QED BY <1>1, <1>2, <1>3, <1>4 DEF Next

LEMMA CallInvariant == Spec => []CallOK
<1>1. Init => CallOK
  BY DEF Init, CallOK, Outside
<1>2. TypeInv /\ CallOK /\ [Next]_vars => CallOK'
  BY CallStep
<1> QED BY <1>1, <1>2, TypeInvariant, PTL DEF Spec

(* The steps at the objects of an add and at a deletion are those of the     *)
(* thread that has the mutex.                                                *)
LEMMA WriterStep ==
    ASSUME TypeInv, CallOK, [Next]_vars, up, up', NEW q \in Threads,
           at[q] \in {"add", "addAny", "more", "delete"}, at'[q] # at[q] \/ store' # store
    PROVE  WriteObject(q) \/ DeleteBlock(q)
<1>0. TypeOK /\ mutex = q
  BY DEF TypeInv, CallOK, Outside
<1>a. at = [r \in Threads |-> at[r]] /\ NoThread \notin Threads
  BY <1>0, CacheBlocksAssumption DEF CacheBlocksAssumption, TypeOK
<1>1. PICK p \in Threads : Step(p)
  BY <1>0 DEF Next, Crash, Reload, Stopped, End, vars, local, disk
<1>2. ~Entering(p) /\ ~Found(p)
  BY <1>0, <1>1, <1>a DEF Entering, Found, Enter, Add, Read, Delete, SetUsed, Clear,
     CallResize, Merge, Compact, Save
<1>3. ~(Scan(p) \/ ScanStep(p) \/ ReadUnlock(p) \/ ReadUnlockWrong(p))
  BY <1>a DEF Scan, ScanStep, ReadUnlock, ReadUnlockWrong, Leave, disk
<1>4. ~(Overrun(p) \/ RangeError(p) \/ ReadUnlockGone(p))
  BY DEF Overrun, RangeError, ReadUnlockGone, End
<1>5. ~(ReadLock(p) \/ SetUsedBlock(p) \/ ClearBlocks(p) \/ ResizeCache(p) \/ MergeBlock(p)
        \/ Walk(p) \/ Shrink(p) \/ SaveCrc(p) \/ SaveTable(p))
  BY <1>0 DEF ReadLock, SetUsedBlock, ClearBlocks, ResizeCache, MergeBlock, Walk, Shrink,
     SaveCrc, SaveTable, In
<1>6. WriteObject(p) \/ DeleteBlock(p)
  BY <1>1, <1>2, <1>3, <1>4, <1>5 DEF Step, Entering
<1>7. p = q
  BY <1>0, <1>6 DEF WriteObject, DeleteBlock, In
<1> QED BY <1>6, <1>7

LEMMA ReaderKept ==
    ASSUME TypeInv, MapIsPermutation, CallOK, [Next]_vars, NEW p \in Threads, NEW q \in Threads,
           up, up', at[p] = "reading", p \in rd[idx[p]], idx[p] \in Settled,
           at[q] \in {"add", "addAny", "more", "delete"}, at'[q] # at[q] \/ store' # store
    PROVE  store'[map[idx[p]]] = store[map[idx[p]]] /\ idx[p] \in used'
<1> DEFINE i == idx[p]
           k == idx[q]
<1>0. TypeOK
  BY DEF TypeInv
<1>1. i \in used /\ i \in Entries /\ i \in Index /\ wr[i] \notin Threads /\ rd[i] # {}
  BY <1>0, IndexType DEF Settled, TypeOK
<1>2. CASE WriteObject(q)
  <2>1. k # i
    <3>1. CASE In(q, "more")
      <4>1. wr[k] = q
        BY <3>1 DEF CallOK, In
      <4> QED BY <1>1, <4>1
    <3>2. CASE CanWrite(k)
      BY <1>1, <3>2 DEF CanWrite
    <3> QED BY <1>2, <3>1, <3>2 DEF WriteObject
  <2>2. objects /\ k \in Entries
    BY <1>0, <1>2 DEF WriteObject, Accessible, TypeOK, Entries
  <2>3. map[k] # map[i]
    BY <1>1, <2>1, <2>2 DEF MapIsPermutation
  <2>4. \E v : store' = [store EXCEPT ![map[k]] = v]
    BY <1>2 DEF WriteObject
  <2>5. map[i] \in Index /\ store = [j \in Index |-> store[j]]
    BY <1>0, <1>1 DEF TypeOK
  <2>6. used \subseteq used'
    BY <1>2 DEF WriteObject
  <2> QED BY <1>1, <2>3, <2>4, <2>5, <2>6
<1>3. CASE DeleteBlock(q)
  <2>1. used' = used \ {k} /\ store' = store /\ CanWrite(k)
    BY <1>3 DEF DeleteBlock, Forget, disk
  <2>2. k # i
    BY <1>1, <2>1 DEF CanWrite
  <2> QED BY <1>1, <2>1, <2>2
<1> QED BY <1>2, <1>3, WriterStep

(* A reader that has given back the mutex is not disturbed by the adds and   *)
(* deletions of any number of other threads: the data and the flag of the    *)
(* block whose lock it holds stay.                                           *)
THEOREM ReadersSafe == Spec => ReadersUndisturbed
<1>1. TypeInv /\ MapIsPermutation /\ CallOK /\ [Next]_vars
      => [\A p, q \in Threads :
            /\ up /\ up' /\ at[p] = "reading" /\ p \in rd[idx[p]] /\ idx[p] \in Settled
            /\ at[q] \in {"add", "addAny", "more", "delete"}
            /\ at'[q] # at[q] \/ store' # store
            => /\ store'[map[idx[p]]] = store[map[idx[p]]]
               /\ idx[p] \in used']_vars
  BY ReaderKept
<1> QED BY <1>1, TypeInvariant, MapSound, CallInvariant, PTL DEF Spec, ReadersUndisturbed

(* The readers of an entry are the threads that are reading it and will give *)
(* its lock back, and a call that waits for an entry waits for them only.    *)
Movers == {"clear", "compact", "resize", "merge"}
ReadersPaired ==
    /\ \A i \in Index : rd[i] = {r \in Threads : at[r] = "reading" /\ idx[r] = i}
    /\ \A p \in Threads : at[p] = "reading" => idx[p] < n
    /\ \A q \in Threads : mutex = q /\ at[q] # "more" => \A i \in Index : CanRead(i)

(* What it rests on: no lock is stuck, no thread is in a call that moves     *)
(* locks, and a process that has ended has no threads.                       *)
NoMover ==
    /\ \A p \in Threads : at[p] \notin Movers /\ (~up => at[p] = "idle")
    /\ \A i \in Index : wr[i] # Stuck

LEMMA NoMoverStep ==
    ASSUME Calls \cap Movers = {}, TypeInv, NoMover, [Next]_vars
    PROVE  NoMover'
<1>0. /\ TypeOK /\ at = [q \in Threads |-> at[q]] /\ wr = [i \in Index |-> wr[i]]
      /\ NoThread # Stuck /\ Stuck \notin Threads
  BY CacheBlocksAssumption DEF CacheBlocksAssumption, TypeInv, TypeOK
<1>1. ASSUME up', \A i \in Index : wr'[i] # Stuck, NEW p \in Threads, at'[p] \notin Movers,
             \A q \in Threads \ {p} : at'[q] = at[q]
      PROVE  NoMover'
  BY <1>1 DEF NoMover, Index
<1>2. CASE End
  BY <1>0, <1>2 DEF End, NoMover, Movers, Index
<1>3. ASSUME NEW p \in Threads, Step(p) PROVE NoMover'
  <2>1. CASE Entering(p)
    <3>1. PICK call \in AllCalls, i \in 0..MaxBlocks : i < n /\ Enter(p, call, i)
      BY <1>0, <2>1, EnteringCall
    <3>2. /\ up' /\ wr' = wr /\ at'[p] \notin Movers
          /\ \A q \in Threads \ {p} : at'[q] = at[q]
      BY <1>0, <3>1 DEF Enter
    <3> QED BY <1>1, <3>2 DEF NoMover
  <2>2. CASE Scan(p) \/ ScanStep(p) \/ Found(p) \/ ReadLock(p) \/ ReadUnlock(p)
             \/ ReadUnlockWrong(p) \/ DeleteBlock(p) \/ SetUsedBlock(p) \/ SaveCrc(p)
             \/ SaveTable(p)
    <3>1. /\ up' /\ wr' = wr /\ at'[p] \notin Movers
          /\ \A q \in Threads \ {p} : at'[q] = at[q]
      BY <1>0, <2>2 DEF Scan, ScanStep, Found, ReadLock, ReadUnlock, ReadUnlockWrong,
         DeleteBlock, SetUsedBlock, SaveCrc, SaveTable, Return, Leave, In, locks, Movers
    <3> QED BY <1>1, <3>1 DEF NoMover
  <2>3. CASE Overrun(p) \/ RangeError(p) \/ ReadUnlockGone(p)
    BY <1>2, <2>3 DEF Overrun, RangeError, ReadUnlockGone
  <2>4. CASE WriteObject(p)
    <3>1. \E w \in {p, NoThread} : wr' = [wr EXCEPT ![idx[p]] = w]
      BY <2>4 DEF WriteObject
    <3>2. up' /\ at'[p] \in {"more", "idle"} /\ \A q \in Threads \ {p} : at'[q] = at[q]
      BY <1>0, <2>4 DEF WriteObject, In, Return, Leave
    <3>3. \A i \in Index : wr'[i] # Stuck
      BY <1>0, <3>1 DEF NoMover
    <3> QED BY <1>1, <3>2, <3>3 DEF Movers
  <2>5. ~(ClearBlocks(p) \/ ResizeCache(p) \/ MergeBlock(p) \/ Walk(p) \/ Shrink(p))
    BY DEF ClearBlocks, ResizeCache, MergeBlock, Walk, Shrink, In, NoMover, Movers
  <2> QED BY <1>3, <2>1, <2>2, <2>3, <2>4, <2>5 DEF Step, Entering
<1>4. CASE Crash
  BY <1>2, <1>4 DEF Crash
<1>5. CASE Reload \/ Stopped \/ UNCHANGED vars
  BY <1>5 DEF Reload, Stopped, vars, locks, local, NoMover, Index
<1> QED BY <1>3, <1>4, <1>5 DEF Next

LEMMA ReadersStep ==
    ASSUME TypeInv, TypeInv', CallOK', NoMover, NoMover', ReadersPaired, [Next]_vars
    PROVE  ReadersPaired'
<1> DEFINE Reading(i) == {r \in Threads : at[r] = "reading" /\ idx[r] = i}
<1>0. /\ TypeOK /\ TypeOK' /\ at = [q \in Threads |-> at[q]] /\ idx = [q \in Threads |-> idx[q]]
      /\ rd = [i \in Index |-> rd[i]] /\ Index' = Index
  BY DEF TypeInv, TypeOK, Index
<1>1. \A q \in Threads : mutex' = q /\ at'[q] # "more" => \A i \in Index : CanRead(i)'
  <2> SUFFICES ASSUME NEW q \in Threads, mutex' = q, at'[q] # "more", NEW i \in Index
               PROVE  wr'[i] = NoThread
    BY DEF CanRead
  <2>1. wr'[i] \notin Threads /\ wr'[i] # Stuck
    BY <1>0 DEF TypeInv, MutexOK, NoMover
  <2> QED BY <1>0, <2>1 DEF TypeOK
<1>2. ASSUME rd' = rd, n' = n,
             \A q \in Threads : \/ at'[q] = at[q] /\ idx'[q] = idx[q]
                                \/ at[q] # "reading" /\ at'[q] # "reading"
      PROVE  ReadersPaired'
  <2>1. \A i \in Index : Reading(i)' = Reading(i)
    BY <1>2
  <2> QED BY <1>0, <1>1, <1>2, <2>1 DEF ReadersPaired
<1>3. CASE End
  <2>1. \A i \in Index : rd'[i] = {} /\ \A q \in Threads : at'[q] = "idle"
    BY <1>3 DEF End
  <2>2. \A q \in Threads : at'[q] = "idle"
    BY <1>3 DEF End
  <2> QED BY <1>0, <1>1, <2>1, <2>2 DEF ReadersPaired
<1>4. ASSUME NEW p \in Threads, Step(p) PROVE ReadersPaired'
  <2>1. CASE Entering(p)
    <3>1. PICK call \in AllCalls, i \in 0..MaxBlocks : i < n /\ Enter(p, call, i)
      BY <1>0, <2>1, EnteringCall
    <3>2. /\ rd' = rd /\ n' = n /\ at[p] # "reading" /\ at'[p] # "reading"
          /\ \A q \in Threads \ {p} : at'[q] = at[q] /\ idx'[q] = idx[q]
      BY <1>0, <3>1 DEF Enter, AllCalls, table
    <3> QED BY <1>2, <3>2
  <2>2. CASE Scan(p) \/ ScanStep(p) \/ Found(p) \/ DeleteBlock(p) \/ SetUsedBlock(p)
             \/ SaveCrc(p) \/ SaveTable(p) \/ WriteObject(p)
    <3>1. /\ rd' = rd /\ n' = n /\ at[p] # "reading" /\ at'[p] # "reading"
          /\ \A q \in Threads \ {p} : at'[q] = at[q] /\ idx'[q] = idx[q]
      <4>1. CASE Scan(p) \/ ScanStep(p) \/ Found(p) \/ SaveCrc(p)
        BY <1>0, <4>1 DEF Scan, ScanStep, Found, SaveCrc, In, table, locks
      <4>2. CASE DeleteBlock(p) \/ SetUsedBlock(p) \/ SaveTable(p)
        BY <1>0, <4>2 DEF DeleteBlock, SetUsedBlock, SaveTable, In, Return, Leave, table
      <4>3. CASE WriteObject(p)
        BY <1>0, <4>3 DEF WriteObject, In, Return, Leave
      <4> QED BY <2>2, <4>1, <4>2, <4>3
    <3> QED BY <1>2, <3>1
  <2>3. CASE Overrun(p) \/ RangeError(p) \/ ReadUnlockGone(p)
    BY <1>3, <2>3 DEF Overrun, RangeError, ReadUnlockGone
  <2>4. CASE ReadLock(p)
    <3>1. /\ rd' = [rd EXCEPT ![idx[p]] = @ \cup {p}] /\ n' = n /\ idx' = idx
          /\ at[p] = "read" /\ at' = [at EXCEPT ![p] = "reading"] /\ idx[p] < n
      BY <2>4 DEF ReadLock, In, Accessible, table
    <3>2. ASSUME NEW i \in Index PROVE rd'[i] = Reading(i)'
      <4>1. Reading(i)' = IF i = idx[p] THEN Reading(i) \cup {p} ELSE Reading(i)
        BY <1>0, <3>1
      <4>2. rd'[i] = IF i = idx[p] THEN rd[i] \cup {p} ELSE rd[i]
        BY <1>0, <3>1
      <4> QED BY <4>1, <4>2 DEF ReadersPaired
    <3>3. \A q \in Threads : at'[q] = "reading" => idx'[q] < n'
      BY <1>0, <3>1 DEF ReadersPaired
    <3> QED BY <1>0, <1>1, <3>2, <3>3 DEF ReadersPaired
  <2>5. CASE ReadUnlock(p)
    <3>1. /\ rd' = [rd EXCEPT ![idx[p]] = @ \ {p}] /\ n' = n /\ at[p] = "reading"
          /\ at' = [at EXCEPT ![p] = "idle"]
          /\ \A q \in Threads \ {p} : idx'[q] = idx[q]
      BY <1>0, <2>5 DEF ReadUnlock, Leave, table
    <3>2. ASSUME NEW i \in Index PROVE rd'[i] = Reading(i)'
      <4>1. Reading(i)' = IF i = idx[p] THEN Reading(i) \ {p} ELSE Reading(i)
        BY <1>0, <3>1
      <4>2. rd'[i] = IF i = idx[p] THEN rd[i] \ {p} ELSE rd[i]
        BY <1>0, <3>1
      <4> QED BY <4>1, <4>2 DEF ReadersPaired
    <3>3. \A q \in Threads : at'[q] = "reading" => idx'[q] < n'
      BY <1>0, <3>1 DEF ReadersPaired
    <3> QED BY <1>0, <1>1, <3>2, <3>3 DEF ReadersPaired
  <2>6. ~ReadUnlockWrong(p)
    <3>1. at[p] = "reading" /\ idx[p] < n => idx[p] \in Index /\ p \in rd[idx[p]]
      <4>1. idx[p] < n => idx[p] \in Index
        BY <1>0, CacheBlocksAssumption DEF CacheBlocksAssumption, TypeOK, Index
      <4> QED BY <4>1 DEF ReadersPaired
    <3> QED BY <3>1 DEF ReadUnlockWrong
  <2>7. ~(ClearBlocks(p) \/ ResizeCache(p) \/ MergeBlock(p) \/ Walk(p) \/ Shrink(p))
    BY DEF ClearBlocks, ResizeCache, MergeBlock, Walk, Shrink, In, NoMover, Movers
  <2> QED BY <1>4, <2>1, <2>2, <2>3, <2>4, <2>5, <2>6, <2>7 DEF Step, Entering
<1>5. CASE Crash
  BY <1>3, <1>5 DEF Crash
<1>6. CASE Reload
  <2>1. rd' = rd /\ at' = at /\ idx' = idx /\ \A q \in Threads : at[q] = "idle"
    BY <1>6 DEF Reload, locks, local, NoMover
  <2>2. \A i \in Index : Reading(i)' = Reading(i)
    BY <2>1
  <2>3. \A q \in Threads : at'[q] # "reading"
    BY <2>1
  <2> QED BY <1>0, <1>1, <2>1, <2>2, <2>3 DEF ReadersPaired
<1>7. CASE Stopped \/ UNCHANGED vars
  BY <1>2, <1>7 DEF Stopped, vars, table, locks, local
<1> QED BY <1>4, <1>5, <1>6, <1>7 DEF Next

(* In a process that never compacts, resizes, merges or clears the cache,    *)
(* whoever waits with the mutex for a block waits for readers only, each of  *)
(* which has the lock it will give back: the cache cannot deadlock on a lock *)
(* nobody gives back.  (cache_compact moves the rwlock of a reader to        *)
(* another entry, where nobody unlocks it any more.)                         *)
THEOREM ReadersLeave == Calls \cap Movers = {} => (Spec => []ReadersPaired)
<1> SUFFICES ASSUME Calls \cap Movers = {} PROVE Spec => []ReadersPaired
    OBVIOUS
<1>1. Init => NoMover /\ ReadersPaired
  BY CacheBlocksAssumption
  DEF CacheBlocksAssumption, Init, NoMover, ReadersPaired, Movers, CanRead
<1>2. TypeInv /\ NoMover /\ [Next]_vars => NoMover'
  BY NoMoverStep
<1>3. /\ TypeInv /\ TypeInv' /\ CallOK' /\ NoMover /\ NoMover' /\ ReadersPaired /\ [Next]_vars
      => ReadersPaired'
  BY ReadersStep
<1> QED BY <1>1, <1>2, <1>3, TypeInvariant, CallInvariant, PTL DEF Spec

-----------------------------------------------------------------------------
(* Compaction. *)

(* Behind the entry a compaction looks at, the blocks in use are the first   *)
(* ones: those before the hole, or all while there is none.                  *)
Top(p) == IF hole[p] < MaxBlocks THEN hole[p] ELSE idx[p]
PackedOK ==
    \A p \in Threads : at[p] = "compact" =>
        \A k \in 0..(idx[p] - 1) : k \in used <=> k < Top(p)

(* One entry of the walk: a block in use moves into the hole, no data in use *)
(* is lost, and the entries behind stay packed.                              *)
LEMMA WalkPacks ==
    ASSUME TypeInv, PackedOK, NEW p \in Threads, Walk(p)
    PROVE  /\ \A k \in 0..(idx'[p] - 1) : k \in used' <=> k < Top(p)'
           /\ Held \subseteq Held'
<1> DEFINE b == idx[p]
           h == hole[p]
<1>0. /\ TypeOK /\ In(p, "compact") /\ b < n /\ MaxBlocks \in Nat
      /\ b \in 0..MaxBlocks /\ h \in 0..MaxBlocks /\ n \in 1..MaxBlocks
      /\ idx'[p] = b + 1
      /\ idx \in [Threads -> 0..MaxBlocks] /\ hole \in [Threads -> 0..MaxBlocks]
  BY CacheBlocksAssumption DEF CacheBlocksAssumption, TypeInv, TypeOK, Walk
<1>1. b \in Nat /\ h \in Nat /\ b \in Index /\ b < MaxBlocks
  BY <1>0 DEF Index
<1>2. \A k \in 0..(b - 1) : k \in used <=> k < Top(p)
  BY <1>0 DEF PackedOK, In
<1>3. h < MaxBlocks => h < b
  BY <1>0 DEF TypeInv, WalkOK, In
<1>4. CASE b \in used /\ h < MaxBlocks
  <2>1. /\ want' = Swap(want, h, b)
        /\ used' = (used \cup {h}) \ {b}
        /\ raw' = IF b \in raw THEN (raw \cup {h}) \ {b} ELSE raw \ {h}
        /\ hole' = [hole EXCEPT ![p] = @ + 1]
    BY <1>4 DEF Walk, MoveBlock
  <2>2. hole'[p] = h + 1
    BY <1>0, <2>1
  <2>3. h \notin used
    BY <1>1, <1>2, <1>3, <1>4 DEF Top
  <2>4. /\ h \in Index /\ want'[h] = want[b]
        /\ \A k \in Index \ {h, b} : want'[k] = want[k]
    <3>1. h \in Index /\ h # b
      BY <1>0, <1>1, <1>3, <1>4 DEF Index
    <3>2. want = [k \in Index |-> want[k]]
      BY <1>0 DEF TypeOK
    <3> QED BY <1>1, <2>1, <3>1, <3>2 DEF Swap
  <2>5. ASSUME NEW k \in used \ raw PROVE want[k] \in Held'
    <3>1. k \in Index /\ k # h
      BY <1>0, <2>3, IndexType DEF TypeOK
    <3>2. CASE k = b
      BY <1>4, <2>1, <2>4, <3>2, <1>3, <1>1 DEF Held
    <3>3. CASE k # b
      BY <2>1, <2>4, <3>1, <3>3 DEF Held
    <3> QED BY <3>2, <3>3
  <2>6. Top(p)' = h + 1
    <3>1. h + 1 < MaxBlocks
      BY <1>0, <1>1, <1>3, <1>4
    <3> QED BY <2>2, <3>1 DEF Top
  <2>7. \A k \in 0..b : k \in used' <=> k < h + 1
    <3>1. \A k \in 0..(b - 1) : k \in used <=> k < h
      BY <1>2, <1>4 DEF Top
    <3> QED BY <1>1, <1>3, <1>4, <2>1, <3>1
  <2>8. idx'[p] - 1 = b
    BY <1>0, <1>1
  <2> QED BY <2>5, <2>6, <2>7, <2>8 DEF Held
<1>5. CASE ~(b \in used /\ h < MaxBlocks)
  <2>1. /\ UNCHANGED <<want, used, raw>>
        /\ hole' = IF b \notin used /\ h = MaxBlocks THEN [hole EXCEPT ![p] = b] ELSE hole
    BY <1>5 DEF Walk
  <2>2. Top(p)' = IF b \in used THEN b + 1 ELSE Top(p)
    <3>1. hole'[p] = IF b \notin used /\ h = MaxBlocks THEN b ELSE h
      BY <1>0, <2>1
    <3> QED BY <1>0, <1>1, <1>5, <3>1 DEF Top
  <2>3. Top(p) <= b /\ Top(p) \in Nat /\ (b \in used => Top(p) = b)
    BY <1>0, <1>1, <1>3, <1>5 DEF Top
  <2>4. \A k \in 0..b : k \in used <=> k < Top(p)'
    BY <1>1, <1>2, <2>2, <2>3
  <2>5. idx'[p] - 1 = b
    BY <1>0, <1>1
  <2> QED BY <2>1, <2>4, <2>5 DEF Held
<1> QED BY <1>4, <1>5

LEMMA PackedStep ==
    ASSUME TypeInv, CallOK, PackedOK, [Next]_vars
    PROVE  PackedOK'
<1>0. TypeOK /\ NoThread \notin Threads /\ at = [q \in Threads |-> at[q]]
      /\ idx = [q \in Threads |-> idx[q]]
  BY CacheBlocksAssumption DEF CacheBlocksAssumption, TypeInv, TypeOK
<1>1. ASSUME NEW p \in Threads, at'[p] # "compact",
             \A q \in Threads \ {p} : at'[q] = at[q] /\ at[q] # "compact"
      PROVE  PackedOK'
  BY <1>1 DEF PackedOK
<1>2. ASSUME NEW p \in Threads, Step(p) PROVE PackedOK'
  <2>a. mutex \in {NoThread, p} => \A q \in Threads \ {p} : at[q] # "compact"
    BY <1>0 DEF CallOK, Outside
  <2>1. CASE Entering(p)
    <3>1. PICK call \in AllCalls, i \in 0..MaxBlocks : i < n /\ Enter(p, call, i)
      BY <1>0, <2>1, EnteringCall
    <3>2. mutex = NoThread /\ \A q \in Threads \ {p} : at'[q] = at[q]
      BY <1>0, <3>1 DEF Enter
    <3>3. CASE Compact(p)
      <4>1. idx'[p] = 0
        BY <1>0, <3>3 DEF Compact, Enter
      <4> QED BY <2>a, <3>2, <4>1 DEF PackedOK
    <3>4. CASE ~Compact(p)
      <4>1. at'[p] # "compact"
        BY <1>0, <2>1, <3>4 DEF Entering, Enter, Add, Read, Delete, SetUsed, Clear,
           CallResize, Merge, Save
      <4> QED BY <1>1, <2>a, <3>2, <4>1
    <3> QED BY <3>3, <3>4
  <2>2. CASE Scan(p) \/ ScanStep(p) \/ ReadUnlock(p) \/ ReadUnlockWrong(p)
    <3>1. /\ used' = used /\ at'[p] # "compact"
          /\ \A q \in Threads \ {p} :
                at'[q] = at[q] /\ idx'[q] = idx[q] /\ hole'[q] = hole[q]
      BY <1>0, <2>2 DEF Scan, ScanStep, ReadUnlock, ReadUnlockWrong, Leave, table, TypeOK
    <3> QED BY <3>1 DEF PackedOK, Top
  <2>3. CASE Found(p)
    <3>1. mutex = NoThread /\ at'[p] = "addAny" /\ \A q \in Threads \ {p} : at'[q] = at[q]
      BY <1>0, <2>3 DEF Found
    <3> QED BY <1>1, <2>a, <3>1
  <2>4. CASE Overrun(p) \/ RangeError(p) \/ ReadUnlockGone(p)
    BY <2>4 DEF Overrun, RangeError, ReadUnlockGone, End, PackedOK
  <2>5. CASE WriteObject(p)
    <3>1. /\ mutex = p /\ at'[p] \in {"idle", "more"}
          /\ \A q \in Threads \ {p} : at'[q] = at[q]
      BY <1>0, <2>5 DEF WriteObject, In, Return, Leave
    <3> QED BY <1>1, <2>a, <3>1
  <2>6. CASE ReadLock(p) \/ DeleteBlock(p) \/ SetUsedBlock(p) \/ SaveTable(p) \/ ClearBlocks(p)
             \/ ResizeCache(p) \/ MergeBlock(p) \/ Shrink(p) \/ SaveCrc(p)
    <3>1. mutex = p /\ at'[p] # "compact" /\ \A q \in Threads \ {p} : at'[q] = at[q]
      BY <1>0, <2>6 DEF ReadLock, DeleteBlock, SetUsedBlock, SaveTable, ClearBlocks,
         ResizeCache, MergeBlock, Shrink, SaveCrc, In, Return, Leave
    <3> QED BY <1>1, <2>a, <3>1
  <2>7. CASE Walk(p)
    <3>1. mutex = p /\ at' = at
      BY <2>7 DEF Walk, In
    <3> QED BY <2>7, <2>a, <3>1, WalkPacks DEF PackedOK
  <2> QED BY <1>2, <2>1, <2>2, <2>3, <2>4, <2>5, <2>6, <2>7 DEF Step, Entering
<1>3. CASE Crash
  BY <1>3 DEF Crash, End, PackedOK
<1>4. CASE Reload
  <2>1. \A q \in Threads : at'[q] = at[q] /\ at[q] # "compact"
    BY <1>0, <1>4 DEF Reload, TypeInv, MutexOK, CallOK, Outside, local
  <2> QED BY <2>1 DEF PackedOK
<1>5. CASE Stopped \/ UNCHANGED vars
  BY <1>5 DEF Stopped, vars, PackedOK, Top, table, local
<1> QED BY <1>2, <1>3, <1>4, <1>5 DEF Next

LEMMA PackedInvariant == Spec => []PackedOK
<1>1. Init => PackedOK
  BY DEF Init, PackedOK
<1>2. TypeInv /\ CallOK /\ PackedOK /\ [Next]_vars => PackedOK'
  BY PackedStep
<1> QED BY <1>1, <1>2, TypeInvariant, CallInvariant, PTL DEF Spec

(* Whole quanta are taken from the free blocks, so u_blocks of them stay.    *)
LEMMA QuantaBound ==
    ASSUME NEW a \in Nat
    PROVE  /\ Quantum * (a \div Quantum) \in Nat
           /\ Quantum * (a \div Quantum) <= a
           /\ a < Quantum * (a \div Quantum) + Quantum
BY CacheBlocksAssumption DEF CacheBlocksAssumption

LEMMA ModBelow == \A a \in 0..(Word - 1) : a % Word = a
BY CacheBlocksAssumption DEF CacheBlocksAssumption

LEMMA ModNegative == \A a \in (-Word)..(-1) : a % Word = a + Word
BY CacheBlocksAssumption DEF CacheBlocksAssumption

LEMMA ShrinkSizeBound == TypeOK => ShrinkSize >= count
<1> SUFFICES ASSUME TypeOK PROVE ShrinkSize >= count
    OBVIOUS
<1>1. /\ n \in Nat /\ count \in Nat /\ Quantum \in Nat /\ Quantum > 0 /\ Word \in Nat
      /\ n < Word /\ count + Quantum <= Word
  BY CacheBlocksAssumption, WordAssumption DEF CacheBlocksAssumption, WordAssumption, TypeOK
<1> DEFINE free == (n - count) % Word
           taken == Quantum * (free \div Quantum)
<1>2. free \in Nat /\ free = IF count <= n THEN n - count ELSE n - count + Word
  <2>1. CASE count <= n
    <3>1. n - count \in 0..(Word - 1)
      BY <1>1, <2>1
    <3> QED BY <1>1, <2>1, <3>1, ModBelow
  <2>2. CASE ~(count <= n)
    <3>1. n - count \in (-Word)..(-1)
      BY <1>1, <2>2
    <3> QED BY <1>1, <2>2, <3>1, ModNegative
  <2> QED BY <2>1, <2>2
<1> HIDE DEF free
<1>3. taken \in Nat /\ taken <= free /\ free < taken + Quantum
  BY <1>2, QuantaBound
<1> HIDE DEF taken
<1>4. CASE count <= n
  <2>1. n - taken \in 0..(Word - 1) /\ n - taken >= count
    BY <1>1, <1>2, <1>3, <1>4
  <2>2. (n - taken) % Word = n - taken
    BY <2>1, ModBelow
  <2> QED BY <2>1, <2>2 DEF ShrinkSize, taken, free
<1>5. CASE ~(count <= n)
  <2>1. n - taken \in (-Word)..(-1) /\ n - taken + Word >= count
    BY <1>1, <1>2, <1>3, <1>5
  <2>2. (n - taken) % Word = n - taken + Word
    BY <2>1, ModNegative
  <2> QED BY <2>1, <2>2 DEF ShrinkSize, taken, free
<1> QED BY <1>4, <1>5

(* The resize at the end of a compaction cuts off unused blocks only.        *)
LEMMA ShrinkKeeps ==
    ASSUME TypeInv, PackedOK, NEW p \in Threads, Shrink(p), Cardinality(used) <= count
    PROVE  Held \subseteq Held'
<1>0. TypeOK /\ at[p] = "compact" /\ mutex = p /\ idx[p] >= n /\ want' = want
  BY DEF TypeInv, Shrink, In
<1>1. CASE ShrinkSize \in {0, n}
  BY <1>0, <1>1 DEF Shrink, Held
<1>2. CASE ShrinkSize \notin {0, n}
  <2> DEFINE m == ShrinkSize
             t == Top(p)
  <2>1. m \in Nat /\ m >= count /\ Resize(m)
    BY <1>0, <1>2, ShrinkSizeType, ShrinkSizeBound DEF Shrink
  <2>2. /\ idx[p] = n /\ n \in Nat /\ count \in Nat /\ used \subseteq 0..(n - 1)
        /\ t \in Nat /\ t <= n
    BY <1>0, CacheBlocksAssumption
    DEF CacheBlocksAssumption, TypeInv, TypeOK, WalkOK, Entries, Top
  <2>a. \A k \in 0..(n - 1) : k \in used <=> k < t
    BY <1>0, <2>2 DEF PackedOK
  <2>3. used = 0..(t - 1)
    <3> HIDE DEF t
    <3>1. \A k : k \in 0..(t - 1) <=> k \in 0..(n - 1) /\ k < t
      BY <2>2
    <3> QED BY <2>2, <2>a, <3>1
  <2> HIDE DEF m, t
  <2>4. Cardinality(used) = t
    BY <2>2, <2>3, FS_Interval
  <2>5. used \subseteq 0..(m - 1)
    BY <2>1, <2>2, <2>3, <2>4
  <2>6. PICK S \in SUBSET (n..(m - 1)) : /\ used' = (used \cap 0..(m - 1)) \cup S
                                         /\ raw' = (raw \cap 0..(m - 1)) \cup n..(m - 1)
    BY <2>1 DEF Resize
  <2>7. used \ raw \subseteq used' \ raw'
    <3>1. \A k \in used : k \notin n..(m - 1)
      BY <2>1, <2>2
    <3> QED BY <2>5, <2>6, <3>1
  <2> QED BY <1>0, <2>7 DEF Held
<1> QED BY <1>1, <1>2

(* Only the compaction itself changes the table while it runs. *)
LEMMA CompactingStep ==
    ASSUME TypeInv, CallOK, [Next]_vars, up, up', NEW p \in Threads, at[p] = "compact"
    PROVE  Walk(p) \/ Shrink(p) \/ UNCHANGED table
<1>0. TypeOK /\ mutex = p /\ NoThread \notin Threads
  BY CacheBlocksAssumption DEF CacheBlocksAssumption, TypeInv, CallOK, Outside
<1>1. ASSUME NEW q \in Threads, Step(q) PROVE Walk(p) \/ Shrink(p) \/ UNCHANGED table
  <2>1. ~Entering(q) /\ ~Found(q)
    BY <1>0 DEF Entering, Found, Enter, Add, Read, Delete, SetUsed, Clear,
       CallResize, Merge, Compact, Save
  <2>2. CASE Scan(q) \/ ScanStep(q) \/ ReadUnlock(q) \/ ReadUnlockWrong(q)
    BY <2>2 DEF Scan, ScanStep, ReadUnlock, ReadUnlockWrong
  <2>3. ~(Overrun(q) \/ RangeError(q) \/ ReadUnlockGone(q))
    BY DEF Overrun, RangeError, ReadUnlockGone, End
  <2>4. ~(WriteObject(q) \/ ReadLock(q) \/ DeleteBlock(q) \/ SetUsedBlock(q) \/ ClearBlocks(q)
          \/ ResizeCache(q) \/ MergeBlock(q) \/ SaveCrc(q) \/ SaveTable(q))
    BY <1>0 DEF WriteObject, ReadLock, DeleteBlock, SetUsedBlock, ClearBlocks, ResizeCache,
       MergeBlock, SaveCrc, SaveTable, In
  <2>5. CASE Walk(q) \/ Shrink(q)
    BY <1>0, <2>5 DEF Walk, Shrink, In
  <2> QED BY <1>1, <2>1, <2>2, <2>3, <2>4, <2>5 DEF Step, Entering
<1>2. CASE Crash \/ Reload \/ Stopped \/ UNCHANGED vars
  BY <1>2 DEF Crash, Reload, Stopped, vars, End
<1> QED BY <1>1, <1>2 DEF Next

(* A compaction loses no data in use, neither by its moves nor by the resize *)
(* at its end, unless u_blocks says fewer blocks are in use than there are.  *)
THEOREM CompactionSafe == Spec => CompactionKeeps
<1>1. TypeInv /\ CallOK /\ PackedOK /\ [Next]_vars
      => [\A p \in Threads :
            at[p] = "compact" /\ idx[p] # 0 /\ up /\ up' /\ Cardinality(used) <= count
            => Held \subseteq Held']_vars
  <2> SUFFICES ASSUME TypeInv, CallOK, PackedOK, [Next]_vars, NEW p \in Threads,
                      at[p] = "compact", up, up', Cardinality(used) <= count
               PROVE  Held \subseteq Held'
      OBVIOUS
  <2>1. CASE Walk(p)
    BY <2>1, WalkPacks
  <2>2. CASE Shrink(p)
    BY <2>2, ShrinkKeeps
  <2>3. CASE UNCHANGED table
    BY <2>3 DEF table, Held
  <2> QED BY <2>1, <2>2, <2>3, CompactingStep
<1> QED BY <1>1, TypeInvariant, CallInvariant, PackedInvariant, PTL DEF Spec, CompactionKeeps

===============================================================================
