------------------------------ MODULE LockTable -------------------------------
(*****************************************************************************)
(* The table of link file locks one process keeps in utilib.c                *)
(* (lock_name_list, lock_cnt, get_lock_index), seen over the calls a process *)
(* makes for several files that nobody else wants.  LinkLock has the other   *)
(* side: several processes and one file.                                     *)
(*****************************************************************************)
EXTENDS Integers, Sequences, FiniteSets, FiniteSetsExt, SequencesExt

CONSTANTS
    Files,      \* files the process locks
    NotSet,     \* the name of an empty slot
    Slots,      \* PUPS_MAX_LOCKS
    MaxCalls    \* bound on the locks a process has outstanding

ASSUME LockTableAssumption ==
    /\ NotSet \notin Files
    /\ Slots \in Nat \ {0}
    /\ MaxCalls \in Nat

VARIABLES
    name,    \* lock_name_list
    cnt,     \* lock_cnt
    links,   \* files whose .lock and lid this process made
    calls,   \* files of the successful calls not released yet, oldest first
    lifo     \* history: every release so far was of the latest call

vars == <<name, cnt, links, calls, lifo>>

Index == 0..(Slots - 1)

Init ==
    /\ name = [i \in Index |-> NotSet]
    /\ cnt = [i \in Index |-> 0]
    /\ links = {}
    /\ calls = << >>
    /\ lifo = TRUE

-----------------------------------------------------------------------------

Occupied == {i \in Index : name[i] # NotSet}

(* get_lock_index: the slot that holds f, otherwise the number of occupied   *)
(* slots, whether or not the slot of that number is free.                    *)
LockIndexMutant(f) == Cardinality(Occupied)   \* mutant: f is not searched for
LockIndex(f) ==
    IF \E i \in Index : name[i] = f
    THEN Min({i \in Index : name[i] = f})
    ELSE Cardinality(Occupied)

(* pups_get_rdwr_link_file_lock on a file nobody else holds: a positive      *)
(* count returns at once, otherwise both links are made.                     *)
Get(f) ==
    LET i == LockIndex(f)
    IN  /\ Len(calls) < MaxCalls
        /\ i \in Index
        /\ cnt' = [cnt EXCEPT ![i] = @ + 1]
        /\ IF cnt[i] > 0
           THEN UNCHANGED <<name, links>>
           ELSE /\ name' = [name EXCEPT ![i] = f]
                /\ links' = links \cup {f}
        /\ calls' = Append(calls, f)
        /\ UNCHANGED lifo

(* The outstanding calls for f, and the calls once the latest is released.   *)
CallsOf(f) == {k \in DOMAIN calls : calls[k] = f}
WithoutLast(f) == RemoveAt(calls, Max(CallsOf(f)))

(* The slot of the outermost release is emptied. *)
EmptySlotMutant(i) == UNCHANGED name          \* mutant: the name is left
EmptySlot(i) == name' = [name EXCEPT ![i] = NotSet]

(* pups_release_link_file_lock: refused without a lid. *)
ReleaseMutant(f) ==                             \* mutant: the count goes down first
    /\ f \notin links /\ LockIndex(f) \in Index
    /\ cnt' = [cnt EXCEPT ![LockIndex(f)] = @ - 1]
    /\ UNCHANGED <<name, links, calls, lifo>>

Release(f) ==
    LET i == LockIndex(f)
    IN  /\ CallsOf(f) # {}
        /\ f \in links
        /\ i \in Index
        /\ cnt' = [cnt EXCEPT ![i] = @ - 1]
        /\ IF cnt[i] > 1
           THEN UNCHANGED <<name, links>>
           ELSE EmptySlot(i) /\ links' = links \ {f}
        /\ calls' = WithoutLast(f)
        /\ lifo' = (lifo /\ f = Last(calls))

(* EBADF: the lock this call gave out was never made. *)
Refuse(f) ==
    /\ CallsOf(f) # {}
    /\ f \notin links
    /\ UNCHANGED vars

Next == \E f \in Files : Get(f) \/ Release(f) \/ Refuse(f)

Spec == Init /\ [][Next]_vars

-----------------------------------------------------------------------------

Outstanding(f) == Cardinality(CallsOf(f))

(* Types of the variables. *)
TypeOK ==
    /\ name \in [Index -> Files \cup {NotSet}]
    /\ cnt \in [Index -> 0..MaxCalls]
    /\ links \subseteq Files
    /\ calls \in Seq(Files)
    /\ lifo \in BOOLEAN

(* Whatever the order of the calls: a slot is named exactly while it counts, *)
(* no file has two slots, and the named files are the linked ones.           *)
TableShape ==
    /\ \A i \in Index : name[i] = NotSet <=> cnt[i] = 0
    /\ \A i, j \in Occupied : name[i] = name[j] => i = j
    /\ links = {name[i] : i \in Occupied}

(* And the counts add up to the outstanding calls even when two files share  *)
(* a slot: there are as many of the one as units in the counts.              *)
Units == {u \in Index \X (1..MaxCalls) : u[2] <= cnt[u[1]]}
TableSound == TableShape /\ Cardinality(Units) = Len(calls)

(* As long as the latest lock is released first (the dispatch table code     *)
(* holds one at a time), each file has its links exactly while a call for it *)
(* is outstanding, and its slot counts those calls.                          *)
TableExact ==
    lifo => \A f \in Files :
        /\ f \in links <=> Outstanding(f) > 0
        /\ f \in links => cnt[LockIndex(f)] = Outstanding(f)

===============================================================================
