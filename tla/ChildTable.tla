------------------------------ MODULE ChildTable ------------------------------
(*****************************************************************************)
(* The child table of utilib.c: pups_fork enters a child in chtab, the       *)
(* SIGCHLD handler chld_handler takes it out, pupswait and pupswaitpid wait  *)
(* with that handler removed, and the PSRP builtin chtab resizes the table.  *)
(*                                                                           *)
(* The handler may run between any two steps of the server, also between     *)
(* fork(2) and the entry in the table; pups_fork_mutex is recursive and does *)
(* not keep it out.  SIGCHLD does not queue.  A pid is free again once its   *)
(* process has been reaped.                                                  *)
(*****************************************************************************)
EXTENDS Integers, FiniteSets, FiniteSetsExt

CONSTANTS
    Pids,          \* pids of children
    NoPid,         \* -1, the pid of an empty slot
    Junk,          \* what an uninitialised slot may hold beside a pid
    MAX_CHILDREN,  \* slots chld_handler searches, and the initial size
    MaxFiles,      \* appl_max_files
    Sizes,         \* arguments of the chtab command
    MaxForks       \* bound on the calls of pups_fork that make a child

ASSUME ChildTableAssumption ==
    /\ IsFiniteSet(Pids)
    /\ NoPid \notin Pids /\ Junk \notin Pids \cup {NoPid}
    /\ MAX_CHILDREN \in Nat \ {0} /\ MaxFiles \in Nat /\ MaxForks \in Nat
    /\ Sizes \subseteq Nat \ {0}

VARIABLES
    size,        \* appl_max_child
    chtab,       \* chtab[i].pid
    n_children,  \* n_children
    life,        \* processes: "none", "running" or "zombie"
    pending,     \* SIGCHLD is pending
    auto,        \* chld_handler is installed
    at,          \* where the server is: "idle", "forked", "waiting" or "gone"
    new,         \* the child just forked and its slot
    target,      \* the pid waited for, or NoPid for any
    forks,       \* bound: children made so far
    missed,      \* history: children reaped while their slot was not looked at
    resized,     \* history: the table has been resized
    unheard      \* history: a SIGCHLD was lost since chld_handler last ran

vars == <<size, chtab, n_children, life, pending, auto, at, new, target,
          forks, missed, resized, unheard>>

-----------------------------------------------------------------------------

Index == 0..(size - 1)
Zombies == {p \in Pids : life[p] = "zombie"}
Children == {p \in Pids : life[p] # "none"}
Occupied == {i \in Index : chtab[i] # NoPid}
FreeSlots == Index \ Occupied
NoChild == [pid |-> NoPid, slot |-> 0]

Init ==
    /\ size = MAX_CHILDREN /\ chtab = [i \in 0..(MAX_CHILDREN - 1) |-> NoPid]
    /\ n_children = 0
    /\ life = [p \in Pids |-> "none"]
    /\ pending = FALSE /\ auto = TRUE
    /\ at = "idle" /\ new = NoChild /\ target = NoPid
    /\ forks = 0 /\ missed = 0 /\ resized = FALSE /\ unheard = FALSE

-----------------------------------------------------------------------------
(* pups_fork.  With the table full it changes nothing. *)

Fork(p) ==
    /\ at = "idle" /\ FreeSlots # {}
    /\ life[p] = "none" /\ forks < MaxForks
    /\ life' = [life EXCEPT ![p] = "running"]
    /\ new' = [pid |-> p, slot |-> Min(FreeSlots)]
    /\ at' = "forked"
    /\ forks' = forks + 1
    /\ UNCHANGED <<size, chtab, n_children, pending, auto, target, missed, resized, unheard>>

(* fork_wait is FALSE and fork(2) returns -1, which pups_fork takes for the  *)
(* child's side: the server runs the child's code.                           *)
ForkFails ==
    /\ at = "idle" /\ FreeSlots # {}
    /\ at' = "gone"
    /\ UNCHANGED <<size, chtab, n_children, life, pending, auto, new, target,
                   forks, missed, resized, unheard>>

RecordMutant ==      \* mutant: the slot found before fork(2) is not kept
    /\ at = "forked"
    /\ chtab' = [chtab EXCEPT ![0] = new.pid]
    /\ n_children' = n_children + 1
    /\ at' = "idle" /\ new' = NoChild
    /\ UNCHANGED <<size, life, pending, auto, target, forks, missed, resized, unheard>>
Record ==
    /\ at = "forked"
    /\ chtab' = [chtab EXCEPT ![new.slot] = new.pid]
    /\ n_children' = n_children + 1
    /\ at' = "idle" /\ new' = NoChild
    /\ UNCHANGED <<size, life, pending, auto, target, forks, missed, resized, unheard>>

-----------------------------------------------------------------------------
(* A child ends.  Without the handler the default action drops the signal. *)

Exit(p) ==
    /\ life[p] = "running"
    /\ life' = [life EXCEPT ![p] = "zombie"]
    /\ pending' = auto
    /\ unheard' = (unheard \/ ~auto)
    /\ UNCHANGED <<size, chtab, n_children, auto, at, new, target, forks, missed, resized>>

(* The slots chld_handler clears for a child: the first that holds its pid.  *)
Holding(p) == {i \in Index : i < MAX_CHILDREN /\ chtab[i] = p}
SlotMutant(p) == IF Holding(p) = {} THEN {} ELSE {Min(Occupied)}   \* mutant: any child's slot
Slot(p) == IF Holding(p) = {} THEN {} ELSE {Min(Holding(p))}

(* The children waitpid(-1, WNOHANG) returns in the loop of chld_handler. *)
ReapedMutant == {CHOOSE p \in Zombies : TRUE}                    \* mutant: one child a signal
Reaped == Zombies

(* Children that may be found in what a shrunk table left behind its end. *)
Beyond == {p \in Reaped : Slot(p) = {} /\ size < MAX_CHILDREN}

Handle ==
    LET cleared == UNION {Slot(p) : p \in Reaped}
    IN  /\ at # "gone" /\ auto /\ pending
        /\ chtab' = [i \in Index |-> IF i \in cleared THEN NoPid ELSE chtab[i]]
        /\ \E b \in SUBSET Beyond : n_children' = n_children - Cardinality(cleared) - Cardinality(b)
        /\ life' = [p \in Pids |-> IF p \in Reaped THEN "none" ELSE life[p]]
        /\ missed' = missed + Cardinality({p \in Reaped : Slot(p) = {}})
        /\ pending' = FALSE /\ unheard' = FALSE
        /\ UNCHANGED <<size, auto, at, new, target, forks, resized>>

-----------------------------------------------------------------------------
(* pupswait (t = NoPid) and pupswaitpid.  The handler is put back by every   *)
(* way out of the loop; the loop is left, with -1, as soon as waitpid does   *)
(* not return 0, so that the table is never searched.                        *)

Wait(t) ==
    /\ at = "idle"
    /\ auto' = FALSE
    /\ pending' = FALSE
    /\ unheard' = (unheard \/ pending)
    /\ at' = "waiting" /\ target' = t
    /\ UNCHANGED <<size, chtab, n_children, life, new, forks, missed, resized>>

Awaited(p) == target \in {NoPid, p}

EndWait ==
    /\ at' = "idle" /\ target' = NoPid
    /\ auto' = TRUE
    /\ UNCHANGED <<size, chtab, n_children, pending, new, forks, resized, unheard>>

WaitReaps(p) ==
    /\ at = "waiting" /\ Awaited(p) /\ p \in Zombies
    /\ life' = [life EXCEPT ![p] = "none"]
    /\ missed' = missed + 1
    /\ EndWait

WaitFails ==
    /\ at = "waiting" /\ \A p \in Children : ~Awaited(p)
    /\ UNCHANGED <<life, missed>>
    /\ EndWait

-----------------------------------------------------------------------------
(* psrp_builtin_extend_chtab: a number below the size, or "shrink", cuts the *)
(* table after the last slot in use, which is cleared too; a larger one adds *)
(* slots, of which none is initialised, as pups_clear_chtab_slot refuses an  *)
(* index beyond the old size.                                                *)

InUse == {i \in Occupied : i > 0}

ShrinkSizeMutant == Max(InUse)                 \* mutant: an index taken for a size
ShrinkSize == Max(InUse) + 1

Shrink ==
    /\ at = "idle" /\ InUse # {}
    /\ size' = ShrinkSize
    /\ chtab' = [i \in 0..Max(InUse) |-> IF i = Max(InUse) THEN NoPid ELSE chtab[i]]
    /\ resized' = TRUE
    /\ UNCHANGED <<n_children, life, pending, auto, at, new, target, forks, missed, unheard>>

Grow(n) ==
    /\ at = "idle" /\ n >= size
    /\ size' = n
    /\ \E junk \in [size..(n - 1) -> Pids \cup {NoPid, Junk}] :
          chtab' = [i \in 0..(n - 1) |-> IF i >= size THEN junk[i]
                                         ELSE IF i >= MaxFiles THEN NoPid
                                         ELSE chtab[i]]
    /\ resized' = TRUE
    /\ UNCHANGED <<n_children, life, pending, auto, at, new, target, forks, missed, unheard>>

-----------------------------------------------------------------------------

Gone == at = "gone" /\ UNCHANGED vars

Next ==
    \/ \E p \in Pids : Fork(p) \/ Exit(p) \/ WaitReaps(p)
    \/ ForkFails \/ Record \/ Handle \/ WaitFails
    \/ \E t \in Pids \cup {NoPid} : Wait(t)
    \/ Shrink \/ \E n \in Sizes : Grow(n)
    \/ Gone

Spec == Init /\ [][Next]_vars

(* The kernel delivers a pending signal. *)
FairSpec == Spec /\ WF_vars(Handle)

-----------------------------------------------------------------------------

(* The type of every variable. *)
TypeOK ==
    /\ size \in Nat \ {0} /\ chtab \in [Index -> Pids \cup {NoPid, Junk}]
    /\ n_children \in Int
    /\ life \in [Pids -> {"none", "running", "zombie"}]
    /\ at \in {"idle", "forked", "waiting", "gone"}
    /\ new \in [pid : Pids \cup {NoPid}, slot : Nat] /\ target \in Pids \cup {NoPid}
    /\ {forks, missed} \subseteq Nat
    /\ {pending, auto, resized, unheard} \subseteq BOOLEAN

(* Until the table is resized: n_children is the number of slots in use, and *)
(* each belongs to a child of its own, but for one slot more for each child  *)
(* that was reaped by a wait or before pups_fork had entered it.             *)
Early == IF at = "forked" /\ new.pid \notin Children THEN 1 ELSE 0
SlotsAccounted ==
    ~resized =>
        /\ n_children = Cardinality(Occupied)
        /\ Cardinality(Occupied) + Early = Cardinality(Children \ {new.pid}) + missed

(* Until the table is resized: every child that pups_fork has returned has a *)
(* slot, whatever was cleared for others and whosoever had its pid before.   *)
ChildrenKnown ==
    ~resized => \A p \in Children \ {new.pid} : \E i \in Index : chtab[i] = p

(* Children that end are reaped, unless a SIGCHLD was dropped while a wait   *)
(* had chld_handler removed.                                                 *)
ZombiesReaped == []<>(Zombies = {} \/ unheard \/ at = "gone")

===============================================================================
