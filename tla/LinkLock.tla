------------------------------- MODULE LinkLock -------------------------------
(*****************************************************************************)
(* The link file lock of utilib.c (pups_get_rdwr_link_file_lock,             *)
(* pups_release_link_file_lock, pups_release_all_link_file_locks): several   *)
(* processes on one host contend for one file F in the current directory.    *)
(*                                                                           *)
(* A process wins by making the hard link F.lock and then makes the hard     *)
(* link F.lid.<application>.<host>.<port>.<pid>.tmp that names it.  Both are *)
(* links to F, so stat(F.lock) shows 1 (F) + 1 (F.lock) + the number of lids.*)
(* A newcomer first removes what dead owners left, then treats an F.lock     *)
(* whose link count is below 3 as stale, and only then tries link(2).        *)
(*                                                                           *)
(* Every system call is a step of its own.  F.rdlock is left out: only the   *)
(* TRYLOCK branch makes it, and max_trys = 0 (TRYLOCK) is refused on entry.  *)
(*****************************************************************************)
EXTENDS Integers, FiniteSets

CONSTANTS
    Procs,        \* processes that use the lock
    NoProc,       \* "nobody", as the value of owner
    MaxNest,      \* bound on lock_cnt: how deep one process may nest
    Limits,       \* values of max_trys the callers pass
    CrashPoints   \* control points at which a process may be killed

WAIT_FOREVER == -1

ASSUME LinkLockAssumption ==
    /\ NoProc \notin Procs
    /\ MaxNest \in Nat \ {0}
    /\ Limits \subseteq (Nat \ {0}) \cup {WAIT_FOREVER}

VARIABLES
    alive,     \* processes kill(pid, SIGALIVE) finds
    lockLink,  \* F.lock exists
    lids,      \* processes whose lid exists
    cnt,       \* lock_cnt of the slot each process uses for F
    pc,        \* control point of each process
    todo,      \* lids readdir still has to return
    stale,     \* the link count found by stat(F.lock) is below 3
    left,      \* failed attempts a waiter may still make (or WAIT_FOREVER)
    owner,     \* history: the process whose link(2) made F.lock
    broken,    \* history: F.lock was taken away from a live owner
    settled    \* history: owners that held undisturbed since p's opendir

vars == <<alive, lockLink, lids, cnt, pc, todo, stale, left, owner, broken, settled>>

-----------------------------------------------------------------------------

Points == {"idle", "scan", "sweepLock", "stat", "access", "unstale", "link",
           "lid", "relLock", "relLid", "exitLock"}

Goto(p, l) == pc' = [pc EXCEPT ![p] = l]

Init ==
    /\ alive = Procs
    /\ lockLink = FALSE
    /\ lids = {}
    /\ cnt = [p \in Procs |-> 0]
    /\ pc = [p \in Procs |-> "idle"]
    /\ todo = [p \in Procs |-> {}]
    /\ stale = [p \in Procs |-> FALSE]
    /\ left = [p \in Procs |-> 1]
    /\ owner = NoProc
    /\ broken = FALSE
    /\ settled = [p \in Procs |-> {}]

(* p believes it holds the lock: from its link(2) to its unlink(2). *)
Holds(p) ==
    /\ p \in alive
    /\ \/ pc[p] = "idle" /\ cnt[p] > 0
       \/ pc[p] \in {"lid", "relLock", "exitLock"}

(* p holds the lock, both of its links are in place and no other lid is. *)
Established(p) ==
    /\ p \in alive /\ pc[p] = "idle" /\ cnt[p] > 0
    /\ lockLink /\ owner = p /\ lids = {p}

(* st_nlink < 3: F.lock stands without a lid. *)
FewLinksMutant == Cardinality(lids) <= 1   \* mutant: st_nlink <= 3
FewLinks == lids = {}

(* p removes F.lock, whoever made it. *)
UnlinkLockMutant(p) == UNCHANGED <<lockLink, owner, broken>>   \* mutant: wrong name
UnlinkLock(p) ==
    /\ lockLink' = FALSE
    /\ owner' = NoProc
    /\ broken' = (broken \/ (lockLink /\ owner \in alive \ {p}))

(* p stops being a settled owner for everyone. *)
Unsettle(p) == settled' = [q \in Procs |-> settled[q] \ {p}]

-----------------------------------------------------------------------------
(* pups_get_rdwr_link_file_lock *)

(* The slot's count is already positive: count and return at once. *)
AcquireAgain(p) ==
    /\ p \in alive /\ pc[p] = "idle"
    /\ cnt[p] \in 1..(MaxNest - 1)
    /\ cnt' = [cnt EXCEPT ![p] = @ + 1]
    /\ UNCHANGED <<alive, lockLink, lids, pc, todo, stale, left, owner, broken, settled>>

(* First acquisition: count, then opendir(".") for the lids of F. *)
Acquire(p) ==
    /\ p \in alive /\ pc[p] = "idle" /\ cnt[p] = 0
    /\ cnt' = [cnt EXCEPT ![p] = 1]
    /\ \E n \in Limits : left' = [left EXCEPT ![p] = n]
    /\ todo' = [todo EXCEPT ![p] = lids]
    /\ settled' = [settled EXCEPT ![p] = {q \in Procs : Established(q)}]
    /\ Goto(p, "scan")
    /\ UNCHANGED <<alive, lockLink, lids, stale, owner, broken>>

(* kill(owner_pid, SIGALIVE): a live owner's lid is passed over, a dead      *)
(* owner's lid is unlinked and F.lock goes with it in the next step.         *)
Examine(p) ==
    /\ p \in alive /\ pc[p] = "scan"
    /\ \E d \in todo[p] :
        /\ todo' = [todo EXCEPT ![p] = @ \ {d}]
        /\ lids' = IF d \in alive THEN lids ELSE lids \ {d}
        /\ Goto(p, IF d \in alive THEN "scan" ELSE "sweepLock")
    /\ UNCHANGED <<alive, lockLink, cnt, stale, left, owner, broken, settled>>

SweepLock(p) ==
    /\ p \in alive /\ pc[p] = "sweepLock"
    /\ UnlinkLock(p)
    /\ Goto(p, "scan")
    /\ UNCHANGED <<alive, lids, cnt, todo, stale, left, settled>>

EndScan(p) ==
    /\ p \in alive /\ pc[p] = "scan" /\ todo[p] = {}
    /\ Goto(p, "stat")
    /\ UNCHANGED <<alive, lockLink, lids, cnt, todo, stale, left, owner, broken, settled>>

(* The result of stat is not looked at: without F.lock, buf.st_nlink is      *)
(* whatever the stack held.                                                  *)
Stat(p) ==
    /\ p \in alive /\ pc[p] = "stat"
    /\ \E few \in (IF lockLink THEN {FewLinks} ELSE BOOLEAN) :
          stale' = [stale EXCEPT ![p] = few]
    /\ Goto(p, "access")
    /\ UNCHANGED <<alive, lockLink, lids, cnt, todo, left, owner, broken, settled>>

Access(p) ==
    /\ p \in alive /\ pc[p] = "access"
    /\ Goto(p, IF lockLink /\ stale[p] THEN "unstale" ELSE "link")
    /\ UNCHANGED <<alive, lockLink, lids, cnt, todo, stale, left, owner, broken, settled>>

Unstale(p) ==
    /\ p \in alive /\ pc[p] = "unstale"
    /\ UnlinkLock(p)
    /\ Goto(p, "link")
    /\ UNCHANGED <<alive, lids, cnt, todo, stale, left, settled>>

(* link(F, F.lock) succeeds. *)
LinkMutant(p) ==                           \* mutant: an existing F.lock is replaced
    /\ p \in alive /\ pc[p] = "link"
    /\ lockLink' = TRUE /\ owner' = p
    /\ Goto(p, "lid")
    /\ UNCHANGED <<alive, lids, cnt, todo, stale, left, broken, settled>>

Link(p) ==
    /\ p \in alive /\ pc[p] = "link" /\ ~lockLink
    /\ lockLink' = TRUE
    /\ owner' = p
    /\ Goto(p, "lid")
    /\ UNCHANGED <<alive, lids, cnt, todo, stale, left, broken, settled>>

(* link(F, F.lock) fails: another attempt, or EBUSY when none is left. *)
Retry(p) ==
    /\ p \in alive /\ pc[p] = "link" /\ lockLink /\ left[p] > 0
    /\ left' = [left EXCEPT ![p] = @ - 1]
    /\ UNCHANGED <<alive, lockLink, lids, cnt, pc, todo, stale, owner, broken, settled>>

BusyMutant(p) ==                           \* mutant: gives up but does not return
    /\ p \in alive /\ pc[p] = "link" /\ lockLink /\ left[p] = 0
    /\ cnt' = [cnt EXCEPT ![p] = @ - 1]
    /\ UNCHANGED <<alive, lockLink, lids, pc, todo, stale, left, owner, broken, settled>>

BusyHeldMutant(p) ==                       \* mutant: lock_cnt is not taken back
    /\ p \in alive /\ pc[p] = "link" /\ lockLink /\ left[p] = 0
    /\ Goto(p, "idle")
    /\ UNCHANGED <<alive, lockLink, lids, cnt, todo, stale, left, owner, broken, settled>>

Busy(p) ==
    /\ p \in alive /\ pc[p] = "link" /\ lockLink /\ left[p] = 0
    /\ cnt' = [cnt EXCEPT ![p] = @ - 1]
    /\ Goto(p, "idle")
    /\ UNCHANGED <<alive, lockLink, lids, todo, stale, left, owner, broken, settled>>

(* The table entry is written and link(F, lid) names the owner. *)
MakeLid(p) ==
    /\ p \in alive /\ pc[p] = "lid"
    /\ lids' = lids \cup {p}
    /\ Goto(p, "idle")
    /\ UNCHANGED <<alive, lockLink, cnt, todo, stale, left, owner, broken, settled>>

-----------------------------------------------------------------------------
(* pups_release_link_file_lock; without a lid of its own p is refused. *)

ReleaseInner(p) ==
    /\ p \in alive /\ pc[p] = "idle" /\ p \in lids /\ cnt[p] > 1
    /\ cnt' = [cnt EXCEPT ![p] = @ - 1]
    /\ UNCHANGED <<alive, lockLink, lids, pc, todo, stale, left, owner, broken, settled>>

ReleaseOuter(p) ==
    /\ p \in alive /\ pc[p] = "idle" /\ p \in lids /\ cnt[p] = 1
    /\ cnt' = [cnt EXCEPT ![p] = 0]
    /\ Goto(p, "relLock")
    /\ Unsettle(p)
    /\ UNCHANGED <<alive, lockLink, lids, todo, stale, left, owner, broken>>

ReleaseLock(p) ==
    /\ p \in alive /\ pc[p] = "relLock"
    /\ UnlinkLock(p)
    /\ Goto(p, "relLid")
    /\ UNCHANGED <<alive, lids, cnt, todo, stale, left, settled>>

ReleaseLidMutant(p) ==                     \* mutant: the lid is left behind
    /\ p \in alive /\ pc[p] = "relLid"
    /\ Goto(p, "idle")
    /\ UNCHANGED <<alive, lockLink, lids, cnt, todo, stale, left, owner, broken, settled>>

ReleaseLid(p) ==
    /\ p \in alive /\ pc[p] = "relLid"
    /\ lids' = lids \ {p}
    /\ Goto(p, "idle")
    /\ UNCHANGED <<alive, lockLink, cnt, todo, stale, left, owner, broken, settled>>

-----------------------------------------------------------------------------
(* pups_exit calls pups_release_all_link_file_locks, which takes the lid     *)
(* away first and gives up if it is not there.                               *)

Exit(p) ==
    /\ p \in alive /\ pc[p] = "idle"
    /\ IF cnt[p] > 0 /\ p \in lids
       THEN /\ lids' = lids \ {p}
            /\ Goto(p, "exitLock")
            /\ UNCHANGED alive
       ELSE /\ alive' = alive \ {p}
            /\ UNCHANGED <<lids, pc>>
    /\ Unsettle(p)
    /\ UNCHANGED <<lockLink, cnt, todo, stale, left, owner, broken>>

ExitLock(p) ==
    /\ p \in alive /\ pc[p] = "exitLock"
    /\ UnlinkLock(p)
    /\ alive' = alive \ {p}
    /\ UNCHANGED <<lids, cnt, pc, todo, stale, left, settled>>

(* The process is killed; its links stay behind. *)
Crash(p) ==
    /\ p \in alive /\ pc[p] \in CrashPoints
    /\ alive' = alive \ {p}
    /\ Unsettle(p)
    /\ UNCHANGED <<lockLink, lids, cnt, pc, todo, stale, left, owner, broken>>

-----------------------------------------------------------------------------

(* The steps p takes by itself once it is inside a call. *)
Inside(p) ==
    \/ Examine(p) \/ SweepLock(p) \/ EndScan(p)
    \/ Stat(p) \/ Access(p) \/ Unstale(p)
    \/ Link(p) \/ Retry(p) \/ Busy(p) \/ MakeLid(p)
    \/ ReleaseLock(p) \/ ReleaseLid(p) \/ ExitLock(p)

Stopped == alive = {} /\ UNCHANGED vars

Next ==
    \/ \E p \in Procs :
        \/ AcquireAgain(p) \/ Acquire(p) \/ Inside(p)
        \/ ReleaseInner(p) \/ ReleaseOuter(p)
        \/ Exit(p) \/ Crash(p)
    \/ Stopped

Spec == Init /\ [][Next]_vars

(* Calls return, and callers release what they hold: every path of the       *)
(* dispatch table code in psrplib.c releases the lock it took.               *)
Fairness ==
    \A p \in Procs :
        /\ WF_vars(Inside(p))
        /\ WF_vars(ReleaseInner(p) \/ ReleaseOuter(p))

FairSpec == Spec /\ Fairness

-----------------------------------------------------------------------------

(* Types of the variables. *)
TypeOK ==
    /\ alive \subseteq Procs
    /\ lockLink \in BOOLEAN
    /\ lids \subseteq Procs
    /\ cnt \in [Procs -> 0..MaxNest]
    /\ pc \in [Procs -> Points]
    /\ todo \in [Procs -> SUBSET Procs]
    /\ stale \in [Procs -> BOOLEAN]
    /\ left \in [Procs -> Nat \cup {WAIT_FOREVER}]
    /\ owner \in Procs \cup {NoProc}
    /\ broken \in BOOLEAN
    /\ settled \in [Procs -> SUBSET Procs]

(* At most one process at a time believes it holds the lock.  This is what   *)
(* the comment above the lock code promises; the code breaks it.             *)
MutualExclusion == \A p, q \in Procs : Holds(p) /\ Holds(q) => p = q

(* What link(2) does give: two processes hold the lock together only after   *)
(* F.lock was unlinked under a live owner, never by two links that both      *)
(* succeed or by the nesting count.                                          *)
ExclusiveUnlessBroken == ~broken => MutualExclusion

(* The stale lock tests of pups_get_rdwr_link_file_lock never take F.lock    *)
(* from an owner that, when the newcomer opened the directory, already had   *)
(* both links in place with no other lid beside them, and has held since.    *)
SettledOwnerKept ==
    \A p \in Procs :
        p \in alive /\ pc[p] \in {"unstale", "sweepLock"} /\ lockLink
            => owner \notin settled[p]

(* The lock file, its lids and the scans implement the lock of module Lock:  *)
(* whatever order the system calls of the processes come in, each step       *)
(* either sets a mark where none stands, gives one back, clears one, is the  *)
(* death of a holder, or does not show at all.                               *)
Abstract == INSTANCE Lock WITH holders <- {p \in Procs : Holds(p)},
                               mark <- owner, stolen <- broken
ImplementsLock == Abstract!Spec

(* A live process has a lid exactly while it holds the lock or is giving it  *)
(* up, whatever happened to F.lock meanwhile: nobody else removes its lid,   *)
(* so it can always release, and without the lock it is refused.             *)
LidMatchesCount ==
    \A p \in alive :
        p \in lids <=> \/ pc[p] = "idle" /\ cnt[p] > 0
                      \/ pc[p] \in {"relLock", "relLid"}

(* While waiters never die, somebody waiting for the lock leads to somebody  *)
(* getting it: F.lock is never left behind for good.                         *)
Progress == (\E p \in Procs : pc[p] = "link") ~> (\E p \in Procs : pc[p] = "lid")

===============================================================================
