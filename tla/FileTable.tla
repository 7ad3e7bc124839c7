------------------------------- MODULE FileTable -------------------------------
(*****************************************************************************)
(* The file table of utilib.c with the file homeostat that keeps live files  *)
(* alive: ftab and its shadows, the timers of vttab that call                *)
(* pups_default_fd_homeostat, the directory they work in, the threads that   *)
(* open and close, and everybody else who removes or makes files.            *)
(*                                                                           *)
(* A live file has a second link, its shadow, named after its slot, and a    *)
(* timer whose argument is its slot.  The homeostat runs on the root thread, *)
(* between any two steps of a call of the root thread: ftab_mutex is         *)
(* recursive, and pupshold(ALL_PUPS_SIGS), whose set of held signals is      *)
(* empty, leaves SIGALRM deliverable.  A tick that finds nothing to repair   *)
(* shows as no step.                                                         *)
(*                                                                           *)
(* Left out: streams, pipes, FIFOs of PSRP channels (psrp TRUE), terminals,  *)
(* repaired modes, full file systems, and files with a homeostat of their    *)
(* own.                                                                      *)
(*****************************************************************************)
EXTENDS Integers, FiniteSets, FiniteSetsExt, Functions

CONSTANTS
    Files,        \* names of files, all in one directory
    NoFile, Missing,
    Blank, None,  \* the empty path, and the path "none" a dead file's shadow gets
    Foreign,      \* the inode of a file that others made
    Threads, Root, NoThread,
    Slots,        \* appl_max_files
    Descriptors,  \* what open(2) may return
    Timers,       \* appl_max_vtimers
    MaxLevel,     \* bound on homeostatic
    MaxLosses,    \* bound on files that others remove
    MaxMakes,     \* bound on files that others make
    MaxOpens,     \* bound on the calls that open a file
    Calls         \* what the root thread calls

AllCalls == {"live", "dead", "protect", "fdAlive", "fdDead", "unprotect"}

ASSUME FileTableAssumption ==
    /\ Root \in Threads /\ NoThread \notin Threads
    /\ NoFile \notin Files /\ Foreign \notin Files
    /\ Missing \notin Files \cup {Foreign}
    /\ None \notin Files /\ Blank \notin Files \cup {None}
    /\ \A path \in Files \cup {None, Blank} : path \notin Nat
    /\ Slots \in Nat \ {0} /\ Timers \in Nat \ {0}
    /\ Descriptors \subseteq Nat
    /\ MaxLevel \in Nat /\ MaxLosses \in Nat /\ MaxMakes \in Nat
    /\ MaxOpens \in Nat
    /\ Calls \subseteq AllCalls

VARIABLES
    fdes, fname, fshadow, hname, homeostatic, creator,  \* ftab, by slot
    vttab,     \* the timers: name, and slot as argument
    alarm,     \* SIGALRM comes
    disk,      \* what each path links to
    ino,       \* the inode each open descriptor refers to (a dummy: was opened for)
    call,      \* the call each thread is in
    mutex,     \* holder of ftab_mutex
    stuck,     \* its holder has locked it once more than it will unlock it
    run,       \* the run of the homeostat on top of the root thread
    ended,     \* the homeostat has ended the process
    losses, makes, opens,  \* how often others removed and made files, and files were opened
    refused,   \* history: slots whose timer was refused
    past       \* history: what has happened so far, of Mishaps

(* "leaky": a live file was closed without being made dead first.            *)
(* "refused": the timer of a live file was refused.                          *)
(* "doubled": a file was to get the timer name of a file in another slot.    *)
(* "overlapped": two threads in pups_open were given one slot.               *)
(* "bare": a file went while it was being made live.                         *)
(* "meddled": others removed a shadow, or made anew a file that was open.    *)
Mishaps == {"leaky", "refused", "doubled", "overlapped", "bare", "meddled"}
Note(mishap, happened) == past' = IF happened THEN past \cup {mishap} ELSE past

ftab == <<fdes, fname, fshadow, hname, homeostatic, creator>>
timers == <<vttab, alarm>>
outside == <<losses, makes>>
bounds == <<outside, opens>>
lock == <<mutex, stuck>>
vars == <<ftab, timers, refused, disk, ino, call, lock, run, ended, bounds, past>>

Index == 0..(Slots - 1)
TimerIndex == 0..(Timers - 1)

Free == -1
Dummy(i) == -1000 - i    \* what O_DUMMY gives instead of a descriptor
AllDescriptors == Descriptors \cup {Dummy(i) : i \in Index}

(* The shadow of slot i has the path i. *)
Paths == Files \cup Index \cup {None}
Exists(path) == path \in Paths /\ disk[path] # Missing
CanLink(old, new) == Exists(old) /\ new \in Paths /\ ~Exists(new)
Link(old, new) == IF CanLink(old, new) THEN [disk EXCEPT ![new] = disk[old]] ELSE disk
Unlink(path) == IF path \in Paths THEN [disk EXCEPT ![path] = Missing] ELSE disk

(* The name of a timer: with the descriptor if pups_open sets it, without if *)
(* the caller of pups_fd_alive does.                                         *)
NoName == [file |-> NoFile, des |-> Free]
NoTimer == [name |-> NoName, slot |-> Slots]
Idle == [at |-> "idle", slot |-> 0, file |-> NoFile, how |-> "none", des |-> Free]
NoRun == [at |-> "none", slot |-> 0]

Init ==
    /\ fdes = [i \in Index |-> Free]
    /\ fname = [i \in Index |-> NoFile]
    /\ fshadow = [i \in Index |-> Blank]
    /\ hname = [i \in Index |-> NoName]
    /\ homeostatic = [i \in Index |-> 0]
    /\ creator = [i \in Index |-> FALSE]
    /\ vttab = [j \in TimerIndex |-> NoTimer]
    /\ alarm = FALSE /\ refused = {} /\ past = {}
    /\ disk = [path \in Paths |-> IF path \in Files THEN path ELSE Missing]
    /\ ino = [d \in AllDescriptors |-> Missing]
    /\ call = [p \in Threads |-> Idle]
    /\ mutex = NoThread /\ stuck = FALSE /\ run = NoRun /\ ended = FALSE
    /\ losses = 0 /\ makes = 0 /\ opens = 0

(* A thread executes its own code unless the homeostat runs on top of it. *)
Runs(p) == ~ended /\ (p = Root => run = NoRun)

(* ftab_mutex can be had by p; the homeostat has it while it runs. *)
CanLock(p) == mutex \in {NoThread, p} /\ (p # Root => run = NoRun)
Unlock == mutex' = IF stuck THEN mutex ELSE NoThread

SlotsOf(d) == {i \in Index : fdes[i] = d}
SlotOf(d) == Min(SlotsOf(d))

(* A descriptor is the caller's to use once the open has returned. *)
Known(d) == d # Free /\ SlotsOf(d) # {} /\ \A q \in Threads : call[q].des # d

-----------------------------------------------------------------------------
(* pups_setvitimer and pups_clearvitimer, as VirtualTimers has them in full. *)

FirstFree == Min({j \in TimerIndex : vttab[j] = NoTimer} \cup {Timers})
Duplicate(n) == \E j \in TimerIndex : j < FirstFree /\ vttab[j].name = n
Refused(n) == Duplicate(n) \/ FirstFree = Timers

(* All file timers have priority 1: the sort puts the gaps last. *)
Sorted(t) ==
    {s \in {[j \in TimerIndex |-> t[q[j]]] : q \in Bijection(TimerIndex, TimerIndex)} :
        \A j, k \in TimerIndex : j < k /\ s[j] = NoTimer => s[k] = NoTimer}

SetTimer(n, i) ==
    /\ IF Refused(n)
       THEN UNCHANGED vttab /\ refused' = refused \cup {i}
       ELSE /\ vttab' \in Sorted([vttab EXCEPT ![FirstFree] = [name |-> n, slot |-> i]])
            /\ refused' = refused \ {i}
    /\ alarm' = TRUE

(* Mutant: the alarm is not started again for the timers that are left. *)
ClearTimerMutant(n) ==
    /\ vttab' = [j \in TimerIndex |-> IF vttab[j].name = n THEN NoTimer ELSE vttab[j]]
    /\ alarm' = FALSE

(* A name that is not there leaves the alarm off and SIGALRM blocked. *)
ClearTimer(n) ==
    LET found == {j \in TimerIndex : vttab[j].name = n}
        left == [vttab EXCEPT ![Min(found)] = NoTimer]
    IN  IF found = {}
        THEN UNCHANGED vttab /\ alarm' = FALSE
        ELSE vttab' = left /\ alarm' = (\E j \in TimerIndex : left[j] # NoTimer)

-----------------------------------------------------------------------------
(* pups_open and pups_protect *)

(* pups_find_free_ftab_index: the slot's names are blanked, but nothing says *)
(* that it is taken.                                                         *)
Open(p, f, how) ==
    /\ Runs(p) /\ call[p] = Idle /\ CanLock(p)
    /\ how = "dead" \/ (p = Root /\ how \in Calls)
    /\ Exists(f) /\ SlotsOf(Free) # {}
    /\ opens < MaxOpens /\ opens' = opens + 1
    /\ LET i == SlotOf(Free) IN
       /\ call' = [call EXCEPT ![p] = [Idle EXCEPT !.at = "found", !.slot = i,
                                                   !.file = f, !.how = how]]
       /\ fname' = [fname EXCEPT ![i] = NoFile]
       /\ fshadow' = [fshadow EXCEPT ![i] = Blank]
       /\ hname' = [hname EXCEPT ![i] = NoName]
       /\ Note("overlapped", \E q \in Threads :
                                 call[q].at \in {"found", "opened"} /\ call[q].slot = i)
    /\ UNCHANGED <<fdes, homeostatic, creator, timers, refused, disk, ino, lock, run,
                   ended, outside>>

Unused == {d \in Descriptors : ino[d] = Missing}

(* Mutant: the descriptor stays in the slot. *)
ClearSlotMutant(i) ==
    /\ homeostatic' = [homeostatic EXCEPT ![i] = 0]
    /\ refused' = refused \ {i}
    /\ UNCHANGED <<fdes, fname, fshadow, hname, creator, timers>>

(* pups_clear_ftab_slot(FALSE, ...): names and creator stay. *)
ClearSlot(i) ==
    /\ fdes' = [fdes EXCEPT ![i] = Free]
    /\ homeostatic' = [homeostatic EXCEPT ![i] = 0]
    /\ refused' = refused \ {i}
    /\ UNCHANGED <<fname, fshadow, hname, creator, timers>>

(* The file has gone, or open(2) fails. *)
OpenFails(p) ==
    /\ Runs(p) /\ call[p].at = "found" /\ CanLock(p)
    /\ ~Exists(call[p].file) \/ (call[p].how # "protect" /\ Unused = {})
    /\ ClearSlot(call[p].slot)
    /\ call' = [call EXCEPT ![p] = Idle]
    /\ UNCHANGED <<disk, ino, lock, run, ended, bounds, past>>

OpenFile(p) ==
    /\ Runs(p) /\ call[p].at = "found" /\ Exists(call[p].file)
    /\ call[p].how = "protect" \/ Unused # {}
    /\ \E d \in IF call[p].how = "protect" THEN {Dummy(call[p].slot)} ELSE {Min(Unused)} :
          /\ ino' = [ino EXCEPT ![d] = disk[call[p].file]]
          /\ call' = [call EXCEPT ![p].at = "opened", ![p].des = d]
    /\ UNCHANGED <<ftab, timers, refused, disk, lock, run, ended, bounds, past>>

Fill(p) ==
    LET i == call[p].slot IN
    /\ Runs(p) /\ call[p].at = "opened" /\ CanLock(p)
    /\ fdes' = [fdes EXCEPT ![i] = call[p].des]
    /\ fname' = [fname EXCEPT ![i] = call[p].file]
    /\ IF call[p].how = "dead"
       THEN /\ call' = [call EXCEPT ![p] = Idle]
            /\ UNCHANGED <<creator, mutex>>
       ELSE /\ creator' = [creator EXCEPT ![i] = TRUE]
            /\ call' = [call EXCEPT ![p].at = "alive"]
            /\ mutex' = p
    /\ UNCHANGED <<fshadow, hname, homeostatic, timers, refused, disk, ino, stuck, run, ended,
                   bounds, past>>

-----------------------------------------------------------------------------
(* pups_fd_alive, pups_fd_dead and pups_unprotect *)

CallAlive(d) ==
    /\ Runs(Root) /\ call[Root] = Idle /\ "fdAlive" \in Calls /\ Known(d)
    /\ homeostatic[SlotOf(d)] < MaxLevel
    /\ call' = [call EXCEPT ![Root] = [Idle EXCEPT !.at = "again", !.des = d]]
    /\ UNCHANGED <<ftab, timers, refused, disk, ino, lock, run, ended, bounds, past>>

(* The shadow gets its name and its link, the homeostat its timer; whatever  *)
(* of that fails, the file counts as live.                                   *)
MakeLive(i, n) ==
    /\ homeostatic' = [homeostatic EXCEPT ![i] = 2]
    /\ fshadow' = [fshadow EXCEPT ![i] = i]
    /\ hname' = [hname EXCEPT ![i] = n]
    /\ disk' = Link(fname[i], i)
    /\ SetTimer(n, i)
    /\ past' = past
          \cup (IF Exists(fname[i]) THEN {} ELSE {"bare"})
          \cup (IF Refused(n) THEN {"refused"} ELSE {})
          \cup (IF \/ \E j \in TimerIndex : vttab[j].name = n /\ vttab[j].slot # i
                   \/ \E k \in Index \ {i} : hname[k] = n /\ homeostatic[k] > 0
                THEN {"doubled"} ELSE {})

(* A descriptor that is not (or no longer) in the table leaves ftab_mutex    *)
(* locked once too often.                                                    *)
Alive(p) ==
    LET d == call[p].des
        i == SlotOf(d)
        n == [file |-> fname[i], des |-> IF call[p].at = "alive" THEN d ELSE Free]
    IN
    /\ Runs(p) /\ call[p].at \in {"alive", "again"} /\ CanLock(p)
    /\ \/ /\ SlotsOf(d) = {}
          /\ mutex' = p /\ stuck' = TRUE
          /\ UNCHANGED <<homeostatic, fshadow, hname, disk, timers, refused, past>>
       \/ /\ SlotsOf(d) # {} /\ Unlock /\ UNCHANGED stuck
          /\ \/ /\ ~creator[i]
                /\ UNCHANGED <<homeostatic, fshadow, hname, disk, timers, refused, past>>
             \/ /\ creator[i] /\ homeostatic[i] > 0
                /\ homeostatic' = [homeostatic EXCEPT ![i] = @ + 1]
                /\ UNCHANGED <<fshadow, hname, disk, timers, refused, past>>
             \/ creator[i] /\ homeostatic[i] = 0 /\ MakeLive(i, n)
    /\ call' = [call EXCEPT ![p] = IF @.at = "alive" /\ @.how = "protect"
                                   THEN [@ EXCEPT !.at = "again"] ELSE Idle]
    /\ UNCHANGED <<fdes, fname, creator, ino, run, ended, bounds>>

(* fd_dead counts down first and compares then, unprotect the other way. *)
Lower(i, last) ==
    IF last
    THEN /\ ClearTimer(hname[i])
         /\ call' = [call EXCEPT ![Root] = [Idle EXCEPT !.at = "unlink", !.slot = i]]
         /\ mutex' = Root
    ELSE UNCHANGED <<vttab, alarm, call, mutex>>

(* Mutant: counts one level too few. *)
DeadMutant(d) ==
    LET i == SlotOf(d) IN
    /\ Runs(Root) /\ call[Root] = Idle /\ CanLock(Root) /\ "fdDead" \in Calls
    /\ Known(d) /\ homeostatic[i] > 0
    /\ homeostatic' = [homeostatic EXCEPT ![i] = @ - 1]
    /\ Lower(i, homeostatic[i] <= 3)
    /\ UNCHANGED <<fdes, fname, fshadow, hname, creator, refused, disk, ino, stuck, run,
                   ended, bounds, past>>

Dead(d) ==
    LET i == SlotOf(d) IN
    /\ Runs(Root) /\ call[Root] = Idle /\ CanLock(Root) /\ "fdDead" \in Calls
    /\ Known(d) /\ homeostatic[i] > 0
    /\ homeostatic' = [homeostatic EXCEPT ![i] = @ - 1]
    /\ Lower(i, homeostatic[i] <= 2)
    /\ UNCHANGED <<fdes, fname, fshadow, hname, creator, refused, disk, ino, stuck, run,
                   ended, bounds, past>>

Unprotect(f) ==
    LET S == {i \in Index : fname[i] = f /\ homeostatic[i] > 0}
        i == Min(S)
    IN
    /\ Runs(Root) /\ call[Root] = Idle /\ CanLock(Root) /\ "unprotect" \in Calls
    /\ S # {}
    /\ homeostatic' = IF homeostatic[i] > 1
                      THEN [homeostatic EXCEPT ![i] = @ - 1] ELSE homeostatic
    /\ Lower(i, homeostatic[i] = 1)
    /\ UNCHANGED <<fdes, fname, fshadow, hname, creator, refused, disk, ino, stuck, run,
                   ended, bounds, past>>

(* Mutant: the shadow stays. *)
UnlinkShadowMutant ==
    /\ Runs(Root) /\ call[Root].at = "unlink"
    /\ call' = [call EXCEPT ![Root].at = "bury"]
    /\ UNCHANGED <<ftab, timers, refused, disk, ino, lock, run, ended, bounds, past>>

UnlinkShadow ==
    /\ Runs(Root) /\ call[Root].at = "unlink"
    /\ disk' = Unlink(fshadow[call[Root].slot])
    /\ call' = [call EXCEPT ![Root].at = "bury"]
    /\ UNCHANGED <<ftab, timers, refused, ino, lock, run, ended, bounds, past>>

Bury ==
    LET i == call[Root].slot IN
    /\ Runs(Root) /\ call[Root].at = "bury"
    /\ fshadow' = [fshadow EXCEPT ![i] = None]
    /\ homeostatic' = [homeostatic EXCEPT ![i] = 0]
    /\ hname' = [hname EXCEPT ![i] = NoName]
    /\ refused' = refused \ {i}
    /\ call' = [call EXCEPT ![Root] = Idle] /\ Unlock
    /\ UNCHANGED <<fdes, fname, creator, timers, disk, ino, stuck, run, ended, bounds, past>>

-----------------------------------------------------------------------------
(* pups_close: the timer of a live file stays unless it is a PSRP channel's. *)

Close(p, d) ==
    LET i == SlotOf(d) IN
    /\ Runs(p) /\ call[p] = Idle /\ CanLock(p) /\ Known(d)
    /\ mutex' = p
    /\ ino' = [ino EXCEPT ![d] = Missing]
    /\ disk' = Unlink(fshadow[i])
    /\ call' = [call EXCEPT ![p] = [Idle EXCEPT !.at = "clear", !.slot = i]]
    /\ Note("leaky", homeostatic[i] > 0)
    /\ UNCHANGED <<ftab, timers, refused, stuck, run, ended, bounds>>

Clear(p) ==
    /\ Runs(p) /\ call[p].at = "clear"
    /\ ClearSlot(call[p].slot)
    /\ call' = [call EXCEPT ![p] = Idle] /\ Unlock
    /\ UNCHANGED <<disk, ino, stuck, run, ended, bounds, past>>

-----------------------------------------------------------------------------
(* pups_default_fd_homeostat *)

Tick(i) ==
    /\ ~ended /\ alarm /\ run = NoRun /\ mutex \in {NoThread, Root}
    /\ \E j \in TimerIndex : vttab[j].slot = i
    /\ fdes[i] # Free /\ ~(Exists(fname[i]) /\ Exists(fshadow[i]))
    /\ run' = [at |-> IF Exists(fname[i]) THEN "shadow" ELSE "relink", slot |-> i]
    /\ UNCHANGED <<ftab, timers, refused, disk, ino, call, lock, ended, bounds, past>>

(* link(2) fails if the shadow has gone, or if the file has come back. *)
Relink ==
    LET i == run.slot IN
    /\ ~ended /\ run.at = "relink"
    /\ disk' = Link(fshadow[i], fname[i])
    /\ IF CanLink(fshadow[i], fname[i])
       THEN run' = [run EXCEPT !.at = "shadow"] /\ UNCHANGED ended
       ELSE ended' = TRUE /\ UNCHANGED run
    /\ UNCHANGED <<ftab, timers, refused, ino, call, lock, bounds, past>>

RelinkShadow ==
    LET i == run.slot IN
    /\ ~ended /\ run.at = "shadow"
    /\ disk' = Link(fname[i], fshadow[i])
    /\ run' = NoRun
    /\ UNCHANGED <<ftab, timers, refused, ino, call, lock, ended, bounds, past>>

-----------------------------------------------------------------------------
(* Everybody else *)

Lose(f) ==
    /\ Exists(f) /\ losses < MaxLosses
    /\ losses' = losses + 1
    /\ disk' = [disk EXCEPT ![f] = Missing]
    /\ UNCHANGED <<ftab, timers, refused, ino, call, lock, run, ended, makes, opens, past>>

LoseShadow(i) ==
    /\ Exists(i) /\ losses < MaxLosses
    /\ losses' = losses + 1
    /\ disk' = [disk EXCEPT ![i] = Missing]
    /\ Note("meddled", TRUE)
    /\ UNCHANGED <<ftab, timers, refused, ino, call, lock, run, ended, makes, opens>>

(* rename(2) over the name, whether or not it exists. *)
Make(f) ==
    /\ makes < MaxMakes
    /\ makes' = makes + 1
    /\ disk' = [disk EXCEPT ![f] = Foreign]
    /\ Note("meddled", \/ \E i \in Index : fdes[i] # Free /\ fname[i] = f
                       \/ \E p \in Threads : call[p].file = f)
    /\ UNCHANGED <<ftab, timers, refused, ino, call, lock, run, ended, losses, opens>>

(* The process has ended, or the mutex is for ever taken, or every call has  *)
(* ended and nothing is left to open.                                        *)
Stopped ==
    /\ \/ ended \/ stuck
       \/ /\ \A p \in Threads : call[p] = Idle
          /\ opens = MaxOpens \/ \A f \in Files : ~Exists(f)
    /\ UNCHANGED vars

-----------------------------------------------------------------------------

(* What p does next in the call or the homeostat's run it is in. *)
Continue(p) ==
    \/ OpenFails(p) \/ OpenFile(p) \/ Fill(p) \/ Alive(p) \/ Clear(p)
    \/ p = Root /\ (UnlinkShadow \/ Bury \/ Relink \/ RelinkShadow)

Next ==
    \/ \E p \in Threads :
          \/ \E f \in Files, how \in {"live", "dead", "protect"} : Open(p, f, how)
          \/ \E d \in AllDescriptors : Close(p, d)
          \/ Continue(p)
    \/ \E d \in AllDescriptors : CallAlive(d) \/ Dead(d)
    \/ \E f \in Files : Unprotect(f) \/ Lose(f) \/ Make(f)
    \/ \E i \in Index : Tick(i) \/ LoseShadow(i)
    \/ Stopped

Spec == Init /\ [][Next]_vars

(* Threads go on with what they are in, and ticks keep coming. *)
Fairness ==
    /\ \A p \in Threads : WF_vars(Continue(p))
    /\ SF_vars(\E i \in Index : Tick(i))

FairSpec == Spec /\ Fairness

-----------------------------------------------------------------------------

(* Every descriptor pups_open got is in the table once, or about to be       *)
(* entered, and every slot in use has one: unless two threads were in        *)
(* pups_open at once and pups_find_free_ftab_index gave both one slot.       *)
Closing == {call[p].slot : p \in {q \in Threads : call[q].at = "clear"}}
Entering(d) == {p \in Threads : call[p].at = "opened" /\ call[p].des = d}
DescriptorsKnown ==
    "overlapped" \notin past =>
        \A d \in AllDescriptors :
            Cardinality((SlotsOf(d) \ Closing) \cup Entering(d))
                = IF ino[d] # Missing THEN 1 ELSE 0

(* The timer a live file relies on is there and looks at its slot, unless    *)
(* pups_setvitimer refused it, which pups_open does not tell its caller, or  *)
(* two timers came to have one name, and making one file dead took the       *)
(* other's.                                                                  *)
LiveServed ==
    "doubled" \notin past =>
        \A i \in Index : homeostatic[i] > 1 /\ i \notin refused =>
            \E j \in TimerIndex : vttab[j] = [name |-> hname[i], slot |-> i]

(* What the homeostat puts back under the name of a live file is the file    *)
(* that is open, as long as live files are made dead before they are closed, *)
(* others neither remove shadows nor make open files anew, and neither slots *)
(* nor timer names are given twice.                                          *)
RestoresOwn ==
    [][Relink /\ run' # run /\ past \subseteq {"bare", "refused"}
          => disk'[fname[run.slot]] = ino[fdes[run.slot]]]_vars

(* A live file that was lost comes back, unless it is closed or made dead    *)
(* first.  What may keep it from coming back: a timer that was refused or    *)
(* two of one name, which can end in a pups_clearvitimer that misses and     *)
(* stops the homeostasis of every file; and, if the homeostat ended the      *)
(* process, one of the other mishaps.                                        *)
Kept(i) ==
    /\ homeostatic[i] > 1
    /\ past \cap {"refused", "doubled"} = {} /\ (ended => past = {})
LostRestored ==
    \A i \in Index :
        Kept(i) /\ ~Exists(fname[i]) ~> Exists(fname[i]) \/ ~Kept(i)

===============================================================================
