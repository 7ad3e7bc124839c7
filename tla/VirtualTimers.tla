---------------------------- MODULE VirtualTimers -----------------------------
(*****************************************************************************)
(* The virtual timers of utilib.c: many timers multiplexed on one SIGALRM.   *)
(* pups_setvitimer and pups_clearvitimer edit vttab, kept in order of        *)
(* priority; pups_vt_handler runs on every tick, counts the prescalers down  *)
(* and calls the payload of each timer that reaches zero.  A payload may set *)
(* and clear timers itself, and may leave with pups_sigvector (siglongjmp).  *)
(* So may psrp_handler and chan_handler, which interrupt the main line and   *)
(* run with SIGALRM blocked.                                                 *)
(*                                                                           *)
(* The kernel's part (the one-shot itimer, the pending and blocked SIGALRM,  *)
(* its disposition) is modelled: a deliverable signal is delivered before    *)
(* the program goes on, inside a call where the call unblocks it.  The exit  *)
(* path (vt_no_reset), psrp_new_segment (SIG_IGN), overlays, the resizing of *)
(* vttab and the masks of pupshold and pupsighold are left out.              *)
(*****************************************************************************)
EXTENDS Integers, Sequences, FiniteSets, FiniteSetsExt, Functions

CONSTANTS
    Names,         \* timer names
    NoName,        \* the empty name
    Slots,         \* appl_max_vtimers
    Priorities,    \* priorities the callers pass; 0, the mark of a free slot, is accepted
    Intervals,     \* intervals the callers pass
    PayloadCalls,  \* TRUE if payloads set and clear timers
    Requests,      \* TRUE if request handlers run with functions that use timers
    Jumps,         \* TRUE if payloads and requests may be left by pups_sigvector
    Misses,        \* TRUE if timers that do not exist are cleared
    MaxDepth,      \* bound on handler runs on the stack: the innermost calls nothing
    MaxStray       \* bound on the odd calls, as Odd counts them

ASSUME VirtualTimersAssumption ==
    /\ NoName \notin Names
    /\ Slots \in Nat \ {0}
    /\ Priorities \subseteq Nat
    /\ Intervals \subseteq Nat \ {0}
    /\ {PayloadCalls, Requests, Jumps, Misses} \subseteq BOOLEAN
    /\ MaxDepth \in Nat \ {0} /\ MaxStray \in Nat

VARIABLES
    vttab,     \* the timers, by slot
    active,    \* active_v_timers
    start,     \* start_index
    inVt,      \* in_vt_handler
    frames,    \* handler runs on the stack: slot reached, payload running
    request,   \* a request handler runs, below those frames
    held,      \* SIGALRM was blocked when the request handler was entered
    owed,      \* stack levels where a pups_setvitimer has unblocked SIGALRM, was
               \* interrupted there, and has yet to arm the alarm
    armed,     \* the interval timer is running
    pending,   \* SIGALRM is pending
    blocked,   \* SIGALRM is blocked
    disp,      \* disposition of SIGALRM
    killed,    \* SIGALRM met its default disposition
    stray,     \* history: VT_ONESHOT calls with priority 0, less clears of unused slots
    lost,      \* history: the last clear outside payloads missed, no alarm set since
    quiet,     \* history: no payload called a timer function or jumped
    careless   \* history: a call that KilledByMisuse names

stack == <<start, inVt, frames, request, held>>
vars == <<vttab, active, start, inVt, frames, request, held, owed, armed, pending,
          blocked, disp, killed, stray, lost, quiet, careless>>

-----------------------------------------------------------------------------

Index == 0..(Slots - 1)

(* age counts the ticks since a timer with a priority was set or last fired, *)
(* while quiet (history).                                                    *)
Empty == [name |-> NoName, priority |-> 0, prescaler |-> 0, interval |-> 0,
          handler |-> FALSE, age |-> 0]

(* What active_v_timers counts: a slot with a timer, or with the priority    *)
(* that a failed VT_ONESHOT call left.                                       *)
InUse(t) == t.priority > 0 \/ t.handler

Init ==
    /\ vttab = [i \in Index |-> Empty]
    /\ active = 0 /\ start = 0 /\ inVt = FALSE /\ frames = << >>
    /\ request = FALSE /\ held = FALSE /\ owed = {}
    /\ armed = FALSE /\ pending = FALSE /\ blocked = FALSE /\ disp = "default"
    /\ killed = FALSE /\ stray = 0 /\ lost = FALSE /\ quiet = TRUE /\ careless = FALSE

Top == frames[Len(frames)]
SetTop(f) == frames' = [frames EXCEPT ![Len(frames)] = f]
InPayload == frames # << >> /\ Top.payload

(* The level of the stack that runs: the main line is 0. *)
Level == Len(frames) + (IF request THEN 1 ELSE 0)

(* No signal comes before the program's next step. *)
Undisturbed == ~killed /\ ~(pending /\ ~blocked)

(* The program runs its own code: in the main line, in a request handler or  *)
(* in a payload that may call the timer functions.                           *)
Running ==
    /\ Undisturbed /\ Level \notin owed
    /\ frames = << >> \/ (PayloadCalls /\ InPayload /\ Len(frames) < MaxDepth)

Noted == quiet' = (quiet /\ frames = << >>)

(* The first slot without a handler, or Slots. *)
FirstFree == Min({i \in Index : ~vttab[i].handler} \cup {Slots})

(* Names are compared only up to the first free slot, that slot included: no *)
(* timer gets the empty name.                                                *)
Duplicate(n) == \E i \in Index : i <= FirstFree /\ vttab[i].name = n

(* qsort by descending priority, in no particular order among equals. *)
Orders == Bijection(Index, Index)
Sorted(t) ==
    {s \in {[i \in Index |-> t[p[i]]] : p \in Orders} :
        \A i, j \in Index : i < j => s[i].priority >= s[j].priority}

(* pups_setvitimer ends by unblocking SIGALRM and then arming the interval   *)
(* timer, whether it succeeded or not.  A tick that waits is delivered       *)
(* between the two.                                                          *)
Arm(running, tick) ==
    /\ blocked' = FALSE /\ lost' = FALSE
    /\ IF tick
       THEN pending' = TRUE /\ armed' = running /\ owed' = owed \cup {Level}
       ELSE armed' = TRUE /\ UNCHANGED <<pending, owed>>

(* pups_vitrestart has armed it in the call: that tick may come as early.    *)
ArmAfterInstall == Arm(active = 0, pending) \/ (active = 0 /\ Arm(FALSE, TRUE))

(* pups_malarm on its own. *)
Malarm ==
    /\ armed' = TRUE
    /\ lost' = (lost /\ blocked)
    /\ careless' = (careless \/ blocked \/ disp = "default")

(* pups_vitrestart as pups_setvitimer calls it. *)
InstallMutant == UNCHANGED <<disp, inVt>>       \* mutant: handler not installed
Install ==
    IF active = 0
    THEN disp' = "vt_handler" /\ inVt' = FALSE
    ELSE UNCHANGED <<disp, inVt>>

-----------------------------------------------------------------------------
(* pups_setvitimer *)

(* Timers with priority 0 and half-filled slots, calls with priority 0 that  *)
(* left nothing, and clears of unused slots.                                 *)
Odd ==
    Cardinality({i \in Index : InUse(vttab[i])
                                  /\ (vttab[i].priority = 0 \/ ~vttab[i].handler)})
        + (IF stray < 0 THEN -stray ELSE stray)

SetTimer(n, p, v) ==
    /\ Running /\ Noted /\ ~Duplicate(n) /\ FirstFree < Slots
    /\ Install
    /\ active' = active + (IF vttab[FirstFree].priority = 0 THEN 1 ELSE 0)
    /\ vttab' \in Sorted([vttab EXCEPT ![FirstFree] =
           [name |-> n, priority |-> p, prescaler |-> v, interval |-> v,
            handler |-> TRUE, age |-> 0]])
    /\ ArmAfterInstall
    /\ UNCHANGED <<start, frames, request, held, killed, stray, careless>>
    /\ Odd' <= MaxStray

(* VT_ONESHOT: the slot is counted and given its priority, then the call     *)
(* fails, before the fields are filled in and the table is sorted.           *)
SetOneShot(n, p) ==
    /\ Running /\ Noted /\ ~Duplicate(n) /\ FirstFree < Slots
    /\ Install
    /\ active' = active + (IF vttab[FirstFree].priority = 0 THEN 1 ELSE 0)
    /\ vttab' = [vttab EXCEPT ![FirstFree].priority = p]
    /\ stray' = stray + (IF p = 0 THEN 1 ELSE 0)
    /\ ArmAfterInstall
    /\ UNCHANGED <<start, frames, request, held, killed, careless>>
    /\ Odd' <= MaxStray

(* EEXIST or ENOSPC, or a mode or an interval that is refused. *)
SetRefused ==
    /\ Running /\ Noted
    /\ Arm(FALSE, pending)
    /\ careless' = (careless \/ disp = "default")
    /\ UNCHANGED <<vttab, active, stack, disp, killed, stray>>

-----------------------------------------------------------------------------
(* pups_clearvitimer, which also takes the empty name: of a slot not in use  *)
(* or half filled.                                                           *)

(* The first slot with the name. *)
Named(n, i) == vttab[i].name = n /\ \A j \in Index : j < i => vttab[j].name # n

ClearTimerMutant(n) ==                          \* mutant: active_v_timers kept
    /\ Running /\ Noted
    /\ \E i \in Index : Named(n, i) /\ vttab' = [vttab EXCEPT ![i] = Empty]
    /\ armed' = TRUE /\ blocked' = FALSE /\ lost' = FALSE
    /\ UNCHANGED <<active, stack, owed, pending, disp, killed, stray, careless>>

ClearTimer(n) ==
    /\ Running /\ Noted
    /\ \E i \in Index :
        /\ Named(n, i) /\ vttab' = [vttab EXCEPT ![i] = Empty]
        /\ stray' = stray - (IF InUse(vttab[i]) THEN 0 ELSE 1)
    /\ Odd' <= MaxStray
    /\ active' = active - 1
    /\ armed' = (active > 1)
    /\ disp' = IF active > 1 THEN disp ELSE "default"
    /\ blocked' = FALSE
    /\ lost' = FALSE
    /\ careless' = (careless \/ stray' < stray \/ (request /\ frames = << >> /\ blocked))
    /\ UNCHANGED <<stack, owed, pending, killed>>

(* ESRCH: the interval timer stays off and SIGALRM stays blocked. *)
ClearMiss(n) ==
    /\ Misses /\ Running /\ Noted
    /\ \A i \in Index : vttab[i].name # n
    /\ armed' = FALSE /\ blocked' = TRUE
    /\ lost' = (lost \/ frames = << >>)
    /\ careless' = TRUE
    /\ UNCHANGED <<vttab, active, stack, owed, pending, disp, killed, stray>>

-----------------------------------------------------------------------------

(* pups_vitrestart called by the application. *)
Restart ==
    /\ Running /\ Noted /\ active > 0
    /\ disp' = "vt_handler" /\ inVt' = FALSE
    /\ armed' = TRUE
    /\ lost' = (lost /\ blocked)
    /\ careless' = (careless \/ blocked)
    /\ UNCHANGED <<vttab, active, start, frames, request, held, owed, pending, blocked, killed, stray>>

(* pups_malarm called by other functions: the quantum command of a request,  *)
(* pups_process_homeostat_enable, the checkpoint homeostat, and the like.    *)
SetQuantum ==
    /\ Running /\ Noted
    /\ Malarm
    /\ UNCHANGED <<vttab, active, stack, owed, pending, blocked, disp, killed, stray>>

(* An interrupted pups_setvitimer goes on. *)
Rearm ==
    /\ Undisturbed /\ Level \in owed
    /\ owed' = owed \ {Level}
    /\ Malarm
    /\ UNCHANGED <<vttab, active, stack, pending, blocked, disp, killed, stray, quiet>>

-----------------------------------------------------------------------------
(* psrp_handler and chan_handler *)

(* One that comes inside a timer function, where only SIGALRM is blocked, is *)
(* left out.                                                                 *)
BeginRequest ==
    /\ Requests /\ Undisturbed /\ frames = << >> /\ ~request /\ owed = {}
    /\ request' = TRUE /\ held' = blocked /\ blocked' = TRUE
    /\ UNCHANGED <<vttab, active, start, inVt, frames, owed, armed, pending, disp,
                   killed, stray, lost, quiet, careless>>

(* The kernel restores the mask of the main line. *)
EndRequest ==
    /\ Undisturbed /\ frames = << >> /\ request /\ Level \notin owed
    /\ request' = FALSE /\ held' = FALSE /\ blocked' = held
    /\ lost' = (lost \/ held)
    /\ UNCHANGED <<vttab, active, start, inVt, frames, owed, armed, pending, disp,
                   killed, stray, quiet, careless>>

(* The client's SIGABRT, or the homeostat's payload that finds the client    *)
(* gone: psrp_handler lands with SIGALRM blocked, calls pups_malarm and ends.*)
Abort ==
    /\ Jumps /\ request /\ ~killed /\ (frames = << >> \/ InPayload)
    /\ frames' = << >> /\ inVt' = FALSE
    /\ request' = FALSE /\ held' = FALSE
    /\ owed' = owed \cap {0}
    /\ armed' = TRUE /\ blocked' = held /\ lost' = held
    /\ quiet' = (quiet /\ frames = << >>)
    /\ careless' = (careless \/ pending \/ disp = "default")
    /\ UNCHANGED <<vttab, active, start, pending, disp, killed, stray>>

-----------------------------------------------------------------------------
(* The kernel *)

Tick ==
    /\ ~killed /\ armed
    /\ armed' = FALSE /\ pending' = TRUE
    /\ UNCHANGED <<vttab, active, stack, owed, blocked, disp, killed, stray, lost, quiet, careless>>

Kill ==
    /\ ~killed /\ pending /\ ~blocked /\ disp = "default"
    /\ killed' = TRUE /\ pending' = FALSE
    /\ UNCHANGED <<vttab, active, stack, owed, armed, blocked, disp, stray, lost, quiet, careless>>

-----------------------------------------------------------------------------
(* pups_vt_handler *)

Deliverable == ~killed /\ pending /\ ~blocked /\ disp = "vt_handler"

(* SIGALRM during a run of the handler: nothing is done. *)
Ignore ==
    /\ Deliverable /\ inVt
    /\ pending' = FALSE
    /\ UNCHANGED <<vttab, active, stack, owed, armed, blocked, disp, killed, stray, lost, quiet, careless>>

Older(t) ==
    [t EXCEPT !.age = IF quiet /\ t.handler /\ t.priority > 0
                      THEN @ + (IF @ <= t.interval THEN 1 ELSE 0) ELSE 0]

Enter ==
    /\ Deliverable /\ ~inVt
    /\ pending' = FALSE /\ blocked' = TRUE /\ inVt' = TRUE
    /\ frames' = Append(frames, [at |-> start, payload |-> FALSE])
    /\ vttab' = [i \in Index |-> Older(vttab[i])]
    /\ UNCHANGED <<active, request, held, owed, start, armed, disp, killed, stray,
                   lost, quiet, careless>>

InLoop ==
    /\ ~killed /\ ~Deliverable
    /\ frames # << >> /\ ~Top.payload

(* --prescaler; below zero it only goes on falling. *)
CountDown(x) == IF x > 0 THEN x - 1 ELSE -1

(* A slot whose timer is unused or not due. *)
Pass ==
    /\ InLoop /\ Top.at < Slots
    /\ LET i == Top.at
           x == CountDown(vttab[i].prescaler)
       IN  /\ vttab[i].priority > 0 => x # 0
           /\ vttab' = IF vttab[i].priority > 0
                       THEN [vttab EXCEPT ![i].prescaler = x] ELSE vttab
           /\ SetTop([at |-> i + 1, payload |-> FALSE])
    /\ UNCHANGED <<active, request, held, owed, start, inVt, armed, pending, blocked,
                   disp, killed, stray, lost, quiet, careless>>

(* A continuous timer is due: it is reloaded and its payload is called. *)
Fire ==
    /\ InLoop /\ Top.at < Slots
    /\ LET i == Top.at
       IN  /\ vttab[i].priority > 0 /\ CountDown(vttab[i].prescaler) = 0
           /\ vttab' = [vttab EXCEPT ![i].prescaler = vttab[i].interval, ![i].age = 0]
           /\ start' = IF i < Slots - 1 THEN i ELSE start
           /\ SetTop([at |-> i, payload |-> TRUE])
    /\ UNCHANGED <<active, request, held, owed, inVt, armed, pending, blocked, disp,
                   killed, stray, lost, quiet, careless>>

PayloadReturns ==
    /\ ~killed /\ ~Deliverable /\ InPayload /\ Level \notin owed
    /\ SetTop([at |-> Top.at + 1, payload |-> FALSE])
    /\ UNCHANGED <<vttab, active, request, held, owed, start, inVt, armed, pending,
                   blocked, disp, killed, stray, lost, quiet, careless>>

LeaveMutant ==                                   \* mutant: the alarm is not re-armed
    /\ InLoop /\ Top.at = Slots
    /\ start' = 0 /\ inVt' = FALSE /\ blocked' = FALSE
    /\ frames' = SubSeq(frames, 1, Len(frames) - 1)
    /\ UNCHANGED <<vttab, active, request, held, owed, armed, pending, disp, killed,
                   stray, lost, quiet, careless>>

LeaveMutant2 ==                                  \* mutant: start_index is kept
    /\ InLoop /\ Top.at = Slots
    /\ armed' = (armed \/ active > 0)
    /\ inVt' = FALSE /\ blocked' = FALSE
    /\ frames' = SubSeq(frames, 1, Len(frames) - 1)
    /\ UNCHANGED <<vttab, active, request, held, owed, start, pending, disp, killed,
                   stray, lost, quiet, careless>>

Leave ==
    /\ InLoop /\ Top.at = Slots
    /\ start' = 0
    /\ armed' = (armed \/ active > 0)
    /\ inVt' = FALSE /\ blocked' = FALSE
    /\ frames' = SubSeq(frames, 1, Len(frames) - 1)
    /\ UNCHANGED <<vttab, active, request, held, owed, pending, disp, killed, stray,
                   lost, quiet, careless>>

(* pups_sigvector in a payload of the psrp client, which lands in its main   *)
(* loop: restore_system_status empties the mask and calls pups_vitrestart.   *)
JumpMutant ==                                    \* mutant: landing does not re-arm
    /\ Jumps /\ ~killed /\ ~Deliverable /\ InPayload
    /\ frames' = << >> /\ inVt' = FALSE /\ blocked' = FALSE
    /\ request' = FALSE /\ held' = FALSE /\ owed' = {}
    /\ lost' = FALSE /\ quiet' = FALSE
    /\ UNCHANGED <<vttab, active, start, armed, pending, disp, killed, stray, careless>>

Jump ==
    /\ Jumps /\ ~killed /\ ~Deliverable /\ InPayload
    /\ frames' = << >> /\ inVt' = FALSE /\ blocked' = FALSE
    /\ request' = FALSE /\ held' = FALSE /\ owed' = {}
    /\ armed' = (armed \/ active > 0)
    /\ disp' = IF active > 0 THEN "vt_handler" ELSE disp
    /\ lost' = FALSE /\ quiet' = FALSE
    /\ UNCHANGED <<vttab, active, start, pending, killed, stray, careless>>

-----------------------------------------------------------------------------

Handler == Ignore \/ Enter \/ Pass \/ Fire \/ PayloadReturns \/ Leave

Dead == killed /\ UNCHANGED vars

Next ==
    \/ \E n \in Names, p \in Priorities, v \in Intervals : SetTimer(n, p, v)
    \/ \E n \in Names, p \in Priorities : SetOneShot(n, p)
    \/ SetRefused
    \/ \E n \in Names \cup {NoName} : ClearTimer(n) \/ ClearMiss(n)
    \/ Restart \/ SetQuantum \/ Rearm
    \/ BeginRequest \/ EndRequest \/ Abort
    \/ Tick \/ Kill \/ Handler \/ Jump
    \/ Dead

Spec == Init /\ [][Next]_vars

(* The clock ticks, and the program goes on: signals are delivered to it,    *)
(* and its handlers, payloads and requests end.                              *)
Run == Handler \/ Rearm \/ EndRequest
Fairness == WF_vars(Tick) /\ WF_vars(Run)

FairSpec == Spec /\ Fairness

-----------------------------------------------------------------------------

Slot == [name: Names \cup {NoName}, priority: Priorities \cup {0},
         prescaler: Nat \cup {-1}, interval: Intervals \cup {0},
         handler: BOOLEAN, age: Nat]

(* Types of the variables. *)
TypeOK ==
    /\ vttab \in [Index -> Slot]
    /\ stray \in -MaxStray..MaxStray /\ active \in -MaxStray..(Slots + MaxStray)
    /\ start \in Index
    /\ frames \in Seq([at: 0..Slots, payload: BOOLEAN]) /\ Len(frames) <= MaxDepth
    /\ owed \subseteq 0..MaxDepth
    /\ disp \in {"default", "vt_handler"}
    /\ {inVt, request, held, armed, pending, blocked, killed, lost, quiet, careless}
           \subseteq BOOLEAN

(* active_v_timers counts the timers, the ones with priority 0 that are      *)
(* never served included, and the slots that failed VT_ONESHOT calls left    *)
(* with a priority; beyond them only such calls with priority 0, which leave *)
(* nothing behind, and clears that took an unused slot for the empty name.   *)
(* So it stays, whoever edits the table and wherever the handler is.         *)
ActiveCount == active = Cardinality({i \in Index : InUse(vttab[i])}) + stray

(* While timers are active and neither the handler nor a request runs, the   *)
(* next tick is on its way and will find the handler ready, whether the last *)
(* run of the handler ended or a payload jumped out of it, and whatever the  *)
(* last request did to the timers or the mask.  Only a clear that missed     *)
(* breaks it.                                                                *)
AlarmKept ==
    ~killed /\ frames = << >> /\ ~request /\ active > 0 /\ ~lost
        => /\ armed \/ pending \/ 0 \in owed
           /\ ~blocked /\ disp = "vt_handler" /\ ~inVt

(* SIGALRM kills the program only after one of these calls:                  *)
(*   - one that arms the alarm though the handler is not installed: a        *)
(*     refused pups_setvitimer, an aborted request, a pups_malarm of another *)
(*     function, a pups_setvitimer interrupted by a tick whose payload       *)
(*     clears the last timer;                                                *)
(*   - one that arms it while SIGALRM is blocked (pups_vitrestart, a         *)
(*     pups_malarm) or a tick waits (an aborted request): two ticks then     *)
(*     follow each other;                                                    *)
(*   - a pups_clearvitimer in a request handler before SIGALRM was unblocked *)
(*     there: a tick may wait for the mask and meet SIG_DFL;                 *)
(*   - a pups_clearvitimer that misses and leaves SIGALRM blocked, or that   *)
(*     takes an unused slot for the empty name and counts it down.           *)
KilledByMisuse == killed => careless

(* A payload is called only from a slot that still has a handler: a slot     *)
(* left half filled by a failed VT_ONESHOT call never becomes due.  As long  *)
(* as payloads leave the timers alone and return, a timer fires exactly when *)
(* its interval has passed, whatever is set or cleared between two ticks.    *)
FiresOnTime ==
    [][\A i \in Index : Fire /\ Top.at = i =>
           vttab[i].handler /\ (quiet => vttab[i].age = vttab[i].interval)]_vars

(* An active timer is served again or cleared: the main line, payloads and   *)
(* requests that set, clear or are jumped out of, and ticks that come while  *)
(* the handler runs never stop the clock.  A missed clear does.              *)
ServedUnlessLost ==
    active > 0 /\ frames = << >> ~> frames # << >> \/ active <= 0 \/ killed \/ lost

===============================================================================
