------------------------------ MODULE ThreadTable -----------------------------
(*****************************************************************************)
(* The thread table of tadlib.c.  The root thread creates, pauses, restarts  *)
(* and cancels threads (the PSRP builtins tstart, tpause, tcont and tkill);  *)
(* a thread enters itself in the table, runs its payload and leaves by       *)
(* returning from it or by pupsthread_exit.  Pausing and cancelling send     *)
(* real-time signals, which the thread handles when it next runs: a signal   *)
(* is pending, then a handler frame on the thread's stack, and the handler   *)
(* of SIGTHREADSTOP waits in sigwait.                                        *)
(*                                                                           *)
(* Every section that holds ttab_mutex is one action.  The kernel's part:    *)
(* signals queue, the lowest number is taken first, a deliverable signal is  *)
(* taken before the thread executes on.  No thread is ever joined, so no     *)
(* pthread_t is used twice.                                                  *)
(*****************************************************************************)
EXTENDS Integers, Sequences, FiniteSets, FiniteSetsExt

CONSTANTS
    Threads,     \* the threads that may be created
    Root,        \* the root thread
    NULL,        \* tid of an empty slot
    Slots,       \* MAX_THREADS
    MaxPauses    \* bound on the calls of pupsthread_pause that signal a thread

ASSUME ThreadTableAssumption ==
    /\ IsFiniteSet(Threads)
    /\ Root \notin Threads /\ NULL \notin Threads \cup {Root}
    /\ Slots \in Nat \ {0}
    /\ MaxPauses \in Nat

VARIABLES
    tid,         \* ttab[i].tid
    state,       \* ttab[i].state
    n_threads,   \* n_threads
    root,        \* where the root thread is in pupsthread_create
    slot,        \* the slot it has got there (t_index)
    at,          \* where each thread is in its life
    found,       \* the slot a thread found itself in when it exits
    pend,        \* pending signals of each thread, counted
    frames,      \* signal handlers on each thread's stack, the innermost last
    waiting,     \* the thread is in the sigwait of its SIGTHREADSTOP handler
    pauses,      \* bound: threads paused so far
    gap,         \* history: the occupied slots have had a gap
    up           \* the server is running

table == <<tid, state, n_threads, gap>>
signals == <<pend, frames, waiting>>
vars == <<tid, state, n_threads, root, slot, at, found, pend, frames, waiting,
          pauses, gap, up>>

-----------------------------------------------------------------------------

Index == 0..(Slots - 1)
Signals == {"SIGTHREAD", "SIGTHREADSTOP", "SIGTHREADRESTART"}
Number == [SIGTHREAD |-> 9, SIGTHREADSTOP |-> 14, SIGTHREADRESTART |-> 15]
Lowest(S) == CHOOSE s \in S : \A r \in S : Number[s] <= Number[r]
NoSignals == [s \in Signals |-> 0]

Init ==
    /\ tid = [i \in Index |-> NULL] /\ state = [i \in Index |-> ""]
    /\ n_threads = 0
    /\ root = "idle" /\ slot = 0
    /\ at = [t \in Threads |-> "none"] /\ found = [t \in Threads |-> 0]
    /\ pend = [t \in Threads |-> NoSignals]
    /\ frames = [t \in Threads |-> << >>]
    /\ waiting = [t \in Threads |-> FALSE]
    /\ pauses = 0 /\ gap = FALSE /\ up = TRUE

(* Slots in use, the one promised to a thread being created included.        *)
Reserved == IF root = "idle" THEN {} ELSE {slot}
Occupied == {i \in Index : tid[i] # NULL} \cup Reserved
HasGap(I) == \E i \in I, j \in Index : j < i /\ j \notin I

(* pupsthread_find_slot, pupsthread_tid2nid. *)
InTable(t) == \E i \in Index : tid[i] = t
SlotOfMutant(t) == Min({i \in Index : tid[i] = t}) + 1      \* mutant: off by one
SlotOf(t) == Min({i \in Index : tid[i] = t})

(* The thread has not ended; it is executing its own code. *)
Live(t) == at[t] \in {"running", "leaving"}
Has(q, s) == \E k \in DOMAIN q : q[k] = s
Deliverable(t) == {s \in Signals : pend[t][s] > 0 /\ ~Has(frames[t], s)}
Free(t) == up /\ frames[t] = << >> /\ Deliverable(t) = {}

-----------------------------------------------------------------------------
(* pupsthread_create: get_slot, the rest, and the new thread's first steps,  *)
(* which the root thread waits for by sleeping ten milliseconds.  A full     *)
(* table changes nothing.                                                    *)

(* A thread that has not been created: which one makes no difference. *)
Fresh == CHOOSE t \in Threads : at[t] = "none"

GetSlot ==
    /\ up /\ root = "idle"
    /\ \E t \in Threads : at[t] = "none"
    /\ \E i \in Index : tid[i] = NULL
    /\ LET i == Min({j \in Index : tid[j] = NULL})
       IN  /\ slot' = i
           /\ n_threads' = IF i = n_threads THEN i + 1 ELSE n_threads
           /\ gap' = (gap \/ HasGap(Occupied \cup {i}))
    /\ root' = "got"
    /\ UNCHANGED <<tid, state, at, found, signals, pauses, up>>

Create ==
    /\ up /\ root = "got"
    /\ state' = [state EXCEPT ![slot] = "run"]
    /\ at' = [at EXCEPT ![Fresh] = "starting"]
    /\ root' = "sleeping"
    /\ UNCHANGED <<tid, n_threads, gap, slot, found, signals, pauses, up>>

Launch(t) ==
    /\ up /\ at[t] = "starting"
    /\ tid' = [tid EXCEPT ![slot] = t]
    /\ at' = [at EXCEPT ![t] = "running"]
    /\ root' = "idle" /\ slot' = 0
    /\ UNCHANGED <<state, n_threads, gap, found, signals, pauses, up>>

-----------------------------------------------------------------------------
(* The ends of a thread.  pthread_exit in pupsthread_launch leaves the slot  *)
(* as it is; pupsthread_exit looks the slot up and then clears it.           *)

(* pupsthread_clear_slot on each slot of I. *)
ClearCountMutant(I) ==      \* mutant: only the last slot is given back
    n_threads' = n_threads - Cardinality({i \in I : i = n_threads - 1})
ClearCount(I) == n_threads' = n_threads - Cardinality(I)
Clear(I) ==
    /\ tid' = [i \in Index |-> IF i \in I THEN NULL ELSE tid[i]]
    /\ state' = [i \in Index |-> IF i \in I THEN "" ELSE state[i]]
    /\ ClearCount(I)
    /\ gap' = (gap \/ HasGap(Occupied \ I))

(* A thread that ends takes its pending signals and its stack with it. *)
End(t, how) ==
    /\ at' = [at EXCEPT ![t] = how]
    /\ pend' = [pend EXCEPT ![t] = NoSignals]
    /\ frames' = [frames EXCEPT ![t] = << >>]
    /\ waiting' = [waiting EXCEPT ![t] = FALSE]
    /\ found' = [found EXCEPT ![t] = 0]

Return(t) ==
    /\ Free(t) /\ at[t] = "running"
    /\ End(t, "returned")
    /\ UNCHANGED <<table, root, slot, pauses, up>>

ExitFind(t) ==
    /\ Free(t) /\ at[t] = "running" /\ InTable(t)
    /\ found' = [found EXCEPT ![t] = SlotOf(t)]
    /\ at' = [at EXCEPT ![t] = "leaving"]
    /\ UNCHANGED <<table, root, slot, signals, pauses, up>>

ExitClear(t) ==
    /\ Free(t) /\ at[t] = "leaving"
    /\ Clear({found[t]})
    /\ End(t, "exited")
    /\ UNCHANGED <<root, slot, pauses, up>>

-----------------------------------------------------------------------------
(* Commands of the root thread on one thread of the table or on all.         *)

(* pthread_kill: a thread that has ended takes no signals. *)
Send(T, s) ==
    pend' = [t \in Threads |-> IF t \in T /\ Live(t)
                               THEN [pend[t] EXCEPT ![s] = @ + 1]
                               ELSE pend[t]]

Targets == {{t} : t \in {u \in Threads : InTable(u)}} \cup {{t \in Threads : InTable(t)}}
Entry(T) == {i \in Index : tid[i] \in T}

Pause(T) ==
    LET I == {i \in Entry(T) : state[i] # "pause"}
        P == {tid[i] : i \in I}
    IN  /\ P # {} /\ pauses + Cardinality(P) <= MaxPauses
        /\ pauses' = pauses + Cardinality(P)
        /\ state' = [i \in Index |-> IF i \in I THEN "pause" ELSE state[i]]
        /\ Send(P, "SIGTHREADSTOP")

ContMutant(T) ==      \* mutant: a thread that runs is restarted too
    LET I == Entry(T)
    IN  /\ I # {}
        /\ state' = [i \in Index |-> IF i \in I THEN "run" ELSE state[i]]
        /\ pend' = [t \in Threads |-> IF InTable(t) /\ t \in T /\ Live(t) /\ pend[t]["SIGTHREADRESTART"] < 2
                                      THEN [pend[t] EXCEPT !["SIGTHREADRESTART"] = @ + 1]
                                      ELSE pend[t]]
Cont(T) ==
    LET I == {i \in Entry(T) : state[i] # "run"}
    IN  /\ I # {}
        /\ state' = [i \in Index |-> IF i \in I THEN "run" ELSE state[i]]
        /\ Send({tid[i] : i \in I}, "SIGTHREADRESTART")

CancelMutant(T) ==    \* mutant: a paused thread is not signalled
    /\ Send({t \in T : \A i \in Entry({t}) : state[i] = "run"}, "SIGTHREAD")
    /\ Clear(Entry(T))
Cancel(T) ==
    /\ Send(T, "SIGTHREAD")
    /\ Clear(Entry(T))

PauseThreads ==
    /\ up /\ root = "idle"
    /\ \E T \in Targets : Pause(T)
    /\ UNCHANGED <<tid, n_threads, gap, root, slot, at, found, frames, waiting, up>>
ContThreads ==
    /\ up /\ root = "idle"
    /\ \E T \in Targets : Cont(T)
    /\ UNCHANGED <<tid, n_threads, gap, root, slot, at, found, frames, waiting, pauses, up>>
CancelThreads ==
    /\ up /\ root = "idle"
    /\ \E T \in Targets : T # {} /\ Cancel(T)
    /\ UNCHANGED <<root, slot, at, found, frames, waiting, pauses, up>>

(* pupsthread_cancel_all_other_threads empties the slots of I: its loop is   *)
(* bounded by n_threads, which every cancellation takes down.                *)
Sweeps(self, I) ==
    \A i \in Index : i \in I <=> /\ tid[i] \notin {NULL, self}
                                /\ i < n_threads - Cardinality({j \in I : j < i})

CancelAllOthers(self) ==
    /\ up
    /\ IF self = Root THEN root = "idle" ELSE Free(self) /\ at[self] = "running"
    /\ n_threads >= 0
    /\ \E I \in SUBSET Index :
          /\ I # {} /\ Sweeps(self, I)
          /\ Send({tid[i] : i \in I}, "SIGTHREAD")
          /\ Clear(I)
    /\ UNCHANGED <<root, slot, at, found, frames, waiting, pauses, up>>

(* i is unsigned: a negative n_threads sends the loop off the end of ttab.   *)
RunOff(self) ==
    /\ up
    /\ IF self = Root THEN root = "idle" ELSE Free(self) /\ at[self] = "running"
    /\ n_threads < 0
    /\ up' = FALSE
    /\ UNCHANGED <<table, root, slot, at, found, signals, pauses>>

-----------------------------------------------------------------------------
(* The thread's side of the signals. *)

(* The kernel pushes the handler of the deliverable signal with the lowest   *)
(* number; that signal is blocked until the handler returns.                 *)
Deliver(t) ==
    /\ up /\ Live(t) /\ ~waiting[t] /\ Deliverable(t) # {}
    /\ LET s == Lowest(Deliverable(t))
       IN  /\ pend' = [pend EXCEPT ![t][s] = @ - 1]
           /\ frames' = [frames EXCEPT ![t] = Append(@, s)]
    /\ UNCHANGED <<table, root, slot, at, found, waiting, pauses, up>>

Top(t) == frames[t][Len(frames[t])]
Pop(t) == SubSeq(frames[t], 1, Len(frames[t]) - 1)
Handling(t, s) ==
    /\ up /\ Live(t) /\ ~waiting[t] /\ Deliverable(t) = {}
    /\ frames[t] # << >> /\ Top(t) = s

(* att_handler *)
Terminate(t) ==
    /\ Handling(t, "SIGTHREAD")
    /\ End(t, "cancelled")
    /\ UNCHANGED <<table, root, slot, pauses, up>>

(* att_pausecont_handler on a restart that nothing waits for. *)
Spurious(t) ==
    /\ Handling(t, "SIGTHREADRESTART")
    /\ frames' = [frames EXCEPT ![t] = Pop(t)]
    /\ UNCHANGED <<table, root, slot, at, found, pend, waiting, pauses, up>>

(* att_pausecont_handler on SIGTHREADSTOP. *)
Stop(t) ==
    /\ Handling(t, "SIGTHREADSTOP")
    /\ waiting' = [waiting EXCEPT ![t] = TRUE]
    /\ UNCHANGED <<table, root, slot, at, found, pend, frames, pauses, up>>

WaitedMutant == {"SIGTHREADRESTART"}      \* mutant: a stopped thread cannot be cancelled
Waited == {"SIGTHREAD", "SIGTHREADRESTART"}

SigWait(t) ==
    /\ up /\ waiting[t]
    /\ \E s \in Waited : pend[t][s] > 0
    /\ LET s == Lowest({r \in Waited : pend[t][r] > 0})
       IN  \/ /\ s = "SIGTHREAD"
              /\ End(t, "cancelled")
           \/ /\ s = "SIGTHREADRESTART"
              /\ pend' = [pend EXCEPT ![t][s] = @ - 1]
              /\ frames' = [frames EXCEPT ![t] = Pop(t)]
              /\ waiting' = [waiting EXCEPT ![t] = FALSE]
              /\ UNCHANGED <<at, found>>
    /\ UNCHANGED <<table, root, slot, pauses, up>>

-----------------------------------------------------------------------------

Signal(t) == Deliver(t) \/ Terminate(t) \/ Spurious(t) \/ Stop(t) \/ SigWait(t)

Next ==
    \/ GetSlot \/ Create
    \/ \E t \in Threads :
          \/ Launch(t)
          \/ Return(t) \/ ExitFind(t) \/ ExitClear(t)
          \/ Deliver(t) \/ Terminate(t) \/ Spurious(t) \/ Stop(t) \/ SigWait(t)
    \/ PauseThreads \/ ContThreads \/ CancelThreads
    \/ \E self \in Threads \cup {Root} : CancelAllOthers(self) \/ RunOff(self)

Spec == Init /\ [][Next]_vars

(* A thread handles its signals: the scheduler runs every runnable thread.   *)
FairSpec == Spec /\ \A t \in Threads : WF_vars(Signal(t))

-----------------------------------------------------------------------------

(* The type of every variable. *)
TypeOK ==
    /\ tid \in [Index -> Threads \cup {NULL}]
    /\ state \in [Index -> {"", "run", "pause"}]
    /\ n_threads \in Int
    /\ root \in {"idle", "got", "sleeping"} /\ slot \in Index
    /\ at \in [Threads -> {"none", "starting", "running", "leaving",
                           "returned", "exited", "cancelled"}]
    /\ found \in [Threads -> Index]
    /\ pend \in [Threads -> [Signals -> Nat]]
    /\ frames \in [Threads -> Seq(Signals)]
    /\ waiting \in [Threads -> BOOLEAN]
    /\ pauses \in Nat /\ {gap, up} \subseteq BOOLEAN

(* SIGTHREAD has been sent to the thread. *)
Doomed(t) == pend[t]["SIGTHREAD"] > 0 \/ Has(frames[t], "SIGTHREAD")

(* A slot belongs to one thread, which has not been cancelled and has not    *)
(* left by pupsthread_exit, and every such thread that runs has one: no      *)
(* thread on its way out clears a slot that has passed to another.           *)
SlotsOfTheLiving ==
    /\ \A i, j \in Index : tid[i] = tid[j] /\ tid[i] # NULL => i = j
    /\ \A t \in Threads : Live(t) => (InTable(t) <=> ~Doomed(t))
    /\ \A t \in Threads : InTable(t) => Live(t) \/ at[t] = "returned"

(* A thread the table calls paused is stopped, or stops before it executes   *)
(* another step of its own, however pauses and restarts have raced with its  *)
(* handlers.                                                                 *)
PauseHolds ==
    \A i \in Index : state[i] = "pause" /\ tid[i] # NULL /\ Live(tid[i]) => ~Free(tid[i])

(* n_threads never exceeds the number of slots in use, and equals it as long *)
(* as the slots in use have had no gap.                                      *)
CountKnown ==
    /\ n_threads <= Cardinality(Occupied)
    /\ ~gap => n_threads = Cardinality(Occupied)

(* The cancellation has met a stop: the stop is still pending, or its        *)
(* handler runs on top of that of SIGTHREAD.                                 *)
Overtaken(t) ==
    \/ pend[t]["SIGTHREADSTOP"] > 0
    \/ \E j, k \in DOMAIN frames[t] :
          j < k /\ frames[t][j] = "SIGTHREAD" /\ frames[t][k] = "SIGTHREADSTOP"

(* Cancelled threads end, stopped or not, unless a stop was still pending.   *)
CancelledEnds == []<>(\A t \in Threads : up /\ Live(t) /\ Doomed(t) => Overtaken(t))

===============================================================================
