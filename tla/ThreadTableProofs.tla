--------------------------- MODULE ThreadTableProofs --------------------------
(* Theorems about ThreadTable, for any number of threads, slots and pauses.  *)
EXTENDS ThreadTable, FiniteSetTheorems, SequenceTheorems, WellFoundedInduction, TLAPS

(* The slot promised by pupsthread_get_slot stays free until the new thread  *)
(* enters itself in it, and at most one thread is on its way there.          *)
CreateOK ==
    /\ root # "idle" => tid[slot] = NULL
    /\ root = "got" => \E t \in Threads : at[t] = "none"
    /\ root = "sleeping" => state[slot] = "run"
    /\ \A t \in Threads : at[t] = "starting" => root = "sleeping"
    /\ \A t, u \in Threads : at[t] = "starting" /\ at[u] = "starting" => t = u

(* A thread that does not run has no signals. *)
Quiet ==
    \A t \in Threads : ~Live(t) => pend[t] = NoSignals /\ frames[t] = << >> /\ ~waiting[t]

(* A signal has one handler at most on a stack, and sigwait is called on top *)
(* of that of SIGTHREADSTOP.                                                 *)
Stack ==
    \A t \in Threads :
        /\ \A j, k \in DOMAIN frames[t] : frames[t][j] = frames[t][k] => j = k
        /\ waiting[t] => frames[t] # << >> /\ Top(t) = "SIGTHREADSTOP"

(* A thread that has looked its slot up still owns it, unless cancelled. *)
LeavingKnows ==
    \A t \in Threads : at[t] = "leaving" => tid[found[t]] = t \/ Doomed(t)

(* Stops not yet waited out outnumber the restarts on their way, by one at   *)
(* least where the table says "pause".                                       *)
Stopping(t) == IF Has(frames[t], "SIGTHREADSTOP") THEN 1 ELSE 0
Debt(t) == pend[t]["SIGTHREADSTOP"] + Stopping(t) - pend[t]["SIGTHREADRESTART"]
Balance ==
    \A i \in Index, t \in Threads : tid[i] = t =>
        /\ state[i] \in {"run", "pause"}
        /\ Live(t) => Debt(t) >= (IF state[i] = "pause" THEN 1 ELSE 0)

GapKnown == ~gap => ~HasGap(Occupied)

IInv ==
    /\ TypeOK /\ CreateOK /\ Quiet /\ Stack
    /\ SlotsOfTheLiving /\ LeavingKnows /\ Balance
    /\ GapKnown /\ CountKnown

-----------------------------------------------------------------------------
(* Minima, signals and stacks. *)

LEMMA MinIndex ==
    ASSUME NEW S, S \subseteq Index, S # {}
    PROVE  Min(S) \in S /\ \A y \in S : Min(S) <= y
  <1>1. S \subseteq Nat
    BY ThreadTableAssumption DEF ThreadTableAssumption, Index
  <1>2. PICK x \in S : \A y \in S : <<y, x>> \notin OpToRel(<, Nat)
    BY <1>1, NatLessThanWellFounded, WFMin, Zenon
  <1>3. \A y \in S : x <= y
    <2> SUFFICES ASSUME NEW y \in S PROVE x <= y
      OBVIOUS
    <2>1. x \in Nat /\ y \in Nat
      BY <1>1
    <2>2. ~(y < x)
      BY <1>2, <2>1 DEF OpToRel
    <2> QED
      BY <2>1, <2>2
  <1> QED
    BY <1>3 DEF Min

LEMMA LowestIn ==
    ASSUME NEW S, S \subseteq Signals, S # {}
    PROVE  Lowest(S) \in S
  <1> DEFINE Least(s) == s \in S /\ \A r \in S : Number[s] <= Number[r]
  <1>0. /\ Number["SIGTHREAD"] = 9 /\ Number["SIGTHREADSTOP"] = 14
        /\ Number["SIGTHREADRESTART"] = 15
    BY DEF Number
  <1>a. \A r \in S : r \in {"SIGTHREAD", "SIGTHREADSTOP", "SIGTHREADRESTART"}
    BY DEF Signals
  <1>1. \E s : Least(s)
    <2>1. CASE "SIGTHREAD" \in S
      <3>1. Least("SIGTHREAD")
        BY <1>0, <1>a, <2>1
      <3> QED
        BY <3>1
    <2>2. CASE "SIGTHREAD" \notin S /\ "SIGTHREADSTOP" \in S
      <3>1. Least("SIGTHREADSTOP")
        BY <1>0, <1>a, <2>2
      <3> QED
        BY <3>1
    <2>3. CASE "SIGTHREAD" \notin S /\ "SIGTHREADSTOP" \notin S
      <3>1. Least("SIGTHREADRESTART")
        BY <1>0, <1>a, <2>3
      <3> QED
        BY <3>1
    <2> QED
      BY <2>1, <2>2, <2>3
  <1> QED
    BY <1>1 DEF Lowest

LEMMA Push ==
    ASSUME NEW q \in Seq(Signals), NEW s \in Signals
    PROVE  /\ Append(q, s) \in Seq(Signals) /\ Append(q, s) # << >>
           /\ \A r : Has(Append(q, s), r) <=> Has(q, r) \/ r = s
  <1>1. Append(q, s) \in Seq(Signals) /\ Append(q, s) # << >> /\ Len(Append(q, s)) = Len(q) + 1
    BY AppendProperties
  <1>2. DOMAIN Append(q, s) = DOMAIN q \cup {Len(q) + 1}
    OBVIOUS
  <1>3. \A k \in DOMAIN q : Append(q, s)[k] = q[k]
    OBVIOUS
  <1>4. Append(q, s)[Len(q) + 1] = s
    OBVIOUS
  <1> QED
    BY <1>1, <1>2, <1>3, <1>4 DEF Has

LEMMA PopStack ==
    ASSUME NEW q \in Seq(Signals), q # << >>,
           \A j, k \in DOMAIN q : q[j] = q[k] => j = k
    PROVE  LET p == SubSeq(q, 1, Len(q) - 1)
           IN  /\ p \in Seq(Signals)
               /\ \A j, k \in DOMAIN p : p[j] = p[k] => j = k
               /\ \A r : Has(p, r) <=> Has(q, r) /\ r # q[Len(q)]
  <1> DEFINE p == SubSeq(q, 1, Len(q) - 1)
  <1>1. Len(q) \in Nat /\ Len(q) >= 1 /\ DOMAIN q = 1..Len(q)
    OBVIOUS
  <1>2. p \in Seq(Signals) /\ DOMAIN p = 1..(Len(q) - 1)
    BY <1>1
  <1>3. \A k \in DOMAIN p : k \in DOMAIN q /\ k # Len(q) /\ p[k] = q[k]
    BY <1>1, <1>2
  <1>4. \A k \in DOMAIN q : k # Len(q) => k \in DOMAIN p
    BY <1>1, <1>2
  <1>5. Len(q) \in DOMAIN q
    BY <1>1
  <1> HIDE DEF p
  <1>6. \A j, k \in DOMAIN p : p[j] = p[k] => j = k
    BY <1>3
  <1>7. \A r : Has(p, r) <=> Has(q, r) /\ r # q[Len(q)]
    BY <1>3, <1>4, <1>5 DEF Has
  <1> QED
    BY <1>2, <1>6, <1>7 DEF p

-----------------------------------------------------------------------------
(* Type correctness. *)

LEMMA TypeInit == Init => TypeOK
  <1> SUFFICES ASSUME Init PROVE TypeOK
    OBVIOUS
  <1>1. 0 \in Index
    BY ThreadTableAssumption DEF ThreadTableAssumption, Index
  <1>2. NoSignals \in [Signals -> Nat]
    BY DEF NoSignals
  <1>3. << >> \in Seq(Signals)
    OBVIOUS
  <1>4. tid \in [Index -> Threads \cup {NULL}] /\ state \in [Index -> {"", "run", "pause"}]
    BY DEF Init
  <1>5. pend \in [Threads -> [Signals -> Nat]]
    BY <1>2 DEF Init
  <1>6. frames \in [Threads -> Seq(Signals)]
    BY <1>3 DEF Init
  <1>7. /\ found \in [Threads -> Index] /\ waiting \in [Threads -> BOOLEAN]
        /\ at \in [Threads -> {"none"}]
    BY <1>1 DEF Init
  <1>8. at \in [Threads -> {"none", "starting", "running", "leaving",
                           "returned", "exited", "cancelled"}]
    BY <1>7
  <1>9. n_threads = 0 /\ slot = 0 /\ pauses = 0 /\ root = "idle"
    BY DEF Init
  <1>10. gap \in BOOLEAN /\ up \in BOOLEAN
    BY DEF Init
  <1> QED
    <2>1. n_threads \in Int /\ slot \in Index /\ pauses \in Nat
      BY <1>1, <1>9
    <2>2. {gap, up} \subseteq BOOLEAN
      BY <1>10, Zenon
    <2> QED
      BY <1>4, <1>5, <1>6, <1>7, <1>8, <1>9, <2>1, <2>2 DEF TypeOK

LEMMA EndType ==
    ASSUME TypeOK, NEW t \in Threads, NEW how \in {"returned", "exited", "cancelled"},
           End(t, how)
    PROVE  /\ at' \in [Threads -> {"none", "starting", "running", "leaving",
                                  "returned", "exited", "cancelled"}]
           /\ found' \in [Threads -> Index]
           /\ pend' \in [Threads -> [Signals -> Nat]]
           /\ frames' \in [Threads -> Seq(Signals)]
           /\ waiting' \in [Threads -> BOOLEAN]
  <1>1. 0 \in Index
    BY ThreadTableAssumption DEF ThreadTableAssumption, Index
  <1>2. NoSignals \in [Signals -> Nat]
    BY DEF NoSignals
  <1>3. << >> \in Seq(Signals)
    OBVIOUS
  <1> QED
    BY <1>1, <1>2, <1>3 DEF End, TypeOK

LEMMA PopType ==
    ASSUME TypeOK, NEW t \in Threads
    PROVE  Pop(t) \in Seq(Signals)
  <1>0. frames[t] \in Seq(Signals)
    BY DEF TypeOK
  <1>1. Len(frames[t]) \in Nat
    BY <1>0
  <1>2. \A k \in 1..(Len(frames[t]) - 1) : frames[t][k] \in Signals
    BY <1>0, <1>1
  <1> QED
    BY <1>1, <1>2, SubSeqProperties DEF Pop

LEMMA SendType ==
    ASSUME TypeOK, NEW T, NEW s \in Signals, Send(T, s)
    PROVE  pend' \in [Threads -> [Signals -> Nat]]
  <1>1. ASSUME NEW t \in Threads PROVE [pend[t] EXCEPT ![s] = @ + 1] \in [Signals -> Nat]
    <2>1. pend[t] \in [Signals -> Nat]
      BY DEF TypeOK
    <2> QED
      BY <2>1
  <1> QED
    BY <1>1 DEF Send, TypeOK

LEMMA ClearType ==
    ASSUME TypeOK, NEW I, I \subseteq Index, Clear(I)
    PROVE  /\ tid' \in [Index -> Threads \cup {NULL}]
           /\ state' \in [Index -> {"", "run", "pause"}]
           /\ n_threads' \in Int
           /\ gap' \in BOOLEAN
  <1>1. IsFiniteSet(Index)
    BY ThreadTableAssumption, FS_Interval DEF ThreadTableAssumption, Index
  <1>2. Cardinality(I) \in Nat
    BY <1>1, FS_Subset, FS_CardinalityType
  <1>3. gap' \in BOOLEAN
    BY DEF Clear, TypeOK, HasGap
  <1>4. n_threads' \in Int
    <2>1. n_threads \in Int
      BY DEF TypeOK
    <2>2. n_threads' = n_threads - Cardinality(I)
      BY DEF Clear, ClearCount
    <2> QED
      BY <1>2, <2>1, <2>2
  <1>5. tid' \in [Index -> Threads \cup {NULL}] /\ state' \in [Index -> {"", "run", "pause"}]
    BY DEF Clear, TypeOK
  <1> QED
    BY <1>3, <1>4, <1>5

LEMMA TypeNext == TypeOK /\ [Next]_vars => TypeOK'
  <1> SUFFICES ASSUME TypeOK, [Next]_vars PROVE TypeOK'
    OBVIOUS
  <1> USE DEF table, signals
  <1>0. 0 \in Index
    BY ThreadTableAssumption DEF ThreadTableAssumption, Index
  <1>1. CASE GetSlot
    <2> DEFINE i == Min({j \in Index : tid[j] = NULL})
    <2>1. i \in Index
      BY <1>1, MinIndex DEF GetSlot
    <2>2. i + 1 \in Int
      BY <2>1, ThreadTableAssumption DEF ThreadTableAssumption, Index
    <2>3. gap' \in BOOLEAN
      BY <1>1 DEF GetSlot, TypeOK, HasGap
    <2> QED
      BY <1>1, <2>1, <2>2, <2>3 DEF GetSlot, TypeOK
  <1>2. CASE Create
    BY <1>2 DEF Create, TypeOK
  <1>3. ASSUME NEW t \in Threads, Launch(t) PROVE TypeOK'
    BY <1>0, <1>3 DEF Launch, TypeOK
  <1>4. ASSUME NEW t \in Threads, Return(t) PROVE TypeOK'
    BY <1>4, EndType DEF Return, TypeOK
  <1>5. ASSUME NEW t \in Threads, ExitFind(t) PROVE TypeOK'
    <2>1. SlotOf(t) \in Index
      BY <1>5, MinIndex DEF ExitFind, InTable, SlotOf
    <2> QED
      BY <1>5, <2>1 DEF ExitFind, TypeOK
  <1>6. ASSUME NEW t \in Threads, ExitClear(t) PROVE TypeOK'
    <2>1. {found[t]} \subseteq Index
      <3>1. found \in [Threads -> Index]
        BY DEF TypeOK
      <3> QED
        BY <3>1
    <2> QED
      BY <1>6, <2>1, EndType, ClearType DEF ExitClear, TypeOK
  <1>7. ASSUME NEW t \in Threads, Deliver(t) PROVE TypeOK'
    <2> DEFINE s == Lowest(Deliverable(t))
    <2>1. s \in Deliverable(t) /\ s \in Signals
      BY <1>7, LowestIn DEF Deliver, Deliverable
    <2>4. /\ pend' = [pend EXCEPT ![t] = [pend[t] EXCEPT ![s] = pend[t][s] - 1]]
          /\ frames' = [frames EXCEPT ![t] = Append(frames[t], s)]
      BY <1>7 DEF Deliver
    <2> HIDE DEF s
    <2>a. pend[t] \in [Signals -> Nat] /\ frames[t] \in Seq(Signals)
      BY DEF TypeOK
    <2>2. pend[t][s] - 1 \in Nat
      <3>1. pend[t][s] > 0
        BY <2>1 DEF Deliverable
      <3> QED
        BY <2>1, <2>a, <3>1
    <2>3. Append(frames[t], s) \in Seq(Signals)
      BY <2>1, <2>a, AppendProperties
    <2>5. [pend[t] EXCEPT ![s] = pend[t][s] - 1] \in [Signals -> Nat]
      BY <2>2, <2>a
    <2>6. pend' \in [Threads -> [Signals -> Nat]] /\ frames' \in [Threads -> Seq(Signals)]
      BY <2>3, <2>4, <2>5 DEF TypeOK
    <2> QED
      BY <1>7, <2>6 DEF Deliver, TypeOK
  <1>8. ASSUME NEW t \in Threads, Terminate(t) PROVE TypeOK'
    BY <1>8, EndType DEF Terminate, TypeOK
  <1>9. ASSUME NEW t \in Threads, Spurious(t) PROVE TypeOK'
    <2>1. Pop(t) \in Seq(Signals)
      BY PopType
    <2> QED
      BY <1>9, <2>1 DEF Spurious, TypeOK
  <1>10. ASSUME NEW t \in Threads, Stop(t) PROVE TypeOK'
    BY <1>10 DEF Stop, TypeOK
  <1>11. ASSUME NEW t \in Threads, SigWait(t) PROVE TypeOK'
    <2>1. CASE End(t, "cancelled") /\ UNCHANGED <<table, root, slot, pauses, up>>
      BY <2>1, EndType DEF TypeOK
    <2>2. CASE /\ pend' = [pend EXCEPT ![t]["SIGTHREADRESTART"] = @ - 1]
               /\ pend[t]["SIGTHREADRESTART"] > 0
               /\ frames' = [frames EXCEPT ![t] = Pop(t)]
               /\ waiting' = [waiting EXCEPT ![t] = FALSE]
               /\ UNCHANGED <<at, found, table, root, slot, pauses, up>>
      <3>a. pend[t] \in [Signals -> Nat]
        BY DEF TypeOK
      <3>1. [pend[t] EXCEPT !["SIGTHREADRESTART"] = @ - 1] \in [Signals -> Nat]
        BY <2>2, <3>a DEF Signals
      <3>2. Pop(t) \in Seq(Signals)
        BY PopType
      <3> QED
        BY <2>2, <3>1, <3>2 DEF TypeOK
    <2> DEFINE S == {r \in Waited : pend[t][r] > 0}
    <2>3. Lowest(S) \in S
      <3>1. S \subseteq Signals /\ S # {}
        BY <1>11 DEF SigWait, Waited, Signals
      <3> QED
        BY <3>1, LowestIn
    <2> QED
      BY <1>11, <2>1, <2>2, <2>3 DEF SigWait
  <1>12. CASE PauseThreads
    <2>1. PICK T \in Targets : Pause(T)
      BY <1>12 DEF PauseThreads
    <2> DEFINE P == {tid[i] : i \in {i \in Entry(T) : state[i] # "pause"}}
    <2>2. pend' \in [Threads -> [Signals -> Nat]]
      BY <2>1, SendType DEF Pause, Signals
    <2>3. IsFiniteSet(P)
      <3>1. P \subseteq Threads \cup {NULL}
        <4>1. \A i \in Index : tid[i] \in Threads \cup {NULL}
          BY DEF TypeOK
        <4>2. Entry(T) \subseteq Index
          BY DEF Entry
        <4>3. \A x \in P : \E i \in Entry(T) : x = tid[i]
          OBVIOUS
        <4> QED
          BY <4>1, <4>2, <4>3, Zenon
      <3> QED
        BY <3>1, ThreadTableAssumption, FS_AddElement, FS_Subset DEF ThreadTableAssumption
    <2>4. pauses' \in Nat
      <3>1. Cardinality(P) \in Nat
        BY <2>3, FS_CardinalityType
      <3>2. pauses' = pauses + Cardinality(P)
        BY <2>1 DEF Pause
      <3>3. pauses \in Nat
        BY DEF TypeOK
      <3> QED
        BY <3>1, <3>2, <3>3
    <2>5. state' \in [Index -> {"", "run", "pause"}]
      BY <2>1 DEF Pause, TypeOK
    <2> QED
      BY <1>12, <2>2, <2>4, <2>5 DEF PauseThreads, TypeOK
  <1>13. CASE ContThreads
    <2>1. PICK T \in Targets : Cont(T)
      BY <1>13 DEF ContThreads
    <2>2. pend' \in [Threads -> [Signals -> Nat]]
      BY <2>1, SendType DEF Cont, Signals
    <2>3. state' \in [Index -> {"", "run", "pause"}]
      BY <2>1 DEF Cont, TypeOK
    <2> QED
      BY <1>13, <2>2, <2>3 DEF ContThreads, TypeOK
  <1>14. CASE CancelThreads
    <2>1. PICK T \in Targets : Cancel(T)
      BY <1>14 DEF CancelThreads
    <2>2. pend' \in [Threads -> [Signals -> Nat]]
      BY <2>1, SendType DEF Cancel, Signals
    <2>3. Entry(T) \subseteq Index
      BY DEF Entry
    <2> QED
      BY <1>14, <2>1, <2>2, <2>3, ClearType DEF CancelThreads, Cancel, TypeOK
  <1>15. ASSUME NEW self, CancelAllOthers(self) PROVE TypeOK'
    <2>1. PICK I \in SUBSET Index : Send({tid[i] : i \in I}, "SIGTHREAD") /\ Clear(I)
      BY <1>15 DEF CancelAllOthers
    <2>2. pend' \in [Threads -> [Signals -> Nat]]
      BY <2>1, SendType DEF Signals
    <2> QED
      BY <1>15, <2>1, <2>2, ClearType DEF CancelAllOthers, TypeOK
  <1>16. ASSUME NEW self, RunOff(self) PROVE TypeOK'
    BY <1>16 DEF RunOff, TypeOK
  <1>17. CASE UNCHANGED vars
    BY <1>17 DEF vars, TypeOK
  <1> QED
    BY <1>1, <1>2, <1>3, <1>4, <1>5, <1>6, <1>7, <1>8, <1>9, <1>10, <1>11, <1>12,
       <1>13, <1>14, <1>15, <1>16, <1>17 DEF Next

(* Every variable keeps its type, whatever the number of threads, slots and  *)
(* pauses.                                                                   *)
THEOREM TypeCorrect == Spec => []TypeOK
  <1>1. TypeOK /\ [Next]_vars => TypeOK'
    BY TypeNext
  <1> QED
    BY TypeInit, <1>1, PTL DEF Spec

-----------------------------------------------------------------------------
(* What the signal actions do to a thread. *)

LEMMA EmptyStack == \A s : ~Has(<< >>, s)
  BY DEF Has

LEMMA FreeNotDoomed ==
    ASSUME TypeOK, NEW t \in Threads, Free(t)
    PROVE  /\ ~Doomed(t) /\ ~Has(frames[t], "SIGTHREADSTOP")
           /\ \A s \in Signals : pend[t][s] = 0
  <1>1. frames[t] = << >> /\ Deliverable(t) = {}
    BY DEF Free
  <1>2. pend[t] \in [Signals -> Nat]
    BY DEF TypeOK
  <1>3. \A s \in Signals : pend[t][s] = 0
    BY <1>1, <1>2, EmptyStack DEF Deliverable
  <1> QED
    BY <1>1, <1>3, EmptyStack DEF Doomed, Signals

LEMMA DeliverFacts ==
    ASSUME TypeOK, NEW t \in Threads, Deliver(t)
    PROVE  \E s \in Signals :
             /\ pend[t][s] > 0 /\ ~Has(frames[t], s)
             /\ pend' = [pend EXCEPT ![t] = [pend[t] EXCEPT ![s] = pend[t][s] - 1]]
             /\ frames' = [frames EXCEPT ![t] = Append(frames[t], s)]
             /\ \A r : Has(frames'[t], r) <=> Has(frames[t], r) \/ r = s
  <1> DEFINE s == Lowest(Deliverable(t))
  <1>1. s \in Deliverable(t) /\ s \in Signals
    BY LowestIn DEF Deliver, Deliverable
  <1>2. /\ pend' = [pend EXCEPT ![t] = [pend[t] EXCEPT ![s] = pend[t][s] - 1]]
        /\ frames' = [frames EXCEPT ![t] = Append(frames[t], s)]
    BY DEF Deliver
  <1> HIDE DEF s
  <1>3. pend[t][s] > 0 /\ ~Has(frames[t], s)
    BY <1>1 DEF Deliverable
  <1>4. frames[t] \in Seq(Signals) /\ frames'[t] = Append(frames[t], s)
    BY <1>2 DEF TypeOK
  <1>5. \A r : Has(frames'[t], r) <=> Has(frames[t], r) \/ r = s
    BY <1>1, <1>4, Push
  <1> QED
    BY <1>1, <1>2, <1>3, <1>5

LEMMA PopFacts ==
    ASSUME TypeOK, Stack, NEW t \in Threads, frames[t] # << >>
    PROVE  /\ \A j, k \in DOMAIN Pop(t) : Pop(t)[j] = Pop(t)[k] => j = k
           /\ \A r : Has(Pop(t), r) <=> Has(frames[t], r) /\ r # Top(t)
           /\ Has(frames[t], Top(t))
  <1>1. frames[t] \in Seq(Signals)
    BY DEF TypeOK
  <1>2. \A j, k \in DOMAIN frames[t] : frames[t][j] = frames[t][k] => j = k
    BY DEF Stack
  <1>3. Len(frames[t]) \in DOMAIN frames[t]
    BY <1>1
  <1> QED
    BY <1>1, <1>2, <1>3, PopStack DEF Pop, Top, Has

LEMMA SigWaitCases ==
    ASSUME TypeOK, Stack, NEW t \in Threads, SigWait(t)
    PROVE  \/ /\ pend[t]["SIGTHREAD"] > 0
              /\ End(t, "cancelled")
              /\ UNCHANGED <<tid, state, n_threads, gap, root, slot, pauses, up>>
           \/ /\ pend[t]["SIGTHREADRESTART"] > 0
              /\ frames[t] # << >> /\ Top(t) = "SIGTHREADSTOP"
              /\ pend' = [pend EXCEPT ![t] = [pend[t] EXCEPT !["SIGTHREADRESTART"] = @ - 1]]
              /\ frames' = [frames EXCEPT ![t] = Pop(t)]
              /\ waiting' = [waiting EXCEPT ![t] = FALSE]
              /\ UNCHANGED <<at, found, tid, state, n_threads, gap, root, slot, pauses, up>>
  <1> DEFINE S == {r \in Waited : pend[t][r] > 0}
  <1>1. Lowest(S) \in S
    <2>1. S \subseteq Signals /\ S # {}
      BY DEF SigWait, Waited, Signals
    <2> QED
      BY <2>1, LowestIn
  <1>2. frames[t] # << >> /\ Top(t) = "SIGTHREADSTOP"
    BY DEF SigWait, Stack
  <1>3. CASE Lowest(S) = "SIGTHREAD"
    BY <1>1, <1>3 DEF SigWait, table
  <1>4. CASE Lowest(S) = "SIGTHREADRESTART"
    BY <1>1, <1>2, <1>4 DEF SigWait, table
  <1> QED
    BY <1>1, <1>3, <1>4 DEF Waited

-----------------------------------------------------------------------------
(* The invariant is inductive, part by part. *)

LEMMA InitInv == Init => IInv
  <1> SUFFICES ASSUME Init PROVE IInv
    OBVIOUS
  <1>1. TypeOK
    BY TypeInit
  <1>2. \A t \in Threads : at[t] = "none" /\ pend[t] = NoSignals /\ frames[t] = << >> /\ ~waiting[t]
    BY DEF Init
  <1>3. \A i \in Index : tid[i] = NULL
    BY DEF Init
  <1>4. root = "idle" /\ n_threads = 0
    BY DEF Init
  <1>5. CreateOK
    BY <1>2, <1>4 DEF CreateOK
  <1>6. Quiet /\ Stack
    BY <1>2 DEF Quiet, Stack
  <1>7. SlotsOfTheLiving /\ LeavingKnows
    BY <1>2, <1>3, ThreadTableAssumption
    DEF SlotsOfTheLiving, LeavingKnows, Live, InTable, ThreadTableAssumption
  <1>8. Balance
    BY <1>3, ThreadTableAssumption DEF Balance, ThreadTableAssumption
  <1>9. Occupied = {}
    BY <1>3, <1>4 DEF Occupied, Reserved
  <1>10. GapKnown /\ CountKnown
    BY <1>4, <1>9, FS_EmptySet DEF GapKnown, CountKnown, HasGap
  <1> QED
    BY <1>1, <1>5, <1>6, <1>7, <1>8, <1>10 DEF IInv

LEMMA StackNext == TypeOK /\ Stack /\ [Next]_vars => Stack'
  <1> SUFFICES ASSUME TypeOK, Stack, [Next]_vars PROVE Stack'
    OBVIOUS
  <1> USE DEF table, signals
  <1>1. ASSUME UNCHANGED <<frames, waiting>> PROVE Stack'
    BY <1>1 DEF Stack, Top
  <1>2. ASSUME NEW t \in Threads, NEW how, End(t, how) PROVE Stack'
    <2>1. frames'[t] = << >> /\ ~waiting'[t]
      BY <1>2 DEF End, TypeOK
    <2>2. \A u \in Threads : u # t => frames'[u] = frames[u] /\ waiting'[u] = waiting[u]
      BY <1>2 DEF End, TypeOK
    <2> QED
      BY <2>1, <2>2 DEF Stack, Top
  <1>3. ASSUME NEW t \in Threads, Deliver(t) PROVE Stack'
    <2>1. PICK s \in Signals : /\ ~Has(frames[t], s)
                               /\ frames' = [frames EXCEPT ![t] = Append(frames[t], s)]
      BY <1>3, DeliverFacts
    <2>2. frames[t] \in Seq(Signals) /\ frames'[t] = Append(frames[t], s)
      BY <2>1 DEF TypeOK
    <2>3. /\ DOMAIN frames'[t] = DOMAIN frames[t] \cup {Len(frames[t]) + 1}
          /\ \A k \in DOMAIN frames[t] : frames'[t][k] = frames[t][k]
          /\ frames'[t][Len(frames[t]) + 1] = s
      BY <2>2
    <2>4. \A k \in DOMAIN frames[t] : frames'[t][k] # s
      BY <2>1, <2>3 DEF Has
    <2>5. \A j, k \in DOMAIN frames'[t] : frames'[t][j] = frames'[t][k] => j = k
      BY <2>3, <2>4 DEF Stack
    <2>6. ~waiting[t] /\ waiting' = waiting
      BY <1>3 DEF Deliver
    <2>7. \A u \in Threads : u # t => frames'[u] = frames[u]
      BY <2>1 DEF TypeOK
    <2> QED
      BY <2>5, <2>6, <2>7 DEF Stack, Top
  <1>4. ASSUME NEW t \in Threads, frames[t] # << >>, frames' = [frames EXCEPT ![t] = Pop(t)],
               waiting' \in {waiting, [waiting EXCEPT ![t] = FALSE]}, ~waiting'[t]
        PROVE  Stack'
    <2>1. frames'[t] = Pop(t) /\ \A u \in Threads : u # t => frames'[u] = frames[u]
      BY <1>4 DEF TypeOK
    <2>2. \A u \in Threads : u # t => waiting'[u] = waiting[u]
      BY <1>4 DEF TypeOK
    <2>3. \A j, k \in DOMAIN Pop(t) : Pop(t)[j] = Pop(t)[k] => j = k
      BY <1>4, PopFacts
    <2> QED
      BY <1>4, <2>1, <2>2, <2>3 DEF Stack, Top
  <1>5. ASSUME NEW t \in Threads, Spurious(t) PROVE Stack'
    BY <1>4, <1>5 DEF Spurious, Handling
  <1>6. ASSUME NEW t \in Threads, Stop(t) PROVE Stack'
    BY <1>6 DEF Stop, Handling, Stack, Top, TypeOK
  <1>7. ASSUME NEW t \in Threads, SigWait(t) PROVE Stack'
    <2>1. CASE End(t, "cancelled")
      BY <1>2, <2>1
    <2>2. CASE /\ frames[t] # << >>
               /\ frames' = [frames EXCEPT ![t] = Pop(t)]
               /\ waiting' = [waiting EXCEPT ![t] = FALSE]
      BY <1>4, <2>2 DEF TypeOK
    <2> QED
      BY <1>7, <2>1, <2>2, SigWaitCases
  <1>8. CASE GetSlot \/ Create \/ PauseThreads \/ ContThreads \/ CancelThreads
    BY <1>1, <1>8 DEF GetSlot, Create, PauseThreads, ContThreads, CancelThreads
  <1>9. ASSUME NEW t \in Threads, Launch(t) \/ ExitFind(t) PROVE Stack'
    BY <1>1, <1>9 DEF Launch, ExitFind
  <1>10. ASSUME NEW t \in Threads, Return(t) \/ ExitClear(t) \/ Terminate(t) PROVE Stack'
    BY <1>2, <1>10 DEF Return, ExitClear, Terminate
  <1>11. ASSUME NEW self, CancelAllOthers(self) \/ RunOff(self) PROVE Stack'
    BY <1>1, <1>11 DEF CancelAllOthers, RunOff
  <1>12. CASE UNCHANGED vars
    BY <1>1, <1>12 DEF vars
  <1> QED
    BY <1>3, <1>5, <1>6, <1>7, <1>8, <1>9, <1>10, <1>11, <1>12 DEF Next

LEMMA QuietNext == TypeOK /\ CreateOK /\ Stack /\ Quiet /\ [Next]_vars => Quiet'
  <1> SUFFICES ASSUME TypeOK, CreateOK, Stack, Quiet, [Next]_vars PROVE Quiet'
    OBVIOUS
  <1> USE DEF table, signals
  <1>1. ASSUME UNCHANGED <<pend, frames, waiting>>, \A t \in Threads : Live(t) => Live(t)'
        PROVE  Quiet'
    BY <1>1 DEF Quiet, NoSignals
  <1>2. ASSUME NEW t \in Threads, NEW how, End(t, how) PROVE Quiet'
    <2>1. pend'[t] = NoSignals /\ frames'[t] = << >> /\ ~waiting'[t]
      BY <1>2 DEF End, TypeOK
    <2>2. \A u \in Threads : u # t =>
             /\ pend'[u] = pend[u] /\ frames'[u] = frames[u]
             /\ waiting'[u] = waiting[u] /\ at'[u] = at[u]
      BY <1>2 DEF End, TypeOK
    <2> QED
      BY <2>1, <2>2 DEF Quiet, Live, NoSignals
  <1>3. ASSUME NEW t \in Threads, Live(t), at' = at,
               \A u \in Threads : u # t =>
                  pend'[u] = pend[u] /\ frames'[u] = frames[u] /\ waiting'[u] = waiting[u]
        PROVE  Quiet'
    BY <1>3 DEF Quiet, Live, NoSignals
  <1>4. ASSUME NEW T, NEW s, Send(T, s), UNCHANGED <<at, frames, waiting>> PROVE Quiet'
    <2>1. \A t \in Threads : ~Live(t) => pend'[t] = pend[t]
      BY <1>4 DEF Send
    <2> QED
      BY <1>4, <2>1 DEF Quiet, Live, NoSignals
  <1>5. CASE GetSlot
    BY <1>1, <1>5 DEF GetSlot, Live
  <1>6. CASE Create
    <2>1. Fresh \in Threads /\ at[Fresh] = "none"
      BY <1>6 DEF Create, CreateOK, Fresh
    <2>2. \A u \in Threads : ~Live(u)' => ~Live(u)
      BY <1>6, <2>1 DEF Create, Live, TypeOK
    <2> QED
      BY <1>6, <2>2 DEF Create, Quiet, NoSignals
  <1>7. ASSUME NEW t \in Threads, Launch(t) \/ ExitFind(t) PROVE Quiet'
    BY <1>1, <1>7 DEF Launch, ExitFind, Live, TypeOK
  <1>8. ASSUME NEW t \in Threads, Return(t) \/ ExitClear(t) \/ Terminate(t) PROVE Quiet'
    BY <1>2, <1>8 DEF Return, ExitClear, Terminate
  <1>9. ASSUME NEW t \in Threads, Deliver(t) PROVE Quiet'
    BY <1>3, <1>9 DEF Deliver, TypeOK
  <1>10. ASSUME NEW t \in Threads, Spurious(t) \/ Stop(t) PROVE Quiet'
    BY <1>3, <1>10 DEF Spurious, Stop, Handling, TypeOK
  <1>11. ASSUME NEW t \in Threads, SigWait(t) PROVE Quiet'
    <2>1. CASE End(t, "cancelled")
      BY <1>2, <2>1
    <2>2. CASE /\ pend' = [pend EXCEPT ![t] = [pend[t] EXCEPT !["SIGTHREADRESTART"] = @ - 1]]
               /\ frames' = [frames EXCEPT ![t] = Pop(t)]
               /\ waiting' = [waiting EXCEPT ![t] = FALSE]
               /\ at' = at
      <3>1. Live(t)
        BY <1>11 DEF SigWait, Quiet
      <3> QED
        BY <1>3, <2>2, <3>1 DEF TypeOK
    <2> QED
      BY <1>11, <2>1, <2>2, SigWaitCases
  <1>12. CASE PauseThreads \/ ContThreads \/ CancelThreads
    BY <1>4, <1>12 DEF PauseThreads, ContThreads, CancelThreads, Pause, Cont, Cancel
  <1>13. ASSUME NEW self, CancelAllOthers(self) PROVE Quiet'
    BY <1>4, <1>13 DEF CancelAllOthers
  <1>14. ASSUME NEW self, RunOff(self) PROVE Quiet'
    BY <1>1, <1>14 DEF RunOff, Live
  <1>15. CASE UNCHANGED vars
    BY <1>1, <1>15 DEF vars, Live
  <1> QED
    BY <1>5, <1>6, <1>7, <1>8, <1>9, <1>10, <1>11, <1>12, <1>13, <1>14, <1>15 DEF Next

(* A thread that clears its slot still owns it. *)
LEMMA OwnSlot ==
    ASSUME TypeOK, LeavingKnows, NEW t \in Threads, ExitClear(t)
    PROVE  found[t] \in Index /\ tid[found[t]] = t /\ t # NULL /\ Live(t)
  <1>1. ~Doomed(t)
    BY FreeNotDoomed DEF ExitClear
  <1> QED
    BY <1>1, ThreadTableAssumption DEF ExitClear, LeavingKnows, TypeOK, Live, ThreadTableAssumption

LEMMA CreateNext ==
    TypeOK /\ CreateOK /\ LeavingKnows /\ Stack /\ Quiet /\ [Next]_vars => CreateOK'
  <1> SUFFICES ASSUME TypeOK, CreateOK, LeavingKnows, Stack, Quiet, [Next]_vars PROVE CreateOK'
    OBVIOUS
  <1> USE DEF table, signals
  <1>1. ASSUME UNCHANGED <<tid, state, root, slot>>,
               \A t \in Threads : at'[t] = at[t] \/ (at[t] # "none" /\ at'[t] # "starting")
        PROVE  CreateOK'
    BY <1>1 DEF CreateOK
  <1>2. CASE GetSlot
    <2> DEFINE i == Min({j \in Index : tid[j] = NULL})
    <2>1. tid[i] = NULL
      BY <1>2, MinIndex DEF GetSlot
    <2> QED
      BY <1>2, <2>1 DEF GetSlot, CreateOK
  <1>3. CASE Create
    <2>1. Fresh \in Threads /\ at[Fresh] = "none"
      BY <1>3 DEF Create, CreateOK, Fresh
    <2>2. at'[Fresh] = "starting" /\ \A u \in Threads : u # Fresh => at'[u] = at[u]
      BY <1>3, <2>1 DEF Create, TypeOK
    <2>3. state'[slot] = "run"
      BY <1>3 DEF Create, TypeOK
    <2> QED
      BY <1>3, <2>1, <2>2, <2>3 DEF Create, CreateOK
  <1>4. ASSUME NEW t \in Threads, Launch(t) PROVE CreateOK'
    <2>1. at'[t] = "running" /\ \A u \in Threads : u # t => at'[u] = at[u]
      BY <1>4 DEF Launch, TypeOK
    <2> QED
      BY <1>4, <2>1 DEF Launch, CreateOK
  <1>5. ASSUME NEW t \in Threads, Live(t), NEW how \in {"returned", "exited", "cancelled"}, End(t, how)
        PROVE  \A u \in Threads : at'[u] = at[u] \/ (at[u] # "none" /\ at'[u] # "starting")
    BY <1>5 DEF End, Live, TypeOK
  <1>6. ASSUME NEW t \in Threads, Return(t) \/ Terminate(t) PROVE CreateOK'
    BY <1>1, <1>5, <1>6 DEF Return, Terminate, Handling, Live
  <1>7. ASSUME NEW t \in Threads, ExitFind(t) PROVE CreateOK'
    BY <1>1, <1>7 DEF ExitFind, TypeOK
  <1>8. ASSUME NEW I, I \subseteq Index, Clear(I), UNCHANGED <<root, slot>>,
               \A i \in I : tid[i] # NULL,
               \A t \in Threads : at'[t] = at[t] \/ (at[t] # "none" /\ at'[t] # "starting")
        PROVE  CreateOK'
    <2>1. root # "idle" => tid'[slot] = NULL /\ state'[slot] = state[slot]
      BY <1>8 DEF Clear, CreateOK, TypeOK
    <2> QED
      BY <1>8, <2>1 DEF CreateOK
  <1>9. ASSUME NEW t \in Threads, ExitClear(t) PROVE CreateOK'
    <2>1. found[t] \in Index /\ tid[found[t]] # NULL /\ Live(t)
      BY <1>9, OwnSlot
    <2> QED
      BY <1>5, <1>8, <1>9, <2>1 DEF ExitClear
  <1>10. ASSUME NEW t \in Threads, Deliver(t) \/ Spurious(t) \/ Stop(t) PROVE CreateOK'
    BY <1>1, <1>10 DEF Deliver, Spurious, Stop
  <1>11. ASSUME NEW t \in Threads, SigWait(t) PROVE CreateOK'
    <2>1. Live(t)
      BY <1>11 DEF SigWait, Quiet
    <2> QED
      BY <1>1, <1>5, <1>11, <2>1, SigWaitCases
  <1>12. CASE PauseThreads \/ ContThreads
    BY <1>12 DEF PauseThreads, ContThreads, CreateOK
  <1>13. CASE CancelThreads
    BY <1>13 DEF CancelThreads, CreateOK
  <1>14. ASSUME NEW self, CancelAllOthers(self) PROVE CreateOK'
    <2>1. PICK I \in SUBSET Index : Sweeps(self, I) /\ Clear(I)
      BY <1>14 DEF CancelAllOthers
    <2>2. \A i \in I : tid[i] # NULL
      BY <2>1 DEF Sweeps
    <2> QED
      BY <1>8, <1>14, <2>1, <2>2 DEF CancelAllOthers
  <1>15. ASSUME NEW self, RunOff(self) PROVE CreateOK'
    BY <1>1, <1>15 DEF RunOff
  <1>16. CASE UNCHANGED vars
    BY <1>1, <1>16 DEF vars
  <1> QED
    BY <1>2, <1>3, <1>4, <1>6, <1>7, <1>9, <1>10, <1>11, <1>12, <1>13, <1>14, <1>15, <1>16 DEF Next

(* Slots. *)

LEMMA EndOthers ==
    ASSUME TypeOK, NEW t \in Threads, NEW how, End(t, how)
    PROVE  /\ at'[t] = how
           /\ \A u \in Threads : u # t =>
                 /\ at'[u] = at[u] /\ found'[u] = found[u] /\ Live(u)' = Live(u)
                 /\ pend'[u] = pend[u] /\ frames'[u] = frames[u] /\ Doomed(u)' = Doomed(u)
  BY DEF End, TypeOK, Live, Doomed

LEMMA SendDooms ==
    ASSUME TypeOK, NEW T, NEW s \in Signals, Send(T, s), frames' = frames, at' = at,
           NEW t \in Threads, Live(t)
    PROVE  /\ s # "SIGTHREAD" => (Doomed(t)' <=> Doomed(t))
           /\ s = "SIGTHREAD" => (Doomed(t)' <=> Doomed(t) \/ t \in T)
  <1>1. pend[t] \in [Signals -> Nat]
    BY DEF TypeOK
  <1>2. pend'[t] = IF t \in T THEN [pend[t] EXCEPT ![s] = @ + 1] ELSE pend[t]
    BY DEF Send
  <1>3. frames'[t] = frames[t]
    OBVIOUS
  <1>4. CASE t \notin T
    BY <1>2, <1>3, <1>4 DEF Doomed
  <1>5. CASE t \in T /\ s = "SIGTHREAD"
    <2>1. pend'[t]["SIGTHREAD"] = pend[t]["SIGTHREAD"] + 1 /\ pend[t]["SIGTHREAD"] \in Nat
      BY <1>1, <1>2, <1>5
    <2> QED
      BY <1>5, <2>1 DEF Doomed
  <1>6. CASE t \in T /\ s # "SIGTHREAD"
    <2>1. pend'[t]["SIGTHREAD"] = pend[t]["SIGTHREAD"]
      BY <1>1, <1>2, <1>6 DEF Signals
    <2> QED
      BY <1>3, <1>6, <2>1 DEF Doomed
  <1> QED
    BY <1>4, <1>5, <1>6

OwnersOK == SlotsOfTheLiving /\ LeavingKnows

(* Emptying the slots of threads that are cancelled by the same step. *)
LEMMA ClearCancelled ==
    ASSUME IInv, NEW I, I \subseteq Index, Clear(I), Send({tid[i] : i \in I}, "SIGTHREAD"),
           UNCHANGED <<at, found, frames>>
    PROVE  OwnersOK'
  <1> DEFINE T == {tid[i] : i \in I}
  <1> USE DEF IInv
  <1>1. \A i \in Index : tid'[i] = IF i \in I THEN NULL ELSE tid[i]
    BY DEF Clear
  <1>2. \A i, j \in Index : tid[i] = tid[j] /\ tid[i] # NULL => i = j
    BY DEF SlotsOfTheLiving
  <1>3. \A t \in Threads : InTable(t)' <=> InTable(t) /\ t \notin T
    BY <1>1, <1>2, ThreadTableAssumption DEF InTable, ThreadTableAssumption
  <1>4. \A t \in Threads : Live(t)' <=> Live(t)
    BY DEF Live
  <1>5. \A t \in Threads : Live(t) => (Doomed(t)' <=> Doomed(t) \/ t \in T)
    BY SendDooms DEF Signals
  <1>6. SlotsOfTheLiving'
    BY <1>1, <1>2, <1>3, <1>4, <1>5 DEF SlotsOfTheLiving
  <1>7. LeavingKnows'
    <2> SUFFICES ASSUME NEW t \in Threads, at[t] = "leaving" PROVE tid'[found[t]] = t \/ Doomed(t)'
      BY DEF LeavingKnows
    <2>1. Live(t) /\ found[t] \in Index
      BY DEF Live, TypeOK
    <2>2. CASE Doomed(t)
      BY <1>5, <2>1, <2>2
    <2>3. CASE tid[found[t]] = t
      BY <1>1, <1>5, <2>1, <2>3
    <2> QED
      BY <2>2, <2>3 DEF LeavingKnows
  <1> QED
    BY <1>6, <1>7 DEF OwnersOK

LEMMA OwnersNext == IInv /\ [Next]_vars => OwnersOK'
  <1> SUFFICES ASSUME IInv, [Next]_vars PROVE OwnersOK'
    OBVIOUS
  <1> USE DEF table, signals, IInv
  <1>1. ASSUME tid' = tid, found' = found,
               \A t \in Threads : /\ Live(t)' <=> Live(t)
                                  /\ Live(t) => (Doomed(t)' <=> Doomed(t))
                                  /\ at'[t] = at[t] \/ (~Live(t) /\ at[t] # "returned")
        PROVE  OwnersOK'
    <2>1. \A t \in Threads : InTable(t)' <=> InTable(t)
      BY <1>1 DEF InTable
    <2>2. SlotsOfTheLiving'
      BY <1>1, <2>1 DEF SlotsOfTheLiving
    <2>3. LeavingKnows'
      BY <1>1 DEF LeavingKnows, Live
    <2> QED
      BY <2>2, <2>3 DEF OwnersOK
  <1>2. CASE GetSlot
    BY <1>1, <1>2 DEF GetSlot, Live, Doomed
  <1>3. CASE Create
    <2>1. Fresh \in Threads /\ at[Fresh] = "none"
      BY <1>3 DEF Create, CreateOK, Fresh
    <2> QED
      BY <1>1, <1>3, <2>1 DEF Create, Live, Doomed, TypeOK
  <1>4. ASSUME NEW t \in Threads, Launch(t) PROVE OwnersOK'
    <2>1. tid[slot] = NULL /\ slot \in Index /\ ~Live(t)
      BY <1>4 DEF Launch, CreateOK, TypeOK, Live
    <2>2. tid' = [tid EXCEPT ![slot] = t] /\ t # NULL
      BY <1>4, ThreadTableAssumption DEF Launch, ThreadTableAssumption
    <2>3. ~InTable(t)
      BY <1>4 DEF Launch, SlotsOfTheLiving, Live
    <2>4. ~Doomed(t)
      BY <2>1, EmptyStack DEF Quiet, Doomed, NoSignals, Signals
    <2>5. \A u \in Threads : /\ Doomed(u)' <=> Doomed(u)
                             /\ u # t => at'[u] = at[u]
      BY <1>4 DEF Launch, Doomed, TypeOK
    <2>6. \A i \in Index : tid'[i] = IF i = slot THEN t ELSE tid[i]
      BY <2>2 DEF TypeOK
    <2>7. \A u \in Threads : u # t => (InTable(u)' <=> InTable(u)) /\ (Live(u)' <=> Live(u))
      BY <2>1, <2>5, <2>6, ThreadTableAssumption DEF InTable, Live, ThreadTableAssumption
    <2>8. InTable(t)' /\ at'[t] = "running"
      BY <1>4, <2>1, <2>6 DEF InTable, Launch, TypeOK
    <2>9. SlotsOfTheLiving'
      <3>1. \A i, j \in Index : tid'[i] = tid'[j] /\ tid'[i] # NULL => i = j
        BY <2>3, <2>6 DEF SlotsOfTheLiving, InTable
      <3>2. \A u \in Threads : Live(u)' => (InTable(u)' <=> ~Doomed(u)')
        BY <2>4, <2>5, <2>7, <2>8 DEF SlotsOfTheLiving
      <3>3. \A u \in Threads : InTable(u)' => Live(u)' \/ at'[u] = "returned"
        BY <2>5, <2>7, <2>8 DEF SlotsOfTheLiving, Live
      <3> QED
        BY <3>1, <3>2, <3>3 DEF SlotsOfTheLiving
    <2>10. LeavingKnows'
      <3>1. \A u \in Threads : at'[u] = "leaving" => u # t /\ at[u] = "leaving" /\ found[u] \in Index
        BY <2>5, <2>8 DEF TypeOK
      <3> QED
        BY <1>4, <2>1, <2>5, <2>6, <3>1, ThreadTableAssumption
        DEF LeavingKnows, Launch, ThreadTableAssumption
    <2> QED
      BY <2>9, <2>10 DEF OwnersOK
  <1>5. ASSUME NEW t \in Threads, NEW how, Live(t), End(t, how), tid' = tid,
               how = "returned" \/ (how = "cancelled" /\ Doomed(t))
        PROVE  OwnersOK'
    <2>1. at'[t] = how /\ \A u \in Threads : u # t =>
             /\ at'[u] = at[u] /\ found'[u] = found[u]
             /\ Live(u)' = Live(u) /\ Doomed(u)' = Doomed(u)
      BY <1>5, EndOthers
    <2>2. \A u \in Threads : InTable(u)' <=> InTable(u)
      BY <1>5 DEF InTable
    <2>3. ~Live(t)' /\ (how = "cancelled" => ~InTable(t))
      BY <1>5, <2>1 DEF Live, SlotsOfTheLiving
    <2>4. SlotsOfTheLiving'
      <3>1. \A i, j \in Index : tid'[i] = tid'[j] /\ tid'[i] # NULL => i = j
        BY <1>5 DEF SlotsOfTheLiving
      <3>2. \A u \in Threads : Live(u)' => (InTable(u)' <=> ~Doomed(u)')
        BY <2>1, <2>2, <2>3 DEF SlotsOfTheLiving
      <3>3. \A u \in Threads : InTable(u)' => Live(u)' \/ at'[u] = "returned"
        BY <1>5, <2>1, <2>2, <2>3 DEF SlotsOfTheLiving
      <3> QED
        BY <3>1, <3>2, <3>3 DEF SlotsOfTheLiving
    <2>5. LeavingKnows'
      BY <1>5, <2>1 DEF LeavingKnows
    <2> QED
      BY <2>4, <2>5 DEF OwnersOK
  <1>6. ASSUME NEW t \in Threads, Return(t) PROVE OwnersOK'
    BY <1>5, <1>6 DEF Return, Live
  <1>7. ASSUME NEW t \in Threads, ExitFind(t) PROVE OwnersOK'
    <2>1. SlotOf(t) \in Index /\ tid[SlotOf(t)] = t
      BY <1>7, MinIndex DEF ExitFind, InTable, SlotOf
    <2>2. /\ at'[t] = "leaving" /\ found'[t] = SlotOf(t)
          /\ \A u \in Threads : u # t => at'[u] = at[u] /\ found'[u] = found[u]
      BY <1>7 DEF ExitFind, TypeOK
    <2>3. /\ tid' = tid
          /\ \A u \in Threads : /\ Live(u)' <=> Live(u)
                                /\ Doomed(u)' <=> Doomed(u)
                                /\ InTable(u)' <=> InTable(u)
                                /\ at'[u] = "returned" <=> at[u] = "returned"
      BY <1>7, <2>2 DEF ExitFind, Live, Doomed, InTable
    <2>4. SlotsOfTheLiving'
      BY <2>3 DEF SlotsOfTheLiving
    <2>5. LeavingKnows'
      BY <2>1, <2>2, <2>3 DEF LeavingKnows
    <2> QED
      BY <2>4, <2>5 DEF OwnersOK
  <1>8. ASSUME NEW t \in Threads, ExitClear(t) PROVE OwnersOK'
    <2>1. found[t] \in Index /\ tid[found[t]] = t /\ t # NULL /\ Live(t)
      BY <1>8, OwnSlot
    <2>2. \A i \in Index : tid'[i] = IF i = found[t] THEN NULL ELSE tid[i]
      BY <1>8 DEF ExitClear, Clear
    <2>3. at'[t] = "exited" /\ \A u \in Threads : u # t =>
             /\ at'[u] = at[u] /\ found'[u] = found[u]
             /\ Live(u)' = Live(u) /\ Doomed(u)' = Doomed(u)
      BY <1>8, EndOthers DEF ExitClear
    <2>4. ~InTable(t)' /\ ~Live(t)'
      BY <2>1, <2>2, <2>3 DEF InTable, Live, SlotsOfTheLiving
    <2>5. \A u \in Threads : u # t => (InTable(u)' <=> InTable(u))
      BY <2>1, <2>2, ThreadTableAssumption DEF InTable, ThreadTableAssumption
    <2>6. SlotsOfTheLiving'
      <3>1. \A i, j \in Index : tid'[i] = tid'[j] /\ tid'[i] # NULL => i = j
        BY <2>2 DEF SlotsOfTheLiving
      <3>2. \A u \in Threads : Live(u)' => (InTable(u)' <=> ~Doomed(u)')
        BY <2>3, <2>4, <2>5 DEF SlotsOfTheLiving
      <3>3. \A u \in Threads : InTable(u)' => Live(u)' \/ at'[u] = "returned"
        BY <2>3, <2>4, <2>5 DEF SlotsOfTheLiving
      <3> QED
        BY <3>1, <3>2, <3>3 DEF SlotsOfTheLiving
    <2>7. LeavingKnows'
      <3> SUFFICES ASSUME NEW u \in Threads, at'[u] = "leaving"
                   PROVE  tid'[found'[u]] = u \/ Doomed(u)'
        BY DEF LeavingKnows
      <3>1. u # t /\ at[u] = "leaving" /\ found'[u] = found[u] /\ found[u] \in Index
        BY <2>3 DEF TypeOK
      <3>2. CASE tid[found[u]] = u
        BY <2>1, <2>2, <3>1, <3>2
      <3>3. CASE Doomed(u)
        BY <2>3, <3>1, <3>3
      <3> QED
        BY <3>1, <3>2, <3>3 DEF LeavingKnows
    <2> QED
      BY <2>6, <2>7 DEF OwnersOK
  <1>9. ASSUME NEW t \in Threads, Deliver(t) PROVE OwnersOK'
    <2>1. PICK s \in Signals :
             /\ pend[t][s] > 0
             /\ pend' = [pend EXCEPT ![t] = [pend[t] EXCEPT ![s] = pend[t][s] - 1]]
             /\ frames' = [frames EXCEPT ![t] = Append(frames[t], s)]
             /\ \A r : Has(frames'[t], r) <=> Has(frames[t], r) \/ r = s
      BY <1>9, DeliverFacts
    <2>2. pend[t] \in [Signals -> Nat] /\ pend'[t] = [pend[t] EXCEPT ![s] = pend[t][s] - 1]
      BY <2>1 DEF TypeOK
    <2>3. Doomed(t)' <=> Doomed(t)
      <3>1. CASE s = "SIGTHREAD"
        BY <2>1, <3>1 DEF Doomed
      <3>2. CASE s # "SIGTHREAD"
        BY <2>1, <2>2, <3>2 DEF Doomed, Signals
      <3> QED
        BY <3>1, <3>2
    <2>4. \A u \in Threads : u # t => (Doomed(u)' <=> Doomed(u))
      BY <2>1 DEF Doomed, TypeOK
    <2> QED
      BY <1>1, <1>9, <2>3, <2>4 DEF Deliver, Live
  <1>10. ASSUME NEW t \in Threads, Terminate(t) PROVE OwnersOK'
    <2>1. Doomed(t)
      BY <1>10, PopFacts DEF Terminate, Handling, Doomed
    <2> QED
      BY <1>5, <1>10, <2>1 DEF Terminate, Handling
  <1>11. ASSUME NEW t \in Threads, frames[t] # << >>, Top(t) # "SIGTHREAD",
                frames' = [frames EXCEPT ![t] = Pop(t)],
                \A u \in Threads : pend'[u]["SIGTHREAD"] = pend[u]["SIGTHREAD"],
                UNCHANGED <<tid, at, found>>
         PROVE  OwnersOK'
    <2>1. \A r : Has(frames'[t], r) <=> Has(frames[t], r) /\ r # Top(t)
      BY <1>11, PopFacts DEF TypeOK
    <2>2. \A u \in Threads : u # t => frames'[u] = frames[u]
      BY <1>11 DEF TypeOK
    <2>3. \A u \in Threads : Doomed(u)' <=> Doomed(u)
      BY <1>11, <2>1, <2>2 DEF Doomed
    <2> QED
      BY <1>1, <1>11, <2>3 DEF Live
  <1>12. ASSUME NEW t \in Threads, Spurious(t) PROVE OwnersOK'
    BY <1>11, <1>12 DEF Spurious, Handling
  <1>13. ASSUME NEW t \in Threads, Stop(t) PROVE OwnersOK'
    BY <1>1, <1>13 DEF Stop, Live, Doomed
  <1>14. ASSUME NEW t \in Threads, SigWait(t) PROVE OwnersOK'
    <2>1. CASE pend[t]["SIGTHREAD"] > 0 /\ End(t, "cancelled") /\ tid' = tid
      <3>1. Live(t) /\ Doomed(t)
        BY <1>14, <2>1 DEF SigWait, Quiet, Doomed
      <3> QED
        BY <1>5, <2>1, <3>1
    <2>2. CASE /\ frames[t] # << >> /\ Top(t) = "SIGTHREADSTOP"
               /\ pend' = [pend EXCEPT ![t] = [pend[t] EXCEPT !["SIGTHREADRESTART"] = @ - 1]]
               /\ frames' = [frames EXCEPT ![t] = Pop(t)]
               /\ UNCHANGED <<tid, at, found>>
      <3>1. \A u \in Threads : pend'[u]["SIGTHREAD"] = pend[u]["SIGTHREAD"]
        BY <2>2 DEF TypeOK, Signals
      <3> QED
        BY <1>11, <2>2, <3>1
    <2> QED
      BY <1>14, <2>1, <2>2, SigWaitCases
  <1>15. ASSUME NEW T, NEW s \in Signals, s # "SIGTHREAD", Send(T, s),
                UNCHANGED <<tid, at, found, frames>>
         PROVE  OwnersOK'
    <2>1. \A t \in Threads : Live(t) => (Doomed(t)' <=> Doomed(t))
      BY <1>15, SendDooms
    <2> QED
      BY <1>1, <1>15, <2>1 DEF Live
  <1>16. CASE PauseThreads \/ ContThreads
    BY <1>15, <1>16 DEF PauseThreads, ContThreads, Pause, Cont, Signals
  <1>17. CASE CancelThreads
    <2>1. PICK T \in Targets : Send(T, "SIGTHREAD") /\ Clear(Entry(T))
      BY <1>17 DEF CancelThreads, Cancel
    <2>2. {tid[i] : i \in Entry(T)} = T
      BY <2>1 DEF Targets, Entry, InTable
    <2> QED
      BY <1>17, <2>1, <2>2, ClearCancelled DEF CancelThreads, Entry
  <1>18. ASSUME NEW self, CancelAllOthers(self) PROVE OwnersOK'
    BY <1>18, ClearCancelled DEF CancelAllOthers
  <1>19. ASSUME NEW self, RunOff(self) PROVE OwnersOK'
    BY <1>1, <1>19 DEF RunOff, Live, Doomed
  <1>20. CASE UNCHANGED vars
    BY <1>1, <1>20 DEF vars, Live, Doomed
  <1> QED
    BY <1>2, <1>3, <1>4, <1>6, <1>7, <1>8, <1>9, <1>10, <1>12, <1>13, <1>14, <1>16,
       <1>17, <1>18, <1>19, <1>20 DEF Next

(* Stops and restarts. *)

LEMMA DebtType ==
    TypeOK => \A t \in Threads : /\ pend[t]["SIGTHREADSTOP"] \in Nat
                                 /\ pend[t]["SIGTHREADRESTART"] \in Nat
                                 /\ Debt(t) \in Int
  <1> SUFFICES ASSUME TypeOK, NEW t \in Threads
               PROVE  /\ pend[t]["SIGTHREADSTOP"] \in Nat
                      /\ pend[t]["SIGTHREADRESTART"] \in Nat
                      /\ Debt(t) \in Int
    OBVIOUS
  <1>1. pend[t] \in [Signals -> Nat]
    BY DEF TypeOK
  <1>2. pend[t]["SIGTHREADSTOP"] \in Nat /\ pend[t]["SIGTHREADRESTART"] \in Nat
    BY <1>1 DEF Signals
  <1>3. Stopping(t) \in Int
    BY DEF Stopping
  <1> QED
    BY <1>2, <1>3 DEF Debt

(* One signal more or less for a thread, its stack unchanged. *)
LEMMA DebtOfSignal ==
    ASSUME TypeOK, NEW t \in Threads, frames'[t] = frames[t],
           NEW s \in Signals, pend'[t] = [pend[t] EXCEPT ![s] = @ + 1]
    PROVE  /\ s = "SIGTHREAD" => Debt(t)' = Debt(t)
           /\ s = "SIGTHREADSTOP" => Debt(t)' = Debt(t) + 1
           /\ s = "SIGTHREADRESTART" => Debt(t)' = Debt(t) - 1
  <1>1. pend[t] \in [Signals -> Nat]
    BY DEF TypeOK
  <1>2. Stopping(t)' = Stopping(t) /\ Stopping(t) \in Int
    BY DEF Stopping
  <1>3. \A r \in Signals : pend'[t][r] = IF r = s THEN pend[t][r] + 1 ELSE pend[t][r]
    BY <1>1
  <1>4. pend[t]["SIGTHREADSTOP"] \in Nat /\ pend[t]["SIGTHREADRESTART"] \in Nat
    BY <1>1 DEF Signals
  <1>5. /\ pend'[t]["SIGTHREADSTOP"] = IF s = "SIGTHREADSTOP" THEN pend[t]["SIGTHREADSTOP"] + 1
                                       ELSE pend[t]["SIGTHREADSTOP"]
        /\ pend'[t]["SIGTHREADRESTART"] = IF s = "SIGTHREADRESTART" THEN pend[t]["SIGTHREADRESTART"] + 1
                                          ELSE pend[t]["SIGTHREADRESTART"]
    BY <1>3 DEF Signals
  <1> QED
    BY <1>2, <1>4, <1>5 DEF Debt

LEMMA BalanceNext == IInv /\ [Next]_vars => Balance'
  <1> SUFFICES ASSUME IInv, [Next]_vars PROVE Balance'
    OBVIOUS
  <1> USE DEF table, signals, IInv
  <1>0. \A t \in Threads : /\ pend[t]["SIGTHREADSTOP"] \in Nat
                           /\ pend[t]["SIGTHREADRESTART"] \in Nat
                           /\ Debt(t) \in Int
    BY DebtType
  <1>1. ASSUME \A i \in Index : tid'[i] # NULL => tid'[i] = tid[i] /\ state'[i] = state[i],
               \A t \in Threads : Live(t)' => Live(t) /\ Debt(t)' \in Int /\ Debt(t)' >= Debt(t)
        PROVE  Balance'
    <2> SUFFICES ASSUME NEW i \in Index, NEW t \in Threads, tid'[i] = t
                 PROVE  /\ state'[i] \in {"run", "pause"}
                        /\ Live(t)' => Debt(t)' >= (IF state'[i] = "pause" THEN 1 ELSE 0)
      BY DEF Balance
    <2>1. tid[i] = t /\ state'[i] = state[i]
      BY <1>1, ThreadTableAssumption DEF ThreadTableAssumption
    <2>2. /\ state[i] \in {"run", "pause"}
          /\ Live(t) => Debt(t) >= (IF state[i] = "pause" THEN 1 ELSE 0)
      BY <2>1 DEF Balance
    <2>3. CASE state[i] = "pause"
      BY <1>0, <1>1, <2>1, <2>2, <2>3
    <2>4. CASE state[i] = "run"
      BY <1>0, <1>1, <2>1, <2>2, <2>4
    <2> QED
      BY <2>2, <2>3, <2>4
  <1>2. \A t \in Threads : pend'[t] = pend[t] /\ frames'[t] = frames[t] =>
             Debt(t)' \in Int /\ Debt(t)' >= Debt(t)
    <2> SUFFICES ASSUME NEW t \in Threads, pend'[t] = pend[t], frames'[t] = frames[t]
                 PROVE  Debt(t)' \in Int /\ Debt(t)' >= Debt(t)
      OBVIOUS
    <2>1. Debt(t)' = Debt(t)
      BY DEF Debt, Stopping
    <2> QED
      BY <1>0, <2>1
  <1>3. ASSUME UNCHANGED <<pend, frames>>, \A t \in Threads : Live(t)' => Live(t),
               \A i \in Index : tid'[i] # NULL => tid'[i] = tid[i] /\ state'[i] = state[i]
        PROVE  Balance'
    BY <1>1, <1>2, <1>3
  <1>4. CASE GetSlot
    BY <1>3, <1>4 DEF GetSlot, Live
  <1>5. CASE Create
    <2>1. Fresh \in Threads /\ at[Fresh] = "none" /\ tid[slot] = NULL
      BY <1>5 DEF Create, CreateOK, Fresh
    <2>2. \A t \in Threads : Live(t)' => Live(t)
      BY <1>5, <2>1 DEF Create, Live, TypeOK
    <2>3. \A i \in Index : tid'[i] # NULL => tid'[i] = tid[i] /\ state'[i] = state[i]
      BY <1>5, <2>1 DEF Create, TypeOK
    <2> QED
      BY <1>3, <1>5, <2>2, <2>3 DEF Create
  <1>6. ASSUME NEW t \in Threads, Launch(t) PROVE Balance'
    <2>1. slot \in Index /\ state[slot] = "run" /\ ~Live(t)
      BY <1>6 DEF Launch, CreateOK, TypeOK, Live
    <2>2. \A i \in Index : tid'[i] = IF i = slot THEN t ELSE tid[i]
      BY <1>6 DEF Launch, TypeOK
    <2>3. Debt(t)' = 0
      <3>1. pend'[t] = NoSignals /\ frames'[t] = << >>
        BY <1>6, <2>1 DEF Launch, Quiet
      <3>2. Stopping(t)' = 0
        BY <3>1, EmptyStack DEF Stopping
      <3>3. NoSignals["SIGTHREADSTOP"] = 0 /\ NoSignals["SIGTHREADRESTART"] = 0
        BY DEF NoSignals, Signals
      <3> QED
        BY <3>1, <3>2, <3>3 DEF Debt
    <2>4. \A u \in Threads : u # t => (Live(u)' <=> Live(u)) /\ Debt(u)' = Debt(u)
      BY <1>6 DEF Launch, Live, Debt, Stopping, TypeOK
    <2>6. state' = state
      BY <1>6 DEF Launch
    <2> SUFFICES ASSUME NEW i \in Index, NEW u \in Threads, tid'[i] = u
                 PROVE  /\ state'[i] \in {"run", "pause"}
                        /\ Live(u)' => Debt(u)' >= (IF state'[i] = "pause" THEN 1 ELSE 0)
      BY DEF Balance
    <2>7. CASE i = slot
      BY <2>1, <2>2, <2>3, <2>6, <2>7
    <2>8. CASE i # slot
      <3>1. tid[i] = u
        BY <2>2, <2>8
      <3>2. u # t
        BY <1>6, <3>1 DEF SlotsOfTheLiving, InTable, Launch, Live
      <3> QED
        BY <2>4, <2>6, <3>1, <3>2 DEF Balance
    <2> QED
      BY <2>7, <2>8
  <1>7. ASSUME NEW t \in Threads, NEW how \in {"returned", "exited", "cancelled"}, End(t, how),
               \A i \in Index : tid'[i] # NULL => tid'[i] = tid[i] /\ state'[i] = state[i]
        PROVE  Balance'
    <2>1. ~Live(t)'
      BY <1>7, EndOthers DEF Live
    <2>2. \A u \in Threads : u # t =>
             pend'[u] = pend[u] /\ frames'[u] = frames[u] /\ Live(u)' = Live(u)
      BY <1>7, EndOthers
    <2> QED
      BY <1>1, <1>2, <1>7, <2>1, <2>2
  <1>8. ASSUME NEW t \in Threads, Return(t) \/ Terminate(t) PROVE Balance'
    BY <1>7, <1>8 DEF Return, Terminate
  <1>9. ASSUME NEW t \in Threads, ExitFind(t) PROVE Balance'
    BY <1>3, <1>9 DEF ExitFind, Live, TypeOK
  <1>10. ASSUME NEW I, Clear(I), NEW i \in Index, tid'[i] # NULL
         PROVE  tid'[i] = tid[i] /\ state'[i] = state[i]
    BY <1>10 DEF Clear
  <1>11. ASSUME NEW t \in Threads, ExitClear(t) PROVE Balance'
    BY <1>7, <1>10, <1>11 DEF ExitClear
  <1>12. ASSUME NEW t \in Threads, UNCHANGED <<at, tid, state>>, Debt(t)' \in Int, Debt(t)' >= Debt(t),
                \A u \in Threads : u # t => pend'[u] = pend[u] /\ frames'[u] = frames[u]
         PROVE  Balance'
    BY <1>1, <1>2, <1>12 DEF Live
  <1>13. ASSUME NEW t \in Threads, Deliver(t) PROVE Balance'
    <2>1. PICK s \in Signals :
             /\ pend[t][s] > 0 /\ ~Has(frames[t], s)
             /\ pend' = [pend EXCEPT ![t] = [pend[t] EXCEPT ![s] = pend[t][s] - 1]]
             /\ frames' = [frames EXCEPT ![t] = Append(frames[t], s)]
             /\ \A r : Has(frames'[t], r) <=> Has(frames[t], r) \/ r = s
      BY <1>13, DeliverFacts
    <2>2. \A u \in Threads : u # t => pend'[u] = pend[u] /\ frames'[u] = frames[u]
      BY <2>1 DEF TypeOK
    <2>3. \A r \in Signals : pend'[t][r] = IF r = s THEN pend[t][r] - 1 ELSE pend[t][r]
      <3>1. pend[t] \in [Signals -> Nat] /\ pend'[t] = [pend[t] EXCEPT ![s] = pend[t][s] - 1]
        BY <2>1 DEF TypeOK
      <3> QED
        BY <3>1
    <2>4. Debt(t)' >= Debt(t) /\ Debt(t)' \in Int
      <3>1. CASE s = "SIGTHREADSTOP"
        <4>1. Stopping(t) = 0 /\ Stopping(t)' = 1
          BY <2>1, <3>1 DEF Stopping
        <4> QED
          BY <1>0, <2>3, <3>1, <4>1 DEF Debt, Signals
      <3>2. CASE s # "SIGTHREADSTOP"
        <4>1. Has(frames'[t], "SIGTHREADSTOP") <=> Has(frames[t], "SIGTHREADSTOP")
          BY <2>1, <3>2
        <4>2. Stopping(t)' = Stopping(t)
          BY <4>1, Zenon DEF Stopping
        <4>3. Stopping(t) \in Int
          BY DEF Stopping
        <4> QED
          BY <1>0, <2>3, <3>2, <4>2, <4>3 DEF Debt, Signals
      <3> QED
        BY <3>1, <3>2
    <2> QED
      BY <1>12, <1>13, <2>2, <2>4 DEF Deliver
  <1>14. ASSUME NEW t \in Threads, Spurious(t) PROVE Balance'
    <2>1. frames[t] # << >> /\ Top(t) = "SIGTHREADRESTART" /\ pend' = pend
          /\ frames' = [frames EXCEPT ![t] = Pop(t)]
      BY <1>14 DEF Spurious, Handling
    <2>2. Has(frames'[t], "SIGTHREADSTOP") <=> Has(frames[t], "SIGTHREADSTOP")
      BY <2>1, PopFacts DEF TypeOK
    <2>3. Debt(t)' = Debt(t)
      BY <2>1, <2>2, Zenon DEF Debt, Stopping
    <2>4. \A u \in Threads : u # t => pend'[u] = pend[u] /\ frames'[u] = frames[u]
      BY <2>1 DEF TypeOK
    <2> QED
      BY <1>0, <1>12, <1>14, <2>3, <2>4 DEF Spurious
  <1>15. ASSUME NEW t \in Threads, Stop(t) PROVE Balance'
    BY <1>3, <1>15 DEF Stop, Live
  <1>16. ASSUME NEW t \in Threads, SigWait(t) PROVE Balance'
    <2>1. CASE End(t, "cancelled") /\ UNCHANGED <<tid, state>>
      BY <1>7, <2>1
    <2>2. CASE /\ pend[t]["SIGTHREADRESTART"] > 0
               /\ frames[t] # << >> /\ Top(t) = "SIGTHREADSTOP"
               /\ pend' = [pend EXCEPT ![t] = [pend[t] EXCEPT !["SIGTHREADRESTART"] = @ - 1]]
               /\ frames' = [frames EXCEPT ![t] = Pop(t)]
               /\ UNCHANGED <<at, tid, state>>
      <3>1. Has(frames[t], "SIGTHREADSTOP") /\ ~Has(frames'[t], "SIGTHREADSTOP")
        BY <2>2, PopFacts DEF TypeOK
      <3>2. Stopping(t) = 1 /\ Stopping(t)' = 0
        BY <3>1 DEF Stopping
      <3>3. pend[t] \in [Signals -> Nat] /\ pend'[t] = [pend[t] EXCEPT !["SIGTHREADRESTART"] = @ - 1]
        BY <2>2 DEF TypeOK
      <3>4. /\ pend'[t]["SIGTHREADRESTART"] = pend[t]["SIGTHREADRESTART"] - 1
            /\ pend'[t]["SIGTHREADSTOP"] = pend[t]["SIGTHREADSTOP"]
        BY <3>3 DEF Signals
      <3>5. Debt(t)' = Debt(t)
        BY <1>0, <3>2, <3>4 DEF Debt
      <3>6. \A u \in Threads : u # t => pend'[u] = pend[u] /\ frames'[u] = frames[u]
        BY <2>2 DEF TypeOK
      <3> QED
        BY <1>0, <1>12, <2>2, <3>5, <3>6
    <2> QED
      BY <1>16, <2>1, <2>2, SigWaitCases
  <1>17. ASSUME NEW T \in Targets, NEW new \in {"run", "pause"}, NEW I, NEW s,
                I = {j \in Entry(T) : state[j] # new},
                s = IF new = "pause" THEN "SIGTHREADSTOP" ELSE "SIGTHREADRESTART",
                state' = [i \in Index |-> IF i \in I THEN new ELSE state[i]],
                Send({tid[i] : i \in I}, s),
                UNCHANGED <<tid, at, frames>>
         PROVE  Balance'
    <2> SUFFICES ASSUME NEW i \in Index, NEW t \in Threads, tid[i] = t
                 PROVE  /\ state'[i] \in {"run", "pause"}
                        /\ Live(t)' => Debt(t)' >= (IF state'[i] = "pause" THEN 1 ELSE 0)
      BY <1>17 DEF Balance
    <2>1. Live(t)' <=> Live(t)
      BY <1>17 DEF Live
    <2>2. /\ state[i] \in {"run", "pause"}
          /\ Live(t) => Debt(t) >= (IF state[i] = "pause" THEN 1 ELSE 0)
      BY DEF Balance
    <2>3. t \in {tid[j] : j \in I} <=> i \in I
      BY <1>17, ThreadTableAssumption DEF SlotsOfTheLiving, Entry, ThreadTableAssumption
    <2>4. CASE i \notin I
      <3>1. pend'[t] = pend[t] /\ state'[i] = state[i] /\ frames'[t] = frames[t]
        BY <1>17, <2>3, <2>4 DEF Send
      <3>2. Debt(t)' = Debt(t)
        BY <3>1 DEF Debt, Stopping
      <3> QED
        BY <2>1, <2>2, <3>1, <3>2
    <2>5. CASE i \in I
      <3>1. state'[i] = new /\ state[i] # new
        BY <1>17, <2>5
      <3>2. ASSUME Live(t) PROVE Debt(t)' >= (IF new = "pause" THEN 1 ELSE 0)
        <4>1. pend'[t] = [pend[t] EXCEPT ![s] = @ + 1] /\ frames'[t] = frames[t] /\ s \in Signals
          BY <1>17, <2>3, <2>5, <3>2 DEF Send, Signals
        <4>2. CASE new = "pause"
          BY <1>0, <1>17, <2>2, <3>1, <3>2, <4>1, <4>2, DebtOfSignal
        <4>3. CASE new = "run"
          BY <1>0, <1>17, <2>2, <3>1, <3>2, <4>1, <4>3, DebtOfSignal
        <4> QED
          BY <4>2, <4>3
      <3> QED
        BY <2>1, <3>1, <3>2
    <2> QED
      BY <2>4, <2>5
  <1>18. CASE PauseThreads
    <2>1. PICK T \in Targets : Pause(T)
      BY <1>18 DEF PauseThreads
    <2> QED
      BY <1>17, <1>18, <2>1 DEF PauseThreads, Pause
  <1>19. CASE ContThreads
    <2>1. PICK T \in Targets : Cont(T)
      BY <1>19 DEF ContThreads
    <2> QED
      BY <1>17, <1>19, <2>1 DEF ContThreads, Cont
  <1>20. ASSUME NEW T, NEW I, Send(T, "SIGTHREAD"), Clear(I), UNCHANGED <<at, frames>>
         PROVE  Balance'
    <2>1. ASSUME NEW t \in Threads PROVE Debt(t)' = Debt(t)
      <3>1. frames'[t] = frames[t]
        BY <1>20
      <3>2. CASE t \in T /\ Live(t)
        <4>1. pend'[t] = [pend[t] EXCEPT !["SIGTHREAD"] = @ + 1]
          BY <1>20, <3>2 DEF Send
        <4> QED
          BY <3>1, <4>1, DebtOfSignal DEF Signals
      <3>3. CASE ~(t \in T /\ Live(t))
        <4>1. pend'[t] = pend[t]
          BY <1>20, <3>3 DEF Send
        <4> QED
          BY <3>1, <4>1 DEF Debt, Stopping
      <3> QED
        BY <3>2, <3>3
    <2> QED
      BY <1>0, <1>1, <1>10, <1>20, <2>1 DEF Live
  <1>21. CASE CancelThreads
    BY <1>20, <1>21 DEF CancelThreads, Cancel
  <1>22. ASSUME NEW self, CancelAllOthers(self) PROVE Balance'
    BY <1>20, <1>22 DEF CancelAllOthers
  <1>23. ASSUME NEW self, RunOff(self) PROVE Balance'
    BY <1>3, <1>23 DEF RunOff, Live
  <1>24. CASE UNCHANGED vars
    BY <1>3, <1>24 DEF vars, Live
  <1> QED
    BY <1>4, <1>5, <1>6, <1>8, <1>9, <1>11, <1>13, <1>14, <1>15, <1>16, <1>18, <1>19,
       <1>21, <1>22, <1>23, <1>24 DEF Next

(* Slots in use. *)

(* Clearing slots in use; a gap is never forgotten. *)
LEMMA ClearCounts ==
    ASSUME TypeOK, CreateOK, GapKnown, CountKnown, NEW I, I \subseteq Index,
           \A i \in I : tid[i] # NULL, Clear(I), UNCHANGED <<root, slot>>
    PROVE  GapKnown' /\ CountKnown'
  <1>0. IsFiniteSet(Index)
    BY FS_Interval, ThreadTableAssumption DEF Index, ThreadTableAssumption
  <1>1. Occupied \subseteq Index
    BY DEF Occupied, Reserved, TypeOK
  <1>2. Reserved' = Reserved
    BY DEF Reserved
  <1>3. I \cap Reserved = {} /\ I \subseteq Occupied
    BY DEF Occupied, Reserved, CreateOK
  <1>4. Occupied' = Occupied \ I
    BY <1>2, <1>3 DEF Occupied, Clear
  <1>5. IsFiniteSet(Occupied) /\ IsFiniteSet(I)
    BY <1>0, <1>1, <1>3, FS_Subset
  <1>6. Cardinality(Occupied \ I) = Cardinality(Occupied) - Cardinality(Occupied \cap I)
    BY <1>5, FS_Difference
  <1>7. Occupied \cap I = I
    BY <1>3
  <1>8. Cardinality(Occupied) \in Nat /\ Cardinality(I) \in Nat /\ n_threads \in Int
    BY <1>5, FS_CardinalityType DEF TypeOK
  <1>9. n_threads' = n_threads - Cardinality(I)
    BY DEF Clear, ClearCount
  <1>10. Cardinality(Occupied') = Cardinality(Occupied) - Cardinality(I)
    BY <1>4, <1>6, <1>7
  <1>11. gap' = (gap \/ HasGap(Occupied \ I))
    BY DEF Clear
  <1>12. GapKnown'
    BY <1>4, <1>11 DEF GapKnown, HasGap
  <1>13. n_threads' <= Cardinality(Occupied') /\ (~gap => n_threads' = Cardinality(Occupied'))
    BY <1>8, <1>9, <1>10 DEF CountKnown
  <1>14. ~gap' => ~gap
    BY <1>11
  <1>15. Cardinality(Occupied)' = Cardinality(Occupied')
    OBVIOUS
  <1> QED
    BY <1>12, <1>13, <1>14, <1>15 DEF CountKnown

(* The slots below the first free one. *)
LEMMA FirstFree ==
    ASSUME NEW S, S \subseteq Index, NEW i \in Index, i \notin S,
           \A j \in Index : j < i => j \in S
    PROVE  /\ i <= Cardinality(S)
           /\ ~HasGap(S) => i = Cardinality(S)
  <1>0. IsFiniteSet(Index) /\ i \in Nat /\ Index \subseteq Nat
    BY FS_Interval, ThreadTableAssumption DEF Index, ThreadTableAssumption
  <1>1. 0..(i - 1) \subseteq S
    BY <1>0, ThreadTableAssumption DEF Index, ThreadTableAssumption
  <1>2. Cardinality(0..(i - 1)) = i
    <2>1. CASE i = 0
      BY <2>1, FS_Interval
    <2>2. CASE i > 0
      BY <1>0, <2>2, FS_Interval
    <2> QED
      BY <1>0, <2>1, <2>2
  <1>3. IsFiniteSet(S)
    BY <1>0, FS_Subset
  <1>4. i <= Cardinality(S)
    <2>1. Cardinality(0..(i - 1)) <= Cardinality(S)
      BY <1>1, <1>3, FS_Subset, Zenon
    <2> QED
      BY <1>2, <2>1
  <1>5. ASSUME ~HasGap(S) PROVE i = Cardinality(S)
    <2>1. S = 0..(i - 1)
      <3> SUFFICES ASSUME NEW k \in S PROVE k \in 0..(i - 1)
        BY <1>1
      <3>1. k \in Nat /\ k # i /\ k \in Index
        BY <1>0
      <3>2. ~(i < k)
        BY <1>5, <3>1 DEF HasGap
      <3> QED
        BY <1>0, <3>1, <3>2
    <2> QED
      BY <1>2, <2>1
  <1> QED
    BY <1>4, <1>5

LEMMA CountNext == IInv /\ [Next]_vars => GapKnown' /\ CountKnown'
  <1> SUFFICES ASSUME IInv, [Next]_vars PROVE GapKnown' /\ CountKnown'
    OBVIOUS
  <1> USE DEF table, signals, IInv
  <1>1. ASSUME UNCHANGED <<tid, n_threads, gap, root, slot>> PROVE GapKnown' /\ CountKnown'
    BY <1>1 DEF GapKnown, CountKnown, Occupied, Reserved, HasGap
  <1>2. ASSUME UNCHANGED <<n_threads, gap>>, Occupied' = Occupied PROVE GapKnown' /\ CountKnown'
    BY <1>2 DEF GapKnown, CountKnown, HasGap
  <1>3. CASE GetSlot
    <2> DEFINE i == Min({j \in Index : tid[j] = NULL})
    <2>1. i \in Index /\ tid[i] = NULL /\ \A j \in Index : tid[j] = NULL => i <= j
      BY <1>3, MinIndex DEF GetSlot
    <2>2. /\ root = "idle" /\ root' = "got" /\ slot' = i /\ tid' = tid
          /\ n_threads' = (IF i = n_threads THEN i + 1 ELSE n_threads)
          /\ gap' = (gap \/ HasGap(Occupied \cup {i}))
      BY <1>3 DEF GetSlot
    <2> HIDE DEF i
    <2>3. Index \subseteq Nat /\ IsFiniteSet(Index)
      BY FS_Interval, ThreadTableAssumption DEF Index, ThreadTableAssumption
    <2>4. /\ Occupied \subseteq Index /\ i \notin Occupied
          /\ \A j \in Index : j < i => j \in Occupied
      BY <2>1, <2>2, <2>3 DEF Occupied, Reserved
    <2>5. Occupied' = Occupied \cup {i}
      BY <2>2 DEF Occupied, Reserved
    <2>6. IsFiniteSet(Occupied) /\ Cardinality(Occupied) \in Nat
      BY <2>3, <2>4, FS_Subset, FS_CardinalityType
    <2>7. Cardinality(Occupied') = Cardinality(Occupied) + 1
      BY <2>4, <2>5, <2>6, FS_AddElement
    <2>8. i <= Cardinality(Occupied) /\ (~HasGap(Occupied) => i = Cardinality(Occupied))
      BY <2>1, <2>4, FirstFree
    <2>9. n_threads \in Int /\ i \in Nat
      BY <2>1, <2>3 DEF TypeOK
    <2>10. n_threads' <= Cardinality(Occupied')
      BY <2>2, <2>6, <2>7, <2>8, <2>9 DEF CountKnown
    <2>11. ASSUME ~gap' PROVE n_threads' = Cardinality(Occupied')
      <3>1. ~gap
        BY <2>2, <2>11
      <3> QED
        BY <2>2, <2>6, <2>7, <2>8, <2>9, <3>1 DEF CountKnown, GapKnown
    <2>12. GapKnown'
      BY <2>2, <2>5 DEF GapKnown, HasGap
    <2> QED
      BY <2>10, <2>11, <2>12 DEF CountKnown
  <1>4. CASE Create
    BY <1>2, <1>4 DEF Create, Occupied, Reserved
  <1>5. ASSUME NEW t \in Threads, Launch(t) PROVE GapKnown' /\ CountKnown'
    <2>1. root = "sleeping" /\ slot \in Index /\ t # NULL
      BY <1>5, ThreadTableAssumption DEF Launch, CreateOK, TypeOK, ThreadTableAssumption
    <2>2. \A i \in Index : tid'[i] = IF i = slot THEN t ELSE tid[i]
      BY <1>5 DEF Launch, TypeOK
    <2>3. root' = "idle" /\ UNCHANGED <<n_threads, gap>>
      BY <1>5 DEF Launch
    <2>4. Occupied' = Occupied
      BY <2>1, <2>2, <2>3 DEF Occupied, Reserved
    <2> QED
      BY <1>2, <2>3, <2>4
  <1>6. ASSUME NEW t \in Threads, \/ Return(t) \/ ExitFind(t) \/ Deliver(t) \/ Terminate(t)
                                  \/ Spurious(t) \/ Stop(t) \/ SigWait(t)
        PROVE  GapKnown' /\ CountKnown'
    BY <1>1, <1>6 DEF Return, ExitFind, Deliver, Terminate, Spurious, Stop, SigWait
  <1>7. ASSUME NEW t \in Threads, ExitClear(t) PROVE GapKnown' /\ CountKnown'
    <2>1. {found[t]} \subseteq Index /\ \A i \in {found[t]} : tid[i] # NULL
      BY <1>7, OwnSlot
    <2>2. Clear({found[t]}) /\ UNCHANGED <<root, slot>>
      BY <1>7 DEF ExitClear
    <2> QED
      BY <2>1, <2>2, ClearCounts
  <1>8. CASE PauseThreads \/ ContThreads
    BY <1>1, <1>8 DEF PauseThreads, ContThreads
  <1>9. CASE CancelThreads
    <2>1. PICK T \in Targets : Clear(Entry(T)) /\ UNCHANGED <<root, slot>>
      BY <1>9 DEF CancelThreads, Cancel
    <2>2. Entry(T) \subseteq Index /\ \A i \in Entry(T) : tid[i] # NULL
      BY ThreadTableAssumption DEF Entry, Targets, ThreadTableAssumption
    <2> QED
      BY <2>1, <2>2, ClearCounts
  <1>10. ASSUME NEW self, CancelAllOthers(self) PROVE GapKnown' /\ CountKnown'
    <2>1. PICK I \in SUBSET Index : Sweeps(self, I) /\ Clear(I) /\ UNCHANGED <<root, slot>>
      BY <1>10 DEF CancelAllOthers
    <2>2. \A i \in I : tid[i] # NULL
      BY <2>1 DEF Sweeps
    <2> QED
      BY <2>1, <2>2, ClearCounts
  <1>11. ASSUME NEW self, RunOff(self) PROVE GapKnown' /\ CountKnown'
    BY <1>1, <1>11 DEF RunOff
  <1>12. CASE UNCHANGED vars
    BY <1>1, <1>12 DEF vars
  <1> QED
    BY <1>3, <1>4, <1>5, <1>6, <1>7, <1>8, <1>9, <1>10, <1>11, <1>12 DEF Next

-----------------------------------------------------------------------------
(* The theorems. *)

LEMMA InductiveInvariant == Spec => []IInv
  <1>1. IInv /\ [Next]_vars => IInv'
    <2> SUFFICES ASSUME IInv, [Next]_vars PROVE IInv'
      OBVIOUS
    <2>1. TypeOK' /\ Stack' /\ Quiet' /\ CreateOK'
      BY TypeNext, StackNext, QuietNext, CreateNext DEF IInv
    <2>2. SlotsOfTheLiving' /\ LeavingKnows'
      BY OwnersNext DEF OwnersOK
    <2> QED
      BY <2>1, <2>2, BalanceNext, CountNext DEF IInv
  <1> QED
    BY <1>1, InitInv, PTL DEF Spec

(* A thread is in one slot at most and only while it is not cancelled, and a *)
(* running thread that is not cancelled is in one: no slot is cleared by a   *)
(* thread it no longer belongs to.                                           *)
THEOREM SlotsOwned == Spec => []SlotsOfTheLiving
  <1>1. IInv => SlotsOfTheLiving
    BY DEF IInv
  <1> QED
    BY <1>1, InductiveInvariant, PTL

(* A thread that the table calls paused executes no step of its own, however *)
(* often it has been paused and restarted while its handlers ran.            *)
THEOREM PausedStays == Spec => []PauseHolds
  <1>1. IInv => PauseHolds
    <2> SUFFICES ASSUME IInv, NEW i \in Index, state[i] = "pause", tid[i] # NULL,
                        Live(tid[i]), Free(tid[i])
                 PROVE  FALSE
      BY DEF PauseHolds
    <2> DEFINE t == tid[i]
    <2>1. t \in Threads /\ TypeOK
      BY DEF IInv, TypeOK
    <2>2. Debt(t) >= 1
      BY <2>1 DEF IInv, Balance
    <2>3. /\ pend[t]["SIGTHREADSTOP"] = 0 /\ pend[t]["SIGTHREADRESTART"] = 0
          /\ ~Has(frames[t], "SIGTHREADSTOP")
      BY <2>1, FreeNotDoomed DEF Signals
    <2> QED
      BY <2>2, <2>3 DEF Debt, Stopping
  <1> QED
    BY <1>1, InductiveInvariant, PTL

(* n_threads never exceeds the slots in use, and counts them exactly as long *)
(* as they have had no gap.                                                  *)
THEOREM Counted == Spec => []CountKnown
  <1>1. IInv => CountKnown
    BY DEF IInv
  <1> QED
    BY <1>1, InductiveInvariant, PTL

===============================================================================
