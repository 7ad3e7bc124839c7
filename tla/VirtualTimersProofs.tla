-------------------------- MODULE VirtualTimersProofs -------------------------
(* Theorems about VirtualTimers, for any names, priorities and intervals,   *)
(* any number of slots and any depth of handlers.                           *)
EXTENDS VirtualTimers, FiniteSetTheorems, SequenceTheorems, WellFoundedInduction, TLAPS

(* A slot with a handler has a name and an interval; one that a failed      *)
(* VT_ONESHOT call left half filled can only count down below zero.         *)
Sound(t) ==
    /\ t \in Slot
    /\ t.handler => t.name \in Names /\ t.interval \in Intervals
    /\ ~t.handler => t.name = NoName /\ t.prescaler \in {0, -1}

TableOK == vttab \in [Index -> Slot] /\ \A i \in Index : Sound(vttab[i])

CountOK ==
    /\ active \in Int /\ stray \in Int /\ -MaxStray <= stray /\ stray <= MaxStray
    /\ ActiveCount

(* The handler runs on the stack: a payload belongs to a slot, and the      *)
(* innermost run allowed has in_vt_handler set, as it calls nothing.        *)
Frame == {f \in [at : 0..Slots, payload : BOOLEAN] : f.payload => f.at < Slots}
StackOK ==
    /\ frames \in Seq(Frame)
    /\ Len(frames) <= MaxDepth
    /\ Len(frames) = MaxDepth => inVt
    /\ start \in Index
    /\ owed \subseteq 0..MaxDepth

FlagsOK ==
    /\ inVt \in BOOLEAN /\ armed \in BOOLEAN /\ pending \in BOOLEAN /\ blocked \in BOOLEAN
    /\ request \in BOOLEAN /\ held \in BOOLEAN
    /\ killed \in BOOLEAN /\ lost \in BOOLEAN /\ quiet \in BOOLEAN /\ careless \in BOOLEAN
    /\ disp \in {"default", "vt_handler"}

(* Whoever is next to run the handler finds it installed.  Outside of it the *)
(* alarm comes unless a clear has missed: at the latest from the interrupted *)
(* pups_setvitimer of the main line or of the request that runs.            *)
Alarm ==
    /\ active > 0 => disp = "vt_handler"
    /\ frames = << >> => ~inVt
    /\ frames = << >> /\ ~request /\ ~lost => ~blocked
    /\ ~killed /\ frames = << >> /\ active > 0 /\ ~lost
           => armed \/ pending \/ 0 \in owed \/ (request /\ 1 \in owed)

(* Before a careless call SIGALRM waits behind its mask only in a request,  *)
(* two ticks never follow each other, and without the handler there is none. *)
Careful ==
    ~careless =>
        /\ ~killed /\ ~held /\ ~lost /\ stray >= 0
        /\ active <= 0 => disp = "default"
        /\ disp = "default" => ~armed /\ ~pending
        /\ pending => ~armed
        /\ blocked /\ ~(request /\ frames = << >>) => ~armed /\ ~pending

(* While payloads leave the timers alone: a timer with a priority that the  *)
(* current run has yet to reach is one tick behind its age.                 *)
Ahead(i) == frames # << >> /\ (Top.at < i \/ (Top.at = i /\ ~Top.payload))
Timely ==
    quiet =>
        /\ frames = << >> => start = 0
        /\ frames # << >> => inVt /\ Len(frames) = 1
        /\ \A i \in Index : vttab[i].handler /\ vttab[i].priority > 0 =>
               /\ vttab[i].prescaler >= 1
               /\ vttab[i].age + vttab[i].prescaler
                      = vttab[i].interval + (IF Ahead(i) THEN 1 ELSE 0)

IInv ==
    /\ TableOK /\ CountOK
    /\ StackOK /\ FlagsOK /\ Alarm /\ Careful /\ Timely

-----------------------------------------------------------------------------
(* Slots, permutations and frames.                                          *)

LEMMA MinOf ==
    ASSUME NEW S, S \subseteq Nat, S # {}
    PROVE  Min(S) \in S /\ \A y \in S : Min(S) <= y
  <1>1. PICK x \in S : \A y \in S : <<y, x>> \notin OpToRel(<, Nat)
    BY NatLessThanWellFounded, WFMin, Zenon
  <1>2. \A y \in S : x <= y
    <2> SUFFICES ASSUME NEW y \in S PROVE x <= y
      OBVIOUS
    <2>1. ~(y < x)
      BY <1>1 DEF OpToRel
    <2> QED
      BY <2>1
  <1> QED
    BY <1>2 DEF Min

LEMMA FirstFreeIs ==
    ASSUME FirstFree < Slots
    PROVE  FirstFree \in Index /\ ~vttab[FirstFree].handler
  <1>1. Slots \in Nat
    BY VirtualTimersAssumption DEF VirtualTimersAssumption
  <1> DEFINE S == {i \in Index : ~vttab[i].handler} \cup {Slots}
  <1>2. S \subseteq Nat /\ S # {}
    BY <1>1 DEF Index
  <1>3. Min(S) \in S
    <2> HIDE DEF S
    <2> QED
      BY <1>2, MinOf
  <1>4. FirstFree \in S /\ FirstFree # Slots
    BY <1>1, <1>3 DEF FirstFree
  <1> QED
    BY <1>4

LEMMA IndexFinite == IsFiniteSet(Index)
  <1>1. 0 \in Int /\ Slots - 1 \in Int
    BY VirtualTimersAssumption DEF VirtualTimersAssumption
  <1> QED
    BY <1>1, FS_Interval DEF Index

(* Sorting moves slots about and neither drops nor doubles one.             *)
LEMMA SortedIs ==
    ASSUME NEW t, NEW s \in Sorted(t)
    PROVE  \E p \in Bijection(Index, Index) : s = [i \in Index |-> t[p[i]]]
  BY DEF Sorted, Orders

LEMMA SortedCount ==
    ASSUME NEW t, NEW s \in Sorted(t)
    PROVE  Cardinality({i \in Index : InUse(s[i])}) = Cardinality({i \in Index : InUse(t[i])})
  <1>1. PICK p \in Bijection(Index, Index) : s = [i \in Index |-> t[p[i]]]
    BY SortedIs
  <1> DEFINE A == {i \in Index : InUse(s[i])}
             B == {i \in Index : InUse(t[i])}
             f == [i \in A |-> p[i]]
  <1>3. p \in [Index -> Index] /\ \A i, j \in Index : p[i] = p[j] => i = j
    BY DEF Bijection, Injection, IsInjective
  <1>4. \A j \in Index : \E i \in Index : p[i] = j
    BY DEF Bijection, Surjection
  <1>5. f \in [A -> B]
    BY <1>1, <1>3
  <1>6. \A i, j \in A : f[i] = f[j] => i = j
    BY <1>3
  <1>7. \A j \in B : \E i \in A : f[i] = j
    BY <1>1, <1>4
  <1>8. IsFiniteSet(A)
    <2>1. IsFiniteSet(Index)
      BY IndexFinite
    <2> QED
      BY <2>1, FS_Subset
  <1>9. f \in Bijection(A, B)
    <2> HIDE DEF f, A, B
    <2> QED
      BY <1>5, <1>6, <1>7 DEF Bijection, Injection, IsInjective, Surjection
  <1> HIDE DEF f, A, B
  <1>10. Cardinality(A) = Cardinality(B)
    BY <1>8, <1>9, FS_Bijection DEF ExistsBijection
  <1> QED
    BY <1>10 DEF A, B

LEMMA PermutedTable ==
    ASSUME NEW t, t \in [Index -> Slot], NEW s \in Sorted(t), \A i \in Index : Sound(t[i])
    PROVE  s \in [Index -> Slot] /\ \A i \in Index : Sound(s[i]) /\ \E j \in Index : s[i] = t[j]
  <1>1. PICK p \in Bijection(Index, Index) : s = [i \in Index |-> t[p[i]]]
    BY SortedIs
  <1>2. p \in [Index -> Index]
    BY DEF Bijection, Injection
  <1> QED
    BY <1>1, <1>2

LEMMA ReplaceTop ==
    ASSUME frames \in Seq(Frame), frames # << >>, NEW f \in Frame, SetTop(f)
    PROVE  /\ frames' \in Seq(Frame) /\ Len(frames') = Len(frames) /\ frames' # << >>
           /\ Top' = f
  <1>1. Len(frames) \in Nat /\ Len(frames) \in DOMAIN frames
    OBVIOUS
  <1>2. frames' = [frames EXCEPT ![Len(frames)] = f]
    BY DEF SetTop
  <1>3. frames' \in Seq(Frame) /\ Len(frames') = Len(frames) /\ frames'[Len(frames)] = f
    BY <1>1, <1>2, ExceptSeq
  <1> QED
    BY <1>1, <1>3 DEF Top

LEMMA PopFrame ==
    ASSUME NEW F, NEW q \in Seq(F), q # << >>
    PROVE  /\ SubSeq(q, 1, Len(q) - 1) \in Seq(F)
           /\ Len(SubSeq(q, 1, Len(q) - 1)) = Len(q) - 1
  <1>1. Len(q) \in Nat /\ Len(q) >= 1 /\ DOMAIN q = 1..Len(q)
    OBVIOUS
  <1> QED
    BY <1>1

LEMMA SeqSubset ==
    ASSUME NEW F, NEW G, F \subseteq G, NEW q \in Seq(F)
    PROVE  q \in Seq(G)
  OBVIOUS

LEMMA TopIs ==
    ASSUME frames \in Seq(Frame), frames # << >>
    PROVE  /\ Top \in Frame /\ Top.at \in 0..Slots /\ Top.payload \in BOOLEAN
           /\ Top.payload => Top.at < Slots
  <1>1. Top \in Frame
    BY DEF Top
  <1> QED
    BY <1>1 DEF Frame

-----------------------------------------------------------------------------
(* The table and its count.                                                 *)

Counted == {i \in Index : InUse(vttab[i])}

LEMMA CountOf == \A S \in SUBSET Index : IsFiniteSet(S) /\ Cardinality(S) \in Nat
  BY IndexFinite, FS_Subset, FS_CardinalityType

Mark(t) == IF InUse(t) THEN 1 ELSE 0

LEMMA InUseCounts ==
    ASSUME CountOK
    PROVE  /\ IsFiniteSet(Counted) /\ Cardinality(Counted) \in Nat
           /\ active = Cardinality(Counted) + stray
           /\ \A k \in Index : InUse(vttab[k]) => Cardinality(Counted) >= 1
  <1>1. IsFiniteSet(Counted) /\ Cardinality(Counted) \in Nat
    BY CountOf DEF Counted
  <1>2. active = Cardinality(Counted) + stray
    BY DEF CountOK, ActiveCount, Counted
  <1>3. ASSUME NEW k \in Index, InUse(vttab[k])
        PROVE  Cardinality(Counted) >= 1
    <2>1. Counted # {}
      BY <1>3 DEF Counted
    <2>2. Cardinality(Counted) # 0
      BY <1>1, <2>1, FS_EmptySet
    <2> QED
      BY <1>1, <2>2
  <1> QED
    BY <1>1, <1>2, <1>3

LEMMA WithinBound ==
    ASSUME NEW c \in Nat, NEW x \in Int, NEW m \in Nat, c + (IF x < 0 THEN -x ELSE x) <= m
    PROVE  -m <= x /\ x <= m
  OBVIOUS

LEMMA StrayBound ==
    ASSUME stray' \in Int, Odd' <= MaxStray
    PROVE  -MaxStray <= stray' /\ stray' <= MaxStray
  <1> DEFINE S == {i \in Index : InUse(vttab'[i])
                                   /\ (vttab'[i].priority = 0 \/ ~vttab'[i].handler)}
             c == Cardinality(S)
  <1>1. c \in Nat
    BY CountOf
  <1>2. {i \in Index : InUse(vttab[i]) /\ (vttab[i].priority = 0 \/ ~vttab[i].handler)}' = S
    <2>1. Index' = Index
      BY DEF Index
    <2> QED
      BY <2>1 DEF InUse
  <1>3. Odd' = c + (IF stray' < 0 THEN -stray' ELSE stray')
    <2> HIDE DEF S
    <2> QED
      BY <1>2 DEF Odd
  <1>4. MaxStray \in Nat
    BY VirtualTimersAssumption DEF VirtualTimersAssumption
  <1> HIDE DEF c
  <1> QED
    BY <1>1, <1>3, <1>4, WithinBound

(* One slot changes, then the table may be sorted: active_v_timers and the  *)
(* calls that left nothing behind account for it.                           *)
LEMMA OneSlot ==
    ASSUME TableOK, CountOK, NEW k \in Index, NEW x, Sound(x),
           vttab' \in Sorted([vttab EXCEPT ![k] = x]) \cup {[vttab EXCEPT ![k] = x]},
           active' \in Int, stray' \in Int, -MaxStray <= stray', stray' <= MaxStray,
           (active' - stray') + Mark(vttab[k]) = (active - stray) + Mark(x)
    PROVE  TableOK' /\ CountOK'
  <1> DEFINE t == [vttab EXCEPT ![k] = x]
             T == {i \in Index : InUse(t[i])}
  <1>0. Index' = Index /\ MaxStray \in Nat
    BY VirtualTimersAssumption DEF Index, VirtualTimersAssumption
  <1>1. t \in [Index -> Slot] /\ \A i \in Index : Sound(t[i])
    BY DEF TableOK, Sound
  <1>2. vttab' \in [Index -> Slot] /\ \A i \in Index : Sound(vttab'[i])
    <2>1. CASE vttab' = t
      BY <2>1, <1>1
    <2>2. CASE vttab' \in Sorted(t)
      <3> HIDE DEF t
      <3> QED
        BY <2>2, <1>1, PermutedTable
    <2> QED
      BY <2>1, <2>2
  <1>3. TableOK'
    BY <1>0, <1>2 DEF TableOK, Sound
  <1>4. Cardinality({i \in Index : InUse(vttab'[i])}) = Cardinality(T)
    <2>1. CASE vttab' = t
      BY <2>1
    <2>2. CASE vttab' \in Sorted(t)
      <3> HIDE DEF t
      <3> QED
        BY <2>2, SortedCount
    <2> QED
      BY <2>1, <2>2
  <1>5. T = (Counted \ {k}) \cup (IF InUse(x) THEN {k} ELSE {})
    BY DEF Counted, TableOK
  <1>6. IsFiniteSet(Counted) /\ Cardinality(Counted) \in Nat
    BY CountOf DEF Counted
  <1> DEFINE R == Counted \ {k}
  <1>7. IsFiniteSet(R) /\ Cardinality(R) = Cardinality(Counted) - Mark(vttab[k])
    <2>1. k \in Counted <=> InUse(vttab[k])
      BY DEF Counted
    <2>2. /\ IsFiniteSet(R)
          /\ Cardinality(R) = IF k \in Counted THEN Cardinality(Counted) - 1 ELSE Cardinality(Counted)
      BY <1>6, FS_RemoveElement, Zenon
    <2> QED
      BY <1>6, <2>1, <2>2 DEF Mark
  <1>8. Cardinality(R \cup {k}) = Cardinality(R) + 1
    <2>1. k \notin R
      OBVIOUS
    <2> HIDE DEF R
    <2> QED
      BY <1>7, <2>1, FS_AddElement, Zenon
  <1>9. Cardinality(T) = Cardinality(Counted) - Mark(vttab[k]) + Mark(x)
    <2>1. Mark(vttab[k]) \in {0, 1}
      BY DEF Mark
    <2> HIDE DEF T
    <2>2. CASE InUse(x)
      <3>1. T = R \cup {k} /\ Mark(x) = 1
        BY <1>5, <2>2 DEF Mark
      <3> HIDE DEF R
      <3> QED
        BY <1>6, <1>7, <1>8, <2>1, <3>1
    <2>3. CASE ~InUse(x)
      <3>1. T = R /\ Mark(x) = 0
        BY <1>5, <2>3 DEF Mark
      <3> HIDE DEF R
      <3> QED
        BY <1>6, <1>7, <2>1, <3>1
    <2> QED
      BY <2>2, <2>3
  <1>10. active = Cardinality(Counted) + stray /\ active \in Int /\ stray \in Int
    BY DEF CountOK, ActiveCount, Counted
  <1>11. active' = Cardinality({i \in Index : InUse(vttab'[i])}) + stray'
    <2>1. Mark(vttab[k]) \in {0, 1} /\ Mark(x) \in {0, 1}
      BY DEF Mark
    <2> HIDE DEF T
    <2> QED
      BY <1>4, <1>6, <1>9, <1>10, <2>1
  <1> QED
    BY <1>0, <1>3, <1>11 DEF CountOK, ActiveCount, InUse

(* Slots change in fields that neither name nor count them.                 *)
LEMMA SameCount ==
    ASSUME TableOK, CountOK, active' = active, stray' = stray,
           vttab' \in [Index -> Slot],
           \A i \in Index : /\ Sound(vttab'[i]) /\ vttab'[i].priority = vttab[i].priority
                            /\ vttab'[i].handler = vttab[i].handler
    PROVE  TableOK' /\ CountOK'
  <1>0. Index' = Index
    BY DEF Index
  <1>1. TableOK'
    BY <1>0 DEF TableOK, Sound
  <1>2. {i \in Index' : InUse(vttab'[i])} = {i \in Index : InUse(vttab[i])}
    BY <1>0 DEF InUse
  <1>3. {i \in Index : InUse(vttab[i])}' = {i \in Index : InUse(vttab[i])}
    BY <1>2 DEF InUse
  <1> QED
    BY <1>1, <1>3 DEF CountOK, ActiveCount

LEMMA NewTimer ==
    ASSUME NEW n \in Names, NEW p \in Priorities, NEW v \in Intervals
    PROVE  LET x == [name |-> n, priority |-> p, prescaler |-> v, interval |-> v,
                     handler |-> TRUE, age |-> 0]
           IN  Sound(x) /\ Mark(x) = 1
  BY VirtualTimersAssumption DEF Sound, Slot, VirtualTimersAssumption, Mark, InUse

LEMMA TableStep ==
    ASSUME IInv, [Next]_vars
    PROVE  TableOK' /\ CountOK'
  <1> USE DEF IInv
  <1>0. \A i \in Index : /\ vttab[i] \in Slot /\ Sound(vttab[i])
                         /\ vttab[i].priority \in Nat
    <2>1. \A y \in Slot : y.priority \in Priorities \cup {0}
      BY DEF Slot
    <2>2. Priorities \cup {0} \subseteq Nat
      BY VirtualTimersAssumption DEF VirtualTimersAssumption
    <2>3. \A i \in Index : vttab[i] \in Slot /\ Sound(vttab[i])
      BY DEF TableOK
    <2> QED
      BY <2>1, <2>2, <2>3, Zenon
  <1>n. /\ active \in Int /\ stray \in Int /\ -MaxStray <= stray /\ stray <= MaxStray
        /\ MaxStray \in Nat /\ Priorities \subseteq Nat
    BY VirtualTimersAssumption DEF CountOK, VirtualTimersAssumption
  <1>m. \A i \in Index : ~vttab[i].handler
            => Mark(vttab[i]) = IF vttab[i].priority = 0 THEN 0 ELSE 1
    BY <1>0 DEF Mark, InUse
  <1>1. ASSUME NEW n \in Names, NEW p \in Priorities, NEW v \in Intervals, SetTimer(n, p, v)
        PROVE  TableOK' /\ CountOK'
    <2> DEFINE x == [name |-> n, priority |-> p, prescaler |-> v, interval |-> v,
                     handler |-> TRUE, age |-> 0]
    <2>1. Sound(x) /\ Mark(x) = 1
      BY NewTimer
    <2>2. FirstFree \in Index /\ ~vttab[FirstFree].handler
      BY <1>1, FirstFreeIs DEF SetTimer
    <2>3. vttab' \in Sorted([vttab EXCEPT ![FirstFree] = x])
      BY <1>1 DEF SetTimer
    <2>4. active' = active + (IF vttab[FirstFree].priority = 0 THEN 1 ELSE 0) /\ stray' = stray
      BY <1>1 DEF SetTimer
    <2>5. Mark(vttab[FirstFree]) = IF vttab[FirstFree].priority = 0 THEN 0 ELSE 1
      BY <1>m, <2>2
    <2> HIDE DEF x
    <2>6. (active' - stray') + Mark(vttab[FirstFree]) = (active - stray) + Mark(x)
      BY <1>n, <2>1, <2>4, <2>5
    <2>7. active' \in Int /\ stray' \in Int /\ -MaxStray <= stray' /\ stray' <= MaxStray
      BY <1>n, <2>4
    <2> QED
      BY <2>1, <2>2, <2>3, <2>6, <2>7, OneSlot
  <1>2. ASSUME NEW n \in Names, NEW p \in Priorities, SetOneShot(n, p)
        PROVE  TableOK' /\ CountOK'
    <2> DEFINE x == [vttab[FirstFree] EXCEPT !.priority = p]
    <2>1. FirstFree \in Index /\ ~vttab[FirstFree].handler
      BY <1>2, FirstFreeIs DEF SetOneShot
    <2>2. Sound(x) /\ Mark(x) = IF p = 0 THEN 0 ELSE 1
      BY <1>0, <1>n, <2>1 DEF Sound, Slot, Mark, InUse
    <2>3. vttab' = [vttab EXCEPT ![FirstFree] = x]
      BY <1>2 DEF SetOneShot
    <2>4. /\ active' = active + (IF vttab[FirstFree].priority = 0 THEN 1 ELSE 0)
          /\ stray' = stray + (IF p = 0 THEN 1 ELSE 0)
      BY <1>2 DEF SetOneShot
    <2>5. Mark(vttab[FirstFree]) = IF vttab[FirstFree].priority = 0 THEN 0 ELSE 1
      BY <1>m, <2>1
    <2> HIDE DEF x
    <2>6. (active' - stray') + Mark(vttab[FirstFree]) = (active - stray) + Mark(x)
      BY <1>n, <2>2, <2>4, <2>5
    <2>7. Odd' <= MaxStray
      BY <1>2 DEF SetOneShot
    <2>8. active' \in Int /\ stray' \in Int /\ -MaxStray <= stray' /\ stray' <= MaxStray
      BY <1>n, <2>4, <2>7, StrayBound
    <2> QED
      BY <2>1, <2>2, <2>3, <2>6, <2>8, OneSlot
  <1>3. ASSUME NEW n \in Names \cup {NoName}, ClearTimer(n)
        PROVE  TableOK' /\ CountOK'
    <2>1. PICK i \in Index : /\ vttab' = [vttab EXCEPT ![i] = Empty]
                             /\ stray' = stray - (IF InUse(vttab[i]) THEN 0 ELSE 1)
      BY <1>3 DEF ClearTimer
    <2>2. Sound(Empty) /\ Mark(Empty) = 0
      BY DEF Sound, Empty, Slot, Mark, InUse
    <2>3. active' = active - 1 /\ Odd' <= MaxStray
      BY <1>3 DEF ClearTimer
    <2>4. (active' - stray') + Mark(vttab[i]) = (active - stray) + Mark(Empty)
      BY <1>n, <2>1, <2>2, <2>3 DEF Mark
    <2>5. active' \in Int /\ stray' \in Int /\ -MaxStray <= stray' /\ stray' <= MaxStray
      BY <1>n, <2>1, <2>3, StrayBound
    <2> QED
      BY <2>1, <2>2, <2>4, <2>5, OneSlot
  <1>4. CASE Pass
    <2>1. PICK i \in 0..Slots : Top.at = i /\ i < Slots
      BY <1>4, TopIs DEF Pass, InLoop, StackOK
    <2>2. i \in Index
      BY <2>1, VirtualTimersAssumption DEF Index, VirtualTimersAssumption
    <2> DEFINE y == CountDown(vttab[i].prescaler)
    <2>3. /\ vttab[i].priority > 0 => y # 0
          /\ vttab' = IF vttab[i].priority > 0
                      THEN [vttab EXCEPT ![i].prescaler = y] ELSE vttab
          /\ active' = active /\ stray' = stray
      BY <1>4, <2>1 DEF Pass
    <2>4. y \in Nat \cup {-1} /\ (~vttab[i].handler => y = -1)
      BY <1>0, <2>2 DEF CountDown, Slot, Sound
    <2> HIDE DEF y
    <2>5. /\ vttab' \in [Index -> Slot]
          /\ \A j \in Index : /\ Sound(vttab'[j]) /\ vttab'[j].priority = vttab[j].priority
                             /\ vttab'[j].handler = vttab[j].handler
      <3>1. CASE vttab[i].priority > 0
        <4> DEFINE x == [vttab[i] EXCEPT !.prescaler = y]
        <4>1. Sound(x) /\ x \in Slot /\ x.priority = vttab[i].priority /\ x.handler = vttab[i].handler
          BY <1>0, <2>2, <2>4 DEF Sound, Slot
        <4>2. vttab' = [vttab EXCEPT ![i] = x]
          BY <2>3, <3>1
        <4> HIDE DEF x
        <4> QED
          BY <1>0, <2>2, <4>1, <4>2 DEF TableOK
      <3>2. CASE ~(vttab[i].priority > 0)
        BY <1>0, <2>3, <3>2 DEF TableOK
      <3> QED
        BY <3>1, <3>2
    <2> QED
      BY <2>3, <2>5, SameCount
  <1>5. CASE Fire
    <2>1. PICK i \in 0..Slots : Top.at = i /\ i < Slots
      BY <1>5, TopIs DEF Fire, InLoop, StackOK
    <2>2. i \in Index
      BY <2>1, VirtualTimersAssumption DEF Index, VirtualTimersAssumption
    <2> DEFINE x == [vttab[i] EXCEPT !.prescaler = vttab[i].interval, !.age = 0]
    <2>3. /\ vttab[i].priority > 0 /\ CountDown(vttab[i].prescaler) = 0
          /\ vttab' = [vttab EXCEPT ![i] = x] /\ active' = active /\ stray' = stray
      BY <1>5, <2>1, <2>2, <1>0 DEF Fire, Slot
    <2>4. vttab[i].handler
      BY <1>0, <2>2, <2>3 DEF Sound, CountDown
    <2>5. Sound(x) /\ x \in Slot /\ x.priority = vttab[i].priority /\ x.handler = vttab[i].handler
      BY <1>0, <2>2, <2>4, VirtualTimersAssumption DEF Sound, Slot, VirtualTimersAssumption
    <2> HIDE DEF x
    <2>6. /\ vttab' \in [Index -> Slot]
          /\ \A j \in Index : /\ Sound(vttab'[j]) /\ vttab'[j].priority = vttab[j].priority
                             /\ vttab'[j].handler = vttab[j].handler
      BY <1>0, <2>2, <2>3, <2>5 DEF TableOK
    <2> QED
      BY <2>3, <2>6, SameCount
  <1>6. CASE Enter
    <2>1. \A i \in Index : /\ Older(vttab[i]) \in Slot /\ Sound(Older(vttab[i]))
                           /\ Older(vttab[i]).priority = vttab[i].priority
                           /\ Older(vttab[i]).handler = vttab[i].handler
      BY <1>0 DEF Older, Sound, Slot
    <2>2. vttab' = [i \in Index |-> Older(vttab[i])] /\ active' = active /\ stray' = stray
      BY <1>6 DEF Enter
    <2>3. /\ vttab' \in [Index -> Slot]
          /\ \A j \in Index : /\ Sound(vttab'[j]) /\ vttab'[j].priority = vttab[j].priority
                             /\ vttab'[j].handler = vttab[j].handler
      BY <2>1, <2>2
    <2> QED
      BY <2>2, <2>3, SameCount
  <1>7. CASE UNCHANGED <<vttab, active, stray>>
    <2>1. /\ vttab' \in [Index -> Slot]
          /\ \A j \in Index : /\ Sound(vttab'[j]) /\ vttab'[j].priority = vttab[j].priority
                             /\ vttab'[j].handler = vttab[j].handler
      BY <1>0, <1>7 DEF TableOK
    <2> QED
      BY <1>7, <2>1, SameCount
  <1> QED
    BY <1>1, <1>2, <1>3, <1>4, <1>5, <1>6, <1>7
       DEF Next, Handler, SetRefused, ClearMiss, Restart, SetQuantum, Rearm, BeginRequest,
           EndRequest, Abort, Tick, Kill, Ignore, PayloadReturns, Leave, Jump, Dead, vars

-----------------------------------------------------------------------------
(* The stack of handlers.                                                   *)

LEMMA StackStep ==
    ASSUME IInv, [Next]_vars
    PROVE  StackOK'
  <1> USE DEF IInv
  <1>0. /\ Slots \in Nat \ {0} /\ MaxDepth \in Nat \ {0} /\ Index' = Index
        /\ Len(frames) \in Nat /\ Frame' = Frame
    BY VirtualTimersAssumption DEF VirtualTimersAssumption, Index, StackOK, Frame
  <1>l. Running \/ Level \in owed => Level \in 0..MaxDepth
    BY <1>0 DEF Running, Level, StackOK
  <1>1. ASSUME Running, UNCHANGED <<frames, start>>, owed' \subseteq owed \cup {Level}
        PROVE  StackOK'
    <2>1. Len(frames) # MaxDepth
      <3>1. CASE frames = << >>
        BY <1>0, <3>1
      <3>2. CASE frames # << >>
        BY <1>1, <3>2 DEF Running
      <3> QED
        BY <3>1, <3>2
    <2> QED
      BY <1>0, <1>1, <1>l, <2>1 DEF StackOK
  <1>2. ASSUME UNCHANGED <<frames, start, inVt>>, owed' \subseteq owed
        PROVE  StackOK'
    BY <1>0, <1>2 DEF StackOK
  <1>3. CASE Enter
    <2> DEFINE f == [at |-> start, payload |-> FALSE]
    <2>1. f \in Frame
      BY <1>0 DEF Frame, StackOK, Index
    <2>2. frames' = Append(frames, f) /\ inVt' /\ ~inVt /\ UNCHANGED <<start, owed>>
      BY <1>3 DEF Enter
    <2> HIDE DEF f
    <2>3. frames' \in Seq(Frame) /\ Len(frames') = Len(frames) + 1
      BY <2>1, <2>2, AppendProperties DEF StackOK
    <2> QED
      BY <1>0, <2>2, <2>3 DEF StackOK
  <1>4. CASE Pass
    <2>1. frames # << >> /\ Top.at \in 0..Slots /\ Top.at < Slots
      BY <1>4, TopIs DEF Pass, InLoop, StackOK
    <2> DEFINE f == [at |-> Top.at + 1, payload |-> FALSE]
    <2>2. f \in Frame
      BY <1>0, <2>1 DEF Frame
    <2>3. SetTop(f) /\ UNCHANGED <<start, inVt, owed>>
      BY <1>4 DEF Pass
    <2> HIDE DEF f
    <2>4. frames' \in Seq(Frame) /\ Len(frames') = Len(frames)
      BY <2>1, <2>2, <2>3, ReplaceTop DEF StackOK
    <2> QED
      BY <1>0, <2>3, <2>4 DEF StackOK
  <1>5. CASE Fire
    <2>1. frames # << >> /\ Top.at \in 0..Slots /\ Top.at < Slots
      BY <1>5, TopIs DEF Fire, InLoop, StackOK
    <2> DEFINE f == [at |-> Top.at, payload |-> TRUE]
    <2>2. f \in Frame
      BY <1>0, <2>1 DEF Frame
    <2>3. SetTop(f) /\ start' \in {start, Top.at} /\ UNCHANGED <<inVt, owed>>
      BY <1>5 DEF Fire
    <2> HIDE DEF f
    <2>4. frames' \in Seq(Frame) /\ Len(frames') = Len(frames)
      BY <2>1, <2>2, <2>3, ReplaceTop DEF StackOK
    <2> QED
      BY <1>0, <2>1, <2>3, <2>4 DEF StackOK, Index
  <1>6. CASE PayloadReturns
    <2>1. frames # << >> /\ Top.at \in 0..Slots /\ Top.at < Slots
      BY <1>6, TopIs DEF PayloadReturns, InPayload, StackOK
    <2> DEFINE f == [at |-> Top.at + 1, payload |-> FALSE]
    <2>2. f \in Frame
      BY <1>0, <2>1 DEF Frame
    <2>3. SetTop(f) /\ UNCHANGED <<start, inVt, owed>>
      BY <1>6 DEF PayloadReturns
    <2> HIDE DEF f
    <2>4. frames' \in Seq(Frame) /\ Len(frames') = Len(frames)
      BY <2>1, <2>2, <2>3, ReplaceTop DEF StackOK
    <2> QED
      BY <1>0, <2>3, <2>4 DEF StackOK
  <1>7. CASE Leave
    <2>1. /\ frames # << >> /\ frames' = SubSeq(frames, 1, Len(frames) - 1)
          /\ start' = 0 /\ owed' = owed
      BY <1>7 DEF Leave, InLoop
    <2>2. frames' \in Seq(Frame) /\ Len(frames') = Len(frames) - 1
      <3>1. frames \in Seq(Frame)
        BY DEF StackOK
      <3> QED
        BY <2>1, <3>1, PopFrame
    <2> QED
      BY <1>0, <2>1, <2>2 DEF StackOK, Index
  <1>8. CASE Jump \/ Abort
    <2>1. frames' = << >> /\ start' = start /\ owed' \subseteq owed
      BY <1>8 DEF Jump, Abort
    <2>2. frames' \in Seq(Frame) /\ Len(frames') = 0
      BY <2>1
    <2> QED
      BY <1>0, <2>1, <2>2 DEF StackOK
  <1> QED
    BY <1>1, <1>2, <1>3, <1>4, <1>5, <1>6, <1>7, <1>8
       DEF Next, Handler, SetTimer, SetOneShot, SetRefused, ClearTimer, ClearMiss, Restart,
           SetQuantum, Rearm, BeginRequest, EndRequest, Tick, Kill, Ignore, Dead,
           ArmAfterInstall, Arm, stack, vars

-----------------------------------------------------------------------------
(* The alarm.                                                               *)

LEMMA FlagsStep ==
    ASSUME IInv, [Next]_vars
    PROVE  FlagsOK'
  <1> USE DEF IInv, FlagsOK
  <1>1. ASSUME NEW n \in Names, NEW p \in Priorities, NEW v \in Intervals, SetTimer(n, p, v)
        PROVE  FlagsOK'
    BY <1>1 DEF SetTimer, Install, ArmAfterInstall, Arm, Noted
  <1>2. ASSUME NEW n \in Names, NEW p \in Priorities, SetOneShot(n, p)
        PROVE  FlagsOK'
    BY <1>2 DEF SetOneShot, Install, ArmAfterInstall, Arm, Noted
  <1>3. CASE SetRefused
    BY <1>3 DEF SetRefused, Arm, Noted, stack
  <1>4. ASSUME NEW n \in Names \cup {NoName}, ClearTimer(n)
        PROVE  FlagsOK'
    <2>1. (active > 1) \in BOOLEAN /\ (stray' < stray) \in BOOLEAN
      OBVIOUS
    <2>2. /\ armed' = (active > 1) /\ disp' = IF active > 1 THEN disp ELSE "default"
          /\ blocked' = FALSE /\ lost' = FALSE /\ quiet' = (quiet /\ frames = << >>)
          /\ careless' = (careless \/ stray' < stray \/ (request /\ frames = << >> /\ blocked))
          /\ UNCHANGED <<inVt, request, held, pending, killed>>
      BY <1>4, Zenon DEF ClearTimer, Noted, stack
    <2> QED
      BY <2>1, <2>2
  <1>5. ASSUME NEW n \in Names \cup {NoName}, ClearMiss(n)
        PROVE  FlagsOK'
    BY <1>5 DEF ClearMiss, Noted, stack
  <1>6. CASE Restart
    BY <1>6 DEF Restart, Noted
  <1>7. CASE Tick \/ Kill \/ Ignore
    BY <1>7 DEF Tick, Kill, Ignore, stack
  <1>8. CASE Enter
    BY <1>8 DEF Enter
  <1>9. CASE Pass \/ Fire \/ PayloadReturns
    BY <1>9 DEF Pass, Fire, PayloadReturns
  <1>10. CASE Leave
    BY <1>10 DEF Leave
  <1>11. CASE Jump
    BY <1>11 DEF Jump
  <1>12. CASE UNCHANGED vars
    BY <1>12 DEF vars
  <1>13. CASE SetQuantum \/ Rearm
    BY <1>13 DEF SetQuantum, Rearm, Malarm, Noted, stack
  <1>14. CASE BeginRequest \/ EndRequest
    BY <1>14 DEF BeginRequest, EndRequest
  <1>15. CASE Abort
    BY <1>15 DEF Abort
  <1> QED
    BY <1>1, <1>2, <1>3, <1>4, <1>5, <1>6, <1>7, <1>8, <1>9, <1>10, <1>11, <1>12, <1>13,
       <1>14, <1>15 DEF Next, Handler, Dead

LEMMA AlarmStep ==
    ASSUME IInv, [Next]_vars, active' \in Int
    PROVE  Alarm'
  <1> USE DEF IInv, FlagsOK, Alarm
  <1>0. active \in Int /\ (frames = << >> => Level = IF request THEN 1 ELSE 0)
    BY DEF CountOK, Level
  <1>1. ASSUME NEW n \in Names, NEW p \in Priorities, NEW v \in Intervals, SetTimer(n, p, v)
        PROVE  Alarm'
    BY <1>0, <1>1 DEF SetTimer, Install, ArmAfterInstall, Arm
  <1>2. ASSUME NEW n \in Names, NEW p \in Priorities, SetOneShot(n, p)
        PROVE  Alarm'
    BY <1>0, <1>2 DEF SetOneShot, Install, ArmAfterInstall, Arm
  <1>3. CASE SetRefused
    BY <1>0, <1>3 DEF SetRefused, Arm, stack
  <1>4. ASSUME NEW n \in Names \cup {NoName}, ClearTimer(n)
        PROVE  Alarm'
    BY <1>0, <1>4 DEF ClearTimer, stack
  <1>5. ASSUME NEW n \in Names \cup {NoName}, ClearMiss(n)
        PROVE  Alarm'
    BY <1>5 DEF ClearMiss, stack
  <1>6. CASE Restart
    BY <1>6 DEF Restart
  <1>7. CASE Tick \/ Kill \/ Ignore
    BY <1>7 DEF Tick, Kill, Ignore, stack
  <1>8. CASE Enter
    <2>1. frames' # << >>
      BY <1>8, AppendProperties DEF Enter, StackOK
    <2> QED
      BY <1>8, <2>1 DEF Enter
  <1>9. CASE Pass \/ Fire \/ PayloadReturns
    <2>1. frames # << >> /\ Len(frames) \in Nat /\ Len(frames) > 0
      BY <1>9 DEF Pass, Fire, PayloadReturns, InLoop, InPayload, StackOK
    <2>2. frames' # << >>
      BY <1>9, <2>1 DEF Pass, Fire, PayloadReturns, SetTop, StackOK
    <2> QED
      BY <1>9, <2>2 DEF Pass, Fire, PayloadReturns
  <1>10. CASE Leave
    BY <1>10 DEF Leave
  <1>11. CASE Jump
    BY <1>11 DEF Jump
  <1>12. CASE UNCHANGED vars
    BY <1>12 DEF vars
  <1>13. CASE SetQuantum \/ Rearm
    BY <1>13 DEF SetQuantum, Rearm, Malarm, stack
  <1>14. CASE BeginRequest \/ EndRequest
    BY <1>0, <1>14 DEF BeginRequest, EndRequest
  <1>15. CASE Abort
    BY <1>15 DEF Abort
  <1> QED
    BY <1>1, <1>2, <1>3, <1>4, <1>5, <1>6, <1>7, <1>8, <1>9, <1>10, <1>11, <1>12, <1>13,
       <1>14, <1>15 DEF Next, Handler, Dead

(* Before a careless call the count is that of the slots in use or more, so *)
(* a call that fills or half fills a slot leaves it positive.               *)
LEMMA SetKeepsCareful ==
    ASSUME IInv, Running, Install, ArmAfterInstall, FirstFree < Slots,
           active' = active + (IF vttab[FirstFree].priority = 0 THEN 1 ELSE 0),
           stray' \in Int, stray' >= stray, UNCHANGED <<held, killed, careless>>
    PROVE  Careful'
  <1> USE DEF IInv, FlagsOK, Careful
  <1> SUFFICES ASSUME ~careless PROVE Careful'
    OBVIOUS
  <1>1. /\ active \in Int /\ stray \in Int /\ stray >= 0 /\ active >= 0
        /\ active = Cardinality(Counted) + stray /\ Cardinality(Counted) \in Nat
    BY InUseCounts DEF CountOK
  <1>2. active' \in Int /\ active' > 0
    <2>1. CASE vttab[FirstFree].priority = 0
      BY <1>1, <2>1
    <2>2. CASE vttab[FirstFree].priority # 0
      <3>1. FirstFree \in Index
        BY FirstFreeIs
      <3>2. vttab[FirstFree].priority \in Nat
        <4>1. \A y \in Slot : y.priority \in Priorities \cup {0}
          BY DEF Slot
        <4>2. Priorities \cup {0} \subseteq Nat
          BY VirtualTimersAssumption DEF VirtualTimersAssumption
        <4> QED
          BY <3>1, <4>1, <4>2 DEF TableOK
      <3>3. InUse(vttab[FirstFree])
        BY <2>2, <3>2 DEF InUse
      <3> QED
        BY <1>1, <2>2, <3>1, <3>3, InUseCounts
    <2> QED
      BY <2>1, <2>2
  <1>3. disp' = "vt_handler" /\ blocked' = FALSE /\ lost' = FALSE
    BY <1>1 DEF Install, ArmAfterInstall, Arm, Alarm
  <1>4. pending' => ~armed'
    BY <1>1 DEF ArmAfterInstall, Arm, Running, Undisturbed, Alarm
  <1> QED
    BY <1>1, <1>2, <1>3, <1>4

LEMMA CarefulStep ==
    ASSUME IInv, [Next]_vars
    PROVE  Careful'
  <1> USE DEF IInv, FlagsOK, Careful
  <1>0. /\ active \in Int /\ stray \in Int
        /\ active = Cardinality(Counted) + stray /\ Cardinality(Counted) \in Nat
    BY InUseCounts DEF CountOK
  <1>1. ASSUME NEW n \in Names, NEW p \in Priorities, NEW v \in Intervals, SetTimer(n, p, v)
        PROVE  Careful'
    <2>1. /\ Running /\ Install /\ ArmAfterInstall /\ FirstFree < Slots
          /\ active' = active + (IF vttab[FirstFree].priority = 0 THEN 1 ELSE 0)
          /\ stray' = stray /\ UNCHANGED <<held, killed, careless>>
      BY <1>1 DEF SetTimer
    <2>2. stray' \in Int /\ stray' >= stray
      BY <1>0, <2>1
    <2> QED
      BY <2>1, <2>2, SetKeepsCareful
  <1>2. ASSUME NEW n \in Names, NEW p \in Priorities, SetOneShot(n, p)
        PROVE  Careful'
    <2>1. /\ Running /\ Install /\ ArmAfterInstall /\ FirstFree < Slots
          /\ active' = active + (IF vttab[FirstFree].priority = 0 THEN 1 ELSE 0)
          /\ stray' = stray + (IF p = 0 THEN 1 ELSE 0) /\ UNCHANGED <<held, killed, careless>>
      BY <1>2 DEF SetOneShot
    <2>2. stray' \in Int /\ stray' >= stray
      BY <1>0, <2>1
    <2> QED
      BY <2>1, <2>2, SetKeepsCareful
  <1>3. CASE SetRefused
    BY <1>3 DEF SetRefused, Running, Undisturbed, Arm, stack
  <1>4. ASSUME NEW n \in Names \cup {NoName}, ClearTimer(n)
        PROVE  Careful'
    <2> SUFFICES ASSUME ~careless' PROVE Careful'
      OBVIOUS
    <2>1. PICK i \in Index : stray' = stray - (IF InUse(vttab[i]) THEN 0 ELSE 1)
      BY <1>4 DEF ClearTimer
    <2>2. /\ ~careless /\ ~(stray' < stray) /\ ~(request /\ frames = << >> /\ blocked)
          /\ active' = active - 1 /\ armed' = (active > 1) /\ blocked' = FALSE /\ lost' = FALSE
          /\ disp' = IF active > 1 THEN disp ELSE "default"
          /\ UNCHANGED <<pending, killed, held>>
      BY <1>4 DEF ClearTimer, stack
    <2>3. InUse(vttab[i]) /\ stray' = stray
      BY <1>0, <2>1, <2>2
    <2>4. ~pending
      BY <1>4, <2>2 DEF ClearTimer, Running, Undisturbed
    <2>5. active > 1 => disp = "vt_handler"
      BY <1>0 DEF Alarm
    <2> QED
      BY <1>0, <2>2, <2>3, <2>4, <2>5
  <1>5. ASSUME NEW n \in Names \cup {NoName}, ClearMiss(n)
        PROVE  Careful'
    BY <1>5 DEF ClearMiss
  <1>6. CASE Restart
    BY <1>0, <1>6 DEF Restart, Running, Undisturbed
  <1>7. CASE Tick \/ Kill \/ Ignore
    BY <1>7 DEF Tick, Kill, Ignore, stack
  <1>8. CASE Enter
    <2>1. frames' # << >>
      BY <1>8, AppendProperties DEF Enter, StackOK
    <2> QED
      BY <1>8, <2>1 DEF Enter, Deliverable
  <1>9. CASE Pass \/ Fire \/ PayloadReturns
    <2>1. frames # << >> /\ Len(frames) \in Nat /\ Len(frames) > 0
      BY <1>9 DEF Pass, Fire, PayloadReturns, InLoop, InPayload, StackOK
    <2>2. frames' # << >>
      BY <1>9, <2>1 DEF Pass, Fire, PayloadReturns, SetTop, StackOK
    <2> QED
      BY <1>9, <2>1, <2>2 DEF Pass, Fire, PayloadReturns
  <1>10. CASE Leave
    BY <1>0, <1>10 DEF Leave, InLoop, Deliverable, Alarm
  <1>11. CASE Jump
    BY <1>0, <1>11 DEF Jump, InPayload, Deliverable, Alarm
  <1>12. CASE UNCHANGED vars
    BY <1>12 DEF vars
  <1>13. CASE SetQuantum \/ Rearm
    BY <1>13 DEF SetQuantum, Rearm, Malarm, Running, Undisturbed, stack
  <1>14. CASE BeginRequest \/ EndRequest
    BY <1>14 DEF BeginRequest, EndRequest, Undisturbed, Alarm
  <1>15. CASE Abort
    BY <1>0, <1>15 DEF Abort
  <1> QED
    BY <1>1, <1>2, <1>3, <1>4, <1>5, <1>6, <1>7, <1>8, <1>9, <1>10, <1>11, <1>12, <1>13,
       <1>14, <1>15 DEF Next, Handler, Dead

-----------------------------------------------------------------------------
(* Punctuality.                                                             *)

OnTime(t) ==
    t.handler /\ t.priority > 0 => t.prescaler >= 1 /\ t.age + t.prescaler = t.interval

(* Calls of the main line: each timer is one of the old ones, or a new one. *)
LEMMA CallKeepsTime ==
    ASSUME IInv, TableOK', quiet' => quiet /\ frames = << >>, UNCHANGED <<frames, start>>,
           \A i \in Index : \/ \E j \in Index : vttab'[i] = vttab[j]
                            \/ OnTime(vttab'[i])
    PROVE  Timely'
  <1> USE DEF IInv
  <1> SUFFICES ASSUME quiet' PROVE Timely'
    BY DEF Timely
  <1>1. quiet /\ frames = << >> /\ frames' = << >> /\ start' = 0 /\ Index' = Index
    BY DEF Timely, Index
  <1>2. \A i \in Index : ~Ahead(i) /\ ~Ahead(i)'
    BY <1>1 DEF Ahead
  <1>3. \A j \in Index : OnTime(vttab[j])
    <2> SUFFICES ASSUME NEW j \in Index, vttab[j].handler, vttab[j].priority > 0
                 PROVE  vttab[j].prescaler >= 1
                        /\ vttab[j].age + vttab[j].prescaler = vttab[j].interval
      BY DEF OnTime
    <2>1. vttab[j].interval \in Nat
      BY VirtualTimersAssumption DEF TableOK, Sound, VirtualTimersAssumption
    <2> QED
      BY <1>1, <1>2, <2>1 DEF Timely
  <1>4. \A i \in Index : OnTime(vttab'[i])
    BY <1>3
  <1>5. ASSUME NEW i \in Index, vttab'[i].handler, vttab'[i].priority > 0
        PROVE  /\ vttab'[i].prescaler >= 1
               /\ vttab'[i].age + vttab'[i].prescaler = vttab'[i].interval + 0
    <2>1. vttab'[i].interval \in Nat
      BY <1>1, <1>5, VirtualTimersAssumption DEF TableOK, Sound, VirtualTimersAssumption
    <2> QED
      BY <1>4, <1>5, <2>1 DEF OnTime
  <1> QED
    BY <1>1, <1>2, <1>5 DEF Timely

LEMMA TimelyStep ==
    ASSUME IInv, [Next]_vars, TableOK'
    PROVE  Timely'
  <1> USE DEF IInv
  <1>0. /\ Slots \in Nat \ {0} /\ Index' = Index
        /\ \A i \in Index : /\ vttab[i] \in Slot /\ Sound(vttab[i])
                            /\ vttab[i].prescaler \in Int /\ vttab[i].age \in Nat
                            /\ vttab[i].interval \in Nat
    <2>1. \A y \in Slot : y.prescaler \in Int /\ y.age \in Nat /\ y.interval \in Intervals \cup {0}
      BY DEF Slot
    <2>2. Intervals \cup {0} \subseteq Nat /\ Slots \in Nat \ {0}
      BY VirtualTimersAssumption DEF VirtualTimersAssumption
    <2> QED
      BY <2>1, <2>2 DEF TableOK, Index
  <1>1. ASSUME NEW n \in Names, NEW p \in Priorities, NEW v \in Intervals, SetTimer(n, p, v)
        PROVE  Timely'
    <2> DEFINE x == [name |-> n, priority |-> p, prescaler |-> v, interval |-> v,
                     handler |-> TRUE, age |-> 0]
               t == [vttab EXCEPT ![FirstFree] = x]
    <2>1. Sound(x) /\ x \in Slot
      BY NewTimer DEF Sound
    <2>2. FirstFree \in Index
      BY <1>1, FirstFreeIs DEF SetTimer
    <2>3. vttab' \in Sorted(t)
      BY <1>1 DEF SetTimer
    <2>4. OnTime(x)
      <3>1. v \in Nat /\ v >= 1
        BY VirtualTimersAssumption DEF VirtualTimersAssumption
      <3> QED
        BY <3>1 DEF OnTime
    <2> HIDE DEF x
    <2>5. t \in [Index -> Slot] /\ \A i \in Index : Sound(t[i])
      BY <1>0, <2>1, <2>2 DEF TableOK
    <2>6. \A i \in Index : \E j \in Index : vttab'[i] = t[j]
      <3> HIDE DEF t
      <3> QED
        BY <2>3, <2>5, PermutedTable
    <2>7. \A i \in Index : (\E j \in Index : vttab'[i] = vttab[j]) \/ OnTime(vttab'[i])
      BY <2>2, <2>4, <2>6 DEF TableOK
    <2>8. (quiet' => quiet /\ frames = << >>) /\ UNCHANGED <<frames, start>>
      BY <1>1 DEF SetTimer, Noted
    <2> QED
      BY <2>7, <2>8, CallKeepsTime
  <1>2. ASSUME NEW n \in Names, NEW p \in Priorities, SetOneShot(n, p)
        PROVE  Timely'
    <2>1. FirstFree \in Index /\ ~vttab[FirstFree].handler
      BY <1>2, FirstFreeIs DEF SetOneShot
    <2>2. vttab' = [vttab EXCEPT ![FirstFree].priority = p]
      BY <1>2 DEF SetOneShot
    <2>3. ~vttab'[FirstFree].handler
      BY <1>0, <2>1, <2>2 DEF TableOK, Slot
    <2>4. \A i \in Index : (\E j \in Index : vttab'[i] = vttab[j]) \/ OnTime(vttab'[i])
      BY <2>1, <2>2, <2>3 DEF TableOK, OnTime
    <2>5. (quiet' => quiet /\ frames = << >>) /\ UNCHANGED <<frames, start>>
      BY <1>2 DEF SetOneShot, Noted
    <2> QED
      BY <2>4, <2>5, CallKeepsTime
  <1>3. ASSUME NEW n \in Names \cup {NoName}, ClearTimer(n)
        PROVE  Timely'
    <2>1. PICK k \in Index : vttab' = [vttab EXCEPT ![k] = Empty]
      BY <1>3 DEF ClearTimer
    <2>2. OnTime(Empty)
      BY DEF OnTime, Empty
    <2>3. \A i \in Index : (\E j \in Index : vttab'[i] = vttab[j]) \/ OnTime(vttab'[i])
      BY <2>1, <2>2 DEF TableOK
    <2>4. (quiet' => quiet /\ frames = << >>) /\ UNCHANGED <<frames, start>>
      BY <1>3 DEF ClearTimer, Noted, stack
    <2> QED
      BY <2>3, <2>4, CallKeepsTime
  <1>4. ASSUME SetRefused \/ Restart \/ SetQuantum \/ \E n \in Names \cup {NoName} : ClearMiss(n)
        PROVE  Timely'
    <2>1. /\ quiet' => quiet /\ frames = << >>
          /\ UNCHANGED <<frames, start>> /\ vttab' = vttab
      BY <1>4 DEF SetRefused, Restart, SetQuantum, ClearMiss, Noted, stack
    <2>2. \A i \in Index : (\E j \in Index : vttab'[i] = vttab[j]) \/ OnTime(vttab'[i])
      BY <2>1
    <2> QED
      BY <2>1, <2>2, CallKeepsTime
  <1>5. ASSUME UNCHANGED <<vttab, frames, start, inVt, quiet>>
        PROVE  Timely'
    BY <1>5 DEF Timely, Ahead, Top, Index
  <1>6. CASE Enter
    <2> SUFFICES ASSUME quiet' PROVE Timely'
      BY DEF Timely
    <2>1. /\ quiet /\ ~inVt /\ inVt' /\ frames' = Append(frames, [at |-> start, payload |-> FALSE])
          /\ vttab' = [i \in Index |-> Older(vttab[i])]
      BY <1>6 DEF Enter
    <2>2. frames = << >> /\ start = 0
      BY <2>1 DEF Timely
    <2>3. /\ frames' = <<[at |-> 0, payload |-> FALSE]>> /\ Len(frames') = 1
          /\ frames' # << >> /\ Top' = [at |-> 0, payload |-> FALSE]
      BY <2>1, <2>2 DEF Top
    <2>4. \A i \in Index : Ahead(i)' /\ ~Ahead(i)
      BY <2>2, <2>3 DEF Ahead, Index
    <2>5. ASSUME NEW i \in Index, vttab'[i].handler, vttab'[i].priority > 0
          PROVE  /\ vttab'[i].prescaler >= 1
                 /\ vttab'[i].age + vttab'[i].prescaler = vttab'[i].interval + 1
      <3>1. vttab'[i] = Older(vttab[i])
        BY <2>1
      <3>2. vttab[i].handler /\ vttab[i].priority > 0
        BY <1>0, <2>5, <3>1 DEF Older, Slot
      <3>3. /\ vttab[i].prescaler >= 1
            /\ vttab[i].age + vttab[i].prescaler = vttab[i].interval + 0
        BY <2>1, <2>4, <3>2 DEF Timely
      <3>4. vttab[i].age <= vttab[i].interval
        BY <1>0, <3>3
      <3>5. vttab'[i] = [vttab[i] EXCEPT !.age = @ + 1]
        BY <2>1, <3>1, <3>2, <3>4 DEF Older
      <3>6. /\ vttab'[i].prescaler = vttab[i].prescaler /\ vttab'[i].interval = vttab[i].interval
            /\ vttab'[i].age = vttab[i].age + 1
        BY <1>0, <3>5 DEF Slot
      <3> QED
        BY <1>0, <3>3, <3>6
    <2> QED
      BY <1>0, <2>1, <2>3, <2>4, <2>5 DEF Timely
  <1>7. CASE Pass
    <2> SUFFICES ASSUME quiet' PROVE Timely'
      BY DEF Timely
    <2>1. /\ quiet /\ frames # << >> /\ inVt /\ inVt' /\ Len(frames) = 1
          /\ ~Top.payload /\ Top.at \in Index
      BY <1>0, <1>7, TopIs DEF Pass, InLoop, Timely, StackOK, Index
    <2> DEFINE k == Top.at
               f == [at |-> k + 1, payload |-> FALSE]
    <2>2. f \in Frame /\ SetTop(f)
      BY <1>0, <1>7, <2>1 DEF Pass, Frame, Index
    <2>3. frames' # << >> /\ Len(frames') = 1 /\ Top' = f
      <3> HIDE DEF f
      <3> QED
        BY <2>1, <2>2, ReplaceTop DEF StackOK
    <2>4. \A i \in Index : (Ahead(i) <=> i >= k) /\ (Ahead(i)' <=> i >= k + 1)
      BY <2>1, <2>3 DEF Ahead, Index
    <2>5. /\ vttab[k].priority > 0 => CountDown(vttab[k].prescaler) # 0
          /\ vttab' = IF vttab[k].priority > 0
                      THEN [vttab EXCEPT ![k].prescaler = CountDown(vttab[k].prescaler)]
                      ELSE vttab
      BY <1>7 DEF Pass
    <2>6. ASSUME NEW i \in Index, vttab'[i].handler, vttab'[i].priority > 0
          PROVE  /\ vttab'[i].prescaler >= 1
                 /\ vttab'[i].age + vttab'[i].prescaler
                       = vttab'[i].interval + (IF i >= k + 1 THEN 1 ELSE 0)
      <3>1. CASE i # k
        <4>1. vttab'[i] = vttab[i]
          BY <2>5, <3>1 DEF TableOK
        <4>2. /\ vttab[i].prescaler >= 1
              /\ vttab[i].age + vttab[i].prescaler
                    = vttab[i].interval + (IF i >= k THEN 1 ELSE 0)
          BY <2>1, <2>4, <2>6, <4>1 DEF Timely
        <4>3. i >= k <=> i >= k + 1
          BY <2>1, <3>1 DEF Index
        <4> QED
          BY <4>1, <4>2, <4>3
      <3>2. CASE i = k
        <4>1. vttab[k].handler /\ vttab[k].priority > 0
          BY <1>0, <2>1, <2>5, <2>6, <3>2 DEF TableOK, Slot
        <4>2. vttab[k].priority > 0
          BY <4>1
        <4>3. /\ vttab[k].prescaler >= 1
              /\ vttab[k].age + vttab[k].prescaler = vttab[k].interval + 1
          <5>1. k >= k
            BY <2>1 DEF Index
          <5> QED
            BY <2>1, <2>4, <4>1, <5>1 DEF Timely
        <4>4. CountDown(vttab[k].prescaler) = vttab[k].prescaler - 1
          BY <1>0, <2>1, <4>3 DEF CountDown
        <4>5. /\ vttab'[k].prescaler = vttab[k].prescaler - 1
              /\ vttab'[k].age = vttab[k].age /\ vttab'[k].interval = vttab[k].interval
          BY <1>0, <2>1, <2>5, <4>2, <4>4 DEF TableOK, Slot
        <4>6. vttab[k].prescaler # 1
          BY <2>5, <4>2, <4>4
        <4>7. ~(k >= k + 1)
          BY <2>1 DEF Index
        <4>8. /\ vttab[k].prescaler \in Int /\ vttab[k].age \in Nat
              /\ vttab[k].interval \in Nat
          BY <1>0, <2>1
        <4>9. vttab'[k].prescaler >= 1
          BY <4>3, <4>5, <4>6, <4>8
        <4>10. vttab'[k].age + vttab'[k].prescaler = vttab'[k].interval + 0
          BY <4>3, <4>5, <4>8
        <4> HIDE DEF k
        <4> QED
          BY <3>2, <4>7, <4>9, <4>10
      <3> QED
        BY <3>1, <3>2
    <2> QED
      BY <1>0, <2>1, <2>3, <2>4, <2>6 DEF Timely
  <1>8. CASE Fire
    <2> SUFFICES ASSUME quiet' PROVE Timely'
      BY DEF Timely
    <2>1. /\ quiet /\ frames # << >> /\ inVt /\ inVt' /\ Len(frames) = 1
          /\ ~Top.payload /\ Top.at \in Index
      BY <1>0, <1>8, TopIs DEF Fire, InLoop, Timely, StackOK, Index
    <2> DEFINE k == Top.at
               f == [at |-> k, payload |-> TRUE]
    <2>2. f \in Frame /\ SetTop(f)
      BY <1>0, <1>8, <2>1 DEF Fire, Frame, Index
    <2>3. frames' # << >> /\ Len(frames') = 1 /\ Top' = f
      <3> HIDE DEF f
      <3> QED
        BY <2>1, <2>2, ReplaceTop DEF StackOK
    <2>4. \A i \in Index : (Ahead(i) <=> i >= k) /\ (Ahead(i)' <=> i > k)
      BY <2>1, <2>3 DEF Ahead, Index
    <2>5. vttab' = [vttab EXCEPT ![k].prescaler = vttab[k].interval, ![k].age = 0]
      BY <1>8 DEF Fire
    <2>6. ASSUME NEW i \in Index, vttab'[i].handler, vttab'[i].priority > 0
          PROVE  /\ vttab'[i].prescaler >= 1
                 /\ vttab'[i].age + vttab'[i].prescaler
                       = vttab'[i].interval + (IF i > k THEN 1 ELSE 0)
      <3>1. CASE i # k
        <4>1. vttab'[i] = vttab[i]
          BY <2>5, <3>1 DEF TableOK
        <4>2. /\ vttab[i].prescaler >= 1
              /\ vttab[i].age + vttab[i].prescaler
                    = vttab[i].interval + (IF i >= k THEN 1 ELSE 0)
          BY <2>1, <2>4, <2>6, <4>1 DEF Timely
        <4> HIDE DEF k
        <4>3. i >= k <=> i > k
          <5>1. i \in Int /\ k \in Int
            BY <2>1 DEF Index, k
          <5> QED
            BY <3>1, <5>1
        <4>4. (IF i >= k THEN 1 ELSE 0) = (IF i > k THEN 1 ELSE 0)
          BY <4>3
        <4> QED
          BY <4>1, <4>2, <4>4
      <3>2. CASE i = k
        <4>x. k \in Index /\ vttab = [j \in Index |-> vttab[j]] /\ vttab[k] \in Slot
          BY <1>0, <2>1 DEF TableOK
        <4>s. vttab'[k] = [vttab[k] EXCEPT !.prescaler = vttab[k].interval, !.age = 0]
          <5> HIDE DEF k
          <5> QED
            BY <2>5, <4>x
        <4>t. /\ vttab'[k].prescaler = vttab[k].interval /\ vttab'[k].age = 0
              /\ vttab'[k].interval = vttab[k].interval
              /\ vttab'[k].handler = vttab[k].handler
          <5> HIDE DEF k
          <5> QED
            BY <4>x, <4>s DEF Slot
        <4>1. vttab[k].handler
          BY <2>6, <3>2, <4>t
        <4>2. vttab[k].interval \in Nat /\ vttab[k].interval >= 1
          BY <1>0, <2>1, <4>1, VirtualTimersAssumption DEF Sound, VirtualTimersAssumption
        <4>3. /\ vttab'[k].prescaler = vttab[k].interval
              /\ vttab'[k].age = 0 /\ vttab'[k].interval = vttab[k].interval
          BY <4>t
        <4>4. ~(k > k)
          BY <2>1 DEF Index
        <4> HIDE DEF k
        <4> QED
          BY <3>2, <4>2, <4>3, <4>4
      <3> QED
        BY <3>1, <3>2
    <2> QED
      BY <1>0, <2>1, <2>3, <2>4, <2>6 DEF Timely
  <1>9. CASE PayloadReturns
    <2> SUFFICES ASSUME quiet' PROVE Timely'
      BY DEF Timely
    <2>1. /\ quiet /\ frames # << >> /\ inVt /\ inVt' /\ Len(frames) = 1
          /\ Top.payload /\ Top.at \in Index /\ vttab' = vttab
      BY <1>0, <1>9, TopIs DEF PayloadReturns, InPayload, Timely, StackOK, Index
    <2> DEFINE f == [at |-> Top.at + 1, payload |-> FALSE]
    <2>2. f \in Frame /\ SetTop(f)
      BY <1>0, <1>9, <2>1 DEF PayloadReturns, Frame, Index
    <2>3. frames' # << >> /\ Len(frames') = 1 /\ Top' = f
      <3> HIDE DEF f
      <3> QED
        BY <2>1, <2>2, ReplaceTop DEF StackOK
    <2>4. \A i \in Index : Ahead(i)' <=> Ahead(i)
      BY <2>1, <2>3 DEF Ahead, Index
    <2> QED
      BY <1>0, <2>1, <2>3, <2>4 DEF Timely
  <1>10. CASE Leave
    <2> SUFFICES ASSUME quiet' PROVE Timely'
      BY DEF Timely
    <2>1. /\ quiet /\ frames # << >> /\ Len(frames) = 1 /\ Top.at = Slots /\ start' = 0
          /\ frames' = SubSeq(frames, 1, Len(frames) - 1) /\ vttab' = vttab
      BY <1>10 DEF Leave, InLoop, Timely
    <2>2. frames' = << >>
      BY <2>1
    <2>3. \A i \in Index : ~Ahead(i) /\ ~Ahead(i)'
      BY <1>0, <2>1, <2>2 DEF Ahead, Index
    <2> QED
      BY <1>0, <2>1, <2>2, <2>3 DEF Timely
  <1>11. CASE Jump
    BY <1>11 DEF Jump, Timely
  <1>12. CASE Abort
    <2>1. CASE frames = << >>
      <3>1. UNCHANGED <<vttab, frames, start, quiet>> /\ ~inVt'
        BY <1>12, <2>1 DEF Abort, FlagsOK
      <3> QED
        BY <2>1, <3>1 DEF Timely, Ahead, Index
    <2>2. CASE frames # << >>
      BY <1>12, <2>2 DEF Abort, Timely
    <2> QED
      BY <2>1, <2>2
  <1> QED
    BY <1>1, <1>2, <1>3, <1>4, <1>5, <1>6, <1>7, <1>8, <1>9, <1>10, <1>11, <1>12
       DEF Next, Handler, Rearm, BeginRequest, EndRequest, Tick, Kill, Ignore, Dead, stack, vars

-----------------------------------------------------------------------------

LEMMA InitIInv == Init => IInv
  <1> SUFFICES ASSUME Init PROVE IInv
    OBVIOUS
  <1>0. Slots \in Nat \ {0} /\ MaxDepth \in Nat \ {0}
    BY VirtualTimersAssumption DEF VirtualTimersAssumption
  <1>1. vttab = [i \in Index |-> Empty] /\ Sound(Empty) /\ Empty \in Slot
    BY DEF Init, Sound, Empty, Slot
  <1>2. TableOK
    BY <1>1 DEF TableOK
  <1>3. {i \in Index : InUse(vttab[i])} = {}
    BY <1>1 DEF Empty, InUse
  <1>4. CountOK
    <2>1. MaxStray \in Nat
      BY VirtualTimersAssumption DEF VirtualTimersAssumption
    <2> QED
      BY <1>3, <2>1, FS_EmptySet DEF Init, CountOK, ActiveCount
  <1>5. StackOK
    BY <1>0 DEF Init, StackOK, Index
  <1>6. FlagsOK /\ Alarm /\ Careful
    <2>1. FlagsOK
      BY Zenon DEF Init, FlagsOK
    <2>2. Alarm /\ Careful
      BY DEF Init, Alarm, Careful
    <2> QED
      BY <2>1, <2>2
  <1>7. Timely
    <2>1. \A i \in Index : ~vttab[i].handler
      BY <1>1 DEF Empty
    <2> QED
      BY <2>1 DEF Timely, Init
  <1> QED
    BY <1>2, <1>4, <1>5, <1>6, <1>7 DEF IInv

LEMMA NextIInv == IInv /\ [Next]_vars => IInv'
  <1> SUFFICES ASSUME IInv, [Next]_vars PROVE IInv'
    OBVIOUS
  <1>1. TableOK' /\ CountOK'
    BY TableStep
  <1>2. StackOK' /\ FlagsOK' /\ Careful'
    BY StackStep, FlagsStep, CarefulStep
  <1>3. Alarm' /\ Timely'
    BY <1>1, AlarmStep, TimelyStep DEF CountOK
  <1> QED
    BY <1>1, <1>2, <1>3 DEF IInv

(* The inductive invariant holds throughout.                                *)
THEOREM Invariant == Spec => []IInv
  BY InitIInv, NextIInv, PTL DEF Spec

(* Every variable keeps its type: active_v_timers passes the slots by no more *)
(* than the calls with priority 0 that left nothing behind, and the handler *)
(* and request levels on the stack are bounded by what payloads may call.   *)
THEOREM TypeCorrect == Spec => []TypeOK
  <1>1. ASSUME IInv PROVE TypeOK
    <2>1. vttab \in [Index -> Slot] /\ start \in Index /\ owed \subseteq 0..MaxDepth
      BY <1>1 DEF IInv, TableOK, StackOK
    <2>2. stray \in -MaxStray..MaxStray /\ active \in -MaxStray..(Slots + MaxStray)
      <3>1. Cardinality(Index) = Slots
        <4>1. 0 \in Int /\ Slots - 1 \in Int /\ Slots \in Nat \ {0}
          BY VirtualTimersAssumption DEF VirtualTimersAssumption
        <4> QED
          BY <4>1, FS_Interval DEF Index
      <3>2. Cardinality(Counted) <= Cardinality(Index) /\ Cardinality(Counted) \in Nat
        BY IndexFinite, FS_Subset, CountOf DEF Counted
      <3>3. Slots \in Nat /\ MaxStray \in Nat
        BY VirtualTimersAssumption DEF VirtualTimersAssumption
      <3>4. /\ active = Cardinality(Counted) + stray /\ stray \in Int
            /\ -MaxStray <= stray /\ stray <= MaxStray
        BY <1>1 DEF IInv, CountOK, ActiveCount, Counted
      <3> QED
        BY <3>1, <3>2, <3>3, <3>4
    <2>3. frames \in Seq([at : 0..Slots, payload : BOOLEAN]) /\ Len(frames) <= MaxDepth
      <3>1. frames \in Seq(Frame) /\ Len(frames) <= MaxDepth
        BY <1>1 DEF IInv, StackOK
      <3>2. Frame \subseteq [at : 0..Slots, payload : BOOLEAN]
        BY DEF Frame
      <3>3. frames \in Seq([at : 0..Slots, payload : BOOLEAN])
        BY <3>1, <3>2, SeqSubset, Zenon
      <3> QED
        BY <3>1, <3>3
    <2>4. /\ disp \in {"default", "vt_handler"}
          /\ {inVt, request, held, armed, pending, blocked, killed, lost, quiet, careless}
                 \subseteq BOOLEAN
      <3>1. FlagsOK
        BY <1>1, Zenon DEF IInv
      <3> QED
        BY <3>1, SMT DEF FlagsOK
    <2> QED
      BY <2>1, <2>2, <2>3, <2>4 DEF TypeOK
  <1> QED
    BY <1>1, Invariant, PTL

(* active_v_timers is the number of slots in use, plus the VT_ONESHOT calls *)
(* with priority 0 and less the clears of unused slots, whoever edits the   *)
(* table and wherever the handler or a request is.                          *)
THEOREM CountCorrect == Spec => []ActiveCount
  <1>1. IInv => ActiveCount
    BY DEF IInv, CountOK
  <1> QED
    BY <1>1, Invariant, PTL

(* Outside the handler and the requests the next tick is on its way and finds *)
(* the handler installed, unless a clear has missed.                        *)
THEOREM AlarmGoesOn == Spec => []AlarmKept
  <1>1. IInv => AlarmKept
    BY DEF IInv, Alarm, AlarmKept
  <1> QED
    BY <1>1, Invariant, PTL

(* SIGALRM kills the program only after one of the calls KilledByMisuse     *)
(* names, requests that run with SIGALRM blocked included.                  *)
THEOREM NeverKilled == Spec => []KilledByMisuse
  <1>1. IInv => KilledByMisuse
    BY DEF IInv, Careful, KilledByMisuse
  <1> QED
    BY <1>1, Invariant, PTL

(* A payload is called only from a slot that has a handler, and, as long as *)
(* payloads leave the timers alone, when its interval has passed.           *)
THEOREM Punctual == Spec => FiresOnTime
  <1>1. ASSUME IInv, NEW i \in Index, Fire, Top.at = i
        PROVE  vttab[i].handler /\ (quiet => vttab[i].age = vttab[i].interval)
    <2>1. /\ Sound(vttab[i]) /\ vttab[i].prescaler \in Int
          /\ vttab[i].age \in Nat /\ vttab[i].interval \in Nat
      <3>1. \A y \in Slot : y.prescaler \in Int /\ y.age \in Nat /\ y.interval \in Intervals \cup {0}
        BY DEF Slot
      <3>2. Intervals \cup {0} \subseteq Nat
        BY VirtualTimersAssumption DEF VirtualTimersAssumption
      <3> QED
        BY <1>1, <3>1, <3>2 DEF IInv, TableOK
    <2>2. CountDown(vttab[i].prescaler) = 0
      BY <1>1 DEF Fire
    <2>3. vttab[i].prescaler = 1
      BY <2>1, <2>2 DEF CountDown
    <2>4. vttab[i].handler /\ vttab[i].priority > 0
      BY <1>1, <2>1, <2>3 DEF Sound, Fire
    <2>5. Ahead(i)
      <3>1. frames # << >> /\ ~Top.payload
        BY <1>1 DEF Fire, InLoop
      <3> QED
        BY <1>1, <3>1 DEF Ahead
    <2>6. ASSUME quiet PROVE vttab[i].age = vttab[i].interval
      <3>1. vttab[i].age + vttab[i].prescaler = vttab[i].interval + 1
        BY <1>1, <2>4, <2>5, <2>6 DEF IInv, Timely
      <3> QED
        BY <2>1, <2>3, <3>1
    <2> QED
      BY <2>4, <2>6
  <1>2. IInv /\ [Next]_vars
            => [\A i \in Index : Fire /\ Top.at = i =>
                   vttab[i].handler /\ (quiet => vttab[i].age = vttab[i].interval)]_vars
    BY <1>1
  <1> QED
    BY <1>2, Invariant, PTL DEF Spec, FiresOnTime

===============================================================================
