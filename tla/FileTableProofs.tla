----------------------------- MODULE FileTableProofs -----------------------------
(* FileTable keeps its file table, its timers and its shadows together, for  *)
(* any threads, files, slots, descriptors, timers and bounds.                *)
EXTENDS FileTable, FiniteSetTheorems, WellFoundedInduction, TLAPS

(* Whom a slot and a timer may be about. *)
Name == [file : Files \cup {NoFile}, des : AllDescriptors \cup {Free}]
Timer == [name : Name, slot : Index \cup {Slots}]
Points == {"idle", "found", "opened", "alive", "again", "unlink", "bury", "clear"}
Call == [at : Points, slot : Index, file : Files \cup {NoFile},
         how : {"none", "live", "dead", "protect"}, des : AllDescriptors \cup {Free}]

TypeOK ==
    /\ fdes \in [Index -> AllDescriptors \cup {Free}]
    /\ fname \in [Index -> Files \cup {NoFile}]
    /\ fshadow \in [Index -> Paths \cup {Blank}]
    /\ hname \in [Index -> Name]
    /\ homeostatic \in [Index -> Nat]
    /\ creator \in [Index -> BOOLEAN]
    /\ vttab \in [TimerIndex -> Timer]
    /\ alarm \in BOOLEAN /\ ended \in BOOLEAN /\ stuck \in BOOLEAN
    /\ disk \in [Paths -> Files \cup {Foreign, Missing}]
    /\ ino \in [AllDescriptors -> Files \cup {Foreign, Missing}]
    /\ call \in [Threads -> Call]
    /\ mutex \in Threads \cup {NoThread}
    /\ run \in [at : {"none", "relink", "shadow"}, slot : Index]
    /\ losses \in Nat /\ makes \in Nat /\ opens \in Nat
    /\ refused \subseteq Index /\ past \subseteq Mishaps

(* Where the threads can be. *)
Opening == {"found", "opened"}
Busy == {"alive", "unlink", "bury", "clear"}
CallOK ==
    \A p \in Threads :
        /\ call[p].at \in Busy => mutex = p
        /\ call[p].at \in {"alive", "again", "unlink", "bury"} => p = Root
        /\ call[p].at \in Opening => call[p].file \in Files
        /\ call[p].at \in Opening /\ call[p].how # "dead" => p = Root
        /\ call[p].at \in {"opened", "alive", "again"} => call[p].des \in AllDescriptors
        /\ call[p].at \in {"idle", "found", "unlink", "bury", "clear"} => call[p].des = Free
        /\ run # NoRun => mutex \in {NoThread, Root}

SlotOK ==
    \A i \in Index :
        /\ fdes[i] = Free => homeostatic[i] = 0
        /\ homeostatic[i] > 0 => hname[i] # NoName
        /\ fdes[i] # Free => fname[i] \in Files

(* A slot given to a thread is free until it is filled, and nobody else's.   *)
SlotGiven ==
    /\ \A p \in Threads : call[p].at \in Opening => fdes[call[p].slot] = Free
    /\ \A p, q \in Threads : call[p].at \in Opening /\ call[q].at \in Opening
                                 /\ call[p].slot = call[q].slot => p = q

(* A closing slot has its old descriptor, a dummy is of its own slot.        *)
DummyOwn ==
    /\ \A i \in Index, k \in Index : fdes[i] = Dummy(k) => i = k
    /\ \A p \in Threads, k \in Index :
          call[p].at = "opened" /\ call[p].des = Dummy(k) => call[p].slot = k

(* An open descriptor is in one slot, or with one thread that will enter it. *)
Holding(d) == SlotsOf(d) \ Closing
OneHolder ==
    \A d \in AllDescriptors :
        IF ino[d] = Missing THEN Holding(d) = {} /\ Entering(d) = {}
        ELSE \/ Entering(d) = {} /\ \E i \in Index : Holding(d) = {i}
             \/ Holding(d) = {} /\ \E p \in Threads : Entering(d) = {p}

Table == "overlapped" \notin past => SlotGiven /\ DummyOwn /\ OneHolder

(* A slot on its way to be dead. *)
Burying == {call[p].slot : p \in {q \in Threads : call[q].at \in {"unlink", "bury"}}}

BuryOK ==
    call[Root].at \in {"unlink", "bury"} => homeostatic[call[Root].slot] <= 1

(* Live files have names of their own, and their timers under those names.   *)
Served ==
    /\ \A i, k \in Index :
          homeostatic[i] > 0 /\ homeostatic[k] > 0 /\ hname[i] = hname[k] => i = k
    /\ \A i \in Index : homeostatic[i] > 0 /\ i \notin refused /\ i \notin Burying =>
          \E j \in TimerIndex : vttab[j] = [name |-> hname[i], slot |-> i]

(* What the rest of the mishaps would undo. *)
Excused == {"bare", "refused"}

(* A timer is that of a live file, and the only one of its slot.             *)
TimersOwn ==
    \A j \in TimerIndex : vttab[j] # NoTimer =>
        /\ vttab[j].slot \in Index \ Burying
        /\ homeostatic[vttab[j].slot] > 0 /\ vttab[j].name = hname[vttab[j].slot]
        /\ \A k \in TimerIndex : vttab[k] = vttab[j] => k = j

(* A shadow is of a live file, and has its inode. *)
ShadowsOwn ==
    \A i \in Index :
        /\ homeostatic[i] > 0 => i \notin Closing /\ fshadow[i] = i
        /\ i \in Burying => fshadow[i] = i /\ i \notin Closing
        /\ Exists(i) =>
              /\ fdes[i] # Free /\ disk[i] = ino[fdes[i]]
              /\ IF i \in Burying THEN call[Root].at = "unlink" ELSE homeostatic[i] > 0

(* All who have a file open have the same inode, the one under its name.     *)
Uses(f, d) ==
    \/ \E i \in Index \ Closing : fname[i] = f /\ fdes[i] = d
    \/ \E p \in Threads : call[p].at = "opened" /\ call[p].file = f /\ call[p].des = d
FilesOwn ==
    \A f \in Files, d \in AllDescriptors : Uses(f, d) =>
        /\ \A e \in AllDescriptors : Uses(f, e) => ino[e] = ino[d]
        /\ Exists(f) => disk[f] = ino[d]

(* The homeostat runs for a live file. *)
RunOwn == run # NoRun => homeostatic[run.slot] > 0 /\ run.slot \notin Burying

Own == past \subseteq Excused => TimersOwn /\ ShadowsOwn /\ FilesOwn /\ RunOwn

IInv ==
    /\ TypeOK /\ CallOK /\ SlotOK /\ BuryOK /\ Table
    /\ "doubled" \notin past => Served
    /\ Own

-----------------------------------------------------------------------------
(* What the constants are, and the least of a set of numbers. *)

LEMMA Constants ==
    /\ Free \notin AllDescriptors
    /\ \A i \in Index, k \in Index : Dummy(i) \in AllDescriptors
          /\ Dummy(i) \notin Descriptors /\ (Dummy(i) = Dummy(k) => i = k)
    /\ Index \subseteq Nat /\ TimerIndex \subseteq Nat /\ Slots \notin Index
    /\ Index \subseteq Paths /\ Files \subseteq Paths /\ Files \cap Index = {}
    /\ None \in Paths /\ Blank \notin Paths
    /\ NoTimer \in Timer /\ NoName \in Name /\ Idle \in Call /\ Free \in Int
    /\ 0 \in Index /\ Descriptors \subseteq AllDescriptors
    /\ None \notin Index
  <1>1. \A i \in Index : Dummy(i) \in Int /\ Dummy(i) < -999
    BY FileTableAssumption DEF FileTableAssumption, Dummy, Index
  <1>2. Descriptors \subseteq Nat
    BY FileTableAssumption DEF FileTableAssumption
  <1>3. Free \notin AllDescriptors
    BY <1>1, <1>2 DEF Free, AllDescriptors
  <1>4. \A i \in Index, k \in Index : Dummy(i) \in AllDescriptors
          /\ Dummy(i) \notin Descriptors /\ (Dummy(i) = Dummy(k) => i = k)
    BY <1>1, <1>2 DEF AllDescriptors, Dummy, Index
  <1>5. Index \subseteq Nat /\ TimerIndex \subseteq Nat /\ Slots \notin Index /\ 0 \in Index
    BY FileTableAssumption DEF FileTableAssumption, Index, TimerIndex
  <1>6. /\ Index \subseteq Paths /\ Files \subseteq Paths /\ Files \cap Index = {}
        /\ None \in Paths /\ Blank \notin Paths /\ None \notin Index
    BY <1>5, FileTableAssumption DEF FileTableAssumption, Paths
  <1>7. NoName \in Name
    BY DEF NoName, Name
  <1>8. NoTimer \in Timer
    BY <1>7 DEF NoTimer, Timer
  <1>9. Idle \in Call
    BY <1>5 DEF Idle, Call, Points
  <1> QED
    BY <1>3, <1>4, <1>5, <1>6, <1>7, <1>8, <1>9 DEF Free, AllDescriptors

LEMMA MinOf ==
    ASSUME NEW S, S \subseteq Nat, S # {}
    PROVE  Min(S) \in S /\ \A y \in S : Min(S) <= y
  <1>1. PICK x \in S : \A y \in S : <<y, x>> \notin OpToRel(<, Nat)
    BY NatLessThanWellFounded, WFMin, Zenon
  <1>2. \A y \in S : x <= y
    <2> SUFFICES ASSUME NEW y \in S PROVE x <= y
      OBVIOUS
    <2>1. ~(y < x)
      BY <1>1 DEF OpToRel
    <2> QED
      BY <2>1
  <1> QED
    BY <1>2 DEF Min

(* The slot of a descriptor that is in the table. *)
LEMMA SlotOfIs ==
    ASSUME NEW d, SlotsOf(d) # {}
    PROVE  SlotOf(d) \in Index /\ fdes[SlotOf(d)] = d
  <1>1. SlotsOf(d) \subseteq Nat
    BY Constants DEF SlotsOf
  <1> QED
    BY <1>1, MinOf DEF SlotOf, SlotsOf

LEMMA FirstFreeIs ==
    /\ FirstFree \in TimerIndex \cup {Timers}
    /\ FirstFree # Timers => FirstFree \in TimerIndex /\ vttab[FirstFree] = NoTimer
    /\ \A j \in TimerIndex : vttab[j] = NoTimer => FirstFree <= j /\ FirstFree # Timers
  <1> DEFINE S == {j \in TimerIndex : vttab[j] = NoTimer} \cup {Timers}
  <1>1. S \subseteq Nat /\ S # {}
    BY Constants, FileTableAssumption DEF FileTableAssumption
  <1>2. Min(S) \in S /\ \A y \in S : Min(S) <= y
    BY <1>1, MinOf
  <1>3. \A j \in TimerIndex : j < Timers /\ j \in Nat /\ Timers \in Nat
    BY FileTableAssumption DEF FileTableAssumption, TimerIndex
  <1> QED
    BY <1>2, <1>3 DEF FirstFree

(* Sorting moves timers about and neither drops nor doubles one. *)
LEMMA SortedIs ==
    ASSUME NEW t \in [TimerIndex -> Timer], NEW s \in Sorted(t)
    PROVE  /\ s \in [TimerIndex -> Timer]
           /\ \A j \in TimerIndex : \E k \in TimerIndex : s[k] = t[j]
           /\ \A j \in TimerIndex : \E k \in TimerIndex :
                 s[j] = t[k] /\ ((\A m \in TimerIndex : t[m] = t[k] => m = k)
                                     => \A m \in TimerIndex : s[m] = s[j] => m = j)
  <1>1. PICK q \in Bijection(TimerIndex, TimerIndex) : s = [j \in TimerIndex |-> t[q[j]]]
    BY DEF Sorted
  <1>2. /\ q \in [TimerIndex -> TimerIndex]
        /\ \A j, k \in TimerIndex : q[j] = q[k] => j = k
        /\ \A k \in TimerIndex : \E j \in TimerIndex : q[j] = k
    BY DEF Bijection, Injection, IsInjective, Surjection
  <1> QED
    BY <1>1, <1>2

(* The two calls on timers keep the table of timers. *)
LEMMA SetTimerType ==
    ASSUME TypeOK, NEW n \in Name, NEW i \in Index, SetTimer(n, i)
    PROVE  vttab' \in [TimerIndex -> Timer] /\ alarm' \in BOOLEAN /\ refused' \subseteq Index
  <1>1. [name |-> n, slot |-> i] \in Timer
    BY DEF Timer
  <1>2. [vttab EXCEPT ![FirstFree] = [name |-> n, slot |-> i]] \in [TimerIndex -> Timer]
    BY <1>1, FirstFreeIs DEF TypeOK
  <1>3. vttab' \in [TimerIndex -> Timer]
    BY <1>2, SortedIs DEF SetTimer, TypeOK
  <1> QED
    BY <1>3 DEF SetTimer, TypeOK

LEMMA ClearTimerType ==
    ASSUME TypeOK, NEW n, ClearTimer(n)
    PROVE  vttab' \in [TimerIndex -> Timer] /\ alarm' \in BOOLEAN
  <1> DEFINE found == {j \in TimerIndex : vttab[j].name = n}
  <1>1. CASE found = {}
    BY <1>1 DEF ClearTimer, TypeOK
  <1>2. CASE found # {}
    <2>1. Min(found) \in TimerIndex
      BY <1>2, Constants, MinOf
    <2>2. vttab' = [vttab EXCEPT ![Min(found)] = NoTimer]
      BY <1>2 DEF ClearTimer
    <2> QED
      BY <1>2, <2>1, <2>2, Constants DEF ClearTimer, TypeOK
  <1> QED
    BY <1>1, <1>2

LEMMA DiskType ==
    ASSUME TypeOK, NEW old, NEW new
    PROVE  /\ Link(old, new) \in [Paths -> Files \cup {Foreign, Missing}]
           /\ Unlink(new) \in [Paths -> Files \cup {Foreign, Missing}]
  BY DEF TypeOK, Link, Unlink, CanLink, Exists

-----------------------------------------------------------------------------
(* Types. *)

LEMMA InitType == Init => TypeOK
  <1> SUFFICES ASSUME Init PROVE TypeOK
    OBVIOUS
  <1>1. /\ disk \in [Paths -> Files \cup {Foreign, Missing}]
        /\ ino \in [AllDescriptors -> Files \cup {Foreign, Missing}]
    BY DEF Init
  <1>2. /\ fdes \in [Index -> AllDescriptors \cup {Free}]
        /\ fname \in [Index -> Files \cup {NoFile}]
        /\ fshadow \in [Index -> Paths \cup {Blank}]
        /\ hname \in [Index -> Name]
        /\ homeostatic \in [Index -> Nat]
        /\ creator \in [Index -> BOOLEAN]
    BY Constants DEF Init
  <1>3. vttab \in [TimerIndex -> Timer] /\ call \in [Threads -> Call]
    BY Constants DEF Init
  <1>4. run \in [at : {"none", "relink", "shadow"}, slot : Index]
    BY Constants DEF Init, NoRun
  <1> QED
    BY <1>1, <1>2, <1>3, <1>4 DEF Init, TypeOK

LEMMA TypeStep == TypeOK /\ [Next]_vars => TypeOK'
  <1> SUFFICES ASSUME TypeOK, [Next]_vars PROVE TypeOK'
    OBVIOUS
  <1>0. TypeOK
    OBVIOUS
  <1>1. ASSUME NEW p \in Threads, NEW f \in Files, NEW how \in {"live", "dead", "protect"}, Open(p, f, how)
        PROVE  TypeOK'
    <2>1. SlotOf(Free) \in Index
      BY <1>1, SlotOfIs DEF Open
    <2>2. past' \subseteq Mishaps
      BY <1>0, <1>1 DEF Open, Note, TypeOK, Mishaps
    <2>3. [Idle EXCEPT !.at = "found", !.slot = SlotOf(Free), !.file = f, !.how = how] \in Call
      BY <2>1, Constants DEF Idle, Call, Points
    <2>4. call' \in [Threads -> Call]
      BY <1>0, <1>1, <2>3 DEF Open, TypeOK
    <2>5. hname' \in [Index -> Name]
      BY <1>0, <1>1, Constants DEF Open, TypeOK
    <2> QED
      BY <1>0, <1>1, <2>1, <2>2, <2>4, <2>5
        DEF TypeOK, Open, ftab, timers, outside, bounds, lock
  <1>2. ASSUME NEW p \in Threads, OpenFails(p) PROVE TypeOK'
    <2>1. call' \in [Threads -> Call]
      BY <1>0, <1>2, Constants DEF OpenFails, TypeOK
    <2> QED
      BY <1>0, <1>2, <2>1 DEF TypeOK, OpenFails, ClearSlot, ftab, timers, outside, bounds, lock
  <1>3. ASSUME NEW p \in Threads, OpenFile(p) PROVE TypeOK'
    <2>1. PICK d \in IF call[p].how = "protect" THEN {Dummy(call[p].slot)} ELSE {Min(Unused)} :
              /\ ino' = [ino EXCEPT ![d] = disk[call[p].file]]
              /\ call' = [call EXCEPT ![p].at = "opened", ![p].des = d]
      BY <1>3 DEF OpenFile
    <2>2. d \in AllDescriptors
      <3>1. Unused \subseteq Descriptors /\ Descriptors \subseteq Nat
        BY FileTableAssumption DEF Unused, FileTableAssumption
      <3>2. CASE call[p].how = "protect"
        <4>1. call[p].slot \in Index
          BY <1>0 DEF TypeOK, Call
        <4>2. d = Dummy(call[p].slot)
          BY <3>2
        <4> QED
          BY <4>1, <4>2, Constants
      <3>3. CASE call[p].how # "protect"
        BY <1>3, <3>1, <3>3, MinOf, Constants DEF OpenFile
      <3> QED
        BY <3>2, <3>3
    <2>3. call[p] \in Call /\ disk[call[p].file] \in Files \cup {Foreign, Missing}
      BY <1>0, <1>3 DEF OpenFile, Exists, TypeOK
    <2>4. [call[p] EXCEPT !.at = "opened", !.des = d] \in Call
      BY <2>2, <2>3 DEF Call, Points
    <2>5. call' = [call EXCEPT ![p] = [call[p] EXCEPT !.at = "opened", !.des = d]]
      BY <1>0, <2>1 DEF TypeOK
    <2>6. call' \in [Threads -> Call]
      BY <1>0, <2>4, <2>5 DEF TypeOK
    <2>7. ino' \in [AllDescriptors -> Files \cup {Foreign, Missing}]
      BY <1>0, <2>1, <2>2, <2>3 DEF TypeOK
    <2> QED
      BY <1>0, <1>3, <2>6, <2>7 DEF TypeOK, OpenFile, ftab, timers, outside, bounds, lock
  <1>4. ASSUME NEW p \in Threads, Fill(p) PROVE TypeOK'
    <2>1. /\ call[p].slot \in Index /\ call[p].des \in AllDescriptors \cup {Free}
          /\ call[p].file \in Files \cup {NoFile}
      BY <1>0 DEF TypeOK, Call
    <2>2. call' \in [Threads -> Call] /\ mutex' \in Threads \cup {NoThread}
          /\ creator' \in [Index -> BOOLEAN]
      <3>1. [call[p] EXCEPT !.at = "alive"] \in Call
        BY <1>0 DEF TypeOK, Call, Points
      <3>2. call' \in {[call EXCEPT ![p] = Idle],
                       [call EXCEPT ![p] = [call[p] EXCEPT !.at = "alive"]]}
        BY <1>0, <1>4 DEF Fill, TypeOK
      <3>3. call' \in [Threads -> Call]
        BY <1>0, <3>1, <3>2, Constants DEF TypeOK
      <3> QED
        BY <1>0, <1>4, <3>3 DEF Fill, TypeOK
    <2> QED
      BY <1>0, <1>4, <2>1, <2>2 DEF TypeOK, Fill, ftab, timers, outside, bounds, lock
  <1>5. ASSUME NEW d \in AllDescriptors, CallAlive(d) PROVE TypeOK'
    <2>1. [Idle EXCEPT !.at = "again", !.des = d] \in Call
      BY Constants DEF Idle, Call, Points
    <2>2. call' \in [Threads -> Call]
      BY <1>0, <1>5, <2>1 DEF CallAlive, TypeOK
    <2> QED
      BY <1>0, <1>5, <2>2 DEF TypeOK, CallAlive, ftab, timers, outside, bounds, lock
  <1>6. ASSUME NEW p \in Threads, Alive(p) PROVE TypeOK'
    <2> DEFINE d == call[p].des
               i == SlotOf(d)
               n == [file |-> fname[i], des |-> IF call[p].at = "alive" THEN d ELSE Free]
    <2>1. call' \in [Threads -> Call]
      <3>1. [call[p] EXCEPT !.at = "again"] \in Call
        BY <1>0 DEF TypeOK, Call, Points
      <3>2. call' \in {[call EXCEPT ![p] = Idle],
                       [call EXCEPT ![p] = [call[p] EXCEPT !.at = "again"]]}
        BY <1>0, <1>6 DEF Alive, TypeOK
      <3> QED
        BY <1>0, <3>1, <3>2, Constants DEF TypeOK
    <2>2. mutex' \in Threads \cup {NoThread} /\ stuck' \in BOOLEAN
      BY <1>0, <1>6 DEF Alive, Unlock, TypeOK
    <2>3. CASE UNCHANGED <<homeostatic, fshadow, hname, disk, timers, refused, past>>
      BY <1>0, <1>6, <2>1, <2>2, <2>3 DEF TypeOK, Alive, ftab, timers, outside, bounds, lock
    <2>4. CASE SlotsOf(d) # {} /\ homeostatic' = [homeostatic EXCEPT ![i] = @ + 1]
                 /\ UNCHANGED <<fshadow, hname, disk, timers, refused, past>>
      <3>1. homeostatic' \in [Index -> Nat]
        BY <1>0, <2>4, SlotOfIs DEF TypeOK
      <3> QED
        BY <1>0, <1>6, <2>1, <2>2, <2>4, <3>1
          DEF TypeOK, Alive, ftab, timers, outside, bounds, lock
    <2>5. CASE SlotsOf(d) # {} /\ MakeLive(i, n)
      <3>1. i \in Index
        BY <2>5, SlotOfIs
      <3>2. d \in AllDescriptors \cup {Free} /\ fname[i] \in Files \cup {NoFile}
        BY <1>0, <3>1 DEF TypeOK, Call
      <3>3. n \in Name
        BY <3>2 DEF Name
      <3>4. MakeLive(i, n)
        BY <2>5
      <3> HIDE DEF n, i, d
      <3>5. vttab' \in [TimerIndex -> Timer] /\ alarm' \in BOOLEAN /\ refused' \subseteq Index
        BY <1>0, <3>1, <3>3, <3>4, SetTimerType DEF MakeLive
      <3>6. past' \subseteq Mishaps
        BY <1>0, <3>4 DEF MakeLive, TypeOK, Mishaps
      <3>7. disk' \in [Paths -> Files \cup {Foreign, Missing}]
        BY <1>0, <3>4, DiskType DEF MakeLive
      <3>8. /\ homeostatic' \in [Index -> Nat] /\ hname' \in [Index -> Name]
            /\ fshadow' \in [Index -> Paths \cup {Blank}]
        BY <1>0, <3>1, <3>3, <3>4, Constants DEF MakeLive, TypeOK
      <3> QED
        BY <1>0, <1>6, <2>1, <2>2, <3>5, <3>6, <3>7, <3>8
          DEF TypeOK, Alive, ftab, timers, outside, bounds, lock
    <2> QED
      BY <1>6, <2>3, <2>4, <2>5 DEF Alive
  <1>7. ASSUME NEW d \in AllDescriptors, Dead(d) PROVE TypeOK'
    <2> DEFINE i == SlotOf(d)
    <2>1. i \in Index /\ homeostatic[i] - 1 \in Nat
      <3>1. i \in Index
        BY <1>7, SlotOfIs DEF Dead, Known
      <3> QED
        BY <1>0, <1>7, <3>1 DEF Dead, TypeOK
    <2>2. homeostatic' \in [Index -> Nat]
      BY <1>0, <1>7, <2>1 DEF Dead, TypeOK
    <2>3. CASE ~(homeostatic[i] <= 2)
      BY <1>0, <1>7, <2>2, <2>3 DEF TypeOK, Dead, Lower, ftab, timers, outside, bounds, lock
    <2>4. CASE (homeostatic[i] <= 2)
      <3>1. ClearTimer(hname[i]) /\ call' = [call EXCEPT ![Root] = [Idle EXCEPT !.at = "unlink", !.slot = i]]
            /\ mutex' = Root
        BY <1>7, <2>4 DEF Dead, Lower
      <3>2. [Idle EXCEPT !.at = "unlink", !.slot = i] \in Call
        BY <2>1, Constants DEF Idle, Call, Points
      <3>3. call' \in [Threads -> Call]
        BY <1>0, <3>1, <3>2 DEF TypeOK
      <3> QED
        BY <1>0, <1>7, <2>2, <3>1, <3>3, ClearTimerType, FileTableAssumption
           DEF TypeOK, Dead, FileTableAssumption, ftab, timers, outside, bounds, lock
    <2> QED
      BY <2>3, <2>4
  <1>8. ASSUME NEW f \in Files, Unprotect(f) PROVE TypeOK'
    <2> DEFINE S == {k \in Index : fname[k] = f /\ homeostatic[k] > 0}
               i == Min(S)
    <2>1. i \in Index /\ homeostatic[i] - 1 \in Nat
      <3>1. i \in S
        BY <1>8, MinOf, Constants DEF Unprotect
      <3> QED
        BY <1>0, <3>1 DEF TypeOK
    <2>2. homeostatic' \in [Index -> Nat]
      BY <1>0, <1>8, <2>1 DEF Unprotect, TypeOK
    <2>3. CASE ~(homeostatic[i] = 1)
      BY <1>0, <1>8, <2>2, <2>3
        DEF TypeOK, Unprotect, Lower, ftab, timers, outside, bounds, lock
    <2>4. CASE (homeostatic[i] = 1)
      <3>1. ClearTimer(hname[i]) /\ call' = [call EXCEPT ![Root] = [Idle EXCEPT !.at = "unlink", !.slot = i]]
            /\ mutex' = Root
        BY <1>8, <2>4 DEF Unprotect, Lower
      <3>2. [Idle EXCEPT !.at = "unlink", !.slot = i] \in Call
        BY <2>1, Constants DEF Idle, Call, Points
      <3>3. call' \in [Threads -> Call]
        BY <1>0, <3>1, <3>2 DEF TypeOK
      <3> QED
        BY <1>0, <1>8, <2>2, <3>1, <3>3, ClearTimerType, FileTableAssumption
           DEF TypeOK, Unprotect, FileTableAssumption, ftab, timers, outside, bounds, lock
    <2> QED
      BY <2>3, <2>4
  <1>9. ASSUME UnlinkShadow PROVE TypeOK'
    <2>1. [call[Root] EXCEPT !.at = "bury"] \in Call
      BY <1>0, FileTableAssumption DEF TypeOK, Call, Points, FileTableAssumption
    <2>2. call' = [call EXCEPT ![Root] = [call[Root] EXCEPT !.at = "bury"]]
      BY <1>0, <1>9 DEF UnlinkShadow, TypeOK
    <2>3. call' \in [Threads -> Call]
      BY <1>0, <2>1, <2>2 DEF TypeOK
    <2> QED
      BY <1>0, <1>9, <2>3, DiskType
        DEF TypeOK, UnlinkShadow, ftab, timers, outside, bounds, lock
  <1>10. ASSUME Bury PROVE TypeOK'
    <2>1. call[Root].slot \in Index /\ call' \in [Threads -> Call]
      BY <1>0, <1>10, Constants, FileTableAssumption DEF TypeOK, Call, Bury, FileTableAssumption
    <2>2. hname' \in [Index -> Name] /\ fshadow' \in [Index -> Paths \cup {Blank}]
      BY <1>0, <1>10, Constants DEF TypeOK, Bury
    <2> QED
      BY <1>0, <1>10, <2>1, <2>2 DEF TypeOK, Bury, Unlock, ftab, timers, outside, bounds, lock
  <1>11. ASSUME NEW p \in Threads, NEW d \in AllDescriptors, Close(p, d) PROVE TypeOK'
    <2>1. SlotOf(d) \in Index
      BY <1>11, SlotOfIs DEF Close, Known
    <2>2. [Idle EXCEPT !.at = "clear", !.slot = SlotOf(d)] \in Call
      BY <2>1, Constants DEF Idle, Call, Points
    <2>3. call' \in [Threads -> Call]
      BY <1>0, <1>11, <2>2 DEF TypeOK, Close
    <2>4. past' \subseteq Mishaps
      BY <1>0, <1>11 DEF Close, Note, TypeOK, Mishaps
    <2> QED
      BY <1>0, <1>11, <2>3, <2>4, DiskType
        DEF TypeOK, Close, ftab, timers, outside, bounds, lock
  <1>12. ASSUME NEW p \in Threads, Clear(p) PROVE TypeOK'
    <2>1. call' \in [Threads -> Call]
      BY <1>0, <1>12, Constants DEF TypeOK, Clear
    <2> QED
      BY <1>0, <1>12, <2>1
        DEF TypeOK, Clear, ClearSlot, Unlock, ftab, timers, outside, bounds, lock
  <1>13. ASSUME NEW i \in Index, Tick(i) PROVE TypeOK'
    BY <1>0, <1>13 DEF TypeOK, Tick, ftab, timers, outside, bounds, lock
  <1>14. ASSUME Relink PROVE TypeOK'
    <2>1. run' \in [at : {"none", "relink", "shadow"}, slot : Index] /\ ended' \in BOOLEAN
      BY <1>0, <1>14 DEF TypeOK, Relink
    <2> QED
      BY <1>0, <1>14, <2>1, DiskType DEF TypeOK, Relink, ftab, timers, outside, bounds, lock
  <1>15. ASSUME RelinkShadow PROVE TypeOK'
    <2>1. run' \in [at : {"none", "relink", "shadow"}, slot : Index]
      BY <1>15, Constants DEF RelinkShadow, NoRun
    <2> QED
      BY <1>0, <1>15, <2>1, DiskType
        DEF TypeOK, RelinkShadow, ftab, timers, outside, bounds, lock
  <1>16. ASSUME NEW f \in Files, Lose(f) PROVE TypeOK'
    BY <1>0, <1>16, Constants DEF TypeOK, Lose, ftab, timers, outside, bounds, lock
  <1>17. ASSUME NEW i \in Index, LoseShadow(i) PROVE TypeOK'
    BY <1>0, <1>17, Constants
      DEF TypeOK, LoseShadow, Note, Mishaps, ftab, timers, outside, bounds, lock
  <1>18. ASSUME NEW f \in Files, Make(f) PROVE TypeOK'
    BY <1>0, <1>18, Constants
      DEF TypeOK, Make, Note, Mishaps, ftab, timers, outside, bounds, lock
  <1>19. ASSUME UNCHANGED vars PROVE TypeOK'
    BY <1>0, <1>19 DEF TypeOK, vars, ftab, timers, outside, bounds, lock
  <1> QED
    BY <1>1, <1>2, <1>3, <1>4, <1>5, <1>6, <1>7, <1>8, <1>9, <1>10, <1>11, <1>12, <1>13, <1>14,
       <1>15, <1>16, <1>17, <1>18, <1>19 DEF Next, Continue, Stopped

-----------------------------------------------------------------------------
(* Where the threads are, and the slots. *)

LEMMA InitCall == Init => CallOK /\ SlotOK
  BY FileTableAssumption DEF Init, CallOK, Opening, SlotOK, Idle, Busy, FileTableAssumption

(* Nobody is in a call that holds the mutex while another may take it. *)
LEMMA NobodyBusy ==
    ASSUME TypeOK, CallOK, NEW p \in Threads, CanLock(p), call[p].at \notin Busy
    PROVE  \A q \in Threads : call[q].at \notin Busy
  BY FileTableAssumption DEF CallOK, CanLock, FileTableAssumption

LEMMA CallStep == TypeOK /\ CallOK /\ [Next]_vars => CallOK'
  <1> SUFFICES ASSUME TypeOK, CallOK, [Next]_vars PROVE CallOK'
    OBVIOUS
  <1>0. TypeOK /\ CallOK
    OBVIOUS
  <1>1. ASSUME NEW p \in Threads, NEW f \in Files, NEW how \in {"live", "dead", "protect"}, Open(p, f, how)
        PROVE  CallOK'
    BY <1>0, <1>1, FileTableAssumption
      DEF Open, CallOK, Opening, Busy, TypeOK, CanLock, Runs, Idle, FileTableAssumption, ftab,
          timers, outside, bounds, lock
  <1>2. ASSUME NEW p \in Threads, OpenFails(p) PROVE CallOK'
    BY <1>0, <1>2, FileTableAssumption
      DEF OpenFails, CallOK, Opening, Busy, TypeOK, CanLock, Runs, Idle, FileTableAssumption,
          ftab, timers, outside, bounds, lock
  <1>3. ASSUME NEW p \in Threads, OpenFile(p) PROVE CallOK'
    <2>1. PICK d \in IF call[p].how = "protect" THEN {Dummy(call[p].slot)} ELSE {Min(Unused)} :
              call' = [call EXCEPT ![p].at = "opened", ![p].des = d]
      BY <1>3 DEF OpenFile
    <2>2. d \in AllDescriptors
      <3>1. Unused \subseteq Descriptors /\ Descriptors \subseteq Nat
        BY FileTableAssumption DEF Unused, FileTableAssumption
      <3>2. CASE call[p].how = "protect"
        <4>1. call[p].slot \in Index
          BY <1>0 DEF TypeOK, Call
        <4>2. d = Dummy(call[p].slot)
          BY <3>2
        <4> QED
          BY <4>1, <4>2, Constants
      <3>3. CASE call[p].how # "protect"
        BY <1>3, <3>1, <3>3, MinOf, Constants DEF OpenFile
      <3> QED
        BY <3>2, <3>3
    <2> QED
      BY <1>0, <1>3, <2>1, <2>2
        DEF OpenFile, CallOK, Opening, Busy, TypeOK, CanLock, Runs, ftab, timers, outside,
            bounds, lock
  <1>4. ASSUME NEW p \in Threads, Fill(p) PROVE CallOK'
    <2>1. \/ mutex' = p /\ call' = [call EXCEPT ![p].at = "alive"] /\ p = Root
          \/ mutex' = mutex /\ call' = [call EXCEPT ![p] = Idle]
      <3>1. call[p].how # "dead" => p = Root
        BY <1>0, <1>4 DEF Fill, CallOK, Opening
      <3>2. CASE call[p].how = "dead"
        BY <1>4, <3>2 DEF Fill
      <3>3. CASE call[p].how # "dead"
        <4>1. mutex' = p
          BY <1>4, <3>3 DEF Fill
        <4>2. call' = [call EXCEPT ![p].at = "alive"]
          BY <1>4, <3>3 DEF Fill
        <4> QED
          BY <3>1, <3>3, <4>1, <4>2
      <3> QED
        BY <3>2, <3>3
    <2>2. CanLock(p) /\ call[p].at = "opened" /\ run' = run
      BY <1>4 DEF Fill
    <2>3. \A q \in Threads : call[q].at \notin Busy
      BY <1>0, <2>2, NobodyBusy DEF Busy
    <2>4. run # NoRun => mutex' \in {NoThread, Root}
      BY <1>0, <2>1 DEF CallOK
    <2>5. \A q \in Threads \ {p} : call'[q] = call[q]
      BY <1>0, <2>1 DEF TypeOK
    <2>6. \/ call'[p].at = "alive" /\ call'[p].des = call[p].des /\ p = Root /\ mutex' = p
          \/ call'[p].at = "idle" /\ call'[p].des = Free
      BY <1>0, <2>1 DEF TypeOK, Call, Idle
    <2> QED
      BY <1>0, <2>2, <2>3, <2>4, <2>5, <2>6 DEF CallOK, Opening, Busy
  <1>5. ASSUME NEW d \in AllDescriptors, CallAlive(d) PROVE CallOK'
    BY <1>0, <1>5, FileTableAssumption
      DEF CallAlive, CallOK, Opening, Busy, TypeOK, CanLock, Runs, Idle, FileTableAssumption,
          ftab, timers, outside, bounds, lock
  <1>6. ASSUME NEW p \in Threads, Alive(p) PROVE CallOK'
    <2>1. p = Root /\ Root \in Threads /\ run' = run
      BY <1>0, <1>6, FileTableAssumption DEF Alive, CallOK, FileTableAssumption
    <2>2. \A q \in Threads \ {p} : call[q].at \notin Busy
      BY <1>0, <1>6, FileTableAssumption DEF Alive, CallOK, CanLock, FileTableAssumption
    <2>3. mutex' \in {Root, NoThread, mutex}
      BY <1>0, <1>6, <2>1 DEF Alive, Unlock
    <2>4. call' = [call EXCEPT ![p] = Idle]
          \/ call' = [call EXCEPT ![p] = [call[p] EXCEPT !.at = "again"]]
      BY <1>0, <1>6 DEF Alive, TypeOK
    <2>5. call[p].des \in AllDescriptors /\ call[p] \in Call
      BY <1>0, <1>6 DEF CallOK, Alive, TypeOK
    <2> QED
      BY <1>0, <2>1, <2>2, <2>3, <2>4, <2>5
        DEF CallOK, Opening, Busy, TypeOK, Call, Idle, CanLock
  <1>7. ASSUME NEW d \in AllDescriptors, Dead(d) PROVE CallOK'
    <2> DEFINE i == SlotOf(d)
    <2>0. CanLock(Root) /\ call[Root] = Idle /\ run' = run /\ Root \in Threads
      BY <1>7, FileTableAssumption DEF Dead, FileTableAssumption
    <2>1. CASE mutex' = mutex /\ call' = call
      BY <1>0, <2>0, <2>1 DEF CallOK
    <2>2. CASE mutex' = Root /\ call' = [call EXCEPT ![Root] = [Idle EXCEPT !.at = "unlink", !.slot = i]]
      <3>1. call[Root].at = "idle"
        BY <2>0 DEF Idle
      <3>2. \A q \in Threads : call[q].at \notin Busy
        BY <1>0, <2>0, <3>1, NobodyBusy DEF Busy
      <3>3. call'[Root].at = "unlink" /\ call'[Root].des = Free
        BY <1>0, <2>0, <2>2 DEF TypeOK, Idle
      <3>4. \A q \in Threads \ {Root} : call'[q] = call[q]
        BY <1>0, <2>2 DEF TypeOK
      <3> QED
        BY <1>0, <2>0, <2>2, <3>2, <3>3, <3>4 DEF CallOK, Opening, Busy
    <2> QED
      BY <1>7, <2>1, <2>2 DEF Dead, Lower
  <1>8. ASSUME NEW f \in Files, Unprotect(f) PROVE CallOK'
    <2> DEFINE i == Min({k \in Index : fname[k] = f /\ homeostatic[k] > 0})
    <2>0. CanLock(Root) /\ call[Root] = Idle /\ run' = run /\ Root \in Threads
      BY <1>8, FileTableAssumption DEF Unprotect, FileTableAssumption
    <2>1. CASE mutex' = mutex /\ call' = call
      BY <1>0, <2>0, <2>1 DEF CallOK
    <2>2. CASE mutex' = Root /\ call' = [call EXCEPT ![Root] = [Idle EXCEPT !.at = "unlink", !.slot = i]]
      <3>1. call[Root].at = "idle"
        BY <2>0 DEF Idle
      <3>2. \A q \in Threads : call[q].at \notin Busy
        BY <1>0, <2>0, <3>1, NobodyBusy DEF Busy
      <3>3. call'[Root].at = "unlink" /\ call'[Root].des = Free
        BY <1>0, <2>0, <2>2 DEF TypeOK, Idle
      <3>4. \A q \in Threads \ {Root} : call'[q] = call[q]
        BY <1>0, <2>2 DEF TypeOK
      <3> QED
        BY <1>0, <2>0, <2>2, <3>2, <3>3, <3>4 DEF CallOK, Opening, Busy
    <2> QED
      BY <1>8, <2>1, <2>2 DEF Unprotect, Lower
  <1>9. ASSUME UnlinkShadow PROVE CallOK'
    BY <1>0, <1>9, FileTableAssumption
      DEF UnlinkShadow, CallOK, Opening, Busy, TypeOK, CanLock, Runs, FileTableAssumption,
          ftab, timers, outside, bounds, lock
  <1>10. ASSUME Bury PROVE CallOK'
    BY <1>0, <1>10, FileTableAssumption
      DEF Bury, Unlock, CallOK, Opening, Busy, TypeOK, CanLock, Runs, Idle,
          FileTableAssumption, ftab, timers, outside, bounds, lock
  <1>11. ASSUME NEW p \in Threads, NEW d \in AllDescriptors, Close(p, d) PROVE CallOK'
    BY <1>0, <1>11, FileTableAssumption
      DEF Close, CallOK, Opening, Busy, TypeOK, CanLock, Runs, Idle, FileTableAssumption, ftab,
          timers, outside, bounds, lock
  <1>12. ASSUME NEW p \in Threads, Clear(p) PROVE CallOK'
    BY <1>0, <1>12, FileTableAssumption
      DEF Clear, ClearSlot, Unlock, CallOK, Opening, Busy, TypeOK, CanLock, Runs, Idle,
          FileTableAssumption, ftab, timers, outside, bounds, lock
  <1>13. ASSUME NEW i \in Index, Tick(i) PROVE CallOK'
    BY <1>0, <1>13 DEF Tick, CallOK, lock
  <1>14. ASSUME Relink PROVE CallOK'
    BY <1>0, <1>14 DEF Relink, NoRun, CallOK, lock
  <1>15. ASSUME RelinkShadow PROVE CallOK'
    BY <1>0, <1>15, FileTableAssumption
      DEF RelinkShadow, CallOK, Opening, Busy, TypeOK, CanLock, Runs, FileTableAssumption,
          ftab, timers, outside, bounds, lock
  <1>16. ASSUME NEW f \in Files, Lose(f) PROVE CallOK'
    BY <1>0, <1>16, FileTableAssumption
      DEF Lose, CallOK, Opening, Busy, TypeOK, CanLock, Runs, FileTableAssumption, ftab,
          timers, outside, bounds, lock
  <1>17. ASSUME NEW i \in Index, LoseShadow(i) PROVE CallOK'
    BY <1>0, <1>17, FileTableAssumption
      DEF LoseShadow, CallOK, Opening, Busy, TypeOK, CanLock, Runs, FileTableAssumption, ftab,
          timers, outside, bounds, lock
  <1>18. ASSUME NEW f \in Files, Make(f) PROVE CallOK'
    BY <1>0, <1>18, FileTableAssumption
      DEF Make, CallOK, Opening, Busy, TypeOK, CanLock, Runs, FileTableAssumption, ftab,
          timers, outside, bounds, lock
  <1>19. ASSUME UNCHANGED vars PROVE CallOK'
    BY <1>0, <1>19 DEF CallOK, vars, ftab, timers, outside, bounds, lock
  <1> QED
    BY <1>1, <1>2, <1>3, <1>4, <1>5, <1>6, <1>7, <1>8, <1>9, <1>10, <1>11, <1>12, <1>13, <1>14,
       <1>15, <1>16, <1>17, <1>18, <1>19 DEF Next, Continue, Stopped

LEMMA SlotStep == TypeOK /\ CallOK /\ SlotOK /\ [Next]_vars => SlotOK'
  <1> SUFFICES ASSUME TypeOK, CallOK, SlotOK, [Next]_vars PROVE SlotOK'
    OBVIOUS
  <1>0. TypeOK /\ CallOK /\ SlotOK
    OBVIOUS
  <1>1. ASSUME NEW p \in Threads, NEW f \in Files, NEW how \in {"live", "dead", "protect"}, Open(p, f, how)
        PROVE  SlotOK'
    <2>1. SlotOf(Free) \in Index /\ fdes[SlotOf(Free)] = Free
      BY <1>1, SlotOfIs DEF Open
    <2> QED
      BY <1>0, <1>1, <2>1 DEF Open, SlotOK, TypeOK, ftab, timers, outside, bounds, lock
  <1>2. ASSUME NEW p \in Threads, OpenFails(p) PROVE SlotOK'
    BY <1>0, <1>2 DEF OpenFails, ClearSlot, SlotOK, TypeOK, ftab, timers, outside, bounds, lock
  <1>3. ASSUME NEW p \in Threads, OpenFile(p) PROVE SlotOK'
    BY <1>0, <1>3 DEF OpenFile, SlotOK, ftab, timers, outside, bounds, lock
  <1>4. ASSUME NEW p \in Threads, Fill(p) PROVE SlotOK'
    <2>1. call[p].slot \in Index /\ call[p].file \in Files
      BY <1>0, <1>4 DEF Fill, TypeOK, Call, CallOK, Opening
    <2>2. /\ fdes' = [fdes EXCEPT ![call[p].slot] = call[p].des]
          /\ fname' = [fname EXCEPT ![call[p].slot] = call[p].file]
          /\ homeostatic' = homeostatic
      BY <1>4 DEF Fill
    <2>3. call[p].des # Free
      BY <1>0, <1>4, Constants DEF Fill, CallOK
    <2>4. hname' = hname
      BY <1>4 DEF Fill
    <2> QED
      BY <1>0, <2>1, <2>2, <2>3, <2>4 DEF SlotOK, TypeOK
  <1>5. ASSUME NEW d \in AllDescriptors, CallAlive(d) PROVE SlotOK'
    BY <1>0, <1>5 DEF CallAlive, SlotOK, ftab, timers, outside, bounds, lock
  <1>6. ASSUME NEW p \in Threads, Alive(p) PROVE SlotOK'
    <2> DEFINE i == SlotOf(call[p].des)
               n == [file |-> fname[i], des |-> IF call[p].at = "alive" THEN call[p].des ELSE Free]
    <2>1. CASE homeostatic' = homeostatic /\ hname' = hname
      BY <1>0, <1>6, <2>1 DEF Alive, SlotOK, TypeOK, ftab, timers, outside, bounds, lock
    <2>2. CASE SlotsOf(call[p].des) # {}
      <3>1. i \in Index /\ fdes[i] # Free
        BY <1>0, <1>6, <2>2, SlotOfIs, Constants DEF CallOK, Alive
      <3>2. CASE hname' = hname /\ homeostatic' = [homeostatic EXCEPT ![i] = @ + 1] /\ homeostatic[i] > 0
        BY <1>0, <1>6, <3>1, <3>2 DEF Alive, SlotOK, TypeOK, ftab, timers, outside, bounds, lock
      <3>3. CASE MakeLive(i, n)
        <4>1. n # NoName
          BY <1>0, <3>1, <3>3, FileTableAssumption DEF SlotOK, NoName, FileTableAssumption
        <4>2. /\ hname' = [hname EXCEPT ![i] = n] /\ homeostatic' = [homeostatic EXCEPT ![i] = 2]
              /\ fdes' = fdes /\ fname' = fname
          BY <1>6, <3>3 DEF MakeLive, Alive
        <4> QED
          BY <1>0, <3>1, <4>1, <4>2 DEF SlotOK, TypeOK
      <3> QED
        BY <1>6, <2>1, <2>2, <3>2, <3>3 DEF Alive
    <2> QED
      BY <1>6, <2>1, <2>2 DEF Alive
  <1>7. ASSUME NEW d \in AllDescriptors, Dead(d) PROVE SlotOK'
    <2>1. SlotOf(d) \in Index /\ fdes[SlotOf(d)] # Free
      BY <1>7, SlotOfIs DEF Dead, Known
    <2> QED
      BY <1>0, <1>7, <2>1 DEF Dead, SlotOK, TypeOK, ftab, timers, outside, bounds, lock
  <1>8. ASSUME NEW f \in Files, Unprotect(f) PROVE SlotOK'
    <2> DEFINE S == {k \in Index : fname[k] = f /\ homeostatic[k] > 0}
               i == Min(S)
    <2>1. i \in S
      BY <1>8, MinOf, Constants DEF Unprotect
    <2> QED
      BY <1>0, <1>8, <2>1 DEF Unprotect, SlotOK, TypeOK, ftab, timers, outside, bounds, lock
  <1>9. ASSUME UnlinkShadow PROVE SlotOK'
    BY <1>0, <1>9 DEF UnlinkShadow, SlotOK, ftab, timers, outside, bounds, lock
  <1>10. ASSUME Bury PROVE SlotOK'
    BY <1>0, <1>10 DEF Bury, SlotOK, TypeOK, ftab, timers, outside, bounds, lock
  <1>11. ASSUME NEW p \in Threads, NEW d \in AllDescriptors, Close(p, d) PROVE SlotOK'
    BY <1>0, <1>11 DEF Close, SlotOK, ftab, timers, outside, bounds, lock
  <1>12. ASSUME NEW p \in Threads, Clear(p) PROVE SlotOK'
    BY <1>0, <1>12 DEF Clear, ClearSlot, SlotOK, TypeOK, ftab, timers, outside, bounds, lock
  <1>13. ASSUME NEW i \in Index, Tick(i) PROVE SlotOK'
    BY <1>0, <1>13 DEF Tick, SlotOK, ftab, timers, outside, bounds, lock
  <1>14. ASSUME Relink PROVE SlotOK'
    BY <1>0, <1>14 DEF Relink, SlotOK, ftab, timers, outside, bounds, lock
  <1>15. ASSUME RelinkShadow PROVE SlotOK'
    BY <1>0, <1>15 DEF RelinkShadow, SlotOK, ftab, timers, outside, bounds, lock
  <1>16. ASSUME NEW f \in Files, Lose(f) PROVE SlotOK'
    BY <1>0, <1>16 DEF Lose, SlotOK, ftab, timers, outside, bounds, lock
  <1>17. ASSUME NEW i \in Index, LoseShadow(i) PROVE SlotOK'
    BY <1>0, <1>17 DEF LoseShadow, SlotOK, ftab, timers, outside, bounds, lock
  <1>18. ASSUME NEW f \in Files, Make(f) PROVE SlotOK'
    BY <1>0, <1>18 DEF Make, SlotOK, ftab, timers, outside, bounds, lock
  <1>19. ASSUME UNCHANGED vars PROVE SlotOK'
    BY <1>0, <1>19 DEF SlotOK, vars, ftab, timers, outside, bounds, lock
  <1> QED
    BY <1>1, <1>2, <1>3, <1>4, <1>5, <1>6, <1>7, <1>8, <1>9, <1>10, <1>11, <1>12, <1>13, <1>14,
       <1>15, <1>16, <1>17, <1>18, <1>19 DEF Next, Continue, Stopped

-----------------------------------------------------------------------------
(* Descriptors: every open one in one place. *)

LEMMA PastGrows == [Next]_vars => past \subseteq past'
  <1> SUFFICES ASSUME [Next]_vars PROVE past \subseteq past'
    OBVIOUS
  <1>1. ASSUME NEW p \in Threads, NEW f \in Files, NEW how \in {"live", "dead", "protect"}, Open(p, f, how)
        PROVE  past \subseteq past'
    BY <1>1 DEF Note, Open, ftab, timers, outside, bounds, lock
  <1>2. ASSUME NEW p \in Threads, OpenFails(p) PROVE past \subseteq past'
    BY <1>2 DEF ClearSlot, OpenFails, ftab, timers, outside, bounds, lock
  <1>3. ASSUME NEW p \in Threads, OpenFile(p) PROVE past \subseteq past'
    BY <1>3 DEF OpenFile, ftab, timers, outside, bounds, lock
  <1>4. ASSUME NEW p \in Threads, Fill(p) PROVE past \subseteq past'
    BY <1>4 DEF Fill, ftab, timers, outside, bounds, lock
  <1>5. ASSUME NEW d \in AllDescriptors, CallAlive(d) PROVE past \subseteq past'
    BY <1>5 DEF CallAlive, ftab, timers, outside, bounds, lock
  <1>6. ASSUME NEW p \in Threads, Alive(p) PROVE past \subseteq past'
    BY <1>6 DEF Alive, MakeLive
  <1>7. ASSUME NEW d \in AllDescriptors, Dead(d) PROVE past \subseteq past'
    BY <1>7 DEF Dead, ftab, timers, outside, bounds, lock
  <1>8. ASSUME NEW f \in Files, Unprotect(f) PROVE past \subseteq past'
    BY <1>8 DEF Unprotect, ftab, timers, outside, bounds, lock
  <1>9. ASSUME UnlinkShadow PROVE past \subseteq past'
    BY <1>9 DEF UnlinkShadow, ftab, timers, outside, bounds, lock
  <1>10. ASSUME Bury PROVE past \subseteq past'
    BY <1>10 DEF Bury, ftab, timers, outside, bounds, lock
  <1>11. ASSUME NEW p \in Threads, NEW d \in AllDescriptors, Close(p, d)
         PROVE  past \subseteq past'
    BY <1>11 DEF Note, Close, ftab, timers, outside, bounds, lock
  <1>12. ASSUME NEW p \in Threads, Clear(p) PROVE past \subseteq past'
    BY <1>12 DEF ClearSlot, Clear, ftab, timers, outside, bounds, lock
  <1>13. ASSUME NEW i \in Index, Tick(i) PROVE past \subseteq past'
    BY <1>13 DEF Tick, ftab, timers, outside, bounds, lock
  <1>14. ASSUME Relink PROVE past \subseteq past'
    BY <1>14 DEF Relink, ftab, timers, outside, bounds, lock
  <1>15. ASSUME RelinkShadow PROVE past \subseteq past'
    BY <1>15 DEF RelinkShadow, ftab, timers, outside, bounds, lock
  <1>16. ASSUME NEW f \in Files, Lose(f) PROVE past \subseteq past'
    BY <1>16 DEF Lose, ftab, timers, outside, bounds, lock
  <1>17. ASSUME NEW i \in Index, LoseShadow(i) PROVE past \subseteq past'
    BY <1>17 DEF Note, LoseShadow, ftab, timers, outside, bounds, lock
  <1>18. ASSUME NEW f \in Files, Make(f) PROVE past \subseteq past'
    BY <1>18 DEF Note, Make, ftab, timers, outside, bounds, lock
  <1>19. ASSUME UNCHANGED vars PROVE past \subseteq past'
    BY <1>19 DEF vars
  <1> QED
    BY <1>1, <1>2, <1>3, <1>4, <1>5, <1>6, <1>7, <1>8, <1>9, <1>10, <1>11, <1>12, <1>13, <1>14,
       <1>15, <1>16, <1>17, <1>18, <1>19 DEF Next, Continue, Stopped

Moving == {"found", "opened", "clear"}
Still(p) == call'[p] = call[p] \/ {call[p].at, call'[p].at} \cap Moving = {}
LEMMA SameHolders ==
    ASSUME SlotGiven, DummyOwn, OneHolder, fdes' = fdes, ino' = ino,
           \A p \in Threads : Still(p)
    PROVE  SlotGiven' /\ DummyOwn' /\ OneHolder'
  <1>1. \A p \in Threads : \/ call[p].at \in Moving /\ call'[p] = call[p]
                           \/ call[p].at \notin Moving /\ call'[p].at \notin Moving
    BY DEF Still
  <1>2. SlotGiven' /\ DummyOwn'
    BY <1>1 DEF SlotGiven, DummyOwn, Moving, Opening
  <1>3. Closing' = Closing
    BY <1>1 DEF Closing, Moving
  <1>4. \A d \in AllDescriptors : Holding(d)' = Holding(d) /\ Entering(d)' = Entering(d)
    BY <1>1, <1>3 DEF Holding, SlotsOf, Entering, Moving
  <1> QED
    BY <1>2, <1>4 DEF OneHolder

(* No descriptor is in use that nobody holds or enters. *)
LEMMA NoHolder ==
    ASSUME OneHolder, NEW d \in AllDescriptors, Holding(d) = {}, Entering(d) = {}
    PROVE  ino[d] = Missing
  BY DEF OneHolder

(* The descriptor open(2) returns, and the dummy of a slot, are nobody's.    *)
LEMMA NewDescriptor ==
    ASSUME TypeOK, CallOK, SlotGiven, DummyOwn, OneHolder, NEW p \in Threads, OpenFile(p),
           NEW d \in IF call[p].how = "protect" THEN {Dummy(call[p].slot)} ELSE {Min(Unused)}
    PROVE  /\ d \in AllDescriptors /\ Holding(d) = {} /\ Entering(d) = {}
           /\ call[p].slot \in Index
           /\ \A k \in Index : d = Dummy(k) => k = call[p].slot
  <1> DEFINE i == call[p].slot
  <1>1. i \in Index /\ fdes[i] = Free /\ call[p].at = "found"
    BY DEF OpenFile, SlotGiven, Opening, TypeOK, Call
  <1>2. CASE call[p].how = "protect"
    <2>1. d = Dummy(i) /\ d \in AllDescriptors /\ \A k \in Index : d = Dummy(k) => k = i
      BY <1>1, <1>2, Constants
    <2>2. Holding(d) = {}
      BY <1>1, <2>1, Constants DEF Holding, SlotsOf, DummyOwn
    <2>3. Entering(d) = {}
      BY <1>1, <2>1 DEF Entering, DummyOwn, SlotGiven, Opening
    <2> QED
      BY <1>1, <2>1, <2>2, <2>3
  <1>3. CASE call[p].how # "protect"
    <2>1. Unused \subseteq Descriptors /\ Descriptors \subseteq Nat /\ Unused # {}
      BY <1>3, FileTableAssumption DEF OpenFile, Unused, FileTableAssumption
    <2>2. d \in Unused
      BY <1>3, <2>1, MinOf
    <2>3. d \in AllDescriptors /\ d \in Descriptors /\ ino[d] = Missing
      BY <2>2, Constants DEF Unused
    <2> QED
      BY <1>1, <2>3, Constants DEF OneHolder
  <1> QED
    BY <1>2, <1>3

LEMMA HoldersStep ==
    ASSUME TypeOK, CallOK, Table, [Next]_vars, "overlapped" \notin past'
    PROVE  SlotGiven' /\ DummyOwn' /\ OneHolder'
  <1>0. TypeOK /\ CallOK /\ SlotGiven /\ DummyOwn /\ OneHolder /\ "overlapped" \notin past'
    BY PastGrows DEF Table
  <1>1. ASSUME NEW p \in Threads, NEW f \in Files, NEW how \in {"live", "dead", "protect"}, Open(p, f, how)
        PROVE  SlotGiven' /\ DummyOwn' /\ OneHolder'
    <2> DEFINE i == SlotOf(Free)
    <2>1. i \in Index /\ fdes[i] = Free
      BY <1>1, SlotOfIs DEF Open
    <2>2. /\ call[p].at = "idle" /\ call'[p].at = "found" /\ call'[p].slot = i
          /\ \A q \in Threads \ {p} : call'[q] = call[q]
          /\ fdes' = fdes /\ ino' = ino
      BY <1>0, <1>1 DEF Open, TypeOK, Idle
    <2>3. \A q \in Threads : call[q].at \in Opening => call[q].slot # i
      BY <1>0, <1>1 DEF Open, Note, Opening
    <2>4. SlotGiven' /\ DummyOwn'
      BY <1>0, <2>1, <2>2, <2>3 DEF SlotGiven, DummyOwn, Opening
    <2>5. Closing' = Closing
      BY <2>2 DEF Closing
    <2>6. \A d \in AllDescriptors : Holding(d)' = Holding(d) /\ Entering(d)' = Entering(d)
      BY <2>2, <2>5 DEF Holding, SlotsOf, Entering
    <2> QED
      BY <1>0, <2>2, <2>4, <2>6 DEF OneHolder
  <1>2. ASSUME NEW p \in Threads, OpenFails(p) PROVE SlotGiven' /\ DummyOwn' /\ OneHolder'
    <2>1. call[p].slot \in Index /\ fdes[call[p].slot] = Free
      BY <1>0, <1>2 DEF OpenFails, SlotGiven, Opening, TypeOK, Call
    <2>2. /\ call[p].at = "found" /\ call'[p].at = "idle"
          /\ \A q \in Threads \ {p} : call'[q] = call[q]
          /\ fdes' = fdes /\ ino' = ino
      BY <1>0, <1>2, <2>1 DEF OpenFails, ClearSlot, TypeOK, Idle
    <2>4. SlotGiven' /\ DummyOwn'
      BY <1>0, <2>1, <2>2 DEF SlotGiven, DummyOwn, Opening
    <2>5. Closing' = Closing
      BY <2>2 DEF Closing
    <2>6. \A d \in AllDescriptors : Holding(d)' = Holding(d) /\ Entering(d)' = Entering(d)
      BY <2>2, <2>5 DEF Holding, SlotsOf, Entering
    <2> QED
      BY <1>0, <2>2, <2>4, <2>6 DEF OneHolder
  <1>3. ASSUME NEW p \in Threads, OpenFile(p) PROVE SlotGiven' /\ DummyOwn' /\ OneHolder'
    <2> DEFINE i == call[p].slot
    <2>1. PICK d \in IF call[p].how = "protect" THEN {Dummy(i)} ELSE {Min(Unused)} :
              /\ ino' = [ino EXCEPT ![d] = disk[call[p].file]]
              /\ call' = [call EXCEPT ![p].at = "opened", ![p].des = d]
      BY <1>3 DEF OpenFile
    <2>2. d \in AllDescriptors /\ Holding(d) = {} /\ Entering(d) = {} /\ i \in Index
          /\ \A k \in Index : d = Dummy(k) => k = i
      BY <1>0, <1>3, <2>1, NewDescriptor
    <2>3. /\ call[p].at = "found" /\ call'[p].at = "opened" /\ call'[p].slot = i
          /\ call'[p].des = d /\ fdes' = fdes
          /\ \A q \in Threads \ {p} : call'[q] = call[q]
      BY <1>0, <1>3, <2>1 DEF OpenFile, TypeOK, Call, ftab
    <2>4. /\ ino'[d] # Missing
          /\ \A e \in AllDescriptors \ {d} : ino'[e] = ino[e]
      BY <1>0, <1>3, <2>1, <2>2 DEF OpenFile, Exists, TypeOK
    <2>5. SlotGiven' /\ DummyOwn'
      BY <1>0, <2>2, <2>3 DEF SlotGiven, DummyOwn, Opening
    <2>6. Closing' = Closing
      BY <2>3 DEF Closing
    <2>7. \A e \in AllDescriptors : Holding(e)' = Holding(e)
      BY <2>3, <2>6 DEF Holding, SlotsOf
    <2>8. Entering(d)' = {p}
      BY <2>2, <2>3 DEF Entering
    <2>9. \A e \in AllDescriptors \ {d} : Entering(e)' = Entering(e)
      BY <2>3 DEF Entering
    <2>10. ASSUME NEW e \in AllDescriptors, e = d
           PROVE  ino'[e] # Missing /\ Holding(e)' = {} /\ Entering(e)' = {p}
      BY <2>2, <2>4, <2>7, <2>8, <2>10
    <2> QED
      BY <1>0, <2>4, <2>5, <2>7, <2>9, <2>10 DEF OneHolder
  <1>4. ASSUME NEW p \in Threads, Fill(p) PROVE SlotGiven' /\ DummyOwn' /\ OneHolder'
    <2>0. PICK i \in Index, d \in AllDescriptors : i = call[p].slot /\ d = call[p].des
      BY <1>0, <1>4 DEF Fill, TypeOK, Call, CallOK
    <2>1. /\ i \in Index /\ fdes[i] = Free /\ d \in AllDescriptors /\ d # Free
          /\ fdes' = [fdes EXCEPT ![i] = d] /\ ino' = ino /\ call[p].at = "opened"
      BY <1>0, <1>4, <2>0, Constants DEF Fill, SlotGiven, Opening
    <2>2. /\ call'[p].at \in {"idle", "alive"}
          /\ \A q \in Threads \ {p} : call'[q] = call[q]
      BY <1>0, <1>4 DEF Fill, TypeOK, Idle, Call
    <2>3. \A q \in Threads : call[q].at \notin Busy
      BY <1>0, <1>4, NobodyBusy DEF Fill, Busy
    <2>4. Closing = {} /\ Closing' = {}
      BY <2>2, <2>3 DEF Closing, Busy
    <2>5. SlotGiven'
      BY <1>0, <2>0, <2>1, <2>2 DEF SlotGiven, Opening, TypeOK
    <2>6. DummyOwn'
      BY <1>0, <2>0, <2>1, <2>2 DEF DummyOwn, TypeOK
    <2>7. p \in Entering(d)
      BY <2>0, <2>1 DEF Entering
    <2>8. ino[d] # Missing /\ Holding(d) = {} /\ Entering(d) = {p}
      BY <1>0, <2>1, <2>7 DEF OneHolder
    <2>9. Holding(d)' = {i} /\ Entering(d)' = {}
      <3>1. Entering(d)' = {}
        BY <2>2, <2>8 DEF Entering
      <3>2. \A k \in Index : fdes[k] # d
        BY <2>4, <2>8 DEF Holding, SlotsOf
      <3>3. SlotsOf(d)' = {i}
        BY <1>0, <2>1, <3>2 DEF SlotsOf, TypeOK
      <3> QED
        BY <2>4, <3>1, <3>3 DEF Holding
    <2>10. \A e \in AllDescriptors \ {d} : Holding(e)' = Holding(e) /\ Entering(e)' = Entering(e)
      <3> SUFFICES ASSUME NEW e \in AllDescriptors \ {d}
                   PROVE  Holding(e)' = Holding(e) /\ Entering(e)' = Entering(e)
        OBVIOUS
      <3>1. SlotsOf(e)' = SlotsOf(e)
        BY <1>0, <2>1, Constants DEF SlotsOf, TypeOK
      <3>2. Entering(e)' = Entering(e)
        BY <2>0, <2>1, <2>2 DEF Entering
      <3> QED
        BY <2>4, <3>1, <3>2 DEF Holding
    <2>11. ASSUME NEW e \in AllDescriptors, e = d
           PROVE  ino'[e] # Missing /\ Holding(e)' = {i} /\ Entering(e)' = {}
      BY <2>1, <2>8, <2>9, <2>11
    <2> QED
      BY <1>0, <2>1, <2>5, <2>6, <2>10, <2>11 DEF OneHolder
  <1>5. ASSUME NEW d \in AllDescriptors, CallAlive(d)
        PROVE  SlotGiven' /\ DummyOwn' /\ OneHolder'
    <2>1. \A p \in Threads : Still(p)
      BY <1>0, <1>5, FileTableAssumption
        DEF CallAlive, TypeOK, FileTableAssumption, Still, Moving, Idle
    <2> QED
      BY <1>0, <1>5, <2>1, SameHolders DEF CallAlive, ftab, timers, outside, bounds, lock
  <1>6. ASSUME NEW p \in Threads, Alive(p) PROVE SlotGiven' /\ DummyOwn' /\ OneHolder'
    <2>1. call' = [call EXCEPT ![p] = Idle]
          \/ call' = [call EXCEPT ![p] = [call[p] EXCEPT !.at = "again"]]
      BY <1>0, <1>6 DEF Alive, TypeOK
    <2>2. call[p] \in Call /\ call[p].at \in {"alive", "again"}
      BY <1>0, <1>6 DEF Alive, TypeOK
    <2>3. \A q \in Threads : Still(q)
      BY <1>0, <2>1, <2>2 DEF TypeOK, Still, Moving, Idle, Call
    <2> QED
      BY <1>0, <1>6, <2>3, SameHolders DEF Alive
  <1>7. ASSUME NEW d \in AllDescriptors, Dead(d) PROVE SlotGiven' /\ DummyOwn' /\ OneHolder'
    <2> DEFINE i == SlotOf(d)
    <2>1. CASE call' = call
      BY <1>0, <1>7, <2>1, SameHolders DEF Dead, Still, ftab, timers, outside, bounds, lock
    <2>2. CASE call' = [call EXCEPT ![Root] = [Idle EXCEPT !.at = "unlink", !.slot = i]]
      <3>1. call[Root].at = "idle" /\ call'[Root].at = "unlink"
        BY <1>0, <1>7, <2>2, FileTableAssumption DEF Dead, TypeOK, Idle, FileTableAssumption
      <3>2. \A p \in Threads \ {Root} : call'[p] = call[p]
        BY <1>0, <2>2 DEF TypeOK
      <3>3. \A p \in Threads : Still(p)
        BY <3>1, <3>2 DEF Still, Moving
      <3> QED
        BY <1>0, <1>7, <3>3, SameHolders DEF Dead, ftab, timers, outside, bounds, lock
    <2> QED
      BY <1>7, <2>1, <2>2 DEF Dead, Lower
  <1>8. ASSUME NEW f \in Files, Unprotect(f) PROVE SlotGiven' /\ DummyOwn' /\ OneHolder'
    <2> DEFINE i == Min({k \in Index : fname[k] = f /\ homeostatic[k] > 0})
    <2>1. CASE call' = call
      BY <1>0, <1>8, <2>1, SameHolders DEF Unprotect, Still, ftab, timers, outside, bounds, lock
    <2>2. CASE call' = [call EXCEPT ![Root] = [Idle EXCEPT !.at = "unlink", !.slot = i]]
      <3>1. call[Root].at = "idle" /\ call'[Root].at = "unlink"
        BY <1>0, <1>8, <2>2, FileTableAssumption
          DEF Unprotect, TypeOK, Idle, FileTableAssumption
      <3>2. \A p \in Threads \ {Root} : call'[p] = call[p]
        BY <1>0, <2>2 DEF TypeOK
      <3>3. \A p \in Threads : Still(p)
        BY <3>1, <3>2 DEF Still, Moving
      <3> QED
        BY <1>0, <1>8, <3>3, SameHolders DEF Unprotect, ftab, timers, outside, bounds, lock
    <2> QED
      BY <1>8, <2>1, <2>2 DEF Unprotect, Lower
  <1>9. ASSUME UnlinkShadow PROVE SlotGiven' /\ DummyOwn' /\ OneHolder'
    <2>1. \A p \in Threads : Still(p)
      BY <1>0, <1>9, FileTableAssumption
        DEF UnlinkShadow, TypeOK, FileTableAssumption, Still, Moving, Idle
    <2> QED
      BY <1>0, <1>9, <2>1, SameHolders DEF UnlinkShadow, ftab, timers, outside, bounds, lock
  <1>10. ASSUME Bury PROVE SlotGiven' /\ DummyOwn' /\ OneHolder'
    <2>1. \A p \in Threads : Still(p)
      BY <1>0, <1>10, FileTableAssumption
        DEF Bury, TypeOK, FileTableAssumption, Still, Moving, Idle
    <2> QED
      BY <1>0, <1>10, <2>1, SameHolders DEF Bury, ftab, timers, outside, bounds, lock
  <1>11. ASSUME NEW p \in Threads, NEW d \in AllDescriptors, Close(p, d)
         PROVE  SlotGiven' /\ DummyOwn' /\ OneHolder'
    <2> DEFINE i == SlotOf(d)
    <2>1. /\ i \in Index /\ fdes[i] = d /\ fdes' = fdes
          /\ ino' = [ino EXCEPT ![d] = Missing] /\ call[p].at = "idle"
      BY <1>11, SlotOfIs DEF Close, Known, Idle, ftab
    <2>2. /\ call'[p].at = "clear" /\ call'[p].slot = i
          /\ \A q \in Threads \ {p} : call'[q] = call[q]
      BY <1>0, <1>11 DEF Close, TypeOK, Idle
    <2>3. \A q \in Threads : call[q].at \notin Busy
      BY <1>0, <1>11, <2>1, NobodyBusy DEF Close, Busy
    <2>4. Closing = {} /\ Closing' = {i}
      <3>1. Closing = {}
        BY <2>3 DEF Closing, Busy
      <3>2. {q \in Threads : call'[q].at = "clear"} = {p}
        BY <2>2, <2>3 DEF Busy
      <3> QED
        BY <2>2, <3>1, <3>2 DEF Closing
    <2>5. SlotGiven' /\ DummyOwn'
      BY <1>0, <2>1, <2>2 DEF SlotGiven, DummyOwn, Opening
    <2>6. \A e \in AllDescriptors : Entering(e)' = Entering(e)
      BY <2>1, <2>2 DEF Entering
    <2>7. Entering(d) = {}
      BY <1>11 DEF Close, Known, Entering
    <2>8. i \in Holding(d)
      BY <2>1, <2>4 DEF Holding, SlotsOf
    <2>9. Holding(d) = {i}
      BY <1>0, <2>8 DEF OneHolder
    <2>10. Holding(d)' = {}
      BY <2>1, <2>4, <2>9 DEF Holding, SlotsOf
    <2>11. \A e \in AllDescriptors \ {d} : Holding(e)' = Holding(e)
      BY <2>1, <2>4 DEF Holding, SlotsOf
    <2>12. /\ ino'[d] = Missing /\ Holding(d)' = {} /\ Entering(d)' = {}
           /\ \A e \in AllDescriptors \ {d} : ino'[e] = ino[e]
      BY <1>0, <2>1, <2>6, <2>7, <2>10 DEF TypeOK
    <2>13. ASSUME NEW e \in AllDescriptors, e = d
           PROVE  ino'[e] = Missing /\ Holding(e)' = {} /\ Entering(e)' = {}
      BY <2>12, <2>13
    <2> HIDE DEF i
    <2> QED
      BY <1>0, <2>5, <2>6, <2>11, <2>12, <2>13 DEF OneHolder
  <1>12. ASSUME NEW p \in Threads, Clear(p) PROVE SlotGiven' /\ DummyOwn' /\ OneHolder'
    <2> DEFINE i == call[p].slot
    <2>1. /\ i \in Index /\ fdes' = [fdes EXCEPT ![i] = Free] /\ ino' = ino
          /\ call[p].at = "clear"
      BY <1>0, <1>12 DEF Clear, ClearSlot, TypeOK, Call
    <2>2. /\ call'[p].at = "idle" /\ \A q \in Threads \ {p} : call'[q] = call[q]
      BY <1>0, <1>12 DEF Clear, TypeOK, Idle
    <2>3. \A q \in Threads : call[q].at = "clear" => q = p
      BY <1>0, <2>1 DEF CallOK, Busy
    <2>4. Closing = {i} /\ Closing' = {}
      <3>1. {q \in Threads : call[q].at = "clear"} = {p}
        BY <2>1, <2>3
      <3>2. {q \in Threads : call'[q].at = "clear"} = {}
        BY <2>2, <2>3
      <3> QED
        BY <3>1, <3>2 DEF Closing
    <2>5. SlotGiven' /\ DummyOwn'
      BY <1>0, <2>1, <2>2, Constants DEF SlotGiven, DummyOwn, Opening, TypeOK
    <2>6. \A e \in AllDescriptors : Entering(e)' = Entering(e)
      BY <2>1, <2>2 DEF Entering
    <2>7. \A e \in AllDescriptors : Holding(e)' = Holding(e)
      <3> SUFFICES ASSUME NEW e \in AllDescriptors PROVE Holding(e)' = Holding(e)
        OBVIOUS
      <3>1. SlotsOf(e)' = SlotsOf(e) \ {i}
        BY <1>0, <2>1, Constants DEF SlotsOf, TypeOK
      <3> QED
        BY <2>4, <3>1 DEF Holding
    <2> QED
      BY <1>0, <2>1, <2>5, <2>6, <2>7 DEF OneHolder
  <1>13. ASSUME NEW i \in Index, Tick(i) PROVE SlotGiven' /\ DummyOwn' /\ OneHolder'
    <2>1. \A p \in Threads : Still(p)
      BY <1>0, <1>13 DEF Tick, TypeOK, Still, Moving, Idle
    <2> QED
      BY <1>0, <1>13, <2>1, SameHolders DEF Tick, ftab, timers, outside, bounds, lock
  <1>14. ASSUME Relink PROVE SlotGiven' /\ DummyOwn' /\ OneHolder'
    <2>1. \A p \in Threads : Still(p)
      BY <1>0, <1>14 DEF Relink, TypeOK, Still, Moving, Idle
    <2> QED
      BY <1>0, <1>14, <2>1, SameHolders DEF Relink, ftab, timers, outside, bounds, lock
  <1>15. ASSUME RelinkShadow PROVE SlotGiven' /\ DummyOwn' /\ OneHolder'
    <2>1. \A p \in Threads : Still(p)
      BY <1>0, <1>15 DEF RelinkShadow, TypeOK, Still, Moving, Idle
    <2> QED
      BY <1>0, <1>15, <2>1, SameHolders DEF RelinkShadow, ftab, timers, outside, bounds, lock
  <1>16. ASSUME NEW f \in Files, Lose(f) PROVE SlotGiven' /\ DummyOwn' /\ OneHolder'
    <2>1. \A p \in Threads : Still(p)
      BY <1>0, <1>16 DEF Lose, TypeOK, Still, Moving, Idle
    <2> QED
      BY <1>0, <1>16, <2>1, SameHolders DEF Lose, ftab, timers, outside, bounds, lock
  <1>17. ASSUME NEW i \in Index, LoseShadow(i) PROVE SlotGiven' /\ DummyOwn' /\ OneHolder'
    <2>1. \A p \in Threads : Still(p)
      BY <1>0, <1>17 DEF LoseShadow, TypeOK, Still, Moving, Idle
    <2> QED
      BY <1>0, <1>17, <2>1, SameHolders DEF LoseShadow, ftab, timers, outside, bounds, lock
  <1>18. ASSUME NEW f \in Files, Make(f) PROVE SlotGiven' /\ DummyOwn' /\ OneHolder'
    <2>1. \A p \in Threads : Still(p)
      BY <1>0, <1>18 DEF Make, TypeOK, Still, Moving, Idle
    <2> QED
      BY <1>0, <1>18, <2>1, SameHolders DEF Make, ftab, timers, outside, bounds, lock
  <1>19. ASSUME UNCHANGED vars PROVE SlotGiven' /\ DummyOwn' /\ OneHolder'
    BY <1>0, <1>19, SameHolders DEF Still, vars, ftab, timers, outside, bounds, lock
  <1> QED
    BY <1>1, <1>2, <1>3, <1>4, <1>5, <1>6, <1>7, <1>8, <1>9, <1>10, <1>11, <1>12, <1>13, <1>14,
       <1>15, <1>16, <1>17, <1>18, <1>19 DEF Next, Continue, Stopped

LEMMA InitTable == Init => Table
  <1> SUFFICES ASSUME Init PROVE SlotGiven /\ DummyOwn /\ OneHolder
    BY DEF Table
  <1>1. SlotGiven
    BY DEF Init, SlotGiven, Idle, Opening
  <1>2. DummyOwn
    BY Constants DEF Init, DummyOwn, Idle
  <1>3. \A d \in AllDescriptors : ino[d] = Missing /\ Holding(d) = {} /\ Entering(d) = {}
    BY Constants DEF Init, Holding, SlotsOf, Entering, Idle
  <1>4. OneHolder
    BY <1>3 DEF OneHolder
  <1> QED
    BY <1>1, <1>2, <1>4

LEMMA HoldersKnown == Table => DescriptorsKnown
  <1> SUFFICES ASSUME Table, "overlapped" \notin past, NEW d \in AllDescriptors
               PROVE  Cardinality(Holding(d) \cup Entering(d))
                          = IF ino[d] # Missing THEN 1 ELSE 0
    BY DEF DescriptorsKnown, Holding
  <1>1. OneHolder
    BY DEF Table
  <1>2. CASE ino[d] = Missing
    <2>1. Holding(d) \cup Entering(d) = {}
      BY <1>1, <1>2 DEF OneHolder
    <2> QED
      BY <1>2, <2>1, FS_EmptySet
  <1>3. CASE ino[d] # Missing
    <2>1. PICK x : Holding(d) \cup Entering(d) = {x}
      BY <1>1, <1>3 DEF OneHolder
    <2> QED
      BY <1>3, <2>1, FS_Singleton
  <1> QED
    BY <1>2, <1>3

-----------------------------------------------------------------------------
(* Timers: every live file that was not refused one has its own. *)

LEMMA BuryingIs ==
    ASSUME CallOK, NEW i
    PROVE  i \in Burying <=> call[Root].at \in {"unlink", "bury"} /\ i = call[Root].slot
  BY FileTableAssumption DEF Burying, CallOK, FileTableAssumption

LEMMA BuryingNext ==
    ASSUME CallOK', NEW i
    PROVE  i \in Burying' <=> call'[Root].at \in {"unlink", "bury"} /\ i = call'[Root].slot
  BY FileTableAssumption DEF Burying, CallOK, FileTableAssumption

(* Steps that leave the timers alone and make nothing live. *)
LEMMA SameServed ==
    ASSUME CallOK, CallOK', Served, vttab' = vttab,
           \A i \in Index : homeostatic'[i] > 0 =>
               /\ homeostatic[i] > 0 /\ hname'[i] = hname[i]
               /\ i \in refused => i \in refused'
               /\ i \in Burying => i \in Burying'
    PROVE  Served'
  BY DEF Served

(* A timer that is set is there, and no other has gone. *)
LEMMA SetTimerKeeps ==
    ASSUME TypeOK, NEW n \in Name, NEW i \in Index, SetTimer(n, i)
    PROVE  /\ \A j \in TimerIndex : vttab[j] # NoTimer => \E k \in TimerIndex : vttab'[k] = vttab[j]
           /\ ~Refused(n) => \E k \in TimerIndex : vttab'[k] = [name |-> n, slot |-> i]
  <1> DEFINE t == [vttab EXCEPT ![FirstFree] = [name |-> n, slot |-> i]]
  <1>1. CASE Refused(n)
    BY <1>1 DEF SetTimer
  <1>2. CASE ~Refused(n)
    <2>1. FirstFree \in TimerIndex /\ vttab[FirstFree] = NoTimer
      BY <1>2, FirstFreeIs DEF Refused
    <2>2. [name |-> n, slot |-> i] \in Timer
      BY DEF Timer
    <2>3. t \in [TimerIndex -> Timer] /\ vttab' \in Sorted(t)
      BY <1>2, <2>1, <2>2 DEF SetTimer, TypeOK
    <2>4. t[FirstFree] = [name |-> n, slot |-> i]
          /\ \A j \in TimerIndex : vttab[j] # NoTimer => t[j] = vttab[j]
      BY <2>1 DEF TypeOK
    <2> HIDE DEF t
    <2>5. \A j \in TimerIndex : \E k \in TimerIndex : vttab'[k] = t[j]
      BY <2>3, SortedIs
    <2> QED
      BY <2>1, <2>4, <2>5
  <1> QED
    BY <1>1, <1>2

(* One timer of the name goes, and no other. *)
LEMMA ClearTimerKeeps ==
    ASSUME TypeOK, NEW n, ClearTimer(n)
    PROVE  /\ \A j \in TimerIndex : vttab[j].name # n => vttab'[j] = vttab[j]
           /\ \A j \in TimerIndex : vttab'[j] \in {vttab[j], NoTimer}
           /\ \A j \in TimerIndex : vttab[j].name = n => \E k \in TimerIndex :
                 vttab[k].name = n /\ vttab'[k] = NoTimer
  <1> DEFINE found == {j \in TimerIndex : vttab[j].name = n}
  <1>1. CASE found = {}
    BY <1>1 DEF ClearTimer
  <1>2. CASE found # {}
    <2>1. Min(found) \in found
      BY <1>2, Constants, MinOf
    <2>2. vttab' = [vttab EXCEPT ![Min(found)] = NoTimer]
      BY <1>2 DEF ClearTimer
    <2> QED
      BY <2>1, <2>2 DEF TypeOK
  <1> QED
    BY <1>1, <1>2

LEMMA ServedStep ==
    ASSUME TypeOK, CallOK, SlotOK, "doubled" \notin past => Served, [Next]_vars,
           "doubled" \notin past'
    PROVE  Served'
  <1>0. /\ TypeOK /\ CallOK /\ SlotOK /\ Served /\ "doubled" \notin past'
        /\ CallOK'
    BY PastGrows, CallStep
  <1>1. ASSUME NEW p \in Threads, NEW f \in Files, NEW how \in {"live", "dead", "protect"}, Open(p, f, how)
        PROVE  Served'
    <2>1. SlotOf(Free) \in Index /\ fdes[SlotOf(Free)] = Free
      BY <1>1, SlotOfIs DEF Open
    <2>2. homeostatic[SlotOf(Free)] = 0
      BY <1>0, <2>1 DEF SlotOK
    <2>3. \A i \in Index : i \in Burying => i \in Burying'
      BY <1>0, <1>1, BuryingIs, BuryingNext, FileTableAssumption
        DEF Open, TypeOK, Idle, FileTableAssumption
    <2>4. /\ hname' = [hname EXCEPT ![SlotOf(Free)] = NoName] /\ homeostatic' = homeostatic
          /\ vttab' = vttab /\ refused' = refused
      BY <1>1 DEF Open, timers
    <2>5. \A i \in Index : homeostatic[i] > 0 => hname'[i] = hname[i]
      BY <1>0, <2>2, <2>4 DEF TypeOK
    <2> QED
      BY <1>0, <2>3, <2>4, <2>5, SameServed
  <1>2. ASSUME NEW p \in Threads, OpenFails(p) PROVE Served'
    <2>1. \A i \in Index : i \in Burying => i \in Burying'
      BY <1>0, <1>2, BuryingIs, BuryingNext, FileTableAssumption
        DEF OpenFails, TypeOK, Idle, FileTableAssumption
    <2>2. /\ homeostatic' = [homeostatic EXCEPT ![call[p].slot] = 0] /\ hname' = hname
          /\ vttab' = vttab /\ refused' = refused \ {call[p].slot}
      BY <1>2 DEF OpenFails, ClearSlot, timers
    <2>3. \A i \in Index : homeostatic'[i] > 0 => homeostatic[i] > 0 /\ i # call[p].slot
      BY <1>0, <2>2 DEF TypeOK
    <2> QED
      BY <1>0, <2>1, <2>2, <2>3, SameServed
  <1>3. ASSUME NEW p \in Threads, OpenFile(p) PROVE Served'
    <2>1. \A i \in Index : i \in Burying => i \in Burying'
      <3>1. call[p].at = "found" /\ \A q \in Threads \ {p} : call'[q] = call[q]
        BY <1>0, <1>3 DEF OpenFile, TypeOK
      <3> QED
        BY <1>0, <3>1, BuryingIs, BuryingNext, FileTableAssumption DEF FileTableAssumption
    <2> QED
      BY <1>0, <1>3, <2>1, SameServed DEF OpenFile, ftab, timers, outside, bounds, lock
  <1>4. ASSUME NEW p \in Threads, Fill(p) PROVE Served'
    <2>1. \A i \in Index : i \in Burying => i \in Burying'
      <3>1. call[p].at = "opened" /\ \A q \in Threads \ {p} : call'[q] = call[q]
        BY <1>0, <1>4 DEF Fill, TypeOK
      <3> QED
        BY <1>0, <3>1, BuryingIs, BuryingNext, FileTableAssumption DEF FileTableAssumption
    <2> QED
      BY <1>0, <1>4, <2>1, SameServed DEF Fill, ftab, timers, outside, bounds, lock, timers
  <1>5. ASSUME NEW d \in AllDescriptors, CallAlive(d) PROVE Served'
    <2>1. \A i \in Index : i \in Burying => i \in Burying'
      BY <1>0, <1>5, BuryingIs, BuryingNext, FileTableAssumption
        DEF CallAlive, TypeOK, Idle, FileTableAssumption
    <2> QED
      BY <1>0, <1>5, <2>1, SameServed DEF CallAlive, TypeOK, ftab, timers, outside, bounds, lock
  <1>6. ASSUME NEW p \in Threads, Alive(p) PROVE Served'
    <2> DEFINE d == call[p].des
    <2>0. PICK i : i = SlotOf(d)
      OBVIOUS
    <2>1. p = Root /\ Burying = {}
      <3>1. p = Root /\ call[Root].at \in {"alive", "again"}
        BY <1>0, <1>6 DEF Alive, CallOK
      <3> QED
        BY <1>0, <3>1, BuryingIs
    <2>2. CASE UNCHANGED <<homeostatic, hname, timers, refused>>
      BY <1>0, <2>1, <2>2, SameServed DEF timers
    <2>3. CASE SlotsOf(d) # {} /\ homeostatic[i] > 0 /\ homeostatic' = [homeostatic EXCEPT ![i] = @ + 1]
                 /\ UNCHANGED <<hname, timers, refused>>
      <3>1. \A k \in Index : homeostatic'[k] > 0 => homeostatic[k] > 0
        BY <1>0, <2>3 DEF TypeOK
      <3> QED
        BY <1>0, <2>1, <2>3, <3>1, SameServed DEF timers
    <2>4. ASSUME NEW n \in Name, SlotsOf(d) # {}, homeostatic[i] = 0, MakeLive(i, n)
          PROVE  Served'
      <3>1. i \in Index
        BY <2>0, <2>4, SlotOfIs
      <3>2. /\ homeostatic' = [homeostatic EXCEPT ![i] = 2] /\ hname' = [hname EXCEPT ![i] = n]
            /\ SetTimer(n, i)
        BY <2>4 DEF MakeLive
      <3>3. \A k \in Index \ {i} : hname[k] = n => ~(homeostatic[k] > 0)
        BY <1>0, <2>4 DEF MakeLive
      <3>4. /\ \A j \in TimerIndex : vttab[j] # NoTimer => \E k \in TimerIndex : vttab'[k] = vttab[j]
            /\ ~Refused(n) => \E k \in TimerIndex : vttab'[k] = [name |-> n, slot |-> i]
            /\ IF Refused(n) THEN refused' = refused \cup {i} ELSE refused' = refused \ {i}
        BY <1>0, <3>1, <3>2, SetTimerKeeps DEF SetTimer
      <3>5. /\ homeostatic'[i] = 2 /\ hname'[i] = n
            /\ \A k \in Index \ {i} : homeostatic'[k] = homeostatic[k] /\ hname'[k] = hname[k]
        BY <1>0, <3>1, <3>2 DEF TypeOK
      <3>6. ASSUME NEW k \in Index, NEW m \in Index, homeostatic'[k] > 0, homeostatic'[m] > 0,
                   hname'[k] = hname'[m]
            PROVE  k = m
        BY <1>0, <3>3, <3>5, <3>6 DEF Served
      <3>7. ASSUME NEW k \in Index, homeostatic'[k] > 0, k \notin refused'
            PROVE  \E j \in TimerIndex : vttab'[j] = [name |-> hname'[k], slot |-> k]
        <4>1. CASE k = i
          BY <3>4, <3>5, <3>7, <4>1
        <4>2. CASE k # i
          <5>1. homeostatic[k] > 0 /\ k \notin refused /\ hname'[k] = hname[k]
            BY <3>4, <3>5, <3>7, <4>2
          <5>2. PICK j \in TimerIndex : vttab[j] = [name |-> hname[k], slot |-> k]
            BY <1>0, <2>1, <5>1 DEF Served
          <5>3. vttab[j] # NoTimer
            BY <5>2, Constants DEF NoTimer
          <5> QED
            BY <3>4, <5>1, <5>2, <5>3
        <4> QED
          BY <4>1, <4>2
      <3> QED
        BY <3>6, <3>7 DEF Served
    <2>5. ASSUME SlotsOf(d) # {}
          PROVE  [file |-> fname[i], des |-> IF call[p].at = "alive" THEN d ELSE Free] \in Name
      <3>1. i \in Index
        BY <2>0, <2>5, SlotOfIs
      <3>2. fname[i] \in Files \cup {NoFile} /\ d \in AllDescriptors \cup {Free}
        BY <1>0, <3>1 DEF TypeOK, Call
      <3> QED
        BY <3>2 DEF Name
    <2> QED
      BY <1>6, <2>0, <2>2, <2>3, <2>4, <2>5 DEF Alive
  <1>7. ASSUME NEW d \in AllDescriptors, Dead(d) PROVE Served'
    <2>0. PICK i : i = SlotOf(d)
      OBVIOUS
    <2>1. i \in Index
      BY <2>0, <1>7, SlotOfIs DEF Dead, Known
    <2>2. /\ homeostatic[i] > 0
          /\ homeostatic' \in {homeostatic, [homeostatic EXCEPT ![i] = @ - 1]}
          /\ hname' = hname /\ refused' = refused
      BY <1>7, <2>0, <2>1 DEF Dead
    <2>3. \A k \in Index : homeostatic'[k] > 0 => homeostatic[k] > 0
      BY <1>0, <2>1, <2>2 DEF TypeOK
    <2>4. Burying = {}
      <3>1. call[Root].at = "idle"
        BY <1>7 DEF Dead, Idle
      <3> QED
        BY <1>0, <3>1, BuryingIs
    <2>5. CASE vttab' = vttab
      BY <1>0, <2>2, <2>3, <2>4, <2>5, SameServed
    <2>6. CASE ClearTimer(hname[i]) /\ call' = [call EXCEPT ![Root] = [Idle EXCEPT !.at = "unlink", !.slot = i]]
      <3>1. call'[Root].at = "unlink" /\ call'[Root].slot = i
        BY <1>0, <2>6, FileTableAssumption DEF TypeOK, Idle, FileTableAssumption
      <3>2. i \in Burying'
        BY <1>0, <3>1, BuryingNext
      <3>3. ASSUME NEW k \in Index, homeostatic'[k] > 0, k \notin refused', k \notin Burying'
            PROVE  \E j \in TimerIndex : vttab'[j] = [name |-> hname'[k], slot |-> k]
        <4>1. k # i /\ homeostatic[k] > 0 /\ k \notin refused
          BY <2>2, <2>3, <3>2, <3>3
        <4>2. PICK j \in TimerIndex : vttab[j] = [name |-> hname[k], slot |-> k]
          BY <1>0, <2>4, <4>1 DEF Served
        <4>3. hname[k] # hname[i]
          BY <1>0, <2>1, <2>2, <4>1 DEF Served
        <4>4. vttab'[j] = vttab[j]
          BY <1>0, <2>6, <4>2, <4>3, ClearTimerKeeps
        <4> QED
          BY <2>2, <4>2, <4>4
      <3>4. \A k, m \in Index : homeostatic'[k] > 0 /\ homeostatic'[m] > 0 /\ hname'[k] = hname'[m] => k = m
        BY <1>0, <2>2, <2>3 DEF Served
      <3> QED
        BY <3>3, <3>4 DEF Served
    <2> QED
      BY <1>7, <2>0, <2>5, <2>6 DEF Dead, Lower
  <1>8. ASSUME NEW f \in Files, Unprotect(f) PROVE Served'
    <2>0. PICK i : i = Min({k \in Index : fname[k] = f /\ homeostatic[k] > 0})
      OBVIOUS
    <2>1. i \in Index
      BY <1>8, <2>0, MinOf, Constants DEF Unprotect
    <2>2. /\ homeostatic[i] > 0
          /\ homeostatic' \in {homeostatic, [homeostatic EXCEPT ![i] = @ - 1]}
          /\ hname' = hname /\ refused' = refused
      BY <1>8, <2>0, <2>1, MinOf, Constants DEF Unprotect
    <2>3. \A k \in Index : homeostatic'[k] > 0 => homeostatic[k] > 0
      BY <1>0, <2>1, <2>2 DEF TypeOK
    <2>4. Burying = {}
      <3>1. call[Root].at = "idle"
        BY <1>8 DEF Unprotect, Idle
      <3> QED
        BY <1>0, <3>1, BuryingIs
    <2>5. CASE vttab' = vttab
      BY <1>0, <2>2, <2>3, <2>4, <2>5, SameServed
    <2>6. CASE ClearTimer(hname[i]) /\ call' = [call EXCEPT ![Root] = [Idle EXCEPT !.at = "unlink", !.slot = i]]
      <3>1. call'[Root].at = "unlink" /\ call'[Root].slot = i
        BY <1>0, <2>6, FileTableAssumption DEF TypeOK, Idle, FileTableAssumption
      <3>2. i \in Burying'
        BY <1>0, <3>1, BuryingNext
      <3>3. ASSUME NEW k \in Index, homeostatic'[k] > 0, k \notin refused', k \notin Burying'
            PROVE  \E j \in TimerIndex : vttab'[j] = [name |-> hname'[k], slot |-> k]
        <4>1. k # i /\ homeostatic[k] > 0 /\ k \notin refused
          BY <2>2, <2>3, <3>2, <3>3
        <4>2. PICK j \in TimerIndex : vttab[j] = [name |-> hname[k], slot |-> k]
          BY <1>0, <2>4, <4>1 DEF Served
        <4>3. hname[k] # hname[i]
          BY <1>0, <2>1, <2>2, <4>1 DEF Served
        <4>4. vttab'[j] = vttab[j]
          BY <1>0, <2>6, <4>2, <4>3, ClearTimerKeeps
        <4> QED
          BY <2>2, <4>2, <4>4
      <3>4. \A k, m \in Index : homeostatic'[k] > 0 /\ homeostatic'[m] > 0 /\ hname'[k] = hname'[m] => k = m
        BY <1>0, <2>2, <2>3 DEF Served
      <3> QED
        BY <3>3, <3>4 DEF Served
    <2> QED
      BY <1>8, <2>0, <2>5, <2>6 DEF Unprotect, Lower
  <1>9. ASSUME UnlinkShadow PROVE Served'
    <2>1. \A i \in Index : i \in Burying => i \in Burying'
      <3>1. call'[Root].at = "bury" /\ call'[Root].slot = call[Root].slot
        BY <1>0, <1>9, FileTableAssumption DEF UnlinkShadow, TypeOK, Call, FileTableAssumption
      <3> QED
        BY <1>0, <3>1, BuryingIs, BuryingNext
    <2> QED
      BY <1>0, <1>9, <2>1, SameServed DEF UnlinkShadow, ftab, timers, outside, bounds, lock
  <1>10. ASSUME Bury PROVE Served'
    <2>1. \A i \in Index : i \in Burying => i = call[Root].slot
      BY <1>0, BuryingIs
    <2>2. call[Root].slot \in Index
      BY <1>0, FileTableAssumption DEF TypeOK, Call, FileTableAssumption
    <2>3. \A i \in Index : homeostatic'[i] > 0 =>
              /\ homeostatic[i] > 0 /\ hname'[i] = hname[i] /\ i # call[Root].slot
              /\ i \in refused => i \in refused'
      BY <1>0, <1>10, <2>2 DEF Bury, TypeOK
    <2> QED
      BY <1>0, <1>10, <2>1, <2>3, SameServed DEF Bury, timers
  <1>11. ASSUME NEW p \in Threads, NEW d \in AllDescriptors, Close(p, d) PROVE Served'
    <2>1. \A i \in Index : i \in Burying => i \in Burying'
      BY <1>0, <1>11, BuryingIs, BuryingNext, FileTableAssumption
        DEF Close, TypeOK, Idle, FileTableAssumption
    <2> QED
      BY <1>0, <1>11, <2>1, SameServed DEF Close, TypeOK, ftab, timers, outside, bounds, lock
  <1>12. ASSUME NEW p \in Threads, Clear(p) PROVE Served'
    <2>1. \A i \in Index : i \in Burying => i \in Burying'
      BY <1>0, <1>12, BuryingIs, BuryingNext, FileTableAssumption
        DEF Clear, TypeOK, Idle, FileTableAssumption
    <2>2. /\ homeostatic' = [homeostatic EXCEPT ![call[p].slot] = 0] /\ hname' = hname
          /\ vttab' = vttab /\ refused' = refused \ {call[p].slot}
      BY <1>12 DEF Clear, ClearSlot, timers
    <2>3. \A i \in Index : homeostatic'[i] > 0 => homeostatic[i] > 0 /\ i # call[p].slot
      BY <1>0, <2>2 DEF TypeOK
    <2> QED
      BY <1>0, <2>1, <2>2, <2>3, SameServed
  <1>13. ASSUME NEW i \in Index, Tick(i) PROVE Served'
    <2>1. Burying' = Burying
      BY <1>13 DEF Tick, Burying
    <2> QED
      BY <1>0, <1>13, <2>1, SameServed DEF Tick, ftab, timers, outside, bounds, lock
  <1>14. ASSUME Relink PROVE Served'
    <2>1. Burying' = Burying
      BY <1>14 DEF Relink, Burying
    <2> QED
      BY <1>0, <1>14, <2>1, SameServed DEF Relink, ftab, timers, outside, bounds, lock
  <1>15. ASSUME RelinkShadow PROVE Served'
    <2>1. Burying' = Burying
      BY <1>15 DEF RelinkShadow, Burying
    <2> QED
      BY <1>0, <1>15, <2>1, SameServed DEF RelinkShadow, ftab, timers, outside, bounds, lock
  <1>16. ASSUME NEW f \in Files, Lose(f) PROVE Served'
    <2>1. Burying' = Burying
      BY <1>16 DEF Lose, Burying
    <2> QED
      BY <1>0, <1>16, <2>1, SameServed DEF Lose, ftab, timers, outside, bounds, lock
  <1>17. ASSUME NEW i \in Index, LoseShadow(i) PROVE Served'
    <2>1. Burying' = Burying
      BY <1>17 DEF LoseShadow, Burying
    <2> QED
      BY <1>0, <1>17, <2>1, SameServed DEF LoseShadow, ftab, timers, outside, bounds, lock
  <1>18. ASSUME NEW f \in Files, Make(f) PROVE Served'
    <2>1. Burying' = Burying
      BY <1>18 DEF Make, Burying
    <2> QED
      BY <1>0, <1>18, <2>1, SameServed DEF Make, ftab, timers, outside, bounds, lock
  <1>19. ASSUME UNCHANGED vars PROVE Served'
    BY <1>0, <1>19, SameServed DEF Burying, vars, ftab, timers, outside, bounds, lock
  <1> QED
    BY <1>1, <1>2, <1>3, <1>4, <1>5, <1>6, <1>7, <1>8, <1>9, <1>10, <1>11, <1>12, <1>13, <1>14,
       <1>15, <1>16, <1>17, <1>18, <1>19 DEF Next, Continue, Stopped

(* A file on its way to be dead has no level left but the one it loses.      *)
LEMMA BuryStep ==
    ASSUME TypeOK, CallOK, BuryOK, [Next]_vars
    PROVE  BuryOK'
  <1>0. TypeOK /\ CallOK /\ BuryOK
    OBVIOUS
  <1>1. ASSUME NEW p \in Threads, NEW f \in Files, NEW how \in {"live", "dead", "protect"}, Open(p, f, how)
        PROVE  BuryOK'
    <2>1. call[Root].at \in {"unlink", "bury"} => mutex = Root /\ Root \in Threads
      BY <1>0, FileTableAssumption DEF CallOK, Busy, FileTableAssumption
    <2>2. call[Root].at \in {"unlink", "bury"} => p = Root
      BY <1>0, <1>1, <2>1, FileTableAssumption
        DEF Open, CanLock, CallOK, Busy, FileTableAssumption
    <2>3. \A q \in Threads \ {p} : call'[q] = call[q]
      BY <1>0, <1>1 DEF Open, TypeOK
    <2>4. call'[p].at \notin {"unlink", "bury"}
      BY <1>0, <1>1 DEF Open, TypeOK, Idle, Call
    <2> QED
      BY <2>2, <2>3, <2>4, FileTableAssumption DEF BuryOK, FileTableAssumption
  <1>2. ASSUME NEW p \in Threads, OpenFails(p) PROVE BuryOK'
    <2>1. call[Root].at \in {"unlink", "bury"} => mutex = Root /\ Root \in Threads
      BY <1>0, FileTableAssumption DEF CallOK, Busy, FileTableAssumption
    <2>2. call[Root].at \in {"unlink", "bury"} => p = Root
      BY <1>0, <1>2, <2>1, FileTableAssumption
        DEF OpenFails, CanLock, CallOK, Busy, FileTableAssumption
    <2>3. \A q \in Threads \ {p} : call'[q] = call[q]
      BY <1>0, <1>2 DEF OpenFails, TypeOK
    <2>4. call'[p].at \notin {"unlink", "bury"}
      BY <1>0, <1>2 DEF OpenFails, TypeOK, Idle, Call
    <2> QED
      BY <2>2, <2>3, <2>4, FileTableAssumption DEF BuryOK, FileTableAssumption
  <1>3. ASSUME NEW p \in Threads, OpenFile(p) PROVE BuryOK'
    <2>1. /\ homeostatic' = homeostatic /\ call'[p].at = "opened"
          /\ \A q \in Threads \ {p} : call'[q] = call[q]
      BY <1>0, <1>3 DEF OpenFile, TypeOK, Call, ftab
    <2> QED
      BY <1>0, <2>1, FileTableAssumption DEF BuryOK, FileTableAssumption
  <1>4. ASSUME NEW p \in Threads, Fill(p) PROVE BuryOK'
    <2>1. call[Root].at \in {"unlink", "bury"} => mutex = Root /\ Root \in Threads
      BY <1>0, FileTableAssumption DEF CallOK, Busy, FileTableAssumption
    <2>2. call[Root].at \in {"unlink", "bury"} => p = Root
      BY <1>0, <1>4, <2>1, FileTableAssumption
        DEF Fill, CanLock, CallOK, Busy, FileTableAssumption
    <2>3. \A q \in Threads \ {p} : call'[q] = call[q]
      BY <1>0, <1>4 DEF Fill, TypeOK
    <2>4. call'[p].at \notin {"unlink", "bury"}
      BY <1>0, <1>4 DEF Fill, TypeOK, Idle, Call
    <2> QED
      BY <2>2, <2>3, <2>4, FileTableAssumption DEF BuryOK, FileTableAssumption
  <1>5. ASSUME NEW d \in AllDescriptors, CallAlive(d) PROVE BuryOK'
    BY <1>0, <1>5, FileTableAssumption DEF CallAlive, TypeOK, Idle, BuryOK, FileTableAssumption
  <1>6. ASSUME NEW p \in Threads, Alive(p) PROVE BuryOK'
    <2>1. call[Root].at \in {"unlink", "bury"} => mutex = Root /\ Root \in Threads
      BY <1>0, FileTableAssumption DEF CallOK, Busy, FileTableAssumption
    <2>2. call[Root].at \in {"unlink", "bury"} => p = Root
      BY <1>0, <1>6, <2>1, FileTableAssumption
        DEF Alive, CanLock, CallOK, Busy, FileTableAssumption
    <2>3. \A q \in Threads \ {p} : call'[q] = call[q]
      BY <1>0, <1>6 DEF Alive, TypeOK
    <2>4. call'[p].at \notin {"unlink", "bury"}
      BY <1>0, <1>6 DEF Alive, TypeOK, Idle, Call
    <2> QED
      BY <2>2, <2>3, <2>4, FileTableAssumption DEF BuryOK, FileTableAssumption
  <1>7. ASSUME NEW d \in AllDescriptors, Dead(d) PROVE BuryOK'
    <2>0. PICK i : i = SlotOf(d)
      OBVIOUS
    <2>1. i \in Index
      BY <2>0, <1>7, SlotOfIs DEF Dead, Known
    <2>2. call[Root].at = "idle"
      BY <1>7 DEF Dead, Idle
    <2>3. CASE call' = call
      BY <2>2, <2>3 DEF BuryOK
    <2>4. CASE homeostatic[i] <= 2 /\ call' = [call EXCEPT ![Root] = [Idle EXCEPT !.at = "unlink", !.slot = i]]
      <3>1. call'[Root].slot = i
        BY <1>0, <2>4, FileTableAssumption DEF TypeOK, Idle, FileTableAssumption
      <3>2. homeostatic'[i] <= 1
        BY <1>0, <1>7, <2>0, <2>1, <2>4 DEF Dead, TypeOK
      <3> QED
        BY <3>1, <3>2 DEF BuryOK
    <2> QED
      BY <1>7, <2>0, <2>3, <2>4 DEF Dead, Lower
  <1>8. ASSUME NEW f \in Files, Unprotect(f) PROVE BuryOK'
    <2>0. PICK i : i = Min({k \in Index : fname[k] = f /\ homeostatic[k] > 0})
      OBVIOUS
    <2>1. i \in Index
      BY <1>8, <2>0, MinOf, Constants DEF Unprotect
    <2>2. call[Root].at = "idle"
      BY <1>8 DEF Unprotect, Idle
    <2>3. CASE call' = call
      BY <2>2, <2>3 DEF BuryOK
    <2>4. CASE homeostatic[i] = 1 /\ call' = [call EXCEPT ![Root] = [Idle EXCEPT !.at = "unlink", !.slot = i]]
      <3>1. call'[Root].slot = i
        BY <1>0, <2>4, FileTableAssumption DEF TypeOK, Idle, FileTableAssumption
      <3>2. homeostatic'[i] <= 1
        BY <1>0, <1>8, <2>0, <2>1, <2>4 DEF Unprotect, TypeOK
      <3> QED
        BY <3>1, <3>2 DEF BuryOK
    <2> QED
      BY <1>8, <2>0, <2>3, <2>4 DEF Unprotect, Lower
  <1>9. ASSUME UnlinkShadow PROVE BuryOK'
    <2>1. homeostatic' = homeostatic /\ call'[Root].slot = call[Root].slot /\ call[Root].at = "unlink"
      BY <1>0, <1>9, FileTableAssumption
        DEF UnlinkShadow, TypeOK, Call, ftab, FileTableAssumption
    <2> QED
      BY <1>0, <2>1 DEF BuryOK
  <1>10. ASSUME Bury PROVE BuryOK'
    BY <1>0, <1>10, FileTableAssumption DEF Bury, TypeOK, Idle, BuryOK, FileTableAssumption
  <1>11. ASSUME NEW p \in Threads, NEW d \in AllDescriptors, Close(p, d) PROVE BuryOK'
    <2>1. call[Root].at \in {"unlink", "bury"} => mutex = Root /\ Root \in Threads
      BY <1>0, FileTableAssumption DEF CallOK, Busy, FileTableAssumption
    <2>2. call[Root].at \in {"unlink", "bury"} => p = Root
      BY <1>0, <1>11, <2>1, FileTableAssumption
        DEF Close, CanLock, CallOK, Busy, FileTableAssumption
    <2>3. \A q \in Threads \ {p} : call'[q] = call[q]
      BY <1>0, <1>11 DEF Close, TypeOK
    <2>4. call'[p].at \notin {"unlink", "bury"}
      BY <1>0, <1>11 DEF Close, TypeOK, Idle, Call
    <2> QED
      BY <2>2, <2>3, <2>4, FileTableAssumption DEF BuryOK, FileTableAssumption
  <1>12. ASSUME NEW p \in Threads, Clear(p) PROVE BuryOK'
    <2>1. call[Root].at \in {"unlink", "bury"} => mutex = Root /\ Root \in Threads
      BY <1>0, FileTableAssumption DEF CallOK, Busy, FileTableAssumption
    <2>2. call[Root].at \in {"unlink", "bury"} => p = Root
      BY <1>0, <1>12, <2>1, FileTableAssumption
        DEF Clear, CanLock, CallOK, Busy, FileTableAssumption
    <2>3. \A q \in Threads \ {p} : call'[q] = call[q]
      BY <1>0, <1>12 DEF Clear, TypeOK
    <2>4. call'[p].at \notin {"unlink", "bury"}
      BY <1>0, <1>12 DEF Clear, TypeOK, Idle, Call
    <2> QED
      BY <2>2, <2>3, <2>4, FileTableAssumption DEF BuryOK, FileTableAssumption
  <1>13. ASSUME NEW i \in Index, Tick(i) PROVE BuryOK'
    BY <1>0, <1>13 DEF Tick, BuryOK, ftab
  <1>14. ASSUME Relink PROVE BuryOK'
    BY <1>0, <1>14 DEF Relink, BuryOK, ftab
  <1>15. ASSUME RelinkShadow PROVE BuryOK'
    BY <1>0, <1>15 DEF RelinkShadow, BuryOK, ftab
  <1>16. ASSUME NEW f \in Files, Lose(f) PROVE BuryOK'
    BY <1>0, <1>16 DEF Lose, BuryOK, ftab
  <1>17. ASSUME NEW i \in Index, LoseShadow(i) PROVE BuryOK'
    BY <1>0, <1>17 DEF LoseShadow, BuryOK, ftab
  <1>18. ASSUME NEW f \in Files, Make(f) PROVE BuryOK'
    BY <1>0, <1>18 DEF Make, BuryOK, ftab
  <1>19. ASSUME UNCHANGED vars PROVE BuryOK'
    BY <1>0, <1>19 DEF vars, BuryOK, ftab
  <1> QED
    BY <1>1, <1>2, <1>3, <1>4, <1>5, <1>6, <1>7, <1>8, <1>9, <1>10, <1>11, <1>12, <1>13, <1>14,
       <1>15, <1>16, <1>17, <1>18, <1>19 DEF Next, Continue, Stopped

LEMMA InitBury == Init => BuryOK
  BY FileTableAssumption DEF Init, BuryOK, Idle, FileTableAssumption

LEMMA InitServed == Init => Served
  BY DEF Init, Served

-----------------------------------------------------------------------------
(* Shadows and files: what the homeostat puts back.                          *)

(* What is known before a step, and of the state after it. *)
Before ==
    /\ TypeOK /\ CallOK /\ SlotOK /\ SlotGiven /\ DummyOwn /\ OneHolder /\ Served
    /\ TimersOwn /\ ShadowsOwn /\ FilesOwn /\ RunOwn
After == CallOK' /\ OneHolder' /\ past' \subseteq Excused

LEMMA Apart ==
    ASSUME TypeOK, CallOK, NEW p \in Threads, CanLock(p)
    PROVE  /\ call[p].at # "clear" => Closing = {}
           /\ call[p].at \notin {"unlink", "bury"} => Burying = {}
           /\ Runs(p) => run = NoRun
  <1>1. \A q \in Threads : call[q].at \in Busy => q = p
    BY FileTableAssumption DEF CallOK, CanLock, FileTableAssumption
  <1> QED
    BY <1>1 DEF Closing, Burying, Busy, CanLock, Runs

(* Steps that leave the timers alone and make nothing dead. *)
LEMMA SameTimers ==
    ASSUME TimersOwn, vttab' = vttab,
           \A i \in Index \ Burying : homeostatic[i] > 0 =>
               homeostatic'[i] > 0 /\ hname'[i] = hname[i] /\ i \notin Burying'
    PROVE  TimersOwn'
  BY DEF TimersOwn

LEMMA TimersStep ==
    ASSUME Before, After, [Next]_vars
    PROVE  TimersOwn'
  <1>0. /\ TypeOK /\ CallOK /\ SlotOK /\ SlotGiven /\ DummyOwn /\ OneHolder /\ Served
        /\ TimersOwn /\ ShadowsOwn /\ FilesOwn /\ RunOwn
        /\ CallOK' /\ OneHolder' /\ past' \subseteq Excused
    BY DEF Before, After
  <1>1. ASSUME NEW p \in Threads, NEW f \in Files, NEW how \in {"live", "dead", "protect"}, Open(p, f, how)
        PROVE  TimersOwn'
    <2>1. \A i \in Index \ Burying : i \notin Burying'
      <3>1. \A q \in Threads \ {p} : call'[q] = call[q]
        BY <1>0, <1>1 DEF Open, TypeOK
      <3>2. call'[p].at \notin {"unlink", "bury"}
        BY <1>0, <1>1 DEF Open, TypeOK, Idle, Call
      <3> QED
        BY <1>0, <3>1, <3>2, BuryingIs, BuryingNext, FileTableAssumption DEF FileTableAssumption
    <2>2. SlotOf(Free) \in Index /\ fdes[SlotOf(Free)] = Free
      BY <1>1, SlotOfIs DEF Open
    <2>3. homeostatic[SlotOf(Free)] = 0
      BY <1>0, <2>2 DEF SlotOK
    <2>4. \A i \in Index : homeostatic[i] > 0 => hname'[i] = hname[i]
      BY <1>0, <1>1, <2>2, <2>3 DEF Open, TypeOK
    <2> QED
      BY <1>0, <1>1, <2>1, <2>4, SameTimers DEF Open, ftab, timers, outside, bounds, lock
  <1>2. ASSUME NEW p \in Threads, OpenFails(p) PROVE TimersOwn'
    <2>1. \A i \in Index \ Burying : i \notin Burying'
      <3>1. \A q \in Threads \ {p} : call'[q] = call[q]
        BY <1>0, <1>2 DEF OpenFails, TypeOK
      <3>2. call'[p].at \notin {"unlink", "bury"}
        BY <1>0, <1>2 DEF OpenFails, TypeOK, Idle, Call
      <3> QED
        BY <1>0, <3>1, <3>2, BuryingIs, BuryingNext, FileTableAssumption DEF FileTableAssumption
    <2>2. call[p].slot \in Index /\ homeostatic[call[p].slot] = 0
      BY <1>0, <1>2 DEF OpenFails, SlotGiven, SlotOK, Opening, TypeOK, Call
    <2>3. \A i \in Index : homeostatic'[i] = homeostatic[i]
      BY <1>0, <1>2, <2>2 DEF OpenFails, ClearSlot, TypeOK
    <2> QED
      BY <1>0, <1>2, <2>1, <2>3, SameTimers
        DEF OpenFails, ClearSlot, ftab, timers, outside, bounds, lock
  <1>3. ASSUME NEW p \in Threads, OpenFile(p) PROVE TimersOwn'
    <2>1. \A i \in Index \ Burying : i \notin Burying'
      <3>1. \A q \in Threads \ {p} : call'[q] = call[q]
        BY <1>0, <1>3 DEF OpenFile, TypeOK
      <3>2. call'[p].at \notin {"unlink", "bury"}
        BY <1>0, <1>3 DEF OpenFile, TypeOK, Idle, Call
      <3> QED
        BY <1>0, <3>1, <3>2, BuryingIs, BuryingNext, FileTableAssumption DEF FileTableAssumption
    <2> QED
      BY <1>0, <1>3, <2>1, SameTimers DEF OpenFile, ftab, timers, outside, bounds, lock
  <1>4. ASSUME NEW p \in Threads, Fill(p) PROVE TimersOwn'
    <2>1. \A i \in Index \ Burying : i \notin Burying'
      <3>1. \A q \in Threads \ {p} : call'[q] = call[q]
        BY <1>0, <1>4 DEF Fill, TypeOK
      <3>2. call'[p].at \notin {"unlink", "bury"}
        BY <1>0, <1>4 DEF Fill, TypeOK, Idle, Call
      <3> QED
        BY <1>0, <3>1, <3>2, BuryingIs, BuryingNext, FileTableAssumption DEF FileTableAssumption
    <2> QED
      BY <1>0, <1>4, <2>1, SameTimers DEF Fill, ftab, timers, outside, bounds, lock
  <1>5. ASSUME NEW d \in AllDescriptors, CallAlive(d) PROVE TimersOwn'
    <2>1. \A i \in Index \ Burying : i \notin Burying'
      BY <1>0, <1>5, BuryingIs, BuryingNext, FileTableAssumption
        DEF CallAlive, TypeOK, Idle, FileTableAssumption
    <2> QED
      BY <1>0, <1>5, <2>1, SameTimers DEF CallAlive, TypeOK, ftab, timers, outside, bounds, lock
  <1>6. ASSUME NEW p \in Threads, Alive(p) PROVE TimersOwn'
    <2> DEFINE d == call[p].des
    <2>0. PICK i : i = SlotOf(d)
      OBVIOUS
    <2>1. Burying' = {}
      <3>1. p = Root /\ call'[Root].at \in {"idle", "again"}
        BY <1>0, <1>6 DEF Alive, CallOK, TypeOK, Call, Idle
      <3> QED
        BY <1>0, <3>1, BuryingNext
    <2>2. CASE UNCHANGED <<homeostatic, hname, timers>>
      BY <1>0, <2>1, <2>2, SameTimers DEF timers
    <2>3. CASE SlotsOf(d) # {} /\ homeostatic[i] > 0 /\ homeostatic' = [homeostatic EXCEPT ![i] = @ + 1]
                 /\ UNCHANGED <<hname, timers>>
      <3>1. \A k \in Index : homeostatic[k] > 0 => homeostatic'[k] > 0
        BY <1>0, <2>3 DEF TypeOK
      <3> QED
        BY <1>0, <2>1, <2>3, <3>1, SameTimers DEF timers
    <2>4. ASSUME NEW n \in Name, SlotsOf(d) # {}, homeostatic[i] = 0, MakeLive(i, n)
          PROVE  TimersOwn'
      <3>1. i \in Index
        BY <2>0, <2>4, SlotOfIs
      <3>2. /\ SetTimer(n, i)
            /\ homeostatic'[i] = 2 /\ hname'[i] = n
            /\ \A k \in Index \ {i} : homeostatic'[k] = homeostatic[k] /\ hname'[k] = hname[k]
        BY <1>0, <2>4, <3>1 DEF MakeLive, TypeOK
      <3>3. CASE Refused(n)
        <4>1. vttab' = vttab
          BY <3>2, <3>3 DEF SetTimer
        <4> QED
          BY <1>0, <2>1, <2>4, <3>2, <4>1, SameTimers
      <3>4. CASE ~Refused(n)
        <4> DEFINE e == [name |-> n, slot |-> i]
                   t == [vttab EXCEPT ![FirstFree] = e]
        <4>1. FirstFree \in TimerIndex /\ vttab[FirstFree] = NoTimer /\ e \in Timer
          BY <3>1, <3>4, FirstFreeIs DEF Refused, Timer
        <4>2. t \in [TimerIndex -> Timer] /\ vttab' \in Sorted(t)
          BY <1>0, <3>2, <3>4, <4>1 DEF SetTimer, TypeOK
        <4>3. /\ t[FirstFree] = e
              /\ \A j \in TimerIndex \ {FirstFree} : t[j] = vttab[j]
          BY <1>0, <4>1 DEF TypeOK
        <4>4. \A j \in TimerIndex : vttab[j] # NoTimer => vttab[j].slot # i
          BY <1>0, <2>4 DEF TimersOwn
        <4>5. e.slot = i /\ e.name = n
          OBVIOUS
        <4> HIDE DEF t, e
        <4>6. \A j \in TimerIndex : t[j] # NoTimer =>
                  /\ t[j].slot \in Index /\ homeostatic'[t[j].slot] > 0
                  /\ t[j].name = hname'[t[j].slot]
                  /\ \A k \in TimerIndex : t[k] = t[j] => k = j
          <5> SUFFICES ASSUME NEW j \in TimerIndex, t[j] # NoTimer
                       PROVE  /\ t[j].slot \in Index /\ homeostatic'[t[j].slot] > 0
                              /\ t[j].name = hname'[t[j].slot]
                              /\ \A k \in TimerIndex : t[k] = t[j] => k = j
            OBVIOUS
          <5>1. CASE j = FirstFree
            <6>1. t[j] = e
              BY <4>3, <5>1
            <6>2. \A k \in TimerIndex : t[k] = e => k = j
              BY <3>1, <4>3, <4>4, <4>5, <5>1, Constants DEF NoTimer
            <6> QED
              BY <3>1, <3>2, <4>5, <6>1, <6>2
          <5>2. CASE j # FirstFree
            <6>1. t[j] = vttab[j] /\ vttab[j] # NoTimer /\ vttab[j].slot # i
              BY <4>3, <4>4, <5>2
            <6>2. /\ vttab[j].slot \in Index /\ homeostatic[vttab[j].slot] > 0
                  /\ vttab[j].name = hname[vttab[j].slot]
                  /\ \A k \in TimerIndex : vttab[k] = vttab[j] => k = j
              BY <1>0, <6>1 DEF TimersOwn
            <6>3. \A k \in TimerIndex : t[k] = t[j] => k = j
              BY <4>3, <4>5, <6>1, <6>2
            <6> QED
              BY <3>2, <6>1, <6>2, <6>3
          <5> QED
            BY <5>1, <5>2
        <4>7. \A j \in TimerIndex : \E k \in TimerIndex :
                  vttab'[j] = t[k] /\ ((\A m \in TimerIndex : t[m] = t[k] => m = k)
                                           => \A m \in TimerIndex : vttab'[m] = vttab'[j] => m = j)
          BY <4>2, SortedIs
        <4> QED
          BY <2>1, <4>6, <4>7 DEF TimersOwn
      <3> QED
        BY <3>3, <3>4
    <2>5. ASSUME SlotsOf(d) # {}
          PROVE  [file |-> fname[i], des |-> IF call[p].at = "alive" THEN d ELSE Free] \in Name
      <3>1. i \in Index
        BY <2>0, <2>5, SlotOfIs
      <3>2. fname[i] \in Files \cup {NoFile} /\ d \in AllDescriptors \cup {Free}
        BY <1>0, <3>1 DEF TypeOK, Call
      <3> QED
        BY <3>2 DEF Name
    <2> QED
      BY <1>6, <2>0, <2>2, <2>3, <2>4, <2>5 DEF Alive
  <1>7. ASSUME NEW d \in AllDescriptors, Dead(d) PROVE TimersOwn'
    <2>0. PICK i : i = SlotOf(d)
      OBVIOUS
    <2>1. i \in Index
      BY <2>0, <1>7, SlotOfIs DEF Dead, Known
    <2>2. homeostatic[i] > 0 /\ hname' = hname /\ homeostatic[i] \in Nat
      BY <1>0, <1>7, <2>0, <2>1 DEF Dead, TypeOK
    <2>3. \A k \in Index \ {i} : homeostatic'[k] = homeostatic[k]
      BY <1>0, <1>7, <2>0, <2>1 DEF Dead, TypeOK
    <2>4. CASE UNCHANGED <<vttab, call>> /\ homeostatic[i] > 1
      <3>1. homeostatic'[i] > 0
        BY <1>0, <1>7, <2>0, <2>1, <2>2, <2>4 DEF Dead, TypeOK
      <3>2. \A k \in Index : homeostatic[k] > 0 => homeostatic'[k] > 0
        BY <2>3, <3>1
      <3>3. Burying' = Burying
        BY <2>4 DEF Burying
      <3> QED
        BY <1>0, <2>2, <2>4, <3>2, <3>3, SameTimers
    <2>5. CASE ClearTimer(hname[i]) /\ call' = [call EXCEPT ![Root] = [Idle EXCEPT !.at = "unlink", !.slot = i]]
      <3>1. call'[Root].at = "unlink" /\ call'[Root].slot = i
        BY <1>0, <2>5, FileTableAssumption DEF TypeOK, Idle, FileTableAssumption
      <3>2. \A k : k \in Burying' <=> k = i
        BY <1>0, <3>1, BuryingNext
      <3>3. /\ \A j \in TimerIndex : vttab'[j] \in {vttab[j], NoTimer}
            /\ \A j \in TimerIndex : vttab[j].name = hname[i] => \E k \in TimerIndex :
                  vttab[k].name = hname[i] /\ vttab'[k] = NoTimer
        BY <1>0, <2>5, ClearTimerKeeps
      <3>4. \A j \in TimerIndex : vttab[j].name = hname[i] => vttab[j] # NoTimer /\ vttab[j].slot = i
        <4> SUFFICES ASSUME NEW j \in TimerIndex, vttab[j].name = hname[i]
                     PROVE  vttab[j] # NoTimer /\ vttab[j].slot = i
          OBVIOUS
        <4>1. vttab[j] # NoTimer
          BY <1>0, <2>1, <2>2 DEF SlotOK, NoTimer
        <4> QED
          BY <1>0, <2>1, <2>2, <4>1 DEF TimersOwn, Served
      <3>5. \A j \in TimerIndex : vttab'[j] # NoTimer => vttab'[j] = vttab[j] /\ vttab[j].slot # i
        <4> SUFFICES ASSUME NEW j \in TimerIndex, vttab'[j] # NoTimer, vttab[j].slot = i
                     PROVE  FALSE
          BY <3>3
        <4>1. vttab'[j] = vttab[j] /\ vttab[j].name = hname[i]
          BY <1>0, <3>3 DEF TimersOwn
        <4>2. PICK k \in TimerIndex : vttab[k].name = hname[i] /\ vttab'[k] = NoTimer
          BY <3>3, <4>1
        <4>3. vttab[k] \in Timer /\ vttab[j] \in Timer /\ vttab[k].slot = i
          BY <1>0, <3>4, <4>2 DEF TypeOK
        <4>4. vttab[k] = vttab[j]
          BY <4>1, <4>2, <4>3 DEF Timer
        <4>5. k = j
          BY <1>0, <4>1, <4>4 DEF TimersOwn
        <4> QED
          BY <4>2, <4>5
      <3>6. \A j \in TimerIndex : vttab'[j] # NoTimer =>
                /\ vttab'[j].slot \in Index \ Burying' /\ homeostatic'[vttab'[j].slot] > 0
                /\ vttab'[j].name = hname[vttab'[j].slot]
        BY <1>0, <2>3, <3>2, <3>5 DEF TimersOwn
      <3>7. \A j, k \in TimerIndex : vttab'[j] # NoTimer /\ vttab'[k] = vttab'[j] => k = j
        BY <1>0, <3>5 DEF TimersOwn
      <3> QED
        BY <2>2, <3>6, <3>7 DEF TimersOwn
    <2>6. \/ UNCHANGED <<vttab, call>> /\ homeostatic[i] > 1
          \/ /\ ClearTimer(hname[i])
             /\ call' = [call EXCEPT ![Root] = [Idle EXCEPT !.at = "unlink", !.slot = i]]
      BY <1>7, <2>0, <2>2 DEF Dead, Lower
    <2> QED
      BY <2>4, <2>5, <2>6
  <1>8. ASSUME NEW f \in Files, Unprotect(f) PROVE TimersOwn'
    <2>0. PICK i : i = Min({k \in Index : fname[k] = f /\ homeostatic[k] > 0})
      OBVIOUS
    <2>1. i \in Index
      BY <1>8, <2>0, MinOf, Constants DEF Unprotect
    <2>2. homeostatic[i] > 0 /\ hname' = hname /\ homeostatic[i] \in Nat
      BY <1>0, <1>8, <2>0, <2>1, MinOf, Constants DEF Unprotect, TypeOK
    <2>3. \A k \in Index \ {i} : homeostatic'[k] = homeostatic[k]
      BY <1>0, <1>8, <2>0, <2>1 DEF Unprotect, TypeOK
    <2>4. CASE UNCHANGED <<vttab, call>> /\ homeostatic[i] > 1
      <3>1. homeostatic'[i] > 0
        BY <1>0, <1>8, <2>0, <2>1, <2>2, <2>4 DEF Unprotect, TypeOK
      <3>2. \A k \in Index : homeostatic[k] > 0 => homeostatic'[k] > 0
        BY <2>3, <3>1
      <3>3. Burying' = Burying
        BY <2>4 DEF Burying
      <3> QED
        BY <1>0, <2>2, <2>4, <3>2, <3>3, SameTimers
    <2>5. CASE ClearTimer(hname[i]) /\ call' = [call EXCEPT ![Root] = [Idle EXCEPT !.at = "unlink", !.slot = i]]
      <3>1. call'[Root].at = "unlink" /\ call'[Root].slot = i
        BY <1>0, <2>5, FileTableAssumption DEF TypeOK, Idle, FileTableAssumption
      <3>2. \A k : k \in Burying' <=> k = i
        BY <1>0, <3>1, BuryingNext
      <3>3. /\ \A j \in TimerIndex : vttab'[j] \in {vttab[j], NoTimer}
            /\ \A j \in TimerIndex : vttab[j].name = hname[i] => \E k \in TimerIndex :
                  vttab[k].name = hname[i] /\ vttab'[k] = NoTimer
        BY <1>0, <2>5, ClearTimerKeeps
      <3>4. \A j \in TimerIndex : vttab[j].name = hname[i] => vttab[j] # NoTimer /\ vttab[j].slot = i
        <4> SUFFICES ASSUME NEW j \in TimerIndex, vttab[j].name = hname[i]
                     PROVE  vttab[j] # NoTimer /\ vttab[j].slot = i
          OBVIOUS
        <4>1. vttab[j] # NoTimer
          BY <1>0, <2>1, <2>2 DEF SlotOK, NoTimer
        <4> QED
          BY <1>0, <2>1, <2>2, <4>1 DEF TimersOwn, Served
      <3>5. \A j \in TimerIndex : vttab'[j] # NoTimer => vttab'[j] = vttab[j] /\ vttab[j].slot # i
        <4> SUFFICES ASSUME NEW j \in TimerIndex, vttab'[j] # NoTimer, vttab[j].slot = i
                     PROVE  FALSE
          BY <3>3
        <4>1. vttab'[j] = vttab[j] /\ vttab[j].name = hname[i]
          BY <1>0, <3>3 DEF TimersOwn
        <4>2. PICK k \in TimerIndex : vttab[k].name = hname[i] /\ vttab'[k] = NoTimer
          BY <3>3, <4>1
        <4>3. vttab[k] \in Timer /\ vttab[j] \in Timer /\ vttab[k].slot = i
          BY <1>0, <3>4, <4>2 DEF TypeOK
        <4>4. vttab[k] = vttab[j]
          BY <4>1, <4>2, <4>3 DEF Timer
        <4>5. k = j
          BY <1>0, <4>1, <4>4 DEF TimersOwn
        <4> QED
          BY <4>2, <4>5
      <3>6. \A j \in TimerIndex : vttab'[j] # NoTimer =>
                /\ vttab'[j].slot \in Index \ Burying' /\ homeostatic'[vttab'[j].slot] > 0
                /\ vttab'[j].name = hname[vttab'[j].slot]
        BY <1>0, <2>3, <3>2, <3>5 DEF TimersOwn
      <3>7. \A j, k \in TimerIndex : vttab'[j] # NoTimer /\ vttab'[k] = vttab'[j] => k = j
        BY <1>0, <3>5 DEF TimersOwn
      <3> QED
        BY <2>2, <3>6, <3>7 DEF TimersOwn
    <2>6. \/ UNCHANGED <<vttab, call>> /\ homeostatic[i] > 1
          \/ /\ ClearTimer(hname[i])
             /\ call' = [call EXCEPT ![Root] = [Idle EXCEPT !.at = "unlink", !.slot = i]]
      BY <1>8, <2>0, <2>2 DEF Unprotect, Lower
    <2> QED
      BY <2>4, <2>5, <2>6
  <1>9. ASSUME UnlinkShadow PROVE TimersOwn'
    <2>1. \A i \in Index \ Burying : i \notin Burying'
      <3>1. call'[Root].slot = call[Root].slot /\ call[Root].at = "unlink"
        BY <1>0, <1>9, FileTableAssumption DEF UnlinkShadow, TypeOK, Call, FileTableAssumption
      <3> QED
        BY <1>0, <3>1, BuryingIs, BuryingNext
    <2> QED
      BY <1>0, <1>9, <2>1, SameTimers DEF UnlinkShadow, ftab, timers, outside, bounds, lock
  <1>10. ASSUME Bury PROVE TimersOwn'
    <2>1. /\ call[Root].slot \in Index /\ call[Root].slot \in Burying
          /\ call'[Root].at = "idle"
      BY <1>0, <1>10, BuryingIs, FileTableAssumption
        DEF Bury, TypeOK, Call, Idle, FileTableAssumption
    <2>2. \A i \in Index \ Burying : i \notin Burying'
      BY <1>0, <2>1, BuryingNext
    <2>3. \A i \in Index \ Burying : homeostatic'[i] = homeostatic[i] /\ hname'[i] = hname[i]
      BY <1>0, <1>10, <2>1 DEF Bury, TypeOK
    <2> QED
      BY <1>0, <1>10, <2>2, <2>3, SameTimers DEF Bury, ftab, timers, outside, bounds, lock
  <1>11. ASSUME NEW p \in Threads, NEW d \in AllDescriptors, Close(p, d) PROVE TimersOwn'
    <2>1. \A i \in Index \ Burying : i \notin Burying'
      BY <1>0, <1>11, BuryingIs, BuryingNext, FileTableAssumption
        DEF Close, TypeOK, Idle, FileTableAssumption
    <2> QED
      BY <1>0, <1>11, <2>1, SameTimers DEF Close, TypeOK, ftab, timers, outside, bounds, lock
  <1>12. ASSUME NEW p \in Threads, Clear(p) PROVE TimersOwn'
    <2>1. \A i \in Index \ Burying : i \notin Burying'
      <3>1. \A q \in Threads \ {p} : call'[q] = call[q]
        BY <1>0, <1>12 DEF Clear, TypeOK
      <3>2. call'[p].at \notin {"unlink", "bury"}
        BY <1>0, <1>12 DEF Clear, TypeOK, Idle, Call
      <3> QED
        BY <1>0, <3>1, <3>2, BuryingIs, BuryingNext, FileTableAssumption DEF FileTableAssumption
    <2>2. call[p].slot \in Index /\ homeostatic[call[p].slot] = 0
      <3>1. call[p].slot \in Closing /\ call[p].slot \in Index
        BY <1>0, <1>12 DEF Clear, Closing, TypeOK, Call
      <3> QED
        BY <1>0, <3>1 DEF ShadowsOwn, TypeOK
    <2>3. \A i \in Index : homeostatic'[i] = homeostatic[i]
      BY <1>0, <1>12, <2>2 DEF Clear, ClearSlot, TypeOK
    <2> QED
      BY <1>0, <1>12, <2>1, <2>3, SameTimers
        DEF Clear, ClearSlot, ftab, timers, outside, bounds, lock
  <1>13. ASSUME NEW i \in Index, Tick(i) PROVE TimersOwn'
    <2>1. Burying' = Burying
      BY <1>13 DEF Tick, Burying
    <2> QED
      BY <1>0, <1>13, <2>1, SameTimers DEF Tick, ftab, timers, outside, bounds, lock
  <1>14. ASSUME Relink PROVE TimersOwn'
    <2>1. Burying' = Burying
      BY <1>14 DEF Relink, Burying
    <2> QED
      BY <1>0, <1>14, <2>1, SameTimers DEF Relink, ftab, timers, outside, bounds, lock
  <1>15. ASSUME RelinkShadow PROVE TimersOwn'
    <2>1. Burying' = Burying
      BY <1>15 DEF RelinkShadow, Burying
    <2> QED
      BY <1>0, <1>15, <2>1, SameTimers DEF RelinkShadow, ftab, timers, outside, bounds, lock
  <1>16. ASSUME NEW f \in Files, Lose(f) PROVE TimersOwn'
    <2>1. Burying' = Burying
      BY <1>16 DEF Lose, Burying
    <2> QED
      BY <1>0, <1>16, <2>1, SameTimers DEF Lose, ftab, timers, outside, bounds, lock
  <1>17. ASSUME NEW i \in Index, LoseShadow(i) PROVE TimersOwn'
    <2>1. Burying' = Burying
      BY <1>17 DEF LoseShadow, Burying
    <2> QED
      BY <1>0, <1>17, <2>1, SameTimers DEF LoseShadow, ftab, timers, outside, bounds, lock
  <1>18. ASSUME NEW f \in Files, Make(f) PROVE TimersOwn'
    <2>1. Burying' = Burying
      BY <1>18 DEF Make, Burying
    <2> QED
      BY <1>0, <1>18, <2>1, SameTimers DEF Make, ftab, timers, outside, bounds, lock
  <1>19. ASSUME UNCHANGED vars PROVE TimersOwn'
    BY <1>0, <1>19, SameTimers DEF Burying, vars, ftab, timers, outside, bounds, lock
  <1> QED
    BY <1>1, <1>2, <1>3, <1>4, <1>5, <1>6, <1>7, <1>8, <1>9, <1>10, <1>11, <1>12, <1>13, <1>14,
       <1>15, <1>16, <1>17, <1>18, <1>19 DEF Next, Continue, Stopped


(* A run of the homeostat is undisturbed: whoever may change the table finds *)
(* none under way.                                                           *)
LEMMA SameRun ==
    ASSUME RunOwn, run' = run,
           run # NoRun => homeostatic' = homeostatic /\ Burying' = Burying
    PROVE  RunOwn'
  BY DEF RunOwn

LEMMA RunStep ==
    ASSUME Before, After, [Next]_vars
    PROVE  RunOwn'
  <1>0. /\ TypeOK /\ CallOK /\ SlotOK /\ SlotGiven /\ DummyOwn /\ OneHolder /\ Served
        /\ TimersOwn /\ ShadowsOwn /\ FilesOwn /\ RunOwn
        /\ CallOK' /\ OneHolder' /\ past' \subseteq Excused
    BY DEF Before, After
  <1>1. ASSUME NEW p \in Threads, NEW f \in Files, NEW how \in {"live", "dead", "protect"}, Open(p, f, how)
        PROVE  RunOwn'
    <2>1. run' = run /\ run = NoRun
      BY <1>0, <1>1, Apart DEF Open
    <2> QED
      BY <1>0, <2>1, SameRun
  <1>2. ASSUME NEW p \in Threads, OpenFails(p) PROVE RunOwn'
    <2>1. run' = run /\ run = NoRun
      BY <1>0, <1>2, Apart DEF OpenFails
    <2> QED
      BY <1>0, <2>1, SameRun
  <1>3. ASSUME NEW p \in Threads, OpenFile(p) PROVE RunOwn'
    <2>1. homeostatic' = homeostatic /\ run' = run
      BY <1>3 DEF OpenFile, ftab
    <2>2. call[p].at = "found" /\ call'[p].at = "opened" /\ \A q \in Threads \ {p} : call'[q] = call[q]
      BY <1>0, <1>3 DEF OpenFile, TypeOK, Call
    <2>3. Burying' = Burying
      BY <2>2 DEF Burying
    <2> QED
      BY <1>0, <2>1, <2>3, SameRun
  <1>4. ASSUME NEW p \in Threads, Fill(p) PROVE RunOwn'
    <2>1. run' = run /\ run = NoRun
      BY <1>0, <1>4, Apart DEF Fill
    <2> QED
      BY <1>0, <2>1, SameRun
  <1>5. ASSUME NEW d \in AllDescriptors, CallAlive(d) PROVE RunOwn'
    <2>1. run' = run /\ run = NoRun
      BY <1>5 DEF CallAlive, Runs
    <2> QED
      BY <1>0, <2>1, SameRun
  <1>6. ASSUME NEW p \in Threads, Alive(p) PROVE RunOwn'
    <2>1. run' = run /\ run = NoRun
      BY <1>0, <1>6, Apart DEF Alive
    <2> QED
      BY <1>0, <2>1, SameRun
  <1>7. ASSUME NEW d \in AllDescriptors, Dead(d) PROVE RunOwn'
    <2>1. run' = run /\ run = NoRun
      BY <1>7 DEF Dead, Runs
    <2> QED
      BY <1>0, <2>1, SameRun
  <1>8. ASSUME NEW f \in Files, Unprotect(f) PROVE RunOwn'
    <2>1. run' = run /\ run = NoRun
      BY <1>8 DEF Unprotect, Runs
    <2> QED
      BY <1>0, <2>1, SameRun
  <1>9. ASSUME UnlinkShadow PROVE RunOwn'
    <2>1. run' = run /\ run = NoRun
      BY <1>9 DEF UnlinkShadow, Runs
    <2> QED
      BY <1>0, <2>1, SameRun
  <1>10. ASSUME Bury PROVE RunOwn'
    <2>1. run' = run /\ run = NoRun
      BY <1>10 DEF Bury, Runs
    <2> QED
      BY <1>0, <2>1, SameRun
  <1>11. ASSUME NEW p \in Threads, NEW d \in AllDescriptors, Close(p, d) PROVE RunOwn'
    <2>1. run' = run /\ run = NoRun
      BY <1>0, <1>11, Apart DEF Close
    <2> QED
      BY <1>0, <2>1, SameRun
  <1>12. ASSUME NEW p \in Threads, Clear(p) PROVE RunOwn'
    <2>1. run' = run /\ run = NoRun
      <3>1. mutex = p /\ Runs(p) /\ run' = run
        BY <1>0, <1>12 DEF Clear, CallOK, Busy
      <3>2. p # Root => run = NoRun
        BY <1>0, <3>1, FileTableAssumption DEF CallOK, FileTableAssumption
      <3> QED
        BY <3>1, <3>2 DEF Runs
    <2> QED
      BY <1>0, <2>1, SameRun
  <1>13. ASSUME NEW i \in Index, Tick(i) PROVE RunOwn'
    <2>1. PICK j \in TimerIndex : vttab[j].slot = i
      BY <1>13 DEF Tick
    <2>2. vttab[j] # NoTimer
      BY <2>1, Constants DEF NoTimer
    <2>3. homeostatic[i] > 0 /\ i \notin Burying
      BY <1>0, <2>1, <2>2 DEF TimersOwn
    <2>4. run'.slot = i /\ homeostatic' = homeostatic /\ Burying' = Burying
      BY <1>13 DEF Tick, Burying, ftab
    <2> QED
      BY <2>3, <2>4 DEF RunOwn
  <1>14. ASSUME Relink PROVE RunOwn'
    <2>1. run # NoRun /\ run'.slot = run.slot
      BY <1>0, <1>14 DEF Relink, NoRun, TypeOK
    <2>2. homeostatic' = homeostatic /\ Burying' = Burying
      BY <1>14 DEF Relink, Burying, ftab
    <2> QED
      BY <1>0, <2>1, <2>2 DEF RunOwn
  <1>15. ASSUME RelinkShadow PROVE RunOwn'
    BY <1>15 DEF RelinkShadow, RunOwn
  <1>16. ASSUME NEW f \in Files, Lose(f) PROVE RunOwn'
    <2>1. run' = run /\ homeostatic' = homeostatic /\ Burying' = Burying
      BY <1>16 DEF Lose, Burying, ftab
    <2> QED
      BY <1>0, <2>1, SameRun
  <1>17. ASSUME NEW i \in Index, LoseShadow(i) PROVE RunOwn'
    <2>1. run' = run /\ homeostatic' = homeostatic /\ Burying' = Burying
      BY <1>17 DEF LoseShadow, Burying, ftab
    <2> QED
      BY <1>0, <2>1, SameRun
  <1>18. ASSUME NEW f \in Files, Make(f) PROVE RunOwn'
    <2>1. run' = run /\ homeostatic' = homeostatic /\ Burying' = Burying
      BY <1>18 DEF Make, Burying, ftab
    <2> QED
      BY <1>0, <2>1, SameRun
  <1>19. ASSUME UNCHANGED vars PROVE RunOwn'
    <2>1. run' = run /\ homeostatic' = homeostatic /\ Burying' = Burying
      BY <1>19 DEF vars, Burying, ftab
    <2> QED
      BY <1>0, <2>1, SameRun
  <1> QED
    BY <1>1, <1>2, <1>3, <1>4, <1>5, <1>6, <1>7, <1>8, <1>9, <1>10, <1>11, <1>12, <1>13, <1>14,
       <1>15, <1>16, <1>17, <1>18, <1>19 DEF Next, Continue, Stopped

(* Steps after which nobody new uses a file, and no file is made. *)
LEMMA SameFiles ==
    ASSUME FilesOwn,
           \A f \in Files, d \in AllDescriptors : Uses(f, d)' => Uses(f, d) /\ ino'[d] = ino[d],
           \A f \in Files : Exists(f)' => Exists(f) /\ disk'[f] = disk[f]
    PROVE  FilesOwn'
  BY DEF FilesOwn

LEMMA SameUses ==
    ASSUME CallOK, fdes' = fdes, fname' = fname, ino' = ino,
           \A p \in Threads : Still(p),
           NEW f \in Files, NEW d \in AllDescriptors, Uses(f, d)'
    PROVE  Uses(f, d) /\ ino'[d] = ino[d]
  <1>1. \A p \in Threads : call'[p].at \in Moving => call'[p] = call[p]
    BY DEF Still
  <1>2. \A p \in Threads : call[p].at \in Moving => call'[p] = call[p]
    BY DEF Still
  <1>3. Closing' = Closing
    BY <1>1, <1>2 DEF Closing, Moving
  <1> QED
    BY <1>1, <1>3 DEF Uses, Moving

(* A used descriptor is open. *)
LEMMA UsedOpen ==
    ASSUME OneHolder, NEW f, NEW d \in AllDescriptors, Uses(f, d)
    PROVE  ino[d] # Missing
  <1>1. Holding(d) # {} \/ Entering(d) # {}
    BY DEF Uses, Holding, SlotsOf, Entering
  <1> QED
    BY <1>1 DEF OneHolder

LEMMA UsedOpenNext ==
    ASSUME OneHolder', NEW f, NEW d \in AllDescriptors, Uses(f, d)'
    PROVE  ino'[d] # Missing
  <1>1. Holding(d)' # {} \/ Entering(d)' # {}
    BY DEF Uses, Holding, SlotsOf, Entering
  <1> QED
    BY <1>1 DEF OneHolder

(* Links that are made or taken under other names leave a file as it is.     *)
LEMMA SameFile ==
    ASSUME NEW old, NEW new, NEW f \in Files,
           disk' = Unlink(new) \/ (disk' = Link(old, new) /\ new \notin Files) \/ disk' = disk,
           TypeOK, Exists(f)'
    PROVE  Exists(f) /\ disk'[f] = disk[f]
  BY DEF Exists, Link, Unlink, CanLink, TypeOK

LEMMA FilesStep ==
    ASSUME Before, After, [Next]_vars
    PROVE  FilesOwn'
  <1>0. /\ TypeOK /\ CallOK /\ SlotOK /\ SlotGiven /\ DummyOwn /\ OneHolder /\ Served
        /\ TimersOwn /\ ShadowsOwn /\ FilesOwn /\ RunOwn
        /\ CallOK' /\ OneHolder' /\ past' \subseteq Excused
    BY DEF Before, After
  <1>1. ASSUME NEW p \in Threads, NEW f \in Files, NEW how \in {"live", "dead", "protect"}, Open(p, f, how)
        PROVE  FilesOwn'
    <2>1. SlotOf(Free) \in Index /\ fdes[SlotOf(Free)] = Free
      BY <1>1, SlotOfIs DEF Open
    <2>2. /\ call[p].at = "idle" /\ call'[p].at = "found"
          /\ \A q \in Threads \ {p} : call'[q] = call[q]
          /\ fdes' = fdes /\ ino' = ino /\ disk' = disk
          /\ \A k \in Index : fdes[k] # Free => fname'[k] = fname[k]
      BY <1>0, <1>1, <2>1 DEF Open, TypeOK, Idle
    <2>3. Closing' = Closing
      BY <2>2 DEF Closing
    <2>4. \A g \in Files, d \in AllDescriptors : Uses(g, d)' => Uses(g, d) /\ ino'[d] = ino[d]
      BY <2>2, <2>3, Constants DEF Uses
    <2>5. \A g \in Files : Exists(g)' => Exists(g) /\ disk'[g] = disk[g]
      BY <2>2 DEF Exists
    <2> QED
      BY <1>0, <2>4, <2>5, SameFiles
  <1>2. ASSUME NEW p \in Threads, OpenFails(p) PROVE FilesOwn'
    <2>1. /\ call[p].at = "found" /\ call'[p].at = "idle"
          /\ \A q \in Threads \ {p} : call'[q] = call[q]
          /\ fname' = fname /\ ino' = ino /\ disk' = disk
          /\ fdes' = [fdes EXCEPT ![call[p].slot] = Free]
      BY <1>0, <1>2 DEF OpenFails, ClearSlot, TypeOK, Idle
    <2>2. Closing' = Closing
      BY <2>1 DEF Closing
    <2>3. \A k \in Index : fdes'[k] \in {fdes[k], Free}
      BY <1>0, <2>1 DEF TypeOK
    <2>4. \A g \in Files, d \in AllDescriptors : Uses(g, d)' => Uses(g, d) /\ ino'[d] = ino[d]
      BY <2>1, <2>2, <2>3, Constants DEF Uses
    <2>5. \A g \in Files : Exists(g)' => Exists(g) /\ disk'[g] = disk[g]
      BY <2>1 DEF Exists
    <2> QED
      BY <1>0, <2>4, <2>5, SameFiles
  <1>3. ASSUME NEW p \in Threads, OpenFile(p) PROVE FilesOwn'
    <2> DEFINE i == call[p].slot
    <2>1. PICK d \in IF call[p].how = "protect" THEN {Dummy(i)} ELSE {Min(Unused)} :
              /\ ino' = [ino EXCEPT ![d] = disk[call[p].file]]
              /\ call' = [call EXCEPT ![p].at = "opened", ![p].des = d]
      BY <1>3 DEF OpenFile
    <2>2. d \in AllDescriptors /\ Holding(d) = {} /\ Entering(d) = {}
      BY <1>0, <1>3, <2>1, NewDescriptor
    <2>3. PICK f \in Files : f = call[p].file
      BY <1>0, <1>3 DEF OpenFile, CallOK, Opening
    <2>4. /\ call[p].at = "found" /\ call'[p].at = "opened" /\ call'[p].file = f
          /\ call'[p].des = d /\ fdes' = fdes /\ fname' = fname /\ disk' = disk
          /\ \A q \in Threads \ {p} : call'[q] = call[q]
          /\ Exists(f) /\ ino'[d] = disk[f]
      BY <1>0, <1>3, <2>1, <2>2, <2>3 DEF OpenFile, TypeOK, Call, ftab
    <2>5. \A e \in AllDescriptors \ {d} : ino'[e] = ino[e]
      BY <1>0, <2>1 DEF TypeOK
    <2>6. Closing' = Closing
      BY <2>4 DEF Closing
    <2>7. \A g \in Files : ~Uses(g, d)
      BY <2>2 DEF Uses, Holding, SlotsOf, Entering
    <2>8. \A g \in Files, e \in AllDescriptors : Uses(g, e)' => Uses(g, e) \/ (g = f /\ e = d)
      BY <2>4, <2>6 DEF Uses
    <2>9. \A g \in Files : disk'[g] = disk[g] /\ (Exists(g)' <=> Exists(g))
      BY <2>4 DEF Exists
    <2>10. \A g \in Files, e \in AllDescriptors : Uses(g, e) =>
              ino'[e] = ino[e] /\ (Exists(g) => disk[g] = ino[e])
      BY <1>0, <2>5, <2>7 DEF FilesOwn
    <2>11. ASSUME NEW g \in Files, NEW e \in AllDescriptors, Uses(g, e)',
                  NEW c \in AllDescriptors, Uses(g, c)'
           PROVE  ino'[c] = ino'[e] /\ (Exists(g)' => disk'[g] = ino'[e])
      <3>1. CASE Uses(g, e) /\ Uses(g, c)
        BY <1>0, <2>9, <2>10, <3>1 DEF FilesOwn
      <3>2. CASE g = f
        <4>1. ino'[e] = disk[f]
          BY <2>4, <2>8, <2>10, <2>11, <3>2
        <4>2. ino'[c] = disk[f]
          BY <2>4, <2>8, <2>10, <2>11, <3>2
        <4> QED
          BY <2>9, <3>2, <4>1, <4>2
      <3> QED
        BY <2>8, <2>11, <3>1, <3>2
    <2> QED
      BY <2>11 DEF FilesOwn
  <1>4. ASSUME NEW p \in Threads, Fill(p) PROVE FilesOwn'
    <2>0. PICK i \in Index, d \in AllDescriptors, f \in Files :
             i = call[p].slot /\ d = call[p].des /\ f = call[p].file
      BY <1>0, <1>4 DEF Fill, TypeOK, Call, CallOK, Opening
    <2>1. /\ call[p].at = "opened" /\ call'[p].at # "opened"
          /\ call'[p].at # "clear"
          /\ \A q \in Threads \ {p} : call'[q] = call[q]
          /\ ino' = ino /\ disk' = disk
          /\ fdes'[i] = d /\ fname'[i] = f
          /\ \A k \in Index \ {i} : fdes'[k] = fdes[k] /\ fname'[k] = fname[k]
      BY <1>0, <1>4, <2>0 DEF Fill, TypeOK, Idle, Call
    <2>2. Closing' = Closing
      BY <2>1 DEF Closing
    <2>3. Uses(f, d)
      BY <2>0, <2>1 DEF Uses
    <2>4. ASSUME NEW g \in Files, NEW e \in AllDescriptors, Uses(g, e)'
          PROVE  Uses(g, e) /\ ino'[e] = ino[e]
      <3>1. CASE \E k \in Index \ Closing' : fname'[k] = g /\ fdes'[k] = e
        <4>1. PICK k \in Index \ Closing' : fname'[k] = g /\ fdes'[k] = e
          BY <3>1
        <4>2. CASE k = i
          BY <2>1, <2>3, <4>1, <4>2
        <4>3. CASE k # i
          BY <2>1, <2>2, <4>1, <4>3 DEF Uses
        <4> QED
          BY <4>2, <4>3
      <3>2. CASE \E q \in Threads : call'[q].at = "opened" /\ call'[q].file = g /\ call'[q].des = e
        BY <2>1, <3>2 DEF Uses
      <3> QED
        BY <2>4, <3>1, <3>2 DEF Uses
    <2>5. \A g \in Files : Exists(g)' => Exists(g) /\ disk'[g] = disk[g]
      BY <2>1 DEF Exists
    <2> QED
      BY <1>0, <2>4, <2>5, SameFiles
  <1>5. ASSUME NEW d \in AllDescriptors, CallAlive(d) PROVE FilesOwn'
    <2>1. \A p \in Threads : Still(p)
      BY <1>0, <1>5, FileTableAssumption
        DEF CallAlive, TypeOK, Still, Moving, Idle, FileTableAssumption
    <2>2. fdes' = fdes /\ fname' = fname /\ ino' = ino /\ disk' = disk
      BY <1>5 DEF CallAlive, ftab
    <2>3. \A f \in Files : Exists(f)' => Exists(f) /\ disk'[f] = disk[f]
      BY <2>2 DEF Exists
    <2> QED
      BY <1>0, <2>1, <2>2, <2>3, SameUses, SameFiles
  <1>6. ASSUME NEW p \in Threads, Alive(p) PROVE FilesOwn'
    <2>1. \A q \in Threads : Still(q)
      <3>1. call' = [call EXCEPT ![p] = Idle]
            \/ call' = [call EXCEPT ![p] = [call[p] EXCEPT !.at = "again"]]
        BY <1>0, <1>6 DEF Alive, TypeOK
      <3>2. call[p] \in Call /\ call[p].at \in {"alive", "again"}
        BY <1>0, <1>6 DEF Alive, TypeOK
      <3> QED
        BY <1>0, <3>1, <3>2 DEF TypeOK, Still, Moving, Idle, Call
    <2>2. fdes' = fdes /\ fname' = fname /\ ino' = ino
      BY <1>6 DEF Alive
    <2>3. \/ disk' = disk
          \/ \E i \in Index : disk' = Link(fname[i], i)
      <3>1. SlotsOf(call[p].des) # {} => SlotOf(call[p].des) \in Index
        BY SlotOfIs
      <3> QED
        BY <1>6, <3>1 DEF Alive, MakeLive
    <2>4. \A f \in Files : Exists(f)' => Exists(f) /\ disk'[f] = disk[f]
      <3>1. CASE disk' = disk
        BY <3>1 DEF Exists
      <3>2. CASE \E i \in Index : disk' = Link(fname[i], i)
        <4>1. PICK i \in Index : disk' = Link(fname[i], i)
          BY <3>2
        <4>2. i \notin Files
          BY Constants
        <4> QED
          BY <1>0, <4>1, <4>2, SameFile
      <3> QED
        BY <2>3, <3>1, <3>2
    <2> QED
      BY <1>0, <2>1, <2>2, <2>4, SameUses, SameFiles
  <1>7. ASSUME NEW d \in AllDescriptors, Dead(d) PROVE FilesOwn'
    <2> DEFINE i == SlotOf(d)
    <2>1. \A p \in Threads : Still(p)
      <3>1. CASE call' = call
        BY <3>1 DEF Still
      <3>2. CASE call' = [call EXCEPT ![Root] = [Idle EXCEPT !.at = "unlink", !.slot = i]]
        <4>1. call[Root].at = "idle" /\ call'[Root].at = "unlink"
          BY <1>0, <1>7, <3>2, FileTableAssumption DEF Dead, TypeOK, Idle, FileTableAssumption
        <4>2. \A p \in Threads \ {Root} : call'[p] = call[p]
          BY <1>0, <3>2 DEF TypeOK
        <4> QED
          BY <4>1, <4>2 DEF Still, Moving
      <3> QED
        BY <1>7, <3>1, <3>2 DEF Dead, Lower
    <2>2. fdes' = fdes /\ fname' = fname /\ ino' = ino /\ disk' = disk
      BY <1>7 DEF Dead
    <2>3. \A g \in Files : Exists(g)' => Exists(g) /\ disk'[g] = disk[g]
      BY <2>2 DEF Exists
    <2> QED
      BY <1>0, <2>1, <2>2, <2>3, SameUses, SameFiles
  <1>8. ASSUME NEW f \in Files, Unprotect(f) PROVE FilesOwn'
    <2> DEFINE i == Min({k \in Index : fname[k] = f /\ homeostatic[k] > 0})
    <2>1. \A p \in Threads : Still(p)
      <3>1. CASE call' = call
        BY <3>1 DEF Still
      <3>2. CASE call' = [call EXCEPT ![Root] = [Idle EXCEPT !.at = "unlink", !.slot = i]]
        <4>1. call[Root].at = "idle" /\ call'[Root].at = "unlink"
          BY <1>0, <1>8, <3>2, FileTableAssumption
            DEF Unprotect, TypeOK, Idle, FileTableAssumption
        <4>2. \A p \in Threads \ {Root} : call'[p] = call[p]
          BY <1>0, <3>2 DEF TypeOK
        <4> QED
          BY <4>1, <4>2 DEF Still, Moving
      <3> QED
        BY <1>8, <3>1, <3>2 DEF Unprotect, Lower
    <2>2. fdes' = fdes /\ fname' = fname /\ ino' = ino /\ disk' = disk
      BY <1>8 DEF Unprotect
    <2>3. \A g \in Files : Exists(g)' => Exists(g) /\ disk'[g] = disk[g]
      BY <2>2 DEF Exists
    <2> QED
      BY <1>0, <2>1, <2>2, <2>3, SameUses, SameFiles
  <1>9. ASSUME UnlinkShadow PROVE FilesOwn'
    <2>1. \A p \in Threads : Still(p)
      BY <1>0, <1>9, FileTableAssumption
        DEF UnlinkShadow, TypeOK, Still, Moving, FileTableAssumption
    <2>2. fdes' = fdes /\ fname' = fname /\ ino' = ino
      BY <1>9 DEF UnlinkShadow, ftab
    <2>3. \A g \in Files : Exists(g)' => Exists(g) /\ disk'[g] = disk[g]
      BY <1>0, <1>9, SameFile DEF UnlinkShadow
    <2> QED
      BY <1>0, <2>1, <2>2, <2>3, SameUses, SameFiles
  <1>10. ASSUME Bury PROVE FilesOwn'
    <2>1. \A p \in Threads : Still(p)
      BY <1>0, <1>10, FileTableAssumption
        DEF Bury, TypeOK, Still, Moving, Idle, FileTableAssumption
    <2>2. fdes' = fdes /\ fname' = fname /\ ino' = ino /\ disk' = disk
      BY <1>10 DEF Bury, ftab
    <2>3. \A f \in Files : Exists(f)' => Exists(f) /\ disk'[f] = disk[f]
      BY <2>2 DEF Exists
    <2> QED
      BY <1>0, <2>1, <2>2, <2>3, SameUses, SameFiles
  <1>11. ASSUME NEW p \in Threads, NEW d \in AllDescriptors, Close(p, d) PROVE FilesOwn'
    <2>1. /\ call[p].at = "idle" /\ call'[p].at = "clear"
          /\ \A q \in Threads \ {p} : call'[q] = call[q]
          /\ fdes' = fdes /\ fname' = fname /\ ino' = [ino EXCEPT ![d] = Missing]
      BY <1>0, <1>11 DEF Close, TypeOK, Idle, ftab
    <2>2. Closing = {}
      BY <1>0, <1>11, <2>1, Apart DEF Close
    <2>3. \A g \in Files, e \in AllDescriptors : Uses(g, e)' => Uses(g, e)
      BY <2>1, <2>2 DEF Uses
    <2>4. ino'[d] = Missing /\ \A e \in AllDescriptors \ {d} : ino'[e] = ino[e]
      BY <1>0, <2>1 DEF TypeOK
    <2>5. \A g \in Files, e \in AllDescriptors : Uses(g, e)' => ino'[e] = ino[e]
      BY <1>0, <2>4, UsedOpenNext
    <2>6. \A g \in Files : Exists(g)' => Exists(g) /\ disk'[g] = disk[g]
      BY <1>0, <1>11, SameFile DEF Close
    <2> QED
      BY <1>0, <2>3, <2>5, <2>6, SameFiles
  <1>12. ASSUME NEW p \in Threads, Clear(p) PROVE FilesOwn'
    <2>1. /\ call[p].at = "clear" /\ call'[p].at = "idle"
          /\ \A q \in Threads \ {p} : call'[q] = call[q]
          /\ fname' = fname /\ ino' = ino /\ disk' = disk
          /\ fdes' = [fdes EXCEPT ![call[p].slot] = Free]
      BY <1>0, <1>12 DEF Clear, ClearSlot, TypeOK, Idle
    <2>2. Closing \subseteq {call[p].slot}
      BY <1>0, <2>1 DEF CallOK, Busy, Closing
    <2>3. \A k \in Index : fdes'[k] # Free => fdes'[k] = fdes[k] /\ k # call[p].slot
      BY <1>0, <2>1 DEF TypeOK
    <2>4. \A g \in Files, d \in AllDescriptors : Uses(g, d)' => Uses(g, d) /\ ino'[d] = ino[d]
      BY <2>1, <2>2, <2>3, Constants DEF Uses
    <2>5. \A g \in Files : Exists(g)' => Exists(g) /\ disk'[g] = disk[g]
      BY <2>1 DEF Exists
    <2> QED
      BY <1>0, <2>4, <2>5, SameFiles
  <1>13. ASSUME NEW i \in Index, Tick(i) PROVE FilesOwn'
    <2>1. \A p \in Threads : Still(p)
      BY <1>13 DEF Tick, Still
    <2>2. fdes' = fdes /\ fname' = fname /\ ino' = ino /\ disk' = disk
      BY <1>13 DEF Tick, ftab
    <2>3. \A f \in Files : Exists(f)' => Exists(f) /\ disk'[f] = disk[f]
      BY <2>2 DEF Exists
    <2> QED
      BY <1>0, <2>1, <2>2, <2>3, SameUses, SameFiles
  <1>14. ASSUME Relink PROVE FilesOwn'
    <2>1. \A p \in Threads : Still(p)
      BY <1>14 DEF Relink, Still
    <2>2. fdes' = fdes /\ fname' = fname /\ ino' = ino
      BY <1>14 DEF Relink, ftab
    <2> DEFINE i == run.slot
    <2>3. /\ i \in Index /\ homeostatic[i] > 0 /\ fshadow[i] = i /\ i \notin Closing
          /\ fdes[i] # Free /\ fname[i] \in Files
      <3>1. run # NoRun /\ i \in Index
        BY <1>0, <1>14 DEF Relink, NoRun, TypeOK
      <3>2. homeostatic[i] > 0
        BY <1>0, <3>1 DEF RunOwn
      <3> QED
        BY <1>0, <3>1, <3>2 DEF ShadowsOwn, SlotOK
    <2>4. CASE CanLink(i, fname[i])
      <3>1. disk[i] = ino[fdes[i]] /\ fdes[i] \in AllDescriptors
        BY <1>0, <2>3, <2>4 DEF CanLink, ShadowsOwn, TypeOK
      <3>2. Uses(fname[i], fdes[i])
        BY <2>3 DEF Uses
      <3>3. disk' = [disk EXCEPT ![fname[i]] = ino[fdes[i]]]
        BY <1>14, <2>3, <2>4, <3>1 DEF Relink, Link
      <3>4. ASSUME NEW f \in Files, NEW d \in AllDescriptors, Uses(f, d)', Exists(f)'
            PROVE  disk'[f] = ino[d]
        <4>1. Uses(f, d)
          BY <1>0, <2>1, <2>2, <3>4, SameUses
        <4>2. CASE f = fname[i]
          BY <1>0, <2>3, <3>1, <3>2, <3>3, <4>1, <4>2, Constants DEF FilesOwn, TypeOK
        <4>3. CASE f # fname[i]
          BY <1>0, <3>3, <3>4, <4>1, <4>3 DEF FilesOwn, TypeOK, Exists
        <4> QED
          BY <4>2, <4>3
      <3>5. ASSUME NEW f \in Files, NEW d \in AllDescriptors, Uses(f, d)',
                   NEW e \in AllDescriptors, Uses(f, e)'
            PROVE  ino[e] = ino[d]
        BY <1>0, <2>1, <2>2, <3>5, SameUses DEF FilesOwn
      <3> QED
        BY <2>2, <3>4, <3>5 DEF FilesOwn
    <2>5. CASE ~CanLink(i, fname[i])
      <3>1. disk' = disk
        BY <1>14, <2>3, <2>5 DEF Relink, Link
      <3>2. \A f \in Files : Exists(f)' => Exists(f) /\ disk'[f] = disk[f]
        BY <3>1 DEF Exists
      <3> QED
        BY <1>0, <2>1, <2>2, <3>2, SameUses, SameFiles
    <2> QED
      BY <2>4, <2>5
  <1>15. ASSUME RelinkShadow PROVE FilesOwn'
    <2>1. \A p \in Threads : Still(p)
      BY <1>15 DEF RelinkShadow, Still
    <2>2. fdes' = fdes /\ fname' = fname /\ ino' = ino
      BY <1>15 DEF RelinkShadow, ftab
    <2>3. fshadow[run.slot] = run.slot /\ run.slot \notin Files
      <3>1. run # NoRun /\ run.slot \in Index
        BY <1>0, <1>15 DEF RelinkShadow, NoRun, TypeOK
      <3>2. homeostatic[run.slot] > 0
        BY <1>0, <3>1 DEF RunOwn
      <3> QED
        BY <1>0, <3>1, <3>2, Constants DEF ShadowsOwn
    <2>4. \A f \in Files : Exists(f)' => Exists(f) /\ disk'[f] = disk[f]
      BY <1>0, <1>15, <2>3, SameFile DEF RelinkShadow
    <2> QED
      BY <1>0, <2>1, <2>2, <2>4, SameUses, SameFiles
  <1>16. ASSUME NEW f \in Files, Lose(f) PROVE FilesOwn'
    <2>1. \A p \in Threads : Still(p)
      BY <1>16 DEF Lose, Still
    <2>2. fdes' = fdes /\ fname' = fname /\ ino' = ino
      BY <1>16 DEF Lose, ftab
    <2>3. \A g \in Files : Exists(g)' => Exists(g) /\ disk'[g] = disk[g]
      BY <1>0, <1>16 DEF Lose, Exists, TypeOK
    <2> QED
      BY <1>0, <2>1, <2>2, <2>3, SameUses, SameFiles
  <1>17. ASSUME NEW i \in Index, LoseShadow(i) PROVE FilesOwn'
    BY <1>0, <1>17 DEF LoseShadow, Note, Excused
  <1>18. ASSUME NEW f \in Files, Make(f) PROVE FilesOwn'
    <2>1. \A p \in Threads : Still(p)
      BY <1>18 DEF Make, Still
    <2>2. fdes' = fdes /\ fname' = fname /\ ino' = ino
      BY <1>18 DEF Make, ftab
    <2>3. /\ \A i \in Index : fdes[i] # Free => fname[i] # f
          /\ \A p \in Threads : call[p].file # f
      BY <1>0, <1>18 DEF Make, Note, Excused
    <2>4. \A d \in AllDescriptors : ~Uses(f, d)
      BY <2>3, Constants DEF Uses
    <2>5. \A g \in Files \ {f} : disk'[g] = disk[g] /\ (Exists(g)' <=> Exists(g))
      BY <1>0, <1>18 DEF Make, Exists, TypeOK
    <2>6. \A g \in Files, d \in AllDescriptors : Uses(g, d)' => Uses(g, d) /\ g # f
      BY <1>0, <2>1, <2>2, <2>4, SameUses
    <2> QED
      BY <1>0, <2>2, <2>5, <2>6 DEF FilesOwn
  <1>19. ASSUME UNCHANGED vars PROVE FilesOwn'
    <2>1. \A p \in Threads : Still(p)
      BY <1>19 DEF vars, Still
    <2>2. fdes' = fdes /\ fname' = fname /\ ino' = ino /\ disk' = disk
      BY <1>19 DEF vars, ftab
    <2>3. \A f \in Files : Exists(f)' => Exists(f) /\ disk'[f] = disk[f]
      BY <2>2 DEF Exists
    <2> QED
      BY <1>0, <2>1, <2>2, <2>3, SameUses, SameFiles
  <1> QED
    BY <1>1, <1>2, <1>3, <1>4, <1>5, <1>6, <1>7, <1>8, <1>9, <1>10, <1>11, <1>12, <1>13, <1>14,
       <1>15, <1>16, <1>17, <1>18, <1>19 DEF Next, Continue, Stopped

(* Steps that change no shadow of a live file. *)
LEMMA SameShadows ==
    ASSUME ShadowsOwn,
           \A i \in Index :
               /\ homeostatic'[i] > 0 <=> homeostatic[i] > 0
               /\ homeostatic[i] > 0 \/ i \in Burying => fshadow'[i] = fshadow[i] /\ i \notin Closing'
               /\ i \in Burying' <=> i \in Burying
               /\ i \in Burying /\ call[Root].at = "unlink" => call'[Root].at = "unlink"
               /\ Exists(i)' => /\ Exists(i) /\ disk'[i] = disk[i]
                                /\ fdes'[i] = fdes[i] /\ ino'[fdes[i]] = ino[fdes[i]]
    PROVE  ShadowsOwn'
  BY DEF ShadowsOwn

(* The slot of a shadow that exists is the only holder of its descriptor.    *)
LEMMA ShadowHeld ==
    ASSUME TypeOK, ShadowsOwn, NEW i \in Index, Exists(i)
    PROVE  fdes[i] \in AllDescriptors /\ i \in Holding(fdes[i])
           /\ (homeostatic[i] > 0 \/ i \in Burying)
  BY DEF ShadowsOwn, Holding, SlotsOf, TypeOK

LEMMA SameShadow ==
    ASSUME TypeOK, NEW i \in Index, disk' = disk \/ \E path : disk' = Unlink(path), Exists(i)'
    PROVE  Exists(i) /\ disk'[i] = disk[i]
  BY DEF Exists, Unlink, TypeOK

LEMMA ShadowsStep ==
    ASSUME Before, After, [Next]_vars
    PROVE  ShadowsOwn'
  <1>0. /\ TypeOK /\ CallOK /\ SlotOK /\ SlotGiven /\ DummyOwn /\ OneHolder /\ Served
        /\ TimersOwn /\ ShadowsOwn /\ FilesOwn /\ RunOwn
        /\ CallOK' /\ OneHolder' /\ past' \subseteq Excused
    BY DEF Before, After
  <1>1. ASSUME NEW p \in Threads, NEW f \in Files, NEW how \in {"live", "dead", "protect"}, Open(p, f, how)
        PROVE  ShadowsOwn'
    <2>1. /\ \A q \in Threads \ {p} : call'[q] = call[q]
          /\ call[p].at \notin {"unlink", "bury", "clear"}
          /\ call'[p].at \notin {"unlink", "bury", "clear"}
      BY <1>0, <1>1 DEF Open, TypeOK, Idle, Call
    <2>2. Burying' = Burying /\ Closing' = Closing
      BY <2>1 DEF Burying, Closing
    <2>3. Burying = {}
      BY <1>0, <1>1, <2>1, Apart DEF Open
    <2>4. SlotOf(Free) \in Index /\ fdes[SlotOf(Free)] = Free
      BY <1>1, SlotOfIs DEF Open
    <2>5. homeostatic[SlotOf(Free)] = 0
      BY <1>0, <2>4 DEF SlotOK
    <2>6. \A i \in Index : homeostatic[i] > 0 => fshadow'[i] = fshadow[i]
      BY <1>0, <1>1, <2>4, <2>5 DEF Open, TypeOK
    <2>7. fdes' = fdes /\ ino' = ino /\ disk' = disk /\ homeostatic' = homeostatic
      BY <1>1 DEF Open
    <2>8. \A i \in Index : Exists(i)' => Exists(i)
      BY <2>7 DEF Exists
    <2>9. \A i \in Index : homeostatic[i] > 0 => i \notin Closing
      BY <1>0 DEF ShadowsOwn
    <2> QED
      BY <1>0, <2>2, <2>3, <2>6, <2>7, <2>8, <2>9, SameShadows
  <1>2. ASSUME NEW p \in Threads, OpenFails(p) PROVE ShadowsOwn'
    <2>1. /\ \A q \in Threads \ {p} : call'[q] = call[q]
          /\ call[p].at \notin {"unlink", "bury", "clear"}
          /\ call'[p].at \notin {"unlink", "bury", "clear"}
      BY <1>0, <1>2 DEF OpenFails, TypeOK, Idle, Call
    <2>2. Burying' = Burying /\ Closing' = Closing
      BY <2>1 DEF Burying, Closing
    <2>3. Burying = {}
      BY <1>0, <1>2, <2>1, Apart DEF OpenFails
    <2>4. call[p].slot \in Index /\ fdes[call[p].slot] = Free /\ homeostatic[call[p].slot] = 0
      BY <1>0, <1>2 DEF OpenFails, SlotGiven, SlotOK, Opening, TypeOK, Call
    <2>5. fdes' = fdes /\ ino' = ino /\ disk' = disk /\ homeostatic' = homeostatic /\ fshadow' = fshadow
      BY <1>0, <1>2, <2>4 DEF OpenFails, ClearSlot, TypeOK
    <2>6. \A i \in Index : Exists(i)' => Exists(i)
      BY <2>5 DEF Exists
    <2>7. \A i \in Index : homeostatic[i] > 0 => i \notin Closing
      BY <1>0 DEF ShadowsOwn
    <2> QED
      BY <1>0, <2>2, <2>3, <2>5, <2>6, <2>7, SameShadows
  <1>3. ASSUME NEW p \in Threads, OpenFile(p) PROVE ShadowsOwn'
    <2>0. PICK d \in IF call[p].how = "protect" THEN {Dummy(call[p].slot)} ELSE {Min(Unused)} :
              /\ ino' = [ino EXCEPT ![d] = disk[call[p].file]]
              /\ call' = [call EXCEPT ![p].at = "opened", ![p].des = d]
      BY <1>3 DEF OpenFile
    <2>1. /\ \A q \in Threads \ {p} : call'[q] = call[q]
          /\ call[p].at = "found" /\ call'[p].at = "opened"
      BY <1>0, <1>3, <2>0 DEF OpenFile, TypeOK, Call
    <2>2. Burying' = Burying /\ Closing' = Closing
      BY <2>1 DEF Burying, Closing
    <2>3. Holding(d) = {}
      BY <1>0, <1>3, <2>0, NewDescriptor
    <2>4. \A i \in Index : Exists(i) => ino'[fdes[i]] = ino[fdes[i]]
      BY <1>0, <2>0, <2>3, ShadowHeld DEF TypeOK
    <2>5. fdes' = fdes /\ disk' = disk /\ homeostatic' = homeostatic /\ fshadow' = fshadow
      BY <1>3 DEF OpenFile, ftab
    <2>6. \A i \in Index : Exists(i)' => Exists(i)
      BY <2>5 DEF Exists
    <2>7. call'[Root].at = "unlink" <=> call[Root].at = "unlink"
      BY <2>1, FileTableAssumption DEF FileTableAssumption
    <2>8. \A i \in Index : homeostatic[i] > 0 \/ i \in Burying => i \notin Closing
      BY <1>0 DEF ShadowsOwn
    <2> QED
      BY <1>0, <2>2, <2>4, <2>5, <2>6, <2>7, <2>8, SameShadows
  <1>4. ASSUME NEW p \in Threads, Fill(p) PROVE ShadowsOwn'
    <2>1. /\ \A q \in Threads \ {p} : call'[q] = call[q]
          /\ call[p].at \notin {"unlink", "bury", "clear"}
          /\ call'[p].at \notin {"unlink", "bury", "clear"}
      BY <1>0, <1>4 DEF Fill, TypeOK, Idle, Call
    <2>2. Burying' = Burying /\ Closing' = Closing
      BY <2>1 DEF Burying, Closing
    <2>3. Burying = {}
      BY <1>0, <1>4, <2>1, Apart DEF Fill
    <2>4. call[p].slot \in Index /\ fdes[call[p].slot] = Free
      BY <1>0, <1>4 DEF Fill, SlotGiven, Opening, TypeOK, Call
    <2>5. /\ ino' = ino /\ disk' = disk /\ homeostatic' = homeostatic /\ fshadow' = fshadow
          /\ fdes' = [fdes EXCEPT ![call[p].slot] = call[p].des]
      BY <1>4 DEF Fill
    <2>6. ~Exists(call[p].slot)
      BY <1>0, <2>4 DEF ShadowsOwn
    <2>7. \A i \in Index : Exists(i)' => Exists(i) /\ fdes'[i] = fdes[i]
      BY <1>0, <2>5, <2>6 DEF Exists, TypeOK
    <2>8. \A i \in Index : homeostatic[i] > 0 => i \notin Closing
      BY <1>0 DEF ShadowsOwn
    <2> QED
      BY <1>0, <2>2, <2>3, <2>5, <2>7, <2>8, SameShadows
  <1>5. ASSUME NEW d \in AllDescriptors, CallAlive(d) PROVE ShadowsOwn'
    <2>1. /\ \A q \in Threads \ {Root} : call'[q] = call[q]
          /\ call[Root].at = "idle" /\ call'[Root].at = "again"
      BY <1>0, <1>5, FileTableAssumption DEF CallAlive, TypeOK, Idle, FileTableAssumption
    <2>2. Burying' = Burying /\ Closing' = Closing
      BY <2>1 DEF Burying, Closing
    <2>3. fdes' = fdes /\ ino' = ino /\ disk' = disk /\ homeostatic' = homeostatic /\ fshadow' = fshadow
      BY <1>5 DEF CallAlive, ftab
    <2>4. \A i \in Index : Exists(i)' => Exists(i)
      BY <2>3 DEF Exists
    <2>5. \A i \in Index : homeostatic[i] > 0 \/ i \in Burying => i \notin Closing
      BY <1>0 DEF ShadowsOwn
    <2> QED
      BY <1>0, <2>1, <2>2, <2>3, <2>4, <2>5, SameShadows
  <1>6. ASSUME NEW p \in Threads, Alive(p) PROVE ShadowsOwn'
    <2> DEFINE d == call[p].des
    <2>0. PICK i : i = SlotOf(d)
      OBVIOUS
    <2>1. /\ \A q \in Threads \ {p} : call'[q] = call[q]
          /\ p = Root /\ call[p].at \in {"alive", "again"} /\ call'[p].at \in {"idle", "again"}
          /\ fdes' = fdes /\ ino' = ino
      BY <1>0, <1>6 DEF Alive, TypeOK, Idle, Call, CallOK
    <2>2. Burying = {} /\ Closing = {} /\ Burying' = {} /\ Closing' = {}
      <3>1. Burying = {} /\ Closing = {}
        BY <1>0, <1>6, <2>1, Apart DEF Alive
      <3> QED
        BY <2>1, <3>1 DEF Burying, Closing
    <2>3. CASE UNCHANGED <<homeostatic, fshadow, disk>>
      <3>1. \A k \in Index : Exists(k)' => Exists(k)
        BY <2>3 DEF Exists
      <3> QED
        BY <1>0, <2>1, <2>2, <2>3, <3>1, SameShadows
    <2>4. CASE SlotsOf(d) # {} /\ homeostatic[i] > 0 /\ homeostatic' = [homeostatic EXCEPT ![i] = @ + 1]
                 /\ UNCHANGED <<fshadow, disk>>
      <3>1. \A k \in Index : Exists(k)' => Exists(k)
        BY <2>4 DEF Exists
      <3>2. \A k \in Index : homeostatic'[k] > 0 <=> homeostatic[k] > 0
        BY <1>0, <2>4 DEF TypeOK
      <3> QED
        BY <1>0, <2>1, <2>2, <2>4, <3>1, <3>2, SameShadows
    <2>5. ASSUME NEW n, SlotsOf(d) # {}, homeostatic[i] = 0, MakeLive(i, n)
          PROVE  ShadowsOwn'
      <3>1. i \in Index /\ fdes[i] = d /\ d \in AllDescriptors /\ d # Free
        BY <1>0, <1>6, <2>0, <2>5, SlotOfIs, Constants DEF Alive, CallOK
      <3>2. ~Exists(i) /\ fname[i] \in Files
        BY <1>0, <2>2, <2>5, <3>1 DEF ShadowsOwn, SlotOK
      <3>3. /\ homeostatic'[i] > 0 /\ fshadow'[i] = i /\ disk' = Link(fname[i], i)
            /\ \A k \in Index \ {i} : homeostatic'[k] = homeostatic[k] /\ fshadow'[k] = fshadow[k]
        BY <1>0, <2>5, <3>1, Constants DEF MakeLive, TypeOK
      <3>4. Uses(fname[i], fdes[i])
        BY <2>2, <3>1 DEF Uses
      <3>5. Exists(i)' => disk'[i] = ino[fdes[i]]
        <4>1. CASE Exists(fname[i])
          <5>1. disk' = [disk EXCEPT ![i] = disk[fname[i]]]
            BY <3>1, <3>2, <3>3, <4>1, Constants DEF Link, CanLink
          <5> QED
            BY <1>0, <3>1, <3>2, <3>4, <4>1, <5>1, Constants DEF FilesOwn, TypeOK
        <4>2. CASE ~Exists(fname[i])
          BY <3>2, <3>3, <4>2 DEF Link, CanLink, Exists
        <4> QED
          BY <4>1, <4>2
      <3>6. \A k \in Index \ {i} : disk'[k] = disk[k] /\ (Exists(k)' <=> Exists(k))
        BY <1>0, <3>3, Constants DEF Link, Exists, TypeOK
      <3>7. ASSUME NEW k \in Index, homeostatic'[k] > 0
            PROVE  k \notin Closing' /\ fshadow'[k] = k
        BY <1>0, <2>2, <3>3, <3>7 DEF ShadowsOwn
      <3>8. ASSUME NEW k \in Index, Exists(k)'
            PROVE  fdes'[k] # Free /\ disk'[k] = ino'[fdes'[k]] /\ homeostatic'[k] > 0
        <4>1. CASE k = i
          BY <2>1, <3>1, <3>3, <3>5, <3>8, <4>1
        <4>2. CASE k # i
          BY <1>0, <2>1, <2>2, <3>3, <3>6, <3>8, <4>2 DEF ShadowsOwn
        <4> QED
          BY <4>1, <4>2
      <3> QED
        BY <2>2, <3>7, <3>8 DEF ShadowsOwn
    <2> QED
      BY <1>6, <2>0, <2>3, <2>4, <2>5 DEF Alive
  <1>7. ASSUME NEW d \in AllDescriptors, Dead(d) PROVE ShadowsOwn'
    <2>0. PICK i : i = SlotOf(d)
      OBVIOUS
    <2>1. i \in Index
      BY <2>0, <1>7, SlotOfIs DEF Dead, Known
    <2>2. homeostatic[i] > 0 /\ homeostatic[i] \in Nat
      BY <1>0, <1>7, <2>0, <2>1 DEF Dead, TypeOK
    <2>3. /\ \A k \in Index \ {i} : homeostatic'[k] = homeostatic[k]
          /\ fdes' = fdes /\ ino' = ino /\ disk' = disk /\ fshadow' = fshadow
      BY <1>0, <1>7, <2>0, <2>1 DEF Dead, TypeOK
    <2>4. \A k \in Index : Exists(k)' <=> Exists(k)
      BY <2>3 DEF Exists
    <2>5. Burying = {} /\ Closing = {} /\ call[Root].at = "idle" /\ Root \in Threads
      <3>1. CanLock(Root) /\ call[Root].at = "idle" /\ Root \in Threads
        BY <1>7, FileTableAssumption DEF Dead, Idle, FileTableAssumption
      <3> QED
        BY <1>0, <3>1, Apart
    <2>6. CASE UNCHANGED <<vttab, call>> /\ homeostatic[i] > 1
      <3>1. homeostatic'[i] > 0
        BY <1>0, <1>7, <2>0, <2>1, <2>2, <2>6 DEF Dead, TypeOK
      <3>2. \A k \in Index : homeostatic[k] > 0 <=> homeostatic'[k] > 0
        BY <2>2, <2>3, <3>1
      <3>3. Burying' = Burying /\ Closing' = Closing
        BY <2>6 DEF Burying, Closing
      <3> QED
        BY <1>0, <2>3, <2>4, <2>5, <3>2, <3>3, SameShadows
    <2>7. CASE call' = [call EXCEPT ![Root] = [Idle EXCEPT !.at = "unlink", !.slot = i]]
      <3>1. /\ call'[Root].at = "unlink" /\ call'[Root].slot = i
            /\ \A q \in Threads \ {Root} : call'[q] = call[q]
        BY <1>0, <2>5, <2>7 DEF TypeOK, Idle
      <3>2. \A k : k \in Burying' <=> k = i
        BY <1>0, <3>1, BuryingNext
      <3>3. Closing' = {}
        BY <2>5, <3>1 DEF Closing
      <3>4. ASSUME NEW k \in Index, homeostatic'[k] > 0 \/ k \in Burying'
            PROVE  fshadow'[k] = k
        BY <1>0, <2>2, <2>3, <3>2, <3>4 DEF ShadowsOwn
      <3>5. ASSUME NEW k \in Index, Exists(k)'
            PROVE  /\ fdes'[k] # Free /\ disk'[k] = ino'[fdes'[k]]
                   /\ k # i => homeostatic'[k] > 0
        BY <1>0, <2>3, <2>4, <2>5, <3>5 DEF ShadowsOwn
      <3> QED
        BY <3>1, <3>2, <3>3, <3>4, <3>5 DEF ShadowsOwn
    <2>8. \/ UNCHANGED <<vttab, call>> /\ homeostatic[i] > 1
          \/ call' = [call EXCEPT ![Root] = [Idle EXCEPT !.at = "unlink", !.slot = i]]
      BY <1>7, <2>0, <2>2 DEF Dead, Lower
    <2> QED
      BY <2>6, <2>7, <2>8
  <1>8. ASSUME NEW f \in Files, Unprotect(f) PROVE ShadowsOwn'
    <2>0. PICK i : i = Min({k \in Index : fname[k] = f /\ homeostatic[k] > 0})
      OBVIOUS
    <2>1. i \in Index
      BY <1>8, <2>0, MinOf, Constants DEF Unprotect
    <2>2. homeostatic[i] > 0 /\ homeostatic[i] \in Nat
      BY <1>0, <1>8, <2>0, <2>1, MinOf, Constants DEF Unprotect, TypeOK
    <2>3. /\ \A k \in Index \ {i} : homeostatic'[k] = homeostatic[k]
          /\ fdes' = fdes /\ ino' = ino /\ disk' = disk /\ fshadow' = fshadow
      BY <1>0, <1>8, <2>0, <2>1 DEF Unprotect, TypeOK
    <2>4. \A k \in Index : Exists(k)' <=> Exists(k)
      BY <2>3 DEF Exists
    <2>5. Burying = {} /\ Closing = {} /\ call[Root].at = "idle" /\ Root \in Threads
      <3>1. CanLock(Root) /\ call[Root].at = "idle" /\ Root \in Threads
        BY <1>8, FileTableAssumption DEF Unprotect, Idle, FileTableAssumption
      <3> QED
        BY <1>0, <3>1, Apart
    <2>6. CASE UNCHANGED <<vttab, call>> /\ homeostatic[i] > 1
      <3>1. homeostatic'[i] > 0
        BY <1>0, <1>8, <2>0, <2>1, <2>2, <2>6 DEF Unprotect, TypeOK
      <3>2. \A k \in Index : homeostatic[k] > 0 <=> homeostatic'[k] > 0
        BY <2>2, <2>3, <3>1
      <3>3. Burying' = Burying /\ Closing' = Closing
        BY <2>6 DEF Burying, Closing
      <3> QED
        BY <1>0, <2>3, <2>4, <2>5, <3>2, <3>3, SameShadows
    <2>7. CASE call' = [call EXCEPT ![Root] = [Idle EXCEPT !.at = "unlink", !.slot = i]]
      <3>1. /\ call'[Root].at = "unlink" /\ call'[Root].slot = i
            /\ \A q \in Threads \ {Root} : call'[q] = call[q]
        BY <1>0, <2>5, <2>7 DEF TypeOK, Idle
      <3>2. \A k : k \in Burying' <=> k = i
        BY <1>0, <3>1, BuryingNext
      <3>3. Closing' = {}
        BY <2>5, <3>1 DEF Closing
      <3>4. ASSUME NEW k \in Index, homeostatic'[k] > 0 \/ k \in Burying'
            PROVE  fshadow'[k] = k
        BY <1>0, <2>2, <2>3, <3>2, <3>4 DEF ShadowsOwn
      <3>5. ASSUME NEW k \in Index, Exists(k)'
            PROVE  /\ fdes'[k] # Free /\ disk'[k] = ino'[fdes'[k]]
                   /\ k # i => homeostatic'[k] > 0
        BY <1>0, <2>3, <2>4, <2>5, <3>5 DEF ShadowsOwn
      <3> QED
        BY <3>1, <3>2, <3>3, <3>4, <3>5 DEF ShadowsOwn
    <2>8. \/ UNCHANGED <<vttab, call>> /\ homeostatic[i] > 1
          \/ call' = [call EXCEPT ![Root] = [Idle EXCEPT !.at = "unlink", !.slot = i]]
      BY <1>8, <2>0, <2>2 DEF Unprotect, Lower
    <2> QED
      BY <2>6, <2>7, <2>8
  <1>9. ASSUME UnlinkShadow PROVE ShadowsOwn'
    <2>0. PICK i \in Index : i = call[Root].slot
      BY <1>0, FileTableAssumption DEF TypeOK, Call, FileTableAssumption
    <2>1. /\ \A q \in Threads \ {Root} : call'[q] = call[q]
          /\ call[Root].at = "unlink" /\ call'[Root].at = "bury" /\ call'[Root].slot = i
      BY <1>0, <1>9, <2>0, FileTableAssumption
        DEF UnlinkShadow, TypeOK, Call, FileTableAssumption
    <2>2. Closing' = Closing
      BY <2>1 DEF Closing
    <2>3. /\ \A k : k \in Burying <=> k = i
          /\ \A k : k \in Burying' <=> k = i
      BY <1>0, <2>0, <2>1, BuryingIs, BuryingNext
    <2>4. /\ fdes' = fdes /\ ino' = ino /\ homeostatic' = homeostatic /\ fshadow' = fshadow
          /\ disk' = Unlink(fshadow[i])
      BY <1>9, <2>0 DEF UnlinkShadow, ftab
    <2>5. fshadow[i] = i
      BY <1>0, <2>3 DEF ShadowsOwn
    <2>6. /\ ~Exists(i)'
          /\ \A k \in Index \ {i} : disk'[k] = disk[k] /\ (Exists(k)' <=> Exists(k))
      BY <1>0, <2>4, <2>5, Constants DEF Unlink, Exists, TypeOK
    <2> QED
      BY <1>0, <2>2, <2>3, <2>4, <2>6 DEF ShadowsOwn
  <1>10. ASSUME Bury PROVE ShadowsOwn'
    <2>0. PICK i \in Index : i = call[Root].slot
      BY <1>0, FileTableAssumption DEF TypeOK, Call, FileTableAssumption
    <2>1. /\ \A q \in Threads \ {Root} : call'[q] = call[q]
          /\ call[Root].at = "bury" /\ call'[Root].at = "idle"
      BY <1>0, <1>10, <2>0, FileTableAssumption DEF Bury, TypeOK, Idle, FileTableAssumption
    <2>2. Closing' = Closing
      BY <2>1 DEF Closing
    <2>3. /\ \A k : k \in Burying <=> k = i
          /\ \A k : k \notin Burying'
      BY <1>0, <2>0, <2>1, BuryingIs, BuryingNext
    <2>4. /\ fdes' = fdes /\ ino' = ino /\ disk' = disk /\ homeostatic'[i] = 0
          /\ \A k \in Index \ {i} : homeostatic'[k] = homeostatic[k] /\ fshadow'[k] = fshadow[k]
      BY <1>0, <1>10, <2>0 DEF Bury, TypeOK
    <2>5. ~Exists(i)
      BY <1>0, <2>1, <2>3 DEF ShadowsOwn
    <2>6. \A k \in Index : Exists(k)' => Exists(k) /\ k # i
      BY <2>4, <2>5 DEF Exists
    <2> QED
      BY <1>0, <2>2, <2>3, <2>4, <2>6 DEF ShadowsOwn
  <1>11. ASSUME NEW p \in Threads, NEW d \in AllDescriptors, Close(p, d) PROVE ShadowsOwn'
    <2>0. PICK i \in Index : i = SlotOf(d) /\ fdes[i] = d
      BY <1>11, SlotOfIs DEF Close, Known
    <2>1. /\ \A q \in Threads \ {p} : call'[q] = call[q]
          /\ call[p].at = "idle" /\ call'[p].at = "clear" /\ call'[p].slot = i
      BY <1>0, <1>11, <2>0 DEF Close, TypeOK, Idle
    <2>2. Burying = {} /\ Closing = {}
      BY <1>0, <1>11, <2>1, Apart DEF Close
    <2>3. Burying' = {} /\ Closing' \subseteq {i}
      BY <2>1, <2>2 DEF Burying, Closing
    <2>4. homeostatic[i] = 0 /\ ~Exists(i)
      <3>1. homeostatic[i] = 0
        <4>1. past' = IF homeostatic[i] > 0 THEN past \cup {"leaky"} ELSE past
          BY <1>11, <2>0 DEF Close, Note
        <4>2. ~(homeostatic[i] > 0)
          BY <1>0, <4>1 DEF Excused
        <4> QED
          BY <1>0, <4>2 DEF TypeOK
      <3> QED
        BY <1>0, <2>2, <3>1 DEF ShadowsOwn
    <2>5. /\ fdes' = fdes /\ homeostatic' = homeostatic /\ fshadow' = fshadow
          /\ ino' = [ino EXCEPT ![d] = Missing] /\ disk' = Unlink(fshadow[i])
      BY <1>11, <2>0 DEF Close, ftab
    <2>6. \A k \in Index : Exists(k)' => Exists(k) /\ disk'[k] = disk[k]
      BY <1>0, <2>5, SameShadow
    <2>7. \A k \in Index : Exists(k) => ino'[fdes[k]] = ino[fdes[k]]
      <3> SUFFICES ASSUME NEW k \in Index, Exists(k) PROVE ino'[fdes[k]] = ino[fdes[k]]
        OBVIOUS
      <3>1. fdes[k] \in AllDescriptors /\ k \in Holding(fdes[k]) /\ k # i
        BY <1>0, <2>4, ShadowHeld
      <3>2. i \in Holding(d)
        BY <2>0, <2>2 DEF Holding, SlotsOf
      <3>3. fdes[k] # d
        BY <1>0, <3>1, <3>2 DEF OneHolder
      <3> QED
        BY <1>0, <2>5, <3>1, <3>3 DEF TypeOK
    <2> QED
      BY <1>0, <2>2, <2>3, <2>4, <2>5, <2>6, <2>7, SameShadows
  <1>12. ASSUME NEW p \in Threads, Clear(p) PROVE ShadowsOwn'
    <2>0. PICK i \in Index : i = call[p].slot
      BY <1>0 DEF TypeOK, Call
    <2>1. /\ \A q \in Threads \ {p} : call'[q] = call[q]
          /\ call[p].at = "clear" /\ call'[p].at = "idle"
      BY <1>0, <1>12 DEF Clear, TypeOK, Idle
    <2>2. i \in Closing /\ Closing' \subseteq Closing /\ Burying' = Burying
      BY <2>0, <2>1 DEF Closing, Burying
    <2>3. homeostatic[i] = 0 /\ ~Exists(i) /\ i \notin Burying
      BY <1>0, <2>2 DEF ShadowsOwn, TypeOK
    <2>4. /\ ino' = ino /\ disk' = disk /\ fshadow' = fshadow /\ homeostatic' = homeostatic
          /\ \A k \in Index \ {i} : fdes'[k] = fdes[k]
      BY <1>0, <1>12, <2>0, <2>3 DEF Clear, ClearSlot, TypeOK
    <2>5. \A k \in Index : Exists(k)' => Exists(k) /\ fdes'[k] = fdes[k]
      BY <2>3, <2>4 DEF Exists
    <2>6. \A k \in Index : homeostatic[k] > 0 \/ k \in Burying => k \notin Closing'
      BY <1>0, <2>2 DEF ShadowsOwn
    <2>7. call'[Root].at = "unlink" <=> call[Root].at = "unlink"
      BY <2>1, FileTableAssumption DEF FileTableAssumption
    <2> QED
      BY <1>0, <2>2, <2>4, <2>5, <2>6, <2>7, SameShadows
  <1>13. ASSUME NEW i \in Index, Tick(i) PROVE ShadowsOwn'
    <2>1. /\ fdes' = fdes /\ ino' = ino /\ homeostatic' = homeostatic /\ fshadow' = fshadow
          /\ call' = call
      BY <1>13 DEF Tick, ftab
    <2>2. Burying' = Burying /\ Closing' = Closing
      BY <2>1 DEF Burying, Closing
    <2>3. \A k \in Index : homeostatic[k] > 0 \/ k \in Burying => k \notin Closing
      BY <1>0 DEF ShadowsOwn
    <2>4. \A k \in Index : Exists(k)' => Exists(k) /\ disk'[k] = disk[k]
      BY <1>13 DEF Tick, Exists
    <2> QED
      BY <1>0, <2>1, <2>2, <2>3, <2>4, SameShadows
  <1>14. ASSUME Relink PROVE ShadowsOwn'
    <2>1. /\ fdes' = fdes /\ ino' = ino /\ homeostatic' = homeostatic /\ fshadow' = fshadow
          /\ call' = call
      BY <1>14 DEF Relink, ftab
    <2>2. Burying' = Burying /\ Closing' = Closing
      BY <2>1 DEF Burying, Closing
    <2>3. \A k \in Index : homeostatic[k] > 0 \/ k \in Burying => k \notin Closing
      BY <1>0 DEF ShadowsOwn
    <2>4. \A k \in Index : Exists(k)' => Exists(k) /\ disk'[k] = disk[k]
      <3>1. run # NoRun /\ run.slot \in Index
        BY <1>0, <1>14 DEF Relink, NoRun, TypeOK
      <3>2. homeostatic[run.slot] > 0
        BY <1>0, <3>1 DEF RunOwn
      <3>3. fname[run.slot] \in Files
        BY <1>0, <3>1, <3>2 DEF SlotOK
      <3>4. disk' = Link(fshadow[run.slot], fname[run.slot])
        BY <1>14 DEF Relink
      <3> QED
        BY <1>0, <3>3, <3>4, Constants DEF Link, Exists, TypeOK
    <2> QED
      BY <1>0, <2>1, <2>2, <2>3, <2>4, SameShadows
  <1>15. ASSUME RelinkShadow PROVE ShadowsOwn'
    <2>0. PICK i \in Index : i = run.slot /\ homeostatic[i] > 0 /\ i \notin Burying
      BY <1>0, <1>15 DEF RelinkShadow, NoRun, TypeOK, RunOwn
    <2>1. /\ fdes' = fdes /\ ino' = ino /\ homeostatic' = homeostatic /\ fshadow' = fshadow
          /\ call' = call /\ disk' = Link(fname[i], fshadow[i])
      BY <1>15, <2>0 DEF RelinkShadow, ftab
    <2>2. Burying' = Burying /\ Closing' = Closing
      BY <2>1 DEF Burying, Closing
    <2>3. /\ fshadow[i] = i /\ i \notin Closing /\ fdes[i] # Free
          /\ fname[i] \in Files /\ fdes[i] \in AllDescriptors
      BY <1>0, <2>0 DEF ShadowsOwn, SlotOK, TypeOK
    <2>4. Uses(fname[i], fdes[i])
      BY <2>3 DEF Uses
    <2>5. Exists(i)' => disk'[i] = ino[fdes[i]]
      <3>1. CASE CanLink(fname[i], i)
        <4>1. disk' = [disk EXCEPT ![i] = disk[fname[i]]] /\ Exists(fname[i])
          BY <2>1, <2>3, <3>1 DEF Link, CanLink
        <4> QED
          BY <1>0, <2>3, <2>4, <4>1, Constants DEF FilesOwn, TypeOK
      <3>2. CASE ~CanLink(fname[i], i)
        <4>1. disk' = disk
          BY <2>1, <2>3, <3>2 DEF Link
        <4> QED
          BY <1>0, <4>1 DEF ShadowsOwn, Exists
      <3> QED
        BY <3>1, <3>2
    <2>6. \A k \in Index \ {i} : disk'[k] = disk[k] /\ (Exists(k)' <=> Exists(k))
      BY <1>0, <2>1, <2>3, Constants DEF Link, Exists, TypeOK
    <2> QED
      BY <1>0, <2>0, <2>1, <2>2, <2>3, <2>5, <2>6 DEF ShadowsOwn
  <1>16. ASSUME NEW f \in Files, Lose(f) PROVE ShadowsOwn'
    <2>1. /\ fdes' = fdes /\ ino' = ino /\ homeostatic' = homeostatic /\ fshadow' = fshadow
          /\ call' = call
      BY <1>16 DEF Lose, ftab
    <2>2. Burying' = Burying /\ Closing' = Closing
      BY <2>1 DEF Burying, Closing
    <2>3. \A k \in Index : homeostatic[k] > 0 \/ k \in Burying => k \notin Closing
      BY <1>0 DEF ShadowsOwn
    <2>4. \A k \in Index : Exists(k)' => Exists(k) /\ disk'[k] = disk[k]
      BY <1>0, <1>16, Constants DEF Lose, Exists, TypeOK
    <2> QED
      BY <1>0, <2>1, <2>2, <2>3, <2>4, SameShadows
  <1>17. ASSUME NEW i \in Index, LoseShadow(i) PROVE ShadowsOwn'
    BY <1>0, <1>17 DEF LoseShadow, Note, Excused
  <1>18. ASSUME NEW f \in Files, Make(f) PROVE ShadowsOwn'
    <2>1. /\ fdes' = fdes /\ ino' = ino /\ homeostatic' = homeostatic /\ fshadow' = fshadow
          /\ call' = call
      BY <1>18 DEF Make, ftab
    <2>2. Burying' = Burying /\ Closing' = Closing
      BY <2>1 DEF Burying, Closing
    <2>3. \A k \in Index : homeostatic[k] > 0 \/ k \in Burying => k \notin Closing
      BY <1>0 DEF ShadowsOwn
    <2>4. \A k \in Index : Exists(k)' => Exists(k) /\ disk'[k] = disk[k]
      BY <1>0, <1>18, Constants DEF Make, Exists, TypeOK
    <2> QED
      BY <1>0, <2>1, <2>2, <2>3, <2>4, SameShadows
  <1>19. ASSUME UNCHANGED vars PROVE ShadowsOwn'
    <2>1. /\ fdes' = fdes /\ ino' = ino /\ homeostatic' = homeostatic /\ fshadow' = fshadow
          /\ call' = call
      BY <1>19 DEF vars, ftab
    <2>2. Burying' = Burying /\ Closing' = Closing
      BY <2>1 DEF Burying, Closing
    <2>3. \A k \in Index : homeostatic[k] > 0 \/ k \in Burying => k \notin Closing
      BY <1>0 DEF ShadowsOwn
    <2>4. \A k \in Index : Exists(k)' => Exists(k) /\ disk'[k] = disk[k]
      BY <1>19 DEF vars, Exists
    <2> QED
      BY <1>0, <2>1, <2>2, <2>3, <2>4, SameShadows
  <1> QED
    BY <1>1, <1>2, <1>3, <1>4, <1>5, <1>6, <1>7, <1>8, <1>9, <1>10, <1>11, <1>12, <1>13, <1>14,
       <1>15, <1>16, <1>17, <1>18, <1>19 DEF Next, Continue, Stopped

-----------------------------------------------------------------------------
(* The invariant, and the properties. *)

LEMMA InitOwn == Init => Own
  <1> SUFFICES ASSUME Init PROVE TimersOwn /\ ShadowsOwn /\ FilesOwn /\ RunOwn
    BY DEF Own
  <1>1. TimersOwn /\ RunOwn
    BY DEF Init, TimersOwn, RunOwn
  <1>2. \A i \in Index : ~Exists(i) /\ i \notin Burying /\ homeostatic[i] = 0
    BY Constants DEF Init, Exists, Burying, Idle
  <1>3. ShadowsOwn
    BY <1>2 DEF ShadowsOwn
  <1>4. \A f \in Files, d \in AllDescriptors : ~Uses(f, d)
    BY Constants DEF Init, Uses, Idle
  <1> QED
    BY <1>1, <1>3, <1>4 DEF FilesOwn

LEMMA InitIInv == Init => IInv
  BY InitType, InitCall, InitTable, InitBury, InitServed, InitOwn DEF IInv

LEMMA StepIInv == IInv /\ [Next]_vars => IInv'
  <1> SUFFICES ASSUME IInv, [Next]_vars PROVE IInv'
    OBVIOUS
  <1>1. TypeOK' /\ CallOK' /\ SlotOK'
    BY TypeStep, CallStep, SlotStep DEF IInv
  <1>5. BuryOK'
    BY BuryStep DEF IInv
  <1>2. Table'
    BY HoldersStep DEF IInv, Table
  <1>3. "doubled" \notin past' => Served'
    BY ServedStep DEF IInv
  <1>4. Own'
    <2> SUFFICES ASSUME past' \subseteq Excused
                 PROVE  TimersOwn' /\ ShadowsOwn' /\ FilesOwn' /\ RunOwn'
      BY DEF Own
    <2>1. past \subseteq Excused /\ {"overlapped", "doubled"} \cap past' = {}
          /\ {"overlapped", "doubled"} \cap past = {}
      BY PastGrows DEF Excused
    <2>2. Before
      BY <2>1 DEF IInv, Table, Own, Before
    <2>3. After
      BY <1>1, <1>2, <2>1 DEF Table, After
    <2> QED
      BY <2>2, <2>3, TimersStep, ShadowsStep, FilesStep, RunStep
  <1> QED
    BY <1>1, <1>2, <1>3, <1>4, <1>5 DEF IInv

(* The invariant holds in every state of the file table. *)
THEOREM Invariant == Spec => []IInv
  BY InitIInv, StepIInv, PTL DEF Spec

(* Every open descriptor is in exactly one slot, or with the one thread that *)
(* is about to enter it, unless two threads in pups_open were given one slot *)
(* by pups_find_free_ftab_index: however many threads open and close.        *)
THEOREM DescriptorsHeld == Spec => []DescriptorsKnown
  <1>1. IInv => DescriptorsKnown
    BY HoldersKnown DEF IInv
  <1> QED
    BY <1>1, Invariant, PTL

(* The homeostat looks after every live file whose timer was not refused, as *)
(* long as no two timers came to have one name.                              *)
THEOREM LiveWatched == Spec => []LiveServed
  <1>1. IInv => LiveServed
    <2> SUFFICES ASSUME IInv, "doubled" \notin past, NEW i \in Index,
                        homeostatic[i] > 1, i \notin refused
                 PROVE  \E j \in TimerIndex : vttab[j] = [name |-> hname[i], slot |-> i]
      BY DEF LiveServed
    <2>1. Served /\ homeostatic[i] > 0 /\ homeostatic[i] \in Nat
      BY DEF IInv, TypeOK
    <2>2. i \notin Burying
      BY <2>1, BuryingIs DEF IInv, BuryOK
    <2> QED
      BY <2>1, <2>2 DEF Served
  <1> QED
    BY <1>1, Invariant, PTL

(* What the homeostat puts back under the name of a live file is the file    *)
(* that is open.                                                             *)
THEOREM Restored == Spec => RestoresOwn
  <1>1. ASSUME IInv, Relink, run' # run, past \subseteq Excused
        PROVE  disk'[fname[run.slot]] = ino[fdes[run.slot]]
    <2> DEFINE i == run.slot
    <2>1. TypeOK /\ SlotOK /\ TimersOwn /\ ShadowsOwn /\ RunOwn
      BY <1>1 DEF IInv, Own
    <2>2. run # NoRun /\ i \in Index
      BY <1>1, <2>1 DEF Relink, NoRun, TypeOK
    <2>3. homeostatic[i] > 0 /\ fshadow[i] = i /\ fname[i] \in Files
      BY <2>1, <2>2 DEF RunOwn, ShadowsOwn, SlotOK
    <2>4. CanLink(i, fname[i]) /\ disk' = Link(i, fname[i])
      BY <1>1, <2>3 DEF Relink
    <2>5. disk[i] = ino[fdes[i]]
      BY <2>1, <2>2, <2>4 DEF CanLink, ShadowsOwn
    <2>6. disk' = [disk EXCEPT ![fname[i]] = disk[i]]
      BY <2>4 DEF Link
    <2> QED
      BY <2>1, <2>3, <2>5, <2>6, Constants DEF TypeOK
  <1>2. IInv /\ [Next]_vars =>
            [Relink /\ run' # run /\ past \subseteq {"bare", "refused"}
                => disk'[fname[run.slot]] = ino[fdes[run.slot]]]_vars
    BY <1>1 DEF Excused
  <1> QED
    BY <1>2, Invariant, PTL DEF Spec, RestoresOwn

===============================================================================
