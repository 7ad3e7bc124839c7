--------------------------- MODULE ChildTableProofs ---------------------------
(* Theorems about ChildTable, for any finite set of pids, any size of the    *)
(* table and any number of forks.                                            *)
EXTENDS ChildTable, FiniteSetTheorems, WellFoundedInduction, TLAPS

(* Between fork(2) and the entry, the slot that pups_fork has found stays    *)
(* free; at any other time there is no new child.                            *)
ForkOK ==
    /\ at # "forked" => new = NoChild
    /\ at = "forked" => new.pid \in Pids /\ new.slot \in Index /\ chtab[new.slot] = NoPid

(* Only the chtab command changes the size. *)
SizeKept == ~resized => size = MAX_CHILDREN

IInv == TypeOK /\ ForkOK /\ SizeKept /\ SlotsAccounted /\ ChildrenKnown

-----------------------------------------------------------------------------
(* Minima, maxima and cardinalities. *)

LEMMA MinOf ==
    ASSUME NEW S, S \subseteq Nat, S # {}
    PROVE  Min(S) \in S /\ \A y \in S : Min(S) <= y
  <1>1. PICK x \in S : \A y \in S : <<y, x>> \notin OpToRel(<, Nat)
    BY NatLessThanWellFounded, WFMin, Zenon
  <1>2. \A y \in S : x <= y
    <2> SUFFICES ASSUME NEW y \in S PROVE x <= y
      OBVIOUS
    <2>1. ~(y < x)
      BY <1>1 DEF OpToRel
    <2> QED
      BY <2>1
  <1> QED
    BY <1>2 DEF Min

LEMMA MaxOf ==
    ASSUME NEW n \in Nat, NEW S, S \subseteq 0..n, S # {}
    PROVE  Max(S) \in S /\ \A y \in S : Max(S) >= y
  <1> DEFINE T == {k \in 0..n : n - k \in S}
  <1>1. PICK s \in S : TRUE
    OBVIOUS
  <1>2. n - s \in T
    BY <1>1
  <1>3. Min(T) \in T /\ \A y \in T : Min(T) <= y
    <2>1. T \subseteq Nat /\ T # {}
      BY <1>2
    <2> HIDE DEF T
    <2> QED
      BY <2>1, MinOf
  <1> DEFINE x == n - Min(T)
  <1>4. x \in S
    BY <1>3
  <1>5. \A y \in S : x >= y
    <2> SUFFICES ASSUME NEW y \in S PROVE x >= y
      OBVIOUS
    <2>1. n - y \in T
      OBVIOUS
    <2> QED
      BY <2>1, <1>3
  <1> HIDE DEF x
  <1> QED
    BY <1>4, <1>5 DEF Max

LEMMA FiniteParts ==
    ASSUME TypeOK
    PROVE  /\ IsFiniteSet(Index)
           /\ \A S \in SUBSET Index : IsFiniteSet(S) /\ Cardinality(S) \in Nat
           /\ \A S \in SUBSET Pids : IsFiniteSet(S) /\ Cardinality(S) \in Nat
  <1>1. IsFiniteSet(Index)
    BY FS_Interval DEF TypeOK, Index
  <1>2. IsFiniteSet(Pids)
    BY ChildTableAssumption DEF ChildTableAssumption
  <1> QED
    BY <1>1, <1>2, FS_Subset, FS_CardinalityType

(* The slots a run of chld_handler clears are as many as the children it     *)
(* finds in the table.                                                       *)
LEMMA ClearedCount ==
    ASSUME TypeOK
    PROVE  LET cleared == UNION {Slot(p) : p \in Reaped}
               found == {p \in Reaped : Slot(p) # {}}
           IN  /\ cleared \subseteq {i \in Index : chtab[i] \in Zombies}
               /\ Cardinality(cleared) = Cardinality(found)
               /\ Cardinality(cleared) \in Nat
  <1> DEFINE cleared == UNION {Slot(p) : p \in Reaped}
             found == {p \in Reaped : Slot(p) # {}}
             f == [p \in found |-> Min(Holding(p))]
  <1>1. ASSUME NEW p \in Reaped, Slot(p) # {}
        PROVE  /\ Slot(p) = {Min(Holding(p))}
               /\ Min(Holding(p)) \in Index /\ chtab[Min(Holding(p))] = p
    <2>1. Holding(p) # {} /\ Slot(p) = {Min(Holding(p))}
      BY <1>1 DEF Slot
    <2>2. Holding(p) \subseteq Nat
      BY DEF Holding, Index, TypeOK
    <2>3. Min(Holding(p)) \in Holding(p)
      BY <2>1, <2>2, MinOf
    <2> QED
      BY <2>1, <2>3 DEF Holding
  <1>2. cleared \subseteq {i \in Index : chtab[i] \in Zombies}
    BY <1>1 DEF Reaped
  <1>3. f \in [found -> cleared]
    BY <1>1
  <1>4. \A p, q \in found : f[p] = f[q] => p = q
    <2> SUFFICES ASSUME NEW p \in found, NEW q \in found, f[p] = f[q] PROVE p = q
      OBVIOUS
    <2>1. chtab[f[p]] = p /\ chtab[f[q]] = q
      BY <1>1
    <2> QED
      BY <2>1
  <1>5. \A i \in cleared : \E p \in found : f[p] = i
    BY <1>1
  <1>6. f \in Bijection(found, cleared)
    <2> HIDE DEF f, found, cleared
    <2>1. f \in Injection(found, cleared)
      BY <1>3, <1>4 DEF Injection, IsInjective
    <2>2. f \in Surjection(found, cleared)
      BY <1>3, <1>5 DEF Surjection
    <2> QED
      BY <2>1, <2>2 DEF Bijection
  <1>7. IsFiniteSet(found) /\ Cardinality(found) \in Nat
    BY FiniteParts DEF Reaped, Zombies
  <1>8. Cardinality(cleared) = Cardinality(found)
    <2> HIDE DEF f, found, cleared
    <2> QED
      BY <1>6, <1>7, FS_Bijection DEF ExistsBijection
  <1> QED
    BY <1>2, <1>7, <1>8

-----------------------------------------------------------------------------
(* The initial states, and each kind of step. *)

LEMMA InitIInv == Init => IInv
  <1> SUFFICES ASSUME Init PROVE IInv
    OBVIOUS
  <1>1. TypeOK
    <2>1. size \in Nat \ {0} /\ chtab \in [Index -> Pids \cup {NoPid, Junk}]
      BY ChildTableAssumption DEF ChildTableAssumption, Init, Index
    <2>2. new \in [pid : Pids \cup {NoPid}, slot : Nat] /\ target \in Pids \cup {NoPid}
      BY DEF Init, NoChild
    <2>3. {pending, auto, resized, unheard} \subseteq BOOLEAN
      BY Zenon DEF Init
    <2>4. {forks, missed} \subseteq Nat
      BY DEF Init
    <2> QED
      BY <2>1, <2>2, <2>3, <2>4 DEF Init, TypeOK
  <1>2. ForkOK /\ SizeKept
    BY DEF Init, ForkOK, SizeKept
  <1>3. Occupied = {} /\ Children = {}
    BY DEF Init, Occupied, Children, Index
  <1>4. Cardinality({}) = 0 /\ Children \ {new.pid} = {}
    BY <1>3, FS_EmptySet
  <1>5. SlotsAccounted
    BY <1>3, <1>4 DEF Init, SlotsAccounted, Early
  <1>6. ChildrenKnown
    BY <1>3 DEF ChildrenKnown
  <1> QED
    BY <1>1, <1>2, <1>5, <1>6 DEF IInv

LEMMA ForkStep ==
    ASSUME IInv, NEW p \in Pids, Fork(p)
    PROVE  IInv'
  <1> USE DEF IInv
  <1>1. FreeSlots \subseteq Nat /\ FreeSlots # {}
    BY DEF FreeSlots, Index, TypeOK, Fork
  <1>2. Min(FreeSlots) \in FreeSlots
    BY <1>1, MinOf
  <1>3. Min(FreeSlots) \in Index /\ chtab[Min(FreeSlots)] = NoPid
    BY <1>2 DEF FreeSlots, Occupied
  <1>4. new' = [pid |-> p, slot |-> Min(FreeSlots)] /\ Min(FreeSlots) \in Nat
    BY <1>3 DEF Fork, Index, TypeOK
  <1>5. TypeOK'
    BY <1>4 DEF TypeOK, Fork, Index
  <1>6. ForkOK' /\ SizeKept'
    BY <1>3, <1>4 DEF ForkOK, SizeKept, Fork, Index
  <1>7. Children' \ {new'.pid} = Children \ {new.pid} /\ p \in Children'
    BY <1>4, ChildTableAssumption
       DEF Children, Fork, TypeOK, ForkOK, NoChild, ChildTableAssumption
  <1>8. Occupied' = Occupied /\ Early' = 0 /\ Early = 0
    BY <1>4, <1>7 DEF Early, Occupied, Index, Fork
  <1>9. SlotsAccounted'
    BY <1>7, <1>8 DEF SlotsAccounted, Fork
  <1>10. ChildrenKnown'
    BY <1>7 DEF ChildrenKnown, Fork, Index
  <1> QED
    BY <1>5, <1>6, <1>9, <1>10

LEMMA RecordStep ==
    ASSUME IInv, Record
    PROVE  IInv'
  <1> USE DEF IInv
  <1>1. /\ new.pid \in Pids /\ new.slot \in Index /\ chtab[new.slot] = NoPid
        /\ new.pid # NoPid
    BY ChildTableAssumption DEF ForkOK, Record, ChildTableAssumption
  <1>2. TypeOK'
    BY <1>1 DEF TypeOK, Record, Index, NoChild
  <1>3. ForkOK' /\ SizeKept'
    BY DEF ForkOK, SizeKept, Record
  <1>4. /\ Occupied' = Occupied \cup {new.slot} /\ new.slot \notin Occupied
        /\ Occupied \subseteq Index
    BY <1>1 DEF Occupied, Index, Record, TypeOK
  <1>5. IsFiniteSet(Occupied) /\ Cardinality(Occupied) \in Nat
    BY <1>4, FiniteParts
  <1>6. Cardinality(Occupied') = Cardinality(Occupied) + 1
    BY <1>4, <1>5, FS_AddElement
  <1>7. Children' = Children /\ Children' \ {new'.pid} = Children /\ Early' = 0
    BY ChildTableAssumption
       DEF Children, Record, NoChild, ChildTableAssumption, Early
  <1>8. Children \subseteq Pids /\ IsFiniteSet(Children) /\ Cardinality(Children) \in Nat
    BY FiniteParts DEF Children
  <1>9. Cardinality(Children) = Cardinality(Children \ {new.pid}) + 1 - Early
    <2>1. Cardinality(Children \ {new.pid}) = IF new.pid \in Children
                                              THEN Cardinality(Children) - 1
                                              ELSE Cardinality(Children)
      BY <1>8, FS_RemoveElement, Zenon
    <2>2. Early = IF new.pid \in Children THEN 0 ELSE 1
      BY DEF Early, Record
    <2> QED
      BY <1>8, <2>1, <2>2
  <1>10. IsFiniteSet(Children \ {new.pid}) /\ Cardinality(Children \ {new.pid}) \in Nat
    BY <1>8, FiniteParts
  <1>11. SlotsAccounted'
    <2> SUFFICES ASSUME ~resized' PROVE SlotsAccounted'
      BY DEF SlotsAccounted
    <2>1. /\ n_children = Cardinality(Occupied)
          /\ Cardinality(Occupied) + Early = Cardinality(Children \ {new.pid}) + missed
      BY DEF SlotsAccounted, Record
    <2>2. n_children' = n_children + 1 /\ missed' = missed /\ missed \in Nat
      BY DEF Record, TypeOK
    <2>3. Early \in {0, 1}
      BY DEF Early
    <2>4. n_children' = Cardinality(Occupied')
      BY <2>1, <2>2, <1>5, <1>6
    <2>5. Cardinality(Occupied') + 0 = Cardinality(Children) + missed'
      BY <2>1, <2>2, <2>3, <1>5, <1>6, <1>9, <1>10
    <2> QED
      BY <2>4, <2>5, <1>7 DEF SlotsAccounted
  <1>12. ChildrenKnown'
    <2> SUFFICES ASSUME ~resized', NEW p \in Children' \ {new'.pid}
                 PROVE  \E i \in Index' : chtab'[i] = p
      BY DEF ChildrenKnown
    <2>1. Index' = Index /\ chtab' = [chtab EXCEPT ![new.slot] = new.pid]
      BY DEF Record, Index
    <2>2. CASE p = new.pid
      BY <2>1, <2>2, <1>1 DEF TypeOK
    <2>3. CASE p # new.pid
      <3>1. PICK i \in Index : chtab[i] = p
        BY <2>3, <1>7 DEF ChildrenKnown, Record
      <3>2. i # new.slot
        BY <3>1, <1>1, <1>7, <1>8, ChildTableAssumption DEF ChildTableAssumption
      <3> QED
        BY <3>1, <3>2, <2>1 DEF TypeOK
    <2> QED
      BY <2>2, <2>3
  <1> QED
    BY <1>2, <1>3, <1>11, <1>12

LEMMA HandleStep ==
    ASSUME IInv, Handle
    PROVE  IInv'
  <1> USE DEF IInv
  <1> DEFINE cleared == UNION {Slot(p) : p \in Reaped}
             found == {p \in Reaped : Slot(p) # {}}
             unknown == {p \in Reaped : Slot(p) = {}}
  <1>1. /\ cleared \subseteq {i \in Index : chtab[i] \in Zombies}
        /\ Cardinality(cleared) = Cardinality(found)
        /\ Cardinality(cleared) \in Nat
    BY ClearedCount, Zenon
  <1>2. /\ chtab' = [i \in Index |-> IF i \in cleared THEN NoPid ELSE chtab[i]]
        /\ \E b \in SUBSET Beyond : n_children' = n_children - Cardinality(cleared) - Cardinality(b)
        /\ life' = [p \in Pids |-> IF p \in Reaped THEN "none" ELSE life[p]]
        /\ missed' = missed + Cardinality(unknown)
        /\ pending' = FALSE /\ unheard' = FALSE
        /\ UNCHANGED <<size, auto, at, new, target, forks, resized>>
    BY Zenon DEF Handle
  <1> HIDE DEF cleared
  <1>3. /\ Zombies \subseteq Pids /\ Children \subseteq Pids /\ Zombies \subseteq Children
        /\ Reaped = Zombies
    BY DEF Zombies, Children, Reaped
  <1>4. /\ IsFiniteSet(found) /\ Cardinality(found) \in Nat
        /\ IsFiniteSet(unknown) /\ Cardinality(unknown) \in Nat
        /\ IsFiniteSet(Zombies) /\ Cardinality(Zombies) \in Nat
        /\ IsFiniteSet(Children) /\ Cardinality(Children) \in Nat
    BY <1>3, FiniteParts
  <1>5. \A b \in SUBSET Beyond : Cardinality(b) \in Nat
    BY <1>3, FiniteParts DEF Beyond
  <1>6. n_children' \in Int
    BY <1>1, <1>2, <1>5 DEF TypeOK
  <1>7. TypeOK'
    <2>1. chtab' \in [Index' -> Pids \cup {NoPid, Junk}] /\ size' \in Nat \ {0}
      BY <1>2 DEF TypeOK, Index
    <2>2. life' \in [Pids -> {"none", "running", "zombie"}]
      BY <1>2 DEF TypeOK
    <2>3. missed' \in Nat
      BY <1>2, <1>4 DEF TypeOK
    <2>4. {pending, auto, resized, unheard}' \subseteq BOOLEAN
      BY <1>2 DEF TypeOK
    <2> QED
      BY <1>2, <1>6, <2>1, <2>2, <2>3, <2>4 DEF TypeOK
  <1>8. Index' = Index /\ SizeKept'
    BY <1>2 DEF Index, SizeKept
  <1>9. ForkOK'
    BY <1>1, <1>2, <1>8 DEF ForkOK
  <1>10. Children' = Children \ Zombies
    BY <1>2, <1>3 DEF Children
  <1>11. Occupied' = Occupied \ cleared /\ cleared \subseteq Occupied
    BY <1>1, <1>2, <1>3, <1>8, ChildTableAssumption
       DEF Occupied, ChildTableAssumption
  <1>12. ASSUME ~resized
         PROVE  unknown \subseteq {new.pid} /\ Beyond = {}
    <2>1. size = MAX_CHILDREN /\ MAX_CHILDREN \in Nat
      BY <1>12, ChildTableAssumption DEF SizeKept, ChildTableAssumption
    <2>2. Beyond = {}
      BY <2>1 DEF Beyond
    <2>3. ASSUME NEW p \in unknown, p # new.pid PROVE FALSE
      <3>1. PICK i \in Index : chtab[i] = p
        BY <2>3, <1>3, <1>12 DEF ChildrenKnown
      <3>2. i \in Holding(p)
        BY <2>1, <3>1 DEF Holding, Index
      <3> QED
        BY <2>3, <3>2 DEF Slot
    <2> QED
      BY <2>2, <2>3
  <1>13. SlotsAccounted'
    <2> SUFFICES ASSUME ~resized' PROVE SlotsAccounted'
      BY DEF SlotsAccounted
    <2>0. ~resized
      BY <1>2
    <2>1. /\ n_children = Cardinality(Occupied)
          /\ Cardinality(Occupied) + Early = Cardinality(Children \ {new.pid}) + missed
      BY <2>0 DEF SlotsAccounted
    <2>2. n_children' = n_children - Cardinality(cleared)
      <3>1. PICK b \in SUBSET Beyond : n_children' = n_children - Cardinality(cleared) - Cardinality(b)
        BY <1>2
      <3>2. Cardinality(b) = 0
        BY <3>1, <2>0, <1>12, FS_EmptySet
      <3> QED
        BY <3>1, <3>2, <1>1 DEF TypeOK
    <2>3. IsFiniteSet(Occupied) /\ Cardinality(Occupied) \in Nat
      BY FiniteParts DEF Occupied
    <2>4. Cardinality(Occupied') = Cardinality(Occupied) - Cardinality(cleared)
      <3>1. Occupied \cap cleared = cleared
        BY <1>11
      <3>2. Cardinality(Occupied \ cleared) = Cardinality(Occupied) - Cardinality(Occupied \cap cleared)
        BY <2>3, FS_Difference, Zenon
      <3> QED
        BY <3>1, <3>2, <1>11
    <2> DEFINE rest == Children \ {new.pid}
               dead == Zombies \ {new.pid}
    <2>5. /\ IsFiniteSet(rest) /\ Cardinality(rest) \in Nat
          /\ IsFiniteSet(dead) /\ Cardinality(dead) \in Nat
      BY <1>3, FiniteParts
    <2>6. Cardinality(Children' \ {new'.pid}) = Cardinality(rest) - Cardinality(dead)
      <3>1. Children' \ {new'.pid} = rest \ dead /\ rest \cap dead = dead
        BY <1>2, <1>3, <1>10
      <3> HIDE DEF rest, dead
      <3> QED
        BY <3>1, <2>5, FS_Difference
    <2>7. Cardinality(Zombies) = Cardinality(found) + Cardinality(unknown)
      <3>1. Zombies = found \cup unknown /\ found \cap unknown = {}
        BY <1>3
      <3>2. Cardinality(found \cap unknown) = 0
        BY <3>1, FS_EmptySet
      <3> HIDE DEF found, unknown
      <3>3. Cardinality(found \cup unknown)
                = Cardinality(found) + Cardinality(unknown) - Cardinality(found \cap unknown)
        BY <1>4, FS_Union, Zenon
      <3> QED
        BY <3>1, <3>2, <3>3, <1>4
    <2>8. Cardinality(Zombies) = Cardinality(dead) + (IF new.pid \in Zombies THEN 1 ELSE 0)
      <3>1. Cardinality(dead) = IF new.pid \in Zombies THEN Cardinality(Zombies) - 1
                                ELSE Cardinality(Zombies)
        BY <1>4, FS_RemoveElement, Zenon
      <3> QED
        BY <3>1, <1>4
    <2>9. Early' = Early + (IF new.pid \in Zombies THEN 1 ELSE 0)
      <3>1. CASE at = "forked"
        BY <3>1, <1>2, <1>3, <1>10 DEF Early
      <3>2. CASE at # "forked"
        <4>1. new.pid \notin Pids
          BY <3>2, ChildTableAssumption DEF ForkOK, NoChild, ChildTableAssumption
        <4> QED
          BY <3>2, <4>1, <1>2, <1>3 DEF Early
      <3> QED
        BY <3>1, <3>2
    <2>10. /\ Early \in {0, 1} /\ missed \in Nat
           /\ missed' = missed + Cardinality(unknown)
      BY <1>2 DEF Early, TypeOK
    <2> DEFINE z == IF new.pid \in Zombies THEN 1 ELSE 0
    <2>11. z \in {0, 1}
      OBVIOUS
    <2>12. Cardinality(Occupied') + Early' = Cardinality(Children' \ {new'.pid}) + missed'
      <3> HIDE DEF z, rest, dead, found, unknown
      <3>1. Cardinality(Zombies) = Cardinality(dead) + z
        BY <2>8 DEF z
      <3>2. Early' = Early + z
        BY <2>9 DEF z
      <3>3. Cardinality(Occupied) + Early = Cardinality(rest) + missed
        BY <2>1 DEF rest
      <3> QED
        BY <3>1, <3>2, <3>3, <2>3, <2>4, <2>5, <2>6, <2>7, <2>10, <2>11, <1>1, <1>4
    <2> QED
      BY <2>1, <2>2, <2>4, <2>12 DEF SlotsAccounted
  <1>14. ChildrenKnown'
    <2> SUFFICES ASSUME ~resized', NEW p \in Children' \ {new'.pid}
                 PROVE  \E i \in Index' : chtab'[i] = p
      BY DEF ChildrenKnown
    <2>1. PICK i \in Index : chtab[i] = p
      BY <1>2, <1>10 DEF ChildrenKnown
    <2>2. i \notin cleared
      BY <2>1, <1>1, <1>10
    <2> QED
      BY <2>1, <2>2, <1>2, <1>8
  <1> QED
    BY <1>7, <1>8, <1>9, <1>13, <1>14

LEMMA WaitReapsStep ==
    ASSUME IInv, NEW p \in Pids, WaitReaps(p)
    PROVE  IInv'
  <1> USE DEF IInv
  <1>1. TypeOK' /\ ForkOK' /\ SizeKept'
    BY ChildTableAssumption
       DEF TypeOK, ForkOK, SizeKept, WaitReaps, EndWait, Index, ChildTableAssumption
  <1>2. /\ Occupied' = Occupied /\ Early = 0 /\ Early' = 0 /\ Index' = Index
        /\ new' = new /\ chtab' = chtab
    BY DEF Occupied, Index, Early, WaitReaps, EndWait
  <1>3. new.pid \notin Pids
    BY ChildTableAssumption DEF ForkOK, WaitReaps, NoChild, ChildTableAssumption
  <1>4. p \in Children /\ Children' = Children \ {p} /\ Children \subseteq Pids
    BY DEF Children, Zombies, WaitReaps, TypeOK
  <1>5. Children \ {new.pid} = Children /\ Children' \ {new'.pid} = Children \ {p}
    BY <1>2, <1>3, <1>4
  <1>6. Cardinality(Children \ {p}) = Cardinality(Children) - 1 /\ Cardinality(Children) \in Nat
    BY <1>4, FiniteParts, FS_RemoveElement
  <1>7. SlotsAccounted'
    <2> SUFFICES ASSUME ~resized' PROVE SlotsAccounted'
      BY DEF SlotsAccounted
    <2>1. /\ n_children = Cardinality(Occupied)
          /\ Cardinality(Occupied) + 0 = Cardinality(Children) + missed
      BY <1>2, <1>5 DEF SlotsAccounted, WaitReaps, EndWait
    <2>2. n_children' = n_children /\ missed' = missed + 1 /\ missed \in Nat
      BY DEF WaitReaps, EndWait, TypeOK
    <2>3. Cardinality(Occupied) + 0 = Cardinality(Children \ {p}) + missed'
      BY <2>1, <2>2, <1>6
    <2> QED
      BY <2>1, <2>2, <2>3, <1>2, <1>5 DEF SlotsAccounted
  <1>8. ChildrenKnown'
    BY <1>2, <1>4 DEF ChildrenKnown, WaitReaps, EndWait
  <1> QED
    BY <1>1, <1>7, <1>8

(* The chtab command: all that remains is the type of the table. *)
LEMMA ShrinkStep ==
    ASSUME IInv, Shrink
    PROVE  IInv'
  <1> USE DEF IInv
  <1>1. size - 1 \in Nat /\ InUse \subseteq 0..(size - 1) /\ InUse # {}
    BY DEF TypeOK, InUse, Occupied, Index, Shrink
  <1>2. Max(InUse) \in InUse
    BY <1>1, MaxOf
  <1>3. Max(InUse) \in Nat /\ Max(InUse) \in 0..(size - 1)
    <2>1. \A i \in InUse : i \in Nat /\ i \in 0..(size - 1)
      BY <1>1 DEF TypeOK
    <2> QED
      BY <2>1, <1>2, Zenon
  <1>4. size' = Max(InUse) + 1 /\ Index' = 0..Max(InUse) /\ Index' \subseteq Index
    BY <1>1, <1>3 DEF Shrink, ShrinkSize, Index, TypeOK
  <1>5. chtab' \in [Index' -> Pids \cup {NoPid, Junk}]
    BY <1>3, <1>4 DEF Shrink, TypeOK
  <1>6. TypeOK'
    BY <1>3, <1>4, <1>5 DEF TypeOK, Shrink
  <1> QED
    BY <1>6 DEF Shrink, ForkOK, SizeKept, SlotsAccounted, ChildrenKnown

LEMMA GrowStep ==
    ASSUME IInv, NEW m \in Sizes, Grow(m)
    PROVE  IInv'
  <1> USE DEF IInv
  <1>1. m \in Nat \ {0} /\ size' = m /\ m >= size
    BY ChildTableAssumption DEF ChildTableAssumption, Grow
  <1>2. PICK junk \in [size..(m - 1) -> Pids \cup {NoPid, Junk}] :
            chtab' = [i \in 0..(m - 1) |-> IF i >= size THEN junk[i]
                                           ELSE IF i >= MaxFiles THEN NoPid
                                           ELSE chtab[i]]
    BY DEF Grow
  <1>3. chtab' \in [Index' -> Pids \cup {NoPid, Junk}]
    BY <1>1, <1>2 DEF TypeOK, Index
  <1>4. TypeOK'
    BY <1>1, <1>3 DEF TypeOK, Grow
  <1> QED
    BY <1>4 DEF Grow, ForkOK, SizeKept, SlotsAccounted, ChildrenKnown

(* Steps that leave the table, the new child and the set of children alone. *)
LEMMA QuietStep ==
    ASSUME IInv, TypeOK', Children' = Children,
           (at' = at \/ (at # "forked" /\ at' # "forked")),
           UNCHANGED <<size, chtab, n_children, new, missed, resized>>
    PROVE  IInv'
  <1> USE DEF IInv
  <1>1. Index' = Index /\ Occupied' = Occupied /\ Early' = Early
    BY DEF Index, Occupied, Early
  <1>2. ForkOK' /\ SizeKept'
    BY <1>1 DEF ForkOK, SizeKept
  <1>3. SlotsAccounted'
    BY <1>1 DEF SlotsAccounted
  <1>4. ChildrenKnown'
    BY <1>1 DEF ChildrenKnown
  <1> QED
    BY <1>2, <1>3, <1>4

LEMMA NextIInv == IInv /\ [Next]_vars => IInv'
  <1> SUFFICES ASSUME IInv, [Next]_vars PROVE IInv'
    OBVIOUS
  <1>0. TypeOK
    BY DEF IInv
  <1>1. ASSUME NEW p \in Pids, Exit(p) PROVE IInv'
    <2>1. TypeOK'
      BY <1>0, <1>1 DEF TypeOK, Exit, Index
    <2>2. Children' = Children
      BY <1>0, <1>1 DEF Children, Exit, TypeOK
    <2> QED
      BY <1>1, <2>1, <2>2, QuietStep DEF Exit
  <1>2. CASE ForkFails
    <2>1. TypeOK' /\ Children' = Children
      BY <1>0, <1>2 DEF TypeOK, ForkFails, Index, Children
    <2> QED
      BY <1>2, <2>1, QuietStep DEF ForkFails
  <1>3. ASSUME NEW t \in Pids \cup {NoPid}, Wait(t) PROVE IInv'
    <2>1. TypeOK' /\ Children' = Children
      BY <1>0, <1>3 DEF TypeOK, Wait, Index, Children
    <2> QED
      BY <1>3, <2>1, QuietStep DEF Wait
  <1>4. CASE WaitFails
    <2>1. TypeOK' /\ Children' = Children
      BY <1>0, <1>4 DEF TypeOK, WaitFails, EndWait, Index, Children
    <2> QED
      BY <1>4, <2>1, QuietStep DEF WaitFails, EndWait
  <1>5. CASE UNCHANGED vars
    <2>1. TypeOK' /\ Children' = Children
      BY <1>0, <1>5 DEF TypeOK, vars, Index, Children
    <2> QED
      BY <1>5, <2>1, QuietStep DEF vars
  <1> QED
    BY <1>1, <1>2, <1>3, <1>4, <1>5, ForkStep, RecordStep, HandleStep, WaitReapsStep,
       ShrinkStep, GrowStep DEF Next, Gone

-----------------------------------------------------------------------------

(* The inductive invariant holds throughout. *)
THEOREM Invariant == Spec => []IInv
  BY InitIInv, NextIInv, PTL DEF Spec

(* Every variable keeps its type, whatever is forked, waited for or resized. *)
THEOREM TypeCorrect == Spec => []TypeOK
  <1>1. IInv => TypeOK
    BY DEF IInv
  <1> QED
    BY <1>1, Invariant, PTL

(* Until the table is resized, n_children counts the slots in use, and each  *)
(* slot in use is that of a child or was lost to a reap pups_fork or the     *)
(* handler did not see.                                                      *)
THEOREM Accounted == Spec => []SlotsAccounted
  <1>1. IInv => SlotsAccounted
    BY DEF IInv
  <1> QED
    BY <1>1, Invariant, PTL

(* Until the table is resized, chtab names every child pups_fork returned.   *)
THEOREM Known == Spec => []ChildrenKnown
  <1>1. IInv => ChildrenKnown
    BY DEF IInv
  <1> QED
    BY <1>1, Invariant, PTL

===============================================================================
