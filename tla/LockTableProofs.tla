---------------------------- MODULE LockTableProofs ---------------------------
(* Theorems about LockTable, for any files, any number of slots and calls.   *)
EXTENDS LockTable, FiniteSetTheorems, SequenceTheorems, WellFoundedInduction, TLAPS

Types ==
    /\ name \in [Index -> Files \cup {NotSet}]
    /\ cnt \in [Index -> Nat]

(* As long as the latest call is released first the table is a stack: the    *)
(* occupied slots come first, in the order of the first calls for the files  *)
(* in them, every call is for a linked file, and its slot counts it.         *)
InOrder ==
    /\ \A i, j \in Index : i < j /\ j \in Occupied => i \in Occupied
    /\ \A k \in DOMAIN calls : calls[k] \in links
    /\ \A i \in Occupied, f \in Files : name[i] = f => cnt[i] = Outstanding(f)
    /\ \A i, j \in Occupied, f, g \in Files : i < j /\ name[i] = f /\ name[j] = g =>
          \A k \in CallsOf(g) : \E l \in CallsOf(f) : l < k

IInv ==
    /\ TypeOK /\ TableSound /\ Len(calls) <= MaxCalls
    /\ lifo => InOrder

-----------------------------------------------------------------------------
(* Numbers, sets and sequences. *)

LEMMA MinOf ==
    ASSUME NEW S, S \subseteq Nat, S # {}
    PROVE  Min(S) \in S /\ \A y \in S : Min(S) <= y
  <1>1. PICK x \in S : \A y \in S : <<y, x>> \notin OpToRel(<, Nat)
    BY NatLessThanWellFounded, WFMin, Zenon
  <1>2. \A y \in S : x <= y
    <2> SUFFICES ASSUME NEW y \in S PROVE x <= y
      OBVIOUS
    <2>1. ~(y < x)
      BY <1>1 DEF OpToRel
    <2> QED
      BY <2>1
  <1> QED
    BY <1>2 DEF Min

LEMMA MaxOf ==
    ASSUME NEW n \in Nat, NEW S, S \subseteq 1..n, S # {}
    PROVE  Max(S) \in S /\ \A y \in S : y <= Max(S)
  <1> DEFINE R == {n - x : x \in S}
  <1>0. \A x \in S : x \in Nat /\ n - x \in Nat
    OBVIOUS
  <1>1. R \subseteq Nat /\ R # {}
    BY <1>0
  <1>2. PICK m \in R : \A y \in R : m <= y
    <2> HIDE DEF R
    <2> QED
      BY <1>1, MinOf
  <1>3. PICK x \in S : m = n - x
    BY <1>2
  <1>4. \A y \in S : y <= x
    <2> SUFFICES ASSUME NEW y \in S PROVE y <= x
      OBVIOUS
    <2>1. n - x <= n - y
      BY <1>2, <1>3
    <2> QED
      BY <1>0, <2>1
  <1> QED
    BY <1>4 DEF Max

(* A call taken out of the sequence of calls. *)
LEMMA Removed ==
    ASSUME NEW S, NEW s \in Seq(S), NEW i \in 1..Len(s)
    PROVE  /\ RemoveAt(s, i) \in Seq(S) /\ Len(RemoveAt(s, i)) = Len(s) - 1
           /\ i = Len(s) => \A k \in 1..(Len(s) - 1) : RemoveAt(s, i)[k] = s[k]
  <1> DEFINE a == SubSeq(s, 1, i - 1)
             b == SubSeq(s, i + 1, Len(s))
  <1>0. i \in Nat /\ Len(s) \in Nat /\ \A k \in 1..Len(s) : s[k] \in S
    OBVIOUS
  <1>1. a \in Seq(S) /\ Len(a) = i - 1 /\ \A k \in 1..(i - 1) : a[k] = s[k]
    <2>1. \A k \in 1..(i - 1) : s[k] \in S
      BY <1>0
    <2>2. /\ a \in Seq(S) /\ Len(a) = (IF 1 <= i - 1 THEN i - 1 - 1 + 1 ELSE 0)
          /\ \A k \in 1..(i - 1 - 1 + 1) : a[k] = s[1 + k - 1]
      BY <1>0, <2>1, SubSeqProperties
    <2> HIDE DEF a
    <2> QED
      BY <1>0, <2>2
  <1>2. b \in Seq(S) /\ Len(b) = Len(s) - i
    <2>1. \A k \in (i + 1)..Len(s) : s[k] \in S
      BY <1>0
    <2>2. b \in Seq(S) /\ Len(b) = (IF i + 1 <= Len(s) THEN Len(s) - (i + 1) + 1 ELSE 0)
      BY <1>0, <2>1, SubSeqProperties
    <2> HIDE DEF b
    <2> QED
      BY <1>0, <2>2
  <1>3. RemoveAt(s, i) = a \o b
    BY DEF RemoveAt
  <1> HIDE DEF a, b
  <1>4. /\ a \o b \in Seq(S) /\ Len(a \o b) = Len(a) + Len(b)
        /\ \A k \in 1..(Len(a) + Len(b)) : k <= Len(a) => (a \o b)[k] = a[k]
    BY <1>1, <1>2, ConcatProperties
  <1>5. ASSUME i = Len(s), NEW k \in 1..(Len(s) - 1) PROVE RemoveAt(s, i)[k] = s[k]
    BY <1>0, <1>1, <1>2, <1>3, <1>4, <1>5
  <1> QED
    BY <1>0, <1>1, <1>2, <1>3, <1>4, <1>5

LEMMA IndexIs == Index \subseteq Nat /\ IsFiniteSet(Index) /\ NotSet \notin Files
  BY FS_Interval, LockTableAssumption DEF LockTableAssumption, Index

(* get_lock_index finds the slot of a file that has one. *)
LEMMA IndexOfNamed ==
    ASSUME NEW f, NEW j \in Index, name[j] = f
    PROVE  LockIndex(f) \in Index /\ name[LockIndex(f)] = f
  <1> DEFINE S == {i \in Index : name[i] = f}
  <1>1. S \subseteq Nat /\ S # {}
    BY LockTableAssumption DEF Index, LockTableAssumption
  <1>2. Min(S) \in S
    <2> HIDE DEF S
    <2> QED
      BY <1>1, MinOf
  <1>3. LockIndex(f) = Min(S)
    BY DEF LockIndex
  <1> QED
    BY <1>2, <1>3

-----------------------------------------------------------------------------
(* The sum of the counts. *)

LEMMA UnitsFinite == IsFiniteSet(Units) /\ Cardinality(Units) \in Nat
  <1>1. IsFiniteSet(1..MaxCalls)
    BY FS_Interval, LockTableAssumption DEF LockTableAssumption
  <1>2. IsFiniteSet(Index \X (1..MaxCalls))
    BY <1>1, IndexIs, FS_Product
  <1>3. Units \subseteq Index \X (1..MaxCalls)
    BY DEF Units
  <1>4. IsFiniteSet(Units)
    BY <1>2, <1>3, FS_Subset
  <1> QED
    BY <1>4, FS_CardinalityType

(* No count is more than all of them together. *)
LEMMA OneCount ==
    ASSUME TypeOK, NEW i \in Index
    PROVE  cnt[i] <= Cardinality(Units)
  <1>0. cnt[i] \in 0..MaxCalls /\ MaxCalls \in Nat /\ cnt[i] \in Nat
    BY LockTableAssumption DEF TypeOK, LockTableAssumption
  <1> DEFINE c == cnt[i]
             R == 1..c
             T == {i} \X R
  <1>1. IsFiniteSet(R) /\ Cardinality(R) = c
    <2>1. c \in Nat
      BY <1>0
    <2> HIDE DEF c
    <2>2. IsFiniteSet(R) /\ Cardinality(R) = IF 1 > c THEN 0 ELSE c - 1 + 1
      BY <2>1, FS_Interval
    <2> QED
      BY <2>1, <2>2
  <1>2. IsFiniteSet({i}) /\ Cardinality({i}) = 1
    BY FS_Singleton
  <1> HIDE DEF R
  <1>3. Cardinality(T) = 1 * Cardinality(R)
    BY <1>1, <1>2, FS_Product
  <1>4. T \subseteq Units
    BY <1>0 DEF Units, R
  <1> HIDE DEF T
  <1>5. Cardinality(T) <= Cardinality(Units)
    BY <1>4, UnitsFinite, FS_Subset
  <1> QED
    BY <1>0, <1>1, <1>3, <1>5

LEMMA MoreUnits ==
    ASSUME TypeOK, NEW i \in Index, cnt[i] < MaxCalls, cnt' = [cnt EXCEPT ![i] = @ + 1]
    PROVE  Cardinality(Units') = Cardinality(Units) + 1
  <1>0. cnt \in [Index -> 0..MaxCalls] /\ MaxCalls \in Nat
    BY LockTableAssumption DEF TypeOK, LockTableAssumption
  <1> DEFINE u == <<i, cnt[i] + 1>>
  <1>1. u \notin Units
    BY <1>0 DEF Units
  <1>2. Units' = Units \cup {u}
    <2>1. u \in Units'
      BY <1>0 DEF Units, Index
    <2>2. \A k \in Index, l \in 1..MaxCalls :
              <<k, l>> \in Units' <=> <<k, l>> \in Units \/ (k = i /\ l = cnt[i] + 1)
      BY <1>0 DEF Units, Index
    <2>3. Units \subseteq Index \X (1..MaxCalls) /\ Units' \subseteq Index \X (1..MaxCalls)
      BY DEF Units, Index
    <2> QED
      BY <2>1, <2>2, <2>3
  <1> HIDE DEF u
  <1> QED
    BY <1>1, <1>2, UnitsFinite, FS_AddElement

LEMMA FewerUnits ==
    ASSUME TypeOK, NEW i \in Index, cnt[i] > 0, cnt' = [cnt EXCEPT ![i] = @ - 1]
    PROVE  Cardinality(Units') = Cardinality(Units) - 1
  <1>0. cnt \in [Index -> 0..MaxCalls] /\ MaxCalls \in Nat
    BY LockTableAssumption DEF TypeOK, LockTableAssumption
  <1> DEFINE u == <<i, cnt[i]>>
  <1>1. u \in Units
    BY <1>0 DEF Units
  <1>2. Units' = Units \ {u}
    <2>2. \A k \in Index, l \in 1..MaxCalls :
              <<k, l>> \in Units' <=> <<k, l>> \in Units /\ ~(k = i /\ l = cnt[i])
      BY <1>0 DEF Units, Index
    <2>3. Units \subseteq Index \X (1..MaxCalls) /\ Units' \subseteq Index \X (1..MaxCalls)
      BY DEF Units, Index
    <2> QED
      BY <2>2, <2>3
  <1> HIDE DEF u
  <1> QED
    BY <1>1, <1>2, UnitsFinite, FS_RemoveElement

-----------------------------------------------------------------------------
(* Types, shape and sum. *)

(* Shape is kept in whatever order calls come. *)
LEMMA GetShape ==
    ASSUME Types, TableShape, NEW f \in Files, Get(f)
    PROVE  Types' /\ TableShape'
  <1> USE DEF Types
  <1> DEFINE i == LockIndex(f)
  <1>0. /\ f # NotSet /\ Index' = Index /\ i \in Index
        /\ cnt' = [cnt EXCEPT ![i] = @ + 1]
    BY LockTableAssumption DEF LockTableAssumption, Index, Get
  <1>1. CASE cnt[i] > 0
    <2>1. name' = name /\ links' = links /\ name[i] # NotSet
      BY <1>0, <1>1 DEF Get, TableShape
    <2> HIDE DEF i
    <2>2. Types' /\ Occupied' = Occupied
      BY <1>0, <2>1 DEF Occupied
    <2>3. \A k \in Index : name'[k] = NotSet <=> cnt'[k] = 0
      BY <1>0, <1>1, <2>1 DEF TableShape
    <2> QED
      BY <1>0, <2>1, <2>2, <2>3 DEF TableShape
  <1>2. CASE ~(cnt[i] > 0)
    <2>1. /\ name' = [name EXCEPT ![i] = f] /\ links' = links \cup {f}
          /\ cnt[i] = 0 /\ name[i] = NotSet
      BY <1>0, <1>2 DEF Get, TableShape
    <2>2. \A k \in Index : name[k] # f
      <3> SUFFICES ASSUME NEW k \in Index, name[k] = f PROVE FALSE
        OBVIOUS
      <3>1. name[i] = f
        BY IndexOfNamed
      <3> QED
        BY <1>0, <2>1, <3>1
    <2> HIDE DEF i
    <2>3. Types' /\ Occupied' = Occupied \cup {i}
      BY <1>0, <2>1 DEF Occupied
    <2>4. \A k \in Index : name'[k] = NotSet <=> cnt'[k] = 0
      BY <1>0, <2>1 DEF TableShape
    <2>5. \A k, l \in Occupied' : name'[k] = name'[l] => k = l
      BY <1>0, <2>1, <2>2, <2>3 DEF TableShape, Occupied
    <2>6. links' = {name'[k] : k \in Occupied'}
      <3>1. \A k \in Occupied : name'[k] = name[k]
        BY <1>0, <2>1 DEF Occupied
      <3>2. name'[i] = f
        BY <1>0, <2>1
      <3>3. links = {name[k] : k \in Occupied}
        BY DEF TableShape
      <3> QED
        BY <2>1, <2>3, <3>1, <3>2, <3>3
    <2> QED
      BY <1>0, <2>3, <2>4, <2>5, <2>6 DEF TableShape
  <1> QED
    BY <1>1, <1>2

LEMMA ReleaseShape ==
    ASSUME Types, TableShape, NEW f \in Files, Release(f)
    PROVE  Types' /\ TableShape'
  <1> USE DEF Types
  <1> DEFINE i == LockIndex(f)
  <1>0. /\ f # NotSet /\ Index' = Index /\ i \in Index
        /\ cnt' = [cnt EXCEPT ![i] = @ - 1]
    BY LockTableAssumption DEF LockTableAssumption, Index, Release
  <1>1. name[i] = f /\ cnt[i] # 0
    <2>1. PICK k \in Occupied : name[k] = f
      BY DEF Release, TableShape
    <2>2. name[i] = f
      BY <2>1, IndexOfNamed DEF Occupied
    <2> QED
      BY <1>0, <2>2 DEF TableShape
  <1>2. CASE cnt[i] > 1
    <2>1. name' = name /\ links' = links
      BY <1>2 DEF Release
    <2> HIDE DEF i
    <2>2. Types' /\ Occupied' = Occupied
      BY <1>0, <1>1, <2>1 DEF Occupied
    <2>3. \A k \in Index : name'[k] = NotSet <=> cnt'[k] = 0
      BY <1>0, <1>1, <1>2, <2>1 DEF TableShape
    <2> QED
      BY <1>0, <2>1, <2>2, <2>3 DEF TableShape
  <1>3. CASE ~(cnt[i] > 1)
    <2>1. name' = [name EXCEPT ![i] = NotSet] /\ links' = links \ {f} /\ cnt[i] = 1
      BY <1>0, <1>1, <1>3 DEF Release, EmptySlot
    <2> HIDE DEF i
    <2>2. Types' /\ Occupied' = Occupied \ {i}
      BY <1>0, <2>1 DEF Occupied
    <2>3. \A k \in Index : name'[k] = NotSet <=> cnt'[k] = 0
      BY <1>0, <2>1 DEF TableShape
    <2>4. \A k \in Occupied \ {i} : name'[k] = name[k] /\ name[k] # f
      BY <1>0, <1>1, <2>1 DEF TableShape, Occupied
    <2>5. \A k, l \in Occupied' : name'[k] = name'[l] => k = l
      BY <2>2, <2>4 DEF TableShape
    <2>6. links' = {name'[k] : k \in Occupied'}
      BY <1>1, <2>1, <2>2, <2>4 DEF TableShape
    <2> QED
      BY <1>0, <2>2, <2>3, <2>5, <2>6 DEF TableShape
  <1> QED
    BY <1>2, <1>3

-----------------------------------------------------------------------------
(* The calls. *)

LEMMA OutstandingIs ==
    ASSUME calls \in Seq(Files), NEW f
    PROVE  /\ CallsOf(f) \subseteq 1..Len(calls) /\ IsFiniteSet(CallsOf(f))
           /\ Outstanding(f) \in Nat /\ (Outstanding(f) > 0 <=> CallsOf(f) # {})
  <1>1. CallsOf(f) \subseteq 1..Len(calls)
    BY DEF CallsOf
  <1>2. IsFiniteSet(CallsOf(f))
    BY <1>1, FS_Interval, FS_Subset
  <1>3. Outstanding(f) \in Nat /\ (Outstanding(f) = 0 <=> CallsOf(f) = {})
    BY <1>2, FS_CardinalityType, FS_EmptySet DEF Outstanding
  <1> QED
    BY <1>1, <1>2, <1>3

LEMMA CallMade ==
    ASSUME calls \in Seq(Files), NEW f \in Files, calls' = Append(calls, f)
    PROVE  /\ calls' \in Seq(Files) /\ Len(calls') = Len(calls) + 1
           /\ \A k \in 1..Len(calls) : calls'[k] = calls[k]
           /\ calls'[Len(calls) + 1] = f
           /\ CallsOf(f)' = CallsOf(f) \cup {Len(calls) + 1}
           /\ Outstanding(f)' = Outstanding(f) + 1
           /\ \A g \in Files : g # f =>
                 CallsOf(g)' = CallsOf(g) /\ Outstanding(g)' = Outstanding(g)
  <1>1. /\ calls' \in Seq(Files) /\ Len(calls') = Len(calls) + 1
        /\ \A k \in 1..Len(calls) : calls'[k] = calls[k]
        /\ calls'[Len(calls) + 1] = f
    BY AppendProperties
  <1>2. /\ DOMAIN calls = 1..Len(calls) /\ DOMAIN calls' = 1..(Len(calls) + 1)
        /\ Len(calls) \in Nat
    BY <1>1
  <1>3. CallsOf(f)' = CallsOf(f) \cup {Len(calls) + 1}
    BY <1>1, <1>2 DEF CallsOf
  <1>4. Outstanding(f)' = Outstanding(f) + 1
    <2>1. Len(calls) + 1 \notin CallsOf(f)
      BY <1>2 DEF CallsOf
    <2> QED
      BY <1>3, <2>1, OutstandingIs, FS_AddElement DEF Outstanding
  <1>5. ASSUME NEW g \in Files, g # f
        PROVE  CallsOf(g)' = CallsOf(g) /\ Outstanding(g)' = Outstanding(g)
    <2>1. CallsOf(g)' = CallsOf(g)
      BY <1>1, <1>2, <1>5 DEF CallsOf
    <2> QED
      BY <2>1 DEF Outstanding
  <1> QED
    BY <1>1, <1>3, <1>4, <1>5

(* The latest call is released. *)
LEMMA CallUndone ==
    ASSUME calls \in Seq(Files), NEW f \in Files, CallsOf(f) # {},
           calls' = WithoutLast(f)
    PROVE  /\ calls' \in Seq(Files) /\ Len(calls') = Len(calls) - 1
           /\ f = Last(calls) =>
                 /\ Len(calls) \in CallsOf(f)
                 /\ \A k \in 1..Len(calls') : calls'[k] = calls[k]
                 /\ CallsOf(f)' = CallsOf(f) \ {Len(calls)}
                 /\ Outstanding(f)' = Outstanding(f) - 1
                 /\ \A g \in Files : g # f =>
                       CallsOf(g)' = CallsOf(g) /\ Outstanding(g)' = Outstanding(g)
  <1> DEFINE m == Max(CallsOf(f))
  <1>1. m \in CallsOf(f) /\ m \in 1..Len(calls) /\ \A y \in CallsOf(f) : y <= m
    BY OutstandingIs, MaxOf
  <1>2. calls' = RemoveAt(calls, m)
    BY DEF WithoutLast
  <1> HIDE DEF m
  <1>3. /\ calls' \in Seq(Files) /\ Len(calls') = Len(calls) - 1
        /\ m = Len(calls) => \A k \in 1..(Len(calls) - 1) : calls'[k] = calls[k]
    BY <1>1, <1>2, Removed
  <1>4. ASSUME f = Last(calls)
        PROVE  /\ Len(calls) \in CallsOf(f)
               /\ \A k \in 1..Len(calls') : calls'[k] = calls[k]
               /\ CallsOf(f)' = CallsOf(f) \ {Len(calls)}
               /\ Outstanding(f)' = Outstanding(f) - 1
               /\ \A g \in Files : g # f =>
                     CallsOf(g)' = CallsOf(g) /\ Outstanding(g)' = Outstanding(g)
    <2>0. /\ DOMAIN calls = 1..Len(calls) /\ DOMAIN calls' = 1..(Len(calls) - 1)
          /\ Len(calls) \in Nat /\ Len(calls) > 0
      BY <1>1, <1>3
    <2>1. Len(calls) \in CallsOf(f)
      BY <1>4, <2>0 DEF CallsOf, Last
    <2>2. m = Len(calls)
      <3>1. Len(calls) <= m
        BY <1>1, <2>1
      <3>2. m \in Nat /\ m <= Len(calls)
        BY <1>1, <2>0
      <3>3. \A a, b \in Nat : a <= b /\ b <= a => a = b
        OBVIOUS
      <3>4. Len(calls) \in Nat
        BY <2>0
      <3> QED
        BY <3>1, <3>2, <3>3, <3>4
    <2>3. \A k \in 1..Len(calls') : calls'[k] = calls[k]
      BY <1>3, <2>2
    <2>4. calls[Len(calls)] = f
      BY <1>4 DEF Last
    <2>5. CallsOf(f)' = CallsOf(f) \ {Len(calls)}
      BY <1>3, <2>0, <2>3 DEF CallsOf
    <2>6. Outstanding(f)' = Outstanding(f) - 1
      BY <2>1, <2>5, OutstandingIs, FS_RemoveElement DEF Outstanding
    <2>7. ASSUME NEW g \in Files, g # f
          PROVE  CallsOf(g)' = CallsOf(g) /\ Outstanding(g)' = Outstanding(g)
      <3>1. CallsOf(g)' = CallsOf(g)
        BY <1>3, <2>0, <2>3, <2>4, <2>7 DEF CallsOf
      <3> QED
        BY <3>1 DEF Outstanding
    <2> QED
      BY <2>1, <2>3, <2>5, <2>6, <2>7
  <1> QED
    BY <1>3, <1>4

(* In order, the number of occupied slots is that of the first free one.     *)
LEMMA FirstFree ==
    ASSUME Types, \A i, j \in Index : i < j /\ j \in Occupied => i \in Occupied,
           Cardinality(Occupied) \in Index
    PROVE  \A k \in Index : k \in Occupied <=> k < Cardinality(Occupied)
  <1> DEFINE c == Cardinality(Occupied)
  <1>0. Occupied \subseteq Index /\ IsFiniteSet(Occupied) /\ c \in Nat
    BY IndexIs, FS_Subset DEF Occupied
  <1>1. ASSUME NEW k \in Index, k \in Occupied PROVE k < c
    <2>1. 0..k \subseteq Occupied
      BY <1>1, LockTableAssumption DEF Index, LockTableAssumption
    <2>2. Cardinality(0..k) <= c
      BY <1>0, <2>1, FS_Subset
    <2>3. k \in Nat /\ Cardinality(0..k) = IF 0 > k THEN 0 ELSE k - 0 + 1
      BY IndexIs, FS_Interval
    <2> HIDE DEF c
    <2> QED
      BY <1>0, <2>2, <2>3
  <1>2. ASSUME NEW k \in Index, k < c PROVE k \in Occupied
    <2> SUFFICES ASSUME k \notin Occupied PROVE FALSE
      OBVIOUS
    <2>0. k \in Nat /\ \A j \in Index : j \in Nat
      BY IndexIs
    <2>1. Occupied \subseteq 0..(k - 1)
      <3> SUFFICES ASSUME NEW j \in Occupied PROVE j \in 0..(k - 1)
        OBVIOUS
      <3>1. j \in Index /\ j # k /\ ~(k < j)
        BY <1>0
      <3> QED
        BY <2>0, <3>1
    <2> DEFINE R == 0..(k - 1)
    <2>2. IsFiniteSet(R) /\ Cardinality(R) = IF 0 > k - 1 THEN 0 ELSE k - 1 - 0 + 1
      BY <2>0, FS_Interval
    <2>3. Cardinality(R) = k
      BY <2>0, <2>2
    <2> HIDE DEF R
    <2>4. c <= Cardinality(R)
      BY <2>1, <2>2, FS_Subset DEF R
    <2> HIDE DEF c
    <2> QED
      BY <1>0, <1>2, <2>0, <2>3, <2>4
  <1> QED
    BY <1>1, <1>2

-----------------------------------------------------------------------------
(* The invariant. *)

LEMMA TypesOf == TypeOK => Types
  BY LockTableAssumption DEF TypeOK, Types, LockTableAssumption

LEMMA InitIInv == Init => IInv
  <1> SUFFICES ASSUME Init PROVE IInv
    OBVIOUS
  <1>1. TypeOK /\ Len(calls) = 0
    BY LockTableAssumption DEF Init, TypeOK, LockTableAssumption
  <1>2. TableShape /\ Occupied = {}
    BY DEF Init, TableShape, Occupied
  <1>3. Units = {}
    BY LockTableAssumption DEF Init, Units, LockTableAssumption
  <1>4. InOrder
    BY <1>2 DEF InOrder, Init
  <1> QED
    BY <1>1, <1>2, <1>3, <1>4, FS_EmptySet, LockTableAssumption
    DEF IInv, TableSound, LockTableAssumption

LEMMA GetStep ==
    ASSUME IInv, NEW f \in Files, Get(f)
    PROVE  IInv'
  <1> DEFINE i == LockIndex(f)
  <1>0. /\ TypeOK /\ Types /\ TableShape /\ i \in Index
        /\ cnt' = [cnt EXCEPT ![i] = @ + 1] /\ calls' = Append(calls, f) /\ lifo' = lifo
    BY TypesOf DEF IInv, TableSound, Get
  <1>t. calls \in Seq(Files) /\ Len(calls) \in Nat /\ MaxCalls \in Nat
    BY <1>0, LockTableAssumption DEF TypeOK, LockTableAssumption
  <1>1. Types' /\ TableShape'
    BY <1>0, GetShape
  <1>2. cnt[i] < MaxCalls
    <2>1. cnt[i] <= Cardinality(Units) /\ Cardinality(Units) = Len(calls)
      BY <1>0, OneCount DEF IInv, TableSound
    <2>2. Len(calls) < MaxCalls
      BY DEF Get
    <2>3. cnt[i] \in Nat
      BY <1>0 DEF Types
    <2> QED
      BY <1>t, <2>1, <2>2, <2>3
  <1>3. Cardinality(Units') = Cardinality(Units) + 1
    BY <1>0, <1>2, MoreUnits
  <1>4. /\ calls' \in Seq(Files) /\ Len(calls') = Len(calls) + 1
        /\ \A k \in 1..Len(calls) : calls'[k] = calls[k]
        /\ calls'[Len(calls) + 1] = f
        /\ CallsOf(f)' = CallsOf(f) \cup {Len(calls) + 1}
        /\ Outstanding(f)' = Outstanding(f) + 1
        /\ \A g \in Files : g # f =>
              CallsOf(g)' = CallsOf(g) /\ Outstanding(g)' = Outstanding(g)
    BY <1>0, <1>t, CallMade
  <1>5. TypeOK'
    <2>1. cnt' \in [Index -> 0..MaxCalls]
      BY <1>0, <1>2, <1>t DEF TypeOK
    <2>2. links' \subseteq Files
      BY <1>0 DEF Get, TypeOK
    <2> QED
      BY <1>0, <1>1, <1>4, <2>1, <2>2 DEF TypeOK, Types, Index
  <1>6. Len(calls') <= MaxCalls
    BY <1>4, <1>t DEF Get
  <1>7. ASSUME lifo PROVE InOrder'
    <2>0. InOrder
      BY <1>7 DEF IInv
    <2>n. \A k \in Index : k \in Nat
      BY IndexIs
    <2>f. f # NotSet /\ Index' = Index
      BY LockTableAssumption DEF LockTableAssumption, Index
    <2>o. \A k \in Occupied : k \in Index /\ name[k] \in Files /\ name[k] # NotSet
      BY <1>0 DEF Types, Occupied
    <2>1. CASE cnt[i] > 0
      <3>1. name' = name /\ links' = links /\ Occupied' = Occupied
        BY <2>1 DEF Get, Occupied, Index
      <3>2. i \in Occupied
        BY <1>0, <2>1 DEF TableShape, Occupied
      <3>3. name[i] = f
        <4> SUFFICES ASSUME name[i] # f PROVE FALSE
          OBVIOUS
        <4>1. \A k \in Index : name[k] # f
          BY IndexOfNamed
        <4>2. i = Cardinality(Occupied)
          BY <4>1 DEF LockIndex
        <4> HIDE DEF i
        <4>3. i < i
          BY <1>0, <2>0, <3>2, <4>2, FirstFree DEF InOrder
        <4> QED
          BY <1>0, <2>n, <4>3
      <3> HIDE DEF i
      <3>4. f \in links
        BY <1>0, <3>2, <3>3 DEF TableShape
      <3>5. \A k \in Index, j \in Index : k < j /\ j \in Occupied' => k \in Occupied'
        BY <2>0, <3>1 DEF InOrder
      <3>6. \A k \in DOMAIN calls' : calls'[k] \in links'
        BY <1>t, <1>4, <2>0, <3>1, <3>4 DEF InOrder
      <3>7. ASSUME NEW k \in Occupied, NEW g \in Files, name[k] = g
            PROVE  cnt'[k] = Outstanding(g)'
        <4>1. cnt[k] = Outstanding(g)
          BY <2>0, <3>7 DEF InOrder
        <4>2. CASE k = i
          BY <1>0, <1>4, <3>3, <3>7, <4>1, <4>2 DEF Types
        <4>3. CASE k # i
          <5>1. g # f
            BY <1>0, <3>2, <3>3, <3>7, <4>3 DEF TableShape
          <5> QED
            BY <1>0, <1>4, <2>o, <4>1, <4>3, <5>1 DEF Types
        <4> QED
          BY <4>2, <4>3
      <3>8. ASSUME NEW k \in Occupied, NEW j \in Occupied, k < j,
                   NEW g \in Files, NEW h \in Files, name[k] = g, name[j] = h,
                   NEW y \in CallsOf(h)'
            PROVE  \E l \in CallsOf(g)' : l < y
        <4>2. CallsOf(g) \subseteq CallsOf(g)'
          BY <1>4
        <4>3. CASE y \in CallsOf(h)
          BY <2>0, <3>8, <4>2, <4>3 DEF InOrder
        <4>4. CASE y \notin CallsOf(h)
          <5>1. y = Len(calls) + 1
            BY <1>4, <4>4
          <5>2. cnt[k] # 0 /\ cnt[k] \in Nat /\ cnt[k] = Outstanding(g)
            BY <1>0, <2>0, <2>o, <3>8 DEF TableShape, InOrder, Types
          <5>3. CallsOf(g) # {} /\ CallsOf(g) \subseteq 1..Len(calls)
            BY <1>t, <5>2, OutstandingIs
          <5>4. PICK l \in CallsOf(g) : l \in 1..Len(calls)
            BY <5>3
          <5> QED
            BY <1>t, <4>2, <5>1, <5>4
        <4> QED
          BY <4>3, <4>4
      <3> QED
        BY <2>f, <3>1, <3>5, <3>6, <3>7, <3>8 DEF InOrder
    <2>2. CASE ~(cnt[i] > 0)
      <3>1. /\ name' = [name EXCEPT ![i] = f] /\ links' = links \cup {f}
            /\ cnt[i] = 0 /\ name[i] = NotSet
        BY <1>0, <2>2 DEF Get, Types, TableShape
      <3>2. \A k \in Index : name[k] # f
        BY <2>f, <3>1, IndexOfNamed
      <3>3. i = Cardinality(Occupied)
        BY <3>2 DEF LockIndex
      <3> HIDE DEF i
      <3>4. \A k \in Index : k \in Occupied <=> k < i
        BY <1>0, <2>0, <3>3, FirstFree DEF InOrder
      <3>5. Occupied' = Occupied \cup {i} /\ i \notin Occupied
        BY <1>0, <2>f, <3>1 DEF Occupied, Types
      <3>6. CallsOf(f) = {}
        <4>1. f \notin links
          BY <1>0, <2>o, <3>2 DEF TableShape
        <4> QED
          BY <2>0, <4>1 DEF CallsOf, InOrder
      <3>7. Outstanding(f) = 0
        BY <3>6, FS_EmptySet DEF Outstanding
      <3>8. name'[i] = f /\ \A k \in Occupied : name'[k] = name[k] /\ name[k] # f /\ k # i
        BY <1>0, <2>o, <3>1, <3>2 DEF Types
      <3>9. \A k \in Index, j \in Index : k < j /\ j \in Occupied' => k \in Occupied'
        BY <1>0, <2>n, <3>4, <3>5
      <3>10. \A k \in DOMAIN calls' : calls'[k] \in links'
        BY <1>t, <1>4, <2>0, <3>1 DEF InOrder
      <3>11. ASSUME NEW k \in Occupied', NEW g \in Files, name'[k] = g
             PROVE  cnt'[k] = Outstanding(g)'
        <4>1. CASE k = i
          BY <1>0, <1>4, <3>1, <3>7, <3>8, <3>11, <4>1 DEF Types
        <4>2. CASE k # i
          <5>1. k \in Occupied /\ name[k] = g /\ g # f
            BY <3>5, <3>8, <3>11, <4>2
          <5>2. cnt[k] = Outstanding(g)
            BY <2>0, <5>1 DEF InOrder
          <5> QED
            BY <1>0, <1>4, <2>o, <4>2, <5>1, <5>2 DEF Types
        <4> QED
          BY <4>1, <4>2
      <3>12. ASSUME NEW k \in Occupied', NEW j \in Occupied', k < j,
                    NEW g \in Files, NEW h \in Files, name'[k] = g, name'[j] = h,
                    NEW y \in CallsOf(h)'
             PROVE  \E l \in CallsOf(g)' : l < y
        <4>1. k \in Occupied
          BY <1>0, <2>n, <2>o, <3>4, <3>5, <3>12
        <4>2. name[k] = g /\ CallsOf(g)' = CallsOf(g)
          BY <1>4, <3>8, <3>12, <4>1
        <4>3. CASE j = i
          <5>1. y = Len(calls) + 1
            BY <1>4, <3>6, <3>8, <3>12, <4>3
          <5>2. cnt[k] # 0 /\ cnt[k] \in Nat /\ cnt[k] = Outstanding(g)
            BY <1>0, <2>0, <2>o, <4>1, <4>2 DEF TableShape, InOrder, Types
          <5>3. CallsOf(g) # {} /\ CallsOf(g) \subseteq 1..Len(calls)
            BY <1>t, <5>2, OutstandingIs
          <5>4. PICK l \in CallsOf(g) : l \in 1..Len(calls)
            BY <5>3
          <5> QED
            BY <1>t, <4>2, <5>1, <5>4
        <4>4. CASE j # i
          <5>1. j \in Occupied /\ name[j] = h /\ h # f
            BY <3>5, <3>8, <3>12, <4>4
          <5>2. y \in CallsOf(h)
            BY <1>4, <3>12, <5>1
          <5> QED
            BY <2>0, <3>12, <4>1, <4>2, <5>1, <5>2 DEF InOrder
        <4> QED
          BY <4>3, <4>4
      <3> QED
        BY <2>f, <3>9, <3>10, <3>11, <3>12 DEF InOrder
    <2> QED
      BY <2>1, <2>2
  <1> QED
    BY <1>0, <1>1, <1>3, <1>4, <1>5, <1>6, <1>7 DEF IInv, TableSound

LEMMA ReleaseStep ==
    ASSUME IInv, NEW f \in Files, Release(f)
    PROVE  IInv'
  <1> DEFINE i == LockIndex(f)
  <1>0. /\ TypeOK /\ Types /\ TableShape /\ i \in Index
        /\ cnt' = [cnt EXCEPT ![i] = @ - 1] /\ calls' = WithoutLast(f) /\ CallsOf(f) # {}
        /\ f \in links
    BY TypesOf DEF IInv, TableSound, Release
  <1>t. calls \in Seq(Files) /\ Len(calls) \in Nat /\ MaxCalls \in Nat
    BY <1>0, LockTableAssumption DEF TypeOK, LockTableAssumption
  <1>1. Types' /\ TableShape'
    BY <1>0, ReleaseShape
  <1>2. name[i] = f /\ i \in Occupied /\ cnt[i] > 0
    <2>1. PICK k \in Occupied : name[k] = f
      BY <1>0 DEF TableShape
    <2>2. name[i] = f
      BY <2>1, IndexOfNamed DEF Occupied
    <2>3. f # NotSet
      BY <1>0, LockTableAssumption DEF LockTableAssumption
    <2> QED
      BY <1>0, <2>2, <2>3 DEF TableShape, Occupied, Types
  <1>3. Cardinality(Units') = Cardinality(Units) - 1
    BY <1>0, <1>2, FewerUnits
  <1>4. /\ calls' \in Seq(Files) /\ Len(calls') = Len(calls) - 1
        /\ f = Last(calls) =>
              /\ Len(calls) \in CallsOf(f)
              /\ \A k \in 1..Len(calls') : calls'[k] = calls[k]
              /\ CallsOf(f)' = CallsOf(f) \ {Len(calls)}
              /\ Outstanding(f)' = Outstanding(f) - 1
              /\ \A g \in Files : g # f =>
                    CallsOf(g)' = CallsOf(g) /\ Outstanding(g)' = Outstanding(g)
    BY <1>0, <1>t, CallUndone
  <1>5. TypeOK'
    <2>1. cnt' \in [Index -> 0..MaxCalls]
      BY <1>0, <1>2, <1>t DEF TypeOK
    <2>2. links' \subseteq Files /\ lifo' \in BOOLEAN
      BY <1>0 DEF Release, TypeOK
    <2> QED
      BY <1>0, <1>1, <1>4, <2>1, <2>2 DEF TypeOK, Types, Index
  <1>6. Len(calls') <= MaxCalls
    BY <1>4, <1>t DEF IInv
  <1>7. ASSUME lifo' PROVE InOrder'
    <2>0. InOrder /\ f = Last(calls)
      BY <1>7 DEF IInv, Release
    <2>n. \A k \in Index : k \in Nat
      BY IndexIs
    <2>f. f # NotSet /\ Index' = Index
      BY LockTableAssumption DEF LockTableAssumption, Index
    <2>o. \A k \in Occupied : k \in Index /\ name[k] \in Files /\ name[k] # NotSet
      BY <1>0 DEF Types, Occupied
    <2>e. \A k \in Occupied : k # i => name[k] # f
      BY <1>0, <1>2 DEF TableShape
    <2>i. cnt[i] = Outstanding(f) /\ cnt[i] \in Nat
      BY <1>0, <1>2, <2>0 DEF InOrder, Types
    <2>c. /\ DOMAIN calls' = 1..(Len(calls) - 1) /\ Len(calls) \in CallsOf(f)
          /\ \A k \in 1..(Len(calls) - 1) : calls'[k] = calls[k] /\ k \in DOMAIN calls
      BY <1>t, <1>4, <2>0
    <2>k. \A g \in Files :
              CallsOf(g)' \subseteq CallsOf(g)
              /\ \A l \in CallsOf(g) : l # Len(calls) => l \in CallsOf(g)'
      BY <1>4, <2>0
    <2>l. ASSUME NEW g \in Files, NEW h \in Files, NEW y \in CallsOf(g)',
                 \A z \in CallsOf(g) : \E l \in CallsOf(h) : l < z
          PROVE  \E l \in CallsOf(h)' : l < y
      <3>1. PICK l \in CallsOf(h) : l < y
        BY <2>k, <2>l
      <3>2. y \in 1..Len(calls) /\ l \in 1..Len(calls)
        BY <1>t, <2>k, <2>l, OutstandingIs
      <3>3. l # Len(calls)
        BY <1>t, <3>1, <3>2
      <3> QED
        BY <2>k, <3>1, <3>3
    <2>1. CASE cnt[i] > 1
      <3>1. name' = name /\ links' = links /\ Occupied' = Occupied
        BY <2>1 DEF Release, Occupied, Index
      <3> HIDE DEF i
      <3>2. \A k \in Index, j \in Index : k < j /\ j \in Occupied' => k \in Occupied'
        BY <2>0, <3>1 DEF InOrder
      <3>3. \A k \in DOMAIN calls' : calls'[k] \in links'
        BY <2>0, <2>c, <3>1 DEF InOrder
      <3>4. ASSUME NEW k \in Occupied, NEW g \in Files, name[k] = g
            PROVE  cnt'[k] = Outstanding(g)'
        <4>1. cnt[k] = Outstanding(g)
          BY <2>0, <3>4 DEF InOrder
        <4>2. CASE k = i
          BY <1>0, <1>2, <1>4, <2>0, <3>4, <4>1, <4>2 DEF Types
        <4>3. CASE k # i
          BY <1>0, <1>4, <2>0, <2>e, <2>o, <3>4, <4>1, <4>3 DEF Types
        <4> QED
          BY <4>2, <4>3
      <3>5. ASSUME NEW k \in Occupied, NEW j \in Occupied, k < j,
                   NEW g \in Files, NEW h \in Files, name[k] = g, name[j] = h,
                   NEW y \in CallsOf(h)'
            PROVE  \E l \in CallsOf(g)' : l < y
        <4>1. \A z \in CallsOf(h) : \E l \in CallsOf(g) : l < z
          BY <2>0, <3>5 DEF InOrder
        <4> QED
          BY <2>l, <3>5, <4>1
      <3> QED
        BY <2>f, <3>1, <3>2, <3>3, <3>4, <3>5 DEF InOrder
    <2>2. CASE ~(cnt[i] > 1)
      <3>1. /\ name' = [name EXCEPT ![i] = NotSet] /\ links' = links \ {f}
            /\ cnt[i] = 1
        BY <1>2, <2>2, <2>i DEF Release, EmptySlot
      <3> HIDE DEF i
      <3>2. CallsOf(f) = {Len(calls)}
        <4>1. CallsOf(f)' = {}
          <5>1. Outstanding(f)' = 0
            BY <1>4, <2>0, <2>i, <3>1
          <5>2. IsFiniteSet(CallsOf(f)')
            BY <1>4, <1>t, <2>0, OutstandingIs, FS_RemoveElement
          <5> QED
            BY <5>1, <5>2, FS_EmptySet DEF Outstanding
        <4> QED
          BY <1>4, <2>0, <4>1
      <3>3. \A j \in Occupied : j # i => j < i
        <4> SUFFICES ASSUME NEW j \in Occupied, i < j PROVE FALSE
          BY <1>0, <2>n, <2>o
        <4> DEFINE g == name[j]
        <4>0. g \in Files
          BY <2>o
        <4>1. cnt[j] # 0 /\ cnt[j] \in Nat /\ cnt[j] = Outstanding(g)
          BY <1>0, <2>0, <2>o DEF TableShape, InOrder, Types
        <4>2. PICK y \in CallsOf(g) : y \in 1..Len(calls)
          BY <1>t, <4>1, OutstandingIs
        <4>3. PICK l \in CallsOf(f) : l < y
          BY <1>2, <2>0, <4>0, <4>2 DEF InOrder
        <4>4. l = Len(calls)
          BY <3>2, <4>3
        <4> QED
          BY <1>t, <4>2, <4>3, <4>4
      <3>4. Occupied' = Occupied \ {i}
        BY <1>0, <2>f, <3>1 DEF Occupied, Types
      <3>5. \A k \in Occupied' : k \in Occupied /\ k # i /\ name'[k] = name[k]
        BY <1>0, <2>o, <3>1, <3>4 DEF Types
      <3>6. \A k \in Index, j \in Index : k < j /\ j \in Occupied' => k \in Occupied'
        BY <1>0, <2>0, <2>n, <3>3, <3>4 DEF InOrder
      <3>7. \A k \in DOMAIN calls' : calls'[k] \in links'
        <4> SUFFICES ASSUME NEW k \in 1..(Len(calls) - 1) PROVE calls'[k] \in links'
          BY <2>c
        <4>1. calls'[k] = calls[k] /\ k \in DOMAIN calls /\ calls[k] \in links
          BY <2>0, <2>c DEF InOrder
        <4>2. calls[k] # f
          BY <1>t, <3>2, <4>1 DEF CallsOf
        <4> QED
          BY <3>1, <4>1, <4>2
      <3>8. ASSUME NEW k \in Occupied', NEW g \in Files, name'[k] = g
            PROVE  cnt'[k] = Outstanding(g)'
        <4>1. k \in Occupied /\ k # i /\ name[k] = g /\ g # f
          BY <2>e, <3>5, <3>8
        <4>2. cnt[k] = Outstanding(g)
          BY <2>0, <4>1 DEF InOrder
        <4> QED
          BY <1>0, <1>4, <2>0, <2>o, <4>1, <4>2 DEF Types
      <3>9. ASSUME NEW k \in Occupied', NEW j \in Occupied', k < j,
                   NEW g \in Files, NEW h \in Files, name'[k] = g, name'[j] = h,
                   NEW y \in CallsOf(h)'
            PROVE  \E l \in CallsOf(g)' : l < y
        <4>1. k \in Occupied /\ j \in Occupied /\ name[k] = g /\ name[j] = h
          BY <3>5, <3>9
        <4>2. \A z \in CallsOf(h) : \E l \in CallsOf(g) : l < z
          BY <2>0, <3>9, <4>1 DEF InOrder
        <4> QED
          BY <2>l, <4>2
      <3> QED
        BY <2>f, <3>6, <3>7, <3>8, <3>9 DEF InOrder
    <2> QED
      BY <2>1, <2>2
  <1>8. Cardinality(Units') = Len(calls')
    BY <1>3, <1>4 DEF IInv, TableSound
  <1> QED
    BY <1>1, <1>5, <1>6, <1>7, <1>8 DEF IInv, TableSound

LEMMA NextIInv == IInv /\ [Next]_vars => IInv'
  <1>1. ASSUME IInv, UNCHANGED vars PROVE IInv'
    <2>1. name' = name /\ cnt' = cnt /\ links' = links /\ calls' = calls /\ lifo' = lifo
      BY <1>1 DEF vars
    <2>2. Occupied' = Occupied /\ Units' = Units /\ TypeOK'
      BY <1>1, <2>1 DEF Occupied, Units, IInv, TypeOK
    <2>3. TableSound'
      BY <1>1, <2>1, <2>2 DEF TableSound, TableShape, IInv
    <2>4. \A g \in Files : CallsOf(g)' = CallsOf(g)
      BY <2>1 DEF CallsOf
    <2>5. InOrder <=> InOrder'
      BY <2>1, <2>2, <2>4 DEF InOrder, Outstanding
    <2> QED
      BY <1>1, <2>1, <2>2, <2>3, <2>5 DEF IInv
  <1>2. ASSUME IInv, NEW f \in Files, Get(f) \/ Release(f) \/ Refuse(f)
        PROVE  IInv'
    <2>1. CASE Get(f)
      BY <1>2, <2>1, GetStep
    <2>2. CASE Release(f)
      BY <1>2, <2>2, ReleaseStep
    <2>3. CASE Refuse(f)
      BY <1>1, <1>2, <2>3 DEF Refuse
    <2> QED
      BY <1>2, <2>1, <2>2, <2>3
  <1> QED
    BY <1>1, <1>2 DEF Next

(* The inductive invariant holds throughout. *)
THEOREM Invariant == Spec => []IInv
  BY InitIInv, NextIInv, PTL DEF Spec

(* The table is well typed and no count exceeds the outstanding calls, which *)
(* are as many as MaxCalls allows.                                           *)
THEOREM TypeCorrect == Spec => []TypeOK
  <1>1. IInv => TypeOK
    BY DEF IInv
  <1> QED
    BY <1>1, Invariant, PTL

(* In whatever order a process takes and releases its link locks, a slot of  *)
(* lock_name_list is named exactly while lock_cnt counts, no file has two,   *)
(* the files named are those whose links exist, and the counts add up to the *)
(* calls not released.                                                       *)
THEOREM Sound == Spec => []TableSound
  <1>1. IInv => TableSound
    BY DEF IInv
  <1> QED
    BY <1>1, Invariant, PTL

(* If a process releases its latest lock first, a file is linked exactly     *)
(* while a call for it is outstanding, and get_lock_index finds the slot     *)
(* that counts those calls.                                                  *)
THEOREM Exact == Spec => []TableExact
  <1>1. IInv => TableExact
    <2> SUFFICES ASSUME IInv, lifo, NEW f \in Files
                 PROVE  /\ f \in links <=> Outstanding(f) > 0
                        /\ f \in links => cnt[LockIndex(f)] = Outstanding(f)
      BY DEF TableExact
    <2>0. TypeOK /\ Types /\ TableShape /\ InOrder /\ calls \in Seq(Files)
      BY TypesOf DEF IInv, TableSound, TypeOK
    <2>1. ASSUME f \in links
          PROVE  Outstanding(f) > 0 /\ cnt[LockIndex(f)] = Outstanding(f)
      <3>1. PICK k \in Occupied : name[k] = f
        BY <2>0, <2>1 DEF TableShape
      <3>2. LockIndex(f) \in Index /\ name[LockIndex(f)] = f
        BY <3>1, IndexOfNamed DEF Occupied
      <3>3. LockIndex(f) = k
        BY <2>0, <3>1, <3>2 DEF TableShape, Occupied
      <3>4. cnt[k] = Outstanding(f) /\ cnt[k] # 0 /\ cnt[k] \in Nat
        BY <2>0, <3>1 DEF InOrder, TableShape, Occupied, Types
      <3> QED
        BY <3>3, <3>4
    <2>2. ASSUME Outstanding(f) > 0 PROVE f \in links
      <3>1. CallsOf(f) # {}
        BY <2>0, <2>2, OutstandingIs
      <3> QED
        BY <2>0, <3>1 DEF CallsOf, InOrder
    <2> QED
      BY <2>1, <2>2
  <1> QED
    BY <1>1, Invariant, PTL

===============================================================================
