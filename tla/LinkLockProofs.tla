---------------------------- MODULE LinkLockProofs ----------------------------
(* Theorems about LinkLock, for any number of processes, any nesting bound,  *)
(* any limits on the attempts and crashes at any set of control points.      *)
EXTENDS LinkLock, TLAPS

(* The control points between the two links of a first acquisition's call. *)
AcquirePoints == {"scan", "sweepLock", "stat", "access", "unstale", "link", "lid"}

(* lock_cnt is 1 throughout a first acquisition and 0 once the release of    *)
(* the outermost level has started.                                          *)
CountAtPoint ==
    \A p \in Procs :
        /\ pc[p] \in AcquirePoints => cnt[p] = 1
        /\ pc[p] \in {"relLock", "relLid"} => cnt[p] = 0

(* Whoever holds the lock made F.lock, unless F.lock was taken away. *)
HolderOwns ==
    /\ \A p \in Procs : Holds(p) => broken \/ (lockLink /\ owner = p)
    /\ ~lockLink => owner = NoProc

(* A settled owner still holds, is the only lid its newcomer will look at,   *)
(* and a newcomer that found too few links found them after F.lock was gone. *)
SettledRest ==
    \A p \in Procs : \A h \in settled[p] :
        /\ h \in alive /\ pc[h] = "idle" /\ cnt[h] > 0
        /\ todo[p] \subseteq {h}
        /\ pc[p] # "sweepLock"
        /\ pc[p] \in {"access", "unstale"} /\ stale[p] => owner # h

StaleAtUnstale == \A p \in Procs : pc[p] = "unstale" => stale[p]

IInv ==
    /\ TypeOK /\ CountAtPoint /\ LidMatchesCount
    /\ HolderOwns /\ SettledRest /\ StaleAtUnstale

-----------------------------------------------------------------------------

(* The actions of one process. *)
Step(p) ==
    \/ AcquireAgain(p) \/ Acquire(p) \/ Inside(p)
    \/ ReleaseInner(p) \/ ReleaseOuter(p)
    \/ Exit(p) \/ Crash(p)

LEMMA InitIInv == Init => IInv
  <1> SUFFICES ASSUME Init PROVE IInv
    OBVIOUS
  <1> USE LinkLockAssumption DEF LinkLockAssumption, Init
  <1>1. TypeOK
    <2>1. alive \subseteq Procs /\ lids \subseteq Procs /\ owner \in Procs \cup {NoProc}
      OBVIOUS
    <2>2. lockLink \in BOOLEAN /\ broken \in BOOLEAN
      OBVIOUS
    <2>3. cnt \in [Procs -> 0..MaxNest] /\ left \in [Procs -> Nat \cup {WAIT_FOREVER}]
      OBVIOUS
    <2>4. pc \in [Procs -> Points] /\ stale \in [Procs -> BOOLEAN]
      BY DEF Points
    <2>5. todo \in [Procs -> SUBSET Procs] /\ settled \in [Procs -> SUBSET Procs]
      OBVIOUS
    <2> QED
      BY <2>1, <2>2, <2>3, <2>4, <2>5 DEF TypeOK
  <1>2. CountAtPoint /\ LidMatchesCount
    BY DEF CountAtPoint, LidMatchesCount, AcquirePoints
  <1>3. HolderOwns /\ SettledRest /\ StaleAtUnstale
    BY DEF HolderOwns, Holds, SettledRest, StaleAtUnstale
  <1> QED
    BY <1>1, <1>2, <1>3 DEF IInv

(* Every step keeps the types. *)
LEMMA TypeStep ==
    ASSUME TypeOK, CountAtPoint, NEW p \in Procs, Step(p)
    PROVE  TypeOK'
  <1> USE LinkLockAssumption DEF LinkLockAssumption, TypeOK, Points, Goto, UnlinkLock, Unsettle,
      WAIT_FOREVER
  <1>1. CASE AcquireAgain(p)
    BY <1>1 DEF AcquireAgain
  <1>2. CASE Acquire(p)
    BY <1>2 DEF Acquire
  <1>3. CASE Examine(p)
    BY <1>3 DEF Examine
  <1>4. CASE SweepLock(p)
    BY <1>4 DEF SweepLock
  <1>5. CASE EndScan(p)
    BY <1>5 DEF EndScan
  <1>6. CASE Stat(p)
    BY <1>6 DEF Stat, FewLinks
  <1>7. CASE Access(p)
    BY <1>7 DEF Access
  <1>8. CASE Unstale(p)
    BY <1>8 DEF Unstale
  <1>9. CASE Link(p)
    BY <1>9 DEF Link
  <1>10. CASE Retry(p)
    BY <1>10 DEF Retry
  <1>11. CASE Busy(p)
    BY <1>11 DEF Busy, CountAtPoint, AcquirePoints
  <1>12. CASE MakeLid(p)
    BY <1>12 DEF MakeLid
  <1>13. CASE ReleaseInner(p)
    BY <1>13 DEF ReleaseInner
  <1>14. CASE ReleaseOuter(p)
    BY <1>14 DEF ReleaseOuter
  <1>15. CASE ReleaseLock(p)
    BY <1>15 DEF ReleaseLock
  <1>16. CASE ReleaseLid(p)
    BY <1>16 DEF ReleaseLid
  <1>17. CASE Exit(p)
    BY <1>17 DEF Exit
  <1>18. CASE ExitLock(p)
    BY <1>18 DEF ExitLock
  <1>19. CASE Crash(p)
    BY <1>19 DEF Crash
  <1> QED
    BY <1>1, <1>2, <1>3, <1>4, <1>5, <1>6, <1>7, <1>8, <1>9, <1>10, <1>11, <1>12, <1>13, <1>14, <1>15, <1>16, <1>17, <1>18, <1>19 DEF Step, Inside

(* Every step keeps the counts and lids in line with the control points. *)
LEMMA CountStep ==
    ASSUME TypeOK, CountAtPoint, LidMatchesCount, NEW p \in Procs, Step(p)
    PROVE  CountAtPoint' /\ LidMatchesCount'
  <1> USE LinkLockAssumption DEF LinkLockAssumption, TypeOK, Points, AcquirePoints, CountAtPoint,
      LidMatchesCount, Goto, UnlinkLock, Unsettle
  <1>1. CASE AcquireAgain(p)
    BY <1>1 DEF AcquireAgain
  <1>2. CASE Acquire(p)
    BY <1>2 DEF Acquire
  <1>3. CASE Examine(p)
    BY <1>3 DEF Examine
  <1>4. CASE SweepLock(p)
    BY <1>4 DEF SweepLock
  <1>5. CASE EndScan(p)
    BY <1>5 DEF EndScan
  <1>6. CASE Stat(p)
    BY <1>6 DEF Stat
  <1>7. CASE Access(p)
    BY <1>7 DEF Access
  <1>8. CASE Unstale(p)
    BY <1>8 DEF Unstale
  <1>9. CASE Link(p)
    BY <1>9 DEF Link
  <1>10. CASE Retry(p)
    BY <1>10 DEF Retry
  <1>11. CASE Busy(p)
    BY <1>11 DEF Busy
  <1>12. CASE MakeLid(p)
    BY <1>12 DEF MakeLid
  <1>13. CASE ReleaseInner(p)
    BY <1>13 DEF ReleaseInner
  <1>14. CASE ReleaseOuter(p)
    BY <1>14 DEF ReleaseOuter
  <1>15. CASE ReleaseLock(p)
    BY <1>15 DEF ReleaseLock
  <1>16. CASE ReleaseLid(p)
    BY <1>16 DEF ReleaseLid
  <1>17. CASE Exit(p)
    BY <1>17 DEF Exit
  <1>18. CASE ExitLock(p)
    BY <1>18 DEF ExitLock
  <1>19. CASE Crash(p)
    BY <1>19 DEF Crash
  <1> QED
    BY <1>1, <1>2, <1>3, <1>4, <1>5, <1>6, <1>7, <1>8, <1>9, <1>10, <1>11, <1>12, <1>13, <1>14, <1>15, <1>16, <1>17, <1>18, <1>19 DEF Step, Inside

(* Only link(2) gives F.lock to anyone, and it fails while F.lock exists. *)
LEMMA OwnerStep ==
    ASSUME TypeOK, CountAtPoint, HolderOwns, NEW p \in Procs, Step(p)
    PROVE  HolderOwns'
  <1> USE LinkLockAssumption DEF LinkLockAssumption, TypeOK, Points, AcquirePoints, CountAtPoint,
      HolderOwns, Holds, Goto, UnlinkLock, Unsettle
  <1>1. CASE AcquireAgain(p)
    BY <1>1 DEF AcquireAgain
  <1>2. CASE Acquire(p)
    BY <1>2 DEF Acquire
  <1>3. CASE Examine(p)
    BY <1>3 DEF Examine
  <1>4. CASE SweepLock(p)
    BY <1>4 DEF SweepLock
  <1>5. CASE EndScan(p)
    BY <1>5 DEF EndScan
  <1>6. CASE Stat(p)
    BY <1>6 DEF Stat
  <1>7. CASE Access(p)
    BY <1>7 DEF Access
  <1>8. CASE Unstale(p)
    BY <1>8 DEF Unstale
  <1>9. CASE Link(p)
    BY <1>9 DEF Link
  <1>10. CASE Retry(p)
    BY <1>10 DEF Retry
  <1>11. CASE Busy(p)
    BY <1>11 DEF Busy
  <1>12. CASE MakeLid(p)
    BY <1>12 DEF MakeLid
  <1>13. CASE ReleaseInner(p)
    BY <1>13 DEF ReleaseInner
  <1>14. CASE ReleaseOuter(p)
    BY <1>14 DEF ReleaseOuter
  <1>15. CASE ReleaseLock(p)
    BY <1>15 DEF ReleaseLock
  <1>16. CASE ReleaseLid(p)
    BY <1>16 DEF ReleaseLid
  <1>17. CASE Exit(p)
    BY <1>17 DEF Exit
  <1>18. CASE ExitLock(p)
    BY <1>18 DEF ExitLock
  <1>19. CASE Crash(p)
    BY <1>19 DEF Crash
  <1> QED
    BY <1>1, <1>2, <1>3, <1>4, <1>5, <1>6, <1>7, <1>8, <1>9, <1>10, <1>11, <1>12, <1>13, <1>14, <1>15, <1>16, <1>17, <1>18, <1>19 DEF Step, Inside

(* Nothing a newcomer does disturbs an owner that was settled when it came. *)
LEMMA SettledStep ==
    ASSUME TypeOK, CountAtPoint, LidMatchesCount, HolderOwns, SettledRest, StaleAtUnstale,
           NEW p \in Procs, Step(p)
    PROVE  SettledRest' /\ StaleAtUnstale'
  <1> USE LinkLockAssumption DEF LinkLockAssumption, TypeOK, Points, AcquirePoints, CountAtPoint,
      LidMatchesCount, SettledRest, StaleAtUnstale, Established, Goto, UnlinkLock, Unsettle
  <1>1. CASE AcquireAgain(p)
    BY <1>1 DEF AcquireAgain
  <1>2. CASE Acquire(p)
    BY <1>2 DEF Acquire
  <1>3. CASE Examine(p)
    BY <1>3 DEF Examine
  <1>4. CASE SweepLock(p)
    BY <1>4 DEF SweepLock
  <1>5. CASE EndScan(p)
    BY <1>5 DEF EndScan
  <1>6. CASE Stat(p)
    <2>1. PICK few \in (IF lockLink THEN {FewLinks} ELSE BOOLEAN) :
              stale' = [stale EXCEPT ![p] = few]
      BY <1>6 DEF Stat
    <2>2. lockLink => stale'[p] = (lids = {})
      BY <2>1 DEF FewLinks
    <2>3. ASSUME NEW h \in settled[p] PROVE stale'[p] => owner # h
      <3>1. h \in lids
        BY <2>3
      <3>2. CASE lockLink
        BY <2>2, <3>1, <3>2
      <3>3. CASE ~lockLink
        BY <3>3 DEF HolderOwns
      <3> QED
        BY <3>2, <3>3
    <2> QED
      BY <2>1, <2>3, <1>6 DEF Stat
  <1>7. CASE Access(p)
    BY <1>7 DEF Access
  <1>8. CASE Unstale(p)
    BY <1>8 DEF Unstale
  <1>9. CASE Link(p)
    BY <1>9 DEF Link
  <1>10. CASE Retry(p)
    BY <1>10 DEF Retry
  <1>11. CASE Busy(p)
    BY <1>11 DEF Busy
  <1>12. CASE MakeLid(p)
    BY <1>12 DEF MakeLid
  <1>13. CASE ReleaseInner(p)
    BY <1>13 DEF ReleaseInner
  <1>14. CASE ReleaseOuter(p)
    BY <1>14 DEF ReleaseOuter
  <1>15. CASE ReleaseLock(p)
    BY <1>15 DEF ReleaseLock
  <1>16. CASE ReleaseLid(p)
    BY <1>16 DEF ReleaseLid
  <1>17. CASE Exit(p)
    BY <1>17 DEF Exit
  <1>18. CASE ExitLock(p)
    BY <1>18 DEF ExitLock
  <1>19. CASE Crash(p)
    BY <1>19 DEF Crash
  <1> QED
    BY <1>1, <1>2, <1>3, <1>4, <1>5, <1>6, <1>7, <1>8, <1>9, <1>10, <1>11, <1>12, <1>13, <1>14, <1>15, <1>16, <1>17, <1>18, <1>19 DEF Step, Inside

LEMMA NextIInv == IInv /\ [Next]_vars => IInv'
  <1> SUFFICES ASSUME IInv, [Next]_vars PROVE IInv'
    OBVIOUS
  <1>1. ASSUME NEW p \in Procs, Step(p) PROVE IInv'
    BY <1>1, TypeStep, CountStep, OwnerStep, SettledStep DEF IInv
  <1>2. CASE UNCHANGED vars
    BY <1>2 DEF vars, IInv, TypeOK, CountAtPoint, LidMatchesCount, HolderOwns, Holds,
       SettledRest, StaleAtUnstale
  <1> QED
    BY <1>1, <1>2 DEF Next, Step, Stopped

(* The inductive invariant. *)
THEOREM Invariance == Spec => []IInv
  BY InitIInv, NextIInv, PTL DEF Spec

(* The types of the state of utilib.c's link locks. *)
THEOREM TypeCorrect == Spec => []TypeOK
  BY Invariance, PTL DEF IInv

(* Two processes hold one link lock (pups_get_rdwr_link_file_lock returned   *)
(* 0 to both) only if F.lock was unlinked under a live owner.                *)
THEOREM Exclusion == Spec => []ExclusiveUnlessBroken
  <1>1. IInv => ExclusiveUnlessBroken
    BY DEF IInv, HolderOwns, ExclusiveUnlessBroken, MutualExclusion
  <1> QED
    BY <1>1, Invariance, PTL

(* A live process has its lid exactly while it may release the lock. *)
THEOREM LidSound == Spec => []LidMatchesCount
  BY Invariance, PTL DEF IInv

(* The stale lock tests never hit an owner that was settled when the         *)
(* newcomer opened the directory.                                            *)
THEOREM SettledSafe == Spec => []SettledOwnerKept
  <1>1. IInv => SettledOwnerKept
    BY DEF IInv, TypeOK, SettledRest, StaleAtUnstale, SettledOwnerKept
  <1> QED
    BY <1>1, Invariance, PTL

-----------------------------------------------------------------------------
(* LinkLock implements Lock. *)

(* A live process whose F.lock stands holds the lock: it neither forgets its *)
(* F.lock nor starts another acquisition before F.lock is gone.              *)
OwnerHolds == \A q \in alive : owner = q => Holds(q)

LEMMA OwnerHoldsStep ==
    ASSUME IInv, OwnerHolds, NEW p \in Procs, Step(p)
    PROVE  OwnerHolds'
  <1> USE LinkLockAssumption DEF LinkLockAssumption, IInv, TypeOK, Points, AcquirePoints,
      CountAtPoint, OwnerHolds, Holds, Goto, UnlinkLock
  <1>1. CASE AcquireAgain(p)
    BY <1>1 DEF AcquireAgain
  <1>2. CASE Acquire(p)
    BY <1>2 DEF Acquire
  <1>3. CASE Examine(p) \/ SweepLock(p) \/ EndScan(p)
    BY <1>3 DEF Examine, SweepLock, EndScan
  <1>4. CASE Stat(p) \/ Access(p) \/ Unstale(p)
    BY <1>4 DEF Stat, Access, Unstale
  <1>5. CASE Link(p)
    BY <1>5 DEF Link
  <1>6. CASE Retry(p) \/ Busy(p)
    BY <1>6 DEF Retry, Busy
  <1>7. CASE MakeLid(p)
    BY <1>7 DEF MakeLid
  <1>8. CASE ReleaseInner(p)
    BY <1>8 DEF ReleaseInner
  <1>9. CASE ReleaseOuter(p)
    BY <1>9 DEF ReleaseOuter
  <1>10. CASE ReleaseLock(p) \/ ReleaseLid(p)
    BY <1>10 DEF ReleaseLock, ReleaseLid
  <1>11. CASE Exit(p)
    BY <1>11 DEF Exit, LidMatchesCount
  <1>12. CASE ExitLock(p)
    BY <1>12 DEF ExitLock
  <1>13. CASE Crash(p)
    BY <1>13 DEF Crash
  <1> QED
    BY <1>1, <1>2, <1>3, <1>4, <1>5, <1>6, <1>7, <1>8, <1>9, <1>10, <1>11, <1>12, <1>13
    DEF Step, Inside

(* Each step of one process is a step of the abstract lock or shows nothing. *)
LEMMA StepImplements ==
    ASSUME IInv, OwnerHolds, NEW p \in Procs, Step(p)
    PROVE  [Abstract!Next]_(Abstract!vars)
  <1> DEFINE H == {q \in Procs : Holds(q)}
  <1> USE LinkLockAssumption DEF LinkLockAssumption, IInv, TypeOK, Points, AcquirePoints,
      CountAtPoint
  <1>1. CASE H' = H /\ UNCHANGED <<owner, broken>>
    BY <1>1 DEF Abstract!vars
  <1>2. CASE Link(p)
    <2>1. p \notin H /\ H' = H \cup {p}
      BY <1>2 DEF Link, Holds, Goto
    <2>2. owner = NoProc /\ owner' = p /\ UNCHANGED broken
      BY <1>2 DEF Link, HolderOwns
    <2> QED
      BY <2>1, <2>2 DEF Abstract!Next, Abstract!Take
  <1>3. ASSUME UnlinkLock(p)
        PROVE  owner' = NoProc /\ broken' = (broken \/ owner \in H \ {p})
    BY <1>3 DEF UnlinkLock, HolderOwns, OwnerHolds, Holds
  <1>4. CASE SweepLock(p) \/ Unstale(p)
    <2>1. p \notin H /\ H' = H
      BY <1>4 DEF SweepLock, Unstale, Holds, Goto
    <2>2. UnlinkLock(p)
      BY <1>4 DEF SweepLock, Unstale
    <2> QED
      BY <1>3, <2>1, <2>2 DEF Abstract!Next, Abstract!Clear, Abstract!Unmark
  <1>5. CASE ReleaseLock(p) \/ ExitLock(p)
    <2>1. p \in H /\ H' = H \ {p}
      BY <1>5 DEF ReleaseLock, ExitLock, Holds, Goto
    <2>2. UnlinkLock(p)
      BY <1>5 DEF ReleaseLock, ExitLock
    <2> QED
      BY <1>3, <2>1, <2>2 DEF Abstract!Next, Abstract!GiveBack, Abstract!Unmark
  <1>6. CASE Crash(p)
    <2>1. H' = H \ {p}
      BY <1>6 DEF Crash, Holds
    <2>2. UNCHANGED <<owner, broken>>
      BY <1>6 DEF Crash
    <2> QED
      BY <2>1, <2>2 DEF Abstract!Next, Abstract!Die
  <1>7. CASE AcquireAgain(p) \/ Acquire(p) \/ ReleaseInner(p) \/ ReleaseOuter(p)
    <2>1. H' = H
      BY <1>7 DEF AcquireAgain, Acquire, ReleaseInner, ReleaseOuter, Holds, Goto
    <2> QED
      BY <1>1, <2>1, <1>7 DEF AcquireAgain, Acquire, ReleaseInner, ReleaseOuter
  <1>8. CASE Examine(p) \/ EndScan(p) \/ Stat(p) \/ Access(p) \/ Retry(p)
    <2>1. H' = H
      BY <1>8 DEF Examine, EndScan, Stat, Access, Retry, Holds, Goto
    <2> QED
      BY <1>1, <2>1, <1>8 DEF Examine, EndScan, Stat, Access, Retry
  <1>9. CASE Busy(p) \/ MakeLid(p) \/ ReleaseLid(p)
    <2>1. H' = H
      BY <1>9 DEF Busy, MakeLid, ReleaseLid, Holds, Goto
    <2> QED
      BY <1>1, <2>1, <1>9 DEF Busy, MakeLid, ReleaseLid
  <1>10. CASE Exit(p)
    <2>1. H' = H
      BY <1>10 DEF Exit, Holds, Goto, LidMatchesCount
    <2> QED
      BY <1>1, <2>1, <1>10 DEF Exit
  <1> QED
    BY <1>2, <1>4, <1>5, <1>6, <1>7, <1>8, <1>9, <1>10 DEF Step, Inside

(* LinkLock, with every interleaving of its system calls and every crash,    *)
(* implements the lock of module Lock.                                       *)
THEOREM Refinement == Spec => ImplementsLock
  <1>1. Init => OwnerHolds /\ Abstract!Init
    BY LinkLockAssumption DEF LinkLockAssumption, Init, OwnerHolds, Holds, Abstract!Init
  <1>2. IInv /\ OwnerHolds /\ [Next]_vars => OwnerHolds' /\ [Abstract!Next]_(Abstract!vars)
    <2> SUFFICES ASSUME IInv, OwnerHolds, [Next]_vars
                 PROVE  OwnerHolds' /\ [Abstract!Next]_(Abstract!vars)
      OBVIOUS
    <2>1. ASSUME NEW p \in Procs, Step(p)
          PROVE  OwnerHolds' /\ [Abstract!Next]_(Abstract!vars)
      BY <2>1, OwnerHoldsStep, StepImplements
    <2>2. CASE UNCHANGED vars
      BY <2>2 DEF vars, OwnerHolds, Holds, Abstract!vars
    <2> QED
      BY <2>1, <2>2 DEF Next, Step, Stopped
  <1> QED
    BY <1>1, <1>2, Invariance, PTL DEF Spec, ImplementsLock, Abstract!Spec

(* The promise is worth something: while no holder's mark is taken away, the *)
(* lock of module Lock has one holder at a time, namely the process whose    *)
(* mark stands.  So whatever implements Lock excludes.                       *)
THEOREM AbstractExclusion == Abstract!Spec => []ExclusiveUnlessBroken
  <1> DEFINE Holders == {p \in Procs : Holds(p)}
             HoldersMark == ~broken => Holders \subseteq {owner}
  <1>1. Abstract!Init => HoldersMark
    BY DEF Abstract!Init
  <1>2. HoldersMark /\ [Abstract!Next]_(Abstract!vars) => HoldersMark'
    <2> SUFFICES ASSUME HoldersMark, [Abstract!Next]_(Abstract!vars), ~broken'
                 PROVE  Holders' \subseteq {owner'}
      OBVIOUS
    <2>1. CASE UNCHANGED Abstract!vars
      BY <2>1 DEF Abstract!vars
    <2>2. ASSUME NEW p \in Procs, Abstract!Take(p) PROVE Holders' \subseteq {owner'}
      <3>1. owner = NoProc /\ owner' = p /\ Holders' = Holders \cup {p} /\ broken' = broken
        BY <2>2 DEF Abstract!Take
      <3>2. Holders = {}
        BY <3>1, LinkLockAssumption DEF LinkLockAssumption
      <3> QED
        BY <3>1, <3>2
    <2>3. ASSUME NEW p \in Procs, Abstract!GiveBack(p) PROVE Holders' \subseteq {owner'}
      <3>1. Holders' = Holders \ {p} /\ broken' = (broken \/ owner \in Holders \ {p})
        BY <2>3 DEF Abstract!GiveBack, Abstract!Unmark
      <3> QED
        BY <3>1
    <2>4. ASSUME NEW p \in Procs, Abstract!Clear(p) PROVE Holders' \subseteq {owner'}
      <3>1. p \notin Holders /\ Holders' = Holders /\ broken' = (broken \/ owner \in Holders \ {p})
        BY <2>4 DEF Abstract!Clear, Abstract!Unmark
      <3> QED
        BY <3>1
    <2>5. ASSUME NEW p \in Procs, Abstract!Die(p) PROVE Holders' \subseteq {owner'}
      <3>1. Holders' = Holders \ {p} /\ owner' = owner /\ broken' = broken
        BY <2>5 DEF Abstract!Die
      <3> QED
        BY <3>1
    <2> QED
      BY <2>1, <2>2, <2>3, <2>4, <2>5 DEF Abstract!Next
  <1>3. HoldersMark => ExclusiveUnlessBroken
    BY DEF ExclusiveUnlessBroken, MutualExclusion
  <1> QED
    BY <1>1, <1>2, <1>3, PTL DEF Abstract!Spec

===============================================================================
