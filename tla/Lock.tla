--------------------------------- MODULE Lock ---------------------------------
(*****************************************************************************)
(* What a link file lock of utilib.c promises the processes that use it,     *)
(* with no file, no link count and no scan in it: a mark that one process at *)
(* a time can set.  A process holds from setting the mark until it gives it  *)
(* back or dies.  Anybody who does not hold may take the mark away, which is *)
(* how the mark of a dead process goes; when it was the mark of somebody who *)
(* holds, the lock is stolen, and only then may two processes hold it.       *)
(*                                                                           *)
(* LinkLock implements this: LinkLock!ImplementsLock.                        *)
(*****************************************************************************)
CONSTANTS Procs, NoProc

VARIABLES
    holders,   \* processes that were told they hold the lock
    mark,      \* the process whose mark stands, or NoProc
    stolen     \* the mark of a holder was taken away

vars == <<holders, mark, stolen>>

Init == holders = {} /\ mark = NoProc /\ stolen = FALSE

(* The mark is set only where none stands. *)
Take(p) ==
    /\ p \notin holders /\ mark = NoProc
    /\ mark' = p
    /\ holders' = holders \cup {p}
    /\ UNCHANGED stolen

(* p takes the mark away, whoever set it. *)
Unmark(p) ==
    /\ mark' = NoProc
    /\ stolen' = (stolen \/ mark \in holders \ {p})

GiveBack(p) ==
    /\ p \in holders
    /\ holders' = holders \ {p}
    /\ Unmark(p)

Clear(p) ==
    /\ p \notin holders
    /\ Unmark(p)
    /\ UNCHANGED holders

Die(p) ==
    /\ holders' = holders \ {p}
    /\ UNCHANGED <<mark, stolen>>

Next == \E p \in Procs : Take(p) \/ GiveBack(p) \/ Clear(p) \/ Die(p)

Spec == Init /\ [][Next]_vars
===============================================================================
