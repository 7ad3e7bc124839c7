------------------------------ MODULE MCLinkLock ------------------------------
(* Values for the runs of LinkLock.                                          *)
EXTENDS LinkLock, TLC

Forever == {WAIT_FOREVER}
AllPoints == Points
Nowhere == {}
Symmetry == Permutations(Procs)
===============================================================================
