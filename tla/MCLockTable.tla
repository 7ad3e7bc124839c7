------------------------------ MODULE MCLockTable -----------------------------
(* Instances of LockTable for TLC. *)
EXTENDS LockTable, TLC

Symmetry == Permutations(Files)
===============================================================================
