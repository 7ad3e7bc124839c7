----------------------------- MODULE MCCacheBlocks -----------------------------
(* Instances of CacheBlocks for TLC. *)
EXTENDS CacheBlocks, TLC

Symmetry == Permutations(Threads)
===============================================================================
