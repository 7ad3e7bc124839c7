----------------------------- MODULE MCPsrpChannel -----------------------------
(* Instances of PsrpChannel for TLC. *)
EXTENDS PsrpChannel

Lowest == -2
===============================================================================
