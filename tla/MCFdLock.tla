------------------------------ MODULE MCFdLock ------------------------------
(* Instances of FdLock for TLC. *)
EXTENDS FdLock
=============================================================================
