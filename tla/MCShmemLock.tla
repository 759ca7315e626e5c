---------------------------- MODULE MCShmemLock ----------------------------
(* TLC instance of ShmemLock.  The state space is finite for every number *)
(* of PEs; the constant is given in the configuration files.              *)
EXTENDS ShmemLock
=============================================================================
