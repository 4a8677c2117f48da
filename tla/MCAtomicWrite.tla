---------------------------- MODULE MCAtomicWrite ----------------------------
(***************************************************************************)
(* Three concurrent calls with three random names, a payload of two pieces *)
(* and three attempts (eight in the code).                                 *)
(***************************************************************************)
EXTENDS AtomicWrite
=============================================================================
