--------------------------- MODULE MCArchiveBudget ---------------------------
(***************************************************************************)
(* Three archives, limits that two of them or three entries exhaust, and   *)
(* headers that tell the truth, too much or too little.                    *)
(***************************************************************************)
EXTENDS ArchiveBudget
=============================================================================
