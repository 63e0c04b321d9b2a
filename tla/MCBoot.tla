-------------------------------- MODULE MCBoot --------------------------------
(***************************************************************************)
(* Instances of BootCtrl for TLC.  u and v are processes that query and    *)
(* update the table (the updater and the boot-success marker).             *)
(***************************************************************************)
EXTENDS BootCtrl, TLC
CONSTANTS u, v

(* The two processes run the same code.                                    *)
Swap == Permutations({u, v})
=============================================================================
