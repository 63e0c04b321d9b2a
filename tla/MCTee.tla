-------------------------------- MODULE MCTee --------------------------------
(***************************************************************************)
(* Instances of TeeClients for TLC.  Three descriptors are what the        *)
(* library needs when its priority is 1; one or two more belong to the     *)
(* process.                                                                *)
(***************************************************************************)
EXTENDS TeeClients
=============================================================================
