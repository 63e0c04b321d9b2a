------------------------------- MODULE MCAudio --------------------------------
(***************************************************************************)
(* Instances of AudioHal for TLC.  One control thread and two are enough   *)
(* for a control call to meet a transfer, another control call, and a call *)
(* on the stream of the other direction.                                   *)
(***************************************************************************)
EXTENDS AudioHal, TLC

(* The control threads are alike.                                          *)
ControlSymmetry == Permutations(Control)
=============================================================================
