------------------------------- MODULE DxDriver -------------------------------
(***************************************************************************)
(* The process-wide side of the CryptoCell library: the driver interface   *)
(* (libcc54/driver_interface/driver_interface.c) and its start and stop    *)
(* (libcc54/dx_cclib.c).                                                   *)
(*                                                                         *)
(* The library keeps two static file handles.  diFileH is the queue of the *)
(* chosen priority; rpcFileH is always queue 0, the same handle when the   *)
(* priority is 0.  They are descriptors of the process that loaded the     *)
(* library, so the table of its descriptors is part of the model: close()  *)
(* closes whatever the number it is given stands for.  The library has no  *)
(* lock and counts no users; it is modelled for one thread.                *)
(***************************************************************************)
EXTENDS Integers

CONSTANT MaxFd      \* highest descriptor the process may have
ASSUME MaxFdAssumption == MaxFd \in Nat

VARIABLES
  devPriority,      \* queue to open: 0 or 1
  diFileH,          \* handle of that queue, or Closed
  rpcFileH,         \* handle of queue 0, or Closed
  fds               \* what each descriptor of the process is open on

driverVars == <<devPriority, diFileH, rpcFileH, fds>>

Fd == 0..MaxFd
Closed == -1
Priorities == {0, 1}
Uses == {"free", "app", "di", "rpc", "context"}

DriverTypeOK == /\ devPriority \in Priorities
                /\ diFileH \in Fd \cup {Closed}
                /\ rpcFileH \in Fd \cup {Closed}
                /\ fds \in [Fd -> Uses]

Free == {d \in Fd : fds[d] = "free"}

(* open() returns the lowest free descriptor of those in S.                *)
LowestOf(S, d) == d \in S /\ \A e \in S : d <= e

DriverInit == /\ devPriority = 0
              /\ diFileH = Closed
              /\ rpcFileH = Closed
              /\ fds \in [Fd -> {"free", "app"}]

-----------------------------------------------------------------------------
DxDI_IsOpen == diFileH >= 0

(* One handle serves as both when the priority is 0.                       *)
OpenQueue0 ==
  \E d \in Fd :
    /\ LowestOf(Free, d)
    /\ diFileH' = d
    /\ rpcFileH' = d
    /\ fds' = [fds EXCEPT ![d] = "di"]

OpenBothQueues ==
  \E d, e \in Fd :
    /\ LowestOf(Free, d)
    /\ LowestOf(Free \ {d}, e)
    /\ diFileH' = d
    /\ rpcFileH' = e
    /\ fds' = [fds EXCEPT ![d] = "di", ![e] = "rpc"]

DxDI_Open ==
  /\ \/ DxDI_IsOpen /\ UNCHANGED <<diFileH, rpcFileH, fds>>
     \/ ~DxDI_IsOpen /\ devPriority = 0 /\ OpenQueue0
     \/ ~DxDI_IsOpen /\ devPriority = 1 /\ OpenBothQueues
  /\ UNCHANGED devPriority

(* A device cannot be opened, or the driver has another ABI version: what  *)
(* was opened is closed again.                                             *)
DxDI_OpenFails == /\ ~DxDI_IsOpen
                  /\ UNCHANGED driverVars

(* Fault: the handle for RPC is left as it is.                             *)
CloseKeepsRpc ==
  /\ fds' = IF DxDI_IsOpen
            THEN [d \in Fd |-> IF d \in {diFileH, rpcFileH} THEN "free" ELSE fds[d]]
            ELSE fds
  /\ diFileH' = Closed
  /\ UNCHANGED <<devPriority, rpcFileH>>

DxDI_Close ==
  \/ /\ DxDI_IsOpen
     /\ fds' = [d \in Fd |-> IF d \in {diFileH, rpcFileH} THEN "free" ELSE fds[d]]
     /\ diFileH' = Closed
     /\ rpcFileH' = Closed
     /\ UNCHANGED devPriority
  \/ ~DxDI_IsOpen /\ UNCHANGED driverVars

(* Refused while the device is open; the driver has two queues.            *)
DX_CclibSetPriority(p) ==
  /\ ~DxDI_IsOpen
  /\ devPriority' = p
  /\ UNCHANGED <<diFileH, rpcFileH, fds>>

-----------------------------------------------------------------------------
(* A TEE context is a descriptor of its own on queue 0.                    *)
DxDI_SepAppContextAlloc(d) ==
  /\ LowestOf(Free, d)
  /\ fds' = [fds EXCEPT ![d] = "context"]
  /\ UNCHANGED <<devPriority, diFileH, rpcFileH>>

(* close() of the number found in the context, whatever it is open on.     *)
DxDI_SepAppContextFree(c) ==
  /\ fds' = IF c \in Fd THEN [fds EXCEPT ![c] = "free"] ELSE fds
  /\ UNCHANGED <<devPriority, diFileH, rpcFileH>>

-----------------------------------------------------------------------------
(* The static handles are closed together, and while they are open each    *)
(* is the descriptor of the file it was opened on: a handle that outlives  *)
(* its file would send the next ioctl to whatever file reuses the number   *)
(* (DxDI_Open, DxDI_Close, driver_interface.c:134-233).                    *)
HandlesLive ==
  /\ diFileH = Closed <=> rpcFileH = Closed
  /\ diFileH # Closed =>
       /\ fds[diFileH] = "di"
       /\ rpcFileH # diFileH => fds[rpcFileH] = "rpc"
  /\ \A d \in Fd : /\ fds[d] = "di" => d = diFileH
                   /\ fds[d] = "rpc" => d = rpcFileH
=============================================================================
