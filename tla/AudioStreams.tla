----------------------------- MODULE AudioStreams -----------------------------
(***************************************************************************)
(* What the audio HAL promises of each stream, without threads and locks:  *)
(* the calls on a stream take effect one after the other.  A stream is     *)
(* closed, in standby or active (its PCM is open); only an open stream     *)
(* becomes active, by a transfer, and it ceases to be active only between  *)
(* two transfers.                                                          *)
(***************************************************************************)
CONSTANT Streams

VARIABLES
  stream,         \* "closed", "standby" or "active"
  transferring    \* streams with a write or read under way

streamsVars == <<stream, transferring>>

StreamsInit == /\ stream = [s \in Streams |-> "closed"]
               /\ transferring = {}

(* Stream s goes from a state in which no transfer is under way to state.  *)
Becomes(s, state) == /\ s \notin transferring
                     /\ stream' = [stream EXCEPT ![s] = state]

Open(s) == stream[s] = "closed" /\ Becomes(s, "standby") /\ UNCHANGED transferring

(* A transfer makes an idle stream active.                                 *)
Transfer(s) == /\ stream[s] # "closed"
               /\ Becomes(s, "active")
               /\ transferring' = transferring \cup {s}

Finish(s) == /\ s \in transferring
             /\ transferring' = transferring \ {s}
             /\ UNCHANGED stream

Standby(s) == stream[s] = "active" /\ Becomes(s, "standby") /\ UNCHANGED transferring

Close(s) == stream[s] # "closed" /\ Becomes(s, "closed") /\ UNCHANGED transferring

StreamsNext == \E s \in Streams : Open(s) \/ Transfer(s) \/ Finish(s) \/ Standby(s) \/ Close(s)

StreamsSpec == StreamsInit /\ [][StreamsNext]_streamsVars
=============================================================================
