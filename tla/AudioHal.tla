------------------------------- MODULE AudioHal -------------------------------
(***************************************************************************)
(* The generic audio HAL (peripheral/audio/generic/audio_hal.c): streams   *)
(* that are opened and closed, put into standby, asked and told parameters *)
(* by control threads while a transfer thread of each writes or reads it.  *)
(*                                                                         *)
(* A stream has a lock and a pre_lock, the device has a lock, and the      *)
(* profile of a direction (out_profile, in_profile) is shared by the       *)
(* streams of that direction.  The number of the sound card found is a     *)
(* static of the direction and is used without a lock.  Playback and       *)
(* capture have the same code twice, so one action stands for both.        *)
(***************************************************************************)
EXTENDS Integers

CONSTANTS
  Outputs, Inputs,      \* the streams; each is also the name of its transfer thread
  Control,              \* threads that make every other call
  Cards,                \* card numbers under /dev/snd
  None                  \* no thread, no stream, no card

Streams == Outputs \cup Inputs
Threads == Streams \cup Control
Dir(s) == IF s \in Outputs THEN "out" ELSE "in"
Dirs == {"out", "in"}

ASSUME ThreadsAssumption == /\ Outputs \cap Inputs = {}
                            /\ Control \cap Streams = {}
                            /\ None \notin Threads \cup Cards

VARIABLES
  opened,       \* streams that a caller may use
  standby,      \* standby of each stream
  handles,      \* PCM handles that each stream's proxy holds open
  preLock,      \* holder of each stream's pre_lock
  lock,         \* holder of each stream's lock
  devLock,      \* holder of the device's lock
  cardNumber,   \* out_stream_card_number, in_stream_card_number
  profileCard,  \* card of out_profile and in_profile
  pc,           \* where each thread is
  op,           \* the call it makes
  str,          \* on which stream
  card          \* its local card number

streamVars == <<opened, standby, handles>>
locks == <<preLock, lock, devLock>>
cardVars == <<cardNumber, profileCard>>
local == <<op, str, card>>
vars == <<streamVars, locks, cardVars, pc, local>>

Ops == {"none", "transfer", "standby", "set", "get", "position", "open", "close", "device"}
Places == {"idle", "pre", "lock", "body", "dev", "hasDev", "parse", "search", "read", "io",
           "unlock", "undev", "prepare"}

Goto(t, place) == pc' = [pc EXCEPT ![t] = place]
OpAt(t, what, place) == op[t] = what /\ pc[t] = place

(* The call of t returns, and its local variables are gone.                *)
Return(t) == /\ Goto(t, "idle")
             /\ op' = [op EXCEPT ![t] = "none"]
             /\ str' = [str EXCEPT ![t] = None]
             /\ card' = [card EXCEPT ![t] = None]

-----------------------------------------------------------------------------
Init == /\ opened = {}
        /\ standby = [s \in Streams |-> TRUE]
        /\ handles = [s \in Streams |-> 0]
        /\ preLock = [s \in Streams |-> None]
        /\ lock = [s \in Streams |-> None]
        /\ devLock = None
        /\ cardNumber = [d \in Dirs |-> None]
        /\ profileCard = [d \in Dirs |-> None]
        /\ pc = [t \in Threads |-> "idle"]
        /\ op = [t \in Threads |-> "none"]
        /\ str = [t \in Threads |-> None]
        /\ card = [t \in Threads |-> None]

(* A thread makes call what on stream s, and starts at place.              *)
Start(t, what, s, place) == /\ pc[t] = "idle"
                            /\ op' = [op EXCEPT ![t] = what]
                            /\ str' = [str EXCEPT ![t] = s]
                            /\ Goto(t, place)
                            /\ UNCHANGED <<standby, handles, locks, cardVars, card>>

(* No thread is in a call on s; the framework opens and closes a stream    *)
(* only then.                                                              *)
Unused(s) == \A t \in Threads : str[t] # s

Transfer(s) == /\ s \in opened
               /\ Start(s, "transfer", s, "pre")
               /\ UNCHANGED opened

Ask(t, s) == /\ s \in opened
             /\ \/ \E what \in {"standby", "get"} : Start(t, what, s, "pre")
                \/ s \in Outputs /\ Start(t, "position", s, "pre")
             /\ UNCHANGED opened

SetParameters(t, s) == /\ s \in opened
                       /\ Start(t, "set", s, "parse")
                       /\ UNCHANGED opened

Open(t, s) == /\ s \notin opened
              /\ Unused(s)
              /\ Start(t, "open", s, "dev")
              /\ UNCHANGED opened

Close(t, s) == /\ s \in opened
               /\ Unused(s)
               /\ Start(t, "close", s, "pre")
               /\ opened' = opened \ {s}

(* adev_set_master_volume and adev_set_mic_mute.                           *)
DeviceCall(t) == Start(t, "device", None, "dev") /\ UNCHANGED opened

-----------------------------------------------------------------------------
(* parse_card_device_params: the number found first is kept for good.      *)
ParseCached(t) ==
  LET d == Dir(str[t]) IN
  /\ pc[t] = "parse"
  /\ cardNumber[d] # None
  /\ card' = [card EXCEPT ![t] = cardNumber[d]]
  /\ Goto(t, IF op[t] = "open" THEN "read" ELSE "pre")
  /\ UNCHANGED <<streamVars, locks, cardVars, op, str>>

ParseSearch(t) == /\ pc[t] = "parse"
                  /\ cardNumber[Dir(str[t])] = None
                  /\ Goto(t, "search")
                  /\ UNCHANGED <<streamVars, locks, cardVars, local>>

CardFound(t) ==
  /\ pc[t] = "search"
  /\ \E c \in Cards : /\ card' = [card EXCEPT ![t] = c]
                      /\ cardNumber' = [cardNumber EXCEPT ![Dir(str[t])] = c]
  /\ Goto(t, IF op[t] = "open" THEN "read" ELSE "pre")
  /\ UNCHANGED <<streamVars, locks, profileCard, op, str>>

NoCardFound(t) ==
  /\ pc[t] = "search"
  /\ \/ op[t] = "open" /\ Goto(t, "read") /\ UNCHANGED local
     \/ op[t] = "set" /\ Return(t)
  /\ UNCHANGED <<streamVars, locks, cardVars>>

-----------------------------------------------------------------------------
(* Fault: the thread goes straight for the lock.                           *)
TakeNoPre(t) == /\ pc[t] = "pre"
                /\ Goto(t, "lock")
                /\ UNCHANGED <<streamVars, locks, cardVars, local>>

(* lock_output_stream, lock_input_stream.                                  *)
TakePre(t) == /\ pc[t] = "pre"
              /\ preLock[str[t]] = None
              /\ preLock' = [preLock EXCEPT ![str[t]] = t]
              /\ Goto(t, "lock")
              /\ UNCHANGED <<streamVars, lock, devLock, cardVars, local>>

(* Fault: the lock of the stream is not waited for.                        *)
TakeLockAnyway(t) == /\ pc[t] = "lock"
                     /\ lock' = [lock EXCEPT ![str[t]] = t]
                     /\ preLock' = [preLock EXCEPT ![str[t]] = None]
                     /\ Goto(t, "body")
                     /\ UNCHANGED <<streamVars, devLock, cardVars, local>>

TakeLock(t) == /\ pc[t] = "lock"
               /\ lock[str[t]] = None
               /\ lock' = [lock EXCEPT ![str[t]] = t]
               /\ preLock' = [preLock EXCEPT ![str[t]] = None]
               /\ Goto(t, "body")
               /\ UNCHANGED <<streamVars, devLock, cardVars, local>>

(* Fault: every transfer opens the PCM.                                    *)
BodyAlwaysStarts(t) ==
  /\ pc[t] = "body"
  /\ Goto(t, CASE op[t] \in {"transfer", "set", "get"} -> "dev"
               [] op[t] \in {"standby", "close"} -> IF standby[str[t]] THEN "unlock" ELSE "dev"
               [] OTHER -> "unlock")
  /\ UNCHANGED <<streamVars, locks, cardVars, local>>

(* Whether the call needs the device's lock; get_presentation_position and *)
(* a call in the state it asks for do not.                                 *)
Body(t) ==
  /\ pc[t] = "body"
  /\ Goto(t, CASE op[t] = "transfer" -> IF standby[str[t]] THEN "dev" ELSE "io"
               [] op[t] \in {"standby", "close"} -> IF standby[str[t]] THEN "unlock" ELSE "dev"
               [] op[t] \in {"set", "get"} -> "dev"
               [] OTHER -> "unlock")
  /\ UNCHANGED <<streamVars, locks, cardVars, local>>

TakeDev(t) == /\ pc[t] = "dev"
              /\ devLock = None
              /\ devLock' = t
              /\ Goto(t, IF op[t] = "open" THEN "parse" ELSE "hasDev")
              /\ UNCHANGED <<streamVars, preLock, lock, cardVars, local>>

(* The device's lock is given back and the thread goes to place.           *)
LeaveDev(t, place) == devLock' = None /\ Goto(t, place) /\ UNCHANGED <<preLock, lock>>

(* The first transfer after standby opens the PCM.                         *)
StartStream(t) ==
  /\ OpAt(t, "transfer", "hasDev")
  /\ handles' = [handles EXCEPT ![str[t]] = @ + 1]
  /\ standby' = [standby EXCEPT ![str[t]] = FALSE]
  /\ LeaveDev(t, "io")
  /\ UNCHANGED <<opened, cardVars, local>>

(* Fault: a PCM that cannot be opened still ends standby.                  *)
StartFailsUnnoticed(t) ==
  /\ OpAt(t, "transfer", "hasDev")
  /\ standby' = [standby EXCEPT ![str[t]] = FALSE]
  /\ LeaveDev(t, "unlock")
  /\ UNCHANGED <<opened, handles, cardVars, local>>

(* Fault: a PCM that cannot be opened is written to all the same.          *)
StartFailsGoesOn(t) == /\ OpAt(t, "transfer", "hasDev")
                       /\ LeaveDev(t, "io")
                       /\ UNCHANGED <<streamVars, cardVars, local>>

StartFails(t) == /\ OpAt(t, "transfer", "hasDev")
                 /\ LeaveDev(t, "unlock")
                 /\ UNCHANGED <<streamVars, cardVars, local>>

StopStream(t) ==
  /\ op[t] \in {"standby", "close"}
  /\ pc[t] = "hasDev"
  /\ handles' = [handles EXCEPT ![str[t]] = 0]
  /\ standby' = [standby EXCEPT ![str[t]] = TRUE]
  /\ LeaveDev(t, "unlock")
  /\ UNCHANGED <<opened, cardVars, local>>

(* Fault: device info is read whether the stream is active or not.         *)
ReadsWhenActive(t) == /\ OpAt(t, "set", "hasDev")
                      /\ profileCard[Dir(str[t])] # card[t]
                      /\ Goto(t, "read")
                      /\ UNCHANGED <<streamVars, locks, cardVars, local>>

(* Fault: with nothing to read the lock of the device is not given back.   *)
NothingToReadKeepsDev(t) ==
  /\ OpAt(t, "set", "hasDev")
  /\ profileCard[Dir(str[t])] = card[t] \/ ~standby[str[t]]
  /\ Goto(t, "unlock")
  /\ UNCHANGED <<streamVars, locks, cardVars, local>>

(* out_set_parameters: the profile has the card already, or the stream is  *)
(* active (-ENOSYS).                                                       *)
NothingToRead(t) == /\ OpAt(t, "set", "hasDev")
                    /\ profileCard[Dir(str[t])] = card[t] \/ ~standby[str[t]]
                    /\ LeaveDev(t, "unlock")
                    /\ UNCHANGED <<streamVars, cardVars, local>>

BeginRead(t) == /\ OpAt(t, "set", "hasDev")
                /\ profileCard[Dir(str[t])] # card[t]
                /\ standby[str[t]]
                /\ Goto(t, "read")
                /\ UNCHANGED <<streamVars, locks, cardVars, local>>

(* profile_read_device_info; a card whose info cannot be read is put back. *)
EndRead(t) ==
  /\ OpAt(t, "set", "read")
  /\ \/ profileCard' = [profileCard EXCEPT ![Dir(str[t])] = card[t]]
     \/ UNCHANGED profileCard
  /\ LeaveDev(t, "unlock")
  /\ UNCHANGED <<streamVars, cardNumber, local>>

(* out_get_parameters gives the stream's lock back first, in_get_parameters*)
(* the device's.                                                           *)
GetParameters(t) ==
  /\ OpAt(t, "get", "hasDev")
  /\ \/ /\ str[t] \in Outputs
        /\ lock' = [lock EXCEPT ![str[t]] = None]
        /\ Goto(t, "undev")
        /\ UNCHANGED <<preLock, devLock>>
     \/ str[t] \notin Outputs /\ LeaveDev(t, "unlock")
  /\ UNCHANGED <<streamVars, cardVars, local>>

Undev(t) == /\ pc[t] = "undev" \/ OpAt(t, "device", "hasDev")
            /\ devLock' = None
            /\ Return(t)
            /\ UNCHANGED <<streamVars, preLock, lock, cardVars>>

(* adev_open_output_stream and adev_open_input_stream set the profile's    *)
(* card and read its info, whatever comes of it.                           *)
OpenRead(t) ==
  /\ OpAt(t, "open", "read")
  /\ profileCard' = [profileCard EXCEPT ![Dir(str[t])] = card[t]]
  /\ LeaveDev(t, "prepare")
  /\ UNCHANGED <<streamVars, cardNumber, local>>

(* Only an input is refused for its configuration.                         *)
Prepare(t) ==
  /\ pc[t] = "prepare"
  /\ \/ /\ opened' = opened \cup {str[t]}
        /\ standby' = [standby EXCEPT ![str[t]] = TRUE]
     \/ str[t] \notin Outputs /\ UNCHANGED <<opened, standby>>
  /\ Return(t)
  /\ UNCHANGED <<handles, locks, cardVars>>

(* proxy_write or proxy_read; its failure changes nothing here.            *)
Io(t) == /\ pc[t] = "io"
         /\ Goto(t, "unlock")
         /\ UNCHANGED <<streamVars, locks, cardVars, local>>

Unlock(t) == /\ pc[t] = "unlock"
             /\ lock' = [lock EXCEPT ![str[t]] = None]
             /\ Return(t)
             /\ UNCHANGED <<streamVars, preLock, devLock, cardVars>>

-----------------------------------------------------------------------------
Begin == \/ \E s \in Streams : Transfer(s)
         \/ \E t \in Control :
              \/ DeviceCall(t)
              \/ \E s \in Streams : Ask(t, s) \/ SetParameters(t, s) \/ Open(t, s) \/ Close(t, s)

UnderDev(t) == \/ StartStream(t) \/ StartFails(t) \/ StopStream(t)
               \/ NothingToRead(t) \/ BeginRead(t) \/ EndRead(t)
               \/ GetParameters(t) \/ Undev(t) \/ OpenRead(t)

Parse(t) == ParseCached(t) \/ ParseSearch(t) \/ CardFound(t) \/ NoCardFound(t)

(* A step that waits for nobody.                                           *)
Run(t) == Parse(t) \/ Body(t) \/ UnderDev(t) \/ Prepare(t) \/ Io(t) \/ Unlock(t)

Next == Begin \/ \E t \in Threads : TakePre(t) \/ TakeLock(t) \/ TakeDev(t) \/ Run(t)

Spec == Init /\ [][Next]_vars

(* A pre_lock is held only until the lock is free, and the device's lock   *)
(* only to open, close or look at the device, so a thread that keeps       *)
(* trying gets them (SF).  A transfer thread holds the lock of its stream  *)
(* nearly all the time, so the lock is only given to a thread that may     *)
(* have it for as long as it wants (WF).                                   *)
Fairness == \A t \in Threads : /\ WF_vars(Run(t))
                               /\ WF_vars(TakeLock(t))
                               /\ SF_vars(TakePre(t))
                               /\ SF_vars(TakeDev(t))

FairSpec == Spec /\ Fairness

-----------------------------------------------------------------------------
(* Type invariant; a stream never holds two PCM handles.                   *)
TypeOK ==
  /\ opened \subseteq Streams
  /\ standby \in [Streams -> BOOLEAN]
  /\ handles \in [Streams -> {0, 1}]
  /\ preLock \in [Streams -> Threads \cup {None}]
  /\ lock \in [Streams -> Threads \cup {None}]
  /\ devLock \in Threads \cup {None}
  /\ cardNumber \in [Dirs -> Cards \cup {None}]
  /\ profileCard \in [Dirs -> Cards \cup {None}]
  /\ pc \in [Threads -> Places]
  /\ op \in [Threads -> Ops]
  /\ str \in [Threads -> Streams \cup {None}]
  /\ card \in [Threads -> Cards \cup {None}]

(* Whenever nobody has a stream's lock, its PCM is open exactly if the     *)
(* stream is not in standby, and once a stream is closed its PCM is too:   *)
(* no order of transfer, standby and close leaks the PCM                   *)
(* (audio_hal.c:392-405, 488-503, 713-727).                                *)
PcmMatchesStandby ==
  \A s \in Streams :
    /\ lock[s] = None => handles[s] = IF standby[s] THEN 0 ELSE 1
    /\ s \notin opened /\ Unused(s) => handles[s] = 0

(* proxy_write and proxy_read find the PCM open, although standby is asked *)
(* for under the lock, acted on under the device's lock too, and changed   *)
(* by other threads while this one waits (audio_hal.c:488-503, 876-891).   *)
TransfersHavePcm == \A t \in Threads : pc[t] = "io" => handles[str[t]] = 1

(* The holder of the lock that thread t waits for.                         *)
WaitsFor(t) == CASE pc[t] = "pre"  -> preLock[str[t]]
                 [] pc[t] = "lock" -> lock[str[t]]
                 [] pc[t] = "dev"  -> devLock
                 [] OTHER -> None

Runs(t) == pc[t] # "idle" /\ WaitsFor(t) = None

(* "always take the stream_in or stream_out mutex first, followed by the   *)
(* audio_device mutex" and "pre_lock is always acquired before stream lock"*)
(* (audio_hal.c:146-148): whoever waits for a lock waits, directly or      *)
(* through at most two others that wait themselves, for a thread that can  *)
(* go on.  No calls wait for each other, and none waits for a lock that a  *)
(* call has returned with.                                                 *)
NoDeadlock ==
  \A t \in Threads : WaitsFor(t) # None =>
    \E u, v, w \in Threads : /\ u = WaitsFor(t)
                             /\ v \in {u, WaitsFor(u)}
                             /\ w \in {v, WaitsFor(v)}
                             /\ Runs(w)

(* Device info is never read for a stream that has its own PCM open:       *)
(* set_parameters looks at standby under the lock of the stream and reads  *)
(* later, while a transfer waits for that lock to end standby, and only    *)
(* one that is alone with its stream reads without it                      *)
(* (audio_hal.c:426-446, 633, 1014).                                       *)
InfoReadInStandby == \A t \in Threads : pc[t] = "read" => handles[str[t]] = 0

(* "cannot read pcm device info if playback is active"                     *)
(* (audio_hal.c:433, 822): while device info is read, no stream of that    *)
(* direction has its PCM open.                                             *)
InfoReadOnlyWhenIdle ==
  \A t \in Threads : pc[t] = "read" =>
    \A s \in Streams : Dir(s) = Dir(str[t]) => handles[s] = 0

(* The calls on a stream take effect one after the other, although threads *)
(* make them together: a PCM is opened for a transfer on an open stream    *)
(* only, and standby and close never take it from under a transfer (every  *)
(* call on a stream).                                                      *)
StateOf(s) == IF handles[s] = 1 THEN "active" ELSE IF s \in opened THEN "standby" ELSE "closed"
Abs == INSTANCE AudioStreams WITH stream <- [s \in Streams |-> StateOf(s)],
                                  transferring <- {s \in Streams : pc[s] = "io"}
CallsAreSerial == Abs!StreamsSpec

(* "stream pre_lock is always acquired before stream lock to prevent       *)
(* starvation of control thread" (audio_hal.c:148): every call returns,    *)
(* although the transfer thread asks for the lock again at once.           *)
CallsReturn == \A t \in Threads : pc[t] # "idle" ~> pc[t] = "idle"
=============================================================================
