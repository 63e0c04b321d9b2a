------------------------------ MODULE TeeClients ------------------------------
(***************************************************************************)
(* The library calls that talk to an applet of the secure processor: the   *)
(* TEE client API (libcc54/tee_client_api.c) on top of DxDriver, and the   *)
(* functions that use it (hwk_crypto.c, disk_enc.c, tee_token_lib.c,       *)
(* tee_applet_loading_lib.c, secure_channel.c and sep_keymaster.c).        *)
(*                                                                         *)
(* Each of those functions is a straight line of steps that may each fail, *)
(* followed by a list of labels that undo the steps in reverse order, and  *)
(* a failing step jumps to one of the labels.  A function is described by  *)
(* its steps and by the label each step jumps to: label j undoes step j,   *)
(* step j - 1, ... 1 and label 0 undoes nothing.  The last step goes to    *)
(* its label whether it fails or not.                                      *)
(***************************************************************************)
EXTENDS DxDriver, Sequences

CONSTANT Clients        \* the functions that the process calls

VARIABLES
  client,       \* function under way, or "none"
  step,         \* its current step, or the step to undo next
  undoing,      \* it has jumped to a label
  context,      \* first word of its TEEC_Context: a descriptor number
  owner,        \* contextP of its TEEC_Session: "null", "wild" or "context"
  session,      \* the driver has a session open on the context's file
  memrefs,      \* steps whose memory is registered on the context's file
  ran,          \* commands of the call that the applet has executed
  result,       \* result of the last call
  outBuffer,    \* secure_channel.c: out_buffer is allocated
  preserve      \* secure_channel.c: preserveBuffer

frame == <<client, step, undoing, context, owner, session, memrefs, ran, result>>
vars == <<driverVars, frame, outBuffer, preserve>>

-----------------------------------------------------------------------------
(* The functions.  "null" and "wild" say what the TEEC_Context and the     *)
(* TEEC_Session hold before they are initialised: zero or anything.        *)
Function(steps, labels, contextIs, sessionIs) ==
  [steps |-> steps, labels |-> labels, contextIs |-> contextIs, sessionIs |-> sessionIs]

KeyIdSteps == <<"lib", "context", "session", "invoke">>
BufferSteps == <<"lib", "context", "session", "mem", "invoke">>
TwoBufferSteps == <<"lib", "context", "session", "mem", "mem", "invoke">>

HwkSsWipe == Function(KeyIdSteps, <<0, 1, 2, 3>>, "wild", "wild")
HwkKeyIdOps == Function(KeyIdSteps, <<0, 1, 2, 3>>, "wild", "wild")
HwkDbg == Function(BufferSteps, <<0, 1, 2, 3, 4>>, "wild", "wild")
(* Fault: a failed registration closes the context before the session.    *)
PassOpsForgetSession == Function(BufferSteps, <<0, 1, 2, 2, 4>>, "wild", "wild")
HwkKeyIdPassOps == Function(BufferSteps, <<0, 1, 2, 3, 4>>, "wild", "wild")
(* Fault: a context that could not be allocated is closed.                 *)
CryptoClosesNoContext == Function(<<"lib", "context", "session", "mem", "mem", "mem", "invoke">>,
                                  <<0, 2, 2, 3, 4, 5, 6>>, "wild", "wild")
HwkCrypto == Function(<<"lib", "context", "session", "mem", "mem", "mem", "invoke">>,
                      <<0, 1, 2, 3, 4, 5, 6>>, "wild", "wild")
CreateDiskEncKey == Function(BufferSteps, <<0, 1, 2, 3, 4>>, "wild", "wild")
VerifyDiskEncMasterkey == Function(BufferSteps, <<0, 1, 2, 3, 4>>, "wild", "wild")
PassToFw == Function(<<"lib", "context", "mem", "session", "invoke">>, <<0, 1, 3, 3, 4>>, "wild", "wild")
SendToSep == Function(TwoBufferSteps, <<1, 2, 3, 4, 5, 5>>, "null", "wild")
(* The response buffer is freed just before its registration is released;  *)
(* the model releases the registration first.                              *)
SecureChannel == Function(<<"lib", "context", "session", "mem", "ask", "malloc", "mem", "invoke">>,
                          <<1, 2, 3, 4, 4, 4, 7, 7>>, "wild", "wild")
(* Fault: a session that could not be opened leaves the context open.      *)
LoadReturnsEarly == Function(<<"context", "session", "mem", "invoke">>, <<2, 0, 2, 2>>, "null", "null")
LoadApplet == Function(<<"context", "session", "mem", "invoke">>, <<2, 2, 2, 2>>, "null", "null")
UnloadApplet == Function(<<"context", "session", "mem", "invoke">>, <<2, 2, 2, 2>>, "wild", "wild")

Functions == [
  hwk_ss_wipe |-> HwkSsWipe, hwk_keyid_ops |-> HwkKeyIdOps, hwk_dbg |-> HwkDbg,
  hwk_keyid_pass_ops |-> HwkKeyIdPassOps, hwk_crypto |-> HwkCrypto,
  tee_create_disk_enc_key |-> CreateDiskEncKey,
  tee_verify_disk_enc_masterkey |-> VerifyDiskEncMasterkey,
  pass_to_fw |-> PassToFw, send_to_sep |-> SendToSep, secure_channel |-> SecureChannel,
  tee_load_applet |-> LoadApplet, tee_unload_applet |-> UnloadApplet]

ASSUME ClientsAssumption == Clients \subseteq DOMAIN Functions

Steps(c) == Functions[c].steps
Last(c) == Len(Steps(c))
Label(c, k) == Functions[c].labels[k]

(* Fault: nobody looks whether a memory could be registered.               *)
ReportedButMem(c, k) == IF Steps(c)[k] \in {"malloc", "mem"} THEN "ok" ELSE "error"
(* What the function returns when step k fails: secure_channel_callback    *)
(* leaves ret at the success of its first command when malloc fails.       *)
Reported(c, k) == IF Steps(c)[k] = "malloc" THEN "ok" ELSE "error"

At(what) == client # "none" /\ ~undoing /\ Steps(client)[step] = what
Undo(what) == client # "none" /\ undoing /\ step > 0 /\ Steps(client)[step] = what

-----------------------------------------------------------------------------
Init == /\ DriverInit
        /\ client = "none"
        /\ step = 0
        /\ undoing = FALSE
        /\ context = Closed
        /\ owner = "null"
        /\ session = FALSE
        /\ memrefs = {}
        /\ ran = 0
        /\ result = "none"
        /\ outBuffer = FALSE
        /\ preserve = FALSE

(* Between two calls the process opens and closes files of its own.        *)
AppFiles == /\ client = "none"
            /\ \E d \in Fd : \/ LowestOf(Free, d) /\ fds' = [fds EXCEPT ![d] = "app"]
                             \/ fds[d] = "app" /\ fds' = [fds EXCEPT ![d] = "free"]
            /\ UNCHANGED <<devPriority, diFileH, rpcFileH, frame, outBuffer, preserve>>

(* ... or uses the library itself (crys_*.c and the RPC stubs).            *)
AppCclib == /\ client = "none"
            /\ DxDI_Open \/ DxDI_Close \/ \E p \in Priorities : DX_CclibSetPriority(p)
            /\ UNCHANGED <<frame, outBuffer, preserve>>

(* A NULL or zero argument, or secure_channel_callback called again while  *)
(* the caller still has the previous response.                             *)
Reject == /\ client = "none"
          /\ result' = "error"
          /\ ran' = 0
          /\ UNCHANGED <<driverVars, client, step, undoing, context, owner, session, memrefs,
                         outBuffer, preserve>>

Call(c) ==
  /\ client = "none"
  /\ c = "secure_channel" => ~preserve
  /\ client' = c
  /\ step' = 1
  /\ undoing' = FALSE
  /\ context' \in IF Functions[c].contextIs = "null" THEN {0} ELSE Fd \cup {Closed}
  /\ owner' = Functions[c].sessionIs
  /\ session' = FALSE
  /\ memrefs' = {}
  /\ ran' = 0
  /\ result' = "none"
  /\ UNCHANGED <<driverVars, outBuffer, preserve>>

(* SECURE_CH_DATA_FREE_RETURN_DATA always succeeds.                        *)
FreeReturnData == /\ client = "none"
                  /\ "secure_channel" \in Clients
                  /\ outBuffer' = FALSE
                  /\ preserve' = FALSE
                  /\ UNCHANGED <<driverVars, frame>>

-----------------------------------------------------------------------------
(* The steps.                                                              *)
(* Fault: the last step falls through instead of going to its label.       *)
NextStepAlways == /\ step' = step + 1
                  /\ UNCHANGED <<client, undoing, result>>

NextStep == /\ step' = IF step = Last(client) THEN Label(client, step) ELSE step + 1
            /\ undoing' = (step = Last(client))
            /\ result' = IF step = Last(client) THEN "ok" ELSE result
            /\ UNCHANGED client

InitLib == /\ At("lib")
           /\ DxDI_Open
           /\ NextStep
           /\ UNCHANGED <<context, owner, session, memrefs, ran, outBuffer, preserve>>

InitializeContext == /\ At("context")
                     /\ context' \in Fd
                     /\ DxDI_SepAppContextAlloc(context')
                     /\ NextStep
                     /\ UNCHANGED <<owner, session, memrefs, ran, outBuffer, preserve>>

OpenSession == /\ At("session")
               /\ session' = TRUE
               /\ owner' = "context"
               /\ NextStep
               /\ UNCHANGED <<driverVars, context, memrefs, ran, outBuffer, preserve>>

RegisterMem == /\ At("mem")
               /\ memrefs' = memrefs \cup {step}
               /\ NextStep
               /\ UNCHANGED <<driverVars, context, owner, session, ran, outBuffer, preserve>>

(* The first command of the secure channel returns the response's size.    *)
AskLength == /\ At("ask")
             /\ ran' = ran + 1
             /\ NextStep
             /\ UNCHANGED <<driverVars, context, owner, session, memrefs, outBuffer, preserve>>

AllocateOutBuffer == /\ At("malloc")
                     /\ outBuffer' = TRUE
                     /\ NextStep
                     /\ UNCHANGED <<driverVars, context, owner, session, memrefs, ran, preserve>>

InvokeCommand == /\ At("invoke")
                 /\ ran' = ran + 1
                 /\ preserve' = (preserve \/ client = "secure_channel")
                 /\ NextStep
                 /\ UNCHANGED <<driverVars, context, owner, session, memrefs, outBuffer>>

(* goto the label, with r to be returned.                                  *)
Jump(r) == /\ step' = Label(client, step)
           /\ undoing' = TRUE
           /\ result' = r
           /\ UNCHANGED client

(* A step fails; a command that fails here has not reached the applet.  A  *)
(* failed TEEC_OpenSession has already set contextP.                       *)
StepFails ==
  /\ client # "none"
  /\ ~undoing
  /\ At("lib") => DxDI_OpenFails
  /\ owner' = IF At("session") THEN "context" ELSE owner
  /\ Jump(Reported(client, step))
  /\ UNCHANGED <<driverVars, context, session, memrefs, ran, outBuffer, preserve>>

(* The applet executes a command, and then fails in it or its answer does  *)
(* not arrive: doIoctl returns an error all the same.                      *)
AnswerLost ==
  /\ At("ask") \/ At("invoke")
  /\ ran' = ran + 1
  /\ Jump("error")
  /\ UNCHANGED <<driverVars, context, owner, session, memrefs, outBuffer, preserve>>

(* The applet answers the first command of the secure channel that there   *)
(* is no response, which is a success.                                     *)
NoResponse ==
  /\ At("ask")
  /\ ran' = ran + 1
  /\ Jump("ok")
  /\ UNCHANGED <<driverVars, context, owner, session, memrefs, outBuffer, preserve>>

-----------------------------------------------------------------------------
(* The labels.                                                             *)
PrevStep == /\ step' = step - 1
            /\ UNCHANGED <<client, undoing, ran, result>>

FiniLib == /\ Undo("lib")
           /\ DxDI_Close
           /\ PrevStep
           /\ UNCHANGED <<context, owner, session, memrefs, outBuffer, preserve>>

(* If it is the context's own file, the driver drops what is left on it.   *)
FinalizeContext ==
  /\ Undo("context")
  /\ DxDI_SepAppContextFree(context)
  /\ context' = Closed
  /\ PrevStep
  /\ session' = FALSE
  /\ memrefs' = {}
  /\ UNCHANGED <<owner, outBuffer, preserve>>

(* With contextP NULL nothing happens.  With contextP never set, the call  *)
(* reads a descriptor number through a wild pointer: at best the driver    *)
(* refuses it, at worst the process dies and is started again.             *)
CloseSession ==
  /\ Undo("session")
  /\ session' = IF owner = "context" THEN FALSE ELSE session
  /\ PrevStep
  /\ UNCHANGED <<driverVars, context, owner, memrefs, outBuffer, preserve>>

Die == /\ Undo("session")
       /\ owner = "wild"
       /\ fds' \in [Fd -> {"free", "app"}]
       /\ diFileH' = Closed
       /\ rpcFileH' = Closed
       /\ devPriority' = 0
       /\ client' = "none"
       /\ step' = 0
       /\ undoing' = FALSE
       /\ context' = Closed
       /\ owner' = "null"
       /\ session' = FALSE
       /\ memrefs' = {}
       /\ ran' = 0
       /\ result' = "none"
       /\ outBuffer' = FALSE
       /\ preserve' = FALSE

(* The identifier of a memory that could not be registered is whatever was *)
(* on the stack: possibly that of another one on this context.             *)
ReleaseMem ==
  /\ Undo("mem")
  /\ IF step \in memrefs THEN memrefs' = memrefs \ {step}
     ELSE \E m \in memrefs \cup {step} : memrefs' = memrefs \ {m}
  /\ PrevStep
  /\ UNCHANGED <<driverVars, context, owner, session, outBuffer, preserve>>

(* Fault: the buffer of a failed call is kept.                             *)
KeepBuffer == /\ Undo("malloc")
              /\ PrevStep
              /\ UNCHANGED <<driverVars, context, owner, session, memrefs, outBuffer, preserve>>

ResetBuffer == /\ Undo("malloc")
               /\ outBuffer' = (outBuffer /\ preserve)
               /\ PrevStep
               /\ UNCHANGED <<driverVars, context, owner, session, memrefs, preserve>>

SkipAsk == /\ Undo("ask")
           /\ PrevStep
           /\ UNCHANGED <<driverVars, context, owner, session, memrefs, outBuffer, preserve>>

Return == /\ client # "none"
          /\ undoing
          /\ step = 0
          /\ client' = "none"
          /\ undoing' = FALSE
          /\ context' = Closed
          /\ owner' = "null"
          /\ UNCHANGED <<driverVars, step, session, memrefs, ran, result, outBuffer, preserve>>

Next == \/ AppFiles \/ AppCclib \/ Reject \/ FreeReturnData
        \/ \E c \in Clients : Call(c)
        \/ InitLib \/ InitializeContext \/ OpenSession \/ RegisterMem
        \/ AskLength \/ AllocateOutBuffer \/ InvokeCommand
        \/ StepFails \/ AnswerLost \/ NoResponse
        \/ FiniLib \/ FinalizeContext \/ CloseSession \/ Die \/ ReleaseMem
        \/ ResetBuffer \/ SkipAsk \/ Return

Spec == Init /\ [][Next]_vars

-----------------------------------------------------------------------------
(* Type invariant.                                                         *)
TypeOK ==
  /\ DriverTypeOK
  /\ client \in Clients \cup {"none"}
  /\ step \in 0..(IF client = "none" THEN 0 ELSE Last(client))
  /\ undoing \in BOOLEAN
  /\ context \in Fd \cup {Closed}
  /\ owner \in {"null", "wild", "context"}
  /\ session \in BOOLEAN
  /\ memrefs \subseteq 1..8
  /\ ran \in Nat
  /\ result \in {"none", "ok", "error"}
  /\ outBuffer \in BOOLEAN
  /\ preserve \in BOOLEAN

(* Whichever step failed, a call that returned has left nothing with the   *)
(* driver: no context file, no session, no registered memory (all the      *)
(* cleanup labels).                                                        *)
NothingLeft == client = "none" =>
  /\ \A d \in Fd : fds[d] # "context"
  /\ ~session
  /\ memrefs = {}

(* The static response buffer of the secure channel is allocated between   *)
(* calls exactly if the last response has not been given back yet: no      *)
(* failure leaks it and no success hands out a freed one (reset_buffer and *)
(* preserveBuffer, secure_channel.c:62-84).                                *)
BufferOwned == client = "none" => (outBuffer <=> preserve)

(* Cleaning up, a call closes only a session that it has opened, on the    *)
(* context that it has allocated, and only a context's file: no failing    *)
(* step jumps to a label whose object does not exist (the goto labels of   *)
(* hwk_crypto.c, disk_enc.c and tee_token_lib.c; only pass_to_fw releases  *)
(* a memory that it could not register).                                   *)
ClosesOnlyOpened ==
  /\ Undo("session") => session /\ owner = "context"
  /\ Undo("session") \/ Undo("context") => context \in Fd /\ fds[context] = "context"

(* A context's file is closed after its session and its registered         *)
(* memory, not instead of them (hwk_crypto.c:301-311).                     *)
ContextClosedLast ==
  [][\A d \in Fd : fds[d] = "context" /\ fds'[d] # "context" => ~session /\ memrefs = {}]_vars

(* "contextP A reference to a context data buffer initialized with         *)
(* DxDI_SepAppContextAlloc" (driver_interface.c:1116): a library call      *)
(* closes no file that the process opened for itself.                      *)
AppFilesKept ==
  [][client # "none" => \A d \in Fd : fds[d] = "app" => fds'[d] = "app"]_vars

(* "returns 0 on SUCCESS, any other value on error" (secure_channel.h:33): *)
(* once the applet has announced a response, the call gives it to its      *)
(* caller or reports an error.                                             *)
ResponseOrError ==
  [][client = "secure_channel" /\ step > 5 /\ ~undoing /\ undoing'
       => preserve' \/ result' = "error"]_vars

(* A call runs its command at most once, answers ok only if the command    *)
(* ran, and does not touch the process's own files, whichever step fails,  *)
(* whichever answer is lost and whoever else uses the library (the clients *)
(* with exact labels).                                                     *)
Abs == INSTANCE TeeCall WITH
         Files <- Fd,
         files <- {d \in Fd : fds[d] = "app"},
         call <- client,
         answer <- IF client = "none" THEN result ELSE "none"
KeepsCallPromise == Abs!CallSpec
=============================================================================
