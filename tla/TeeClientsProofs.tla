--------------------------- MODULE TeeClientsProofs ---------------------------
(***************************************************************************)
(* Proofs about TeeClients for every set of regular functions: those whose *)
(* labels never skip a step that succeeded and never undo more than the    *)
(* step that failed, and not even that when it is the start of the         *)
(* library, the context or the session.                                    *)
(***************************************************************************)
EXTENDS TeeClients, TLAPS

(* The one session is opened in step j.                                    *)
SessionAt(c, j) == \A k \in 1..Last(c) : Steps(c)[k] = "session" <=> k = j

(* Step 1 starts the library, step 2 allocates the context, everything     *)
(* else is done on the context, the last step is the only command, and the *)
(* label of step k starts with step k - 1 or with step k itself.           *)
Regular(c) ==
  /\ Last(c) \in 3..8
  /\ \A k \in 1..Last(c) : /\ Label(c, k) \in {k - 1, k}
                           /\ Steps(c)[k] = "lib" <=> k = 1
                           /\ Steps(c)[k] = "context" <=> k = 2
                           /\ Steps(c)[k] = "invoke" <=> k = Last(c)
                           /\ Steps(c)[k] \notin {"ask", "malloc"}
  /\ Label(c, 1) = 0
  /\ Label(c, 2) = 1
  /\ \E j \in 3..8 : SessionAt(c, j) /\ Label(c, j) = j - 1
  /\ Functions[c].contextIs = "wild"
  /\ Functions[c].sessionIs = "wild"

AllRegular == \A c \in Clients : Regular(c)

-----------------------------------------------------------------------------
(* The functions of hwk_crypto.c, disk_enc.c and tee_token_lib.c.          *)
RegularNames == {"hwk_ss_wipe", "hwk_keyid_ops", "hwk_dbg", "hwk_keyid_pass_ops", "hwk_crypto",
                 "tee_create_disk_enc_key", "tee_verify_disk_enc_masterkey", "pass_to_fw"}

(* HwkSsWipe and HwkKeyIdOps undo exactly what succeeded.                  *)
LEMMA KeyIdRegular ==
  ASSUME NEW c,
         Steps(c) = KeyIdSteps,
         Functions[c].labels = <<0, 1, 2, 3>>,
         Functions[c].contextIs = "wild",
         Functions[c].sessionIs = "wild"
  PROVE  Regular(c)
<1>1. Last(c) = 4
  BY DEF Last, KeyIdSteps
<1>2. \A k \in 1..4 : k = 1 \/ k = 2 \/ k = 3 \/ k = 4
  OBVIOUS
<1>3. /\ Steps(c)[1] = "lib"
      /\ Steps(c)[2] = "context"
      /\ Steps(c)[3] = "session"
      /\ Steps(c)[4] = "invoke"
  BY DEF KeyIdSteps
<1>4. /\ Label(c, 1) = 0
      /\ Label(c, 2) = 1
      /\ Label(c, 3) = 2
      /\ Label(c, 4) = 3
  BY DEF Label
<1>5. ASSUME NEW k \in 1..4
      PROVE  /\ Label(c, k) \in {k - 1, k}
             /\ Steps(c)[k] = "lib" <=> k = 1
             /\ Steps(c)[k] = "context" <=> k = 2
             /\ Steps(c)[k] = "invoke" <=> k = 4
             /\ Steps(c)[k] \notin {"ask", "malloc"}
  <2>1. CASE k = 1  BY <2>1, <1>3, <1>4
  <2>2. CASE k = 2  BY <2>2, <1>3, <1>4
  <2>3. CASE k = 3  BY <2>3, <1>3, <1>4
  <2>4. CASE k = 4  BY <2>4, <1>3, <1>4
  <2> QED  BY <1>2, <2>1, <2>2, <2>3, <2>4
<1>6. SessionAt(c, 3) /\ Label(c, 3) = 3 - 1 /\ 3 \in 3..8
  BY <1>1, <1>2, <1>3, <1>4 DEF SessionAt
<1> QED  BY <1>1, <1>4, <1>5, <1>6 DEF Regular

(* HwkDbg, HwkKeyIdPassOps and the two calls of disk_enc.c undo exactly    *)
(* what succeeded.                                                         *)
LEMMA BufferRegular ==
  ASSUME NEW c,
         Steps(c) = BufferSteps,
         Functions[c].labels = <<0, 1, 2, 3, 4>>,
         Functions[c].contextIs = "wild",
         Functions[c].sessionIs = "wild"
  PROVE  Regular(c)
<1>1. Last(c) = 5
  BY DEF Last, BufferSteps
<1>2. \A k \in 1..5 : k = 1 \/ k = 2 \/ k = 3 \/ k = 4 \/ k = 5
  OBVIOUS
<1>3. /\ Steps(c)[1] = "lib"
      /\ Steps(c)[2] = "context"
      /\ Steps(c)[3] = "session"
      /\ Steps(c)[4] = "mem"
      /\ Steps(c)[5] = "invoke"
  BY DEF BufferSteps
<1>4. /\ Label(c, 1) = 0
      /\ Label(c, 2) = 1
      /\ Label(c, 3) = 2
      /\ Label(c, 4) = 3
      /\ Label(c, 5) = 4
  BY DEF Label
<1>5. ASSUME NEW k \in 1..5
      PROVE  /\ Label(c, k) \in {k - 1, k}
             /\ Steps(c)[k] = "lib" <=> k = 1
             /\ Steps(c)[k] = "context" <=> k = 2
             /\ Steps(c)[k] = "invoke" <=> k = 5
             /\ Steps(c)[k] \notin {"ask", "malloc"}
  <2>1. CASE k = 1  BY <2>1, <1>3, <1>4
  <2>2. CASE k = 2  BY <2>2, <1>3, <1>4
  <2>3. CASE k = 3  BY <2>3, <1>3, <1>4
  <2>4. CASE k = 4  BY <2>4, <1>3, <1>4
  <2>5. CASE k = 5  BY <2>5, <1>3, <1>4
  <2> QED  BY <1>2, <2>1, <2>2, <2>3, <2>4, <2>5
<1>6. SessionAt(c, 3) /\ Label(c, 3) = 3 - 1 /\ 3 \in 3..8
  BY <1>1, <1>2, <1>3, <1>4 DEF SessionAt
<1> QED  BY <1>1, <1>4, <1>5, <1>6 DEF Regular

(* HwkCrypto, with three buffers, undoes exactly what succeeded.           *)
LEMMA HwkCryptoRegular ==
  ASSUME NEW c,
         Steps(c) = <<"lib", "context", "session", "mem", "mem", "mem", "invoke">>,
         Functions[c].labels = <<0, 1, 2, 3, 4, 5, 6>>,
         Functions[c].contextIs = "wild",
         Functions[c].sessionIs = "wild"
  PROVE  Regular(c)
<1>1. Last(c) = 7
  BY DEF Last
<1>2. \A k \in 1..7 : k = 1 \/ k = 2 \/ k = 3 \/ k = 4 \/ k = 5 \/ k = 6 \/ k = 7
  OBVIOUS
<1>3. /\ Steps(c)[1] = "lib"
      /\ Steps(c)[2] = "context"
      /\ Steps(c)[3] = "session"
      /\ Steps(c)[4] = "mem"
      /\ Steps(c)[5] = "mem"
      /\ Steps(c)[6] = "mem"
      /\ Steps(c)[7] = "invoke"
  OBVIOUS
<1>4. /\ Label(c, 1) = 0
      /\ Label(c, 2) = 1
      /\ Label(c, 3) = 2
      /\ Label(c, 4) = 3
      /\ Label(c, 5) = 4
      /\ Label(c, 6) = 5
      /\ Label(c, 7) = 6
  BY DEF Label
<1>5. ASSUME NEW k \in 1..7
      PROVE  /\ Label(c, k) \in {k - 1, k}
             /\ Steps(c)[k] = "lib" <=> k = 1
             /\ Steps(c)[k] = "context" <=> k = 2
             /\ Steps(c)[k] = "invoke" <=> k = 7
             /\ Steps(c)[k] \notin {"ask", "malloc"}
  <2>1. CASE k = 1  BY <2>1, <1>3, <1>4
  <2>2. CASE k = 2  BY <2>2, <1>3, <1>4
  <2>3. CASE k = 3  BY <2>3, <1>3, <1>4
  <2>4. CASE k = 4  BY <2>4, <1>3, <1>4
  <2>5. CASE k = 5  BY <2>5, <1>3, <1>4
  <2>6. CASE k = 6  BY <2>6, <1>3, <1>4
  <2>7. CASE k = 7  BY <2>7, <1>3, <1>4
  <2> QED  BY <1>2, <2>1, <2>2, <2>3, <2>4, <2>5, <2>6, <2>7
<1>6. SessionAt(c, 3) /\ Label(c, 3) = 3 - 1 /\ 3 \in 3..8
  BY <1>1, <1>2, <1>3, <1>4 DEF SessionAt
<1> QED  BY <1>1, <1>4, <1>5, <1>6 DEF Regular

(* PassToFw also releases a memory that it could not register.             *)
LEMMA PassToFwRegular ==
  ASSUME NEW c,
         Steps(c) = <<"lib", "context", "mem", "session", "invoke">>,
         Functions[c].labels = <<0, 1, 3, 3, 4>>,
         Functions[c].contextIs = "wild",
         Functions[c].sessionIs = "wild"
  PROVE  Regular(c)
<1>1. Last(c) = 5
  BY DEF Last
<1>2. \A k \in 1..5 : k = 1 \/ k = 2 \/ k = 3 \/ k = 4 \/ k = 5
  OBVIOUS
<1>3. /\ Steps(c)[1] = "lib"
      /\ Steps(c)[2] = "context"
      /\ Steps(c)[3] = "mem"
      /\ Steps(c)[4] = "session"
      /\ Steps(c)[5] = "invoke"
  OBVIOUS
<1>4. /\ Label(c, 1) = 0
      /\ Label(c, 2) = 1
      /\ Label(c, 3) = 3
      /\ Label(c, 4) = 3
      /\ Label(c, 5) = 4
  BY DEF Label
<1>5. ASSUME NEW k \in 1..5
      PROVE  /\ Label(c, k) \in {k - 1, k}
             /\ Steps(c)[k] = "lib" <=> k = 1
             /\ Steps(c)[k] = "context" <=> k = 2
             /\ Steps(c)[k] = "invoke" <=> k = 5
             /\ Steps(c)[k] \notin {"ask", "malloc"}
  <2>1. CASE k = 1  BY <2>1, <1>3, <1>4
  <2>2. CASE k = 2  BY <2>2, <1>3, <1>4
  <2>3. CASE k = 3  BY <2>3, <1>3, <1>4
  <2>4. CASE k = 4  BY <2>4, <1>3, <1>4
  <2>5. CASE k = 5  BY <2>5, <1>3, <1>4
  <2> QED  BY <1>2, <2>1, <2>2, <2>3, <2>4, <2>5
<1>6. SessionAt(c, 4) /\ Label(c, 4) = 4 - 1 /\ 4 \in 3..8
  BY <1>1, <1>2, <1>3, <1>4 DEF SessionAt
<1> QED  BY <1>1, <1>4, <1>5, <1>6 DEF Regular

(* The labels of hwk_crypto.c, disk_enc.c and tee_token_lib.c are exact, so *)
(* the theorems below hold of any process that calls no other functions.   *)
THEOREM RegularFunctions == \A c \in RegularNames : Regular(c)
<1>1. Regular("hwk_ss_wipe")
  <2>1. Functions["hwk_ss_wipe"] = HwkSsWipe
    BY DEF Functions
  <2> QED  BY <2>1, KeyIdRegular DEF Steps, HwkSsWipe, Function
<1>2. Regular("hwk_keyid_ops")
  <2>1. Functions["hwk_keyid_ops"] = HwkKeyIdOps
    BY DEF Functions
  <2> QED  BY <2>1, KeyIdRegular DEF Steps, HwkKeyIdOps, Function
<1>3. Regular("hwk_dbg")
  <2>1. Functions["hwk_dbg"] = HwkDbg
    BY DEF Functions
  <2> QED  BY <2>1, BufferRegular DEF Steps, HwkDbg, Function
<1>4. Regular("hwk_keyid_pass_ops")
  <2>1. Functions["hwk_keyid_pass_ops"] = HwkKeyIdPassOps
    BY DEF Functions
  <2> QED  BY <2>1, BufferRegular DEF Steps, HwkKeyIdPassOps, Function
<1>5. Regular("hwk_crypto")
  <2>1. Functions["hwk_crypto"] = HwkCrypto
    BY DEF Functions
  <2> QED  BY <2>1, HwkCryptoRegular DEF Steps, HwkCrypto, Function
<1>6. Regular("tee_create_disk_enc_key")
  <2>1. Functions["tee_create_disk_enc_key"] = CreateDiskEncKey
    BY DEF Functions
  <2> QED  BY <2>1, BufferRegular DEF Steps, CreateDiskEncKey, Function
<1>7. Regular("tee_verify_disk_enc_masterkey")
  <2>1. Functions["tee_verify_disk_enc_masterkey"] = VerifyDiskEncMasterkey
    BY DEF Functions
  <2> QED  BY <2>1, BufferRegular DEF Steps, VerifyDiskEncMasterkey, Function
<1>8. Regular("pass_to_fw")
  <2>1. Functions["pass_to_fw"] = PassToFw
    BY DEF Functions
  <2> QED  BY <2>1, PassToFwRegular DEF Steps, PassToFw, Function
<1> QED  BY <1>1, <1>2, <1>3, <1>4, <1>5, <1>6, <1>7, <1>8 DEF RegularNames
-----------------------------------------------------------------------------
(* Steps of the call under way that it has done and not yet undone; a      *)
(* failed step counts while its own label is to come.                      *)
Done == IF client = "none" THEN {} ELSE IF undoing THEN 1..step ELSE 1..(step - 1)

(* Where the call is, and what it will answer.                             *)
Progress ==
  /\ client = "none" => step = 0 /\ ~undoing
  /\ client # "none" /\ ~undoing => step >= 1 /\ ran = 0 /\ result = "none"
  /\ undoing => ran \in {0, 1} /\ result \in IF ran = 0 THEN {"error"} ELSE {"ok", "error"}

(* There is one context file, between the two ends of step 2, and the      *)
(* context holds its number.                                               *)
ContextInv ==
  /\ 2 \in Done => context \in Fd /\ fds[context] = "context"
  /\ \A d \in Fd : fds[d] = "context" => 2 \in Done /\ d = context

(* What is on that file belongs to a step that is still to be undone.      *)
OnContextInv ==
  /\ \A m \in memrefs : m \in Done /\ Steps(client)[m] = "mem"
  /\ session => \E s \in Done : Steps(client)[s] = "session"
  /\ \A s \in Done : Steps(client)[s] = "session" => session /\ owner = "context"

IInv == TypeOK /\ HandlesLive /\ Progress /\ ContextInv /\ OnContextInv

-----------------------------------------------------------------------------
(* What every step on the static handles leaves alone.                     *)
Kept == /\ DriverTypeOK'
        /\ HandlesLive'
        /\ \A d \in Fd : /\ fds'[d] = "app" <=> fds[d] = "app"
                         /\ fds'[d] = "context" <=> fds[d] = "context"

(* Opening the library takes free descriptors only.                        *)
LEMMA OpenKeeps ==
  ASSUME DriverTypeOK, HandlesLive, DxDI_Open
  PROVE  Kept
<1>1. CASE UNCHANGED driverVars
  BY <1>1 DEF Kept, DriverTypeOK, HandlesLive, driverVars
<1>2. CASE ~DxDI_IsOpen /\ OpenQueue0 /\ UNCHANGED devPriority
  BY <1>2 DEF Kept, DriverTypeOK, HandlesLive, DxDI_IsOpen, OpenQueue0, LowestOf, Free, Fd, Closed, Uses
<1>3. CASE ~DxDI_IsOpen /\ OpenBothQueues /\ UNCHANGED devPriority
  BY <1>3 DEF Kept, DriverTypeOK, HandlesLive, DxDI_IsOpen, OpenBothQueues, LowestOf, Free, Fd, Closed, Uses
<1> QED  BY <1>1, <1>2, <1>3 DEF DxDI_Open, driverVars

(* Closing the library frees its own descriptors only.                     *)
LEMMA CloseKeeps ==
  ASSUME DriverTypeOK, HandlesLive, DxDI_Close
  PROVE  Kept
<1>1. CASE UNCHANGED driverVars
  BY <1>1 DEF Kept, DriverTypeOK, HandlesLive, driverVars
<1>2. CASE DxDI_IsOpen
  BY <1>2, MaxFdAssumption DEF DxDI_Close, Kept, DriverTypeOK, HandlesLive, DxDI_IsOpen, Fd, Closed, Uses
<1> QED  BY <1>1, <1>2 DEF DxDI_Close

LEMMA PriorityKeeps ==
  ASSUME DriverTypeOK, HandlesLive, NEW p \in Priorities, DX_CclibSetPriority(p)
  PROVE  Kept
BY DEF DX_CclibSetPriority, Kept, DriverTypeOK, HandlesLive

(* The process's own files are the same after a step.                      *)
FilesKept == \A d \in Fd : fds'[d] = "app" <=> fds[d] = "app"

-----------------------------------------------------------------------------
LEMMA InitIInv == Init => IInv
<1> SUFFICES ASSUME Init PROVE IInv
  OBVIOUS
<1>1. fds \in [Fd -> {"free", "app"}]
  BY DEF Init, DriverInit
<1>2. \A d \in Fd : fds[d] \in Uses /\ fds[d] \notin {"di", "rpc", "context"}
  BY <1>1 DEF Uses
<1>3. fds \in [Fd -> Uses]
  BY <1>1, <1>2
<1>4. DriverTypeOK /\ HandlesLive
  BY <1>2, <1>3 DEF Init, DriverInit, DriverTypeOK, HandlesLive, Priorities
<1>5. step \in 0..(IF client = "none" THEN 0 ELSE Last(client))
  BY DEF Init
<1>6. TypeOK
  BY <1>4, <1>5 DEF Init, TypeOK
<1> QED  BY <1>2, <1>4, <1>6 DEF Init, IInv, Progress, ContextInv, OnContextInv, Done

(* The steps that find no call under way.                                  *)
LEMMA IdleStep ==
  ASSUME IInv, client = "none", AppFiles \/ AppCclib \/ Reject \/ FreeReturnData
  PROVE  IInv'
<1> USE DEF IInv
<1>1. CASE AppFiles
  <2>1. fds' \in [Fd -> Uses]
    BY <1>1 DEF AppFiles, TypeOK, DriverTypeOK, Uses
  <2>2. TypeOK' /\ Progress'
    BY <1>1, <2>1 DEF AppFiles, frame, TypeOK, DriverTypeOK, Progress
  <2>3. \A d \in Fd : \A u \in {"di", "rpc", "context"} : fds'[d] = u <=> fds[d] = u
    BY <1>1 DEF AppFiles, LowestOf, Free, TypeOK, DriverTypeOK
  <2>4. HandlesLive'
    BY <1>1, <2>3 DEF AppFiles, HandlesLive, TypeOK, DriverTypeOK, Closed, Fd
  <2> QED  BY <1>1, <2>2, <2>3, <2>4 DEF AppFiles, frame, ContextInv, OnContextInv, Done
<1>2. CASE AppCclib
  <2>1. Kept
    BY <1>2, OpenKeeps, CloseKeeps, PriorityKeeps DEF AppCclib, TypeOK
  <2> QED  BY <1>2, <2>1 DEF AppCclib, frame, Kept, TypeOK, Progress, ContextInv, OnContextInv, Done
<1>3. CASE Reject
  BY <1>3 DEF Reject, driverVars, TypeOK, DriverTypeOK, HandlesLive, Progress, ContextInv, OnContextInv, Done
<1>4. CASE FreeReturnData
  BY <1>4 DEF FreeReturnData, driverVars, frame, TypeOK, DriverTypeOK, HandlesLive, Progress, ContextInv, OnContextInv, Done
<1> QED  BY <1>1, <1>2, <1>3, <1>4

LEMMA CallStep ==
  ASSUME AllRegular, IInv, NEW c \in Clients, Call(c)
  PROVE  IInv'
<1>1. Last(c) \in 3..8 /\ Functions[c].contextIs = "wild" /\ Functions[c].sessionIs = "wild"
  BY DEF AllRegular, Regular
<1>2. c # "none"
  BY ClientsAssumption DEF Functions
<1>3. client' = c /\ step' = 1 /\ ~undoing' /\ Done' = {}
  BY <1>2 DEF Call, Done
<1>4. UNCHANGED driverVars /\ client = "none"
  BY DEF Call
<1>5. (step \in 0..(IF client = "none" THEN 0 ELSE Last(client)))'
  BY <1>1, <1>2, <1>3
<1>6. DriverTypeOK' /\ HandlesLive'
  BY <1>4 DEF IInv, TypeOK, DriverTypeOK, HandlesLive, driverVars
<1>7. TypeOK'
  BY <1>1, <1>3, <1>5, <1>6 DEF IInv, TypeOK, Call
<1>8. Progress'
  BY <1>2, <1>3 DEF Call, Progress
<1>9. ContextInv' /\ OnContextInv'
  BY <1>3, <1>4 DEF IInv, Call, driverVars, ContextInv, OnContextInv, Done
<1> QED  BY <1>6, <1>7, <1>8, <1>9 DEF IInv

-----------------------------------------------------------------------------
(* What is known of the call under way.                                    *)
LEMMA Underway ==
  ASSUME AllRegular, IInv, client # "none"
  PROVE  /\ client \in Clients
         /\ Last(client) \in 3..8
         /\ step \in 0..Last(client)
         /\ ~undoing => step \in 1..Last(client)
         /\ \A k \in 1..Last(client) :
              /\ Label(client, k) \in {k - 1, k}
              /\ Steps(client)[k] = "lib" <=> k = 1
              /\ Steps(client)[k] = "context" <=> k = 2
              /\ Steps(client)[k] = "invoke" <=> k = Last(client)
              /\ Steps(client)[k] \notin {"ask", "malloc"}
         /\ Label(client, 1) = 0
         /\ Label(client, 2) = 1
         /\ \E j \in 3..8 : SessionAt(client, j) /\ Label(client, j) = j - 1
<1>1. client \in Clients /\ step \in 0..Last(client)
  BY DEF IInv, TypeOK
<1>2. Regular(client)
  BY <1>1 DEF AllRegular
<1>3. ~undoing => step >= 1
  BY DEF IInv, Progress
<1> QED  BY <1>1, <1>2, <1>3 DEF Regular

(* A step that succeeds and is not the last: the next one is step + 1.     *)
LEMMA NextStepInside ==
  ASSUME AllRegular, IInv, client # "none", ~undoing, Steps(client)[step] # "invoke", NextStep
  PROVE  /\ client' = client
         /\ step' = step + 1
         /\ (step \in 0..(IF client = "none" THEN 0 ELSE Last(client)))'
         /\ undoing' = FALSE
         /\ result' = "none"
         /\ Done' = Done \cup {step}
         /\ step \notin Done
<1>1. step \in 1..Last(client) /\ step # Last(client) /\ Last(client) \in 3..8
  BY Underway
<1>2. result = "none"
  BY DEF IInv, Progress
<1>3. client' = client /\ step' = step + 1 /\ undoing' = FALSE /\ result' = "none"
  BY <1>1, <1>2 DEF NextStep
<1>4. Done = 1..(step - 1)
  BY DEF Done
<1>5. Done' = 1..step
  BY <1>1, <1>3 DEF Done
<1> QED  BY <1>1, <1>3, <1>4, <1>5

(* A step that undoes: everything below it stays done.                     *)
LEMMA PrevStepInside ==
  ASSUME AllRegular, IInv, client # "none", undoing, step > 0, PrevStep
  PROVE  /\ client' = client
         /\ (step \in 0..(IF client = "none" THEN 0 ELSE Last(client)))'
         /\ undoing' = undoing /\ ran' = ran /\ result' = result
         /\ Done' = Done \ {step}
         /\ step \in Done
<1>1. step \in 1..Last(client) /\ Last(client) \in 3..8
  BY Underway
<1>2. Done = 1..step
  BY DEF Done
<1>3. client' = client /\ step' = step - 1 /\ undoing' = undoing /\ ran' = ran /\ result' = result
  BY DEF PrevStep
<1>4. Done' = 1..(step - 1)
  BY <1>1, <1>3 DEF Done
<1> QED  BY <1>1, <1>2, <1>3, <1>4

-----------------------------------------------------------------------------
(* Starting the library: step 1, before there is a context.                *)
LEMMA InitLibStep ==
  ASSUME AllRegular, IInv, InitLib
  PROVE  IInv'
<1>1. client # "none" /\ ~undoing /\ Steps(client)[step] = "lib"
  BY DEF InitLib, At
<1>2. /\ client' = client /\ step' >= 1 /\ undoing' = FALSE
      /\ (step \in 0..(IF client = "none" THEN 0 ELSE Last(client)))'
      /\ result' = "none" /\ Done' = Done \cup {step}
  BY <1>1, NextStepInside, Underway DEF InitLib
<1>3. step = 1
  BY <1>1, Underway
<1>4. Kept
  BY OpenKeeps DEF InitLib, IInv, TypeOK
<1>5. TypeOK'
  BY <1>1, <1>2, <1>4 DEF InitLib, IInv, TypeOK, Kept
<1>6. Progress'
  BY <1>1, <1>2 DEF InitLib, IInv, Progress
<1>7. ContextInv'
  BY <1>2, <1>3, <1>4 DEF InitLib, IInv, ContextInv, Kept
<1>8. OnContextInv'
  BY <1>1, <1>2 DEF InitLib, IInv, OnContextInv
<1> QED  BY <1>4, <1>5, <1>6, <1>7, <1>8 DEF IInv, Kept

(* Allocating the context: step 2.                                         *)
LEMMA InitializeContextStep ==
  ASSUME AllRegular, IInv, InitializeContext
  PROVE  IInv'
<1>1. client # "none" /\ ~undoing /\ Steps(client)[step] = "context"
  BY DEF InitializeContext, At
<1>2. /\ client' = client /\ step' >= 1 /\ undoing' = FALSE
      /\ (step \in 0..(IF client = "none" THEN 0 ELSE Last(client)))'
      /\ result' = "none" /\ Done' = Done \cup {step} /\ step \notin Done
  BY <1>1, NextStepInside, Underway DEF InitializeContext
<1>3. step = 2
  BY <1>1, Underway
<1>4. /\ context' \in Fd /\ fds[context'] = "free"
      /\ fds' = [fds EXCEPT ![context'] = "context"]
      /\ UNCHANGED <<devPriority, diFileH, rpcFileH>>
  BY DEF InitializeContext, DxDI_SepAppContextAlloc, LowestOf, Free
<1>5. fds \in [Fd -> Uses]
  BY DEF IInv, TypeOK, DriverTypeOK
<1>6. DriverTypeOK'
  BY <1>4, <1>5 DEF IInv, TypeOK, DriverTypeOK, Uses
<1>7. HandlesLive'
  <2>1. \A d \in Fd : \A u \in {"di", "rpc"} : fds'[d] = u <=> fds[d] = u
    BY <1>4, <1>5
  <2> QED  BY <1>4, <2>1 DEF IInv, TypeOK, DriverTypeOK, HandlesLive
<1>8. TypeOK'
  BY <1>1, <1>2, <1>4, <1>6 DEF InitializeContext, IInv, TypeOK
<1>9. Progress'
  BY <1>1, <1>2 DEF InitializeContext, IInv, Progress
<1>10. ContextInv'
  BY <1>2, <1>3, <1>4, <1>5 DEF IInv, ContextInv
<1>11. OnContextInv'
  BY <1>1, <1>2 DEF InitializeContext, IInv, OnContextInv
<1> QED  BY <1>7, <1>8, <1>9, <1>10, <1>11 DEF IInv

(* Opening a session on the context.                                       *)
LEMMA OpenSessionStep ==
  ASSUME AllRegular, IInv, OpenSession
  PROVE  IInv'
<1>1. client # "none" /\ ~undoing /\ Steps(client)[step] = "session"
  BY DEF OpenSession, At
<1>2. /\ client' = client /\ step' >= 1 /\ undoing' = FALSE
      /\ (step \in 0..(IF client = "none" THEN 0 ELSE Last(client)))'
      /\ result' = "none" /\ Done' = Done \cup {step}
  BY <1>1, NextStepInside, Underway DEF OpenSession
<1>3. step # 2
  BY <1>1, Underway
<1>4. DriverTypeOK' /\ HandlesLive'
  BY DEF OpenSession, driverVars, IInv, TypeOK, DriverTypeOK, HandlesLive
<1>5. TypeOK'
  BY <1>1, <1>2, <1>4 DEF OpenSession, IInv, TypeOK
<1>6. Progress'
  BY <1>1, <1>2 DEF OpenSession, IInv, Progress
<1>7. ContextInv'
  BY <1>2, <1>3 DEF OpenSession, driverVars, IInv, ContextInv
<1>8. OnContextInv'
  BY <1>1, <1>2 DEF OpenSession, IInv, OnContextInv
<1> QED  BY <1>4, <1>5, <1>6, <1>7, <1>8 DEF IInv

(* Registering a buffer on the context.                                    *)
LEMMA RegisterMemStep ==
  ASSUME AllRegular, IInv, RegisterMem
  PROVE  IInv'
<1>1. client # "none" /\ ~undoing /\ Steps(client)[step] = "mem"
  BY DEF RegisterMem, At
<1>2. /\ client' = client /\ step' >= 1 /\ undoing' = FALSE
      /\ (step \in 0..(IF client = "none" THEN 0 ELSE Last(client)))'
      /\ result' = "none" /\ Done' = Done \cup {step}
  BY <1>1, NextStepInside, Underway DEF RegisterMem
<1>3. step # 2 /\ step \in 1..8
  BY <1>1, Underway
<1>4. DriverTypeOK' /\ HandlesLive'
  BY DEF RegisterMem, driverVars, IInv, TypeOK, DriverTypeOK, HandlesLive
<1>5. TypeOK'
  BY <1>1, <1>2, <1>3, <1>4 DEF RegisterMem, IInv, TypeOK
<1>6. Progress'
  BY <1>1, <1>2 DEF RegisterMem, IInv, Progress
<1>7. ContextInv'
  BY <1>2, <1>3 DEF RegisterMem, driverVars, IInv, ContextInv
<1>8. OnContextInv'
  BY <1>1, <1>2 DEF RegisterMem, IInv, OnContextInv
<1> QED  BY <1>4, <1>5, <1>6, <1>7, <1>8 DEF IInv

(* The command is the last step; its label is that of step Last - 1 or     *)
(* Last, so nothing of what was done is forgotten, whatever the answer.    *)
LEMMA CommandStep ==
  ASSUME AllRegular, IInv, InvokeCommand \/ AnswerLost
  PROVE  IInv' /\ ran = 0 /\ ran' = 1 /\ client # "none" /\ client' = client
<1>0. client # "none" /\ ~undoing /\ Steps(client)[step] \in {"invoke", "ask"}
  BY DEF InvokeCommand, AnswerLost, At
<1>1. Steps(client)[step] = "invoke"
  BY <1>0, Underway
<1>2. step = Last(client) /\ step \in 3..8 /\ Label(client, step) \in {step - 1, step}
  BY <1>0, <1>1, Underway
<1>3. /\ client' = client /\ undoing' = TRUE /\ result' \in {"ok", "error"}
      /\ step' \in {step - 1, step} /\ ran' = ran + 1
      /\ UNCHANGED <<driverVars, context, owner, session, memrefs, outBuffer>>
      /\ preserve' \in BOOLEAN
  BY <1>2 DEF InvokeCommand, AnswerLost, NextStep, Jump, IInv, TypeOK
<1>4. Done = 1..(step - 1) /\ Done' \in {1..(step - 1), 1..step}
  BY <1>0, <1>2, <1>3 DEF Done
<1>5. (step \in 0..(IF client = "none" THEN 0 ELSE Last(client)))'
  BY <1>0, <1>2, <1>3
<1>6. DriverTypeOK' /\ HandlesLive'
  BY <1>3 DEF driverVars, IInv, TypeOK, DriverTypeOK, HandlesLive
<1>11. ran = 0 /\ ran' = 1
  BY <1>0, <1>3 DEF IInv, Progress
<1>7. TypeOK'
  BY <1>0, <1>3, <1>5, <1>6, <1>11 DEF IInv, TypeOK
<1>8. Progress'
  BY <1>0, <1>3, <1>11 DEF Progress
<1>9. ContextInv'
  BY <1>2, <1>3, <1>4 DEF driverVars, IInv, ContextInv
<1>10. OnContextInv'
  BY <1>1, <1>2, <1>3, <1>4 DEF IInv, OnContextInv
<1> QED  BY <1>0, <1>3, <1>6, <1>7, <1>8, <1>9, <1>10, <1>11 DEF IInv

(* A step fails: the label undoes the steps before it, and at most itself. *)
LEMMA StepFailsStep ==
  ASSUME AllRegular, IInv, StepFails
  PROVE  IInv' /\ UNCHANGED driverVars
<1>1. client # "none" /\ ~undoing /\ step \in 1..Last(client) /\ Last(client) \in 3..8
  BY Underway DEF StepFails
<1>2. /\ Label(client, step) \in {step - 1, step}
      /\ step = 1 => Label(client, step) = 0
      /\ step = 2 => Label(client, step) = 1
      /\ Steps(client)[step] = "session" => Label(client, step) = step - 1
      /\ Steps(client)[step] \notin {"ask", "malloc"}
  BY <1>1, Underway DEF SessionAt
<1>3. /\ client' = client /\ undoing' = TRUE /\ UNCHANGED <<ran, driverVars>> /\ ran = 0
      /\ step' = Label(client, step)
  BY <1>1 DEF StepFails, Jump, IInv, Progress
<1>4. result' = "error"
  BY <1>2 DEF StepFails, Jump, Reported
<1>5. Done = 1..(step - 1) /\ Done' = 1..step'
  BY <1>1, <1>3 DEF Done
<1>6. (step \in 0..(IF client = "none" THEN 0 ELSE Last(client)))'
  BY <1>1, <1>2, <1>3
<1>7. DriverTypeOK' /\ HandlesLive'
  BY <1>3 DEF driverVars, IInv, TypeOK, DriverTypeOK, HandlesLive
<1>8. TypeOK'
  BY <1>1, <1>3, <1>4, <1>6, <1>7 DEF StepFails, IInv, TypeOK
<1>9. Progress'
  BY <1>1, <1>3, <1>4 DEF Progress
<1>10. ContextInv'
  <2>1. 2 \in Done' <=> 2 \in Done
    BY <1>1, <1>2, <1>3, <1>5
  <2> QED  BY <1>3, <2>1 DEF StepFails, driverVars, IInv, ContextInv
<1>11. OnContextInv'
  <2>1. \A s \in Done : s \in Done'
    BY <1>1, <1>2, <1>3, <1>5
  <2>2. \A s \in Done' : s \in Done \/ (s = step /\ Steps(client)[step] # "session")
    BY <1>1, <1>2, <1>3, <1>5
  <2>3. owner' = IF Steps(client)[step] = "session" THEN "context" ELSE owner
    BY <1>1 DEF StepFails, At
  <2>4. \A s \in Done : Steps(client)[s] = "session" => owner' = "context"
    BY <2>3 DEF IInv, OnContextInv
  <2> QED  BY <1>1, <1>3, <2>1, <2>2, <2>4 DEF StepFails, IInv, OnContextInv
<1> QED  BY <1>3, <1>7, <1>8, <1>9, <1>10, <1>11 DEF IInv

-----------------------------------------------------------------------------
(* Stopping the library: step 1, after the context is gone.                *)
LEMMA FiniLibStep ==
  ASSUME AllRegular, IInv, FiniLib
  PROVE  IInv'
<1>1. client # "none" /\ undoing /\ step > 0 /\ Steps(client)[step] = "lib"
  BY DEF FiniLib, Undo
<1>2. /\ client' = client /\ undoing' = undoing /\ ran' = ran /\ result' = result
      /\ (step \in 0..(IF client = "none" THEN 0 ELSE Last(client)))'
      /\ Done' = Done \ {step}
  BY <1>1, PrevStepInside DEF FiniLib
<1>3. step = 1
  BY <1>1, Underway
<1>4. Kept
  BY CloseKeeps DEF FiniLib, IInv, TypeOK
<1>5. TypeOK'
  BY <1>2, <1>4 DEF FiniLib, IInv, TypeOK, Kept
<1>6. Progress'
  BY <1>1, <1>2 DEF IInv, Progress
<1>7. ContextInv'
  BY <1>2, <1>3, <1>4 DEF FiniLib, IInv, ContextInv, Kept
<1>8. OnContextInv'
  BY <1>1, <1>2, <1>3 DEF FiniLib, IInv, OnContextInv
<1> QED  BY <1>4, <1>5, <1>6, <1>7, <1>8 DEF IInv, Kept

(* Closing the context: step 2.  Nothing is left on it, and the descriptor *)
(* closed is the context's.                                                *)
LEMMA FinalizeContextStep ==
  ASSUME AllRegular, IInv, FinalizeContext
  PROVE  /\ IInv'
         /\ ~session /\ memrefs = {}
         /\ \A d \in Fd : fds'[d] = "app" <=> fds[d] = "app"
<1>1. client # "none" /\ undoing /\ step > 0 /\ Steps(client)[step] = "context"
  BY DEF FinalizeContext, Undo
<1>2. /\ client' = client /\ undoing' = undoing /\ ran' = ran /\ result' = result
      /\ (step \in 0..(IF client = "none" THEN 0 ELSE Last(client)))'
      /\ Done' = Done \ {step} /\ step \in Done
  BY <1>1, PrevStepInside DEF FinalizeContext
<1>3. step = 2 /\ Last(client) \in 3..8
  BY <1>1, Underway
<1>4. Done = {1, 2}
  BY <1>1, <1>3 DEF Done
<1>5. Steps(client)[1] = "lib"
  BY <1>1, <1>3, Underway
<1>6. ~session /\ memrefs = {}
  BY <1>1, <1>3, <1>4, <1>5 DEF IInv, OnContextInv
<1>7. context \in Fd /\ fds[context] = "context" /\ \A d \in Fd : fds[d] = "context" => d = context
  BY <1>4 DEF IInv, ContextInv
<1>8. fds \in [Fd -> Uses]
  BY DEF IInv, TypeOK, DriverTypeOK
<1>9. fds' = [fds EXCEPT ![context] = "free"] /\ UNCHANGED <<devPriority, diFileH, rpcFileH>>
  BY <1>7 DEF FinalizeContext, DxDI_SepAppContextFree
<1>10. \A d \in Fd : \A u \in {"app", "di", "rpc"} : fds'[d] = u <=> fds[d] = u
  BY <1>7, <1>8, <1>9
<1>11. DriverTypeOK'
  BY <1>7, <1>8, <1>9 DEF IInv, TypeOK, DriverTypeOK, Uses
<1>12. HandlesLive'
  BY <1>9, <1>10 DEF IInv, TypeOK, DriverTypeOK, HandlesLive
<1>13. TypeOK'
  BY <1>2, <1>11 DEF FinalizeContext, IInv, TypeOK
<1>14. Progress'
  BY <1>1, <1>2 DEF IInv, Progress
<1>15. ContextInv'
  BY <1>2, <1>3, <1>7, <1>8, <1>9 DEF ContextInv
<1>16. OnContextInv'
  <2>1. Done' = {1}
    BY <1>2, <1>3, <1>4
  <2> QED  BY <1>2, <1>5, <2>1 DEF FinalizeContext, OnContextInv
<1> QED  BY <1>6, <1>10, <1>12, <1>13, <1>14, <1>15, <1>16 DEF IInv

(* Closing the session: its owner is the context by now, so it is closed,  *)
(* and never through a wild pointer.                                       *)
LEMMA CloseSessionStep ==
  ASSUME AllRegular, IInv, CloseSession \/ Die
  PROVE  IInv' /\ UNCHANGED driverVars /\ CloseSession /\ ~Die
<1>1. client # "none" /\ undoing /\ step > 0 /\ Steps(client)[step] = "session"
  BY DEF CloseSession, Die, Undo
<1>2. step \in Done
  BY <1>1, Underway DEF Done
<1>3. owner = "context"
  BY <1>1, <1>2 DEF IInv, OnContextInv
<1>4. CloseSession /\ ~Die
  BY <1>3 DEF Die
<1>5. /\ client' = client /\ undoing' = undoing /\ ran' = ran /\ result' = result
      /\ (step \in 0..(IF client = "none" THEN 0 ELSE Last(client)))'
      /\ Done' = Done \ {step}
  BY <1>1, <1>4, PrevStepInside DEF CloseSession
<1>6. step # 2
  BY <1>1, Underway
<1>7. session' = FALSE /\ UNCHANGED <<driverVars, context, owner, memrefs, outBuffer, preserve>>
  BY <1>3, <1>4 DEF CloseSession
<1>8. DriverTypeOK' /\ HandlesLive'
  BY <1>7 DEF driverVars, IInv, TypeOK, DriverTypeOK, HandlesLive
<1>9. TypeOK'
  BY <1>5, <1>7, <1>8 DEF IInv, TypeOK
<1>10. Progress'
  BY <1>1, <1>5 DEF IInv, Progress
<1>11. ContextInv'
  BY <1>5, <1>6, <1>7 DEF driverVars, IInv, ContextInv
<1>12. OnContextInv'
  <2>1. \A s \in Done' : Steps(client)[s] # "session"
    <3>1. \A s \in Done : s \in 1..Last(client)
      BY <1>1, Underway DEF Done
    <3>2. \A s \in 1..Last(client) : Steps(client)[s] = "session" => s = step
      BY <1>1, <1>2, <3>1, Underway DEF SessionAt
    <3> QED  BY <1>5, <3>1, <3>2
  <2> QED  BY <1>1, <1>5, <1>7, <2>1 DEF IInv, OnContextInv
<1> QED  BY <1>4, <1>7, <1>8, <1>9, <1>10, <1>11, <1>12 DEF IInv

(* Releasing a buffer leaves the session and the context.                  *)
LEMMA ReleaseMemStep ==
  ASSUME AllRegular, IInv, ReleaseMem
  PROVE  IInv'
<1>1. client # "none" /\ undoing /\ step > 0 /\ Steps(client)[step] = "mem"
  BY DEF ReleaseMem, Undo
<1>2. /\ client' = client /\ undoing' = undoing /\ ran' = ran /\ result' = result
      /\ (step \in 0..(IF client = "none" THEN 0 ELSE Last(client)))'
      /\ Done' = Done \ {step}
  BY <1>1, PrevStepInside DEF ReleaseMem
<1>3. step # 2
  BY <1>1, Underway
<1>4. memrefs' \subseteq memrefs \ {step}
  BY DEF ReleaseMem
<1>5. UNCHANGED <<driverVars, context, owner, session, outBuffer, preserve>>
  BY DEF ReleaseMem
<1>6. DriverTypeOK' /\ HandlesLive'
  BY <1>5 DEF driverVars, IInv, TypeOK, DriverTypeOK, HandlesLive
<1>7. TypeOK'
  BY <1>2, <1>4, <1>5, <1>6 DEF IInv, TypeOK
<1>8. Progress'
  BY <1>1, <1>2 DEF IInv, Progress
<1>9. ContextInv'
  BY <1>2, <1>3, <1>5 DEF driverVars, IInv, ContextInv
<1>10. OnContextInv'
  BY <1>1, <1>2, <1>4, <1>5 DEF IInv, OnContextInv
<1> QED  BY <1>6, <1>7, <1>8, <1>9, <1>10 DEF IInv

(* The steps of secure_channel.c are in no regular function.               *)
LEMMA NoSecureChannel ==
  ASSUME AllRegular, IInv
  PROVE  ~(AskLength \/ NoResponse \/ AllocateOutBuffer \/ ResetBuffer \/ SkipAsk)
<1>1. ASSUME client # "none", step \in 1..Last(client)
      PROVE  Steps(client)[step] \notin {"ask", "malloc"}
  BY <1>1, Underway
<1> QED  BY <1>1, Underway DEF AskLength, NoResponse, AllocateOutBuffer, ResetBuffer, SkipAsk, At, Undo

LEMMA ReturnStep ==
  ASSUME AllRegular, IInv, Return
  PROVE  IInv'
<1>1. client # "none" /\ undoing /\ step = 0
  BY DEF Return
<1>2. Done = {} /\ Done' = {}
  BY <1>1 DEF Return, Done
<1>3. /\ client' = "none" /\ undoing' = FALSE /\ context' = Closed /\ owner' = "null"
      /\ UNCHANGED <<driverVars, step, session, memrefs, ran, result, outBuffer, preserve>>
  BY DEF Return
<1>4. DriverTypeOK' /\ HandlesLive'
  BY <1>3 DEF driverVars, IInv, TypeOK, DriverTypeOK, HandlesLive
<1>5. (step \in 0..(IF client = "none" THEN 0 ELSE Last(client)))'
  BY <1>1, <1>3
<1>6. TypeOK'
  BY <1>3, <1>4, <1>5 DEF IInv, TypeOK
<1>7. Progress'
  BY <1>1, <1>3 DEF Progress
<1>8. ContextInv' /\ OnContextInv'
  BY <1>2, <1>3 DEF driverVars, IInv, ContextInv, OnContextInv
<1> QED  BY <1>4, <1>6, <1>7, <1>8 DEF IInv

-----------------------------------------------------------------------------
(* The invariant is inductive.                                             *)
LEMMA NextIInv ==
  ASSUME AllRegular, IInv, [Next]_vars
  PROVE  IInv'
<1>1. CASE UNCHANGED vars
  BY <1>1 DEF vars, driverVars, frame, IInv, TypeOK, DriverTypeOK, HandlesLive, Progress,
              ContextInv, OnContextInv, Done
<1>2. CASE AppFiles \/ AppCclib \/ Reject \/ FreeReturnData
  BY <1>2, IdleStep DEF AppFiles, AppCclib, Reject, FreeReturnData
<1>3. CASE \E c \in Clients : Call(c)
  BY <1>3, CallStep
<1>4. CASE InitLib \/ InitializeContext \/ OpenSession \/ RegisterMem \/ InvokeCommand \/ AnswerLost
  BY <1>4, InitLibStep, InitializeContextStep, OpenSessionStep, RegisterMemStep, CommandStep
<1>5. CASE StepFails \/ CloseSession \/ Die \/ ReleaseMem
  BY <1>5, StepFailsStep, CloseSessionStep, ReleaseMemStep
<1>6. CASE FiniLib \/ FinalizeContext \/ Return
  BY <1>6, FiniLibStep, FinalizeContextStep, ReturnStep
<1>7. CASE AskLength \/ NoResponse \/ AllocateOutBuffer \/ ResetBuffer \/ SkipAsk
  BY <1>7, NoSecureChannel
<1> QED  BY <1>1, <1>2, <1>3, <1>4, <1>5, <1>6, <1>7 DEF Next

THEOREM Invariant ==
  ASSUME AllRegular
  PROVE  Spec => []IInv
BY InitIInv, NextIInv, PTL DEF Spec

(* The type invariant holds of every process that calls regular functions. *)
THEOREM TypeCorrect ==
  ASSUME AllRegular
  PROVE  Spec => []TypeOK
<1>1. IInv => TypeOK
  BY DEF IInv
<1> QED  BY <1>1, Invariant, PTL

(* The static handles always stand for the files they were opened on.      *)
THEOREM HandlesLiveCorrect ==
  ASSUME AllRegular
  PROVE  Spec => []HandlesLive
<1>1. IInv => HandlesLive
  BY DEF IInv
<1> QED  BY <1>1, Invariant, PTL

(* What a regular call closes is what it opened.                           *)
THEOREM ClosesOnlyOpenedCorrect ==
  ASSUME AllRegular
  PROVE  Spec => []ClosesOnlyOpened
<1>1. ASSUME IInv PROVE ClosesOnlyOpened
  <2> SUFFICES ASSUME Undo("session") \/ Undo("context")
               PROVE  /\ Undo("session") => session /\ owner = "context"
                      /\ context \in Fd /\ fds[context] = "context"
    BY DEF ClosesOnlyOpened
  <2>1. client # "none" /\ undoing /\ step > 0 /\ step \in 1..Last(client) /\ Last(client) \in 3..8
    BY <1>1, Underway DEF Undo
  <2>2. Steps(client)[1] = "lib"
    BY <1>1, <2>1, Underway
  <2>3. step # 1
    BY <2>2 DEF Undo
  <2>4. step \in Done /\ 2 \in Done
    BY <2>1, <2>3 DEF Done
  <2> QED  BY <1>1, <2>4 DEF Undo, IInv, ContextInv, OnContextInv
<1> QED  BY <1>1, Invariant, PTL

(* A regular call that returned has left nothing with the driver, whichever*)
(* of its steps failed: nothing is done that has not been undone.          *)
THEOREM NothingLeftCorrect ==
  ASSUME AllRegular
  PROVE  Spec => []NothingLeft
<1>1. ASSUME IInv PROVE NothingLeft
  <2>1. SUFFICES ASSUME client = "none" PROVE (\A d \in Fd : fds[d] # "context") /\ ~session /\ memrefs = {}
    BY DEF NothingLeft
  <2>2. Done = {}
    BY <2>1 DEF Done
  <2> QED  BY <1>1, <2>2 DEF IInv, ContextInv, OnContextInv
<1> QED  BY <1>1, Invariant, PTL DEF Spec

-----------------------------------------------------------------------------
(* Only the process itself changes its files, and only between two calls.  *)
LEMMA FilesStep ==
  ASSUME AllRegular, IInv, [Next]_vars, ~AppFiles
  PROVE  FilesKept
<1>1. CASE UNCHANGED driverVars
  BY <1>1 DEF FilesKept, driverVars
<1>2. CASE AppCclib \/ InitLib \/ FiniLib
  <2>1. Kept
    BY <1>2, OpenKeeps, CloseKeeps, PriorityKeeps DEF AppCclib, InitLib, FiniLib, IInv, TypeOK
  <2> QED  BY <2>1 DEF Kept, FilesKept
<1>3. CASE InitializeContext
  <2>1. /\ context' \in Fd /\ fds[context'] = "free"
        /\ fds' = [fds EXCEPT ![context'] = "context"]
    BY <1>3 DEF InitializeContext, DxDI_SepAppContextAlloc, LowestOf, Free
  <2>2. fds \in [Fd -> Uses]
    BY DEF IInv, TypeOK, DriverTypeOK
  <2> QED  BY <2>1, <2>2 DEF FilesKept
<1>4. CASE FinalizeContext
  BY <1>4, FinalizeContextStep DEF FilesKept
<1>5. CASE CloseSession \/ Die
  BY <1>5, <1>1, CloseSessionStep
<1>6. CASE \E c \in Clients : Call(c)
  BY <1>6, <1>1 DEF Call
<1>7. CASE Reject \/ FreeReturnData \/ OpenSession \/ RegisterMem \/ AskLength
             \/ AllocateOutBuffer \/ InvokeCommand \/ StepFails \/ AnswerLost \/ NoResponse
  BY <1>7, <1>1 DEF Reject, FreeReturnData, OpenSession, RegisterMem, AskLength,
                    AllocateOutBuffer, InvokeCommand, StepFails, AnswerLost, NoResponse
<1>8. CASE ReleaseMem \/ ResetBuffer \/ SkipAsk \/ Return \/ UNCHANGED vars
  BY <1>8, <1>1 DEF ReleaseMem, ResetBuffer, SkipAsk, Return, vars
<1> QED  BY <1>2, <1>3, <1>4, <1>5, <1>6, <1>7, <1>8 DEF Next

(* No regular function closes a file of the process, whichever step fails. *)
THEOREM AppFilesKeptCorrect ==
  ASSUME AllRegular
  PROVE  Spec => AppFilesKept
<1>1. IInv /\ [Next]_vars
        => [client # "none" => \A d \in Fd : fds[d] = "app" => fds'[d] = "app"]_vars
  BY FilesStep DEF FilesKept, AppFiles
<1> QED  BY <1>1, Invariant, PTL DEF Spec, AppFilesKept

(* The file of a context is closed only when nothing is left on it.        *)
THEOREM ContextClosedLastCorrect ==
  ASSUME AllRegular
  PROVE  Spec => ContextClosedLast
<1>1. ASSUME IInv, Next, NEW d \in Fd, fds[d] = "context", fds'[d] # "context"
      PROVE  ~session /\ memrefs = {}
  <2>1. CASE AppCclib \/ InitLib \/ FiniLib
    <3>1. Kept
      BY <1>1, <2>1, OpenKeeps, CloseKeeps, PriorityKeeps DEF AppCclib, InitLib, FiniLib, IInv, TypeOK
    <3> QED  BY <1>1, <3>1 DEF Kept
  <2>2. CASE AppFiles
    BY <1>1, <2>2 DEF AppFiles, LowestOf, Free, IInv, TypeOK, DriverTypeOK
  <2>3. CASE InitializeContext
    BY <1>1, <2>3 DEF InitializeContext, DxDI_SepAppContextAlloc, LowestOf, Free, IInv, TypeOK, DriverTypeOK
  <2>4. CASE FinalizeContext
    BY <1>1, <2>4, FinalizeContextStep
  <2>5. CASE CloseSession \/ Die
    BY <1>1, <2>5, CloseSessionStep DEF driverVars
  <2>6. CASE \E c \in Clients : Call(c)
    BY <1>1, <2>6 DEF Call, driverVars
  <2>7. CASE Reject \/ FreeReturnData \/ OpenSession \/ RegisterMem \/ AskLength
               \/ AllocateOutBuffer \/ InvokeCommand \/ StepFails \/ AnswerLost \/ NoResponse
    BY <1>1, <2>7 DEF Reject, FreeReturnData, OpenSession, RegisterMem, AskLength,
                      AllocateOutBuffer, InvokeCommand, StepFails, AnswerLost, NoResponse, driverVars
  <2>8. CASE ReleaseMem \/ ResetBuffer \/ SkipAsk \/ Return
    BY <1>1, <2>8 DEF ReleaseMem, ResetBuffer, SkipAsk, Return, driverVars
  <2> QED  BY <1>1, <2>1, <2>2, <2>3, <2>4, <2>5, <2>6, <2>7, <2>8 DEF Next
<1>2. IInv /\ [Next]_vars
        => [\A d \in Fd : fds[d] = "context" /\ fds'[d] # "context" => ~session /\ memrefs = {}]_vars
  BY <1>1
<1> QED  BY <1>2, Invariant, PTL DEF Spec, ContextClosedLast

-----------------------------------------------------------------------------
(* What the abstract call sees of the files.                               *)
LEMMA SameFiles ==
  ASSUME FilesKept
  PROVE  {d \in Fd : fds[d] = "app"}' = {d \in Fd : fds[d] = "app"}
BY DEF FilesKept

LEMMA AbsInit == Init => Abs!CallInit
BY DEF Init, Abs!CallInit

(* Every step of a regular call is a step of TeeCall or a stutter.         *)
LEMMA AbsStep ==
  ASSUME AllRegular, IInv, [Next]_vars
  PROVE  [Abs!CallNext]_Abs!callVars
<1> DEFINE answer == IF client = "none" THEN result ELSE "none"
<1>1. CASE AppFiles
  <2>1. client = "none" /\ UNCHANGED <<client, ran, result>>
    BY <1>1 DEF AppFiles, frame
  <2>2. Abs!FilesChange
    BY <2>1 DEF Abs!FilesChange
  <2> QED  BY <2>2 DEF Abs!CallNext
<1> SUFFICES ASSUME ~AppFiles PROVE [Abs!CallNext]_Abs!callVars
  BY <1>1
<1>2. {d \in Fd : fds[d] = "app"}' = {d \in Fd : fds[d] = "app"}
  BY FilesStep, SameFiles
<1>3. CASE UNCHANGED vars \/ AppCclib \/ FreeReturnData
  <2>1. UNCHANGED <<client, ran, result>>
    BY <1>3 DEF vars, frame, AppCclib, FreeReturnData
  <2> QED  BY <1>2, <2>1 DEF Abs!callVars
<1>4. CASE Reject
  <2>1. Abs!Refuse
    BY <1>2, <1>4 DEF Reject, Abs!Refuse
  <2> QED  BY <2>1 DEF Abs!CallNext
<1>5. CASE \E c \in Clients : Call(c)
  <2>1. PICK c \in Clients : Call(c)
    BY <1>5
  <2>2. c # "none"
    BY ClientsAssumption DEF Functions
  <2>3. Abs!Start(c)
    BY <1>2, <2>1, <2>2 DEF Call, Abs!Start
  <2> QED  BY <2>3 DEF Abs!CallNext
<1>6. CASE InitLib \/ InitializeContext \/ OpenSession \/ RegisterMem
  <2>1. client # "none" /\ UNCHANGED <<client, ran>>
    BY <1>6 DEF InitLib, InitializeContext, OpenSession, RegisterMem, At, NextStep
  <2> QED  BY <1>2, <2>1 DEF Abs!callVars
<1>7. CASE InvokeCommand \/ AnswerLost
  <2>1. client # "none" /\ client' = client /\ ran' = 1 /\ ran = 0
    BY <1>7, CommandStep
  <2>2. Abs!RunCommand
    BY <1>2, <2>1 DEF Abs!RunCommand
  <2> QED  BY <2>2 DEF Abs!CallNext
<1>8. CASE StepFails
  <2>1. client # "none" /\ UNCHANGED <<client, ran>>
    BY <1>8 DEF StepFails, Jump
  <2> QED  BY <1>2, <2>1 DEF Abs!callVars
<1>9. CASE FiniLib \/ FinalizeContext \/ CloseSession \/ Die \/ ReleaseMem
  <2>1. client # "none" /\ UNCHANGED <<client, ran>>
    BY <1>9, CloseSessionStep
       DEF FiniLib, FinalizeContext, CloseSession, ReleaseMem, Undo, PrevStep
  <2> QED  BY <1>2, <2>1 DEF Abs!callVars
<1>10. CASE Return
  <2>1. client # "none" /\ client' = "none" /\ UNCHANGED <<ran, result>>
    BY <1>10 DEF Return
  <2>2. result \in IF ran = 0 THEN {"error"} ELSE {"ok", "error"}
    BY <1>10 DEF Return, IInv, Progress
  <2>3. Abs!Finish
    BY <1>2, <2>1, <2>2 DEF Abs!Finish
  <2> QED  BY <2>3 DEF Abs!CallNext
<1>11. CASE AskLength \/ NoResponse \/ AllocateOutBuffer \/ ResetBuffer \/ SkipAsk
  BY <1>11, NoSecureChannel
<1> QED  BY <1>3, <1>4, <1>5, <1>6, <1>7, <1>8, <1>9, <1>10, <1>11 DEF Next

(* A regular call runs its command at most once, answers ok only if it     *)
(* ran, and leaves the process's files alone, whichever step fails or      *)
(* answer is lost: the driver, the TEE client API and the function         *)
(* together implement TeeCall.                                             *)
THEOREM Refinement ==
  ASSUME AllRegular
  PROVE  Spec => KeepsCallPromise
BY AbsInit, AbsStep, Invariant, PTL DEF Spec, KeepsCallPromise, Abs!CallSpec
=============================================================================
