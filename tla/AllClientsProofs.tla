-------------------------- MODULE AllClientsProofs --------------------------
(***************************************************************************)
(* What holds of TeeClients for every set of functions, also of those      *)
(* whose labels are not exact: some close a context that they have not     *)
(* opened, a session that they have not set up or a memory that they could *)
(* not register (send_to_sep, secure_channel_callback, tee_load_applet and *)
(* tee_unload_applet).                                                     *)
(***************************************************************************)
EXTENDS TeeClientsProofs

(* Step j allocates the context, whatever is done on it comes later, and   *)
(* no label of a later step leaves it out.                                 *)
ContextAt(c, j) ==
  \A k \in 1..Last(c) : /\ Steps(c)[k] = "context" <=> k = j
                        /\ Steps(c)[k] \in {"session", "mem"} => k > j
                        /\ k > j => Label(c, k) >= j

(* The labels of a function are its own, the command is its last step, and *)
(* only secure_channel_callback has steps that may fail without an error.  *)
Shape(c) ==
  /\ Last(c) \in 1..8
  /\ \A k \in 1..Last(c) : /\ Label(c, k) \in 0..Last(c)
                           /\ Steps(c)[k] \in {"ask", "malloc"} => c = "secure_channel"
                           /\ Steps(c)[k] = "invoke" <=> k = Last(c)
  /\ \E j \in 1..Last(c) : ContextAt(c, j)

LEMMA RegularShape ==
  ASSUME NEW c, Regular(c)
  PROVE  Shape(c)
<1>1. Last(c) \in 3..8
  BY DEF Regular
<1>2. ASSUME NEW k \in 1..Last(c)
      PROVE  /\ Label(c, k) \in 0..Last(c)
             /\ Steps(c)[k] \notin {"ask", "malloc"}
             /\ Steps(c)[k] = "invoke" <=> k = Last(c)
  BY <1>1 DEF Regular
<1>3. ContextAt(c, 2)
  <2> SUFFICES ASSUME NEW k \in 1..Last(c)
               PROVE  /\ Steps(c)[k] = "context" <=> k = 2
                      /\ Steps(c)[k] \in {"session", "mem"} => k > 2
                      /\ k > 2 => Label(c, k) >= 2
    BY DEF ContextAt
  <2>1. /\ Steps(c)[k] = "lib" <=> k = 1
        /\ Steps(c)[k] = "context" <=> k = 2
        /\ Label(c, k) \in {k - 1, k}
    BY DEF Regular
  <2>2. k = 1 \/ k = 2 \/ k > 2
    OBVIOUS
  <2>3. k = 1 => Steps(c)[k] = "lib"
    BY <2>1
  <2>4. k = 2 => Steps(c)[k] = "context"
    BY <2>1
  <2>5. k > 2 => Label(c, k) >= 2
    BY <2>1, <1>1
  <2> QED  BY <2>1, <2>2, <2>3, <2>4, <2>5
<1> QED  BY <1>1, <1>2, <1>3 DEF Shape

(* tee_load_applet and tee_unload_applet.                                  *)
LEMMA AppletShape ==
  ASSUME NEW c,
         Steps(c) = <<"context", "session", "mem", "invoke">>,
         Functions[c].labels = <<2, 2, 2, 2>>
  PROVE  Shape(c)
<1>1. Last(c) = 4
  BY DEF Last
<1>2. ASSUME NEW k \in 1..4
      PROVE  /\ Label(c, k) = 2
             /\ Steps(c)[k] \notin {"ask", "malloc"}
             /\ Steps(c)[k] = "invoke" <=> k = 4
             /\ Steps(c)[k] = "context" <=> k = 1
             /\ Steps(c)[k] \in {"session", "mem"} => k > 1
  <2>1. k = 1 \/ k = 2 \/ k = 3 \/ k = 4
    OBVIOUS
  <2> QED  BY <2>1 DEF Label
<1>3. ContextAt(c, 1)
  BY <1>1, <1>2 DEF ContextAt
<1> QED  BY <1>1, <1>2, <1>3 DEF Shape

LEMMA SendToSepShape == Shape("send_to_sep")
<1>1. Functions["send_to_sep"] = SendToSep
  BY DEF Functions
<1>2. /\ Steps("send_to_sep") = <<"lib", "context", "session", "mem", "mem", "invoke">>
      /\ Functions["send_to_sep"].labels = <<1, 2, 3, 4, 5, 5>>
  BY <1>1 DEF Steps, SendToSep, TwoBufferSteps, Function
<1>3. Last("send_to_sep") = 6
  BY <1>2 DEF Last
<1>4. ASSUME NEW k \in 1..6
      PROVE  /\ Label("send_to_sep", k) \in 0..6
             /\ k > 2 => Label("send_to_sep", k) >= 2
             /\ Steps("send_to_sep")[k] \notin {"ask", "malloc"}
             /\ Steps("send_to_sep")[k] = "invoke" <=> k = 6
             /\ Steps("send_to_sep")[k] = "context" <=> k = 2
             /\ Steps("send_to_sep")[k] \in {"session", "mem"} => k > 2
  <2>1. k = 1 \/ k = 2 \/ k = 3 \/ k = 4 \/ k = 5 \/ k = 6
    OBVIOUS
  <2> QED  BY <2>1, <1>2 DEF Label
<1>5. ContextAt("send_to_sep", 2)
  BY <1>3, <1>4 DEF ContextAt
<1> QED  BY <1>3, <1>4, <1>5 DEF Shape

(* The buffer is allocated by step 6, and no label from before it is after *)
(* it.                                                                     *)
LEMMA SecureChannelSteps ==
  /\ Last("secure_channel") = 8
  /\ \A k \in 1..8 : /\ Steps("secure_channel")[k] = "malloc" <=> k = 6
                     /\ Steps("secure_channel")[k] = "invoke" <=> k = 8
                     /\ Label("secure_channel", k) = IF k < 4 THEN k
                                                       ELSE IF k < 7 THEN 4 ELSE 7
<1>1. Functions["secure_channel"] = SecureChannel
  BY DEF Functions
<1>2. /\ Steps("secure_channel")
           = <<"lib", "context", "session", "mem", "ask", "malloc", "mem", "invoke">>
      /\ Functions["secure_channel"].labels = <<1, 2, 3, 4, 4, 4, 7, 7>>
  BY <1>1 DEF Steps, SecureChannel, Function
<1>3. Last("secure_channel") = 8
  BY <1>2 DEF Last
<1>4. ASSUME NEW k \in 1..8
      PROVE  /\ Steps("secure_channel")[k] = "malloc" <=> k = 6
             /\ Steps("secure_channel")[k] = "invoke" <=> k = 8
             /\ Label("secure_channel", k) = IF k < 4 THEN k
                                               ELSE IF k < 7 THEN 4 ELSE 7
  <2>1. k = 1 \/ k = 2 \/ k = 3 \/ k = 4 \/ k = 5 \/ k = 6 \/ k = 7 \/ k = 8
    OBVIOUS
  <2>2. Steps("secure_channel")[k] = "malloc" <=> k = 6
    BY <2>1, <1>2
  <2>3. Steps("secure_channel")[k] = "invoke" <=> k = 8
    BY <2>1, <1>2
  <2>4. Label("secure_channel", k) = IF k < 4 THEN k ELSE IF k < 7 THEN 4 ELSE 7
    BY <2>1, <1>2 DEF Label
  <2> QED  BY <2>2, <2>3, <2>4
<1> QED  BY <1>3, <1>4

LEMMA SecureChannelShape == Shape("secure_channel")
<1>1. /\ Steps("secure_channel")
           = <<"lib", "context", "session", "mem", "ask", "malloc", "mem", "invoke">>
  BY DEF Functions, Steps, SecureChannel, Function
<1>2. ASSUME NEW k \in 1..8
      PROVE  /\ Label("secure_channel", k) \in 0..8
             /\ k > 2 => Label("secure_channel", k) >= 2
    BY SecureChannelSteps
<1>3. ASSUME NEW k \in 1..8
      PROVE  /\ Steps("secure_channel")[k] = "invoke" <=> k = 8
             /\ Steps("secure_channel")[k] = "context" <=> k = 2
             /\ Steps("secure_channel")[k] \in {"session", "mem"} => k > 2
  <2>1. k = 1 \/ k = 2 \/ k = 3 \/ k = 4 \/ k = 5 \/ k = 6 \/ k = 7 \/ k = 8
    OBVIOUS
  <2> QED  BY <2>1, <1>1
<1>4. Last("secure_channel") = 8
  BY SecureChannelSteps
<1>5. ContextAt("secure_channel", 2)
  BY <1>2, <1>3, <1>4 DEF ContextAt
<1> QED  BY <1>2, <1>3, <1>4, <1>5 DEF Shape

LEMMA AllShapes == \A c \in DOMAIN Functions : Shape(c)
<1>1. \A c \in RegularNames : Shape(c)
  BY RegularFunctions, RegularShape
<1>2. Shape("tee_load_applet")
  <2>1. Functions["tee_load_applet"] = LoadApplet
    BY DEF Functions
  <2> QED  BY <2>1, AppletShape DEF Steps, LoadApplet, Function
<1>3. Shape("tee_unload_applet")
  <2>1. Functions["tee_unload_applet"] = UnloadApplet
    BY DEF Functions
  <2> QED  BY <2>1, AppletShape DEF Steps, UnloadApplet, Function
<1>4. \A c \in DOMAIN Functions :
         c \in RegularNames \cup {"send_to_sep", "secure_channel",
                                  "tee_load_applet", "tee_unload_applet"}
  BY DEF Functions, RegularNames
<1> QED  BY <1>1, <1>2, <1>3, <1>4, SendToSepShape, SecureChannelShape

-----------------------------------------------------------------------------
(* Where the call is.                                                      *)
PlaceInv ==
  /\ client \in Clients \cup {"none"}
  /\ undoing \in BOOLEAN
  /\ client # "none" => step \in 0..Last(client) /\ (~undoing => step >= 1)

LEMMA NoneIsNoClient == "none" \notin Clients
BY ClientsAssumption DEF Functions

LEMMA ClientShape ==
  ASSUME PlaceInv, client # "none"
  PROVE  Shape(client)
BY AllShapes, ClientsAssumption DEF PlaceInv

(* A step that goes on.                                                    *)
LEMMA NextPlace ==
  ASSUME PlaceInv, client # "none", ~undoing, NextStep
  PROVE  PlaceInv'
<1>1. Shape(client) /\ step \in 1..Last(client) /\ client' = client
  BY ClientShape DEF PlaceInv, NextStep, Shape
<1>2. CASE step = Last(client)
  <2>1. step' = Label(client, step) /\ undoing' = TRUE
    BY <1>2 DEF NextStep
  <2>2. step' \in 0..Last(client)
    BY <1>1, <2>1 DEF Shape
  <2>3. client' # "none" => step' \in 0..Last(client') /\ (~undoing' => step' >= 1)
    BY <1>1, <2>1, <2>2
  <2>4. undoing' \in BOOLEAN /\ client' \in Clients \cup {"none"}
    BY <1>1, <2>1 DEF PlaceInv
  <2> QED  BY <2>3, <2>4 DEF PlaceInv
<1>3. CASE step # Last(client)
  <2>1. step' = step + 1 /\ undoing' = FALSE
    BY <1>3 DEF NextStep
  <2>2. step' \in 1..Last(client)
    BY <1>1, <1>3, <2>1 DEF Shape
  <2>3. client' # "none" => step' \in 0..Last(client') /\ (~undoing' => step' >= 1)
    BY <1>1, <2>2 DEF Shape
  <2>4. undoing' \in BOOLEAN /\ client' \in Clients \cup {"none"}
    BY <1>1, <2>1 DEF PlaceInv
  <2> QED  BY <2>3, <2>4 DEF PlaceInv
<1> QED  BY <1>2, <1>3

(* A label is done with.                                                   *)
LEMMA PrevPlace ==
  ASSUME PlaceInv, client # "none", undoing, step > 0, PrevStep
  PROVE  PlaceInv' /\ client' = client /\ undoing' = TRUE /\ step' = step - 1
         /\ UNCHANGED <<ran, result>>
<1>1. Shape(client) /\ step \in 1..Last(client)
  BY ClientShape DEF PlaceInv, Shape
<1> QED  BY <1>1 DEF PlaceInv, PrevStep, Shape

(* Where a call begins or ends, and between calls.                         *)
LEMMA CallPlace ==
  ASSUME NEW c \in Clients, Call(c)
  PROVE  PlaceInv' /\ client' = c /\ c # "none" /\ step' = 1 /\ undoing' = FALSE
<1>1. Shape(c) /\ c # "none"
  BY AllShapes, ClientsAssumption, NoneIsNoClient
<1>2. client' = c /\ step' = 1 /\ undoing' = FALSE
  BY DEF Call
<1>3. step' \in 0..Last(c)
  BY <1>1, <1>2 DEF Shape
<1>4. step' \in 0..Last(client') /\ (~undoing' => step' >= 1)
  BY <1>2, <1>3
<1> QED  BY <1>1, <1>2, <1>4 DEF PlaceInv

LEMMA RestPlace ==
  ASSUME PlaceInv,
         AppFiles \/ AppCclib \/ Reject \/ FreeReturnData \/ Die \/ Return \/ UNCHANGED vars
  PROVE  PlaceInv'
BY DEF PlaceInv, AppFiles, AppCclib, Reject, FreeReturnData, Die, Return, vars, frame

-----------------------------------------------------------------------------
(* What is open on the driver.  From the step that allocates the context   *)
(* until its label has been passed there is something to undo.             *)
Allocation(c) == CHOOSE j \in 1..Last(c) : ContextAt(c, j)
Pending == client # "none" /\ IF undoing THEN step >= Allocation(client)
                                         ELSE step > Allocation(client)

(* Only then a context's file is open, which is the one in the context, or *)
(* a session, or is a memory registered.                                   *)
PendingInv ==
  /\ \A d \in Fd : fds[d] = "context" => Pending /\ d = context
  /\ session \/ memrefs # {} => Pending

AllInv == TypeOK /\ PlaceInv /\ PendingInv

LEMMA AllocationFacts ==
  ASSUME PlaceInv, client # "none"
  PROVE  /\ Allocation(client) \in 1..Last(client)
         /\ Allocation(client) # Last(client)
         /\ Last(client) \in 1..8
         /\ step \in 0..Last(client)
         /\ ContextAt(client, Allocation(client))
<1>1. Shape(client)
  BY ClientShape
<1>2. Allocation(client) \in 1..Last(client) /\ ContextAt(client, Allocation(client))
  BY <1>1 DEF Shape, Allocation
<1>3. Steps(client)[Allocation(client)] = "context"
  BY <1>2 DEF ContextAt
<1>4. Allocation(client) # Last(client)
  BY <1>1, <1>2, <1>3 DEF Shape
<1> QED  BY <1>1, <1>2, <1>4 DEF Shape, PlaceInv

(* What the library does to its own handles opens no context.              *)
NoNewContext == /\ DriverTypeOK'
                /\ \A d \in Fd : fds'[d] = "context" => fds[d] = "context"

LEMMA OpenNoContext ==
  ASSUME DriverTypeOK, DxDI_Open
  PROVE  NoNewContext
<1>1. CASE UNCHANGED driverVars
  BY <1>1 DEF NoNewContext, DriverTypeOK, driverVars
<1>2. CASE OpenQueue0 /\ UNCHANGED devPriority
  BY <1>2 DEF NoNewContext, DriverTypeOK, OpenQueue0, LowestOf, Free, Uses
<1>3. CASE OpenBothQueues /\ UNCHANGED devPriority
  BY <1>3 DEF NoNewContext, DriverTypeOK, OpenBothQueues, LowestOf, Free, Uses
<1> QED  BY <1>1, <1>2, <1>3 DEF DxDI_Open, driverVars

LEMMA CloseNoContext ==
  ASSUME DriverTypeOK, DxDI_Close
  PROVE  NoNewContext
<1>1. CASE UNCHANGED driverVars
  BY <1>1 DEF NoNewContext, DriverTypeOK, driverVars
<1>2. CASE DxDI_IsOpen
  BY <1>2 DEF DxDI_Close, DxDI_IsOpen, NoNewContext, DriverTypeOK, Closed, Uses
<1> QED  BY <1>1, <1>2 DEF DxDI_Close

(* A step that goes on from after the allocation, or a label before the    *)
(* context's, leaves something to undo.                                    *)
LEMMA NextPending ==
  ASSUME PlaceInv, client # "none", ~undoing, NextStep, step >= Allocation(client)
  PROVE  Pending'
<1>1. /\ Allocation(client) \in 1..Last(client) /\ Last(client) \in 1..8 /\ step \in 0..Last(client)
      /\ Allocation(client) # Last(client)
  BY AllocationFacts
<1>2. client' = client
  BY DEF NextStep
<1>3. CASE step = Last(client)
  <2>1. step' = Label(client, step) /\ undoing' = TRUE
    BY <1>3 DEF NextStep
  <2>2. Label(client, step) >= Allocation(client)
    BY <1>1, <1>3, AllocationFacts DEF ContextAt
  <2> QED  BY <1>2, <2>1, <2>2 DEF Pending
<1>4. CASE step # Last(client)
  <2>1. step' = step + 1 /\ undoing' = FALSE
    BY <1>4 DEF NextStep
  <2> QED  BY <1>1, <1>2, <2>1 DEF Pending
<1> QED  BY <1>3, <1>4

LEMMA PrevPending ==
  ASSUME PlaceInv, client # "none", undoing, step > 0, PrevStep, Pending,
         Steps(client)[step] # "context"
  PROVE  Pending'
<1>1. /\ Allocation(client) \in 1..Last(client) /\ Last(client) \in 1..8 /\ step \in 1..Last(client)
      /\ step # Allocation(client)
  BY AllocationFacts DEF ContextAt
<1>2. client' = client /\ undoing' = TRUE /\ step' = step - 1
  BY PrevPlace
<1> QED  BY <1>1, <1>2 DEF Pending

(* A step that goes on leaves one of the answers.                          *)
LEMMA NextAnswer ==
  ASSUME TypeOK, NextStep
  PROVE  result' \in {"none", "ok", "error"}
BY DEF TypeOK, NextStep

LEMMA PlaceType ==
  ASSUME PlaceInv, client # "none"
  PROVE  step \in 0..(IF client = "none" THEN 0 ELSE Last(client))
BY DEF PlaceInv

-----------------------------------------------------------------------------
LEMMA AllInit == Init => AllInv
<1> SUFFICES ASSUME Init PROVE AllInv
  OBVIOUS
<1>1. fds \in [Fd -> {"free", "app"}]
  BY DEF Init, DriverInit
<1>2. \A d \in Fd : fds[d] \in Uses /\ fds[d] # "context"
  BY <1>1 DEF Uses
<1>3. DriverTypeOK
  BY <1>1, <1>2 DEF Init, DriverInit, DriverTypeOK, Priorities
<1>4. step \in 0..(IF client = "none" THEN 0 ELSE Last(client))
  BY DEF Init
<1>5. TypeOK
  BY <1>3, <1>4 DEF Init, TypeOK
<1>6. PlaceInv
  BY DEF Init, PlaceInv
<1> QED  BY <1>2, <1>5, <1>6 DEF Init, AllInv, PendingInv

(* The steps that find no call under way, and the one that begins one.     *)
LEMMA IdleAll ==
  ASSUME AllInv, AppFiles \/ AppCclib \/ Reject \/ FreeReturnData \/ UNCHANGED vars
  PROVE  AllInv'
<1>1. PlaceInv'
  BY RestPlace DEF AllInv
<1>2. CASE AppFiles
  <2>1. \A d \in Fd : fds'[d] = "context" => fds[d] = "context"
    BY <1>2 DEF AppFiles, AllInv, TypeOK, DriverTypeOK
  <2>2. fds' \in [Fd -> Uses]
    BY <1>2 DEF AppFiles, AllInv, TypeOK, DriverTypeOK, Uses
  <2>3. TypeOK'
    BY <1>2, <2>2 DEF AppFiles, frame, AllInv, TypeOK, DriverTypeOK
  <2>4. PendingInv'
    BY <1>2, <2>1 DEF AppFiles, frame, AllInv, PendingInv, Pending
  <2> QED  BY <1>1, <2>3, <2>4 DEF AllInv
<1>3. CASE AppCclib
  <2>1. NoNewContext
    <3>1. ASSUME NEW p \in Priorities, DX_CclibSetPriority(p) PROVE NoNewContext
      BY <3>1 DEF DX_CclibSetPriority, NoNewContext, AllInv, TypeOK, DriverTypeOK
    <3> QED  BY <1>3, <3>1, OpenNoContext, CloseNoContext DEF AppCclib, AllInv, TypeOK
  <2>2. TypeOK'
    BY <1>3, <2>1 DEF AppCclib, frame, NoNewContext, AllInv, TypeOK
  <2>3. PendingInv'
    BY <1>3, <2>1 DEF AppCclib, frame, NoNewContext, AllInv, PendingInv, Pending
  <2> QED  BY <1>1, <2>2, <2>3 DEF AllInv
<1>4. CASE Reject
  BY <1>1, <1>4 DEF Reject, driverVars, AllInv, TypeOK, DriverTypeOK, PendingInv, Pending
<1>5. CASE FreeReturnData \/ UNCHANGED vars
  <2>1. UNCHANGED <<driverVars, frame>> /\ outBuffer' \in BOOLEAN /\ preserve' \in BOOLEAN
    BY <1>5 DEF FreeReturnData, vars, AllInv, TypeOK
  <2>2. TypeOK'
    BY <2>1 DEF driverVars, frame, AllInv, TypeOK, DriverTypeOK
  <2>3. PendingInv'
    BY <2>1 DEF driverVars, frame, AllInv, PendingInv, Pending
  <2> QED  BY <1>1, <2>2, <2>3 DEF AllInv
<1> QED  BY <1>2, <1>3, <1>4, <1>5

LEMMA CallAll ==
  ASSUME AllInv, NEW c \in Clients, Call(c)
  PROVE  AllInv'
<1>1. PlaceInv' /\ client' = c /\ c # "none" /\ step' = 1 /\ undoing' = FALSE
  BY CallPlace
<1>2. UNCHANGED driverVars /\ client = "none" /\ ran' = 0 /\ result' = "none"
  BY DEF Call
<1>3. context' \in Fd \cup {Closed}
  <2>1. 0 \in Fd
    BY MaxFdAssumption DEF Fd
  <2> QED  BY <2>1 DEF Call
<1>4. owner' \in {"null", "wild", "context"}
  <2>1. Functions[c].sessionIs \in {"null", "wild"}
    BY ClientsAssumption DEF Functions, Function, HwkSsWipe, HwkKeyIdOps, HwkDbg, HwkKeyIdPassOps,
       HwkCrypto, CreateDiskEncKey, VerifyDiskEncMasterkey, PassToFw, SendToSep, SecureChannel,
       LoadApplet, UnloadApplet
  <2> QED  BY <2>1 DEF Call
<1>5. (step \in 0..(IF client = "none" THEN 0 ELSE Last(client)))'
  BY <1>1 DEF PlaceInv
<1>6. TypeOK'
  <2>1. ran' \in Nat
    BY <1>2
  <2>2. DriverTypeOK' /\ outBuffer' \in BOOLEAN /\ preserve' \in BOOLEAN
    BY DEF Call, driverVars, AllInv, TypeOK, DriverTypeOK
  <2>3. memrefs' = {} /\ session' = FALSE
    BY DEF Call
  <2> QED  BY <1>1, <1>2, <1>3, <1>4, <1>5, <2>1, <2>2, <2>3, Zenon DEF TypeOK
<1>7. PendingInv'
  BY <1>2 DEF Call, driverVars, AllInv, PendingInv, Pending
<1> QED  BY <1>1, <1>6, <1>7 DEF AllInv

-----------------------------------------------------------------------------
(* The steps that go on.                                                   *)
LEMMA InitLibAll ==
  ASSUME AllInv, InitLib
  PROVE  AllInv'
<1>1. client # "none" /\ ~undoing /\ Steps(client)[step] = "lib" /\ NextStep
  BY DEF InitLib, At
<1>2. PlaceInv' /\ client' = client
  BY <1>1, NextPlace DEF AllInv, NextStep
<1>3. NoNewContext
  BY OpenNoContext DEF InitLib, AllInv, TypeOK
<1>4. result' \in {"none", "ok", "error"}
  BY <1>1, NextAnswer DEF AllInv
<1>5. TypeOK'
  BY <1>1, <1>2, <1>3, <1>4 DEF InitLib, AllInv, TypeOK, NoNewContext, PlaceInv
<1>6. Pending => Pending'
  BY <1>1, NextPending, AllocationFacts DEF AllInv, Pending
<1>7. PendingInv'
  BY <1>3, <1>6 DEF InitLib, AllInv, PendingInv, NoNewContext
<1> QED  BY <1>2, <1>5, <1>7 DEF AllInv

LEMMA InitializeContextAll ==
  ASSUME AllInv, InitializeContext
  PROVE  AllInv'
<1>1. client # "none" /\ ~undoing /\ Steps(client)[step] = "context" /\ NextStep
  BY DEF InitializeContext, At
<1>2. PlaceInv' /\ client' = client
  BY <1>1, NextPlace DEF AllInv, NextStep
<1>3. step = Allocation(client)
  BY <1>1, AllocationFacts DEF AllInv, PlaceInv, ContextAt
<1>4. result' \in {"none", "ok", "error"}
  BY <1>1, NextAnswer DEF AllInv
<1>5. context' \in Fd /\ fds' = [fds EXCEPT ![context'] = "context"] /\ fds \in [Fd -> Uses]
  BY DEF InitializeContext, DxDI_SepAppContextAlloc, AllInv, TypeOK, DriverTypeOK
<1>6. DriverTypeOK'
  BY <1>5 DEF InitializeContext, DxDI_SepAppContextAlloc, AllInv, TypeOK, DriverTypeOK, Uses
<1>7. TypeOK'
  BY <1>1, <1>2, <1>4, <1>5, <1>6 DEF InitializeContext, AllInv, TypeOK, PlaceInv
<1>8. Pending'
  BY <1>1, <1>3, NextPending DEF AllInv, PlaceInv, AllocationFacts
<1>9. \A d \in Fd : fds[d] # "context"
  <2>1. ~Pending
    BY <1>1, <1>3, AllocationFacts DEF AllInv, Pending
  <2> QED  BY <2>1 DEF AllInv, PendingInv
<1>10. PendingInv'
  BY <1>5, <1>8, <1>9 DEF PendingInv
<1> QED  BY <1>2, <1>7, <1>10 DEF AllInv

LEMMA OnContextAll ==
  ASSUME AllInv, OpenSession \/ RegisterMem
  PROVE  AllInv'
<1>1. /\ client # "none" /\ ~undoing /\ Steps(client)[step] \in {"session", "mem"} /\ NextStep
      /\ ran' = ran /\ UNCHANGED <<driverVars, context, outBuffer, preserve>>
  BY DEF OpenSession, RegisterMem, At
<1>2. PlaceInv' /\ client' = client
  BY <1>1, NextPlace DEF AllInv, NextStep
<1>3. step > Allocation(client) /\ step \in 1..8
  BY <1>1, AllocationFacts DEF AllInv, PlaceInv, ContextAt
<1>4. result' \in {"none", "ok", "error"}
  BY <1>1, NextAnswer DEF AllInv
<1>5. /\ memrefs' \subseteq 1..8 /\ session' \in BOOLEAN
      /\ owner' \in {"null", "wild", "context"}
  BY <1>3 DEF OpenSession, RegisterMem, AllInv, TypeOK
<1>6. TypeOK'
  BY <1>1, <1>2, <1>4, <1>5 DEF driverVars, AllInv, TypeOK, DriverTypeOK, PlaceInv
<1>7. Pending'
  BY <1>1, <1>3, NextPending, AllocationFacts DEF AllInv
<1>8. PendingInv'
  BY <1>1, <1>7 DEF driverVars, AllInv, PendingInv
<1> QED  BY <1>2, <1>6, <1>8 DEF AllInv

(* The two commands and the response buffer.                               *)
LEMMA CommandAll ==
  ASSUME AllInv, AskLength \/ AllocateOutBuffer \/ InvokeCommand
  PROVE  AllInv'
<1>1. /\ client # "none" /\ ~undoing /\ NextStep
      /\ UNCHANGED <<driverVars, context, owner, session, memrefs>>
  BY DEF AskLength, AllocateOutBuffer, InvokeCommand, At
<1>2. ran' \in Nat /\ outBuffer' \in BOOLEAN /\ preserve' \in BOOLEAN
  <2>1. ran' = ran + 1 \/ ran' = ran
    BY DEF AskLength, AllocateOutBuffer, InvokeCommand
  <2>2. ran' \in Nat
    BY <2>1 DEF AllInv, TypeOK
  <2>3. outBuffer' \in BOOLEAN /\ preserve' \in BOOLEAN
    BY Zenon DEF AskLength, AllocateOutBuffer, InvokeCommand, AllInv, TypeOK
  <2> QED  BY <2>2, <2>3
<1>3. PlaceInv' /\ client' = client
  BY <1>1, NextPlace DEF AllInv, NextStep
<1>4. result' \in {"none", "ok", "error"}
  BY <1>1, NextAnswer DEF AllInv
<1>5. TypeOK'
  BY <1>1, <1>2, <1>3, <1>4 DEF driverVars, AllInv, TypeOK, DriverTypeOK, PlaceInv
<1>6. Pending => Pending'
  BY <1>1, NextPending, AllocationFacts DEF AllInv, Pending
<1>7. PendingInv'
  BY <1>1, <1>6 DEF driverVars, AllInv, PendingInv
<1> QED  BY <1>3, <1>5, <1>7 DEF AllInv

(* A failing step has allocated nothing; the label of one that came after  *)
(* the allocation still finalizes the context.                             *)
LEMMA JumpAll ==
  ASSUME AllInv, StepFails \/ AnswerLost \/ NoResponse
  PROVE  AllInv'
<1>1. /\ client # "none" /\ ~undoing /\ client' = client /\ undoing' = TRUE
      /\ step' = Label(client, step)
      /\ UNCHANGED <<driverVars, context, session, memrefs, outBuffer, preserve>>
  BY DEF StepFails, AnswerLost, NoResponse, At, Jump
<1>2. /\ ran' \in Nat
      /\ result' \in {"ok", "error"}
      /\ owner' \in {"null", "wild", "context"}
  BY DEF StepFails, AnswerLost, NoResponse, Jump, Reported, AllInv, TypeOK
<1>3. Shape(client) /\ step \in 1..Last(client)
  BY <1>1, ClientShape DEF AllInv, PlaceInv, Shape
<1>4. step' \in 0..Last(client)
  BY <1>1, <1>3 DEF Shape
<1>5. PlaceInv'
  BY <1>1, <1>4 DEF AllInv, PlaceInv
<1>6. TypeOK'
  BY <1>1, <1>2, <1>5 DEF driverVars, AllInv, TypeOK, DriverTypeOK, PlaceInv
<1>7. Pending => Pending'
  <2>1. step > Allocation(client) => step' >= Allocation(client)
    BY <1>1, <1>3, AllocationFacts DEF AllInv, ContextAt
  <2> QED  BY <1>1, <2>1 DEF Pending
<1>8. PendingInv'
  BY <1>1, <1>7 DEF driverVars, AllInv, PendingInv
<1> QED  BY <1>5, <1>6, <1>8 DEF AllInv

-----------------------------------------------------------------------------
(* The labels.                                                             *)
LEMMA FiniLibAll ==
  ASSUME AllInv, FiniLib
  PROVE  AllInv'
<1>1. client # "none" /\ undoing /\ step > 0 /\ Steps(client)[step] = "lib" /\ PrevStep
  BY DEF FiniLib, Undo
<1>2. PlaceInv' /\ client' = client /\ undoing' = TRUE /\ UNCHANGED <<ran, result>>
  BY <1>1, PrevPlace DEF AllInv
<1>3. NoNewContext
  BY CloseNoContext DEF FiniLib, AllInv, TypeOK
<1>4. TypeOK'
  BY <1>1, <1>2, <1>3 DEF FiniLib, AllInv, TypeOK, NoNewContext, PlaceInv
<1>5. Pending => Pending'
  BY <1>1, PrevPending DEF AllInv
<1>6. PendingInv'
  BY <1>3, <1>5 DEF FiniLib, AllInv, PendingInv, NoNewContext
<1> QED  BY <1>2, <1>4, <1>6 DEF AllInv

(* Whatever descriptor the context holds, afterwards no context's file is  *)
(* open, and with it everything on it is gone.                             *)
LEMMA FinalizeContextAll ==
  ASSUME AllInv, FinalizeContext
  PROVE  AllInv'
<1>1. client # "none" /\ undoing /\ step > 0 /\ PrevStep
  BY DEF FinalizeContext, Undo
<1>2. PlaceInv' /\ client' = client /\ undoing' = TRUE /\ UNCHANGED <<ran, result>>
  BY <1>1, PrevPlace DEF AllInv
<1>3. /\ fds' = IF context \in Fd THEN [fds EXCEPT ![context] = "free"] ELSE fds
      /\ UNCHANGED <<devPriority, diFileH, rpcFileH>>
      /\ fds \in [Fd -> Uses]
  BY DEF FinalizeContext, DxDI_SepAppContextFree, AllInv, TypeOK, DriverTypeOK
<1>4. DriverTypeOK'
  BY <1>3 DEF AllInv, TypeOK, DriverTypeOK, Uses
<1>5. TypeOK'
  BY <1>1, <1>2, <1>4 DEF FinalizeContext, AllInv, TypeOK, PlaceInv
<1>6. \A d \in Fd : fds'[d] # "context"
  BY <1>3 DEF AllInv, PendingInv
<1>7. PendingInv'
  BY <1>6 DEF FinalizeContext, PendingInv
<1> QED  BY <1>2, <1>5, <1>7 DEF AllInv

LEMMA OtherLabelsAll ==
  ASSUME AllInv, CloseSession \/ ReleaseMem \/ ResetBuffer \/ SkipAsk
  PROVE  AllInv'
<1>1. /\ client # "none" /\ undoing /\ step > 0 /\ PrevStep
      /\ Steps(client)[step] # "context"
      /\ UNCHANGED <<driverVars, context, owner, preserve>>
  BY DEF CloseSession, ReleaseMem, ResetBuffer, SkipAsk, Undo
<1>2. PlaceInv' /\ client' = client /\ undoing' = TRUE /\ UNCHANGED <<ran, result>>
  BY <1>1, PrevPlace DEF AllInv
<1>3. /\ memrefs' \subseteq memrefs
      /\ session' => session
      /\ session' \in BOOLEAN
      /\ outBuffer' \in BOOLEAN
  <2>1. CASE CloseSession
    BY <2>1 DEF CloseSession, AllInv, TypeOK
  <2>2. CASE ReleaseMem
    BY <2>2 DEF ReleaseMem, AllInv, TypeOK
  <2>3. CASE ResetBuffer \/ SkipAsk
    BY <2>3 DEF ResetBuffer, SkipAsk, AllInv, TypeOK
  <2> QED  BY <2>1, <2>2, <2>3
<1>4. TypeOK'
  BY <1>1, <1>2, <1>3 DEF driverVars, AllInv, TypeOK, DriverTypeOK, PlaceInv
<1>5. Pending => Pending'
  BY <1>1, PrevPending DEF AllInv
<1>6. PendingInv'
  BY <1>1, <1>3, <1>5 DEF driverVars, AllInv, PendingInv
<1> QED  BY <1>2, <1>4, <1>6 DEF AllInv

LEMMA EndAll ==
  ASSUME AllInv, Die \/ Return
  PROVE  AllInv'
<1>1. PlaceInv' /\ client' = "none" /\ undoing' = FALSE
  BY RestPlace DEF AllInv, Die, Return
<1>2. CASE Die
  <2>1. fds' \in [Fd -> {"free", "app"}]
    BY <1>2 DEF Die
  <2>2. fds' \in [Fd -> Uses] /\ \A d \in Fd : fds'[d] # "context"
    BY <2>1 DEF Uses
  <2>3. TypeOK'
    <3>1. (step \in 0..(IF client = "none" THEN 0 ELSE Last(client)))'
      BY <1>1, <1>2 DEF Die
    <3>2. DriverTypeOK'
      BY <1>2, <2>2 DEF Die, DriverTypeOK, Priorities
    <3> QED  BY <1>1, <1>2, <3>1, <3>2 DEF Die, TypeOK
  <2> QED  BY <1>1, <1>2, <2>2, <2>3 DEF Die, AllInv, PendingInv
<1>3. CASE Return
  <2>1. step = 0 /\ undoing /\ client # "none"
    BY <1>3 DEF Return
  <2>2. ~Pending
    BY <2>1, AllocationFacts DEF AllInv, Pending
  <2>3. TypeOK'
    <3>1. (step \in 0..(IF client = "none" THEN 0 ELSE Last(client)))'
      BY <1>1, <1>3, <2>1 DEF Return
    <3>2. DriverTypeOK'
      BY <1>3 DEF Return, driverVars, AllInv, TypeOK, DriverTypeOK
    <3> QED  BY <1>1, <1>3, <3>1, <3>2 DEF Return, AllInv, TypeOK
  <2> QED  BY <1>1, <1>3, <2>2, <2>3 DEF Return, driverVars, AllInv, PendingInv
<1> QED  BY <1>2, <1>3

LEMMA AllNext == AllInv /\ [Next]_vars => AllInv'
BY IdleAll, CallAll, InitLibAll, InitializeContextAll, OnContextAll, CommandAll, JumpAll,
   FiniLibAll, FinalizeContextAll, OtherLabelsAll, EndAll DEF Next

LEMMA AllInvariant == Spec => []AllInv
BY AllInit, AllNext, PTL DEF Spec

(* The type invariant holds whatever functions are called.                 *)
THEOREM TypeCorrectForAll == Spec => []TypeOK
<1>1. AllInv => TypeOK
  BY DEF AllInv
<1> QED  BY <1>1, AllInvariant, PTL

(* Whichever step failed and however inexact its labels, a call that has   *)
(* returned has left no context's file open, no session, and no memory     *)
(* registered.                                                             *)
THEOREM NothingLeftForAll == Spec => []NothingLeft
<1>1. AllInv => NothingLeft
  BY DEF AllInv, PendingInv, Pending, NothingLeft
<1> QED  BY <1>1, AllInvariant, PTL

-----------------------------------------------------------------------------
(* The response buffer of the secure channel.                              *)
(* Going down, the buffer exists from the step that allocates it; going    *)
(* back, past the label that resets it, only if it is preserved, and it is *)
(* never preserved without existing.                                       *)
BufferInv ==
  /\ outBuffer \in BOOLEAN
  /\ preserve \in BOOLEAN
  /\ client # "secure_channel" => (outBuffer <=> preserve)
  /\ client = "secure_channel" /\ ~undoing => ~preserve /\ (outBuffer <=> step > 6)
  /\ client = "secure_channel" /\ undoing => /\ preserve => outBuffer
                                             /\ step < 6 => (outBuffer <=> preserve)

OwnInv == PlaceInv /\ BufferInv

LEMMA OwnInit == Init => OwnInv
BY NoneIsNoClient DEF Init, OwnInv, PlaceInv, BufferInv

(* A step that goes on, and leaves the buffer alone.                       *)
LEMMA OnStep ==
  ASSUME OwnInv, client # "none", ~undoing, NextStep,
         Steps(client)[step] \notin {"malloc", "invoke"},
         UNCHANGED <<outBuffer, preserve>>
  PROVE  OwnInv'
<1>1. Shape(client)
  BY ClientShape DEF OwnInv
<1>2. PlaceInv'
  BY NextPlace DEF OwnInv
<1>3. CASE client = "secure_channel"
  <2>1. step \in 1..8 /\ step # 6 /\ step # 8
    BY <1>3, SecureChannelSteps DEF OwnInv, PlaceInv
  <2> QED  BY <1>2, <1>3, <2>1, SecureChannelSteps DEF OwnInv, PlaceInv, BufferInv, NextStep
<1>4. CASE client # "secure_channel"
  BY <1>2, <1>4 DEF OwnInv, BufferInv, NextStep
<1> QED  BY <1>3, <1>4

(* A label that leaves the buffer alone.                                   *)
LEMMA BackStep ==
  ASSUME OwnInv, client # "none", undoing, step > 0, PrevStep,
         Steps(client)[step] # "malloc",
         UNCHANGED <<outBuffer, preserve>>
  PROVE  OwnInv'
<1>1. Shape(client)
  BY ClientShape DEF OwnInv
<1>2. PlaceInv'
  BY <1>1 DEF OwnInv, PlaceInv, PrevStep, Shape
<1>3. CASE client = "secure_channel"
  <2>1. step \in 1..8 /\ step # 6
    BY <1>3, SecureChannelSteps DEF OwnInv, PlaceInv
  <2> QED  BY <1>2, <1>3, <2>1 DEF OwnInv, BufferInv, PrevStep
<1>4. CASE client # "secure_channel"
  BY <1>2, <1>4 DEF OwnInv, BufferInv, PrevStep
<1> QED  BY <1>3, <1>4

LEMMA AllocateStep ==
  ASSUME OwnInv, AllocateOutBuffer
  PROVE  OwnInv'
<1>1. Shape(client) /\ client # "none" /\ ~undoing /\ Steps(client)[step] = "malloc"
  BY ClientShape DEF OwnInv, AllocateOutBuffer, At
<1>2. client = "secure_channel" /\ step = 6
  BY <1>1, SecureChannelSteps DEF OwnInv, PlaceInv, Shape
<1>3. PlaceInv'
  BY <1>1, NextPlace DEF OwnInv, AllocateOutBuffer
<1>4. outBuffer' = TRUE /\ preserve' = preserve
  BY DEF AllocateOutBuffer
<1>5. client' = client /\ step' = 7 /\ undoing' = FALSE
  <2>1. step # Last(client)
    BY <1>2, SecureChannelSteps
  <2>2. client' = client /\ step' = step + 1
    BY <2>1 DEF AllocateOutBuffer, NextStep
  <2>3. undoing' = FALSE
    BY <2>1 DEF AllocateOutBuffer, NextStep
  <2> QED  BY <1>2, <2>2, <2>3
<1> QED  BY <1>1, <1>2, <1>3, <1>4, <1>5 DEF OwnInv, BufferInv

LEMMA InvokeStep ==
  ASSUME OwnInv, InvokeCommand
  PROVE  OwnInv'
<1>1. Shape(client) /\ client # "none" /\ ~undoing /\ Steps(client)[step] = "invoke"
  BY ClientShape DEF OwnInv, InvokeCommand, At
<1>2. PlaceInv'
  BY <1>1, NextPlace DEF OwnInv, InvokeCommand
<1>3. CASE client = "secure_channel"
  <2>1. step = 8 /\ outBuffer
    BY <1>1, <1>3, SecureChannelSteps DEF OwnInv, PlaceInv, BufferInv
  <2>2. client' = client /\ step' = 7 /\ undoing' = TRUE
    <3>1. step = Last(client) /\ Label(client, step) = 7
      BY <1>3, <2>1, SecureChannelSteps
    <3> QED  BY <3>1 DEF InvokeCommand, NextStep
  <2>3. outBuffer' = TRUE /\ preserve' = TRUE
    BY <1>3, <2>1 DEF InvokeCommand, OwnInv, BufferInv
  <2> QED  BY <1>2, <1>3, <2>2, <2>3 DEF OwnInv, BufferInv
<1>4. CASE client # "secure_channel"
  BY <1>2, <1>4 DEF OwnInv, BufferInv, InvokeCommand, NextStep
<1> QED  BY <1>3, <1>4

(* Where step k fails or ends early, the label is before the reset only if *)
(* nothing was allocated.                                                  *)
LEMMA FailStep ==
  ASSUME OwnInv, StepFails \/ AnswerLost \/ NoResponse
  PROVE  OwnInv'
<1>1. /\ Shape(client) /\ client # "none" /\ ~undoing
      /\ client' = client /\ undoing' /\ step' = Label(client, step)
      /\ UNCHANGED <<outBuffer, preserve>>
  BY ClientShape DEF OwnInv, StepFails, AnswerLost, NoResponse, At, Jump
<1>2. PlaceInv'
  BY <1>1 DEF OwnInv, PlaceInv, Shape
<1>3. CASE client = "secure_channel"
  <2>1. step \in 1..8
    BY <1>1, <1>3, SecureChannelSteps DEF OwnInv, PlaceInv
  <2>2. step' < 6 => step < 7
    BY <1>1, <1>3, <2>1, SecureChannelSteps
  <2> QED  BY <1>1, <1>2, <1>3, <2>1, <2>2 DEF OwnInv, BufferInv
<1>4. CASE client # "secure_channel"
  BY <1>1, <1>2, <1>4 DEF OwnInv, BufferInv
<1> QED  BY <1>3, <1>4

LEMMA ResetStep ==
  ASSUME OwnInv, ResetBuffer
  PROVE  OwnInv'
<1>1. Shape(client) /\ client # "none" /\ undoing /\ step > 0 /\ Steps(client)[step] = "malloc"
  BY ClientShape DEF OwnInv, ResetBuffer, Undo
<1>2. client = "secure_channel"
  BY <1>1 DEF OwnInv, PlaceInv, Shape
<1>3. PlaceInv'
  BY <1>1 DEF OwnInv, PlaceInv, ResetBuffer, PrevStep, Shape
<1>4. preserve' = preserve /\ outBuffer' = (outBuffer /\ preserve) /\ preserve => outBuffer
  BY <1>1, <1>2 DEF OwnInv, BufferInv, ResetBuffer
<1> QED  BY <1>1, <1>2, <1>3, <1>4 DEF OwnInv, BufferInv, ResetBuffer, PrevStep

(* Between calls, and where one begins or ends.                            *)
LEMMA BetweenStep ==
  ASSUME OwnInv,
         \/ AppFiles \/ AppCclib \/ Reject \/ FreeReturnData \/ Die \/ Return
         \/ \E c \in Clients : Call(c)
         \/ UNCHANGED vars
  PROVE  OwnInv'
<1>1. CASE AppFiles \/ AppCclib \/ Reject \/ UNCHANGED vars
  BY <1>1 DEF OwnInv, PlaceInv, BufferInv, AppFiles, AppCclib, Reject, vars, frame
<1>2. CASE FreeReturnData
  BY <1>2 DEF OwnInv, PlaceInv, BufferInv, FreeReturnData, frame
<1>3. CASE Die
  BY <1>3 DEF OwnInv, PlaceInv, BufferInv, Die
<1>4. CASE Return
  <2>1. client' = "none" /\ undoing' = FALSE /\ UNCHANGED <<outBuffer, preserve>>
    BY <1>4 DEF Return
  <2>2. outBuffer <=> preserve
    BY <1>4 DEF Return, OwnInv, BufferInv
  <2>3. PlaceInv'
    BY <2>1 DEF PlaceInv
  <2> QED  BY <2>1, <2>2, <2>3 DEF OwnInv, BufferInv
<1>5. ASSUME NEW c \in Clients, Call(c) PROVE OwnInv'
  <2>1. Shape(c) /\ c # "none"
    BY AllShapes, ClientsAssumption, NoneIsNoClient
  <2>2. client' = c /\ step' = 1 /\ undoing' = FALSE
    BY <1>5 DEF Call
  <2>3. PlaceInv'
    <3>1. step' \in 0..Last(c)
      BY <2>1, <2>2 DEF Shape
    <3>2. step' \in 0..Last(client') /\ (~undoing' => step' >= 1)
      BY <2>2, <3>1
    <3> QED  BY <2>2, <3>2 DEF PlaceInv
  <2> QED  BY <1>5, <2>2, <2>3, NoneIsNoClient DEF OwnInv, BufferInv, Call
<1> QED  BY <1>1, <1>2, <1>3, <1>4, <1>5

LEMMA OwnNext == OwnInv /\ [Next]_vars => OwnInv'
<1> SUFFICES ASSUME OwnInv, [Next]_vars PROVE OwnInv'
  OBVIOUS
<1>1. CASE InitLib \/ InitializeContext \/ OpenSession \/ RegisterMem \/ AskLength
  BY <1>1, OnStep
     DEF InitLib, InitializeContext, OpenSession, RegisterMem, AskLength, At
<1>2. CASE FiniLib \/ FinalizeContext \/ CloseSession \/ ReleaseMem \/ SkipAsk
  BY <1>2, BackStep
     DEF FiniLib, FinalizeContext, CloseSession, ReleaseMem, SkipAsk, Undo
<1> QED  BY <1>1, <1>2, AllocateStep, InvokeStep, FailStep, ResetStep, BetweenStep DEF Next

(* The response buffer is never leaked and never handed out freed, for any *)
(* set of functions and any number of descriptors (secure_channel.c).      *)
THEOREM BufferOwnedCorrect == Spec => []BufferOwned
<1>1. OwnInv => BufferOwned
  BY DEF OwnInv, BufferInv, BufferOwned
<1> QED  BY <1>1, OwnInit, OwnNext, PTL DEF Spec
=============================================================================
