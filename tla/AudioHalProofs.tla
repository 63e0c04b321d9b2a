---------------------------- MODULE AudioHalProofs ----------------------------
(***************************************************************************)
(* Proofs about AudioHal for every set of streams, control threads and     *)
(* cards.                                                                  *)
(***************************************************************************)
EXTENDS AudioHal, TLAPS

(* A thread from TakeLock until it gives the lock back.                    *)
HasLock(t) == \/ pc[t] \in {"body", "io", "unlock"}
              \/ pc[t] \in {"dev", "hasDev", "read"} /\ op[t] \notin {"open", "device"}

(* Where each call may be, and that it has a stream if it needs one.       *)
PlaceOK(t) ==
  /\ op[t] = "none" <=> pc[t] = "idle"
  /\ op[t] = "device" => pc[t] \in {"dev", "hasDev"}
  /\ op[t] = "open" => pc[t] \in {"dev", "parse", "search", "read", "prepare"}
  /\ op[t] = "set" => pc[t] \in {"parse", "search", "pre", "lock", "body", "dev", "hasDev", "read", "unlock"}
  /\ op[t] = "get" => pc[t] \in {"pre", "lock", "body", "dev", "hasDev", "undev", "unlock"}
  /\ op[t] = "transfer" => pc[t] \in {"pre", "lock", "body", "dev", "hasDev", "io", "unlock"}
  /\ op[t] \in {"standby", "close"} => pc[t] \in {"pre", "lock", "body", "dev", "hasDev", "unlock"}
  /\ op[t] = "position" => pc[t] \in {"pre", "lock", "body", "unlock"}

Shape == \A t \in Threads : /\ PlaceOK(t)
                            /\ op[t] \in {"none", "device"} => str[t] = None
                            /\ op[t] \notin {"none", "device"} => str[t] \in Streams

(* The lock of a stream excludes.                                          *)
Exclusion == \A t \in Threads : HasLock(t) => lock[str[t]] = t

PcmInv == \A s \in Streams : handles[s] = IF standby[s] THEN 0 ELSE 1

(* What a thread saw of standby still holds while it acts on it.           *)
SeenInv == \A t \in Threads :
  /\ op[t] = "transfer" /\ pc[t] \in {"dev", "hasDev"} => standby[str[t]]
  /\ op[t] = "set" /\ pc[t] = "read" => standby[str[t]]

(* A stream is opened and closed by one thread alone, and every other call *)
(* is on an open stream.                                                   *)
AloneInv == \A t \in Threads :
  /\ op[t] \in {"open", "close"} => /\ str[t] \notin opened
                                   /\ \A u \in Threads \ {t} : str[u] # str[t]
  /\ op[t] \in {"transfer", "standby", "set", "get", "position"} => str[t] \in opened

(* A stream that is not open is in standby, or a close will see to it.     *)
ClosedInv == \A s \in Streams \ opened :
  \/ standby[s]
  \/ \E t \in Threads : str[t] = s /\ op[t] = "close" /\ pc[t] # "unlock"

IInv == TypeOK /\ Shape /\ Exclusion /\ PcmInv /\ SeenInv /\ AloneInv /\ ClosedInv

-----------------------------------------------------------------------------
LEMMA InitIInv == Init => IInv
<1> SUFFICES ASSUME Init PROVE IInv
  OBVIOUS
<1>1. TypeOK
  BY DEF Init, TypeOK, Places, Ops
<1>2. Shape /\ Exclusion
  BY ThreadsAssumption DEF Init, Shape, PlaceOK, Exclusion, HasLock, Threads
<1>3. PcmInv /\ SeenInv /\ AloneInv /\ ClosedInv
  BY DEF Init, PcmInv, SeenInv, AloneInv, ClosedInv
<1> QED  BY <1>1, <1>2, <1>3 DEF IInv

(* Calls begin on open streams, and those that open or close a stream on   *)
(* one that nobody uses.                                                   *)
LEMMA TransferStep ==
  ASSUME IInv, NEW t \in Threads, t \in Streams, Transfer(t)
  PROVE  IInv'
<1> USE DEF IInv
<1>1. TypeOK'
  BY DEF TypeOK, Places, Ops, Transfer, Start, Goto, streamVars, locks, cardVars, local
<1>2. Shape'
  BY DEF TypeOK, Shape, PlaceOK, Transfer, Start, Goto, streamVars, locks, cardVars, local
<1>3. Exclusion'
  BY ThreadsAssumption DEF TypeOK, Shape, PlaceOK, Exclusion, HasLock, Transfer, Start, Goto, streamVars, locks, cardVars, local
<1>4. PcmInv'
  BY DEF TypeOK, Shape, PlaceOK, PcmInv, SeenInv, Transfer, Start, Goto, streamVars, locks, cardVars, local
<1>5. SeenInv'
  BY DEF TypeOK, Shape, PlaceOK, Exclusion, HasLock, SeenInv, AloneInv, Transfer, Start, Goto, streamVars, locks, cardVars, local
<1>6. AloneInv'
  BY ThreadsAssumption DEF Threads, TypeOK, Shape, PlaceOK, AloneInv, Transfer, Start, Goto, streamVars, locks, cardVars, local
<1>7. ClosedInv'
  BY DEF TypeOK, Shape, PlaceOK, AloneInv, ClosedInv, Transfer, Start, Goto, streamVars, locks, cardVars, local
<1> QED  BY <1>1, <1>2, <1>3, <1>4, <1>5, <1>6, <1>7

LEMMA AskStep ==
  ASSUME IInv, NEW t \in Threads, NEW s \in Streams, Ask(t, s)
  PROVE  IInv'
<1> USE DEF IInv
<1>1. TypeOK'
  BY DEF TypeOK, Places, Ops, Ask, Start, Goto, streamVars, locks, cardVars, local
<1>2. Shape'
  BY DEF TypeOK, Shape, PlaceOK, Ask, Start, Goto, streamVars, locks, cardVars, local
<1>3. Exclusion'
  BY ThreadsAssumption DEF TypeOK, Shape, PlaceOK, Exclusion, HasLock, Ask, Start, Goto, streamVars, locks, cardVars, local
<1>4. PcmInv'
  BY DEF TypeOK, Shape, PlaceOK, PcmInv, SeenInv, Ask, Start, Goto, streamVars, locks, cardVars, local
<1>5. SeenInv'
  BY DEF TypeOK, Shape, PlaceOK, Exclusion, HasLock, SeenInv, AloneInv, Ask, Start, Goto, streamVars, locks, cardVars, local
<1>6. AloneInv'
  BY ThreadsAssumption DEF Threads, TypeOK, Shape, PlaceOK, AloneInv, Ask, Start, Goto, streamVars, locks, cardVars, local
<1>7. ClosedInv'
  BY DEF TypeOK, Shape, PlaceOK, AloneInv, ClosedInv, Ask, Start, Goto, streamVars, locks, cardVars, local
<1> QED  BY <1>1, <1>2, <1>3, <1>4, <1>5, <1>6, <1>7

LEMMA SetParametersStep ==
  ASSUME IInv, NEW t \in Threads, NEW s \in Streams, SetParameters(t, s)
  PROVE  IInv'
<1> USE DEF IInv
<1>1. TypeOK'
  BY DEF TypeOK, Places, Ops, SetParameters, Start, Goto, streamVars, locks, cardVars, local
<1>2. Shape'
  BY DEF TypeOK, Shape, PlaceOK, SetParameters, Start, Goto, streamVars, locks, cardVars, local
<1>3. Exclusion'
  BY ThreadsAssumption DEF TypeOK, Shape, PlaceOK, Exclusion, HasLock, SetParameters, Start, Goto, streamVars, locks, cardVars, local
<1>4. PcmInv'
  BY DEF TypeOK, Shape, PlaceOK, PcmInv, SeenInv, SetParameters, Start, Goto, streamVars, locks, cardVars, local
<1>5. SeenInv'
  BY DEF TypeOK, Shape, PlaceOK, Exclusion, HasLock, SeenInv, AloneInv, SetParameters, Start, Goto, streamVars, locks, cardVars, local
<1>6. AloneInv'
  BY ThreadsAssumption DEF Threads, TypeOK, Shape, PlaceOK, AloneInv, SetParameters, Start, Goto, streamVars, locks, cardVars, local
<1>7. ClosedInv'
  BY DEF TypeOK, Shape, PlaceOK, AloneInv, ClosedInv, SetParameters, Start, Goto, streamVars, locks, cardVars, local
<1> QED  BY <1>1, <1>2, <1>3, <1>4, <1>5, <1>6, <1>7

LEMMA OpenStep ==
  ASSUME IInv, NEW t \in Threads, NEW s \in Streams, Open(t, s)
  PROVE  IInv'
<1> USE DEF IInv
<1>1. TypeOK'
  BY DEF TypeOK, Places, Ops, Open, Start, Unused, Goto, streamVars, locks, cardVars, local
<1>2. Shape'
  BY DEF TypeOK, Shape, PlaceOK, Open, Start, Unused, Goto, streamVars, locks, cardVars, local
<1>3. Exclusion'
  BY ThreadsAssumption DEF TypeOK, Shape, PlaceOK, Exclusion, HasLock, Open, Start, Unused, Goto, streamVars, locks, cardVars, local
<1>4. PcmInv'
  BY DEF TypeOK, Shape, PlaceOK, PcmInv, SeenInv, Open, Start, Unused, Goto, streamVars, locks, cardVars, local
<1>5. SeenInv'
  BY DEF TypeOK, Shape, PlaceOK, Exclusion, HasLock, SeenInv, AloneInv, Open, Start, Unused, Goto, streamVars, locks, cardVars, local
<1>6. AloneInv'
  BY ThreadsAssumption DEF Threads, TypeOK, Shape, PlaceOK, AloneInv, Open, Start, Unused, Goto, streamVars, locks, cardVars, local
<1>7. ClosedInv'
  BY DEF TypeOK, Shape, PlaceOK, AloneInv, ClosedInv, Open, Start, Unused, Goto, streamVars, locks, cardVars, local
<1> QED  BY <1>1, <1>2, <1>3, <1>4, <1>5, <1>6, <1>7

(* From here on the close has to see to standby.                           *)
LEMMA CloseStep ==
  ASSUME IInv, NEW t \in Threads, NEW s \in Streams, Close(t, s)
  PROVE  IInv'
<1> USE DEF IInv
<1>1. TypeOK'
  BY DEF TypeOK, Places, Ops, Close, Start, Unused, Goto, streamVars, locks, cardVars, local
<1>2. Shape'
  BY DEF TypeOK, Shape, PlaceOK, Close, Start, Unused, Goto, streamVars, locks, cardVars, local
<1>3. Exclusion'
  BY ThreadsAssumption DEF TypeOK, Shape, PlaceOK, Exclusion, HasLock, Close, Start, Unused, Goto, streamVars, locks, cardVars, local
<1>4. PcmInv'
  BY DEF TypeOK, Shape, PlaceOK, PcmInv, SeenInv, Close, Start, Unused, Goto, streamVars, locks, cardVars, local
<1>5. SeenInv'
  BY DEF TypeOK, Shape, PlaceOK, Exclusion, HasLock, SeenInv, AloneInv, Close, Start, Unused, Goto, streamVars, locks, cardVars, local
<1>6. AloneInv'
  BY ThreadsAssumption DEF Threads, TypeOK, Shape, PlaceOK, AloneInv, Close, Start, Unused, Goto, streamVars, locks, cardVars, local
<1>7. ClosedInv'
  BY DEF TypeOK, Shape, PlaceOK, AloneInv, ClosedInv, Close, Start, Unused, Goto, streamVars, locks, cardVars, local
<1> QED  BY <1>1, <1>2, <1>3, <1>4, <1>5, <1>6, <1>7

LEMMA DeviceCallStep ==
  ASSUME IInv, NEW t \in Threads, DeviceCall(t)
  PROVE  IInv'
<1> USE DEF IInv
<1>1. TypeOK'
  BY DEF TypeOK, Places, Ops, DeviceCall, Start, Goto, streamVars, locks, cardVars, local
<1>2. Shape'
  BY DEF TypeOK, Shape, PlaceOK, DeviceCall, Start, Goto, streamVars, locks, cardVars, local
<1>3. Exclusion'
  BY ThreadsAssumption DEF TypeOK, Shape, PlaceOK, Exclusion, HasLock, DeviceCall, Start, Goto, streamVars, locks, cardVars, local
<1>4. PcmInv'
  BY DEF TypeOK, Shape, PlaceOK, PcmInv, SeenInv, DeviceCall, Start, Goto, streamVars, locks, cardVars, local
<1>5. SeenInv'
  BY DEF TypeOK, Shape, PlaceOK, Exclusion, HasLock, SeenInv, AloneInv, DeviceCall, Start, Goto, streamVars, locks, cardVars, local
<1>6. AloneInv'
  BY ThreadsAssumption DEF Threads, TypeOK, Shape, PlaceOK, AloneInv, DeviceCall, Start, Goto, streamVars, locks, cardVars, local
<1>7. ClosedInv'
  BY DEF TypeOK, Shape, PlaceOK, AloneInv, ClosedInv, DeviceCall, Start, Goto, streamVars, locks, cardVars, local
<1> QED  BY <1>1, <1>2, <1>3, <1>4, <1>5, <1>6, <1>7

(* Looking for the card.                                                   *)
LEMMA ParseStep ==
  ASSUME IInv, NEW t \in Threads, Parse(t)
  PROVE  IInv'
<1> USE DEF IInv
<1>1. TypeOK'
  BY DEF TypeOK, Places, Ops, Shape, PlaceOK, Dir, Dirs, Parse, ParseCached, ParseSearch, CardFound, NoCardFound, Return, OpAt, Goto, streamVars, locks, cardVars, local
<1>2. Shape'
  BY DEF TypeOK, Shape, PlaceOK, Parse, ParseCached, ParseSearch, CardFound, NoCardFound, Return, OpAt, Goto, streamVars, locks, cardVars, local
<1>3. Exclusion'
  BY ThreadsAssumption DEF TypeOK, Shape, PlaceOK, Exclusion, HasLock, Parse, ParseCached, ParseSearch, CardFound, NoCardFound, Return, OpAt, Goto, streamVars, locks, cardVars, local
<1>4. PcmInv'
  BY DEF TypeOK, Shape, PlaceOK, PcmInv, SeenInv, Parse, ParseCached, ParseSearch, CardFound, NoCardFound, Return, OpAt, Goto, streamVars, locks, cardVars, local
<1>5. SeenInv'
  BY DEF TypeOK, Shape, PlaceOK, Exclusion, HasLock, SeenInv, AloneInv, Parse, ParseCached, ParseSearch, CardFound, NoCardFound, Return, OpAt, Goto, streamVars, locks, cardVars, local
<1>6. AloneInv'
  BY ThreadsAssumption DEF Threads, TypeOK, Shape, PlaceOK, AloneInv, Parse, ParseCached, ParseSearch, CardFound, NoCardFound, Return, OpAt, Goto, streamVars, locks, cardVars, local
<1>7. ClosedInv'
  BY DEF TypeOK, Shape, PlaceOK, AloneInv, ClosedInv, Parse, ParseCached, ParseSearch, CardFound, NoCardFound, Return, OpAt, Goto, streamVars, locks, cardVars, local
<1> QED  BY <1>1, <1>2, <1>3, <1>4, <1>5, <1>6, <1>7

(* The locks.                                                              *)
LEMMA TakePreStep ==
  ASSUME IInv, NEW t \in Threads, TakePre(t)
  PROVE  IInv'
<1> USE DEF IInv
<1>1. TypeOK'
  BY DEF TypeOK, Places, Ops, TakePre, Goto, streamVars, locks, cardVars, local
<1>2. Shape'
  BY DEF TypeOK, Shape, PlaceOK, TakePre, Goto, streamVars, locks, cardVars, local
<1>3. Exclusion'
  BY ThreadsAssumption DEF TypeOK, Shape, PlaceOK, Exclusion, HasLock, TakePre, Goto, streamVars, locks, cardVars, local
<1>4. PcmInv'
  BY DEF TypeOK, Shape, PlaceOK, PcmInv, SeenInv, TakePre, Goto, streamVars, locks, cardVars, local
<1>5. SeenInv'
  BY DEF TypeOK, Shape, PlaceOK, Exclusion, HasLock, SeenInv, AloneInv, TakePre, Goto, streamVars, locks, cardVars, local
<1>6. AloneInv'
  BY ThreadsAssumption DEF Threads, TypeOK, Shape, PlaceOK, AloneInv, TakePre, Goto, streamVars, locks, cardVars, local
<1>7. ClosedInv'
  BY DEF TypeOK, Shape, PlaceOK, AloneInv, ClosedInv, TakePre, Goto, streamVars, locks, cardVars, local
<1> QED  BY <1>1, <1>2, <1>3, <1>4, <1>5, <1>6, <1>7

LEMMA TakeLockStep ==
  ASSUME IInv, NEW t \in Threads, TakeLock(t)
  PROVE  IInv'
<1> USE DEF IInv
<1>1. TypeOK'
  BY DEF TypeOK, Places, Ops, TakeLock, Goto, streamVars, locks, cardVars, local
<1>2. Shape'
  BY DEF TypeOK, Shape, PlaceOK, TakeLock, Goto, streamVars, locks, cardVars, local
<1>3. Exclusion'
  BY ThreadsAssumption DEF TypeOK, Shape, PlaceOK, Exclusion, HasLock, TakeLock, Goto, streamVars, locks, cardVars, local
<1>4. PcmInv'
  BY DEF TypeOK, Shape, PlaceOK, PcmInv, SeenInv, TakeLock, Goto, streamVars, locks, cardVars, local
<1>5. SeenInv'
  BY DEF TypeOK, Shape, PlaceOK, Exclusion, HasLock, SeenInv, AloneInv, TakeLock, Goto, streamVars, locks, cardVars, local
<1>6. AloneInv'
  BY ThreadsAssumption DEF Threads, TypeOK, Shape, PlaceOK, AloneInv, TakeLock, Goto, streamVars, locks, cardVars, local
<1>7. ClosedInv'
  BY DEF TypeOK, Shape, PlaceOK, AloneInv, ClosedInv, TakeLock, Goto, streamVars, locks, cardVars, local
<1> QED  BY <1>1, <1>2, <1>3, <1>4, <1>5, <1>6, <1>7

LEMMA BodyStep ==
  ASSUME IInv, NEW t \in Threads, Body(t)
  PROVE  IInv'
<1> USE DEF IInv
<1>1. TypeOK'
  BY DEF TypeOK, Places, Ops, Body, Goto, streamVars, locks, cardVars, local
<1>2. Shape'
  BY DEF TypeOK, Shape, PlaceOK, Body, Goto, streamVars, locks, cardVars, local
<1>3. Exclusion'
  BY ThreadsAssumption DEF TypeOK, Shape, PlaceOK, Exclusion, HasLock, Body, Goto, streamVars, locks, cardVars, local
<1>4. PcmInv'
  BY DEF TypeOK, Shape, PlaceOK, PcmInv, SeenInv, Body, Goto, streamVars, locks, cardVars, local
<1>5. SeenInv'
  BY DEF TypeOK, Shape, PlaceOK, Exclusion, HasLock, SeenInv, AloneInv, Body, Goto, streamVars, locks, cardVars, local
<1>6. AloneInv'
  BY ThreadsAssumption DEF Threads, TypeOK, Shape, PlaceOK, AloneInv, Body, Goto, streamVars, locks, cardVars, local
<1>7. ClosedInv'
  BY DEF TypeOK, Shape, PlaceOK, AloneInv, ClosedInv, Body, Goto, streamVars, locks, cardVars, local
<1> QED  BY <1>1, <1>2, <1>3, <1>4, <1>5, <1>6, <1>7

LEMMA TakeDevStep ==
  ASSUME IInv, NEW t \in Threads, TakeDev(t)
  PROVE  IInv'
<1> USE DEF IInv
<1>1. TypeOK'
  BY DEF TypeOK, Places, Ops, TakeDev, Goto, streamVars, locks, cardVars, local
<1>2. Shape'
  BY DEF TypeOK, Shape, PlaceOK, TakeDev, Goto, streamVars, locks, cardVars, local
<1>3. Exclusion'
  BY ThreadsAssumption DEF TypeOK, Shape, PlaceOK, Exclusion, HasLock, TakeDev, Goto, streamVars, locks, cardVars, local
<1>4. PcmInv'
  BY DEF TypeOK, Shape, PlaceOK, PcmInv, SeenInv, TakeDev, Goto, streamVars, locks, cardVars, local
<1>5. SeenInv'
  BY DEF TypeOK, Shape, PlaceOK, Exclusion, HasLock, SeenInv, AloneInv, TakeDev, Goto, streamVars, locks, cardVars, local
<1>6. AloneInv'
  BY ThreadsAssumption DEF Threads, TypeOK, Shape, PlaceOK, AloneInv, TakeDev, Goto, streamVars, locks, cardVars, local
<1>7. ClosedInv'
  BY DEF TypeOK, Shape, PlaceOK, AloneInv, ClosedInv, TakeDev, Goto, streamVars, locks, cardVars, local
<1> QED  BY <1>1, <1>2, <1>3, <1>4, <1>5, <1>6, <1>7

(* What is done under the lock of the device.                              *)
LEMMA StartStreamStep ==
  ASSUME IInv, NEW t \in Threads, StartStream(t)
  PROVE  IInv'
<1> USE DEF IInv
<1>1. TypeOK'
  BY DEF TypeOK, Places, Ops, Shape, PlaceOK, PcmInv, SeenInv, StartStream, OpAt, LeaveDev, Goto, streamVars, locks, cardVars, local
<1>2. Shape'
  BY DEF TypeOK, Shape, PlaceOK, StartStream, OpAt, LeaveDev, Goto, streamVars, locks, cardVars, local
<1>3. Exclusion'
  BY ThreadsAssumption DEF TypeOK, Shape, PlaceOK, Exclusion, HasLock, StartStream, OpAt, LeaveDev, Goto, streamVars, locks, cardVars, local
<1>4. PcmInv'
  BY DEF TypeOK, Shape, PlaceOK, PcmInv, SeenInv, StartStream, OpAt, LeaveDev, Goto, streamVars, locks, cardVars, local
<1>5. SeenInv'
  BY DEF TypeOK, Shape, PlaceOK, Exclusion, HasLock, SeenInv, AloneInv, StartStream, OpAt, LeaveDev, Goto, streamVars, locks, cardVars, local
<1>6. AloneInv'
  BY ThreadsAssumption DEF Threads, TypeOK, Shape, PlaceOK, AloneInv, StartStream, OpAt, LeaveDev, Goto, streamVars, locks, cardVars, local
<1>7. ClosedInv'
  BY DEF TypeOK, Shape, PlaceOK, AloneInv, ClosedInv, StartStream, OpAt, LeaveDev, Goto, streamVars, locks, cardVars, local
<1> QED  BY <1>1, <1>2, <1>3, <1>4, <1>5, <1>6, <1>7

LEMMA StartFailsStep ==
  ASSUME IInv, NEW t \in Threads, StartFails(t)
  PROVE  IInv'
<1> USE DEF IInv
<1>1. TypeOK'
  BY DEF TypeOK, Places, Ops, StartFails, OpAt, LeaveDev, Goto, streamVars, locks, cardVars, local
<1>2. Shape'
  BY DEF TypeOK, Shape, PlaceOK, StartFails, OpAt, LeaveDev, Goto, streamVars, locks, cardVars, local
<1>3. Exclusion'
  BY ThreadsAssumption DEF TypeOK, Shape, PlaceOK, Exclusion, HasLock, StartFails, OpAt, LeaveDev, Goto, streamVars, locks, cardVars, local
<1>4. PcmInv'
  BY DEF TypeOK, Shape, PlaceOK, PcmInv, SeenInv, StartFails, OpAt, LeaveDev, Goto, streamVars, locks, cardVars, local
<1>5. SeenInv'
  BY DEF TypeOK, Shape, PlaceOK, Exclusion, HasLock, SeenInv, AloneInv, StartFails, OpAt, LeaveDev, Goto, streamVars, locks, cardVars, local
<1>6. AloneInv'
  BY ThreadsAssumption DEF Threads, TypeOK, Shape, PlaceOK, AloneInv, StartFails, OpAt, LeaveDev, Goto, streamVars, locks, cardVars, local
<1>7. ClosedInv'
  BY DEF TypeOK, Shape, PlaceOK, AloneInv, ClosedInv, StartFails, OpAt, LeaveDev, Goto, streamVars, locks, cardVars, local
<1> QED  BY <1>1, <1>2, <1>3, <1>4, <1>5, <1>6, <1>7

LEMMA StopStreamStep ==
  ASSUME IInv, NEW t \in Threads, StopStream(t)
  PROVE  IInv'
<1> USE DEF IInv
<1>1. TypeOK'
  BY DEF TypeOK, Places, Ops, StopStream, OpAt, LeaveDev, Goto, streamVars, locks, cardVars, local
<1>2. Shape'
  BY DEF TypeOK, Shape, PlaceOK, StopStream, OpAt, LeaveDev, Goto, streamVars, locks, cardVars, local
<1>3. Exclusion'
  BY ThreadsAssumption DEF TypeOK, Shape, PlaceOK, Exclusion, HasLock, StopStream, OpAt, LeaveDev, Goto, streamVars, locks, cardVars, local
<1>4. PcmInv'
  BY DEF TypeOK, Shape, PlaceOK, PcmInv, SeenInv, StopStream, OpAt, LeaveDev, Goto, streamVars, locks, cardVars, local
<1>5. SeenInv'
  BY DEF TypeOK, Shape, PlaceOK, Exclusion, HasLock, SeenInv, AloneInv, StopStream, OpAt, LeaveDev, Goto, streamVars, locks, cardVars, local
<1>6. AloneInv'
  BY ThreadsAssumption DEF Threads, TypeOK, Shape, PlaceOK, AloneInv, StopStream, OpAt, LeaveDev, Goto, streamVars, locks, cardVars, local
<1>7. ClosedInv'
  BY DEF TypeOK, Shape, PlaceOK, AloneInv, ClosedInv, StopStream, OpAt, LeaveDev, Goto, streamVars, locks, cardVars, local
<1> QED  BY <1>1, <1>2, <1>3, <1>4, <1>5, <1>6, <1>7

LEMMA ReadStep ==
  ASSUME IInv, NEW t \in Threads, NothingToRead(t) \/ BeginRead(t) \/ EndRead(t)
  PROVE  IInv'
<1> USE DEF IInv
<1>1. TypeOK'
  BY DEF TypeOK, Places, Ops, Dir, Dirs, NothingToRead, BeginRead, EndRead, OpAt, LeaveDev, Goto, streamVars, locks, cardVars, local
<1>2. Shape'
  BY DEF TypeOK, Shape, PlaceOK, NothingToRead, BeginRead, EndRead, OpAt, LeaveDev, Goto, streamVars, locks, cardVars, local
<1>3. Exclusion'
  BY ThreadsAssumption DEF TypeOK, Shape, PlaceOK, Exclusion, HasLock, NothingToRead, BeginRead, EndRead, OpAt, LeaveDev, Goto, streamVars, locks, cardVars, local
<1>4. PcmInv'
  BY DEF TypeOK, Shape, PlaceOK, PcmInv, SeenInv, NothingToRead, BeginRead, EndRead, OpAt, LeaveDev, Goto, streamVars, locks, cardVars, local
<1>5. SeenInv'
  BY DEF TypeOK, Shape, PlaceOK, Exclusion, HasLock, SeenInv, AloneInv, NothingToRead, BeginRead, EndRead, OpAt, LeaveDev, Goto, streamVars, locks, cardVars, local
<1>6. AloneInv'
  BY ThreadsAssumption DEF Threads, TypeOK, Shape, PlaceOK, AloneInv, NothingToRead, BeginRead, EndRead, OpAt, LeaveDev, Goto, streamVars, locks, cardVars, local
<1>7. ClosedInv'
  BY DEF TypeOK, Shape, PlaceOK, AloneInv, ClosedInv, NothingToRead, BeginRead, EndRead, OpAt, LeaveDev, Goto, streamVars, locks, cardVars, local
<1> QED  BY <1>1, <1>2, <1>3, <1>4, <1>5, <1>6, <1>7

LEMMA GetParametersStep ==
  ASSUME IInv, NEW t \in Threads, GetParameters(t)
  PROVE  IInv'
<1> USE DEF IInv
<1>1. TypeOK'
  BY DEF TypeOK, Places, Ops, GetParameters, OpAt, LeaveDev, Goto, streamVars, locks, cardVars, local
<1>2. Shape'
  BY DEF TypeOK, Shape, PlaceOK, GetParameters, OpAt, LeaveDev, Goto, streamVars, locks, cardVars, local
<1>3. Exclusion'
  BY ThreadsAssumption DEF TypeOK, Shape, PlaceOK, Exclusion, HasLock, GetParameters, OpAt, LeaveDev, Goto, streamVars, locks, cardVars, local
<1>4. PcmInv'
  BY DEF TypeOK, Shape, PlaceOK, PcmInv, SeenInv, GetParameters, OpAt, LeaveDev, Goto, streamVars, locks, cardVars, local
<1>5. SeenInv'
  BY DEF TypeOK, Shape, PlaceOK, Exclusion, HasLock, SeenInv, AloneInv, GetParameters, OpAt, LeaveDev, Goto, streamVars, locks, cardVars, local
<1>6. AloneInv'
  BY ThreadsAssumption DEF Threads, TypeOK, Shape, PlaceOK, AloneInv, GetParameters, OpAt, LeaveDev, Goto, streamVars, locks, cardVars, local
<1>7. ClosedInv'
  BY DEF TypeOK, Shape, PlaceOK, AloneInv, ClosedInv, GetParameters, OpAt, LeaveDev, Goto, streamVars, locks, cardVars, local
<1> QED  BY <1>1, <1>2, <1>3, <1>4, <1>5, <1>6, <1>7

LEMMA UndevStep ==
  ASSUME IInv, NEW t \in Threads, Undev(t)
  PROVE  IInv'
<1> USE DEF IInv
<1>1. TypeOK'
  BY DEF TypeOK, Places, Ops, Undev, OpAt, Return, Goto, streamVars, locks, cardVars, local
<1>2. Shape'
  BY DEF TypeOK, Shape, PlaceOK, Undev, OpAt, Return, Goto, streamVars, locks, cardVars, local
<1>3. Exclusion'
  BY ThreadsAssumption DEF TypeOK, Shape, PlaceOK, Exclusion, HasLock, Undev, OpAt, Return, Goto, streamVars, locks, cardVars, local
<1>4. PcmInv'
  BY DEF TypeOK, Shape, PlaceOK, PcmInv, SeenInv, Undev, OpAt, Return, Goto, streamVars, locks, cardVars, local
<1>5. SeenInv'
  BY DEF TypeOK, Shape, PlaceOK, Exclusion, HasLock, SeenInv, AloneInv, Undev, OpAt, Return, Goto, streamVars, locks, cardVars, local
<1>6. AloneInv'
  BY ThreadsAssumption DEF Threads, TypeOK, Shape, PlaceOK, AloneInv, Undev, OpAt, Return, Goto, streamVars, locks, cardVars, local
<1>7. ClosedInv'
  BY DEF TypeOK, Shape, PlaceOK, AloneInv, ClosedInv, Undev, OpAt, Return, Goto, streamVars, locks, cardVars, local
<1> QED  BY <1>1, <1>2, <1>3, <1>4, <1>5, <1>6, <1>7

LEMMA OpenReadStep ==
  ASSUME IInv, NEW t \in Threads, OpenRead(t)
  PROVE  IInv'
<1> USE DEF IInv
<1>1. TypeOK'
  BY DEF TypeOK, Places, Ops, Dir, Dirs, OpenRead, OpAt, LeaveDev, Goto, streamVars, locks, cardVars, local
<1>2. Shape'
  BY DEF TypeOK, Shape, PlaceOK, OpenRead, OpAt, LeaveDev, Goto, streamVars, locks, cardVars, local
<1>3. Exclusion'
  BY ThreadsAssumption DEF TypeOK, Shape, PlaceOK, Exclusion, HasLock, OpenRead, OpAt, LeaveDev, Goto, streamVars, locks, cardVars, local
<1>4. PcmInv'
  BY DEF TypeOK, Shape, PlaceOK, PcmInv, SeenInv, OpenRead, OpAt, LeaveDev, Goto, streamVars, locks, cardVars, local
<1>5. SeenInv'
  BY DEF TypeOK, Shape, PlaceOK, Exclusion, HasLock, SeenInv, AloneInv, OpenRead, OpAt, LeaveDev, Goto, streamVars, locks, cardVars, local
<1>6. AloneInv'
  BY ThreadsAssumption DEF Threads, TypeOK, Shape, PlaceOK, AloneInv, OpenRead, OpAt, LeaveDev, Goto, streamVars, locks, cardVars, local
<1>7. ClosedInv'
  BY DEF TypeOK, Shape, PlaceOK, AloneInv, ClosedInv, OpenRead, OpAt, LeaveDev, Goto, streamVars, locks, cardVars, local
<1> QED  BY <1>1, <1>2, <1>3, <1>4, <1>5, <1>6, <1>7

(* The new stream is in standby: it was when it was closed.                *)
LEMMA PrepareStep ==
  ASSUME IInv, NEW t \in Threads, Prepare(t)
  PROVE  IInv'
<1>0. str[t] \in Streams /\ standby[str[t]]
  <2>1. op[t] = "open" /\ str[t] \in Streams
    BY DEF IInv, TypeOK, Ops, Shape, PlaceOK, Prepare
  <2>2. str[t] \notin opened /\ \A u \in Threads \ {t} : str[u] # str[t]
    BY <2>1 DEF IInv, AloneInv
  <2> QED  BY <2>1, <2>2 DEF IInv, ClosedInv
<1> USE DEF IInv
<1>1. TypeOK'
  BY DEF TypeOK, Places, Ops, Shape, PlaceOK, Prepare, Return, Goto, streamVars, locks, cardVars, local
<1>2. Shape'
  BY DEF TypeOK, Shape, PlaceOK, Prepare, Return, Goto, streamVars, locks, cardVars, local
<1>3. Exclusion'
  BY ThreadsAssumption DEF TypeOK, Shape, PlaceOK, Exclusion, HasLock, Prepare, Return, Goto, streamVars, locks, cardVars, local
<1>4. PcmInv'
  BY <1>0 DEF TypeOK, Shape, PlaceOK, PcmInv, SeenInv, Prepare, Return, Goto, streamVars, locks, cardVars, local
<1>5. SeenInv'
  BY DEF TypeOK, Shape, PlaceOK, Exclusion, HasLock, SeenInv, AloneInv, Prepare, Return, Goto, streamVars, locks, cardVars, local
<1>6. AloneInv'
  BY ThreadsAssumption DEF Threads, TypeOK, Shape, PlaceOK, AloneInv, Prepare, Return, Goto, streamVars, locks, cardVars, local
<1>7. ClosedInv'
  BY DEF TypeOK, Shape, PlaceOK, AloneInv, ClosedInv, Prepare, Return, Goto, streamVars, locks, cardVars, local
<1> QED  BY <1>1, <1>2, <1>3, <1>4, <1>5, <1>6, <1>7

LEMMA IoStep ==
  ASSUME IInv, NEW t \in Threads, Io(t)
  PROVE  IInv'
<1> USE DEF IInv
<1>1. TypeOK'
  BY DEF TypeOK, Places, Ops, Io, Goto, streamVars, locks, cardVars, local
<1>2. Shape'
  BY DEF TypeOK, Shape, PlaceOK, Io, Goto, streamVars, locks, cardVars, local
<1>3. Exclusion'
  BY ThreadsAssumption DEF TypeOK, Shape, PlaceOK, Exclusion, HasLock, Io, Goto, streamVars, locks, cardVars, local
<1>4. PcmInv'
  BY DEF TypeOK, Shape, PlaceOK, PcmInv, SeenInv, Io, Goto, streamVars, locks, cardVars, local
<1>5. SeenInv'
  BY DEF TypeOK, Shape, PlaceOK, Exclusion, HasLock, SeenInv, AloneInv, Io, Goto, streamVars, locks, cardVars, local
<1>6. AloneInv'
  BY ThreadsAssumption DEF Threads, TypeOK, Shape, PlaceOK, AloneInv, Io, Goto, streamVars, locks, cardVars, local
<1>7. ClosedInv'
  BY DEF TypeOK, Shape, PlaceOK, AloneInv, ClosedInv, Io, Goto, streamVars, locks, cardVars, local
<1> QED  BY <1>1, <1>2, <1>3, <1>4, <1>5, <1>6, <1>7

LEMMA UnlockStep ==
  ASSUME IInv, NEW t \in Threads, Unlock(t)
  PROVE  IInv'
<1> USE DEF IInv
<1>1. TypeOK'
  BY DEF TypeOK, Places, Ops, Unlock, Return, Goto, streamVars, locks, cardVars, local
<1>2. Shape'
  BY DEF TypeOK, Shape, PlaceOK, Unlock, Return, Goto, streamVars, locks, cardVars, local
<1>3. Exclusion'
  BY ThreadsAssumption DEF TypeOK, Shape, PlaceOK, Exclusion, HasLock, Unlock, Return, Goto, streamVars, locks, cardVars, local
<1>4. PcmInv'
  BY DEF TypeOK, Shape, PlaceOK, PcmInv, SeenInv, Unlock, Return, Goto, streamVars, locks, cardVars, local
<1>5. SeenInv'
  BY DEF TypeOK, Shape, PlaceOK, Exclusion, HasLock, SeenInv, AloneInv, Unlock, Return, Goto, streamVars, locks, cardVars, local
<1>6. AloneInv'
  BY ThreadsAssumption DEF Threads, TypeOK, Shape, PlaceOK, AloneInv, Unlock, Return, Goto, streamVars, locks, cardVars, local
<1>7. ClosedInv'
  BY DEF TypeOK, Shape, PlaceOK, AloneInv, ClosedInv, Unlock, Return, Goto, streamVars, locks, cardVars, local
<1> QED  BY <1>1, <1>2, <1>3, <1>4, <1>5, <1>6, <1>7

-----------------------------------------------------------------------------
LEMMA NextIInv == IInv /\ [Next]_vars => IInv'
<1> SUFFICES ASSUME IInv, [Next]_vars PROVE IInv'
  OBVIOUS
<1>1. CASE UNCHANGED vars
  BY <1>1 DEF vars, streamVars, locks, cardVars, local, IInv, TypeOK, Shape, PlaceOK, Exclusion,
              HasLock, PcmInv, SeenInv, AloneInv, ClosedInv
<1>2. CASE Begin
  <2>1. \A s \in Streams : s \in Threads
    BY DEF Threads
  <2>2. \A t \in Control : t \in Threads
    BY DEF Threads
  <2> QED
    BY <1>2, <2>1, <2>2, TransferStep, AskStep, SetParametersStep, OpenStep, CloseStep, DeviceCallStep
       DEF Begin
<1>3. CASE \E t \in Threads : TakePre(t) \/ TakeLock(t) \/ TakeDev(t)
  BY <1>3, TakePreStep, TakeLockStep, TakeDevStep
<1>4. CASE \E t \in Threads : Parse(t) \/ Body(t) \/ Prepare(t) \/ Io(t) \/ Unlock(t)
  BY <1>4, ParseStep, BodyStep, PrepareStep, IoStep, UnlockStep
<1>5. CASE \E t \in Threads : UnderDev(t)
  BY <1>5, StartStreamStep, StartFailsStep, StopStreamStep, ReadStep, GetParametersStep, UndevStep,
     OpenReadStep DEF UnderDev
<1> QED  BY <1>1, <1>2, <1>3, <1>4, <1>5 DEF Next, Run

THEOREM Invariant == Spec => []IInv
BY InitIInv, NextIInv, PTL DEF Spec

(* Types are kept, and no stream ever opens its PCM twice.                 *)
THEOREM TypeCorrect == Spec => []TypeOK
<1>1. IInv => TypeOK
  BY DEF IInv
<1> QED  BY <1>1, Invariant, PTL

(* The PCM of a stream is open exactly when the stream is not in standby,  *)
(* for any number of streams and control threads.                          *)
THEOREM PcmMatchesStandbyCorrect == Spec => []PcmMatchesStandby
<1>1. IInv => PcmMatchesStandby
  <2> SUFFICES ASSUME IInv, NEW s \in Streams
               PROVE  /\ handles[s] = IF standby[s] THEN 0 ELSE 1
                      /\ s \notin opened /\ Unused(s) => standby[s]
    BY DEF PcmMatchesStandby, IInv, PcmInv
  <2> QED  BY DEF IInv, PcmInv, ClosedInv, Unused
<1> QED  BY <1>1, Invariant, PTL

(* Device info is never read for a stream whose own PCM is open, whatever  *)
(* transfers, standbys and opens other threads make, for any number of     *)
(* streams of a direction.                                                 *)
THEOREM InfoReadInStandbyCorrect == Spec => []InfoReadInStandby
<1>1. ASSUME IInv, NEW t \in Threads, pc[t] = "read"
      PROVE  str[t] \in Streams /\ standby[str[t]]
  <2>1. op[t] \in {"open", "set"} /\ str[t] \in Streams
    BY <1>1 DEF IInv, TypeOK, Ops, Shape, PlaceOK
  <2>2. CASE op[t] = "set"
    BY <1>1, <2>1, <2>2 DEF IInv, SeenInv
  <2>3. CASE op[t] = "open"
    <3>1. str[t] \notin opened /\ \A u \in Threads \ {t} : str[u] # str[t]
      BY <1>1, <2>3 DEF IInv, AloneInv
    <3> QED  BY <1>1, <2>1, <2>3, <3>1 DEF IInv, ClosedInv
  <2> QED  BY <2>1, <2>2, <2>3
<1>2. IInv => InfoReadInStandby
  BY <1>1 DEF IInv, PcmInv, InfoReadInStandby
<1> QED  BY <1>2, Invariant, PTL
-----------------------------------------------------------------------------
(* A transfer that has left the body has its stream out of standby.        *)
IoInv == \A t \in Threads : pc[t] = "io" => ~standby[str[t]]

LEMMA IoInvariant == Spec => []IoInv
<1>1. Init => IoInv
  BY DEF Init, IoInv
<1>2. IInv /\ IoInv /\ [Next]_vars => IoInv'
  <2> SUFFICES ASSUME IInv, IoInv, [Next]_vars PROVE IoInv'
    OBVIOUS
  <2> USE DEF Goto, streamVars, locks, cardVars, local
  <2>1. CASE UNCHANGED vars
    BY <2>1 DEF vars, IoInv
  <2>2. CASE Begin
    <3>1. PICK t \in Threads : \E what, s : \E place \in Places \ {"io"} : Start(t, what, s, place)
      BY <2>2 DEF Begin, Transfer, Ask, SetParameters, Open, Close, DeviceCall, Threads, Places
    <3> QED  BY <3>1 DEF IInv, TypeOK, IoInv, Start
  <2>3. ASSUME NEW t \in Threads, TakePre(t) \/ TakeLock(t) \/ TakeDev(t) \/ Parse(t) \/ Io(t) \/ Unlock(t)
        PROVE  IoInv'
    BY <2>3 DEF IInv, TypeOK, IoInv, TakePre, TakeLock, TakeDev, Parse, ParseCached, ParseSearch,
                CardFound, NoCardFound, Io, Unlock, Return
  <2>4. ASSUME NEW t \in Threads, Body(t) PROVE IoInv'
    BY <2>4 DEF IInv, TypeOK, IoInv, Body
  <2>5. ASSUME NEW t \in Threads, StartStream(t) PROVE IoInv'
    BY <2>5 DEF IInv, TypeOK, Shape, IoInv, StartStream, OpAt, LeaveDev
  <2>6. ASSUME NEW t \in Threads, StopStream(t) PROVE IoInv'
    <3>1. HasLock(t) /\ str[t] \in Streams
      BY <2>6 DEF StopStream, HasLock, IInv, Shape
    <3>2. \A u \in Threads : pc[u] = "io" => str[u] # str[t] /\ str[u] \in Streams
      <4> SUFFICES ASSUME NEW u \in Threads, pc[u] = "io"
                   PROVE  str[u] # str[t] /\ str[u] \in Streams
        OBVIOUS
      <4>1. u # t
        BY <2>6 DEF StopStream
      <4>2. lock[str[u]] = u /\ lock[str[t]] = t
        BY <3>1 DEF IInv, Exclusion, HasLock
      <4>3. str[u] \in Streams
        BY DEF IInv, TypeOK, Ops, Shape, PlaceOK
      <4> QED  BY <4>1, <4>2, <4>3
    <3> QED  BY <2>6, <3>1, <3>2 DEF IInv, TypeOK, IoInv, StopStream, LeaveDev
  <2>7. ASSUME NEW t \in Threads, StartFails(t) \/ NothingToRead(t) \/ BeginRead(t) \/ EndRead(t)
                                  \/ GetParameters(t) \/ Undev(t) \/ OpenRead(t)
        PROVE  IoInv'
    BY <2>7 DEF IInv, TypeOK, IoInv, StartFails, NothingToRead, BeginRead, EndRead, GetParameters,
                Undev, OpenRead, OpAt, LeaveDev, Return
  <2>8. ASSUME NEW t \in Threads, Prepare(t) PROVE IoInv'
    <3>1. op[t] = "open" /\ str[t] \in Streams
      BY <2>8 DEF IInv, TypeOK, Ops, Shape, PlaceOK, Prepare
    <3>2. \A u \in Threads \ {t} : str[u] # str[t]
      BY <3>1 DEF IInv, AloneInv
    <3>3. \A u \in Threads : pc[u] = "io" => str[u] \in Streams
      BY DEF IInv, TypeOK, Ops, Shape, PlaceOK
    <3> QED  BY <2>8, <3>1, <3>2, <3>3 DEF IInv, TypeOK, IoInv, Prepare, Return
  <2> QED
    BY <2>1, <2>2, <2>3, <2>4, <2>5, <2>6, <2>7, <2>8 DEF Next, Run, UnderDev
<1> QED  BY <1>1, <1>2, Invariant, PTL DEF Spec

(* Every write or read finds the PCM of its stream open, for any number of *)
(* streams and threads.                                                    *)
THEOREM TransfersHavePcmCorrect == Spec => []TransfersHavePcm
<1>1. IInv /\ IoInv => TransfersHavePcm
  <2> SUFFICES ASSUME IInv, IoInv, NEW t \in Threads, pc[t] = "io" PROVE handles[str[t]] = 1
    BY DEF TransfersHavePcm
  <2>1. str[t] \in Streams
    BY DEF IInv, TypeOK, Ops, Shape, PlaceOK
  <2> QED  BY <2>1 DEF IInv, PcmInv, IoInv
<1> QED  BY <1>1, Invariant, IoInvariant, PTL

-----------------------------------------------------------------------------
(* A thread from TakeDev until it gives the device's lock back.            *)
HasDev(t) == \/ pc[t] \in {"hasDev", "undev", "read"}
             \/ op[t] = "open" /\ pc[t] \in {"parse", "search"}

(* The holder of a lock is a thread in the part of a call that has it: the *)
(* pre_lock is held only to wait for the lock, and the device's lock by    *)
(* threads that wait for nothing.                                          *)
PreHolders == \A s \in Streams : preLock[s] # None => str[preLock[s]] = s /\ pc[preLock[s]] = "lock"
LockHolders == \A s \in Streams : lock[s] # None => str[lock[s]] = s /\ HasLock(lock[s])
DevHolder == devLock # None => HasDev(devLock)
Holders == PreHolders /\ LockHolders /\ DevHolder

LEMMA HoldersInvariant == Spec => []Holders
<1>1. Init => Holders
  BY DEF Init, Holders, PreHolders, LockHolders, DevHolder
<1>2. IInv /\ Holders /\ [Next]_vars => Holders'
  <2> SUFFICES ASSUME IInv, Holders, [Next]_vars PROVE Holders'
    OBVIOUS
  <2>t. TypeOK /\ Shape /\ PreHolders /\ LockHolders /\ DevHolder /\ None \notin Threads
    BY ThreadsAssumption DEF IInv, Holders
  <2> USE <2>t DEF TypeOK, Goto, streamVars, locks, cardVars, local
  <2>1. CASE UNCHANGED vars
    BY <2>1 DEF vars, Holders, PreHolders, LockHolders, DevHolder, HasLock, HasDev
  <2>2. CASE Begin
    <3>1. PICK t \in Threads : \E what, s, place : Start(t, what, s, place)
      BY <2>2 DEF Begin, Transfer, Ask, SetParameters, Open, Close, DeviceCall, Threads
    <3>2. PreHolders'
      BY <3>1 DEF Start, PreHolders
    <3>3. LockHolders'
      BY <3>1 DEF Start, LockHolders, HasLock
    <3>4. DevHolder'
      BY <3>1 DEF Start, DevHolder, HasDev
    <3> QED  BY <3>2, <3>3, <3>4 DEF Holders
  <2>3. ASSUME NEW t \in Threads, TakePre(t) \/ TakeLock(t) PROVE Holders'
    <3>1. str[t] \in Streams
      BY <2>3 DEF Shape, PlaceOK, Ops, TakePre, TakeLock
    <3>2. PreHolders'
      BY <2>3, <3>1 DEF TakePre, TakeLock, PreHolders
    <3>3. LockHolders'
      BY <2>3, <3>1 DEF TakePre, TakeLock, LockHolders, HasLock
    <3>4. DevHolder'
      BY <2>3 DEF TakePre, TakeLock, DevHolder, HasDev
    <3> QED  BY <3>2, <3>3, <3>4 DEF Holders
  <2>4. ASSUME NEW t \in Threads, TakeDev(t) PROVE Holders'
    <3>1. PreHolders'
      BY <2>4 DEF TakeDev, PreHolders
    <3>2. LockHolders'
      BY <2>4 DEF TakeDev, LockHolders, HasLock
    <3>3. DevHolder'
      BY <2>4 DEF TakeDev, DevHolder, HasDev
    <3> QED  BY <3>1, <3>2, <3>3 DEF Holders
  <2>5. ASSUME NEW t \in Threads, Parse(t) PROVE Holders'
    <3> USE DEF Parse, ParseCached, ParseSearch, CardFound, NoCardFound, Return
    <3>1. PreHolders'
      BY <2>5 DEF PreHolders
    <3>2. LockHolders'
      BY <2>5 DEF LockHolders, HasLock
    <3>3. DevHolder'
      BY <2>5 DEF DevHolder, HasDev
    <3> QED  BY <3>1, <3>2, <3>3 DEF Holders
  <2>6. ASSUME NEW t \in Threads, Body(t) \/ Io(t) PROVE Holders'
    <3>1. PreHolders'
      BY <2>6 DEF Body, Io, PreHolders
    <3>2. LockHolders'
      BY <2>6 DEF Body, Io, LockHolders, HasLock, Shape, PlaceOK, Ops
    <3>3. DevHolder'
      BY <2>6 DEF Body, Io, DevHolder, HasDev
    <3> QED  BY <3>1, <3>2, <3>3 DEF Holders
  <2>7. ASSUME NEW t \in Threads, StartStream(t) \/ StartFails(t) \/ StopStream(t)
        PROVE  Holders'
    <3> USE DEF StartStream, StartFails, StopStream, OpAt, LeaveDev
    <3>1. PreHolders'
      BY <2>7 DEF PreHolders
    <3>2. LockHolders'
      BY <2>7 DEF LockHolders, HasLock
    <3>3. DevHolder'
      BY <2>7 DEF DevHolder
    <3> QED  BY <3>1, <3>2, <3>3 DEF Holders
  <2>8. ASSUME NEW t \in Threads, NothingToRead(t) \/ BeginRead(t) \/ EndRead(t) \/ OpenRead(t)
        PROVE  Holders'
    <3> USE DEF NothingToRead, BeginRead, EndRead, OpenRead, OpAt, LeaveDev
    <3>1. PreHolders'
      BY <2>8 DEF PreHolders
    <3>2. LockHolders'
      BY <2>8 DEF LockHolders, HasLock
    <3>3. DevHolder'
      BY <2>8 DEF DevHolder, HasDev
    <3> QED  BY <3>1, <3>2, <3>3 DEF Holders
  <2>9. ASSUME NEW t \in Threads, GetParameters(t) \/ Undev(t) \/ Unlock(t) PROVE Holders'
    <3> USE DEF GetParameters, Undev, Unlock, OpAt, LeaveDev, Return
    <3>1. PreHolders'
      BY <2>9 DEF PreHolders
    <3>2. LockHolders'
      BY <2>9 DEF LockHolders, HasLock
    <3>3. DevHolder'
      BY <2>9 DEF DevHolder, HasDev
    <3> QED  BY <3>1, <3>2, <3>3 DEF Holders
  <2>10. ASSUME NEW t \in Threads, Prepare(t) PROVE Holders'
    <3> USE DEF Prepare, Return
    <3>1. PreHolders'
      BY <2>10 DEF PreHolders
    <3>2. LockHolders'
      BY <2>10 DEF LockHolders, HasLock
    <3>3. DevHolder'
      BY <2>10 DEF DevHolder, HasDev
    <3> QED  BY <3>1, <3>2, <3>3 DEF Holders
  <2> QED
    BY <2>1, <2>2, <2>3, <2>4, <2>5, <2>6, <2>7, <2>8, <2>9, <2>10 DEF Next, Run, UnderDev
<1> QED  BY <1>1, <1>2, Invariant, PTL DEF Spec

(* Who holds the device's lock goes on; who holds the lock of a stream     *)
(* goes on or waits for the device's lock; and who holds a pre_lock goes   *)
(* on or waits for the lock of its stream.                                 *)
LEMMA DevHolderRuns ==
  ASSUME IInv, Holders, devLock # None PROVE devLock \in Threads /\ Runs(devLock)
BY DEF IInv, TypeOK, Holders, DevHolder, HasDev, Runs, WaitsFor

LEMMA LockHolderGoesOn ==
  ASSUME IInv, Holders, NEW s \in Streams, lock[s] # None
  PROVE  /\ lock[s] \in Threads
         /\ \/ Runs(lock[s])
            \/ WaitsFor(lock[s]) = devLock /\ devLock # None
<1>1. lock[s] \in Threads /\ HasLock(lock[s])
  BY DEF IInv, TypeOK, Holders, LockHolders
<1> QED  BY <1>1 DEF HasLock, Runs, WaitsFor

LEMMA PreHolderGoesOn ==
  ASSUME IInv, Holders, NEW s \in Streams, preLock[s] # None
  PROVE  /\ preLock[s] \in Threads
         /\ \/ Runs(preLock[s])
            \/ WaitsFor(preLock[s]) = lock[s] /\ lock[s] # None
<1>1. preLock[s] \in Threads /\ str[preLock[s]] = s /\ pc[preLock[s]] = "lock"
  BY DEF IInv, TypeOK, Holders, PreHolders
<1> QED  BY <1>1 DEF Runs, WaitsFor

(* No set of calls waits for each other, for any number of streams and     *)
(* threads and whatever lock each call gives back first.                   *)
THEOREM NoDeadlockCorrect == Spec => []NoDeadlock
<1>1. ASSUME IInv, Holders PROVE NoDeadlock
  <2> SUFFICES ASSUME NEW t \in Threads, WaitsFor(t) # None
               PROVE  \E u, v, w \in Threads : /\ u = WaitsFor(t)
                                               /\ v \in {u, WaitsFor(u)}
                                               /\ w \in {v, WaitsFor(v)}
                                               /\ Runs(w)
    BY DEF NoDeadlock
  <2>1. CASE pc[t] = "dev"
    <3>1. WaitsFor(t) = devLock /\ devLock # None
      BY <2>1 DEF WaitsFor
    <3> QED  BY <1>1, <3>1, DevHolderRuns
  <2>2. CASE pc[t] = "lock"
    <3>1. WaitsFor(t) = lock[str[t]] /\ lock[str[t]] # None
      BY <2>2 DEF WaitsFor
    <3>2. str[t] \in Streams
      BY <1>1, <2>2 DEF IInv, TypeOK, Ops, Shape, PlaceOK
    <3> QED  BY <1>1, <3>1, <3>2, LockHolderGoesOn, DevHolderRuns
  <2>3. CASE pc[t] = "pre"
    <3>1. WaitsFor(t) = preLock[str[t]] /\ preLock[str[t]] # None
      BY <2>3 DEF WaitsFor
    <3>2. str[t] \in Streams
      BY <1>1, <2>3 DEF IInv, TypeOK, Ops, Shape, PlaceOK
    <3> QED  BY <1>1, <3>1, <3>2, PreHolderGoesOn, LockHolderGoesOn, DevHolderRuns
  <2> QED  BY <2>1, <2>2, <2>3 DEF WaitsFor
<1> QED  BY <1>1, Invariant, HoldersInvariant, PTL
-----------------------------------------------------------------------------
(* A transfer is made by the thread of its stream.                         *)
OwnStream == \A t \in Threads : op[t] = "transfer" => t \in Streams /\ str[t] = t

LEMMA OwnStreamInvariant == Spec => []OwnStream
<1>1. Init => OwnStream
  BY DEF Init, OwnStream
<1>2. TypeOK /\ OwnStream /\ [Next]_vars => OwnStream'
  <2> SUFFICES ASSUME TypeOK, OwnStream, [Next]_vars PROVE OwnStream'
    OBVIOUS
  <2> USE DEF TypeOK, OwnStream, local
  <2>1. CASE Begin
    BY <2>1 DEF Begin, Transfer, Ask, SetParameters, Open, Close, DeviceCall, Start
  <2>2. ASSUME NEW t \in Threads,
               \/ TakePre(t) \/ TakeLock(t) \/ TakeDev(t) \/ Body(t) \/ Io(t) \/ StartStream(t)
               \/ StartFails(t) \/ StopStream(t) \/ NothingToRead(t) \/ BeginRead(t) \/ EndRead(t)
               \/ GetParameters(t) \/ OpenRead(t)
        PROVE  OwnStream'
    BY <2>2 DEF TakePre, TakeLock, TakeDev, Body, Io, StartStream, StartFails, StopStream,
                NothingToRead, BeginRead, EndRead, GetParameters, OpenRead
  <2>3. ASSUME NEW t \in Threads, Parse(t) \/ Undev(t) \/ Prepare(t) \/ Unlock(t)
        PROVE  OwnStream'
    BY <2>3 DEF Parse, ParseCached, ParseSearch, CardFound, NoCardFound, Undev, Prepare, Unlock, Return
  <2>4. CASE UNCHANGED vars
    BY <2>4 DEF vars
  <2> QED  BY <2>1, <2>2, <2>3, <2>4 DEF Next, Run, UnderDev
<1> QED  BY <1>1, <1>2, TypeCorrect, PTL DEF Spec

(* The thread at its transfer has the lock of its stream.                  *)
LEMMA Transferring ==
  ASSUME IInv, OwnStream, NEW s \in Streams, pc[s] = "io"
  PROVE  str[s] = s /\ lock[s] = s
<1>1. s \in Threads
  BY DEF Threads
<1>2. op[s] = "transfer"
  BY <1>1 DEF IInv, TypeOK, Ops, Shape, PlaceOK
<1> QED  BY <1>1, <1>2 DEF OwnStream, IInv, Exclusion, HasLock

(* A step that changes neither PCM, nor the open streams, nor who is at a  *)
(* transfer.                                                               *)
LEMMA SameStreams ==
  ASSUME UNCHANGED <<handles, opened>>,
         \A s \in Streams : pc'[s] = "io" <=> pc[s] = "io"
  PROVE  UNCHANGED Abs!streamsVars
BY DEF Abs!streamsVars, StateOf

LEMMA StreamBecomes ==
  ASSUME NEW s \in Streams, pc[s] # "io", NEW state, StateOf(s)' = state,
         \A r \in Streams \ {s} : StateOf(r)' = StateOf(r)
  PROVE  Abs!Becomes(s, state)
BY DEF Abs!Becomes

(* Calls begin; the close of a stream in standby takes effect at once.     *)
LEMMA BeginImplements ==
  ASSUME IInv, OwnStream, Begin
  PROVE  Abs!StreamsNext \/ UNCHANGED Abs!streamsVars
<1>t. TypeOK /\ Streams \subseteq Threads /\ Control \subseteq Threads
  BY DEF IInv, Threads
<1>1. ASSUME NEW t \in Threads, NEW what, NEW s, NEW place, place # "io", Start(t, what, s, place)
      PROVE  handles' = handles /\ \A r \in Streams : pc'[r] = "io" <=> pc[r] = "io"
  BY <1>t, <1>1 DEF Start, Goto, TypeOK, streamVars
<1>2. ASSUME NEW s \in Streams, Transfer(s) PROVE UNCHANGED Abs!streamsVars
  BY <1>t, <1>1, <1>2, SameStreams DEF Transfer
<1>3. ASSUME NEW t \in Control, NEW s \in Streams, Ask(t, s) \/ SetParameters(t, s) \/ Open(t, s)
      PROVE  UNCHANGED Abs!streamsVars
  <2>1. opened' = opened /\ \E what, place : place # "io" /\ Start(t, what, s, place)
    BY <1>3 DEF Ask, SetParameters, Open
  <2> QED  BY <1>t, <1>1, <2>1, SameStreams
<1>4. ASSUME NEW t \in Control, DeviceCall(t) PROVE UNCHANGED Abs!streamsVars
  BY <1>t, <1>1, <1>4, SameStreams DEF DeviceCall
<1>5. ASSUME NEW t \in Control, NEW s \in Streams, Close(t, s)
      PROVE  Abs!StreamsNext \/ UNCHANGED Abs!streamsVars
  <2>1. /\ handles' = handles /\ opened' = opened \ {s} /\ s \in opened
        /\ \A r \in Streams : pc'[r] = "io" <=> pc[r] = "io"
    BY <1>t, <1>1, <1>5 DEF Close
  <2>2. pc[s] # "io"
    BY <1>t, <1>5, Transferring DEF Close, Unused
  <2>3. \A r \in Streams \ {s} : StateOf(r)' = StateOf(r)
    BY <2>1 DEF StateOf
  <2>4. CASE handles[s] = 1
    <3>1. StateOf(s)' = StateOf(s)
      BY <2>1, <2>4 DEF StateOf
    <3> QED  BY <2>1, <2>3, <3>1 DEF Abs!streamsVars
  <2>5. CASE handles[s] # 1
    <3>1. StateOf(s) = "standby" /\ StateOf(s)' = "closed"
      BY <2>1, <2>5 DEF StateOf
    <3>2. Abs!Close(s)
      BY <2>1, <2>2, <2>3, <3>1, StreamBecomes DEF Abs!Close
    <3> QED  BY <3>2 DEF Abs!StreamsNext
  <2> QED  BY <2>4, <2>5
<1> QED  BY <1>2, <1>3, <1>4, <1>5 DEF Begin

(* A thread goes to its transfer: the stream is open, and active from now. *)
LEMMA GoingToTransfer ==
  ASSUME IInv, OwnStream, NEW t \in Threads, op[t] = "transfer", pc[t] # "io", Goto(t, "io"),
         opened' = opened, handles' = [handles EXCEPT ![str[t]] = 1]
  PROVE  Abs!StreamsNext
<1>1. t \in Streams /\ str[t] = t /\ t \in opened
  BY DEF OwnStream, IInv, AloneInv
<1>2. StateOf(t) # "closed" /\ StateOf(t)' = "active"
  BY <1>1 DEF StateOf, IInv, TypeOK
<1>3. \A r \in Streams \ {t} : StateOf(r)' = StateOf(r)
  BY <1>1 DEF StateOf, IInv, TypeOK
<1>4. {s \in Streams : pc'[s] = "io"} = {s \in Streams : pc[s] = "io"} \cup {t}
  BY <1>1 DEF Goto, IInv, TypeOK
<1>5. Abs!Transfer(t)
  BY <1>1, <1>2, <1>3, <1>4, StreamBecomes DEF Abs!Transfer
<1> QED  BY <1>1, <1>5 DEF Abs!StreamsNext

(* The holder of the lock stops the stream of nobody's transfer.           *)
LEMMA StopImplements ==
  ASSUME IInv, OwnStream, NEW t \in Threads, StopStream(t)
  PROVE  Abs!StreamsNext \/ UNCHANGED Abs!streamsVars
<1>a. op[t] \in {"standby", "close"} /\ pc[t] = "hasDev" /\ str[t] \in Streams /\ HasLock(t)
  BY DEF StopStream, IInv, Shape, HasLock
<1> PICK s \in Streams : s = str[t]
  BY <1>a
<1>1. op[t] \in {"standby", "close"} /\ pc[t] = "hasDev" /\ s \in Streams /\ HasLock(t)
  BY <1>a
<1>2. /\ handles' = [handles EXCEPT ![s] = 0] /\ opened' = opened
      /\ \A r \in Streams : pc'[r] = "io" <=> pc[r] = "io"
  BY <1>1 DEF StopStream, LeaveDev, Goto, IInv, TypeOK
<1>3. pc[s] # "io"
  <2>1. lock[s] = t
    BY <1>1 DEF IInv, Exclusion
  <2> QED  BY <1>1, <2>1, Transferring
<1>4. \A r \in Streams \ {s} : StateOf(r)' = StateOf(r)
  BY <1>1, <1>2 DEF StateOf, IInv, TypeOK
<1>5. StateOf(s)' = IF s \in opened THEN "standby" ELSE "closed"
  BY <1>1, <1>2 DEF StateOf, IInv, TypeOK
<1>6. CASE handles[s] # 1
  <2>1. StateOf(s)' = StateOf(s)
    BY <1>5, <1>6 DEF StateOf
  <2> QED  BY <1>2, <1>4, <2>1 DEF Abs!streamsVars
<1>7. CASE handles[s] = 1 /\ op[t] = "standby"
  <2>1. StateOf(s) = "active" /\ StateOf(s)' = "standby"
    BY <1>5, <1>7 DEF StateOf, IInv, AloneInv
  <2>2. Abs!Standby(s)
    BY <1>1, <1>2, <1>3, <1>4, <2>1, StreamBecomes DEF Abs!Standby
  <2> QED  BY <1>1, <2>2 DEF Abs!StreamsNext
<1>8. CASE handles[s] = 1 /\ op[t] = "close"
  <2>1. StateOf(s) = "active" /\ StateOf(s)' = "closed"
    BY <1>5, <1>8 DEF StateOf, IInv, AloneInv
  <2>2. Abs!Close(s)
    BY <1>1, <1>2, <1>3, <1>4, <2>1, StreamBecomes DEF Abs!Close
  <2> QED  BY <1>1, <2>2 DEF Abs!StreamsNext
<1> QED  BY <1>1, <1>6, <1>7, <1>8

(* A stream is handed out in standby, with its PCM closed.                 *)
LEMMA PrepareImplements ==
  ASSUME IInv, OwnStream, NEW t \in Threads, Prepare(t)
  PROVE  Abs!StreamsNext \/ UNCHANGED Abs!streamsVars
<1>a. op[t] = "open" /\ str[t] \in Streams
  BY DEF IInv, TypeOK, Ops, Shape, PlaceOK, Prepare, Threads
<1> PICK s \in Streams : s = str[t]
  BY <1>a
<1>1. op[t] = "open" /\ s \in Streams /\ s \in Threads
  BY <1>a DEF Threads
<1>2. s \notin opened /\ \A u \in Threads \ {t} : str[u] # s
  BY <1>1 DEF IInv, AloneInv
<1>3. handles[s] = 0
  BY <1>1, <1>2 DEF IInv, ClosedInv, PcmInv
<1>4. pc[s] # "io"
  BY <1>1, <1>2, Transferring DEF Prepare
<1>5. handles' = handles /\ \A r \in Streams : pc'[r] = "io" <=> pc[r] = "io"
  BY DEF Prepare, Return, Goto, IInv, TypeOK
<1>6. CASE opened' = opened
  BY <1>5, <1>6, SameStreams
<1>7. CASE opened' = opened \cup {s}
  <2>1. StateOf(s) = "closed" /\ StateOf(s)' = "standby"
    BY <1>2, <1>3, <1>5, <1>7 DEF StateOf
  <2>2. \A r \in Streams \ {s} : StateOf(r)' = StateOf(r)
    BY <1>5, <1>7 DEF StateOf
  <2>3. Abs!Open(s)
    BY <1>1, <1>4, <1>5, <2>1, <2>2, StreamBecomes DEF Abs!Open
  <2> QED  BY <1>1, <2>3 DEF Abs!StreamsNext
<1> QED  BY <1>6, <1>7 DEF Prepare

(* The HAL implements the streams without locks: for any number of streams *)
(* and threads, the calls on a stream take effect one after the other.     *)
THEOREM Refinement == Spec => CallsAreSerial
<1>1. Init => Abs!StreamsInit
  BY DEF Init, Abs!StreamsInit, StateOf, Threads
<1>2. ASSUME IInv, OwnStream, [Next]_vars PROVE Abs!StreamsNext \/ UNCHANGED Abs!streamsVars
  <2> USE <1>2
  <2>t. TypeOK
    BY DEF IInv
  <2>1. ASSUME NEW t \in Threads,
               \/ TakePre(t) \/ TakeLock(t) \/ TakeDev(t) \/ StartFails(t) \/ NothingToRead(t)
               \/ BeginRead(t) \/ EndRead(t) \/ GetParameters(t) \/ OpenRead(t)
        PROVE  UNCHANGED Abs!streamsVars
    <3>1. /\ UNCHANGED <<handles, opened>> /\ pc[t] # "io"
          /\ \E place \in Places \ {"io"} : pc' = [pc EXCEPT ![t] = place]
      BY <2>1 DEF TakePre, TakeLock, TakeDev, StartFails, NothingToRead, BeginRead, EndRead,
                  GetParameters, OpenRead, OpAt, LeaveDev, Goto, streamVars, Places
    <3>2. \A s \in Streams : pc'[s] = "io" <=> pc[s] = "io"
      BY <2>t, <3>1 DEF TypeOK
    <3> QED  BY <3>1, <3>2, SameStreams
  <2>2. ASSUME NEW t \in Threads, Parse(t) \/ Undev(t) \/ Unlock(t)
        PROVE  UNCHANGED Abs!streamsVars
    <3>1. /\ UNCHANGED <<handles, opened>> /\ pc[t] # "io"
          /\ \E place \in Places \ {"io"} : pc' = [pc EXCEPT ![t] = place]
      BY <2>2 DEF Parse, ParseCached, ParseSearch, CardFound, NoCardFound, Undev, Unlock, Return,
                  OpAt, Goto, streamVars, Places
    <3>2. \A s \in Streams : pc'[s] = "io" <=> pc[s] = "io"
      BY <2>t, <3>1 DEF TypeOK
    <3> QED  BY <3>1, <3>2, SameStreams
  <2>3. ASSUME NEW t \in Threads, Body(t) PROVE Abs!StreamsNext \/ UNCHANGED Abs!streamsVars
    <3>1. UNCHANGED <<handles, opened>> /\ pc[t] = "body"
      BY <2>3 DEF Body, streamVars
    <3>2. CASE op[t] = "transfer" /\ ~standby[str[t]]
      <4>1. Goto(t, "io") /\ str[t] \in Streams
        BY <2>3, <3>2 DEF Body, OwnStream
      <4>2. handles' = [handles EXCEPT ![str[t]] = 1]
        BY <3>1, <3>2, <4>1 DEF IInv, PcmInv, TypeOK
      <4> QED  BY <3>1, <3>2, <4>1, <4>2, GoingToTransfer
    <3>3. CASE ~(op[t] = "transfer" /\ ~standby[str[t]])
      <4>1. \E place \in Places \ {"io"} : pc' = [pc EXCEPT ![t] = place]
        BY <2>3, <3>3 DEF Body, Goto, Places
      <4>2. \A s \in Streams : pc'[s] = "io" <=> pc[s] = "io"
        BY <2>t, <3>1, <4>1 DEF TypeOK
      <4> QED  BY <3>1, <4>2, SameStreams
    <3> QED  BY <3>2, <3>3
  <2>4. ASSUME NEW t \in Threads, StartStream(t) PROVE Abs!StreamsNext
    <3>1. str[t] \in Streams /\ standby[str[t]]
      BY <2>4 DEF StartStream, OpAt, OwnStream, IInv, SeenInv
    <3>2. handles[str[t]] = 0
      BY <2>t, <3>1 DEF IInv, PcmInv, TypeOK
    <3>3. handles' = [handles EXCEPT ![str[t]] = 1]
      BY <2>4, <3>2 DEF StartStream
    <3> QED  BY <2>4, <3>3, GoingToTransfer DEF StartStream, OpAt, LeaveDev
  <2>5. ASSUME NEW t \in Threads, Io(t) PROVE Abs!StreamsNext
    <3>1. t \in Streams
      BY <2>5 DEF Io, OwnStream, IInv, TypeOK, Ops, Shape, PlaceOK
    <3>2. {s \in Streams : pc'[s] = "io"} = {s \in Streams : pc[s] = "io"} \ {t}
      BY <2>5, <2>t DEF Io, Goto, TypeOK
    <3>3. UNCHANGED <<handles, opened>> /\ pc[t] = "io"
      BY <2>5 DEF Io, streamVars
    <3>4. Abs!Finish(t)
      BY <3>1, <3>2, <3>3 DEF Abs!Finish, StateOf
    <3> QED  BY <3>1, <3>4 DEF Abs!StreamsNext
  <2>6. CASE UNCHANGED vars
    BY <2>6, SameStreams DEF vars, streamVars
  <2> QED
    BY <2>1, <2>2, <2>3, <2>4, <2>5, <2>6, BeginImplements, StopImplements, PrepareImplements
       DEF Next, Run, UnderDev
<1> QED
  BY <1>1, <1>2, Invariant, OwnStreamInvariant, PTL DEF Spec, CallsAreSerial, Abs!StreamsSpec
=============================================================================
