------------------------------- MODULE RpcStub -------------------------------
(***************************************************************************)
(* A call of a function of the CryptoCell firmware through its RPC stub    *)
(* (libcc54/generated/*_stub.c, written by utils/src/sep_rpc_gen).  Every  *)
(* stub checks the sizes of its arrays, copies its inputs into a message   *)
(* on the stack, sends it with DxDI_SepRpcCall, and copies the outputs     *)
(* back.  What differs between the stubs is data: RpcTable.                *)
(*                                                                         *)
(* Of an array only the number of its elements is kept, and of an object   *)
(* only a size that other parameters are measured by, or the context of a  *)
(* multi-call operation, which is the number of updates it has absorbed.   *)
(* Memory references are not copied: the SeP reads and writes the caller's *)
(* buffers itself.  Of them only what it has written is kept.              *)
(***************************************************************************)
EXTENDS Integers, FiniteSets, Sequences

CONSTANTS
  Stubs,        \* name |-> [params, message], see RpcTable
  Word,         \* sizes are unsigned numbers below it
  MaxUpdates    \* bound on the calls made with one context

-----------------------------------------------------------------------------
(* What the table says.                                                    *)
NoPointer == "no pointer"
Params(s)   == {Stubs[s].params[i] : i \in DOMAIN Stubs[s].params}
Room(s)     == Stubs[s].message.room
Arrays(s)   == {p \in Params(s) : p.kind = "array"}
Refs(s)     == {p \in Params(s) : p.kind = "ref"}
Contexts(s) == {p \in Refs(s) : p.context}
(* Memory references (DXDI_DATA_TO_DEVICE, DXDI_DATA_FROM_DEVICE).         *)
Memory(s)  == {p.field : p \in {q \in Params(s) : q.kind = "memref"}}
Data(s)    == {p.field : p \in {q \in Params(s) : q.kind = "memref" /\ "in" \in q.dir}}
Results(s) == {p.field : p \in {q \in Params(s) : q.kind = "memref" /\ "out" \in q.dir}}
Pointers(s) == UNION {{p.ptr, p.size.via} : p \in Params(s)} \ {NoPointer}
(* The numbers among the arguments that are the size of an array, in units *)
(* of which Scale make an element, and those of them that are objects the  *)
(* function sets.                                                          *)
Scale(unit) == CASE unit = "words" -> 32 [] unit \in {"bits", "floor"} -> 8 [] OTHER -> 1
Measures(s) == {[of |-> p.size.of, full |-> p.bound * Scale(p.size.unit)] : p \in Arrays(s)}
Sizes(s) == {m.of : m \in Measures(s)} \ {NoPointer}
SetByCall(s) == Sizes(s) \cap {p.ptr : p \in {r \in Refs(s) : "out" \in r.dir}}

(* The number of elements, as the stub computes it from the arguments.     *)
Elements(z, val) ==
  CASE z.unit = "elements" -> z.n
    [] z.unit = "bytes" -> val[z.of]
    [] z.unit = "bits"  -> ((val[z.of] + 7) % Word) \div 8
    [] z.unit = "floor" -> val[z.of] \div 8
    [] z.unit = "words" -> val[z.of] \div 32

(* sep_rpc.h: SEP_RPC_MAX_MEMREF_PER_FUNC                                  *)
MaxMemrefs == 4

Units == {"elements", "bytes", "bits", "floor", "words"}
Measure == [unit : Units, of : STRING, via : STRING, n : Nat]
Parameter == [kind : {"array", "ref", "memref"}, field : STRING, ptr : STRING,
              dir : SUBSET {"in", "out"}, size : Measure, bound : Nat, guarded : BOOLEAN,
              tested : BOOLEAN, context : BOOLEAN]

(* Every array of a message has the room that its size is checked against, *)
(* a size that the function sets is one in bytes, no two functions have    *)
(* the same numbers, what a message says of its memory references is so,   *)
(* and no memory reference is for both directions.                         *)
ASSUME TableAssumption ==
  /\ Word \in Nat \ {0}
  /\ MaxUpdates \in Nat \ {0}
  /\ \A s \in DOMAIN Stubs :
       /\ \A p \in Params(s) : p \in Parameter
       /\ \A p \in Arrays(s) :
            /\ p.field \in DOMAIN Room(s)
            /\ Room(s)[p.field] \in Nat
            /\ p.bound <= Room(s)[p.field]
            /\ p.size.unit = "elements" <=> p.size.of = NoPointer
            /\ p.size.of \in SetByCall(s) => p.size.unit = "bytes"
       /\ Stubs[s].message.memrefs = Cardinality({p \in Params(s) : p.kind = "memref"})
       /\ Stubs[s].message.memrefs <= MaxMemrefs
       /\ Data(s) \cap Results(s) = {}
       /\ \A t \in DOMAIN Stubs \ {s} :
            <<Stubs[s].message.agent, Stubs[s].message.func>>
              # <<Stubs[t].message.agent, Stubs[t].message.func>>

-----------------------------------------------------------------------------
VARIABLES
  pc,           \* "idle", "called", "sent", "done" (by the SeP), "returned", "dead"
  call,         \* the stub, its NULL arguments, the sizes it is called with, and
                \* whether its results are to replace its data
  val,          \* the caller's sizes now
  held,         \* updates in the caller's context
  acked,        \* updates that the caller has been told of
  msg,          \* the message's sizes and context, and the function's result
  copies,       \* memcpy calls from or to the message's arrays
  written,      \* the caller's buffers that the SeP has written
  ret           \* what the stub returns: "ok", "failed" or an RPC error

vars == <<pc, call, val, held, acked, msg, copies, written, ret>>
s0 == call.stub

(* Arguments that are regular but for one: all arrays full, then one size   *)
(* that is zero, one less or more than the array holds, or about to wrap.   *)
Full(s, a) == CHOOSE n \in {m.full : m \in {x \in Measures(s) : x.of = a}} : TRUE
Unusual(full) == {0, full - 1, full + 1, full + 32, Word - 1} \cap 0..(Word - 1)
AllButOne(f) == {f} \cup UNION {{[f EXCEPT ![a] = x] : x \in Unusual(f[a])} : a \in DOMAIN f}
Values(s) == AllButOne([a \in Sizes(s) |-> Full(s, a)])
Nulls(s) == {{}} \cup {{x} : x \in Pointers(s)}

NoCall == [stub |-> "none", null |-> {}, val |-> <<>>, inPlace |-> FALSE]
NoMessage == [val |-> <<>>, held |-> 0, result |-> "none"]

Given(p) == p.ptr \notin call.null
Sized(p) == p.size.via \notin call.null
Counted(p) == Given(p) /\ Sized(p)
OnContext == \E p \in Contexts(s0) : Given(p)

FollowsNull(p) == Given(p) /\ ~Sized(p) /\ ~p.tested
(* Fault: the array takes one element more than it has.                    *)
TooLargeByOne(p) == Counted(p) /\ Elements(p.size, val) > p.bound + 1
TooLarge(p) == Counted(p) /\ Elements(p.size, val) > p.bound

Copy(p, n) == [field |-> p.field, n |-> n, room |-> Room(s0)[p.field], guarded |-> p.guarded,
               own |-> Elements(p.size, call.val)]

-----------------------------------------------------------------------------
Idle == /\ pc' = "idle"
        /\ call' = NoCall
        /\ val' = <<>>
        /\ held' = 0
        /\ acked' = 0
        /\ msg' = NoMessage
        /\ copies' = {}
        /\ written' = {}
        /\ ret' = "none"

Init == /\ pc = "idle"
        /\ call = NoCall
        /\ val = <<>>
        /\ held = 0
        /\ acked = 0
        /\ msg = NoMessage
        /\ copies = {}
        /\ written = {}
        /\ ret = "none"

(* A caller may pass one buffer for the data and for the results.          *)
Call == /\ pc = "idle"
        /\ \E s \in DOMAIN Stubs : \E null \in Nulls(s), v \in Values(s), inPlace \in BOOLEAN :
             /\ inPlace => Results(s) # {}
             /\ call' = [stub |-> s, null |-> null, val |-> v, inPlace |-> inPlace]
             /\ val' = v
        /\ pc' = "called"
        /\ UNCHANGED <<held, acked, msg, copies, written, ret>>

(* The stub looks behind a pointer that it has not compared with NULL.     *)
Crash == /\ pc = "called"
         /\ \E p \in Arrays(s0) : FollowsNull(p)
         /\ pc' = "dead"
         /\ UNCHANGED <<call, val, held, acked, msg, copies, written, ret>>

(* SEP_RPC_ASSERT on the size of an array.                                 *)
RefuseSize == /\ pc = "called"
              /\ ~\E p \in Arrays(s0) : FollowsNull(p)
              /\ \E p \in Arrays(s0) : TooLarge(p)
              /\ pc' = "returned"
              /\ ret' = "B_ERROR"
              /\ UNCHANGED <<call, val, held, acked, msg, copies, written>>

Marshal == /\ pc = "called"
           /\ \A p \in Arrays(s0) : ~FollowsNull(p) /\ ~TooLarge(p)
           /\ copies' = {Copy(p, Elements(p.size, val)) :
                           p \in {q \in Arrays(s0) : "in" \in q.dir /\ Counted(q)}}
           /\ msg' = [val |-> val, held |-> held, result |-> "none"]
           /\ pc' = "sent"
           /\ UNCHANGED <<call, val, held, acked, written, ret>>

(* Fault: every buffer is mapped for both directions.                      *)
SharesAll(out) == IF out = {} THEN {} ELSE Memory(s0)
(* The buffers that hold something else once those of "out" are written.   *)
Overwrites(out) == IF call.inPlace /\ out # {} THEN Memory(s0) ELSE out

(* External: the SeP runs the function.  It sets sizes to what it has       *)
(* produced, or to anything, and leaves a context as it was when it fails.  *)
(* Its DMA writes the results to the caller, some of them when it fails.    *)
SepExecutes ==
  /\ pc = "sent"
  /\ \E result \in {"ok", "failed"} :
       /\ \E set \in AllButOne([a \in SetByCall(s0) |-> msg.val[a]]) :
            msg' = [val |-> [a \in DOMAIN msg.val |->
                               IF a \in SetByCall(s0) THEN set[a] ELSE msg.val[a]],
                    held |-> IF result = "ok" /\ OnContext THEN msg.held + 1 ELSE msg.held,
                    result |-> result]
       /\ \E out \in SUBSET Results(s0) :
            /\ result = "ok" => out = Results(s0)
            /\ written' = written \cup Overwrites(out)
  /\ pc' = "done"
  /\ UNCHANGED <<call, val, held, acked, copies, ret>>

(* sep_rpc.h: seprpc_retcode_t                                             *)
RpcCodes == {"OK", "ERROR", "EINVAL_AGENT", "EINVAL_FUNC", "EINVAL", "ENORSC"}
(* Fault: the SeP's code is left to the caller.                            *)
DoIoctlPasses(err, rpcRc) == IF err # 0 THEN "ERRNO" ELSE "OK"
(* driver_interface.c: an error code of the SeP makes the ioctl fail.      *)
DoIoctl(err, rpcRc) == IF err # 0 THEN "ERRNO" ELSE IF rpcRc # "OK" THEN "ESEP" ELSE "OK"
(* What the stub makes of the driver's and the SeP's codes.                *)
StubError(diRc, rpcRc) ==
  IF diRc # "OK" THEN "A_ERROR"
  ELSE CASE rpcRc = "OK" -> "none"
         [] rpcRc = "EINVAL" -> "B_ERROR"
         [] rpcRc = "ENORSC" -> "C_ERROR"
         [] OTHER -> "A_ERROR"

Failure(err, rpcRc) == /\ ret' = StubError(DoIoctl(err, rpcRc), rpcRc)
                       /\ pc' = "returned"
                       /\ copies' = {}
                       /\ UNCHANGED <<call, val, acked, msg, written>>

(* The agent does not know the function, or finds the message too short or *)
(* its workspace too small, and does not run the function.                 *)
SepRefuses == /\ pc = "sent"
              /\ \E rpcRc \in RpcCodes \ {"OK"} : Failure(0, rpcRc)
              /\ UNCHANGED held

(* Fault: the context is copied back before it is known that there is one. *)
FailsAfterCopy == /\ pc \in {"sent", "done"}
                  /\ Failure(1, "OK")
                  /\ held' = IF OnContext THEN msg.held ELSE held
(* There is no device, the message cannot be sent, or the answer of a      *)
(* function that has run is lost: its DMA has taken place all the same.    *)
IoctlFails == /\ pc \in {"sent", "done"}
              /\ Failure(1, "OK")
              /\ UNCHANGED held

(* Fault: the size that has come back is not compared.                     *)
ReturnedUnguarded(p) == "out" \in p.dir /\ Counted(p)
(* Objects first, then arrays, by the sizes that have just been set.  The  *)
(* function's own code is returned after everything has been copied.       *)
Returned(p) == /\ "out" \in p.dir
               /\ Counted(p)
               /\ p.guarded => Elements(p.size, val') <= Room(s0)[p.field]
CopyBack == /\ pc = "done"
            /\ val' = [a \in DOMAIN val |->
                         IF a \in SetByCall(s0) \ call.null THEN msg.val[a] ELSE val[a]]
            /\ held' = IF OnContext THEN msg.held ELSE held
            /\ copies' = {Copy(p, Elements(p.size, val')) : p \in {q \in Arrays(s0) : Returned(q)}}
            /\ ret' = msg.result
            /\ acked' = IF ret' = "ok" /\ OnContext THEN acked + 1 ELSE acked
            /\ pc' = "returned"
            /\ UNCHANGED <<call, msg, written>>

(* The caller goes on with the context and new data, or tries a call that  *)
(* failed again with the data that is in its buffers.                      *)
Again == /\ pc = "returned"
         /\ Contexts(s0) # {}
         /\ acked < MaxUpdates
         /\ val' = call.val
         /\ pc' = "called"
         /\ msg' = NoMessage
         /\ copies' = {}
         /\ written' = IF ret = "ok" THEN {} ELSE written
         /\ ret' = "none"
         /\ UNCHANGED <<call, held, acked>>

(* The caller is through with it; a process that died is started again.    *)
Forget == pc \in {"returned", "dead"} /\ Idle

Next == \/ Call \/ Crash \/ RefuseSize \/ Marshal
        \/ SepExecutes \/ SepRefuses \/ IoctlFails \/ CopyBack \/ Again \/ Forget

Spec == Init /\ [][Next]_vars

-----------------------------------------------------------------------------
(* Type invariant.  No stub ever returns its third RPC error: see DoIoctl. *)
TypeOK ==
  /\ pc \in {"idle", "called", "sent", "done", "returned", "dead"}
  /\ pc # "idle" => /\ call.stub \in DOMAIN Stubs
                    /\ call.null \subseteq Pointers(s0)
                    /\ call.val \in [Sizes(s0) -> Int]
                    /\ val \in [Sizes(s0) -> Int]
                    /\ written \subseteq Memory(s0)
  /\ pc \in {"sent", "done"} => msg.val \in [Sizes(s0) -> Int]
  /\ held \in 0..MaxUpdates
  /\ acked \in 0..MaxUpdates
  /\ ret \in {"none", "ok", "failed", "A_ERROR", "B_ERROR"}

(* What a stub copies into its message fits there, whatever the arguments. *)
SentInBounds == pc = "sent" => \A c \in copies : c.n <= c.room

(* What a stub copies back fits the caller's arrays as the caller has      *)
(* described them, and is in the message, if the SeP claims no more than   *)
(* it was offered.  Arrays that are compared once more (GuardedOut) stay   *)
(* within the message whatever the SeP claims.                             *)
Honest == \A a \in DOMAIN val : val[a] <= call.val[a]
CopiedBackInBounds == pc = "returned" =>
  \A c \in copies : /\ c.guarded => c.n <= c.room
                    /\ Honest => c.n <= c.room /\ c.n <= c.own

(* A call that returns an RPC error has changed nothing that its stub      *)
(* copies, so it may be tried again even when it is the answer that was    *)
(* lost: the context has absorbed every update that was acknowledged,      *)
(* once.  What the SeP writes itself may have changed, but that is the     *)
(* data the retry is to send only if the call was in place: the caller of  *)
(* CRYS_RC4_Stream must not retry in place.                                *)
RetryIsSafe ==
  /\ held = acked
  /\ pc = "returned" /\ ret \notin {"ok", "failed"} =>
       /\ val = call.val /\ copies = {}
       /\ Data(s0) \cap written # {} => call.inPlace
=============================================================================
