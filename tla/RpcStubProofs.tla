---------------------------- MODULE RpcStubProofs ----------------------------
(***************************************************************************)
(* Proofs about RpcStub, for every table of stubs that TableAssumption     *)
(* allows: the one of RpcTable is checked to be one.                       *)
(***************************************************************************)
EXTENDS RpcStub, TLAPS

(* What is known while a call is under way.                                *)
Running == pc \in {"called", "sent", "done"}
Unchanged == /\ Running => val = call.val /\ acked < MaxUpdates
             /\ pc = "idle" => acked = 0 /\ written = {}
(* Only a call in place has its data overwritten.                          *)
DataKept == pc # "idle" /\ ~call.inPlace => written \subseteq Results(s0)
Checked == pc \in {"sent", "done"} =>
  \A p \in Arrays(s0) : Counted(p) => Elements(p.size, call.val) <= p.bound
MessageInv ==
  /\ pc \in {"idle", "called"} => copies = {}
  /\ pc = "sent" => msg.held = held /\ msg.val = call.val
  /\ pc = "done" => /\ msg.result \in {"ok", "failed"}
                    /\ msg.held = IF msg.result = "ok" /\ OnContext THEN held + 1 ELSE held
                    /\ \A a \in Sizes(s0) \ SetByCall(s0) : msg.val[a] = call.val[a]

IInv == TypeOK /\ Unchanged /\ DataKept /\ Checked /\ MessageInv
        /\ SentInBounds /\ CopiedBackInBounds /\ RetryIsSafe

-----------------------------------------------------------------------------
(* The table.                                                              *)
LEMMA ArrayFacts ==
  ASSUME NEW s \in DOMAIN Stubs, NEW p \in Arrays(s)
  PROVE  /\ p \in Parameter
         /\ Room(s)[p.field] \in Nat
         /\ p.bound <= Room(s)[p.field]
         /\ p.size.unit # "elements" => p.size.of \in Sizes(s)
         /\ p.size.of \in SetByCall(s) => p.size.unit = "bytes"
<1>1. p \in Params(s)
  BY DEF Arrays
<1>2. p.size.unit = "elements" <=> p.size.of = NoPointer
  BY TableAssumption
<1>3. ASSUME p.size.unit # "elements" PROVE p.size.of \in Sizes(s)
  <2>1. [of |-> p.size.of, full |-> p.bound * Scale(p.size.unit)] \in Measures(s)
    BY DEF Measures
  <2> QED
    BY <1>2, <1>3, <2>1 DEF Sizes
<1> QED
  BY <1>1, <1>3, TableAssumption

(* The number of elements is a number.                                     *)
LEMMA ElementsType ==
  ASSUME NEW s \in DOMAIN Stubs, NEW p \in Arrays(s), NEW v \in [Sizes(s) -> Int]
  PROVE  Elements(p.size, v) \in Int
<1>1. p.size \in Measure /\ (p.size.unit # "elements" => p.size.of \in Sizes(s))
  BY ArrayFacts DEF Parameter
<1>2. p.size.n \in Int /\ p.size.unit \in {"elements", "bytes", "bits", "floor", "words"}
  BY <1>1 DEF Measure, Units
<1>3. CASE p.size.unit = "elements"
  BY <1>2, <1>3 DEF Elements
<1>4. CASE p.size.unit # "elements"
  <2>1. v[p.size.of] \in Int
    BY <1>1, <1>4
  <2>2. Word \in Nat \ {0}
    BY TableAssumption
  <2>3. v[p.size.of] \div 8 \in Int /\ v[p.size.of] \div 32 \in Int
    BY <2>1
  <2>4. (v[p.size.of] + 7) % Word \in Int
    BY <2>1, <2>2
  <2>5. ((v[p.size.of] + 7) % Word) \div 8 \in Int
    BY <2>4
  <2> QED
    BY <1>2, <1>4, <2>1, <2>3, <2>5 DEF Elements
<1> QED
  BY <1>3, <1>4

(* Sizes that are no smaller than others where the function sets them, and  *)
(* the same everywhere else, give as many elements or more.                *)
LEMMA ElementsMonotone ==
  ASSUME NEW s \in DOMAIN Stubs, NEW p \in Arrays(s),
         NEW v \in [Sizes(s) -> Int], NEW w \in [Sizes(s) -> Int],
         \A a \in Sizes(s) : v[a] <= w[a],
         \A a \in Sizes(s) \ SetByCall(s) : v[a] = w[a]
  PROVE  Elements(p.size, v) <= Elements(p.size, w)
<1>1. /\ p.size \in Measure
      /\ p.size.unit # "elements" => p.size.of \in Sizes(s)
      /\ p.size.of \in SetByCall(s) => p.size.unit = "bytes"
  BY ArrayFacts DEF Parameter
<1>2. Elements(p.size, v) \in Int /\ Elements(p.size, w) \in Int
  BY ElementsType
<1>3. CASE p.size.unit = "elements"
  BY <1>1, <1>3 DEF Elements, Measure
<1>4. CASE p.size.unit = "bytes"
  BY <1>1, <1>4 DEF Elements
<1>5. CASE p.size.unit \notin {"elements", "bytes"}
  <2>1. p.size.of \in Sizes(s) \ SetByCall(s)
    BY <1>1, <1>5
  <2>2. v[p.size.of] = w[p.size.of]
    BY <2>1
  <2>3. Elements(p.size, v) = Elements(p.size, w)
    BY <1>1, <1>5, <2>2 DEF Elements, Measure, Units
  <2> QED
    BY <1>2, <2>3
<1> QED
  BY <1>3, <1>4, <1>5

(* The arguments that calls are made with.                                 *)
LEMMA VariedType ==
  ASSUME NEW S, NEW f \in [S -> Int]
  PROVE  AllButOne(f) \subseteq [S -> Int]
<1>1. ASSUME NEW a \in S, NEW x \in Unusual(f[a])
      PROVE  [f EXCEPT ![a] = x] \in [S -> Int]
  <2>1. x \in Int
    BY DEF Unusual
  <2> QED
    BY <2>1
<1> QED
  BY <1>1 DEF AllButOne

LEMMA ValuesType ==
  ASSUME NEW s \in DOMAIN Stubs
  PROVE  Values(s) \subseteq [Sizes(s) -> Int]
<1>1. ASSUME NEW a \in Sizes(s)
      PROVE  Full(s, a) \in Int
  <2> DEFINE Fulls == {m.full : m \in {x \in Measures(s) : x.of = a}}
  <2>1. \E n \in Fulls : TRUE
    BY DEF Sizes
  <2>2. Fulls \subseteq Int
    <3>1. ASSUME NEW p \in Arrays(s)
          PROVE  p.bound * Scale(p.size.unit) \in Int
      <4>1. p.bound \in Nat
        BY ArrayFacts DEF Parameter
      <4>2. Scale(p.size.unit) \in Nat
        BY DEF Scale
      <4> QED
        BY <4>1, <4>2
    <3> QED
      BY <3>1 DEF Measures
  <2>3. Full(s, a) \in Fulls
    BY <2>1 DEF Full
  <2> QED
    BY <2>2, <2>3
<1>2. [a \in Sizes(s) |-> Full(s, a)] \in [Sizes(s) -> Int]
  BY <1>1
<1> QED
  BY <1>2, VariedType DEF Values
-----------------------------------------------------------------------------
(* The steps.                                                              *)
LEMMA InitInv == Init => IInv
BY TableAssumption DEF Init, IInv, TypeOK, Unchanged, DataKept, Running, Checked, MessageInv,
   SentInBounds, CopiedBackInBounds, RetryIsSafe, NoCall, NoMessage

(* The data of a call that is not in place is what the caller gave.        *)
LEMMA DataFacts ==
  ASSUME TypeOK, DataKept, pc # "idle"
  PROVE  Data(s0) \cap written # {} => call.inPlace
<1>1. s0 \in DOMAIN Stubs
  BY DEF TypeOK, s0
<1>2. Data(s0) \cap Results(s0) = {}
  BY <1>1, TableAssumption
<1> QED
  BY <1>2 DEF DataKept

LEMMA CallInv == IInv /\ Call => IInv'
<1> SUFFICES ASSUME IInv, Call PROVE IInv'
  OBVIOUS
<1> USE DEF IInv
<1>0. PICK s \in DOMAIN Stubs : \E null \in Nulls(s), v \in Values(s), inPlace \in BOOLEAN :
        call' = [stub |-> s, null |-> null, val |-> v, inPlace |-> inPlace] /\ val' = v
  BY DEF Call
<1>1. PICK null \in Nulls(s), v \in Values(s), inPlace \in BOOLEAN :
        call' = [stub |-> s, null |-> null, val |-> v, inPlace |-> inPlace] /\ val' = v
  BY <1>0
<1>2. v \in [Sizes(s) -> Int]
  BY ValuesType
<1>3. null \subseteq Pointers(s)
  BY DEF Nulls
<1>4. TypeOK' /\ written' = {}
  BY <1>1, <1>2, <1>3 DEF TypeOK, Unchanged, Call, s0
<1>5. Unchanged' /\ DataKept'
  BY <1>1, <1>4, TableAssumption DEF Unchanged, DataKept, Running, Call
<1>6. (Checked /\ MessageInv /\ SentInBounds /\ CopiedBackInBounds)'
  BY DEF Call, Checked, MessageInv, SentInBounds, CopiedBackInBounds
<1>7. RetryIsSafe'
  BY DEF Call, RetryIsSafe
<1> QED
  BY <1>4, <1>5, <1>6, <1>7

LEMMA CrashInv == IInv /\ Crash => IInv'
BY DEF IInv, Crash, TypeOK, Unchanged, DataKept, Running, Checked, MessageInv,
   SentInBounds, CopiedBackInBounds, RetryIsSafe, s0

LEMMA RefuseSizeInv == IInv /\ RefuseSize => IInv'
<1> SUFFICES ASSUME IInv, RefuseSize PROVE IInv'
  OBVIOUS
<1> USE DEF IInv, RefuseSize
<1>1. TypeOK'
  BY DEF TypeOK, s0
<1>2. (Unchanged /\ DataKept /\ Checked /\ MessageInv /\ SentInBounds)'
  BY DEF Unchanged, DataKept, Running, Checked, MessageInv, SentInBounds, s0
<1>3. copies = {}
  BY DEF MessageInv
<1>4. (CopiedBackInBounds /\ RetryIsSafe)'
  <2>1. (Data(s0) \cap written # {} => call.inPlace)'
    BY DataFacts DEF s0
  <2> QED
    BY <1>3, <2>1 DEF CopiedBackInBounds, RetryIsSafe, Unchanged, Running
<1> QED
  BY <1>1, <1>2, <1>4

(* What Marshal and CopyBack copy.                                         *)
LEMMA CopyFacts ==
  ASSUME NEW p, NEW n
  PROVE  /\ Copy(p, n).n = n
         /\ Copy(p, n).room = Room(s0)[p.field]
         /\ Copy(p, n).guarded = p.guarded
         /\ Copy(p, n).own = Elements(p.size, call.val)
BY DEF Copy

LEMMA MarshalInv == IInv /\ Marshal => IInv'
<1> SUFFICES ASSUME IInv, Marshal PROVE IInv'
  OBVIOUS
<1> USE DEF IInv
<1>0. s0 \in DOMAIN Stubs /\ call.val \in [Sizes(s0) -> Int] /\ val = call.val
      /\ UNCHANGED <<call, val, held, acked, written, ret>> /\ pc' = "sent"
  BY DEF Marshal, TypeOK, Unchanged, Running, s0
<1>1. TypeOK'
  BY <1>0 DEF TypeOK, s0, Marshal
<1>2. Unchanged' /\ DataKept'
  BY <1>0 DEF Unchanged, DataKept, Running, Marshal, s0
<1>3. \A p \in Arrays(s0) : Counted(p) => Elements(p.size, call.val) <= p.bound
  <2> SUFFICES ASSUME NEW p \in Arrays(s0), Counted(p) PROVE Elements(p.size, call.val) <= p.bound
    OBVIOUS
  <2>1. ~(Elements(p.size, call.val) > p.bound)
    BY <1>0 DEF Marshal, TooLarge
  <2>2. Elements(p.size, call.val) \in Int /\ p.bound \in Int
    BY <1>0, ElementsType, ArrayFacts DEF Parameter
  <2> QED
    BY <2>1, <2>2
<1>4. Checked' /\ MessageInv'
  BY <1>0, <1>3 DEF Checked, MessageInv, Marshal, Counted, Given, Sized, s0
<1>5. SentInBounds'
  <2> SUFFICES ASSUME NEW c \in copies' PROVE c.n <= c.room
    BY DEF SentInBounds
  <2>1. PICK p \in Arrays(s0) : "in" \in p.dir /\ Counted(p) /\ c = Copy(p, Elements(p.size, val))
    BY DEF Marshal
  <2>2. Elements(p.size, call.val) <= p.bound
    BY <1>3, <2>1
  <2>3. /\ p.bound <= Room(s0)[p.field] /\ Room(s0)[p.field] \in Int /\ p.bound \in Int
        /\ Elements(p.size, call.val) \in Int
    BY <1>0, ElementsType, ArrayFacts DEF Parameter
  <2> QED
    BY <1>0, <2>1, <2>2, <2>3, CopyFacts
<1>6. CopiedBackInBounds' /\ RetryIsSafe'
  BY <1>0 DEF CopiedBackInBounds, RetryIsSafe
<1> QED
  BY <1>1, <1>2, <1>4, <1>5, <1>6

LEMMA SepExecutesInv == IInv /\ SepExecutes => IInv'
<1> SUFFICES ASSUME IInv, SepExecutes PROVE IInv'
  OBVIOUS
<1> USE DEF IInv
<1>0. /\ s0 \in DOMAIN Stubs /\ msg.val \in [Sizes(s0) -> Int] /\ msg.held = held
      /\ pc = "sent" /\ pc' = "done" /\ UNCHANGED <<call, val, held, acked, copies, ret>>
  BY DEF SepExecutes, TypeOK, MessageInv, s0
<1>1. PICK result \in {"ok", "failed"} :
        /\ \E set \in AllButOne([a \in SetByCall(s0) |-> msg.val[a]]) :
             msg' = [val |-> [a \in DOMAIN msg.val |->
                                IF a \in SetByCall(s0) THEN set[a] ELSE msg.val[a]],
                     held |-> IF result = "ok" /\ OnContext THEN msg.held + 1 ELSE msg.held,
                     result |-> result]
        /\ \E out \in SUBSET Results(s0) : written' = written \cup Overwrites(out)
  BY DEF SepExecutes
<1>2. PICK set \in AllButOne([a \in SetByCall(s0) |-> msg.val[a]]) :
          msg' = [val |-> [a \in DOMAIN msg.val |->
                             IF a \in SetByCall(s0) THEN set[a] ELSE msg.val[a]],
                  held |-> IF result = "ok" /\ OnContext THEN msg.held + 1 ELSE msg.held,
                  result |-> result]
  BY <1>1
<1>3. set \in [SetByCall(s0) -> Int]
  <2>1. [a \in SetByCall(s0) |-> msg.val[a]] \in [SetByCall(s0) -> Int]
    BY <1>0 DEF SetByCall
  <2> QED
    BY <1>2, <2>1, VariedType
<1>4. msg'.val \in [Sizes(s0) -> Int]
  BY <1>0, <1>2, <1>3
<1>5. TypeOK' /\ DataKept'
  <2>1. PICK out \in SUBSET Results(s0) : written' = written \cup Overwrites(out)
    BY <1>1
  <2>2. Results(s0) \subseteq Memory(s0)
    BY DEF Results, Memory
  <2>3. Overwrites(out) \subseteq Memory(s0)
    BY <2>2 DEF Overwrites
  <2>4. ~call.inPlace => Overwrites(out) \subseteq Results(s0)
    BY DEF Overwrites
  <2>5. DataKept'
    BY <1>0, <2>1, <2>4 DEF DataKept, s0
  <2> QED
    BY <1>0, <1>4, <2>1, <2>3, <2>5 DEF TypeOK, s0
<1>6. Unchanged' /\ Checked'
  BY <1>0 DEF Unchanged, Running, Checked, Counted, Given, Sized, s0
<1>7. MessageInv'
  <2>1. val = call.val
    BY <1>0 DEF Unchanged, Running
  <2>2. \A a \in Sizes(s0) \ SetByCall(s0) : msg'.val[a] = msg.val[a]
    BY <1>0, <1>2
  <2>3. \A a \in Sizes(s0) \ SetByCall(s0) : msg.val[a] = call.val[a]
    BY <1>0 DEF MessageInv
  <2> QED
    BY <1>0, <1>2, <2>2, <2>3 DEF MessageInv, OnContext, Given, s0
<1>8. (SentInBounds /\ CopiedBackInBounds /\ RetryIsSafe)'
  BY <1>0 DEF SentInBounds, CopiedBackInBounds, RetryIsSafe
<1> QED
  BY <1>5, <1>6, <1>7, <1>8

(* Whatever has gone wrong, the stub returns its generic error.            *)
LEMMA FailureFacts ==
  ASSUME NEW err, NEW rpcRc, err # 0 \/ rpcRc # "OK", Failure(err, rpcRc)
  PROVE  ret' = "A_ERROR"
<1>1. DoIoctl(err, rpcRc) # "OK"
  BY DEF DoIoctl
<1>2. ASSUME NEW diRc, diRc # "OK" PROVE StubError(diRc, rpcRc) = "A_ERROR"
  BY <1>2 DEF StubError
<1> QED
  BY <1>1, <1>2 DEF Failure

LEMMA FailsInv == IInv /\ (SepRefuses \/ IoctlFails) => IInv'
<1> SUFFICES ASSUME IInv, SepRefuses \/ IoctlFails PROVE IInv'
  OBVIOUS
<1> USE DEF IInv
<1>1. /\ pc \in {"sent", "done"} /\ pc' = "returned" /\ copies' = {} /\ ret' = "A_ERROR"
      /\ UNCHANGED <<call, val, held, acked, msg, written>>
  BY FailureFacts DEF SepRefuses, IoctlFails, Failure
<1>2. TypeOK'
  BY <1>1 DEF TypeOK, s0
<1>3. (Unchanged /\ DataKept /\ Checked /\ MessageInv /\ SentInBounds /\ CopiedBackInBounds)'
  BY <1>1 DEF Unchanged, DataKept, s0, Running, Checked, MessageInv, SentInBounds, CopiedBackInBounds
<1>4. RetryIsSafe'
  <2>1. (Data(s0) \cap written # {} => call.inPlace)'
    BY <1>1, DataFacts DEF s0
  <2> QED
    BY <1>1, <2>1 DEF RetryIsSafe, Unchanged, Running
<1> QED
  BY <1>2, <1>3, <1>4

LEMMA CopyBackInv == IInv /\ CopyBack => IInv'
<1> SUFFICES ASSUME IInv, CopyBack PROVE IInv'
  OBVIOUS
<1> USE DEF IInv
<1>0. /\ s0 \in DOMAIN Stubs /\ s0' = s0 /\ call' = call
      /\ written' = written /\ written \subseteq Memory(s0)
      /\ val \in [Sizes(s0) -> Int] /\ call.val \in [Sizes(s0) -> Int] /\ val = call.val
      /\ msg.val \in [Sizes(s0) -> Int]
      /\ pc = "done" /\ pc' = "returned"
  BY DEF CopyBack, TypeOK, Unchanged, Running, s0
<1>1. val' \in [Sizes(s0) -> Int]
  BY <1>0 DEF CopyBack
<1>2. /\ held' = acked' /\ held' \in 0..MaxUpdates /\ ret' \in {"ok", "failed"}
  BY <1>0, TableAssumption DEF CopyBack, MessageInv, RetryIsSafe, TypeOK, Unchanged, Running
<1>3. TypeOK'
  BY <1>0, <1>1, <1>2 DEF TypeOK, s0
<1>4. (Unchanged /\ DataKept /\ Checked /\ MessageInv /\ SentInBounds)'
  BY <1>0 DEF CopyBack, DataKept, Unchanged, Running, Checked, MessageInv, SentInBounds
<1>5. RetryIsSafe'
  BY <1>2 DEF RetryIsSafe
<1>6. CopiedBackInBounds'
  <2> SUFFICES ASSUME NEW c \in copies'
               PROVE  /\ c.guarded => c.n <= c.room
                      /\ Honest' => c.n <= c.room /\ c.n <= c.own
    BY DEF CopiedBackInBounds
  <2>1. PICK p \in Arrays(s0) : Returned(p) /\ c = Copy(p, Elements(p.size, val'))
    BY DEF CopyBack
  <2>2. /\ c.n = Elements(p.size, val') /\ c.room = Room(s0)[p.field]
        /\ c.guarded = p.guarded /\ c.own = Elements(p.size, call.val)
    BY <2>1, CopyFacts
  <2>3. /\ "out" \in p.dir /\ Counted(p)
        /\ p.guarded => Elements(p.size, val') <= Room(s0)[p.field]
    BY <1>0, <2>1, ArrayFacts DEF Returned
  <2>4. c.guarded => c.n <= c.room
    BY <2>2, <2>3
  <2>5. ASSUME Honest' PROVE c.n <= c.room /\ c.n <= c.own
    <3>1. \A a \in Sizes(s0) : val'[a] <= call.val[a]
      BY <1>0, <1>1, <2>5 DEF Honest
    <3>2. \A a \in Sizes(s0) \ SetByCall(s0) : val'[a] = call.val[a]
      BY <1>0 DEF CopyBack
    <3>3. Elements(p.size, val') <= Elements(p.size, call.val)
      BY <1>0, <1>1, <3>1, <3>2, ElementsMonotone
    <3>4. Elements(p.size, call.val) <= p.bound
      BY <1>0, <2>3 DEF Checked
    <3>5. /\ p.bound <= Room(s0)[p.field] /\ Room(s0)[p.field] \in Int /\ p.bound \in Int
      BY <1>0, ArrayFacts DEF Parameter
    <3>6. Elements(p.size, val') \in Int /\ Elements(p.size, call.val) \in Int
      BY <1>0, <1>1, ElementsType
    <3> QED
      BY <2>2, <2>3, <3>3, <3>4, <3>5, <3>6
  <2> QED
    BY <2>4, <2>5
<1> QED
  BY <1>3, <1>4, <1>5, <1>6

LEMMA AgainInv == IInv /\ Again => IInv'
<1> SUFFICES ASSUME IInv, Again PROVE IInv'
  OBVIOUS
<1> USE DEF IInv, Again
<1>1. TypeOK' /\ DataKept'
  BY DEF TypeOK, DataKept, s0
<1>2. (Unchanged /\ Checked /\ MessageInv /\ SentInBounds /\ CopiedBackInBounds /\ RetryIsSafe)'
  BY DEF Unchanged, Running, Checked, MessageInv, SentInBounds, CopiedBackInBounds, RetryIsSafe
<1> QED
  BY <1>1, <1>2

LEMMA ForgetInv == IInv /\ Forget => IInv'
BY TableAssumption DEF Forget, Idle, IInv, TypeOK, Unchanged, DataKept, Running, Checked, MessageInv,
   SentInBounds, CopiedBackInBounds, RetryIsSafe, NoCall, NoMessage

LEMMA StutterInv == IInv /\ UNCHANGED vars => IInv'
BY DEF vars, IInv, TypeOK, Unchanged, DataKept, Running, Checked, MessageInv, SentInBounds,
   CopiedBackInBounds, RetryIsSafe, Honest, Counted, Given, Sized, OnContext, s0

THEOREM Invariant == Spec => []IInv
<1>1. IInv /\ [Next]_vars => IInv'
  BY CallInv, CrashInv, RefuseSizeInv, MarshalInv, SepExecutesInv, FailsInv, CopyBackInv,
     AgainInv, ForgetInv, StutterInv DEF Next
<1> QED
  BY InitInv, <1>1, PTL DEF Spec

-----------------------------------------------------------------------------
(* Type correctness.  In particular no stub ever returns its third error,  *)
(* and the second only of its own accord.                                  *)
THEOREM TypeCorrect == Spec => []TypeOK
<1>1. IInv => TypeOK
  BY DEF IInv
<1> QED
  BY Invariant, <1>1, PTL

(* For every table, word size and arguments, what is copied into a message *)
(* fits it.                                                                *)
THEOREM SentInBoundsCorrect == Spec => []SentInBounds
<1>1. IInv => SentInBounds
  BY DEF IInv
<1> QED
  BY Invariant, <1>1, PTL

(* What is copied back fits the message and the caller's arrays.           *)
THEOREM CopiedBackInBoundsCorrect == Spec => []CopiedBackInBounds
<1>1. IInv => CopiedBackInBounds
  BY DEF IInv
<1> QED
  BY Invariant, <1>1, PTL

(* A call that failed has left no trace with its caller but in the buffers *)
(* that are for results, also when the SeP has run it: it may be tried     *)
(* again, unless its data was to be replaced by its results.               *)
THEOREM RetryIsSafeCorrect == Spec => []RetryIsSafe
<1>1. IInv => RetryIsSafe
  BY DEF IInv
<1> QED
  BY Invariant, <1>1, PTL
=============================================================================
