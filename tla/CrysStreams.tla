------------------------------ MODULE CrysStreams ------------------------------
(***************************************************************************)
(* The cipher, MAC and hash streams of the CRYS API (libcc54/crys/         *)
(* crys_aes.c, crys_des.c, crys_hash.c, crys_hmac.c, crys_aesccm.c) and    *)
(* the combined operations that drive several of them at once              *)
(* (crys_combined.c).  A stream's context lies in a buffer that its user   *)
(* may copy to another place between two calls.  Every call first finds,   *)
(* and if need be moves, the context (CtxLocation) and then has the driver *)
(* work on it (driver_interface.c).                                        *)
(*                                                                         *)
(* A buffer is modelled byte by byte, but a byte says only what it is:     *)
(* <<k, s, n>> is byte k of a context of s bytes into which n blocks have  *)
(* gone, and Junk is anything else.  Bytes outside the context are never   *)
(* read before they are written, and become Junk whenever the context is   *)
(* written or moved.                                                       *)
(***************************************************************************)
EXTENDS CtxLocation

CONSTANTS
  Users,        \* the buffers of the process
  Addresses,    \* where a buffer may lie
  Stacks,       \* where a context on the stack may lie
  BufSize,      \* sizeof(CRYS_<kind>UserContext_t), for each kind
  Modes,        \* [kind, size]: the modes, with the driver's context sizes
  Pairings,     \* which buffers are in use, and for which kind of stream
  MaxBlocks     \* bound on the blocks of a stream

Kinds == {"AES", "DES", "HASH", "HMAC", "CCM"}

(* The size of a context is a multiple of its alignment, and no mode needs *)
(* more than a page less the properties: see InBuffer.                     *)
ASSUME StreamsAssumption ==
  /\ Addresses \subseteq Nat
  /\ Stacks \subseteq Nat
  /\ BufSize \in [Kinds -> Nat]
  /\ \A k \in Kinds : PropsSize <= BufSize[k]
  /\ Modes \subseteq [kind : Kinds, size : Nat \ {0}]
  /\ \A m \in Modes : m.size % AlignSize = 0 /\ m.size + PropsSize <= PageSize + 1
  /\ \A p \in Pairings : DOMAIN p \subseteq Users /\ p \in [DOMAIN p -> Kinds]
  /\ MaxBlocks \in Nat

VARIABLES
  diOpen,       \* driver_interface.c: diFileH is open
  cached,       \* the static *_ctx_size of every mode
  streams,      \* what is in each buffer
  last          \* the last call, as its caller and the driver saw it

vars == <<diOpen, cached, streams, last>>

InUse == DOMAIN streams
Unknown == -1
Junk == <<0, 0, 0>>
CtxSizes == {m.size : m \in Modes}
Bytes == {Junk} \cup {<<k, s, n>> : k \in 1..PageSize, s \in CtxSizes, n \in 0..MaxBlocks}
Offsets(b) == 0..(BufSize[b.kind] - 1)

-----------------------------------------------------------------------------
(* External: a context as the driver finds and writes it, and what it      *)
(* leaves when it fails.                                                   *)
ContextAt(m, off, size, n) ==
  \A k \in 1..size : off + k - 1 \in DOMAIN m /\ m[off + k - 1] = <<k, size, n>>
Context(b, off, size, n) ==
  [o \in Offsets(b) |-> IF o >= off /\ o < off + size THEN <<o - off + 1, size, n>> ELSE Junk]
Anything(b) == [o \in Offsets(b) |-> Junk]

(* Fault: memcpy, one byte after the other.                                *)
CopiedUpward(b, to) ==
  LET from == b.ctxOffset
  IN  [o \in Offsets(b) |->
         IF o >= to /\ o < to + b.ctxSize
         THEN IF to > from THEN b.mem[from + ((o - to) % (to - from))] ELSE b.mem[o - to + from]
         ELSE Junk]
(* memmove of the context within the buffer.                               *)
Moved(b, to) ==
  [o \in Offsets(b) |-> IF o >= to /\ o < to + b.ctxSize /\ o - to + b.ctxOffset \in Offsets(b)
                        THEN b.mem[o - to + b.ctxOffset] ELSE Junk]

(* DX_GetUserCtxLocation: the context's offset, and the buffer after it.   *)
FoundOffset(b) == IF IsBufCrossPage(b.start + b.ctxOffset, b.ctxSize)
                  THEN CtxOffset(b.start, BufSize[b.kind], b.ctxSize)
                  ELSE b.ctxOffset
Located(b) == IF FoundOffset(b) = b.ctxOffset THEN b
              ELSE [b EXCEPT !.ctxOffset = FoundOffset(b), !.mem = Moved(b, FoundOffset(b))]

(* Fault: the size that is asked of the buffer is kept as the context's.   *)
PlacedAsked(b, size) ==
  [b EXCEPT !.ctxSize = PropsSize + 2 * size, !.ctxOffset = CtxOffset(b.start, BufSize[b.kind], size),
            !.mem = Anything(b), !.active = FALSE, !.blocks = 0]
(* DX_InitUserCtxLocation: whatever the buffer held is lost.               *)
Placed(b, size) ==
  [b EXCEPT !.ctxSize = size, !.ctxOffset = CtxOffset(b.start, BufSize[b.kind], size),
            !.mem = Anything(b), !.active = FALSE, !.blocks = 0]

(* A context as it is given to the driver.                                 *)
Where(b) == [start |-> b.start, room |-> BufSize[b.kind], offset |-> b.ctxOffset, size |-> b.ctxSize]
OnStack(at, m) == [start |-> at, room |-> BufSize[m.kind],
                   offset |-> CtxOffset(at, BufSize[m.kind], m.size), size |-> m.size]

-----------------------------------------------------------------------------
(* doIoctl: how an operation of the driver may end.  errorInfo is set by   *)
(* the SeP or by a driver that fails; without a driver nobody sets it.     *)
DiOutcomes == IF diOpen
              THEN {[rc |-> "OK", info |-> 0], [rc |-> "ESEP", info |-> 1]} \cup [rc : {"EIO"}, info : {0, 1}]
              ELSE [rc : {"ENODEV"}, info : {0, 1}]

(* Fault: whatever is in errorInfo is passed on.                           *)
PassedOn(r) == r.info
(* DX_CRYS_RETURN_ERROR with the conversion of each file: 0 is CRYS_OK and *)
(* 1 any of the error codes.                                               *)
CrysError(r) == IF r.rc = "OK" THEN 0
                ELSE IF r.rc = "ESEP" THEN r.info
                ELSE 1

(* What the driver makes of a context that it has been given: a block more,*)
(* the end of the stream, or the same.                                     *)
Worked(b, effect) ==
  IF effect = "block"
  THEN [b EXCEPT !.mem = Context(b, b.ctxOffset, b.ctxSize, b.blocks + 1), !.blocks = b.blocks + 1]
  ELSE IF effect = "end" THEN [b EXCEPT !.mem = Anything(b), !.active = FALSE]
  ELSE b
After(b, effect, r) == IF r.rc = "OK" THEN Worked(b, effect)
                       ELSE IF r.rc = "ENODEV" THEN b
                       ELSE Worked(b, "end")

(* The caller gets result; done tells whether all was done that was asked  *)
(* for.                                                                    *)
Quiet == [result |-> 0, done |-> TRUE]
Returns(r) == last' = [result |-> CrysError(r), done |-> (r.rc = "OK")]
Fails == last' = [result |-> 1, done |-> FALSE]

-----------------------------------------------------------------------------
(* A fresh buffer, as calloc or memset make it.                            *)
Fresh(kind, at) ==
  [kind |-> kind, start |-> at, ctxSize |-> 0, ctxOffset |-> 0,
   mem |-> [o \in 0..(BufSize[kind] - 1) |-> Junk], active |-> FALSE, blocks |-> 0]

Init == /\ diOpen = FALSE
        /\ cached = [m \in Modes |-> Unknown]
        /\ \E p \in Pairings : \E at \in [DOMAIN p -> Addresses] :
             streams = [u \in DOMAIN p |-> Fresh(p[u], at[u])]
        /\ last = Quiet

(* DX_CclibInit and DX_CclibFini, by whatever part of the process.         *)
InitOrFini == /\ diOpen' = ~diOpen
              /\ last' = Quiet
              /\ UNCHANGED <<cached, streams>>

(* A user copies its buffer and goes on with the copy.                     *)
CopyBuffer(u) == /\ \E at \in Addresses : streams' = [streams EXCEPT ![u].start = at]
                 /\ last' = Quiet
                 /\ UNCHANGED <<diOpen, cached>>

(* GetContextSize of each file: the driver's answer, 0 if it cannot be     *)
(* asked, is kept for good.  Only AES-CCM asks every time.                 *)
AskedSizes(m) == {0} \cup (IF diOpen THEN {m.size} ELSE {})
Uncached == {"CCM"}
ContextSizes(m) == IF m.kind \in Uncached \/ cached[m] = Unknown THEN AskedSizes(m) ELSE {cached[m]}
Cache(m, size) == IF m.kind \in Uncached THEN cached ELSE [cached EXCEPT ![m] = size]

ModesOf(kind) == {m \in Modes : m.kind = kind}
Accepted(m) == SizesAccepted(BufSize[m.kind], m.size)

(* An Init that is refused before the context is placed: for a bad         *)
(* parameter, for a mode without a size, for a buffer that is too small.   *)
RefuseInit(u) ==
  /\ \/ cached' = cached
     \/ \E m \in ModesOf(streams[u].kind) : \E size \in ContextSizes(m) :
          /\ size = 0 \/ ~Accepted(m)
          /\ cached' = Cache(m, size)
  /\ Fails
  /\ UNCHANGED <<diOpen, streams>>

(* InitAesParams looks at the IV, the direction and the key, and           *)
(* InitHmacParams at the mode (it refuses MD5), when the context has       *)
(* already been placed: whatever the buffer held is lost.                  *)
ChecksLate == {"AES", "HMAC"}
RefuseLate(u) ==
  /\ streams[u].kind \in ChecksLate
  /\ \E m \in ModesOf(streams[u].kind) :
       /\ Accepted(m)
       /\ m.size \in ContextSizes(m)
       /\ cached' = Cache(m, m.size)
       /\ streams' = [streams EXCEPT ![u] = Placed(streams[u], m.size)]
  /\ Fails
  /\ UNCHANGED diOpen

(* The context is placed and the driver writes it, or fails, or there is   *)
(* no driver.                                                              *)
Started(b, r) == IF r.rc = "OK"
                 THEN [b EXCEPT !.mem = Context(b, b.ctxOffset, b.ctxSize, 0), !.active = TRUE]
                 ELSE b
StartStream(u) ==
  /\ \E m \in ModesOf(streams[u].kind), r \in DiOutcomes :
       /\ Accepted(m)
       /\ m.size \in ContextSizes(m)
       /\ cached' = Cache(m, m.size)
       /\ LET b == Placed(streams[u], m.size)
          IN  /\ streams' = [streams EXCEPT ![u] = Started(b, r)]
              /\ Returns(r)
  /\ UNCHANGED diOpen

CRYS_AES_Init(u)    == streams[u].kind = "AES" /\ StartStream(u)
CRYS_DES_Init(u)    == streams[u].kind = "DES" /\ StartStream(u)
CRYS_HASH_Init(u)   == streams[u].kind = "HASH" /\ StartStream(u)
CRYS_AESCCM_Init(u) == streams[u].kind = "CCM" /\ StartStream(u)

(* A key of HMAC that is longer than a block is hashed, by CRYS_HASH with  *)
(* a context on the stack and the hash's own cached size.                  *)
KeyHashes ==
  {[ok |-> FALSE, mode |-> m, size |-> 0] :
     m \in {x \in ModesOf("HASH") : 0 \in ContextSizes(x)}}
  \cup {[ok |-> FALSE, mode |-> m, size |-> m.size] :
     m \in {x \in ModesOf("HASH") : x.size \in ContextSizes(x) /\ ~Accepted(x)}}
  \cup {[ok |-> (r.rc = "OK"), mode |-> m, size |-> m.size] :
     m \in {x \in ModesOf("HASH") : x.size \in ContextSizes(x) /\ Accepted(x)}, r \in DiOutcomes}

(* With a long key: the context is placed, the key hashed, and only then   *)
(* is the driver asked to write the context.                               *)
HashKeyAndStart(u) ==
  /\ \E m \in ModesOf("HMAC"), h \in KeyHashes :
       /\ Accepted(m)
       /\ m.size \in ContextSizes(m)
       /\ cached' = [cached EXCEPT ![m] = m.size, ![h.mode] = h.size]
       /\ LET b == Placed(streams[u], m.size)
          IN  \/ /\ ~h.ok
                 /\ streams' = [streams EXCEPT ![u] = b]
                 /\ Fails
              \/ /\ h.ok
                 /\ \E r \in DiOutcomes :
                      /\ streams' = [streams EXCEPT ![u] = Started(b, r)]
                      /\ Returns(r)
  /\ UNCHANGED diOpen
CRYS_HMAC_Init(u) == streams[u].kind = "HMAC" /\ (StartStream(u) \/ HashKeyAndStart(u))

(* A whole operation in one call, with a context on the stack.  Bound: only*)
(* of kinds of which there is a stream; the others have nothing in common  *)
(* with the streams, each kind having cached sizes of its own.             *)
KindInUse(kind) == \E u \in InUse : streams[u].kind = kind
RefuseOneShot(kind) ==
  \E m \in ModesOf(kind) : \E size \in ContextSizes(m) :
    /\ size = 0 \/ ~Accepted(m)
    /\ cached' = Cache(m, size)
    /\ Fails
OneShot(kind) ==
  /\ KindInUse(kind)
  /\ \/ RefuseOneShot(kind)
     \/ \E m \in ModesOf(kind), r \in DiOutcomes :
          /\ Accepted(m)
          /\ m.size \in ContextSizes(m)
          /\ cached' = Cache(m, m.size)
          /\ Returns(r)
  /\ UNCHANGED <<diOpen, streams>>

CRYS_AES    == OneShot("AES")
CRYS_DES    == OneShot("DES")
CRYS_HASH   == OneShot("HASH")
CRYS_AESCCM == OneShot("CCM")
HashKeyAndMac ==
  /\ KindInUse("HMAC")
  /\ \E m \in ModesOf("HMAC"), h \in KeyHashes :
       /\ Accepted(m)
       /\ m.size \in ContextSizes(m)
       /\ cached' = [cached EXCEPT ![m] = m.size, ![h.mode] = h.size]
       /\ \/ ~h.ok /\ Fails
          \/ h.ok /\ \E r \in DiOutcomes : Returns(r)
  /\ UNCHANGED <<diOpen, streams>>
CRYS_HMAC == OneShot("HMAC") \/ HashKeyAndMac

-----------------------------------------------------------------------------
(* Every later call finds the contexts of its streams and gives them to    *)
(* the driver, which works only on whole ones.  After an error of the      *)
(* driver the user frees the context or starts again.                      *)
CanWork(nodes, effect) ==
  \A u \in nodes :
    LET b == Located(streams[u])
    IN  /\ ContextAt(b.mem, b.ctxOffset, b.ctxSize, b.blocks)
        /\ effect = "block" => b.blocks < MaxBlocks
Driven(nodes, effect, r) ==
  /\ \A u \in nodes : streams[u].active
  /\ r.rc = "OK" => CanWork(nodes, effect)
  /\ streams' = [u \in InUse |-> IF u \in nodes THEN After(Located(streams[u]), effect, r)
                                               ELSE streams[u]]
  /\ UNCHANGED <<diOpen, cached>>
Drive(nodes, effect) ==
  \E r \in DiOutcomes : Driven(nodes, effect, r) /\ Returns(r)

(* An update without data is CRYS_OK at once.                              *)
Empty == /\ last' = Quiet
         /\ UNCHANGED <<diOpen, cached, streams>>

CRYS_AES_Block(u)             == streams[u].kind = "AES" /\ Drive({u}, "block")
CRYS_DES_Block(u)             == streams[u].kind = "DES" /\ Drive({u}, "block")
CRYS_HASH_Update(u)           == streams[u].kind = "HASH" /\ (Drive({u}, "block") \/ Empty)
CRYS_HMAC_Update(u)           == streams[u].kind = "HMAC" /\ (Drive({u}, "block") \/ Empty)
CRYS_AESCCM_BlockAdata(u)     == streams[u].kind = "CCM" /\ Drive({u}, "block")
CRYS_AESCCM_BlockTextData(u)  == streams[u].kind = "CCM" /\ Drive({u}, "block")
CRYS_AES_SetIv(u)             == streams[u].kind = "AES" /\ Drive({u}, "same")
CRYS_AES_GetIv(u)             == streams[u].kind = "AES" /\ Drive({u}, "same")
CRYS_AES_Finish(u)            == streams[u].kind = "AES" /\ Drive({u}, "end")
CRYS_HASH_Finish(u)           == streams[u].kind = "HASH" /\ Drive({u}, "end")
CRYS_HMAC_Finish(u)           == streams[u].kind = "HMAC" /\ Drive({u}, "end")
CRYS_AESCCM_Finish(u)         == streams[u].kind = "CCM" /\ Drive({u}, "end")
CRYS_DES_Free(u)              == streams[u].kind = "DES" /\ Drive({u}, "end")

(* CRYS_HASH_Free and CRYS_HMAC_Free only clear the buffer.                *)
Clear(u) == /\ streams' = [streams EXCEPT ![u] = Fresh(streams[u].kind, streams[u].start)]
            /\ last' = Quiet
            /\ UNCHANGED <<diOpen, cached>>
CRYS_HASH_Free(u) == streams[u].kind = "HASH" /\ Clear(u)
CRYS_HMAC_Free(u) == streams[u].kind = "HMAC" /\ Clear(u)

(* BoxConfigScheme finds the context of every node before the driver is    *)
(* given them all.                                                         *)
Configs == SUBSET InUse \ {{}}
CRYS_Combined_Init    == \E nodes \in Configs : Drive(nodes, "same")
CRYS_Combined_Process == \E nodes \in Configs : Drive(nodes, "block")

(* Where the result does not fit in the room for it, that is an error, and *)
(* the streams have ended all the same.                                    *)
EndCombined ==
  \E nodes \in Configs, r \in DiOutcomes :
    /\ Driven(nodes, "end", r)
    /\ Returns(r) \/ (r.rc = "OK" /\ Fails)
CRYS_Combined_Finish == EndCombined
CRYS_Combined == EndCombined

Next == \/ InitOrFini
        \/ CRYS_AES \/ CRYS_DES \/ CRYS_HASH \/ CRYS_HMAC \/ CRYS_AESCCM
        \/ CRYS_Combined_Init \/ CRYS_Combined_Process \/ CRYS_Combined_Finish \/ CRYS_Combined
        \/ \E u \in InUse :
             \/ CopyBuffer(u) \/ RefuseInit(u) \/ RefuseLate(u)
             \/ CRYS_AES_Init(u) \/ CRYS_DES_Init(u) \/ CRYS_HASH_Init(u) \/ CRYS_HMAC_Init(u)
             \/ CRYS_AESCCM_Init(u)
             \/ CRYS_AES_Block(u) \/ CRYS_DES_Block(u) \/ CRYS_HASH_Update(u) \/ CRYS_HMAC_Update(u)
             \/ CRYS_AESCCM_BlockAdata(u) \/ CRYS_AESCCM_BlockTextData(u)
             \/ CRYS_AES_SetIv(u) \/ CRYS_AES_GetIv(u)
             \/ CRYS_AES_Finish(u) \/ CRYS_HASH_Finish(u) \/ CRYS_HMAC_Finish(u)
             \/ CRYS_AESCCM_Finish(u) \/ CRYS_DES_Free(u)
             \/ CRYS_HASH_Free(u) \/ CRYS_HMAC_Free(u)

Spec == Init /\ [][Next]_vars

-----------------------------------------------------------------------------
(* Type invariant.                                                         *)
TypeOK ==
  /\ diOpen \in BOOLEAN
  /\ cached \in [Modes -> CtxSizes \cup {Unknown, 0}]
  /\ InUse \subseteq Users
  /\ \A u \in InUse :
       LET b == streams[u]
       IN  /\ b \in [kind : Kinds, start : Addresses, ctxSize : CtxSizes \cup {0},
                     ctxOffset : 0..BufSize[b.kind], mem : [Offsets(b) -> Bytes],
                     active : BOOLEAN, blocks : 0..MaxBlocks]
  /\ last \in [result : {0, 1}, done : BOOLEAN]

(* The contexts that the calls to come give to the driver.                 *)
Given == {Where(Located(streams[u])) : u \in {v \in InUse : streams[v].ctxSize > 0}}
         \cup {OnStack(at, m) : at \in Stacks, m \in {x \in Modes : Accepted(x)}}

(* A context given to the driver lies within the buffer and behind its     *)
(* properties, though the search is told a buffer that is longer than what *)
(* is left of it (crys_context_relocation.c:121).                          *)
InBuffer == \A l \in Given : l.offset >= PropsSize /\ l.offset + l.size <= l.room

(* A context given to the driver crosses no page, wherever the buffer is   *)
(* and wherever it has been (DX_InitUserCtxLocation, DX_GetUserCtxLocation).*)
NoCrossing == \A l \in Given :
  PageOf(l.start + l.offset) = PageOf(l.start + l.offset + l.size - 1)

(* The context of a stream survives every copy, move and call that does    *)
(* not reach the driver, in calls of its own and in combined ones: it is   *)
(* where the properties say, whole and with all blocks so far.             *)
ContextKept == \A u \in InUse :
  LET b == streams[u] IN b.active => ContextAt(b.mem, b.ctxOffset, b.ctxSize, b.blocks)

(* CRYS_OK is only returned for what has been done, though errorInfo may   *)
(* never have been set, and be 0 (DX_CRYS_RETURN_ERROR).                   *)
FailureTold == last.result = 0 => last.done
=============================================================================
