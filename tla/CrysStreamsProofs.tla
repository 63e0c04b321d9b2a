---------------------------- MODULE CrysStreamsProofs --------------------------
(***************************************************************************)
(* Proofs about CtxLocation and CrysStreams for every page size, alignment, *)
(* size of the properties, buffer and context.                             *)
(***************************************************************************)
EXTENDS CrysStreams, TLAPS

(* Multiples of p are at least p apart.                                    *)
LEMMA Multiples ==
  ASSUME NEW p \in Nat \ {0}, NEW i \in Int, NEW j \in Int, i * p < j * p
  PROVE  i * p + p <= j * p
<1>1. i < j
  BY SMT
<1> QED  BY <1>1, SMT

LEMMA PageOfFacts ==
  ASSUME NEW a \in Nat
  PROVE  /\ PageOf(a) \in Nat
         /\ PageOf(a) <= a
         /\ a < PageOf(a) + PageSize
         /\ PageOf(a + PageSize) = PageOf(a) + PageSize
<1> DEFINE q == a \div PageSize
<1>1. q \in Int /\ q * PageSize <= a /\ a < q * PageSize + PageSize
  BY SizesAssumption, SMT
<1>2. 0 <= q
  BY SizesAssumption, SMT
<1>3. 0 <= q * PageSize
  BY <1>1, <1>2, SizesAssumption, SMT
<1>4. (a + PageSize) \div PageSize = q + 1
  BY SizesAssumption, SMT
<1>5. (q + 1) * PageSize = q * PageSize + PageSize
  BY <1>1, SizesAssumption, SMT
<1>6. q * PageSize \in Int
  BY <1>1, SizesAssumption, SMT
<1> HIDE DEF q
<1>7. PageOf(a) = q * PageSize /\ PageOf(a + PageSize) = (q + 1) * PageSize
  BY <1>4 DEF PageOf, q
<1> QED  BY <1>1, <1>3, <1>5, <1>6, <1>7, SMT

(* Addresses between two page boundaries are on one page.                  *)
LEMMA SamePage ==
  ASSUME NEW a \in Nat, NEW b \in Nat, NEW c \in Nat,
         PageOf(c) <= a, a < PageOf(c) + PageSize,
         PageOf(c) <= b, b < PageOf(c) + PageSize
  PROVE  PageOf(a) = PageOf(b)
<1> DEFINE q == c \div PageSize
<1>1. q \in Int /\ PageOf(c) = q * PageSize
  BY SizesAssumption, SMT DEF PageOf
<1>2. a \div PageSize = q /\ b \div PageSize = q
  BY <1>1, SizesAssumption, SMT
<1> QED  BY <1>2 DEF PageOf

LEMMA PagesApart ==
  ASSUME NEW a \in Nat, NEW b \in Nat, PageOf(a) < PageOf(b)
  PROVE  PageOf(a) + PageSize <= PageOf(b)
<1>1. /\ a \div PageSize \in Int
      /\ b \div PageSize \in Int
  BY SizesAssumption, SMT
<1> QED  BY <1>1, SizesAssumption, Multiples DEF PageOf

LEMMA PageMonotone ==
  ASSUME NEW a \in Nat, NEW b \in Nat, a <= b
  PROVE  PageOf(a) <= PageOf(b)
<1>1. CASE PageOf(b) < PageOf(a)
  BY <1>1, PagesApart, PageOfFacts, SizesAssumption, SMT
<1> QED  BY <1>1, PageOfFacts, SMT

LEMMA AlignFacts ==
  ASSUME NEW a \in Nat
  PROVE  /\ ContextAlign(a) \in Nat
         /\ a <= ContextAlign(a)
         /\ ContextAlign(a) < a + AlignSize
         /\ \E k \in Int : ContextAlign(a) = k * AlignSize
<1> DEFINE k == (a + AlignSize - 1) \div AlignSize
<1>1. k \in Int /\ ContextAlign(a) = k * AlignSize
  BY SizesAssumption, SMT DEF ContextAlign
<1>2. k * AlignSize <= a + AlignSize - 1 /\ a + AlignSize - 1 < k * AlignSize + AlignSize
  BY SizesAssumption, SMT
<1>3. k * AlignSize \in Int
  BY <1>1, SizesAssumption, SMT
<1> HIDE DEF k
<1>4. a <= k * AlignSize /\ k * AlignSize < a + AlignSize
  BY <1>2, <1>3, SizesAssumption, SMT
<1> QED  BY <1>1, <1>3, <1>4, SMT

LEMMA PageIsAligned ==
  ASSUME NEW a \in Nat
  PROVE  \E k \in Int : PageOf(a) = k * AlignSize
<1> DEFINE q == a \div PageSize
           r == PageSize \div AlignSize
<1>1. q \in Int /\ r \in Int /\ PageSize = r * AlignSize
  BY SizesAssumption, SMT
<1>2. PageOf(a) = q * PageSize
  BY DEF PageOf
<1>3. q * (r * AlignSize) = (q * r) * AlignSize /\ q * r \in Int
  BY <1>1, SizesAssumption, SMT
<1> QED  BY <1>1, <1>2, <1>3

(* Sizes for which the two functions of crys_context_relocation.c are      *)
(* meant: DX_InitUserCtxLocation accepts them, and the context is not      *)
(* within the properties' size of a page.                                  *)
GoodSizes(bufferSize, contextSize) ==
  /\ bufferSize \in Nat
  /\ contextSize \in Nat \ {0}
  /\ contextSize % AlignSize = 0
  /\ contextSize + PropsSize <= PageSize + 1
  /\ SizesAccepted(bufferSize, contextSize)

(* Two multiples of the alignment of which one is less than a context      *)
(* behind the other, and the context's size is a multiple too.             *)
LEMMA AlignedGap ==
  ASSUME NEW i \in Int, NEW j \in Int, NEW c \in Nat, c % AlignSize = 0,
         i * AlignSize - j * AlignSize < c
  PROVE  i * AlignSize - j * AlignSize <= c - AlignSize
<1> DEFINE k == c \div AlignSize
<1>1. k \in Int /\ c = k * AlignSize
  BY SizesAssumption, SMT
<1>2. (i - j) * AlignSize < k * AlignSize
  BY <1>1, SizesAssumption, SMT
<1>3. (i - j) * AlignSize + AlignSize <= k * AlignSize
  <2>1. i - j \in Int
    BY SMT
  <2> HIDE DEF k
  <2> QED  BY <1>1, <1>2, <2>1, SizesAssumption, Multiples
<1> QED  BY <1>1, <1>3, SizesAssumption, SMT

(* Wherever the buffer lies, GetNonCrossingOffset finds a place behind the *)
(* properties, within the buffer, and on one page.                         *)
LEMMA GoodLocationFacts ==
  ASSUME NEW at \in Nat, NEW b, NEW c, GoodSizes(b, c)
  PROVE  LET g == GoodLocation(at, b, c)
         IN  /\ g \in Nat
             /\ at <= g
             /\ g + c + PropsSize <= at + b
             /\ PageOf(g) = PageOf(g + c - 1)
<1> DEFINE g == GoodLocation(at, b, c)
           A == ContextAlign(at)
           n == PageOf(at + PageSize)
           e == PageOf(at + b - 1)
<1>1. /\ b \in Nat /\ c \in Nat \ {0} /\ c % AlignSize = 0
      /\ c + PropsSize <= PageSize + 1 /\ c <= PageSize /\ PropsSize + 2 * c <= b
  BY SizesAssumption, SMT DEF GoodSizes, SizesAccepted
<1>2. /\ n \in Nat /\ n = PageOf(at) + PageSize /\ PageOf(at) \in Nat
      /\ PageOf(at) <= at /\ at < n
  BY PageOfFacts, SizesAssumption, SMT
<1>3. at + b - 1 \in Nat
  BY <1>1, SizesAssumption, SMT
<1>4. e \in Nat /\ e <= at + b - 1 /\ at + b - 1 < e + PageSize
  BY <1>3, PageOfFacts
<1>5. A \in Nat /\ at <= A /\ A < at + AlignSize
  BY AlignFacts
<1>6. PICK j \in Int : A = j * AlignSize
  BY AlignFacts
<1>7. PICK i \in Int : n = i * AlignSize
  <2>1. at + PageSize \in Nat
    BY SizesAssumption, SMT
  <2> QED  BY <2>1, PageIsAligned
<1>8. AlignSize <= c
  <2>1. 0 * AlignSize - 0 * AlignSize < c
    BY <1>1, SizesAssumption, SMT
  <2> QED  BY <1>1, <2>1, AlignedGap, SizesAssumption, SMT
<1> HIDE DEF A, n, e
<1>9. CASE n > e \/ (n = e /\ n - A >= c)
  <2>1. g = A
    BY <1>9 DEF GoodLocation, A, n, e
  <2>2. A + c <= n
    <3>1. CASE n > e
      <4>1. e + PageSize <= n
        BY <1>3, <3>1, PagesApart, SizesAssumption, SMT DEF n, e
      <4> QED  BY <1>1, <1>4, <1>5, <1>8, <4>1, <1>2, SizesAssumption, SMT
    <3> QED  BY <1>9, <3>1, <1>1, <1>2, <1>5, SMT
  <2>3. PageOf(A) = PageOf(A + c - 1)
    <3>1. A + c - 1 \in Nat
      BY <1>1, <1>5, SMT
    <3>2. /\ PageOf(at) <= A /\ A < PageOf(at) + PageSize
          /\ PageOf(at) <= A + c - 1 /\ A + c - 1 < PageOf(at) + PageSize
      BY <1>1, <1>2, <1>5, <2>2, SizesAssumption, SMT
    <3> QED  BY <1>5, <3>1, <3>2, SamePage
  <2>4. A + c + PropsSize <= at + b
    BY <1>1, <1>5, <1>8, SizesAssumption, SMT
  <2> HIDE DEF g
  <2> QED  BY <2>1, <2>3, <2>4, <1>5 DEF g
<1>10. CASE ~(n > e \/ (n = e /\ n - A >= c))
  <2>1. g = n
    BY <1>10 DEF GoodLocation, A, n, e
  <2>2. n + c + PropsSize <= at + b
    <3>1. CASE n < e
      <4>1. n + PageSize <= e
        BY <1>3, <3>1, PagesApart, SizesAssumption, SMT DEF n, e
      <4> QED  BY <1>1, <1>2, <1>4, <4>1, SizesAssumption, SMT
    <3>2. CASE n = e
      <4>1. n - A < c
        BY <1>1, <1>2, <1>4, <1>5, <1>10, <3>2, SMT
      <4>2. n - A <= c - AlignSize
        BY <1>1, <1>6, <1>7, <4>1, AlignedGap
      <4> QED  BY <1>1, <1>2, <1>5, <4>2, SizesAssumption, SMT
    <3> QED  BY <1>2, <1>4, <1>10, <3>1, <3>2, SMT
  <2>3. PageOf(n) = n
    BY SizesAssumption, SMT DEF PageOf, n
  <2>4. PageOf(n) = PageOf(n + c - 1)
    <3>1. n + c - 1 \in Nat
      BY <1>1, <1>2, SMT
    <3>2. /\ PageOf(n) <= n /\ n < PageOf(n) + PageSize
          /\ PageOf(n) <= n + c - 1 /\ n + c - 1 < PageOf(n) + PageSize
      BY <1>1, <1>2, <2>3, SizesAssumption, SMT
    <3> QED  BY <1>2, <3>1, <3>2, SamePage
  <2> HIDE DEF g
  <2> QED  BY <1>2, <2>1, <2>2, <2>4, SMT DEF g
<1> QED  BY <1>9, <1>10

LEMMA CtxOffsetFacts ==
  ASSUME NEW a \in Nat, NEW b, NEW c, GoodSizes(b, c)
  PROVE  /\ CtxOffset(a, b, c) \in PropsSize..b
         /\ CtxOffset(a, b, c) + c <= b
         /\ PageOf(a + CtxOffset(a, b, c)) = PageOf(a + CtxOffset(a, b, c) + c - 1)
<1> DEFINE at == a + PropsSize
           g == GoodLocation(at, b, c)
<1>1. at \in Nat /\ b \in Nat /\ c \in Nat
  BY SizesAssumption, SMT DEF GoodSizes
<1>2. g \in Nat /\ at <= g /\ g + c + PropsSize <= at + b /\ PageOf(g) = PageOf(g + c - 1)
  BY <1>1, GoodLocationFacts
<1>3. CtxOffset(a, b, c) = g - at + PropsSize
  BY DEF CtxOffset, GetNonCrossingOffset
<1> HIDE DEF g
<1>4. CtxOffset(a, b, c) = g - a
  BY <1>1, <1>2, <1>3, SizesAssumption, SMT
<1>5. a + (g - a) = g
  BY <1>2, SMT
<1> QED  BY <1>1, <1>2, <1>4, <1>5, SizesAssumption, SMT

-----------------------------------------------------------------------------
(* The inductive invariant, stream by stream: a context that has been      *)
(* placed always fits where it is, which need not be on one page any more, *)
(* and a stream under way has a whole context.                             *)
FieldsOK(b) ==
  b \in [kind : Kinds, start : Addresses, ctxSize : CtxSizes \cup {0},
         ctxOffset : 0..BufSize[b.kind], mem : [Offsets(b) -> Bytes],
         active : BOOLEAN, blocks : 0..MaxBlocks]
PlaceOK(b) == b.ctxSize > 0 =>
  /\ GoodSizes(BufSize[b.kind], b.ctxSize)
  /\ PropsSize <= b.ctxOffset
  /\ b.ctxOffset + b.ctxSize <= BufSize[b.kind]
WholeIfActive(b) == b.active =>
  b.ctxSize > 0 /\ ContextAt(b.mem, b.ctxOffset, b.ctxSize, b.blocks)
StreamOK(b) == FieldsOK(b) /\ PlaceOK(b) /\ WholeIfActive(b)

StreamsOK(s) == DOMAIN s \subseteq Users /\ \A u \in DOMAIN s : StreamOK(s[u])

CachedOK(c) == c \in [Modes -> CtxSizes \cup {Unknown, 0}]
LastOK(l) ==
  /\ l \in [result : {0, 1}, done : BOOLEAN]
  /\ l.result = 0 => l.done

IInv == /\ diOpen \in BOOLEAN
        /\ CachedOK(cached)
        /\ StreamsOK(streams)
        /\ LastOK(last)

USE SizesAssumption, StreamsAssumption

(* A place for a context: in the buffer and on one page.                   *)
Fits(a, off, size, room) ==
  /\ off \in PropsSize..room
  /\ off + size <= room
  /\ PageOf(a + off) = PageOf(a + off + size - 1)

LEMMA ModeFacts ==
  ASSUME NEW m \in Modes
  PROVE  /\ m.kind \in Kinds /\ m.size \in CtxSizes /\ m.size \in Nat \ {0}
         /\ m.size <= PageSize /\ BufSize[m.kind] \in Nat
BY SMT DEF CtxSizes

LEMMA SizeFacts ==
  ASSUME NEW s \in CtxSizes
  PROVE  s \in Nat \ {0} /\ s <= PageSize
BY SMT DEF CtxSizes

LEMMA AcceptedGood ==
  ASSUME NEW m \in Modes, Accepted(m)
  PROVE  GoodSizes(BufSize[m.kind], m.size)
BY SMT DEF Accepted, GoodSizes

LEMMA PlaceFits ==
  ASSUME NEW m \in Modes, Accepted(m), NEW a \in Nat
  PROVE  Fits(a, CtxOffset(a, BufSize[m.kind], m.size), m.size, BufSize[m.kind])
BY AcceptedGood, CtxOffsetFacts DEF Fits

LEMMA FieldFacts ==
  ASSUME NEW b, FieldsOK(b)
  PROVE  /\ b.kind \in Kinds /\ b.start \in Addresses /\ b.start \in Nat
         /\ b.ctxSize \in CtxSizes \cup {0} /\ b.ctxSize \in Nat
         /\ b.ctxOffset \in 0..BufSize[b.kind] /\ b.ctxOffset \in Nat
         /\ BufSize[b.kind] \in Nat
         /\ b.mem \in [Offsets(b) -> Bytes] /\ b.active \in BOOLEAN /\ b.blocks \in 0..MaxBlocks
         /\ b.blocks \in Nat
<1>1. /\ b.kind \in Kinds /\ b.start \in Addresses /\ b.ctxSize \in CtxSizes \cup {0}
      /\ b.ctxOffset \in 0..BufSize[b.kind]
      /\ b.mem \in [Offsets(b) -> Bytes] /\ b.active \in BOOLEAN /\ b.blocks \in 0..MaxBlocks
  BY DEF FieldsOK
<1>2. BufSize[b.kind] \in Nat
  BY <1>1
<1> QED  BY <1>1, <1>2, SizeFacts, SMT

(* DX_GetUserCtxLocation finds a place where the context fits.             *)
LEMMA FoundFits ==
  ASSUME NEW b, FieldsOK(b), PlaceOK(b), b.ctxSize > 0
  PROVE  Fits(b.start, FoundOffset(b), b.ctxSize, BufSize[b.kind])
<1>1. /\ GoodSizes(BufSize[b.kind], b.ctxSize) /\ b.start \in Nat /\ b.ctxSize \in Nat \ {0}
      /\ b.ctxOffset \in Nat /\ PropsSize <= b.ctxOffset /\ b.ctxOffset + b.ctxSize <= BufSize[b.kind]
      /\ BufSize[b.kind] \in Nat
  BY FieldFacts DEF PlaceOK, GoodSizes
<1>2. CASE IsBufCrossPage(b.start + b.ctxOffset, b.ctxSize)
  BY <1>1, <1>2, CtxOffsetFacts DEF Fits, FoundOffset
<1>3. CASE ~IsBufCrossPage(b.start + b.ctxOffset, b.ctxSize)
  <2> DEFINE l == b.start + b.ctxOffset
             h == l + b.ctxSize - 1
  <2>1. l \in Nat /\ h \in Nat /\ l <= h
    BY <1>1, SMT
  <2>2. PageOf(l) \in Nat /\ PageOf(h) \in Nat /\ PageOf(l) <= PageOf(h) /\ ~(PageOf(l) < PageOf(h))
    BY <1>3, <2>1, PageMonotone, PageOfFacts DEF IsBufCrossPage
  <2>3. PageOf(l) = PageOf(h)
    BY <2>2, SMT
  <2>4. FoundOffset(b) = b.ctxOffset
    BY <1>3 DEF FoundOffset
  <2>5. b.ctxOffset \in PropsSize..BufSize[b.kind]
    BY <1>1, SMT
  <2> QED  BY <1>1, <2>3, <2>4, <2>5 DEF Fits
<1> QED  BY <1>2, <1>3

(* memmove takes the whole context along.                                  *)
LEMMA MovedKeeps ==
  ASSUME NEW b, StreamOK(b), b.active, FoundOffset(b) # b.ctxOffset
  PROVE  ContextAt(Moved(b, FoundOffset(b)), FoundOffset(b), b.ctxSize, b.blocks)
<1> DEFINE f == FoundOffset(b)
<1>1. Fits(b.start, f, b.ctxSize, BufSize[b.kind])
  BY FoundFits DEF StreamOK, WholeIfActive
<1>2. /\ b.ctxSize \in Nat /\ BufSize[b.kind] \in Nat /\ b.ctxOffset \in Nat /\ f \in Nat
      /\ f + b.ctxSize <= BufSize[b.kind] /\ b.ctxOffset + b.ctxSize <= BufSize[b.kind]
  BY <1>1, FieldFacts, SMT DEF StreamOK, PlaceOK, WholeIfActive, Fits
<1> SUFFICES ASSUME NEW k \in 1..b.ctxSize
             PROVE  /\ f + k - 1 \in DOMAIN Moved(b, f)
                    /\ Moved(b, f)[f + k - 1] = <<k, b.ctxSize, b.blocks>>
  BY DEF ContextAt
<1> HIDE DEF f
<1>3. /\ f + k - 1 \in Offsets(b) /\ f + k - 1 >= f /\ f + k - 1 < f + b.ctxSize
      /\ (f + k - 1) - f + b.ctxOffset = b.ctxOffset + k - 1
      /\ b.ctxOffset + k - 1 \in Offsets(b)
  BY <1>2, SMT DEF Offsets
<1>4. DOMAIN Moved(b, f) = Offsets(b) /\ Moved(b, f)[f + k - 1] = b.mem[b.ctxOffset + k - 1]
  BY <1>3 DEF Moved
<1>5. b.mem[b.ctxOffset + k - 1] = <<k, b.ctxSize, b.blocks>>
  BY DEF StreamOK, WholeIfActive, ContextAt
<1> QED  BY <1>3, <1>4, <1>5

(* What the driver writes is a context.                                    *)
LEMMA ContextIsThere ==
  ASSUME NEW b, NEW off \in Nat, NEW size \in Nat, NEW n, BufSize[b.kind] \in Nat,
         off + size <= BufSize[b.kind]
  PROVE  ContextAt(Context(b, off, size, n), off, size, n)
<1> SUFFICES ASSUME NEW k \in 1..size
             PROVE  /\ off + k - 1 \in DOMAIN Context(b, off, size, n)
                    /\ Context(b, off, size, n)[off + k - 1] = <<k, size, n>>
  BY DEF ContextAt
<1>1. /\ off + k - 1 \in Offsets(b) /\ off + k - 1 >= off /\ off + k - 1 < off + size
      /\ (off + k - 1) - off + 1 = k
  BY SMT DEF Offsets
<1>2. /\ Context(b, off, size, n)[off + k - 1] = <<(off + k - 1) - off + 1, size, n>>
      /\ DOMAIN Context(b, off, size, n) = Offsets(b)
  BY <1>1 DEF Context
<1> QED  BY <1>1, <1>2

LEMMA ContextType ==
  ASSUME NEW b, NEW off \in Nat, NEW size \in CtxSizes, NEW n \in 0..MaxBlocks
  PROVE  Context(b, off, size, n) \in [Offsets(b) -> Bytes]
<1> SUFFICES ASSUME NEW o \in Offsets(b), o >= off, o < off + size
             PROVE  <<o - off + 1, size, n>> \in Bytes
  BY DEF Context, Bytes
<1>1. size \in Nat /\ size <= PageSize
  BY SizeFacts
<1>2. o \in Int
  BY SMT DEF Offsets
<1>3. o - off + 1 \in 1..PageSize
  BY <1>1, <1>2, SMT
<1> QED  BY <1>3 DEF Bytes

LEMMA AnythingType ==
  ASSUME NEW b
  PROVE  Anything(b) \in [Offsets(b) -> Bytes]
BY DEF Anything, Bytes

LEMMA MovedType ==
  ASSUME NEW b, NEW f, b.mem \in [Offsets(b) -> Bytes]
  PROVE  Moved(b, f) \in [Offsets(b) -> Bytes]
BY DEF Moved, Bytes

-----------------------------------------------------------------------------
(* Each thing that happens to a buffer keeps StreamOK.                     *)
LEMMA FreshOK ==
  ASSUME NEW kind \in Kinds, NEW at \in Addresses
  PROVE  StreamOK(Fresh(kind, at)) /\ Fresh(kind, at).kind = kind
<1> DEFINE b == Fresh(kind, at)
<1>1. /\ b.kind = kind /\ b.start = at /\ b.ctxSize = 0 /\ b.ctxOffset = 0
      /\ b.active = FALSE /\ b.blocks = 0 /\ BufSize[kind] \in Nat
  BY DEF Fresh
<1>2. b.mem \in [Offsets(b) -> Bytes]
  BY <1>1 DEF Fresh, Offsets, Bytes
<1>3. 0 \in 0..BufSize[kind] /\ 0 \in 0..MaxBlocks
  BY <1>1, SMT
<1>4. FieldsOK(b)
  <2>1. b = [kind |-> b.kind, start |-> b.start, ctxSize |-> b.ctxSize, ctxOffset |-> b.ctxOffset,
             mem |-> b.mem, active |-> b.active, blocks |-> b.blocks]
    BY DEF Fresh
  <2> HIDE DEF b
  <2> QED  BY <1>1, <1>2, <1>3, <2>1 DEF FieldsOK
<1> HIDE DEF b
<1>5. StreamOK(b)
  BY <1>1, <1>4, SMT DEF StreamOK, PlaceOK, WholeIfActive
<1> QED  BY <1>1, <1>5 DEF b

LEMMA CopyOK ==
  ASSUME NEW b, StreamOK(b), NEW at \in Addresses
  PROVE  StreamOK([b EXCEPT !.start = at])
<1> DEFINE c == [b EXCEPT !.start = at]
<1>1. /\ c.kind = b.kind /\ c.start = at /\ c.ctxSize = b.ctxSize /\ c.ctxOffset = b.ctxOffset
      /\ c.mem = b.mem /\ c.active = b.active /\ c.blocks = b.blocks
      /\ Offsets(c) = Offsets(b)
  BY DEF StreamOK, FieldsOK, Offsets
<1>2. FieldsOK(c)
  BY <1>1 DEF StreamOK, FieldsOK
<1> QED  BY <1>1, <1>2 DEF StreamOK, PlaceOK, WholeIfActive

LEMMA PlacedOK ==
  ASSUME NEW b, StreamOK(b), NEW m \in Modes, m.kind = b.kind, Accepted(m)
  PROVE  LET p == Placed(b, m.size)
         IN  /\ StreamOK(p) /\ p.kind = b.kind /\ p.ctxSize = m.size /\ p.blocks = 0
<1> DEFINE p == Placed(b, m.size)
           o == CtxOffset(b.start, BufSize[b.kind], m.size)
<1>1. /\ p.kind = b.kind /\ p.start = b.start /\ p.ctxSize = m.size /\ p.ctxOffset = o
      /\ p.mem = Anything(b) /\ p.active = FALSE /\ p.blocks = 0 /\ Offsets(p) = Offsets(b)
  BY DEF StreamOK, FieldsOK, Placed, Offsets
<1>2. Fits(b.start, o, m.size, BufSize[b.kind])
  BY PlaceFits, FieldFacts DEF StreamOK
<1>3. o \in 0..BufSize[b.kind] /\ PropsSize <= o /\ o + m.size <= BufSize[b.kind]
  BY <1>2, ModeFacts, SMT DEF Fits
<1>4. p.mem \in [Offsets(p) -> Bytes] /\ 0 \in 0..MaxBlocks
  BY <1>1, AnythingType, SMT
<1>5. FieldsOK(p)
  <2>0. p = [b EXCEPT !.ctxSize = m.size, !.ctxOffset = o, !.mem = Anything(b), !.active = FALSE, !.blocks = 0]
    BY DEF Placed
  <2>1. p = [kind |-> p.kind, start |-> p.start, ctxSize |-> p.ctxSize, ctxOffset |-> p.ctxOffset,
             mem |-> p.mem, active |-> p.active, blocks |-> p.blocks]
    <3> HIDE DEF p, o
    <3> QED  BY <2>0 DEF StreamOK, FieldsOK
  <2> HIDE DEF p
  <2> QED  BY <1>1, <1>3, <1>4, <2>1, ModeFacts, FieldFacts DEF FieldsOK, StreamOK
<1> HIDE DEF p, o
<1>6. PlaceOK(p)
  BY <1>1, <1>3, AcceptedGood DEF PlaceOK
<1> QED  BY <1>1, <1>5, <1>6 DEF StreamOK, WholeIfActive, p

(* The driver has written a context of n blocks where there is place.      *)
LEMMA WrittenOK ==
  ASSUME NEW b, StreamOK(b), b.ctxSize > 0, NEW n \in 0..MaxBlocks, NEW w,
         w = [b EXCEPT !.mem = Context(b, b.ctxOffset, b.ctxSize, n), !.active = TRUE, !.blocks = n]
  PROVE  StreamOK(w)
<1>1. /\ w.kind = b.kind /\ w.start = b.start /\ w.ctxSize = b.ctxSize /\ w.ctxOffset = b.ctxOffset
      /\ w.mem = Context(b, b.ctxOffset, b.ctxSize, n) /\ w.active = TRUE /\ w.blocks = n
      /\ Offsets(w) = Offsets(b)
  BY DEF StreamOK, FieldsOK, Offsets
<1>2. /\ b.ctxSize \in CtxSizes /\ b.ctxSize \in Nat /\ b.ctxOffset \in Nat /\ BufSize[b.kind] \in Nat
      /\ b.ctxOffset + b.ctxSize <= BufSize[b.kind]
  BY FieldFacts, SMT DEF StreamOK, PlaceOK
<1>3. Context(b, b.ctxOffset, b.ctxSize, n) \in [Offsets(b) -> Bytes]
  BY <1>2, ContextType
<1>4. FieldsOK(w)
  <2>1. w = [kind |-> w.kind, start |-> w.start, ctxSize |-> w.ctxSize, ctxOffset |-> w.ctxOffset,
             mem |-> w.mem, active |-> w.active, blocks |-> w.blocks]
    BY DEF StreamOK, FieldsOK
  <2> QED  BY <1>1, <1>3, <2>1, FieldFacts DEF FieldsOK, StreamOK
<1>5. ContextAt(w.mem, w.ctxOffset, w.ctxSize, w.blocks)
  BY <1>1, <1>2, ContextIsThere
<1> QED  BY <1>1, <1>4, <1>5 DEF StreamOK, PlaceOK, WholeIfActive

LEMMA EndedOK ==
  ASSUME NEW b, StreamOK(b)
  PROVE  StreamOK(Worked(b, "end"))
<1> DEFINE w == Worked(b, "end")
<1>1. /\ w.kind = b.kind /\ w.start = b.start /\ w.ctxSize = b.ctxSize /\ w.ctxOffset = b.ctxOffset
      /\ w.mem = Anything(b) /\ w.active = FALSE /\ w.blocks = b.blocks /\ Offsets(w) = Offsets(b)
  BY DEF StreamOK, FieldsOK, Worked, Offsets
<1>2. FieldsOK(w)
  <2>1. w = [kind |-> w.kind, start |-> w.start, ctxSize |-> w.ctxSize, ctxOffset |-> w.ctxOffset,
             mem |-> w.mem, active |-> w.active, blocks |-> w.blocks]
    BY DEF StreamOK, FieldsOK, Worked
  <2>2. w.mem \in [Offsets(w) -> Bytes]
    BY <1>1, AnythingType
  <2> HIDE DEF w
  <2> QED  BY <1>1, <2>1, <2>2, FieldFacts DEF FieldsOK, StreamOK
<1> HIDE DEF w
<1> QED  BY <1>1, <1>2 DEF StreamOK, PlaceOK, WholeIfActive, w

LEMMA StartedOK ==
  ASSUME NEW b, StreamOK(b), b.ctxSize > 0, b.blocks = 0, NEW r
  PROVE  StreamOK(Started(b, r))
<1>1. CASE r.rc = "OK"
  <2> DEFINE w == [b EXCEPT !.mem = Context(b, b.ctxOffset, b.ctxSize, 0), !.active = TRUE, !.blocks = 0]
  <2>1. 0 \in 0..MaxBlocks
    BY SMT
  <2>2. StreamOK(w)
    BY <2>1, WrittenOK
  <2>3. Started(b, r) = w
    BY <1>1 DEF Started, StreamOK, FieldsOK
  <2> QED  BY <2>2, <2>3
<1>2. CASE r.rc # "OK"
  BY <1>2 DEF Started
<1> QED  BY <1>1, <1>2

LEMMA LocatedOK ==
  ASSUME NEW b, StreamOK(b), b.ctxSize > 0
  PROVE  LET l == Located(b)
         IN  /\ StreamOK(l) /\ l.kind = b.kind /\ l.start = b.start /\ l.ctxSize = b.ctxSize
             /\ l.active = b.active /\ l.blocks = b.blocks /\ l.ctxOffset = FoundOffset(b)
<1> DEFINE f == FoundOffset(b)
           l == Located(b)
<1>1. CASE f = b.ctxOffset
  BY <1>1 DEF Located
<1>2. CASE f # b.ctxOffset
  <2>1. l = [b EXCEPT !.ctxOffset = f, !.mem = Moved(b, f)]
    BY <1>2 DEF Located
  <2>2. /\ l.kind = b.kind /\ l.start = b.start /\ l.ctxSize = b.ctxSize /\ l.ctxOffset = f
        /\ l.mem = Moved(b, f) /\ l.active = b.active /\ l.blocks = b.blocks /\ Offsets(l) = Offsets(b)
        /\ l = [kind |-> l.kind, start |-> l.start, ctxSize |-> l.ctxSize, ctxOffset |-> l.ctxOffset,
                mem |-> l.mem, active |-> l.active, blocks |-> l.blocks]
    <3> HIDE DEF l, f
    <3> QED  BY <2>1 DEF StreamOK, FieldsOK, Offsets
  <2>3. Fits(b.start, f, b.ctxSize, BufSize[b.kind])
    BY FoundFits DEF StreamOK
  <2>4. f \in 0..BufSize[b.kind] /\ PropsSize <= f /\ f + b.ctxSize <= BufSize[b.kind]
    <3> HIDE DEF f
    <3> QED  BY <2>3, FieldFacts, SMT DEF Fits, StreamOK
  <2>5. Moved(b, f) \in [Offsets(b) -> Bytes]
    BY MovedType, FieldFacts DEF StreamOK
  <2>6. b.active => ContextAt(Moved(b, f), f, b.ctxSize, b.blocks)
    BY <1>2, MovedKeeps
  <2> HIDE DEF l, f
  <2>7. FieldsOK(l)
    BY <2>2, <2>4, <2>5, FieldFacts DEF FieldsOK, StreamOK
  <2>8. PlaceOK(l) /\ WholeIfActive(l)
    BY <2>2, <2>4, <2>6 DEF StreamOK, PlaceOK, WholeIfActive
  <2> QED  BY <2>2, <2>7, <2>8 DEF StreamOK, l, f
<1> QED  BY <1>1, <1>2

LEMMA AfterOK ==
  ASSUME NEW b, StreamOK(b), b.active, NEW effect, NEW r,
         r.rc = "OK" /\ effect = "block" => b.blocks < MaxBlocks
  PROVE  StreamOK(After(b, effect, r))
<1>1. CASE r.rc = "OK" /\ effect = "block"
  <2> DEFINE n == b.blocks + 1
             w == [b EXCEPT !.mem = Context(b, b.ctxOffset, b.ctxSize, n), !.active = TRUE, !.blocks = n]
  <2>1. n \in 0..MaxBlocks
    BY <1>1, FieldFacts, SMT DEF StreamOK
  <2>2. b.ctxSize > 0
    BY DEF StreamOK, WholeIfActive
  <2>3. StreamOK(w)
    <3> HIDE DEF n
    <3> QED  BY <2>1, <2>2, WrittenOK
  <2>4. After(b, effect, r) = [b EXCEPT !.mem = Context(b, b.ctxOffset, b.ctxSize, n), !.blocks = n]
    BY <1>1 DEF After, Worked
  <2>5. w = [b EXCEPT !.mem = Context(b, b.ctxOffset, b.ctxSize, n), !.blocks = n]
    <3> HIDE DEF n
    <3>1. b.active = TRUE
      BY DEF StreamOK, FieldsOK
    <3> QED  BY <3>1 DEF StreamOK, FieldsOK
  <2> QED  BY <2>3, <2>4, <2>5
<1>2. CASE After(b, effect, r) = Worked(b, "end")
  BY <1>2, EndedOK
<1>3. CASE After(b, effect, r) = b
  BY <1>3
<1>4. After(b, effect, r) = b \/ After(b, effect, r) = Worked(b, "end") \/ (r.rc = "OK" /\ effect = "block")
  BY DEF After, Worked
<1> QED  BY <1>1, <1>2, <1>3, <1>4

-----------------------------------------------------------------------------
LEMMA SetOne ==
  ASSUME NEW s, StreamsOK(s), NEW u \in DOMAIN s, NEW b, StreamOK(b)
  PROVE  StreamsOK([s EXCEPT ![u] = b])
BY DEF StreamsOK

LEMMA OutcomeFacts ==
  ASSUME NEW r \in DiOutcomes
  PROVE  /\ CrysError(r) \in {0, 1}
         /\ CrysError(r) = 0 => r.rc = "OK"
BY DEF DiOutcomes, CrysError

LEMMA QuietOK == LastOK(Quiet)
BY SMT DEF LastOK, Quiet

LEMMA ReturnsOK ==
  ASSUME NEW r \in DiOutcomes, Returns(r)
  PROVE  LastOK(last')
<1> DEFINE d == (r.rc = "OK")
<1>1. last' = [result |-> CrysError(r), done |-> d]
  BY DEF Returns
<1>2. d \in BOOLEAN /\ CrysError(r) \in {0, 1} /\ (CrysError(r) = 0 => d)
  BY OutcomeFacts
<1> HIDE DEF d
<1> QED  BY <1>1, <1>2 DEF LastOK

LEMMA FailsOK ==
  ASSUME Fails
  PROVE  LastOK(last')
BY SMT DEF Fails, LastOK

LEMMA CacheOK ==
  ASSUME CachedOK(cached), NEW m \in Modes, NEW size \in ContextSizes(m)
  PROVE  CachedOK(Cache(m, size))
<1>1. size \in CtxSizes \cup {Unknown, 0}
  BY ModeFacts DEF CachedOK, ContextSizes, AskedSizes
<1> QED  BY <1>1 DEF CachedOK, Cache

LEMMA CacheBothOK ==
  ASSUME CachedOK(cached), NEW m \in Modes, NEW h \in KeyHashes
  PROVE  CachedOK([cached EXCEPT ![m] = m.size, ![h.mode] = h.size])
<1>1. h.size \in CtxSizes \cup {Unknown, 0}
  BY ModeFacts DEF KeyHashes, ModesOf
<1>2. m.size \in CtxSizes \cup {Unknown, 0}
  BY ModeFacts
<1> QED  BY <1>1, <1>2 DEF CachedOK

LEMMA InitIInv == Init => IInv
<1> SUFFICES ASSUME Init PROVE IInv
  OBVIOUS
<1>1. PICK p \in Pairings : \E at \in [DOMAIN p -> Addresses] :
        streams = [u \in DOMAIN p |-> Fresh(p[u], at[u])]
  BY DEF Init
<1>2. PICK at \in [DOMAIN p -> Addresses] : streams = [u \in DOMAIN p |-> Fresh(p[u], at[u])]
  BY <1>1
<1>3. StreamsOK(streams)
  <2>1. DOMAIN p \subseteq Users /\ p \in [DOMAIN p -> Kinds]
    OBVIOUS
  <2> SUFFICES ASSUME NEW u \in DOMAIN p PROVE StreamOK(streams[u])
    BY <1>2, <2>1 DEF StreamsOK
  <2>2. p[u] \in Kinds /\ at[u] \in Addresses
    BY <2>1
  <2>3. StreamOK(Fresh(p[u], at[u]))
    BY <2>2, FreshOK
  <2> QED  BY <1>2, <2>3
<1>4. CachedOK(cached)
  BY DEF Init, CachedOK
<1> QED  BY <1>3, <1>4, QuietOK DEF Init, IInv

-----------------------------------------------------------------------------
(* Each action keeps the invariant.                                        *)
LEMMA StartStep ==
  ASSUME IInv, NEW u \in InUse, StartStream(u)
  PROVE  IInv'
<1>1. PICK m \in ModesOf(streams[u].kind), r \in DiOutcomes :
        /\ Accepted(m)
        /\ m.size \in ContextSizes(m)
        /\ cached' = Cache(m, m.size)
        /\ streams' = [streams EXCEPT ![u] = Started(Placed(streams[u], m.size), r)]
        /\ Returns(r)
  BY DEF StartStream
<1>2. m \in Modes /\ m.kind = streams[u].kind /\ StreamOK(streams[u]) /\ StreamsOK(streams)
  BY DEF ModesOf, IInv, StreamsOK, InUse
<1>3. StreamOK(Started(Placed(streams[u], m.size), r))
  <2>1. /\ StreamOK(Placed(streams[u], m.size)) /\ Placed(streams[u], m.size).blocks = 0
        /\ Placed(streams[u], m.size).ctxSize > 0
    BY <1>1, <1>2, PlacedOK, ModeFacts, SMT
  <2> QED  BY <2>1, StartedOK
<1>4. StreamsOK(streams')
  BY <1>1, <1>2, <1>3, SetOne DEF InUse
<1>5. CachedOK(cached')
  BY <1>1, <1>2, CacheOK DEF IInv
<1> QED  BY <1>1, <1>4, <1>5, ReturnsOK DEF StartStream, IInv

LEMMA HashKeyStep ==
  ASSUME IInv, NEW u \in InUse, streams[u].kind = "HMAC", HashKeyAndStart(u)
  PROVE  IInv'
<1>1. PICK m \in ModesOf("HMAC"), h \in KeyHashes :
        /\ Accepted(m)
        /\ cached' = [cached EXCEPT ![m] = m.size, ![h.mode] = h.size]
        /\ \/ /\ streams' = [streams EXCEPT ![u] = Placed(streams[u], m.size)]
              /\ Fails
           \/ \E r \in DiOutcomes :
                /\ streams' = [streams EXCEPT ![u] = Started(Placed(streams[u], m.size), r)]
                /\ Returns(r)
  BY DEF HashKeyAndStart
<1>2. m \in Modes /\ m.kind = streams[u].kind /\ StreamOK(streams[u]) /\ StreamsOK(streams)
  BY DEF ModesOf, IInv, StreamsOK, InUse
<1>3. /\ StreamOK(Placed(streams[u], m.size)) /\ Placed(streams[u], m.size).blocks = 0
      /\ Placed(streams[u], m.size).ctxSize > 0
  BY <1>1, <1>2, PlacedOK, ModeFacts, SMT
<1>4. StreamsOK(streams') /\ LastOK(last')
  <2>1. CASE streams' = [streams EXCEPT ![u] = Placed(streams[u], m.size)] /\ Fails
    BY <1>2, <1>3, <2>1, SetOne, FailsOK DEF InUse
  <2>2. ASSUME NEW r \in DiOutcomes, Returns(r),
               streams' = [streams EXCEPT ![u] = Started(Placed(streams[u], m.size), r)]
        PROVE  StreamsOK(streams') /\ LastOK(last')
    BY <1>2, <1>3, <2>2, StartedOK, SetOne, ReturnsOK DEF InUse
  <2> QED  BY <1>1, <2>1, <2>2
<1>5. CachedOK(cached')
  BY <1>1, <1>2, CacheBothOK DEF IInv
<1> QED  BY <1>4, <1>5 DEF HashKeyAndStart, IInv

LEMMA LateStep ==
  ASSUME IInv, NEW u \in InUse, RefuseLate(u)
  PROVE  IInv'
<1>1. PICK m \in ModesOf(streams[u].kind) :
        /\ Accepted(m)
        /\ m.size \in ContextSizes(m)
        /\ cached' = Cache(m, m.size)
        /\ streams' = [streams EXCEPT ![u] = Placed(streams[u], m.size)]
  BY DEF RefuseLate
<1>2. m \in Modes /\ m.kind = streams[u].kind /\ StreamOK(streams[u]) /\ StreamsOK(streams)
  BY DEF ModesOf, IInv, StreamsOK, InUse
<1>3. StreamOK(Placed(streams[u], m.size))
  BY <1>1, <1>2, PlacedOK
<1>4. StreamsOK(streams')
  BY <1>1, <1>2, <1>3, SetOne DEF InUse
<1>5. CachedOK(cached')
  BY <1>1, <1>2, CacheOK DEF IInv
<1> QED  BY <1>4, <1>5, FailsOK DEF RefuseLate, IInv

LEMMA RefuseStep ==
  ASSUME IInv, NEW u \in InUse, RefuseInit(u)
  PROVE  IInv'
<1>1. CachedOK(cached')
  BY CacheOK DEF RefuseInit, IInv, ModesOf
<1> QED  BY <1>1, FailsOK DEF RefuseInit, IInv

LEMMA OneShotStep ==
  ASSUME IInv, NEW kind, OneShot(kind)
  PROVE  IInv'
<1>1. CASE RefuseOneShot(kind)
  <2>1. CachedOK(cached')
    BY <1>1, CacheOK DEF RefuseOneShot, IInv, ModesOf
  <2>2. Fails
    BY <1>1 DEF RefuseOneShot
  <2> QED  BY <2>1, <2>2, FailsOK DEF OneShot, IInv
<1>2. CASE \E m \in ModesOf(kind), r \in DiOutcomes :
             /\ m.size \in ContextSizes(m) /\ cached' = Cache(m, m.size) /\ Returns(r)
  <2>1. CachedOK(cached')
    BY <1>2, CacheOK DEF IInv, ModesOf
  <2> QED  BY <1>2, <2>1, ReturnsOK DEF OneShot, IInv
<1> QED  BY <1>1, <1>2 DEF OneShot

LEMMA MacStep ==
  ASSUME IInv, HashKeyAndMac
  PROVE  IInv'
<1>1. PICK m \in ModesOf("HMAC"), h \in KeyHashes :
        /\ cached' = [cached EXCEPT ![m] = m.size, ![h.mode] = h.size]
        /\ Fails \/ \E r \in DiOutcomes : Returns(r)
  BY DEF HashKeyAndMac
<1>2. CachedOK(cached')
  BY <1>1, CacheBothOK DEF IInv, ModesOf
<1>3. LastOK(last')
  BY <1>1, FailsOK, ReturnsOK
<1> QED  BY <1>2, <1>3 DEF HashKeyAndMac, IInv

LEMMA DrivenStep ==
  ASSUME IInv, NEW nodes, nodes \subseteq InUse, NEW effect, NEW r \in DiOutcomes,
         Driven(nodes, effect, r)
  PROVE  diOpen' \in BOOLEAN /\ CachedOK(cached') /\ StreamsOK(streams')
<1>1. DOMAIN streams' = InUse /\ InUse \subseteq Users
  BY DEF Driven, IInv, StreamsOK, InUse
<1>2. ASSUME NEW u \in InUse PROVE StreamOK(streams'[u])
  <2>1. StreamOK(streams[u])
    BY DEF IInv, StreamsOK, InUse
  <2>2. CASE u \notin nodes
    BY <2>1, <2>2 DEF Driven
  <2>3. CASE u \in nodes
    <3> DEFINE l == Located(streams[u])
    <3>1. streams[u].active /\ streams[u].ctxSize > 0 /\ streams'[u] = After(l, effect, r)
      BY <2>1, <2>3 DEF Driven, StreamOK, WholeIfActive
    <3>2. StreamOK(l) /\ l.active
      BY <2>1, <3>1, LocatedOK
    <3>3. r.rc = "OK" /\ effect = "block" => l.blocks < MaxBlocks
      BY <2>3 DEF Driven, CanWork
    <3> HIDE DEF l
    <3> QED  BY <3>1, <3>2, <3>3, AfterOK
  <2> QED  BY <2>2, <2>3
<1> QED  BY <1>1, <1>2 DEF Driven, IInv, StreamsOK

LEMMA DriveStep ==
  ASSUME IInv, NEW nodes, nodes \subseteq InUse, NEW effect, Drive(nodes, effect)
  PROVE  IInv'
<1>1. PICK r \in DiOutcomes : Driven(nodes, effect, r) /\ Returns(r)
  BY DEF Drive
<1> QED  BY <1>1, DrivenStep, ReturnsOK DEF IInv

LEMMA EndCombinedStep ==
  ASSUME IInv, EndCombined
  PROVE  IInv'
<1>1. PICK nodes \in Configs, r \in DiOutcomes :
        /\ Driven(nodes, "end", r)
        /\ Returns(r) \/ Fails
  BY DEF EndCombined
<1>2. LastOK(last')
  BY <1>1, ReturnsOK, FailsOK
<1> QED  BY <1>1, <1>2, DrivenStep DEF Configs, IInv

LEMMA EmptyStep ==
  ASSUME IInv, Empty
  PROVE  IInv'
BY QuietOK DEF Empty, IInv, Quiet

LEMMA ClearStep ==
  ASSUME IInv, NEW u \in InUse, Clear(u)
  PROVE  IInv'
<1>1. StreamOK(streams[u]) /\ StreamsOK(streams)
  BY DEF IInv, StreamsOK, InUse
<1>2. StreamOK(Fresh(streams[u].kind, streams[u].start))
  BY <1>1, FieldFacts, FreshOK DEF StreamOK
<1>3. StreamsOK(streams')
  BY <1>1, <1>2, SetOne DEF Clear, InUse
<1> QED  BY <1>3, QuietOK DEF Clear, IInv, Quiet

LEMMA CopyStep ==
  ASSUME IInv, NEW u \in InUse, CopyBuffer(u)
  PROVE  IInv'
<1>1. PICK at \in Addresses : streams' = [streams EXCEPT ![u].start = at]
  BY DEF CopyBuffer
<1>2. StreamOK(streams[u]) /\ StreamsOK(streams)
  BY DEF IInv, StreamsOK, InUse
<1>3. streams' = [streams EXCEPT ![u] = [streams[u] EXCEPT !.start = at]]
  BY <1>1
<1>4. StreamsOK(streams')
  BY <1>2, <1>3, CopyOK, SetOne DEF InUse
<1> QED  BY <1>4, QuietOK DEF CopyBuffer, IInv, Quiet

LEMMA InitOrFiniStep ==
  ASSUME IInv, InitOrFini
  PROVE  IInv'
BY QuietOK DEF InitOrFini, IInv, Quiet

LEMMA NextStep ==
  ASSUME IInv, Next
  PROVE  IInv'
<1>1. CASE InitOrFini
  BY <1>1, InitOrFiniStep
<1>2. CASE CRYS_AES \/ CRYS_DES \/ CRYS_HASH \/ CRYS_HMAC \/ CRYS_AESCCM
  <2>1. HashKeyAndMac \/ \E kind \in Kinds : OneShot(kind)
    BY <1>2 DEF CRYS_AES, CRYS_DES, CRYS_HASH, CRYS_HMAC, CRYS_AESCCM, Kinds
  <2> QED  BY <2>1, OneShotStep, MacStep
<1>3. CASE CRYS_Combined_Init \/ CRYS_Combined_Process
  <2>1. PICK nodes \in Configs : \E effect \in {"same", "block"} : Drive(nodes, effect)
    BY <1>3 DEF CRYS_Combined_Init, CRYS_Combined_Process
  <2>2. nodes \subseteq InUse
    BY DEF Configs
  <2> QED  BY <2>1, <2>2, DriveStep
<1>4. CASE CRYS_Combined_Finish \/ CRYS_Combined
  BY <1>4, EndCombinedStep DEF CRYS_Combined_Finish, CRYS_Combined
<1>5. ASSUME NEW u \in InUse, CopyBuffer(u) PROVE IInv'
  BY <1>5, CopyStep
<1>6. ASSUME NEW u \in InUse, streams[u].kind = "HMAC", HashKeyAndStart(u) PROVE IInv'
  BY <1>6, HashKeyStep
<1>7. ASSUME NEW u \in InUse, StartStream(u) PROVE IInv'
  BY <1>7, StartStep
<1>8. ASSUME NEW u \in InUse, NEW effect, Drive({u}, effect) PROVE IInv'
  BY <1>8, DriveStep
<1>9. ASSUME NEW u \in InUse, Clear(u) PROVE IInv'
  BY <1>9, ClearStep
<1>10. CASE Empty
  BY <1>10, EmptyStep
<1>11. ASSUME NEW u \in InUse,
              \/ CRYS_AES_Init(u) \/ CRYS_DES_Init(u) \/ CRYS_HASH_Init(u) \/ CRYS_HMAC_Init(u)
              \/ CRYS_AESCCM_Init(u)
       PROVE  IInv'
  <2>1. StartStream(u) \/ (streams[u].kind = "HMAC" /\ HashKeyAndStart(u))
    BY <1>11 DEF CRYS_AES_Init, CRYS_DES_Init, CRYS_HASH_Init, CRYS_HMAC_Init, CRYS_AESCCM_Init
  <2> QED  BY <2>1, <1>6, <1>7
<1>12. ASSUME NEW u \in InUse,
              \/ CRYS_AES_Block(u) \/ CRYS_DES_Block(u) \/ CRYS_HASH_Update(u) \/ CRYS_HMAC_Update(u)
              \/ CRYS_AESCCM_BlockAdata(u) \/ CRYS_AESCCM_BlockTextData(u)
              \/ CRYS_AES_SetIv(u) \/ CRYS_AES_GetIv(u)
              \/ CRYS_AES_Finish(u) \/ CRYS_HASH_Finish(u) \/ CRYS_HMAC_Finish(u)
              \/ CRYS_AESCCM_Finish(u) \/ CRYS_DES_Free(u)
       PROVE  IInv'
  <2>1. Empty \/ \E effect \in {"block", "same", "end"} : Drive({u}, effect)
    BY <1>12 DEF CRYS_AES_Block, CRYS_DES_Block, CRYS_HASH_Update, CRYS_HMAC_Update,
                 CRYS_AESCCM_BlockAdata, CRYS_AESCCM_BlockTextData, CRYS_AES_SetIv, CRYS_AES_GetIv,
                 CRYS_AES_Finish, CRYS_HASH_Finish, CRYS_HMAC_Finish, CRYS_AESCCM_Finish, CRYS_DES_Free
  <2> QED  BY <2>1, <1>8, <1>10
<1>13. ASSUME NEW u \in InUse, CRYS_HASH_Free(u) \/ CRYS_HMAC_Free(u) PROVE IInv'
  BY <1>9, <1>13 DEF CRYS_HASH_Free, CRYS_HMAC_Free
<1>14. ASSUME NEW u \in InUse, RefuseInit(u) \/ RefuseLate(u) PROVE IInv'
  BY <1>14, RefuseStep, LateStep
<1>15. CASE \/ InitOrFini
            \/ CRYS_AES \/ CRYS_DES \/ CRYS_HASH \/ CRYS_HMAC \/ CRYS_AESCCM
            \/ CRYS_Combined_Init \/ CRYS_Combined_Process
            \/ CRYS_Combined_Finish \/ CRYS_Combined
  BY <1>15, <1>1, <1>2, <1>3, <1>4
<1>16. CASE ~(\/ InitOrFini
              \/ CRYS_AES \/ CRYS_DES \/ CRYS_HASH \/ CRYS_HMAC \/ CRYS_AESCCM
              \/ CRYS_Combined_Init \/ CRYS_Combined_Process
              \/ CRYS_Combined_Finish \/ CRYS_Combined)
  BY <1>16, <1>5, <1>11, <1>12, <1>13, <1>14 DEF Next
<1> QED  BY <1>15, <1>16

LEMMA NextIInv == IInv /\ [Next]_vars => IInv'
<1> SUFFICES ASSUME IInv, [Next]_vars PROVE IInv'
  OBVIOUS
<1>1. CASE Next
  BY <1>1, NextStep
<1>2. CASE UNCHANGED vars
  BY <1>2 DEF vars, IInv
<1> QED  BY <1>1, <1>2

(* The inductive invariant holds.                                          *)
THEOREM Invariant == Spec => []IInv
BY InitIInv, NextIInv, PTL DEF Spec

(* Type correctness.                                                       *)
THEOREM TypeCorrect == Spec => []TypeOK
<1>1. IInv => TypeOK
  BY DEF IInv, TypeOK, StreamsOK, StreamOK, FieldsOK, CachedOK, LastOK, InUse
<1> QED  BY <1>1, Invariant, PTL

LEMMA GivenFits ==
  ASSUME IInv, NEW l \in Given
  PROVE  Fits(l.start, l.offset, l.size, l.room) /\ l.size \in Nat
<1>1. ASSUME NEW u \in InUse, streams[u].ctxSize > 0, l = Where(Located(streams[u]))
      PROVE  Fits(l.start, l.offset, l.size, l.room) /\ l.size \in Nat
  <2> DEFINE b == streams[u]
  <2>1. StreamOK(b)
    BY DEF IInv, StreamsOK, InUse
  <2> HIDE DEF b
  <2>2. b.ctxSize > 0 /\ l = Where(Located(b))
    BY <1>1 DEF b
  <2>3. /\ l.start = b.start /\ l.offset = FoundOffset(b) /\ l.size = b.ctxSize /\ l.room = BufSize[b.kind]
    BY <2>1, <2>2, LocatedOK DEF Where
  <2>4. Fits(b.start, FoundOffset(b), b.ctxSize, BufSize[b.kind]) /\ b.ctxSize \in Nat
    BY <2>1, <2>2, FoundFits, FieldFacts DEF StreamOK
  <2> QED  BY <2>3, <2>4
<1>2. ASSUME NEW at \in Stacks, NEW m \in Modes, Accepted(m), l = OnStack(at, m)
      PROVE  Fits(l.start, l.offset, l.size, l.room) /\ l.size \in Nat
  <2>1. at \in Nat
    OBVIOUS
  <2> QED  BY <1>2, <2>1, PlaceFits, ModeFacts DEF OnStack
<1> QED  BY <1>1, <1>2 DEF Given

(* DX_InitUserCtxLocation and DX_GetUserCtxLocation only return places     *)
(* within the buffer, behind its properties.                               *)
THEOREM InBufferCorrect == Spec => []InBuffer
<1>1. IInv => InBuffer
  <2> SUFFICES ASSUME IInv, NEW l \in Given
               PROVE  l.offset >= PropsSize /\ l.offset + l.size <= l.room
    BY DEF InBuffer
  <2>1. l.offset \in PropsSize..l.room /\ l.offset + l.size <= l.room
    BY GivenFits DEF Fits
  <2> QED  BY <2>1, SMT
<1> QED  BY <1>1, Invariant, PTL

(* ... and on one page, wherever the buffer has been copied to.            *)
THEOREM NoCrossingCorrect == Spec => []NoCrossing
<1>1. IInv => NoCrossing
  BY GivenFits DEF NoCrossing, Fits
<1> QED  BY <1>1, Invariant, PTL

(* A stream's context survives all copies, moves and calls that do not     *)
(* reach the driver (DX_GetUserCtxLocation).                               *)
THEOREM ContextKeptCorrect == Spec => []ContextKept
<1>1. IInv => ContextKept
  BY DEF IInv, StreamsOK, StreamOK, WholeIfActive, ContextKept, InUse
<1> QED  BY <1>1, Invariant, PTL

(* CRYS_OK is only returned for what has been done (DX_CRYS_RETURN_ERROR). *)
THEOREM FailureToldCorrect == Spec => []FailureTold
<1>1. IInv => FailureTold
  BY DEF IInv, LastOK, FailureTold
<1> QED  BY <1>1, Invariant, PTL
=============================================================================
