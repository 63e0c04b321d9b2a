----------------------------- MODULE CtxLocation -----------------------------
(***************************************************************************)
(* Where a crypto context lies in the buffer of a CRYS user                *)
(* (libcc54/crys/crys_context_relocation.c).  The driver wants a context   *)
(* that crosses no page.  The buffer starts with CRYS_CtxBufProps_t and    *)
(* the context lies somewhere behind it.                                   *)
(***************************************************************************)
EXTENDS Integers

CONSTANTS
  PageSize,     \* PAGE_SIZE: 4096 in the code
  AlignSize,    \* CONTEXT_ALIGNMENT_SIZE: 4 in the code
  PropsSize     \* sizeof(CRYS_CtxBufProps_t): 12 with 32-bit longs

ASSUME SizesAssumption ==
  /\ PageSize \in Nat \ {0}
  /\ AlignSize \in Nat \ {0}
  /\ PropsSize \in Nat \ {0}
  /\ PageSize % AlignSize = 0

PageOf(addr) == (addr \div PageSize) * PageSize
ContextAlign(addr) == ((addr + AlignSize - 1) \div AlignSize) * AlignSize

(* Fault: a context that ends on the first byte of a page passes.          *)
CrossesLate(start, size) == PageOf(start) < PageOf(start + size - 2)
IsBufCrossPage(start, size) == PageOf(start) < PageOf(start + size - 1)

(* GetNonCrossingOffset, as an address.                                    *)
GoodLocation(start, bufferSize, contextSize) ==
  LET nextPage == PageOf(start + PageSize)
      endPage  == PageOf(start + bufferSize - 1)
      fits     == nextPage - ContextAlign(start) >= contextSize
  IN  IF nextPage > endPage \/ (nextPage = endPage /\ fits)
      THEN ContextAlign(start)
      ELSE nextPage

GetNonCrossingOffset(start, bufferSize, contextSize) ==
  GoodLocation(start, bufferSize, contextSize) - start

(* Fault: room for the properties is forgotten.                            *)
AcceptsWithoutProps(bufferSize, contextSize) ==
  contextSize <= PageSize /\ bufferSize >= 2 * contextSize

(* DX_InitUserCtxLocation returns NULL for other sizes.                    *)
SizesAccepted(bufferSize, contextSize) ==
  contextSize <= PageSize /\ bufferSize >= PropsSize + 2 * contextSize

(* The context's offset in a buffer at start: the properties' size is      *)
(* added to the start that is searched, but not taken off the size.        *)
CtxOffset(start, bufferSize, contextSize) ==
  GetNonCrossingOffset(start + PropsSize, bufferSize, contextSize) + PropsSize
=============================================================================
