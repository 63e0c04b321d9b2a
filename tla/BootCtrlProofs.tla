---------------------------- MODULE BootCtrlProofs ----------------------------
(***************************************************************************)
(* What holds of BootCtrl for any number of processes.                     *)
(*                                                                         *)
(* The invariants about the partition follow from the same invariants      *)
(* about the local copies: a copy becomes the partition when it is         *)
(* written, and the partition becomes a copy when it is read.              *)
(***************************************************************************)
EXTENDS BootCtrl, TLAPS

USE DEF EIO, EINVAL, NCells

LEMMA FreshTyped == Fresh \in SlotInfo /\ Zeroed \in SlotInfo
  BY MaxTriesAssumption DEF Fresh, Zeroed, SlotInfo

LEMMA LoweredTyped == ASSUME NEW i \in SlotInfo PROVE Lowered(i) \in SlotInfo
  BY DEF Lowered, SlotInfo

LEMMA SuccessTyped == ASSUME NEW i \in SlotInfo PROVE Success(i) \in SlotInfo
  BY MaxTriesAssumption DEF Success, SlotInfo

LEMMA TriedTyped ==
  ASSUME NEW i \in SlotInfo, i.tries_remaining > 0
  PROVE  Tried(i) \in SlotInfo
  BY MaxTriesAssumption DEF Tried, SlotInfo

LEMMA WithSlotTyped ==
  ASSUME NEW m \in BootCtrlT, NEW s \in Slots, NEW i \in SlotInfo
  PROVE  WithSlot(m, s, i) \in BootCtrlT
  BY DEF WithSlot, BootCtrlT

LEMMA SlotTyped ==
  ASSUME NEW m \in BootCtrlT, NEW s \in Slots
  PROVE  m.slot_info[s] \in SlotInfo
  BY DEF BootCtrlT

(* Moving some cells between two well typed structures gives one.          *)
LEMMA SpliceTyped ==
  ASSUME NEW a \in BootCtrlT, NEW b \in BootCtrlT, NEW lo, NEW hi
  PROVE  Splice(a, b, lo, hi) \in BootCtrlT
  BY DEF Splice, BootCtrlT

LEMMA UpdatedTyped ==
  ASSUME NEW m \in BootCtrlT, NEW s \in Slots, NEW o \in Updates
  PROVE  Updated(o, m, s) \in BootCtrlT
  <1>1. Marked(m, s) \in BootCtrlT
    BY SlotTyped, SuccessTyped, WithSlotTyped DEF Marked
  <1>2. Activated(m, s) \in BootCtrlT
    BY FreshTyped, LoweredTyped, SlotTyped DEF Activated, BootCtrlT
  <1>3. Unbootable(m, s) \in BootCtrlT
    BY FreshTyped, WithSlotTyped DEF Unbootable
  <1> QED
    BY <1>1, <1>2, <1>3 DEF Updated, Updates

LEMMA BlankTyped == Blank \in BootCtrlT
  BY FreshTyped DEF Blank, BootCtrlT

LEMMA ResultTyped ==
  ASSUME NEW m \in BootCtrlT, NEW s \in Slots, NEW o \in Queries, booted \in Slots
  PROVE  Result(o, m, s) \in {0, 1}
  <1>1. m.slot_info[s] \in SlotInfo
    BY SlotTyped
  <1> QED
    BY <1>1 DEF Result, Queries, Slots, SlotInfo

(* Returning from a call keeps the local variables of all processes typed. *)
LEMMA LeaveTyped ==
  ASSUME TypeOK, NEW p \in Procs, NEW r \in {0, 1, EIO, EINVAL}, Leave(p, r),
         misc' \in BootCtrlT, booted' \in Slots, late' \subseteq Procs
  PROVE  TypeOK'
  BY BlankTyped DEF TypeOK, Leave, Queries, Updates, Slots

LEMMA ReturnTyped ==
  ASSUME TypeOK, NEW p \in Procs, NEW r \in {0, 1, EIO, EINVAL}, Return(p, r),
         misc' \in BootCtrlT, booted' \in Slots
  PROVE  TypeOK'
  BY LeaveTyped DEF TypeOK, Return

-----------------------------------------------------------------------------
(* Every reachable state is well typed.                                    *)
THEOREM TypeCorrect == Spec => []TypeOK
<1>1. Init => TypeOK
  <2> SUFFICES ASSUME Init PROVE TypeOK
    OBVIOUS
  <2>1. misc \in BootCtrlT
    BY FreshTyped, LoweredTyped DEF Init, FactoryB, BootCtrlT
  <2> QED
    BY <2>1, BlankTyped DEF Init, TypeOK, Queries, Updates, Slots
<1>2. TypeOK /\ [Next]_vars => TypeOK'
  <2> SUFFICES ASSUME TypeOK, [Next]_vars PROVE TypeOK'
    OBVIOUS
  <2>1. ASSUME NEW p \in Procs, RejectSlot(p) PROVE TypeOK'
    BY <2>1, ReturnTyped DEF RejectSlot, TypeOK
  <2>2. ASSUME NEW p \in Procs, NEW o \in Updates \cup Queries, NEW s \in Slots, Call(p, o, s)
        PROVE TypeOK'
    BY <2>2 DEF Call, TypeOK
  <2>3. ASSUME NEW p \in Procs, ReadFails(p) PROVE TypeOK'
    BY <2>3, ReturnTyped DEF ReadFails, TypeOK
  <2>4. ASSUME NEW p \in Procs, ReadSome(p) PROVE TypeOK'
    BY <2>4, SpliceTyped DEF ReadSome, TypeOK
  <2>5. ASSUME NEW p \in Procs, ReadCorrupt(p) PROVE TypeOK'
    BY <2>5, ReturnTyped DEF ReadCorrupt, TypeOK
  <2>6. ASSUME NEW p \in Procs, ReadForQuery(p) PROVE TypeOK'
    <3> DEFINE m == Splice(buf[p], misc, pos[p], NCells)
    <3>1. m \in BootCtrlT
      BY SpliceTyped DEF TypeOK
    <3>2. Result(op[p], m, arg[p]) \in {0, 1}
      BY <2>6, <3>1, ResultTyped DEF ReadForQuery, TypeOK
    <3> QED
      BY <2>6, <3>2, ReturnTyped DEF ReadForQuery, TypeOK
  <2>7. ASSUME NEW p \in Procs, ReadForUpdate(p) PROVE TypeOK'
    <3> DEFINE m == Splice(buf[p], misc, pos[p], NCells)
    <3>1. m \in BootCtrlT
      BY SpliceTyped DEF TypeOK
    <3>2. Target(p) \in Slots
      BY DEF Target, TypeOK
    <3>3. Updated(op[p], m, Target(p)) \in BootCtrlT
      BY <2>7, <3>1, <3>2, UpdatedTyped DEF ReadForUpdate
    <3> QED
      BY <2>7, <3>2, <3>3 DEF ReadForUpdate, TypeOK
  <2>8. ASSUME NEW p \in Procs, NoBootedSlot(p) PROVE TypeOK'
    BY <2>8, ReturnTyped DEF NoBootedSlot, TypeOK
  <2>9. ASSUME NEW p \in Procs, WriteSome(p) PROVE TypeOK'
    BY <2>9, SpliceTyped DEF WriteSome, Overtaken, TypeOK
  <2>10. ASSUME NEW p \in Procs, WriteLast(p) PROVE TypeOK'
    <3>1. misc' \in BootCtrlT
      BY <2>10, SpliceTyped DEF WriteLast, TypeOK
    <3> QED
      BY <2>10, <3>1, LeaveTyped DEF WriteLast, Overtaken, TypeOK
  <2>11. ASSUME NEW p \in Procs, WriteFails(p) \/ WriteEnds(p) PROVE TypeOK'
    BY <2>11, ReturnTyped DEF WriteFails, WriteEnds, TypeOK
  <2>12. ASSUME NEW s \in Slots, Boot(s) PROVE TypeOK'
    <3>1. misc \in BootCtrlT /\ misc.slot_info[s] \in SlotInfo
      BY SlotTyped DEF TypeOK
    <3>2. misc.slot_info[s].successful_boot # 1 => misc.slot_info[s].tries_remaining > 0
      BY <2>12 DEF Boot, Bootable
    <3>3. misc' \in BootCtrlT
      BY <2>12, <3>1, <3>2, TriedTyped, WithSlotTyped DEF Boot
    <3> QED
      BY <2>12, <3>3, BlankTyped DEF Boot, TypeOK, Queries, Updates, Slots
  <2>13. CASE UNCHANGED vars
    BY <2>13 DEF vars, TypeOK
  <2> QED
    BY <2>1, <2>2, <2>3, <2>4, <2>5, <2>6, <2>7, <2>8, <2>9, <2>10, <2>11, <2>12, <2>13
       DEF Next, HalStep
<1> QED
  BY <1>1, <1>2, PTL DEF Spec

-----------------------------------------------------------------------------
(* What makes OneTop inductive: no transfer is half done and the copies of *)
(* the processes have the property too, since a copy that is written back  *)
(* becomes the partition.                                                  *)
CopiesTop == /\ \A p \in Procs : pos[p] = 0
             /\ \A p \in Procs : TopOnce(buf[p])

LEMMA SpliceAll ==
  ASSUME NEW a \in BootCtrlT, NEW b \in BootCtrlT
  PROVE  Splice(a, b, 0, NCells) = b
  BY DEF Splice, BootCtrlT, Slots

LEMMA UpdatedTop ==
  ASSUME NEW m \in BootCtrlT, NEW s \in Slots, NEW o \in Updates, TopOnce(m)
  PROVE  TopOnce(Updated(o, m, s))
  <1> USE DEF TopOnce, Slots
  <1>1. \A t \in Slots : m.slot_info[t].priority \in 0..15 /\ m.slot_info \in [Slots -> SlotInfo]
    BY DEF BootCtrlT, SlotInfo
  <1>2. TopOnce(Marked(m, s))
    BY <1>1 DEF Marked, WithSlot, Success
  <1>3. TopOnce(Activated(m, s))
    BY <1>1 DEF Activated, Lowered
  <1>4. TopOnce(Unbootable(m, s))
    BY <1>1 DEF Unbootable, WithSlot, Zeroed
  <1> QED
    BY <1>2, <1>3, <1>4 DEF Updated, Updates

LEMMA BlankTop == TopOnce(Blank)
  BY DEF TopOnce, Blank, Zeroed, Slots

(* With whole transfers, the partition never holds two slots of priority   *)
(* 15, for any number of processes and with reboots at any moment.         *)
THEOREM OneTopCorrect == Whole => (Spec => []OneTop)
<1> SUFFICES ASSUME Whole PROVE Spec => []OneTop
  OBVIOUS
<1> DEFINE IInv == TypeOK /\ CopiesTop /\ OneTop
<1>1. Init => CopiesTop /\ OneTop
  BY BlankTop DEF Init, CopiesTop, OneTop, TopOnce, FactoryB, Fresh, Lowered, Zeroed, Slots
<1>2. ASSUME IInv, [Next]_vars, TypeOK' PROVE (CopiesTop /\ OneTop)'
  <2> USE <1>2
  <2> SUFFICES ASSUME TRUE PROVE TopOnce(misc') /\ CopiesTop'
    BY DEF OneTop, TopOnce
  <2>r. ASSUME NEW p \in Procs, NEW r, Leave(p, r) PROVE CopiesTop'
    BY <2>r, BlankTop DEF Leave, CopiesTop, TypeOK, TopOnce
  <2>1. ASSUME NEW p \in Procs,
               \/ RejectSlot(p) \/ ReadFails(p) \/ ReadCorrupt(p) \/ ReadForQuery(p)
               \/ NoBootedSlot(p) \/ WriteFails(p) \/ WriteEnds(p)
        PROVE  TopOnce(misc') /\ CopiesTop'
    BY <2>1, <2>r DEF RejectSlot, ReadFails, ReadCorrupt, ReadForQuery, NoBootedSlot,
                      WriteFails, WriteEnds, Return, OneTop
  <2>2. ASSUME NEW p \in Procs, NEW o \in Updates \cup Queries, NEW s \in Slots, Call(p, o, s)
        PROVE  TopOnce(misc') /\ CopiesTop'
    BY <2>2 DEF Call, CopiesTop, OneTop, TopOnce
  <2>3. ASSUME NEW p \in Procs, ReadSome(p) \/ WriteSome(p) PROVE FALSE
    BY <2>3 DEF ReadSome, WriteSome
  <2>4. ASSUME NEW p \in Procs, ReadForUpdate(p) PROVE TopOnce(misc') /\ CopiesTop'
    <3>1. Splice(buf[p], misc, pos[p], NCells) = misc
      BY SpliceAll DEF TypeOK, CopiesTop
    <3>2. Target(p) \in Slots
      BY DEF Target, TypeOK
    <3>3. TopOnce(Updated(op[p], misc, Target(p)))
      BY <2>4, <3>2, UpdatedTop DEF TypeOK, OneTop, ReadForUpdate
    <3>4. /\ misc' = misc
          /\ buf' = [buf EXCEPT ![p] = Updated(op[p], misc, Target(p))]
          /\ pos' = [pos EXCEPT ![p] = 0]
      BY <2>4, <3>1 DEF ReadForUpdate
    <3>5. CopiesTop'
      BY <3>3, <3>4 DEF CopiesTop, TypeOK
    <3> QED
      BY <3>4, <3>5 DEF OneTop
  <2>5. ASSUME NEW p \in Procs, WriteLast(p) PROVE TopOnce(misc') /\ CopiesTop'
    <3>1. misc' = buf[p]
      BY <2>5, SpliceAll DEF WriteLast, TypeOK, CopiesTop
    <3> QED
      BY <2>5, <2>r, <3>1 DEF WriteLast, CopiesTop
  <2>6. ASSUME NEW s \in Slots, Boot(s) PROVE TopOnce(misc') /\ CopiesTop'
    <3>1. CopiesTop'
      BY <2>6, BlankTop DEF Boot, CopiesTop
    <3>2. TopOnce(WithSlot(misc, s, Tried(misc.slot_info[s])))
      BY DEF TopOnce, OneTop, WithSlot, Tried, TypeOK, BootCtrlT
    <3> QED
      BY <2>6, <3>1, <3>2 DEF Boot, OneTop
  <2>7. CASE UNCHANGED vars
    BY <2>7 DEF vars, CopiesTop, OneTop, TopOnce
  <2> QED
    BY <2>1, <2>2, <2>3, <2>4, <2>5, <2>6, <2>7 DEF Next, HalStep
<1> QED
  BY <1>1, <1>2, TypeCorrect, PTL DEF Spec

-----------------------------------------------------------------------------
Tidy(m) == \A s \in Slots :
  m.slot_info[s].successful_boot = 1 => m.slot_info[s].tries_remaining = 0

CopiesTidy == \A p \in Procs : Tidy(buf[p])

LEMMA UpdatedTidy ==
  ASSUME NEW m \in BootCtrlT, NEW s \in Slots, NEW o \in Updates, Tidy(m)
  PROVE  Tidy(Updated(o, m, s))
  <1> USE DEF Tidy, Slots
  <1>1. m.slot_info \in [Slots -> SlotInfo]
    BY DEF BootCtrlT
  <1>2. Tidy(Marked(m, s))
    BY <1>1 DEF Marked, WithSlot, Success
  <1>3. Tidy(Activated(m, s))
    BY <1>1 DEF Activated, Lowered, Fresh
  <1>4. Tidy(Unbootable(m, s))
    BY <1>1 DEF Unbootable, WithSlot, Zeroed
  <1> QED
    BY <1>2, <1>3, <1>4 DEF Updated, Updates

(* Tidiness is a property of each cell, so mixing cells keeps it.          *)
LEMMA SpliceTidy ==
  ASSUME NEW a, NEW b, NEW lo, NEW hi, Tidy(a), Tidy(b)
  PROVE  Tidy(Splice(a, b, lo, hi))
  BY DEF Tidy, Splice

LEMMA BlankTidy == Tidy(Blank)
  BY DEF Tidy, Blank, Zeroed

(* A slot marked successful has no tries left, for any number of processes *)
(* and whether or not transfers are whole.                                 *)
THEOREM NoTriesOnceSuccessfulCorrect == Spec => []NoTriesOnceSuccessful
<1> DEFINE IInv == TypeOK /\ CopiesTidy /\ NoTriesOnceSuccessful
<1>0. NoTriesOnceSuccessful = Tidy(misc)
  BY DEF NoTriesOnceSuccessful, Tidy
<1>1. Init => CopiesTidy /\ NoTriesOnceSuccessful
  BY <1>0, BlankTidy DEF Init, CopiesTidy, Tidy, FactoryB, Fresh, Lowered, Zeroed, Slots
<1>2. ASSUME IInv, [Next]_vars, TypeOK' PROVE (CopiesTidy /\ NoTriesOnceSuccessful)'
  <2> USE <1>2, <1>0
  <2> SUFFICES ASSUME TRUE PROVE CopiesTidy' /\ Tidy(misc')
    BY DEF NoTriesOnceSuccessful, Tidy
  <2>r. ASSUME NEW p \in Procs, NEW r, Leave(p, r) PROVE CopiesTidy'
    BY <2>r, BlankTidy DEF Leave, CopiesTidy, TypeOK, Tidy
  <2>1. ASSUME NEW p \in Procs,
               \/ RejectSlot(p) \/ ReadFails(p) \/ ReadCorrupt(p) \/ ReadForQuery(p)
               \/ NoBootedSlot(p) \/ WriteFails(p) \/ WriteEnds(p)
        PROVE  CopiesTidy' /\ Tidy(misc')
    BY <2>1, <2>r DEF RejectSlot, ReadFails, ReadCorrupt, ReadForQuery, NoBootedSlot, WriteFails,
                      WriteEnds, Return
  <2>2. ASSUME NEW p \in Procs, NEW o \in Updates \cup Queries, NEW s \in Slots, Call(p, o, s)
        PROVE  CopiesTidy' /\ Tidy(misc')
    BY <2>2 DEF Call, CopiesTidy, Tidy
  <2>3. ASSUME NEW p \in Procs, ReadSome(p) PROVE CopiesTidy' /\ Tidy(misc')
    <3>1. PICK n : buf' = [buf EXCEPT ![p] = Splice(buf[p], misc, pos[p], n)] /\ misc' = misc
      BY <2>3 DEF ReadSome
    <3>2. Tidy(Splice(buf[p], misc, pos[p], n))
      BY SpliceTidy DEF CopiesTidy
    <3> QED
      BY <3>1, <3>2 DEF CopiesTidy, TypeOK
  <2>4. ASSUME NEW p \in Procs, ReadForUpdate(p) PROVE CopiesTidy' /\ Tidy(misc')
    <3> DEFINE m == Splice(buf[p], misc, pos[p], NCells)
    <3>1. m \in BootCtrlT /\ Tidy(m)
      BY SpliceTyped, SpliceTidy DEF TypeOK, CopiesTidy
    <3>2. Target(p) \in Slots
      BY DEF Target, TypeOK
    <3>3. Tidy(Updated(op[p], m, Target(p)))
      BY <2>4, <3>1, <3>2, UpdatedTidy DEF ReadForUpdate
    <3>4. buf' = [buf EXCEPT ![p] = Updated(op[p], m, Target(p))] /\ misc' = misc
      BY <2>4 DEF ReadForUpdate
    <3> QED
      BY <3>3, <3>4 DEF CopiesTidy, TypeOK
  <2>5. ASSUME NEW p \in Procs, WriteSome(p) PROVE CopiesTidy' /\ Tidy(misc')
    BY <2>5, SpliceTidy DEF WriteSome, CopiesTidy
  <2>6. ASSUME NEW p \in Procs, WriteLast(p) PROVE CopiesTidy' /\ Tidy(misc')
    BY <2>6, <2>r, SpliceTidy DEF WriteLast, CopiesTidy
  <2>7. ASSUME NEW s \in Slots, Boot(s) PROVE CopiesTidy' /\ Tidy(misc')
    <3>1. CopiesTidy'
      BY <2>7, BlankTidy DEF Boot, CopiesTidy
    <3>2. misc.slot_info[s].successful_boot # 1 => Tidy(WithSlot(misc, s, Tried(misc.slot_info[s])))
      BY DEF Tidy, WithSlot, Tried, TypeOK, BootCtrlT
    <3> QED
      BY <2>7, <3>1, <3>2 DEF Boot
  <2>8. CASE UNCHANGED vars
    BY <2>8 DEF vars, CopiesTidy, Tidy
  <2> QED
    BY <2>1, <2>2, <2>3, <2>4, <2>5, <2>6, <2>7, <2>8 DEF Next, HalStep
<1> QED
  BY <1>1, <1>2, TypeCorrect, PTL DEF Spec

-----------------------------------------------------------------------------
(* A copy that is about to be written is the update of a table that the    *)
(* partition has held, and of the one it holds now unless another write    *)
(* has overtaken the call.                                                 *)
CopyIsUpdate(p, m) ==
  /\ buf[p] = Updated(op[p], m, arg[p])
  /\ p \notin late => m = misc

CopyIsCurrent ==
  /\ \A p \in Procs : pos[p] = 0
  /\ \A p \in Procs : pc[p] # "idle" /\ op[p] \in Updates => p \in Updaters
  /\ late \subseteq {p \in Procs : pc[p] = "writing"}
  /\ \A p \in Procs : pc[p] = "writing" =>
       /\ op[p] \in Updates
       /\ op[p] = "mark_boot_successful" => arg[p] = booted
       /\ \E m \in BootCtrlT : CopyIsUpdate(p, m)

LEMMA CopyIsCurrentInvariant ==
  ASSUME Whole PROVE Spec => []CopyIsCurrent
<1>1. Init => CopyIsCurrent
  BY DEF Init, CopyIsCurrent, Updates
<1>2. ASSUME TypeOK, CopyIsCurrent, [Next]_vars PROVE CopyIsCurrent'
  <2> USE <1>2
  <2>r. ASSUME NEW p \in Procs, NEW r, Leave(p, r), UNCHANGED booted,
               \/ misc' = misc /\ late' = late \ {p}
               \/ late' = {q \in Procs \ {p} : pc[q] = "writing"}
        PROVE  CopyIsCurrent'
    <3>1. /\ pc' = [pc EXCEPT ![p] = "idle"]
          /\ op' = [op EXCEPT ![p] = "get_current_slot"]
          /\ pos' = [pos EXCEPT ![p] = 0]
          /\ arg' = [arg EXCEPT ![p] = 0]
          /\ buf' = [buf EXCEPT ![p] = Blank]
      BY <2>r DEF Leave
    <3>2. \A q \in Procs \ {p} : /\ pc'[q] = pc[q] /\ op'[q] = op[q] /\ pos'[q] = pos[q]
                                 /\ arg'[q] = arg[q] /\ buf'[q] = buf[q]
      BY <3>1 DEF TypeOK
    <3>3. pc'[p] = "idle" /\ op'[p] = "get_current_slot" /\ pos'[p] = 0
      BY <3>1 DEF TypeOK
    <3>4. late' \subseteq {q \in Procs : pc'[q] = "writing"}
      BY <2>r, <3>2 DEF CopyIsCurrent
    <3>5. ASSUME NEW q \in Procs \ {p}, pc[q] = "writing"
          PROVE  \E m \in BootCtrlT : CopyIsUpdate(q, m)'
      <4>1. PICK m \in BootCtrlT : CopyIsUpdate(q, m)
        BY <3>5 DEF CopyIsCurrent
      <4>2. q \notin late' => misc' = misc /\ q \notin late
        BY <2>r, <3>5
      <4> QED
        BY <3>2, <4>1, <4>2 DEF CopyIsUpdate
    <3> QED
      BY <2>r, <3>2, <3>3, <3>4, <3>5 DEF CopyIsCurrent, Updates
  <2>1. ASSUME NEW p \in Procs,
               \/ RejectSlot(p) \/ ReadFails(p) \/ ReadCorrupt(p) \/ ReadForQuery(p)
               \/ NoBootedSlot(p) \/ WriteFails(p) \/ WriteEnds(p)
        PROVE  CopyIsCurrent'
    BY <2>1, <2>r DEF RejectSlot, ReadFails, ReadCorrupt, ReadForQuery, NoBootedSlot, WriteFails,
                      WriteEnds, Return
  <2>2. ASSUME NEW p \in Procs, NEW o \in Updates \cup Queries, NEW s \in Slots, Call(p, o, s)
        PROVE  CopyIsCurrent'
    BY <2>2 DEF Call, CopyIsCurrent, CopyIsUpdate, TypeOK
  <2>3. ASSUME NEW p \in Procs, ReadSome(p) \/ WriteSome(p) PROVE FALSE
    BY <2>3, Whole DEF ReadSome, WriteSome
  <2>4. ASSUME NEW p \in Procs, ReadForUpdate(p) PROVE CopyIsCurrent'
    <3>1. Splice(buf[p], misc, pos[p], NCells) = misc
      BY SpliceAll DEF TypeOK, CopyIsCurrent
    <3>2. /\ buf' = [buf EXCEPT ![p] = Updated(op[p], misc, Target(p))]
          /\ arg' = [arg EXCEPT ![p] = Target(p)]
          /\ pc' = [pc EXCEPT ![p] = "writing"]
          /\ pos' = [pos EXCEPT ![p] = 0]
          /\ UNCHANGED <<misc, booted, op, late>>
          /\ pc[p] = "reading" /\ op[p] \in Updates
      BY <2>4, <3>1 DEF ReadForUpdate
    <3>3. op[p] = "mark_boot_successful" => Target(p) = booted
      BY DEF Target
    <3>4. misc \in BootCtrlT /\ CopyIsUpdate(p, misc)'
      BY <3>2 DEF CopyIsUpdate, TypeOK
    <3>5. ASSUME NEW q \in Procs \ {p}, NEW m \in BootCtrlT, CopyIsUpdate(q, m)
          PROVE  CopyIsUpdate(q, m)'
      BY <3>2, <3>5 DEF CopyIsUpdate, TypeOK
    <3>6. ASSUME NEW q \in Procs, pc'[q] = "writing"
          PROVE  \E m \in BootCtrlT : CopyIsUpdate(q, m)'
      <4>1. CASE q = p
        BY <3>2, <3>4, <4>1
      <4>2. CASE q # p
        BY <3>2, <3>5, <3>6, <4>2 DEF CopyIsCurrent, TypeOK
      <4> QED
        BY <4>1, <4>2
    <3> QED
      BY <3>2, <3>3, <3>6 DEF CopyIsCurrent, TypeOK
  <2>5. ASSUME NEW p \in Procs, WriteLast(p) PROVE CopyIsCurrent'
    <3>1. late' = {q \in Procs \ {p} : pc[q] = "writing"}
      BY <2>5 DEF WriteLast, Overtaken, CopyIsCurrent
    <3> QED
      BY <2>5, <2>r, <3>1 DEF WriteLast
  <2>6. ASSUME NEW s \in Slots, Boot(s) PROVE CopyIsCurrent'
    BY <2>6 DEF Boot, CopyIsCurrent, Updates
  <2>7. CASE UNCHANGED vars
    BY <2>7 DEF vars, CopyIsCurrent, CopyIsUpdate
  <2> QED
    BY <2>1, <2>2, <2>3, <2>4, <2>5, <2>6, <2>7 DEF Next, HalStep
<1> QED
  BY <1>1, <1>2, TypeCorrect, PTL DEF Spec

(* Writing the update of m is the update that the specification names: in  *)
(* full if m is the table of the partition, and to its own slot otherwise. *)
LEMMA UpdateImplements ==
  ASSUME TypeOK, NEW p \in Updaters, p \in Procs, NEW o \in Updates, NEW s \in Slots,
         NEW m \in BootCtrlT, p \notin late => m = misc, misc' \in BootCtrlT,
         o = "mark_boot_successful" => s = booted,
         misc' = Updated(o, m, s), ret' = [ret EXCEPT ![p] = 0], booted' = booted,
         late \ {p} \subseteq late', late' \subseteq Procs \ {p}
  PROVE  Abs!AbsNext
  <1>1. m.slot_info \in [Slots -> SlotInfo] /\ booted \in Slots
    BY DEF TypeOK, BootCtrlT
  <1>0. Abs!UpdateDone(p)
    <2>1. misc'.slot_info \in [Slots -> SlotInfo]
      BY DEF BootCtrlT
    <2> QED
      BY <2>1 DEF Abs!UpdateDone, Abs!Answer, Abs!Slots, Slots, Abs!SlotInfo, SlotInfo
  <1>2. CASE o = "mark_boot_successful"
    <2>1. misc'.slot_info = [m.slot_info EXCEPT ![booted] = Success(m.slot_info[booted])]
      BY <1>2 DEF Updated, Marked, WithSlot
    <2>2. Abs!MarkSuccessful(p)
      BY <1>0, <1>1, <2>1 DEF Abs!MarkSuccessful, Abs!Other, Success, Slots
    <2> QED
      BY <2>2 DEF Abs!AbsNext
  <1>3. CASE o = "set_active_boot_slot"
    <2>1. misc'.slot_info =
            [t \in Slots |-> IF t = s THEN Fresh ELSE Lowered(m.slot_info[t])]
      BY <1>3 DEF Updated, Activated
    <2>2. \A t \in Slots : m.slot_info[t].priority \in 0..15
      BY <1>1 DEF SlotInfo
    <2>3. Abs!SetActive(p, s)
      BY <1>0, <1>1, <2>1, <2>2
         DEF Abs!SetActive, Abs!Other, Fresh, Lowered, Slots
    <2> QED
      BY <2>3 DEF Abs!AbsNext, Abs!Slots, Slots
  <1>4. CASE o = "set_slot_as_unbootable"
    <2>1. misc'.slot_info = [m.slot_info EXCEPT ![s] = Zeroed]
      BY <1>4 DEF Updated, Unbootable, WithSlot
    <2>2. Abs!SetUnbootable(p, s)
      BY <1>0, <1>1, <2>1 DEF Abs!SetUnbootable, Abs!Other, Zeroed, Slots
    <2> QED
      BY <2>2 DEF Abs!AbsNext, Abs!Slots, Slots
  <1> QED
    BY <1>2, <1>3, <1>4 DEF Updates

(* With whole transfers, and any number of processes that update at once,  *)
(* the HAL implements the slot table: a call that nobody overtakes takes   *)
(* effect at one instant or not at all, and one that is overtaken still    *)
(* does to its own slot what it was asked to.                              *)
THEOREM Refinement == Whole => (Spec => CallsAreAtomic)
<1> SUFFICES ASSUME Whole PROVE Spec => CallsAreAtomic
  OBVIOUS
<1>1. Init => Abs!AbsInit
  <2> SUFFICES ASSUME Init PROVE Abs!AbsInit
    OBVIOUS
  <2>1. misc.slot_info \in [Slots -> SlotInfo]
    BY FreshTyped, LoweredTyped DEF Init, FactoryB
  <2> QED
    BY <2>1 DEF Init, Abs!AbsInit, Abs!Slots, Slots, Abs!SlotInfo, SlotInfo
<1>2. ASSUME TypeOK, TypeOK', CopyIsCurrent, [Next]_vars PROVE [Abs!AbsNext]_(Abs!absVars)
  <2> USE <1>2
  <2>1. ASSUME NEW p \in Procs,
               \/ RejectSlot(p) \/ ReadFails(p) \/ ReadCorrupt(p)
               \/ NoBootedSlot(p) \/ WriteFails(p)
        PROVE  Abs!AbsNext
    <3>1. Abs!Fail(p)
      BY <2>1 DEF RejectSlot, ReadFails, ReadCorrupt, NoBootedSlot, WriteFails, Return, Leave,
                  Abs!Fail, Abs!Failures, Abs!Answer
    <3> QED
      BY <3>1 DEF Abs!AbsNext
  <2>2. ASSUME NEW p \in Procs, ReadForQuery(p) PROVE Abs!AbsNext
    <3>1. Splice(buf[p], misc, pos[p], NCells) = misc
      BY SpliceAll DEF TypeOK, CopyIsCurrent
    <3>2. /\ ret' = [ret EXCEPT ![p] = Result(op[p], misc, arg[p])]
          /\ op[p] \in Queries /\ arg[p] \in Slots
          /\ late' = late \ {p}
          /\ UNCHANGED <<misc, booted>>
      BY <2>2, <3>1 DEF ReadForQuery, Return, Leave, TypeOK
    <3>3. Abs!Query(p)
      BY <3>2 DEF Abs!Query, Abs!Answer, Abs!Slots, Slots, Result, Queries
    <3> QED
      BY <3>3 DEF Abs!AbsNext
  <2>3. ASSUME NEW p \in Procs, ReadForUpdate(p) PROVE UNCHANGED Abs!absVars
    BY <2>3 DEF ReadForUpdate, Abs!absVars
  <2>4. ASSUME NEW p \in Procs, NEW o \in Updates \cup Queries, NEW s \in Slots, Call(p, o, s)
        PROVE  UNCHANGED Abs!absVars
    BY <2>4 DEF Call, Abs!absVars
  <2>5. ASSUME NEW p \in Procs, ReadSome(p) \/ WriteSome(p) \/ WriteEnds(p) PROVE FALSE
    BY <2>5, Whole DEF ReadSome, WriteSome, WriteEnds
  <2>6. ASSUME NEW p \in Procs, WriteLast(p) PROVE Abs!AbsNext
    <3>1. /\ misc' = buf[p] /\ ret' = [ret EXCEPT ![p] = 0] /\ booted' = booted
          /\ late \ {p} \subseteq late' /\ late' \subseteq Procs \ {p}
      BY <2>6, SpliceAll DEF WriteLast, Leave, Overtaken, TypeOK, CopyIsCurrent
    <3>2. /\ op[p] \in Updates /\ p \in Updaters /\ arg[p] \in Slots
          /\ op[p] = "mark_boot_successful" => arg[p] = booted
          /\ \E m \in BootCtrlT : CopyIsUpdate(p, m)
      BY <2>6 DEF WriteLast, CopyIsCurrent, TypeOK
    <3>3. PICK m \in BootCtrlT : buf[p] = Updated(op[p], m, arg[p]) /\ (p \notin late => m = misc)
      BY <3>2 DEF CopyIsUpdate
    <3>4. misc' \in BootCtrlT
      BY DEF TypeOK
    <3> QED
      BY <3>1, <3>2, <3>3, <3>4, UpdateImplements
  <2>7. ASSUME NEW s \in Slots, Boot(s) PROVE Abs!AbsNext
    <3> DEFINE i == misc.slot_info[s]
    <3>1. misc.slot_info \in [Slots -> SlotInfo] /\ i \in SlotInfo
      BY DEF TypeOK, BootCtrlT
    <3>2. WithSlot(misc, s, Tried(i)).slot_info
            = [misc.slot_info EXCEPT ![s].tries_remaining = @ - 1]
      BY <3>1 DEF WithSlot, Tried, SlotInfo
    <3>3. Abs!Restart(s)
      BY <2>7, <3>2 DEF Boot, Bootable, Abs!Restart
    <3> QED
      BY <3>3 DEF Abs!AbsNext, Abs!Slots, Slots
  <2>8. CASE UNCHANGED vars
    BY <2>8 DEF vars, Abs!absVars
  <2> QED
    BY <2>1, <2>2, <2>3, <2>4, <2>5, <2>6, <2>7, <2>8 DEF Next, HalStep
<1> QED
  BY <1>1, <1>2, TypeCorrect, CopyIsCurrentInvariant, PTL DEF Spec, Abs!AbsSpec, CallsAreAtomic

-----------------------------------------------------------------------------
OneUpdater == \A p, q \in Updaters : p = q

(* With a single updating process but with short transfers, a copy that    *)
(* activates or marks a slot has a priority wherever the partition has     *)
(* one: as far as it has been read, and all of it once it is written.      *)
Kept(m, p, s) == m.slot_info[s].priority # 0 => buf[p].slot_info[s].priority # 0

CopyKeeps ==
  /\ \A p \in Procs : pc[p] # "idle" /\ op[p] \in Updates => p \in Updaters
  /\ \A p \in Procs : pc[p] = "writing" => op[p] \in Updates
  /\ \A p \in Procs : pc[p] = "idle" => pos[p] = 0
  /\ \A p \in Procs, s \in Slots :
       /\ pc[p] = "reading" /\ op[p] \in Updates /\ s + 1 < pos[p] => Kept(misc, p, s)
       /\ pc[p] = "writing" /\ op[p] # "set_slot_as_unbootable" => Kept(misc, p, s)

(* Only setSlotAsUnbootable takes a priority away.                         *)
LEMMA UpdatedKeeps ==
  ASSUME NEW m \in BootCtrlT, NEW s \in Slots, NEW t \in Slots,
         NEW o \in Updates \ {"set_slot_as_unbootable"}, m.slot_info[t].priority # 0
  PROVE  Updated(o, m, s).slot_info[t].priority # 0
<1>1. m.slot_info \in [Slots -> SlotInfo] /\ m.slot_info[t] \in SlotInfo
  BY DEF BootCtrlT
<1>2. Marked(m, s).slot_info[t].priority # 0
  BY <1>1 DEF Marked, WithSlot, Success
<1>3. Activated(m, s).slot_info[t].priority # 0
  BY <1>1 DEF Activated, Fresh, Lowered, SlotInfo
<1> QED
  BY <1>2, <1>3 DEF Updated, Updates

(* What a transfer leaves in a slot is one of the two.                     *)
LEMMA SpliceSlot ==
  ASSUME NEW a, NEW b, NEW lo, NEW hi, NEW s \in Slots
  PROVE  Splice(a, b, lo, hi).slot_info[s]
           = IF lo <= s + 1 /\ s + 1 < hi THEN b.slot_info[s] ELSE a.slot_info[s]
BY DEF Splice

(* The one updating process is alone on the partition while it writes.     *)
LEMMA WriterAlone ==
  ASSUME OneUpdater, CopyKeeps, NEW p \in Procs, pc[p] = "writing",
         NEW q \in Procs, pc[q] # "idle", op[q] \in Updates
  PROVE  q = p
BY DEF OneUpdater, CopyKeeps

LEMMA CopyKeepsInvariant ==
  ASSUME OneUpdater PROVE Spec => []CopyKeeps
<1>1. Init => CopyKeeps
  BY DEF Init, CopyKeeps, Updates
<1>2. ASSUME TypeOK, CopyKeeps, [Next]_vars PROVE CopyKeeps'
  <2> USE <1>2
  <2>r. ASSUME NEW p \in Procs, NEW r, Leave(p, r),
               misc' = misc \/ pc[p] = "writing"
        PROVE  CopyKeeps'
    <3>1. /\ pc' = [pc EXCEPT ![p] = "idle"] /\ op' = [op EXCEPT ![p] = "get_current_slot"]
          /\ pos' = [pos EXCEPT ![p] = 0] /\ buf' = [buf EXCEPT ![p] = Blank]
      BY <2>r DEF Leave
    <3>2. CASE misc' = misc
      BY <3>1, <3>2 DEF CopyKeeps, Kept, TypeOK, Updates
    <3>3. CASE pc[p] = "writing"
      <4>1. \A q \in Procs \ {p} : pc[q] = "idle" \/ op[q] \notin Updates
        BY <3>3, WriterAlone
      <4> QED
        BY <3>1, <4>1 DEF CopyKeeps, TypeOK, Updates
    <3> QED
      BY <2>r, <3>2, <3>3
  <2>1. ASSUME NEW p \in Procs,
               \/ RejectSlot(p) \/ ReadFails(p) \/ ReadCorrupt(p) \/ ReadForQuery(p)
               \/ NoBootedSlot(p) \/ WriteFails(p) \/ WriteEnds(p) \/ WriteLast(p)
        PROVE  CopyKeeps'
    BY <2>1, <2>r DEF RejectSlot, ReadFails, ReadCorrupt, ReadForQuery, NoBootedSlot, WriteFails,
                      WriteEnds, Return, WriteLast
  <2>2. ASSUME NEW p \in Procs, NEW o \in Updates \cup Queries, NEW s \in Slots, Call(p, o, s)
        PROVE  CopyKeeps'
    BY <2>2 DEF Call, CopyKeeps, Kept, TypeOK, Slots
  <2>3. ASSUME NEW p \in Procs, ReadSome(p) PROVE CopyKeeps'
    <3>1. PICK n \in (pos[p] + 1)..(NCells - 1) :
            /\ buf' = [buf EXCEPT ![p] = Splice(@, misc, pos[p], n)]
            /\ pos' = [pos EXCEPT ![p] = n]
      BY <2>3 DEF ReadSome
    <3>2. UNCHANGED <<misc, pc, op>> /\ pc[p] = "reading"
      BY <2>3 DEF ReadSome
    <3>3. ASSUME NEW s \in Slots, op[p] \in Updates, s + 1 < n PROVE Kept(misc, p, s)'
      <4>1. buf'[p].slot_info[s] = IF pos[p] <= s + 1 /\ s + 1 < n THEN misc.slot_info[s]
                                                                 ELSE buf[p].slot_info[s]
        BY <3>1, SpliceSlot DEF TypeOK
      <4>2. pos[p] <= s + 1 \/ s + 1 < pos[p]
        BY DEF TypeOK, Slots, NCells
      <4> QED
        BY <3>2, <3>3, <4>1, <4>2 DEF CopyKeeps, Kept
    <3> QED
      BY <3>1, <3>2, <3>3 DEF CopyKeeps, Kept, TypeOK
  <2>4. ASSUME NEW p \in Procs, ReadForUpdate(p) PROVE CopyKeeps'
    <3> DEFINE m == Splice(buf[p], misc, pos[p], NCells)
    <3>1. /\ buf' = [buf EXCEPT ![p] = Updated(op[p], m, Target(p))]
          /\ pc' = [pc EXCEPT ![p] = "writing"]
          /\ pos' = [pos EXCEPT ![p] = 0]
          /\ UNCHANGED <<misc, op>>
          /\ pc[p] = "reading" /\ op[p] \in Updates
      BY <2>4 DEF ReadForUpdate
    <3>2. m \in BootCtrlT /\ Target(p) \in Slots
      BY SpliceTyped DEF TypeOK, Target
    <3>3. ASSUME NEW s \in Slots, op[p] # "set_slot_as_unbootable" PROVE Kept(misc, p, s)'
      <4>1. m.slot_info[s] = IF pos[p] <= s + 1 /\ s + 1 < NCells THEN misc.slot_info[s]
                                                                ELSE buf[p].slot_info[s]
        BY SpliceSlot
      <4>2. s + 1 < NCells /\ (pos[p] <= s + 1 \/ s + 1 < pos[p])
        BY DEF TypeOK, Slots, NCells
      <4>3. misc.slot_info[s].priority # 0 => m.slot_info[s].priority # 0
        BY <3>1, <4>1, <4>2 DEF CopyKeeps, Kept
      <4>4. buf'[p] = Updated(op[p], m, Target(p))
        BY <3>1 DEF TypeOK
      <4> QED
        BY <3>1, <3>2, <3>3, <4>3, <4>4, UpdatedKeeps DEF Kept
    <3> QED
      BY <3>1, <3>3 DEF CopyKeeps, Kept, TypeOK
  <2>5. ASSUME NEW p \in Procs, WriteSome(p) PROVE CopyKeeps'
    <3>1. PICK n \in (pos[p] + 1)..(NCells - 1) :
            misc' = Splice(misc, buf[p], pos[p], n) /\ pos' = [pos EXCEPT ![p] = n]
      BY <2>5 DEF WriteSome
    <3>2. UNCHANGED <<pc, op, buf>> /\ pc[p] = "writing"
      BY <2>5 DEF WriteSome
    <3>3. \A q \in Procs \ {p} : pc[q] = "idle" \/ op[q] \notin Updates
      BY <3>2, WriterAlone
    <3>4. ASSUME NEW s \in Slots, op[p] # "set_slot_as_unbootable" PROVE Kept(misc, p, s)'
      <4>1. misc'.slot_info[s] = buf[p].slot_info[s] \/ misc'.slot_info[s] = misc.slot_info[s]
        BY <3>1, SpliceSlot
      <4> QED
        BY <3>2, <3>4, <4>1 DEF CopyKeeps, Kept
    <3> QED
      BY <3>1, <3>2, <3>3, <3>4 DEF CopyKeeps
  <2>6. ASSUME NEW s \in Slots, Boot(s) PROVE CopyKeeps'
    BY <2>6 DEF Boot, CopyKeeps, Updates
  <2>7. CASE UNCHANGED vars
    BY <2>7 DEF vars, CopyKeeps, Kept
  <2> QED
    BY <2>1, <2>2, <2>3, <2>4, <2>5, <2>6, <2>7 DEF Next, HalStep
<1> QED
  BY <1>1, <1>2, TypeCorrect, PTL DEF Spec

(* With one updating process the table loses its last priority only to     *)
(* setSlotAsUnbootable, however transfers are cut short.                   *)
THEOREM NeverStrandedCorrect == OneUpdater => (Spec => NeverStranded)
<1> SUFFICES ASSUME OneUpdater PROVE Spec => NeverStranded
  OBVIOUS
<1> DEFINE Taken == \E p \in Procs : op[p] = "set_slot_as_unbootable" /\ pc[p] = "writing"
<1>1. ASSUME TypeOK, CopyKeeps, Next, HasPriority(misc), ~Taken PROVE HasPriority(misc')
  <2> USE <1>1
  <2>1. PICK t \in Slots : misc.slot_info[t].priority # 0
    BY DEF HasPriority
  <2>2. ASSUME NEW p \in Procs, pc[p] = "writing", NEW lo, NEW hi, misc' = Splice(misc, buf[p], lo, hi)
        PROVE  HasPriority(misc')
    <3>1. buf[p].slot_info[t].priority # 0
      BY <2>1, <2>2 DEF CopyKeeps, Kept
    <3>2. misc'.slot_info[t] = buf[p].slot_info[t] \/ misc'.slot_info[t] = misc.slot_info[t]
      BY <2>2, SpliceSlot
    <3> QED
      BY <2>1, <3>1, <3>2 DEF HasPriority
  <2>3. ASSUME NEW s \in Slots, Boot(s) PROVE HasPriority(misc')
    <3>1. misc'.slot_info[t].priority = misc.slot_info[t].priority
      BY <2>3 DEF Boot, WithSlot, Tried, TypeOK, BootCtrlT
    <3> QED
      BY <2>1, <3>1 DEF HasPriority
  <2>4. ASSUME NEW p \in Procs, HalStep(p) PROVE HasPriority(misc')
    <3>1. CASE WriteSome(p) \/ WriteLast(p)
      BY <2>2, <3>1 DEF WriteSome, WriteLast
    <3>2. CASE UNCHANGED misc
      BY <2>1, <3>2 DEF HasPriority
    <3> QED
      BY <2>4, <3>1, <3>2
         DEF HalStep, RejectSlot, Call, ReadFails, ReadSome, ReadCorrupt, ReadForQuery, ReadForUpdate,
             NoBootedSlot, WriteFails, WriteEnds
  <2> QED
    BY <2>3, <2>4 DEF Next
<1>2. TypeOK /\ CopyKeeps /\ [Next]_vars => [HasPriority(misc) /\ ~HasPriority(misc') => Taken]_vars
  BY <1>1
<1> QED
  BY <1>2, TypeCorrect, CopyKeepsInvariant, PTL DEF Spec, NeverStranded
-----------------------------------------------------------------------------
(* With a single updating process, a copy that marks a slot has every      *)
(* priority of the partition as it is: as far as it has been read, and all *)
(* of it once it is written.                                               *)
SamePriority(m, p, s) == buf[p].slot_info[s].priority = m.slot_info[s].priority

Marking(p) == op[p] = "mark_boot_successful"

CopyMarks ==
  \A p \in Procs, s \in Slots : Marking(p) =>
    /\ pc[p] = "reading" /\ s + 1 < pos[p] => SamePriority(misc, p, s)
    /\ pc[p] = "writing" => SamePriority(misc, p, s)

LEMMA MarkedPriority ==
  ASSUME NEW m \in BootCtrlT, NEW s \in Slots, NEW t \in Slots
  PROVE  Updated("mark_boot_successful", m, s).slot_info[t].priority = m.slot_info[t].priority
BY DEF Updated, Marked, WithSlot, Success, BootCtrlT

LEMMA CopyMarksInvariant ==
  ASSUME OneUpdater PROVE Spec => []CopyMarks
<1> USE DEF Marking
<1>1. Init => CopyMarks
  BY DEF Init, CopyMarks
<1>2. ASSUME TypeOK, CopyKeeps, CopyMarks, [Next]_vars PROVE CopyMarks'
  <2> USE <1>2
  <2>r. ASSUME NEW p \in Procs, NEW r, Leave(p, r),
               misc' = misc \/ pc[p] = "writing"
        PROVE  CopyMarks'
    <3>1. /\ pc' = [pc EXCEPT ![p] = "idle"] /\ op' = [op EXCEPT ![p] = "get_current_slot"]
          /\ pos' = [pos EXCEPT ![p] = 0] /\ buf' = [buf EXCEPT ![p] = Blank]
      BY <2>r DEF Leave
    <3>2. CASE misc' = misc
      BY <3>1, <3>2 DEF CopyMarks, SamePriority, TypeOK
    <3>3. CASE pc[p] = "writing"
      <4>1. \A q \in Procs \ {p} : pc[q] = "idle" \/ op[q] \notin Updates
        BY <3>3, WriterAlone
      <4> QED
        BY <3>1, <4>1 DEF CopyMarks, TypeOK, Updates
    <3> QED
      BY <2>r, <3>2, <3>3
  <2>1. ASSUME NEW p \in Procs,
               \/ RejectSlot(p) \/ ReadFails(p) \/ ReadCorrupt(p) \/ ReadForQuery(p)
               \/ NoBootedSlot(p) \/ WriteFails(p) \/ WriteEnds(p) \/ WriteLast(p)
        PROVE  CopyMarks'
    BY <2>1, <2>r DEF RejectSlot, ReadFails, ReadCorrupt, ReadForQuery, NoBootedSlot, WriteFails,
                      WriteEnds, Return, WriteLast
  <2>2. ASSUME NEW p \in Procs, NEW o \in Updates \cup Queries, NEW s \in Slots, Call(p, o, s)
        PROVE  CopyMarks'
    <3>1. pos[p] = 0
      BY <2>2 DEF Call, CopyKeeps
    <3> QED
      BY <2>2, <3>1 DEF Call, CopyMarks, SamePriority, TypeOK, Slots
  <2>3. ASSUME NEW p \in Procs, ReadSome(p) PROVE CopyMarks'
    <3>1. PICK n \in (pos[p] + 1)..(NCells - 1) :
            /\ buf' = [buf EXCEPT ![p] = Splice(@, misc, pos[p], n)]
            /\ pos' = [pos EXCEPT ![p] = n]
      BY <2>3 DEF ReadSome
    <3>2. UNCHANGED <<misc, pc, op>> /\ pc[p] = "reading"
      BY <2>3 DEF ReadSome
    <3>3. ASSUME NEW s \in Slots, Marking(p), s + 1 < n PROVE SamePriority(misc, p, s)'
      <4>1. buf'[p].slot_info[s] = IF pos[p] <= s + 1 /\ s + 1 < n THEN misc.slot_info[s]
                                                                 ELSE buf[p].slot_info[s]
        BY <3>1, SpliceSlot DEF TypeOK
      <4>2. pos[p] <= s + 1 \/ s + 1 < pos[p]
        BY DEF TypeOK, Slots, NCells
      <4> QED
        BY <3>2, <3>3, <4>1, <4>2 DEF CopyMarks, SamePriority
    <3> QED
      BY <3>1, <3>2, <3>3 DEF CopyMarks, SamePriority, TypeOK
  <2>4. ASSUME NEW p \in Procs, ReadForUpdate(p) PROVE CopyMarks'
    <3> DEFINE m == Splice(buf[p], misc, pos[p], NCells)
    <3>1. /\ buf' = [buf EXCEPT ![p] = Updated(op[p], m, Target(p))]
          /\ pc' = [pc EXCEPT ![p] = "writing"]
          /\ UNCHANGED <<misc, op>> /\ pos' = [pos EXCEPT ![p] = 0]
          /\ pc[p] = "reading"
      BY <2>4 DEF ReadForUpdate
    <3>2. m \in BootCtrlT /\ Target(p) \in Slots
      BY SpliceTyped DEF TypeOK, Target
    <3>3. ASSUME NEW s \in Slots, Marking(p) PROVE SamePriority(misc, p, s)'
      <4>1. m.slot_info[s] = IF pos[p] <= s + 1 /\ s + 1 < NCells THEN misc.slot_info[s]
                                                                ELSE buf[p].slot_info[s]
        BY SpliceSlot
      <4>2. s + 1 < NCells /\ (pos[p] <= s + 1 \/ s + 1 < pos[p])
        BY DEF TypeOK, Slots, NCells
      <4>3. m.slot_info[s].priority = misc.slot_info[s].priority
        BY <3>1, <3>3, <4>1, <4>2 DEF CopyMarks, SamePriority
      <4>4. buf'[p] = Updated("mark_boot_successful", m, Target(p))
        BY <3>1, <3>3 DEF TypeOK
      <4> QED
        BY <3>1, <3>2, <4>3, <4>4, MarkedPriority DEF SamePriority
    <3> QED
      BY <3>1, <3>3 DEF CopyMarks, SamePriority, TypeOK
  <2>5. ASSUME NEW p \in Procs, WriteSome(p) PROVE CopyMarks'
    <3>1. PICK n \in (pos[p] + 1)..(NCells - 1) :
            misc' = Splice(misc, buf[p], pos[p], n) /\ pos' = [pos EXCEPT ![p] = n]
      BY <2>5 DEF WriteSome
    <3>2. UNCHANGED <<pc, op, buf>> /\ pc[p] = "writing"
      BY <2>5 DEF WriteSome
    <3>3. \A q \in Procs \ {p} : pc[q] = "idle" \/ op[q] \notin Updates
      BY <3>2, WriterAlone
    <3>4. ASSUME NEW s \in Slots, Marking(p) PROVE SamePriority(misc, p, s)'
      <4>1. misc'.slot_info[s] = buf[p].slot_info[s] \/ misc'.slot_info[s] = misc.slot_info[s]
        BY <3>1, SpliceSlot
      <4> QED
        BY <3>2, <3>4, <4>1 DEF CopyMarks, SamePriority
    <3> QED
      BY <3>1, <3>2, <3>3, <3>4 DEF CopyMarks, Updates
  <2>6. ASSUME NEW s \in Slots, Boot(s) PROVE CopyMarks'
    BY <2>6 DEF Boot, CopyMarks
  <2>7. CASE UNCHANGED vars
    BY <2>7 DEF vars, CopyMarks, SamePriority
  <2> QED
    BY <2>1, <2>2, <2>3, <2>4, <2>5, <2>6, <2>7 DEF Next, HalStep
<1> QED
  BY <1>1, <1>2, TypeCorrect, CopyKeepsInvariant, PTL DEF Spec

(* With one updating process markBootSuccessful leaves every priority as   *)
(* it is, however its transfers are cut short and wherever power fails     *)
(* before: what run boot_lost finds takes a second updating process.       *)
THEOREM MarkKeepsPrioritiesCorrect == OneUpdater => (Spec => MarkKeepsPriorities)
<1> SUFFICES ASSUME OneUpdater PROVE Spec => MarkKeepsPriorities
  OBVIOUS
<1> DEFINE Kept1 == \A p \in Procs : op[p] = "mark_boot_successful" /\ WriteLast(p) =>
                      \A s \in Slots : misc'.slot_info[s].priority = misc.slot_info[s].priority
<1>1. ASSUME CopyMarks, NEW p \in Procs, Marking(p), WriteLast(p), NEW s \in Slots
      PROVE  misc'.slot_info[s].priority = misc.slot_info[s].priority
  <2>1. misc'.slot_info[s] = buf[p].slot_info[s] \/ misc'.slot_info[s] = misc.slot_info[s]
    BY <1>1, SpliceSlot DEF WriteLast
  <2> QED
    BY <1>1, <2>1 DEF CopyMarks, SamePriority, WriteLast
<1>2. CopyMarks /\ [Next]_vars => [Kept1]_vars
  BY <1>1 DEF Marking
<1> QED
  BY <1>2, CopyMarksInvariant, PTL DEF Spec, MarkKeepsPriorities
=============================================================================
