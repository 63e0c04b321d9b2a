------------------------------- MODULE BootCtrl -------------------------------
(***************************************************************************)
(* The A/B boot control HAL (peripheral/bootctrl/bootctrl.c).              *)
(*                                                                         *)
(* The HAL is a library: every process that loads it reads and writes the  *)
(* boot_ctrl structure in the misc partition by itself and nothing         *)
(* serialises two processes.  An updating call reads the whole structure   *)
(* into a local copy, changes the copy and writes the whole copy back.     *)
(*                                                                         *)
(* The structure is three cells in the order they lie on disk: the header  *)
(* (magic and version), slot_info[0] and slot_info[1].  read() and write() *)
(* are loops that accept short transfers, so a cell is the unit in which   *)
(* another process, an I/O error or a power cut can get in between.        *)
(* recovery_tries_remaining, which every call carries along unchanged, is  *)
(* left out.  A write that moves nothing ends the loop and the call like a *)
(* write of everything (WriteEnds).  A read that moves nothing is the end  *)
(* of the device: the misc partition is taken to hold the whole structure, *)
(* which a device that boots by it does, so no read ends early.            *)
(*                                                                         *)
(* late is a history variable: it appears in no guard and records which    *)
(* calls hold a copy that another process's write has made out of date.    *)
(***************************************************************************)
EXTENDS Integers, FiniteSets

CONSTANTS
  Procs,      \* processes that have loaded the HAL
  Updaters,   \* the ones that call an updating operation
  Whole,      \* TRUE: the kernel moves the structure in one transfer
  MaxTries    \* tries a newly activated slot gets: 7 in the code

ASSUME UpdatersAssumption == Updaters \subseteq Procs
ASSUME WholeAssumption == Whole \in BOOLEAN
ASSUME MaxTriesAssumption == MaxTries \in 1..7

VARIABLES
  misc,       \* the structure on disk
  booted,     \* androidboot.slot_suffix of the running kernel
  pc,         \* "idle", "reading" or "writing"
  op,         \* operation under way
  arg,        \* its slot argument
  buf,        \* local copy of the structure, one per process
  pos,        \* cells already transferred
  ret,        \* result of the last call
  late        \* history: processes with a copy older than another's write

vars == <<misc, booted, pc, op, arg, buf, pos, ret, late>>

Slots == {0, 1}
EIO == -5
EINVAL == -22
NCells == 3

SlotInfo == [priority : 0..15, tries_remaining : 0..MaxTries, successful_boot : 0..1]
BootCtrlT == [magic : BOOLEAN, slot_info : [Slots -> SlotInfo]]

Updates == {"mark_boot_successful", "set_active_boot_slot", "set_slot_as_unbootable"}
Queries == {"get_current_slot", "is_slot_bootable", "is_slot_marked_successful"}
SlotOps == (Updates \cup Queries) \ {"mark_boot_successful", "get_current_slot"}

Other(s) == IF s = 0 THEN 1 ELSE 0

Zeroed == [priority |-> 0, tries_remaining |-> 0, successful_boot |-> 0]
Blank == [magic |-> FALSE, slot_info |-> [s \in Slots |-> Zeroed]]

-----------------------------------------------------------------------------
(* The three updates of the local copy.                                    *)

Fresh == [priority |-> 15, tries_remaining |-> MaxTries, successful_boot |-> 0]

(* Faults: the slot is put on top; its tries are left as they are.         *)
SuccessOnTop(i) == [priority |-> 15, tries_remaining |-> 0, successful_boot |-> 1]
SuccessKeepsTries(i) == [priority |-> i.priority, tries_remaining |-> i.tries_remaining,
                         successful_boot |-> 1]

Success(i) == [priority |-> i.priority, tries_remaining |-> 0, successful_boot |-> 1]

Lowered(i) == [priority |-> IF i.priority >= 15 THEN 14 ELSE i.priority,
               tries_remaining |-> i.tries_remaining, successful_boot |-> i.successful_boot]

Tried(i) == [priority |-> i.priority, tries_remaining |-> i.tries_remaining - 1,
             successful_boot |-> i.successful_boot]

WithSlot(m, s, i) == [magic |-> m.magic, slot_info |-> [m.slot_info EXCEPT ![s] = i]]

Marked(m, s) == WithSlot(m, s, Success(m.slot_info[s]))

(* Faults: the other slot is not lowered; it is wiped instead of lowered;  *)
(* the counter starts one too high.                                        *)
ActivatedOnly(m, s) == WithSlot(m, s, Fresh)
ActivatedAlone(m, s) ==
  [magic |-> m.magic, slot_info |-> [t \in Slots |-> IF t = s THEN Fresh ELSE Zeroed]]
ActivatedOneTryTooMany(m, s) ==
  [magic |-> m.magic,
   slot_info |-> [t \in Slots |->
     IF t = s THEN [priority |-> 15, tries_remaining |-> MaxTries + 1, successful_boot |-> 0]
     ELSE Lowered(m.slot_info[t])]]

Activated(m, s) ==
  [magic |-> m.magic,
   slot_info |-> [t \in Slots |-> IF t = s THEN Fresh ELSE Lowered(m.slot_info[t])]]

Unbootable(m, s) == WithSlot(m, s, Zeroed)

Updated(o, m, s) == CASE o = "mark_boot_successful"   -> Marked(m, s)
                      [] o = "set_active_boot_slot"   -> Activated(m, s)
                      [] o = "set_slot_as_unbootable" -> Unbootable(m, s)

(* Cells lo .. hi - 1 taken from new, the others from old.                 *)
Splice(old, new, lo, hi) ==
  LET moved(c) == lo <= c /\ c < hi IN
  [magic |-> IF moved(0) THEN new.magic ELSE old.magic,
   slot_info |-> [s \in Slots |-> IF moved(s + 1) THEN new.slot_info[s]
                                                  ELSE old.slot_info[s]]]

-----------------------------------------------------------------------------
(* A device leaves the factory with slot A active, and slot B empty or     *)
(* holding an older image.  An unformatted misc partition has no magic.    *)
FactoryB == {Zeroed, Lowered(Fresh)}

Init ==
  /\ misc \in [magic : BOOLEAN,
               slot_info : {[s \in Slots |-> IF s = 0 THEN Fresh ELSE b] : b \in FactoryB}]
  /\ booted = 0
  /\ pc = [p \in Procs |-> "idle"]
  /\ op = [p \in Procs |-> "get_current_slot"]
  /\ arg = [p \in Procs |-> 0]
  /\ buf = [p \in Procs |-> Blank]
  /\ pos = [p \in Procs |-> 0]
  /\ ret = [p \in Procs |-> 0]
  /\ late = {}

(* The call is over: the local copy goes out of scope.                     *)
Leave(p, r) == /\ pc' = [pc EXCEPT ![p] = "idle"]
               /\ op' = [op EXCEPT ![p] = "get_current_slot"]
               /\ arg' = [arg EXCEPT ![p] = 0]
               /\ buf' = [buf EXCEPT ![p] = Blank]
               /\ pos' = [pos EXCEPT ![p] = 0]
               /\ ret' = [ret EXCEPT ![p] = r]

Return(p, r) == Leave(p, r) /\ late' = late \ {p}

(* The others that have read something before p wrote.                     *)
Overtaken(p) == {q \in Procs \ {p} : pc[q] = "writing" \/ pos[q] > 0}

(* if (slot >= 2) return -EINVAL;  before anything is read.                *)
RejectSlot(p) ==
  /\ pc[p] = "idle"
  /\ Return(p, EINVAL)
  /\ UNCHANGED <<misc, booted>>

Call(p, o, s) ==
  /\ pc[p] = "idle"
  /\ o \in Updates => p \in Updaters
  /\ o \notin SlotOps => s = 0
  /\ pc' = [pc EXCEPT ![p] = "reading"]
  /\ op' = [op EXCEPT ![p] = o]
  /\ arg' = [arg EXCEPT ![p] = s]
  /\ UNCHANGED <<misc, booted, buf, pos, ret, late>>

(* open(), lseek() or read() fails.                                        *)
ReadFails(p) ==
  /\ pc[p] = "reading"
  /\ Return(p, EIO)
  /\ UNCHANGED <<misc, booted>>

ReadSome(p) ==
  /\ pc[p] = "reading"
  /\ ~Whole
  /\ \E n \in (pos[p] + 1)..(NCells - 1) :
       /\ buf' = [buf EXCEPT ![p] = Splice(@, misc, pos[p], n)]
       /\ pos' = [pos EXCEPT ![p] = n]
  /\ UNCHANGED <<misc, booted, pc, op, arg, ret, late>>

(* The result that a query computes from its copy.                         *)
Result(o, m, s) ==
  CASE o = "get_current_slot"          -> booted
    [] o = "is_slot_bootable"          -> IF m.slot_info[s].priority # 0 THEN 1 ELSE 0
    [] o = "is_slot_marked_successful" -> m.slot_info[s].successful_boot

(* The last cells arrive; the rest of the call is local up to the first    *)
(* write.  The magic number is checked first.                              *)
ReadCorrupt(p) ==
  /\ pc[p] = "reading"
  /\ ~Splice(buf[p], misc, pos[p], NCells).magic
  /\ Return(p, EIO)
  /\ UNCHANGED <<misc, booted>>

ReadForQuery(p) ==
  LET m == Splice(buf[p], misc, pos[p], NCells) IN
  /\ pc[p] = "reading"
  /\ op[p] \in Queries
  /\ m.magic
  /\ Return(p, Result(op[p], m, arg[p]))
  /\ UNCHANGED <<misc, booted>>

(* Fault: the slot is not looked up on the command line.                   *)
TargetIsArgument(p) == arg[p]

(* The slot an update changes: its argument, or for mark_boot_successful   *)
(* the one found on the kernel command line.                               *)
Target(p) == IF op[p] = "mark_boot_successful" THEN booted ELSE arg[p]

ReadForUpdate(p) ==
  LET m == Splice(buf[p], misc, pos[p], NCells) IN
  /\ pc[p] = "reading"
  /\ op[p] \in Updates
  /\ m.magic
  /\ buf' = [buf EXCEPT ![p] = Updated(op[p], m, Target(p))]
  /\ arg' = [arg EXCEPT ![p] = Target(p)]
  /\ pc' = [pc EXCEPT ![p] = "writing"]
  /\ pos' = [pos EXCEPT ![p] = 0]
  /\ UNCHANGED <<misc, booted, op, ret, late>>

(* /proc/cmdline cannot be read or does not name a slot.                   *)
NoBootedSlot(p) ==
  /\ pc[p] = "reading"
  /\ op[p] \in {"mark_boot_successful", "get_current_slot"}
  /\ Splice(buf[p], misc, pos[p], NCells).magic
  /\ Return(p, EIO)
  /\ UNCHANGED <<misc, booted>>

WriteSome(p) ==
  /\ pc[p] = "writing"
  /\ ~Whole
  /\ \E n \in (pos[p] + 1)..(NCells - 1) :
       /\ misc' = Splice(misc, buf[p], pos[p], n)
       /\ pos' = [pos EXCEPT ![p] = n]
  /\ late' = late \cup Overtaken(p)
  /\ UNCHANGED <<booted, pc, op, arg, buf, ret>>

WriteLast(p) ==
  /\ pc[p] = "writing"
  /\ misc' = Splice(misc, buf[p], pos[p], NCells)
  /\ Leave(p, 0)
  /\ late' = (late \ {p}) \cup Overtaken(p)
  /\ UNCHANGED booted

(* if (sz == 0) break:  a write that moves nothing ends the loop, and the  *)
(* call returns 0 with what was written so far.                            *)
WriteEnds(p) ==
  /\ pc[p] = "writing"
  /\ ~Whole
  /\ Return(p, 0)
  /\ UNCHANGED <<misc, booted>>

(* open(), lseek() or write() fails; what was written stays written.       *)
WriteFails(p) ==
  /\ pc[p] = "writing"
  /\ Return(p, EIO)
  /\ UNCHANGED <<misc, booted>>

(* Power cut or reboot at any moment.  The bootloader, which is not in     *)
(* this repository, starts the bootable slot of highest priority that has  *)
(* a try left or was marked successful, and counts the try.                *)
Bootable(s) ==
  LET i == misc.slot_info[s] IN
  i.priority # 0 /\ (i.successful_boot = 1 \/ i.tries_remaining > 0)

Boot(s) ==
  /\ misc.magic
  /\ Bootable(s)
  /\ Bootable(Other(s)) => misc.slot_info[Other(s)].priority <= misc.slot_info[s].priority
  /\ misc' = IF misc.slot_info[s].successful_boot = 1 THEN misc
             ELSE WithSlot(misc, s, Tried(misc.slot_info[s]))
  /\ booted' = s
  /\ pc' = [p \in Procs |-> "idle"]
  /\ op' = [p \in Procs |-> "get_current_slot"]
  /\ arg' = [p \in Procs |-> 0]
  /\ buf' = [p \in Procs |-> Blank]
  /\ pos' = [p \in Procs |-> 0]
  /\ ret' = [p \in Procs |-> 0]
  /\ late' = {}

HalStep(p) ==
  \/ RejectSlot(p)
  \/ \E o \in Updates \cup Queries, s \in Slots : Call(p, o, s)
  \/ ReadFails(p) \/ ReadSome(p) \/ ReadCorrupt(p)
  \/ ReadForQuery(p) \/ ReadForUpdate(p) \/ NoBootedSlot(p)
  \/ WriteSome(p) \/ WriteLast(p) \/ WriteEnds(p) \/ WriteFails(p)

Next == (\E p \in Procs : HalStep(p)) \/ (\E s \in Slots : Boot(s))

Spec == Init /\ [][Next]_vars

-----------------------------------------------------------------------------
(* Type invariant.                                                         *)
TypeOK ==
  /\ misc \in BootCtrlT
  /\ booted \in Slots
  /\ pc \in [Procs -> {"idle", "reading", "writing"}]
  /\ op \in [Procs -> Updates \cup Queries]
  /\ arg \in [Procs -> Slots]
  /\ buf \in [Procs -> BootCtrlT]
  /\ pos \in [Procs -> 0..(NCells - 1)]
  /\ ret \in [Procs -> {0, 1, EIO, EINVAL}]
  /\ late \subseteq Procs

TopOnce(m) == \A s, t \in Slots :
  m.slot_info[s].priority = 15 /\ m.slot_info[t].priority = 15 => s = t

(* "lower priorities of other slots so they are all less than 15": the     *)
(* partition never holds two slots of priority 15, whatever the processes  *)
(* interleave and wherever power is cut (set_active_boot_slot,             *)
(* bootctrl.c:247-262).                                                    *)
OneTop == TopOnce(misc)

(* Every update that sets Successful Boot clears Tries Remaining and every *)
(* update that grants tries clears Successful Boot, so a slot marked       *)
(* successful has no tries left, even when cells of several writes mix.    *)
NoTriesOnceSuccessful == \A s \in Slots :
  misc.slot_info[s].successful_boot = 1 => misc.slot_info[s].tries_remaining = 0

(* With one updating process, only setSlotAsUnbootable and the bootloader  *)
(* can take away the last slot with a priority: activating or marking a    *)
(* slot never leaves the device without one, even when the write stops     *)
(* after any cell.                                                         *)
HasPriority(m) == \E s \in Slots : m.slot_info[s].priority # 0
NeverStranded ==
  [][(HasPriority(misc) /\ ~HasPriority(misc'))
       => \E p \in Procs : op[p] = "set_slot_as_unbootable" /\ pc[p] = "writing"]_vars

(* "In markBootSuccessful(), set Successful Boot to 1 and Tries Remaining  *)
(* to 0" (bootctrl.c:217-219): the call leaves every priority as it is     *)
(* when the call writes.                                                   *)
MarkKeepsPriorities ==
  [][\A p \in Procs : op[p] = "mark_boot_successful" /\ WriteLast(p) =>
       \A s \in Slots : misc'.slot_info[s].priority = misc.slot_info[s].priority]_vars

(* With whole transfers and any processes updating at once, a call that no *)
(* other update overtakes takes effect at one instant between its start    *)
(* and its return, or fails and changes nothing; a call that was overtaken *)
(* still does what it was asked to its own slot and leaves at most one     *)
(* slot active, and reboots at any moment break neither (all of the HAL).  *)
Abs == INSTANCE BootSlots WITH slots <- misc.slot_info, reply <- ret
CallsAreAtomic == Abs!AbsSpec
=============================================================================
