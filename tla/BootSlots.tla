------------------------------ MODULE BootSlots ------------------------------
(***************************************************************************)
(* What the boot control HAL promises, without the misc partition: a table *)
(* of two slots that every call reads or updates in one step.              *)
(*                                                                         *)
(* The HAL has no lock, so a call that was overtaken by another process's  *)
(* update while it was under way promises less: it still does to its own   *)
(* slot what it is asked to, but may undo what the other update did.       *)
(*                                                                         *)
(* The update rules are the ones that the comments of bootctrl.c quote     *)
(* from the Brillo boot control specification, written as relations        *)
(* between the table before and after, so that they do not repeat how the  *)
(* code gets there.                                                        *)
(***************************************************************************)
EXTENDS Integers

CONSTANTS
  Procs,      \* processes that call the HAL
  Updaters,   \* those of them that call an updating operation
  MaxTries    \* tries that a newly activated slot gets

Slots == {0, 1}

VARIABLES
  slots,      \* [Slots -> slot information]
  booted,     \* slot that the running kernel was started from
  reply,      \* result of the last call of each process
  late        \* processes whose call another process's update has overtaken

absVars == <<slots, booted, reply, late>>

SlotInfo == [priority : 0..15, tries_remaining : 0..MaxTries, successful_boot : 0..1]

Other(s) == 1 - s

Failures == {-5, -22}                         \* -EIO, -EINVAL

AbsInit == /\ slots \in [Slots -> SlotInfo]
           /\ booted \in Slots
           /\ reply = [p \in Procs |-> 0]
           /\ late = {}

Answer(p, r) == reply' = [reply EXCEPT ![p] = r]

(* An update of p is over: it may have overtaken calls of the others.      *)
UpdateDone(p) ==
  /\ Answer(p, 0)
  /\ late \ {p} \subseteq late' /\ late' \subseteq Procs \ {p}
  /\ slots' \in [Slots -> SlotInfo]
  /\ UNCHANGED booted

(* "set Successful Boot to 1 and Tries Remaining to 0", and nothing else.  *)
MarkSuccessful(p) ==
  /\ slots'[booted].successful_boot = 1
  /\ slots'[booted].tries_remaining = 0
  /\ p \notin late => /\ slots'[booted].priority = slots[booted].priority
                      /\ slots'[Other(booted)] = slots[Other(booted)]
  /\ UpdateDone(p)

(* "set Priority to 15, Tries Remaining to 7 and Successful Boot to 0";    *)
(* the other slot ends below 15 and is touched only if it has to be.       *)
SetActive(p, s) ==
  LET o == Other(s) IN
  /\ slots'[s] = [priority |-> 15, tries_remaining |-> MaxTries, successful_boot |-> 0]
  /\ slots'[o].priority < 15
  /\ p \notin late =>
       /\ slots[o].priority < 15 => slots'[o].priority = slots[o].priority
       /\ slots[o].priority = 15 => slots'[o].priority = 14
       /\ slots'[o].tries_remaining = slots[o].tries_remaining
       /\ slots'[o].successful_boot = slots[o].successful_boot
  /\ UpdateDone(p)

(* "set Priority, Tries Remaining and Successful Boot to 0".               *)
SetUnbootable(p, s) ==
  /\ slots'[s] = [priority |-> 0, tries_remaining |-> 0, successful_boot |-> 0]
  /\ p \notin late => slots'[Other(s)] = slots[Other(s)]
  /\ UpdateDone(p)

(* A query answers from the table as it is at one instant of the call.     *)
Query(p) ==
  /\ \E s \in Slots :
       \/ Answer(p, IF slots[s].priority # 0 THEN 1 ELSE 0)
       \/ Answer(p, slots[s].successful_boot)
       \/ Answer(p, booted)
  /\ late' = late \ {p}
  /\ UNCHANGED <<slots, booted>>

(* A call that fails leaves the table alone.                               *)
Fail(p) == /\ \E e \in Failures : Answer(p, e)
           /\ late' = late \ {p}
           /\ UNCHANGED <<slots, booted>>

(* Between two boots the bootloader starts a slot that can be booted and   *)
(* spends one of its tries if it was never marked successful.              *)
Restart(s) ==
  /\ slots[s].priority # 0
  /\ slots[s].successful_boot = 1 \/ slots[s].tries_remaining > 0
  /\ slots' = IF slots[s].successful_boot = 1 THEN slots
              ELSE [slots EXCEPT ![s].tries_remaining = @ - 1]
  /\ booted' = s
  /\ reply' = [p \in Procs |-> 0]
  /\ late' = {}

AbsNext ==
  \/ \E p \in Updaters : \/ MarkSuccessful(p)
                         \/ \E s \in Slots : SetActive(p, s) \/ SetUnbootable(p, s)
  \/ \E p \in Procs : Query(p) \/ Fail(p)
  \/ \E s \in Slots : Restart(s)

AbsSpec == AbsInit /\ [][AbsNext]_absVars
=============================================================================
