------------------------------- MODULE AbSlots -------------------------------
(***************************************************************************)
(* The A/B metadata in the misc partition: what the update engine writes   *)
(* there (project/SmartCam/app/update_engine/rkbootloader.c, struct        *)
(* AvbABData) and what the boot loader makes of it.  The boot loader is    *)
(* not in the repository; its rules are those the comments and fields of   *)
(* rkbootloader.c refer to (a slot with tries left or known to boot is     *)
(* bootable, the highest priority wins, a boot of a slot not known to boot *)
(* costs one try, and a slot that is both is unbootable).                  *)
(*                                                                         *)
(* Checksum and magic are left out: every writer here recomputes the one   *)
(* and keeps the other.                                                    *)
(***************************************************************************)
EXTENDS Naturals

CONSTANT MaxTries   \* AVB_AB_MAX_TRIES_REMAINING, 7 in the boot loader

ASSUME TriesAssumption == MaxTries \in Nat \ {0}

MaxPriority == 15   \* AVB_AB_MAX_PRIORITY

Slot == [priority   : {0, MaxPriority - 1, MaxPriority},
         tries      : 0 .. MaxTries,
         successful : BOOLEAN]
Metadata == [{0, 1} -> Slot]

Unbootable == [priority |-> 0, tries |-> 0, successful |-> FALSE]

(* setSlotSucceed, in a system built with SUCCESSFUL_BOOT or with          *)
(* RETRY_BOOT: the running slot s is good.                                 *)
SetSlotSucceed(m, s, mode) ==
  [m EXCEPT ![s] =
     [priority   |-> MaxPriority,
      tries      |-> IF mode = "retry" THEN MaxTries ELSE 0,
      successful |-> mode = "success"]]

(* Mutants of SetSlotActivity: the other slot keeps its successful flag;   *)
(* it counts as known to boot.                                             *)
SetSlotActivityKeepsFlag(m, s) ==
  [m EXCEPT ![s].priority = MaxPriority - 1,
            ![1 - s].priority = MaxPriority,
            ![1 - s].tries = MaxTries]

SetSlotActivityTrusts(m, s) ==
  [m EXCEPT ![s].priority = MaxPriority - 1,
            ![1 - s] = [priority |-> MaxPriority, tries |-> 0,
                        successful |-> TRUE]]

(* setSlotActivity, run in slot s: the other slot comes first and has all  *)
(* its tries, s stays behind it.                                           *)
SetSlotActivity(m, s) ==
  [m EXCEPT ![s].priority = MaxPriority - 1,
            ![1 - s] = [priority |-> MaxPriority, tries |-> MaxTries,
                        successful |-> FALSE]]

(* The boot loader: a slot it would start, the one it prefers, and what it *)
(* writes back before it starts it.                                        *)
Confused(slot) == slot.successful /\ slot.tries > 0

Bootable(slot) == slot.priority > 0 /\ ~Confused(slot)
                    /\ (slot.successful \/ slot.tries > 0)

Normalize(m) == [s \in {0, 1} |-> IF Bootable(m[s]) THEN m[s] ELSE Unbootable]

Preferred(m, s) ==
  /\ Bootable(m[s])
  /\ Bootable(m[1 - s]) =>
       \/ m[s].priority > m[1 - s].priority
       \/ m[s].priority = m[1 - s].priority /\ s = 0

UseTry(m, s) ==
  [Normalize(m) EXCEPT ![s].tries = IF m[s].successful THEN @ ELSE @ - 1]
=============================================================================
