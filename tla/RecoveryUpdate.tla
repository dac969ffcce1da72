--------------------------- MODULE RecoveryUpdate ---------------------------
(* An update of a device without slots (project/SmartCam/app/update_engine,*)
(* getCurrentSlot() = -1).  No system may write the partitions it runs     *)
(* from: updateEngine, started in the normal system, first writes the      *)
(* recovery partition and then leaves a message for the boot loader; the   *)
(* recovery system, started by it, runs updateEngine again and writes the  *)
(* other partitions in place, and clears the message when all is done.     *)
(* That is so if the mask has the recovery partition, as the default has:  *)
(* with one that lacks it (--partition) MiscUpdate goes past the branch of *)
(* main.c:93, and the normal system writes all of it where it runs.        *)
(* Power may be lost between any two steps.                                *)
(*                                                                         *)
(* This is MiscUpdate (main.c) around RK_ota_start (update.c, whose        *)
(* treatment of a single partition UpdateEngine has in detail) with        *)
(* set_bootloader_message and wipe_userdata (rkbootloader.c), on block     *)
(* devices and with whole partitions in the image.                         *)
EXTENDS UpdatePlan

CONSTANTS
  Mask,      \* --partition, or RecoveryModeMask
  Items,     \* the names of the items of the image
  Patient    \* nobody starts a second update before the reboot the first asks
             \* for, or wipes the user data after one that failed in recovery

RecoveryBit == 18                  \* 0x040000
RecoveryModeMask == 16 .. 21       \* 0x3F0000

ASSUME RecoveryAssumption ==
  /\ Items \subseteq {Table[i] : i \in Entries}
  /\ Mask \subseteq RecoveryModeMask
  /\ Patient \in BOOLEAN

Recovery == 24 - RecoveryBit
LoaderParts == {i \in Entries : Table[i] \in {Only("uboot"), Only("trust")}}

(* RK_ota_set_partition(mask), then (-1): the entries that are written.    *)
Selected(mask) ==
  {i \in Matched(Marked(mask), Items) :
     Table[i] \notin {Only("misc"), Only("parameter")}}

(* Recovery is to be updated too, which decides on the way the update takes *)
(* (partition & 0x040000); what the normal system writes itself.           *)
ThroughRecovery == RecoveryBit \in Mask
InNormal == IF ThroughRecovery THEN {RecoveryBit} ELSE Mask

(* What the recovery system is asked to write (partition & 0xFBFFFF), and  *)
(* the part of it that is the normal system.                               *)
NeedUpdate == Mask \ {RecoveryBit}
SystemParts == Selected(NeedUpdate) \ LoaderParts

(* The message in misc: what the boot loader and the recovery system are   *)
(* to do, and "needupdate".                                                *)
Message(command, mask) == [command |-> command, mask |-> mask]
NoMessage == Message("none", {})
UpdateMessage == Message("update", NeedUpdate)
WipeMessage == Message("wipe", {})
Messages == {NoMessage, UpdateMessage, WipeMessage}

VARIABLES
  flash,        \* what each partition holds
  message,      \* the message as programs read it (the page cache)
  messageDisk,  \* the message as a power loss leaves it
  system,       \* the system that runs, "none" after a reset
  pc,           \* where updateEngine is
  todo          \* the entries RK_ota_start has still to write

vars == <<flash, message, messageDisk, system, pc, todo>>

Systems == {"none", "normal", "recovery"}
Places == {"idle", "flash", "write", "verify", "finish", "message", "exit"}

TypeOK ==
  /\ flash \in [Entries -> {"old", "new", "torn"}]
  /\ message \in Messages /\ messageDisk \in Messages
  /\ system \in Systems
  /\ pc \in Places
  /\ todo \in SUBSET Entries

Init ==
  /\ flash = [i \in Entries |-> "old"]
  /\ message = NoMessage /\ messageDisk = NoMessage
  /\ system = "normal"
  /\ pc = "idle" /\ todo = {}

Entry == CHOOSE i \in todo : \A j \in todo : i <= j

Sync == messageDisk' = message

Begin(mask) ==
  /\ pc' = IF Selected(mask) = {} THEN "finish" ELSE "flash"
  /\ todo' = Selected(mask)
  /\ UNCHANGED <<flash, message, messageDisk, system>>

(* The recovery system cannot go on without an update: it waits for the    *)
(* next attempt, as the normal system does.                                *)
Abort == pc' = "idle" /\ todo' = {}
-----------------------------------------------------------------------------
(* updateEngine.                                                           *)

(* Mutant of StartInNormal: the branch for the recovery partition is       *)
(* missing, everything is written at once.                                 *)
StartEverything ==
  /\ system = "normal" /\ pc = "idle"
  /\ Patient => message = NoMessage
  /\ Begin(Mask)

(* MiscUpdate in the normal system: the recovery partition comes first,    *)
(* or everything if it is not to be updated.                               *)
StartInNormal ==
  /\ system = "normal" /\ pc = "idle"
  /\ Patient => message = NoMessage
  /\ Begin(InNormal)

(* The recovery system runs MiscUpdate with the mask of the message, which *)
(* no longer has the bit of recovery, so that all of it is written.        *)
StartInRecovery ==
  /\ system = "recovery" /\ pc = "idle"
  /\ message.command = "update"
  /\ Begin(message.mask)

(* flash_normal: from the first write on the partition is neither.         *)
OpenDevice ==
  /\ pc = "flash"
  /\ flash' = [flash EXCEPT ![Entry] = "torn"]
  /\ pc' = "write"
  /\ UNCHANGED <<message, messageDisk, system, todo>>

FinishWrite ==
  /\ pc = "write"
  /\ flash' = [flash EXCEPT ![Entry] = "new"]
  /\ pc' = "verify"
  /\ UNCHANGED <<message, messageDisk, system, todo>>

(* fsync fails, which nobody notices before the partition is read back.    *)
FsyncFails ==
  /\ pc = "write"
  /\ pc' = "verify"
  /\ UNCHANGED <<flash, message, messageDisk, system, todo>>

(* A read or a write fails: RK_UPGRADE_ERR.                                *)
EntryFails ==
  /\ pc \in {"flash", "write", "verify"}
  /\ Abort
  /\ UNCHANGED <<flash, message, messageDisk, system>>

(* Mutant of Verify: the partition is not compared with the image.         *)
VerifyNothing ==
  /\ pc = "verify"
  /\ todo' = todo \ {Entry}
  /\ pc' = IF todo' = {} THEN "finish" ELSE "flash"
  /\ UNCHANGED <<flash, message, messageDisk, system>>

Verify ==
  /\ pc = "verify"
  /\ IF flash[Entry] = "new"
     THEN todo' = todo \ {Entry} /\ pc' = IF todo' = {} THEN "finish" ELSE "flash"
     ELSE Abort
  /\ UNCHANGED <<flash, message, messageDisk, system>>

(* RK_UPGRADE_FINISHED.  setSlotActivity does nothing without slots.       *)
Finish ==
  /\ pc = "finish"
  /\ pc' = "message"
  /\ UNCHANGED <<flash, message, messageDisk, system, todo>>

(* Mutant of LeaveMessage: the bit of recovery stays in the mask.          *)
LeaveMessageForAll ==
  /\ system = "normal" /\ pc = "message"
  /\ message' = Message("update", Mask)
  /\ pc' = "exit"
  /\ UNCHANGED <<flash, messageDisk, system, todo>>

(* MiscUpdate leaves the message; nothing waits until it is on disk.  When *)
(* recovery was not to be updated there is nothing left to ask for.        *)
LeaveMessage ==
  /\ system = "normal" /\ pc = "message"
  /\ message' = IF ThroughRecovery THEN UpdateMessage ELSE message
  /\ pc' = "exit"
  /\ UNCHANGED <<flash, messageDisk, system, todo>>

(* set_bootloader_message fails, and MiscUpdate returns 0 all the same.    *)
MessageFails ==
  /\ system = "normal" /\ pc = "message"
  /\ pc' = "exit"
  /\ UNCHANGED <<flash, message, messageDisk, system, todo>>

(* main returns, or syncs and resets the device (--reboot).                *)
Exit ==
  /\ system = "normal" /\ pc = "exit"
  /\ pc' = "idle" /\ todo' = {}
  /\ \/ UNCHANGED <<system, messageDisk>>
     \/ system' = "none" /\ Sync
  /\ UNCHANGED <<flash, message>>

(* updateEngine --misc=wipe_userdata: its message replaces one that waits, *)
(* and asks for the recovery system, which an update that failed may have  *)
(* left half written.                                                      *)
WipeUserdata ==
  /\ system = "normal" /\ pc = "idle"
  /\ Patient => flash[Recovery] # "torn"
  /\ message' = WipeMessage
  /\ UNCHANGED <<flash, messageDisk, system, pc, todo>>
-----------------------------------------------------------------------------
(* The rest of the device.                                                 *)

(* The recovery system has done what it was asked to.                      *)
ClearMessage ==
  /\ system = "recovery"
  /\ \/ pc = "message"
     \/ pc = "idle" /\ message.command = "wipe"
  /\ message' = NoMessage
  /\ pc' = "exit"
  /\ UNCHANGED <<flash, messageDisk, system, todo>>

LeaveRecovery ==
  /\ system = "recovery" /\ pc = "exit"
  /\ system' = "none" /\ Sync
  /\ pc' = "idle" /\ todo' = {}
  /\ UNCHANGED <<flash, message>>

(* The boot loader: with a message it starts the recovery system, without  *)
(* one the normal system, if what it starts is complete.                   *)
Whole(parts) == \E v \in {"old", "new"} : \A i \in parts : flash[i] = v
LoaderWhole == \A i \in LoaderParts : flash[i] # "torn"
Target(m) == IF m = NoMessage THEN "normal" ELSE "recovery"
Starts(s) == IF s = "normal" THEN Whole(SystemParts) ELSE flash[Recovery] # "torn"

Boot ==
  /\ system = "none"
  /\ LoaderWhole /\ Starts(Target(messageDisk))
  /\ system' = Target(messageDisk)
  /\ UNCHANGED <<flash, message, messageDisk, pc, todo>>

WriteBack ==
  /\ message # messageDisk
  /\ Sync
  /\ UNCHANGED <<flash, message, system, pc, todo>>

Reboot ==
  /\ system = "normal" /\ pc = "idle"
  /\ system' = "none" /\ Sync
  /\ UNCHANGED <<flash, message, pc, todo>>

(* Power is lost, also in the recovery system.                             *)
Crash ==
  /\ system # "none"
  /\ system' = "none"
  /\ message' = messageDisk
  /\ Abort
  /\ UNCHANGED <<flash, messageDisk>>

Fault == FsyncFails \/ EntryFails \/ MessageFails \/ Crash
ByHand == WipeUserdata

Engine ==
  \/ StartInRecovery \/ OpenDevice \/ FinishWrite \/ Verify \/ Finish
  \/ LeaveMessage \/ Exit \/ ClearMessage \/ LeaveRecovery

Next ==
  \/ StartInNormal \/ Engine \/ Boot \/ WriteBack \/ Reboot
  \/ Fault \/ ByHand

Spec == Init /\ [][Next]_vars

(* Programs that run go on, the boot loader starts a system, somebody      *)
(* starts the update until it is done and reboots when it asks for it.     *)
WantsUpdate == \E i \in SystemParts : flash[i] # "new"

Fairness ==
  /\ WF_vars(Engine) /\ WF_vars(Boot)
  /\ SF_vars(StartInNormal /\ WantsUpdate)
  /\ SF_vars(Reboot /\ message # NoMessage)

FairSpec == Spec /\ Fairness
-----------------------------------------------------------------------------
(* In an update that goes through recovery: whenever power is lost, now or *)
(* once the message is on disk, the boot loader finds a complete system to *)
(* start (MiscUpdate writes recovery before the message, the recovery      *)
(* system clears it after the rest).  A half written boot loader is beyond *)
(* that, and so is an update without recovery: a power loss leaves the     *)
(* partitions torn that the only system runs from.                         *)
AlwaysBoots ==
  Patient /\ ThroughRecovery => Starts(Target(message)) /\ Starts(Target(messageDisk))

(* In an update that goes through recovery no system writes a partition it *)
(* runs from, and none but the recovery system writes the boot loader's    *)
(* (the branch of MiscUpdate for the bit of recovery).  Without that bit   *)
(* the normal system writes whatever the mask has (main.c:133).            *)
RunningUntouched ==
  [][ThroughRecovery => \A i \in Entries :
       flash'[i] # flash[i] =>
         IF system = "normal" THEN i = Recovery ELSE system = "recovery" /\ i # Recovery]_vars

(* The update is only handed over to a recovery system of the version it   *)
(* comes with, whatever failed before (m_status, the read-back).           *)
NewRecovery ==
  Patient /\ ThroughRecovery /\ Recovery \in Selected({RecoveryBit})
    => \A m \in {message, messageDisk} : m = UpdateMessage => flash[Recovery] = "new"

(* In an update that goes through recovery, once faults are over, and      *)
(* nobody asks for anything else, the normal system of the new version     *)
(* gets to run, unless the boot loader itself is half written.             *)
UpdateCompletes ==
  ThroughRecovery /\ <>[][~Fault /\ ~ByHand]_vars =>
    <>(~LoaderWhole \/ (system = "normal" /\ \A i \in SystemParts : flash[i] = "new"))
=============================================================================
