---------------------------- MODULE UpdateEngine ----------------------------
(***************************************************************************)
(* An over-the-air update of a device with two slots                       *)
(* (project/SmartCam/app/update_engine): updateEngine, started in the      *)
(* running slot, writes the partitions of the other slot from an image,    *)
(* checks them and makes that slot the one to boot; the boot loader tries  *)
(* it; S99_bootcontrol, run at every start of the system, confirms it.     *)
(* Power may be lost between any two steps, and any operation on a file or *)
(* a device may fail.                                                      *)
(*                                                                         *)
(* This is RK_ota_start (update.c) with flash_normal, block_write          *)
(* (flash_image.c) and do_patch_rkimg (do_patch.c) on block devices, driven*)
(* by MiscUpdate (main.c) in A/B mode.  An item of the image holds the     *)
(* whole partition, or a patch that turns its old content into the new     *)
(* one: the patched content is first made in a file, dst_file, next to the *)
(* image.  The file done_file next to the image lists the items written.   *)
(***************************************************************************)
EXTENDS UpdatePlan, AbSlots

CONSTANTS
  Mask,      \* --partition, or DefaultMask
  Items,     \* the names of the items of the image
  Patches,   \* the items that are patches
  OldMode, NewMode,  \* how the two versions of the system were built:
                     \* "success" (SUCCESSFUL_BOOT) or "retry" (RETRY_BOOT)
  IoErrors   \* whether operations on files and devices may fail

ASSUME ImageAssumption ==
  /\ Items \subseteq {Table[i] : i \in Entries}
  /\ Patches \subseteq Items
  /\ Mask \subseteq 0 .. 23
  /\ {OldMode, NewMode} \subseteq {"success", "retry"}
  /\ IoErrors \in BOOLEAN

VARIABLES
  flash,     \* what each partition holds
  dst,       \* dst_file of each item
  done,      \* the items done_file lists
  misc,      \* the A/B metadata as programs read them (the page cache)
  miscDisk,  \* the A/B metadata as a power loss leaves them
  running,   \* the slot the system runs in
  pc,        \* where the device is
  todo,      \* the entries RK_ota_start has still to write
  source,    \* what block_write reads: the image, or dst_file
  ret        \* what block_write returned

files == <<flash, dst, done>>
job   == <<todo, source, ret>>
vars  == <<flash, dst, done, misc, miscDisk, running, pc, todo, source, ret>>

Versions == {"old", "new"}
Contents == Versions \cup {"torn"}

(* The partitions of slot s the image is about, and a slot whose           *)
(* partitions hold one and the same version: a system that boots.          *)
Parts(s) == {i \in Entries : /\ Table[i].slot = Suffix(s)
                             /\ {Table[i], Partner(Table[i])} \cap Items # {}}
Holds(s, v) == \A i \in Parts(s) : flash[i] = v
Intact(s)   == \E v \in Versions : Holds(s, v)

Mode == IF Holds(running, "new") THEN NewMode ELSE OldMode

(* The entry at which RK_ota_start is, and the name it goes by. *)
Entry == CHOOSE i \in todo : \A j \in todo : i <= j
Item  == ItemFor(Entry, Items)

(***************************************************************************)
(* The places of the device.  "off": reset; "init": S99_bootcontrol is to  *)
(* run; "idle": no updateEngine runs; "flash" .. "verify": RK_ota_start is *)
(* at an entry; "finish", "cleanup", "exit": it is past the loop.          *)
(***************************************************************************)
Places == {"off", "init", "idle", "flash", "patch", "open", "write", "record",
           "unlink", "verify", "finish", "cleanup", "exit"}

(* A device in use: it runs the old version in one slot, confirmed; the    *)
(* other slot was left behind by an earlier update, or never booted.       *)
Init ==
  /\ flash = [i \in Entries |-> "old"]
  /\ dst = [n \in Items |-> "none"]
  /\ done = {}
  /\ running \in Slots
  /\ \E other \in {Unbootable}
           \cup [priority : {MaxPriority - 1}, tries : 1 .. MaxTries,
                 successful : {FALSE}]
           \cup [priority : {MaxPriority - 1}, tries : {0}, successful : {TRUE}] :
       misc = SetSlotSucceed([s \in Slots |-> other], running, OldMode)
  /\ miscDisk = misc
  /\ pc = "idle"
  /\ todo = {} /\ source = "image" /\ ret = 0

(* The process is gone: its variables with it. *)
Forget == todo' = {} /\ source' = "image" /\ ret' = 0
-----------------------------------------------------------------------------
(* main and MiscUpdate: the engine is started, and has analysed the image. *)
StartUpdate ==
  /\ pc = "idle"
  /\ todo' = Plan(running, Mask, Items)
  /\ pc' = IF todo' = {} THEN "finish" ELSE "flash"
  /\ UNCHANGED <<files, misc, miscDisk, running, source, ret>>

(* RK_UPGRADE_ERR: RK_ota_start returns and the process ends. *)
Abort ==
  /\ pc' = "idle"
  /\ Forget

(* The size of done_file as flash_normal computes it: the value of the     *)
(* comparison "lseek(...) < 0", which is 0 when the file can be read.      *)
DoneFileSize == 0

(* The loop that reads done_file runs while size > 0, so that this is what *)
(* strstr finds in its buffer.                                             *)
AlreadyDone == DoneFileSize > 0 /\ Item \in done

(* RK_ota_start goes on to the next entry. *)
NextEntry ==
  /\ todo' = todo \ {Entry}
  /\ pc' = IF todo' = {} THEN "finish" ELSE "flash"
  /\ source' = "image" /\ ret' = 0

(***************************************************************************)
(* flash_normal looks at done_file: for an item that is done it would      *)
(* return 0 at once.  Otherwise do_patch_rkimg decides: an item that is no *)
(* patch is copied from the image; a dst_file with the right checksum is   *)
(* used as it is; and in any other case dst_file is created anew.          *)
(***************************************************************************)
StartEntry ==
  /\ pc = "flash"
  /\ IF AlreadyDone
     THEN pc' = "verify" /\ UNCHANGED <<dst, source>>
     ELSE \/ /\ Item \notin Patches
             /\ pc' = "open" /\ source' = "image"
             /\ UNCHANGED dst
          \/ /\ Item \in Patches /\ dst[Item] = "good"
             /\ pc' = "open" /\ source' = "dst"
             /\ UNCHANGED dst
          \/ /\ Item \in Patches /\ dst[Item] # "good"
             /\ pc' = "patch"
             /\ dst' = [dst EXCEPT ![Item] = "partial"]
             /\ UNCHANGED source
  /\ UNCHANGED <<flash, done, misc, miscDisk, running, todo, ret>>

(* sync(): the page cache is on disk. *)
Sync == miscDisk' = misc

(* The patched file has the right checksum when the partition had the old  *)
(* content.                                                                *)
EndPatch ==
  /\ pc = "patch" /\ flash[Entry] = "old"
  /\ dst' = [dst EXCEPT ![Item] = "good"]
  /\ pc' = "open" /\ source' = "dst"
  /\ Sync
  /\ UNCHANGED <<flash, done, misc, running, todo, ret>>

RejectPatch ==
  /\ pc = "patch" /\ flash[Entry] # "old"
  /\ Sync
  /\ Abort
  /\ UNCHANGED <<files, misc, running>>

(* Mutant of OpenDevice: the file is removed before it is copied. *)
OpenDeviceUnlinksDst ==
  /\ pc = "open"
  /\ flash' = [flash EXCEPT ![Entry] = "torn"]
  /\ dst' = [dst EXCEPT ![Item] = "none"]
  /\ pc' = "write"
  /\ UNCHANGED <<done, misc, miscDisk, running, job>>

(* block_write: from the first write on the partition is neither old nor   *)
(* new.                                                                    *)
OpenDevice ==
  /\ pc = "open"
  /\ flash' = [flash EXCEPT ![Entry] = "torn"]
  /\ pc' = "write"
  /\ UNCHANGED <<dst, done, misc, miscDisk, running, job>>

(* block_write: the last write and the fsync succeed. *)
FinishWrite ==
  /\ pc = "write"
  /\ flash' = [flash EXCEPT ![Entry] = "new"]
  /\ pc' = "record"
  /\ UNCHANGED <<dst, done, misc, miscDisk, running, job>>

(* flash_normal appends the item to done_file (O_DSYNC), whatever          *)
(* block_write returned.                                                   *)
RecordDone ==
  /\ pc = "record"
  /\ done' = done \cup {Item}
  /\ pc' = "unlink"
  /\ UNCHANGED <<flash, dst, misc, miscDisk, running, job>>

(* sync, unlink(dst_file), sync; then flash_normal returns what            *)
(* block_write did.                                                        *)
RemoveDst ==
  /\ pc = "unlink"
  /\ dst' = [dst EXCEPT ![Item] = "none"]
  /\ Sync
  /\ IF ret = 0 THEN pc' = "verify" /\ UNCHANGED job ELSE Abort
  /\ UNCHANGED <<flash, done, misc, running>>

(* Mutant of Verify: the checksums are not compared. *)
VerifyNothing ==
  /\ pc = "verify"
  /\ NextEntry
  /\ UNCHANGED <<files, misc, miscDisk, running>>

(* RK_ota_start compares the partition with the item, unless flash_normal  *)
(* set skip_verify because it wrote a dst_file.                            *)
Verify ==
  /\ pc = "verify"
  /\ IF source = "dst" \/ (flash[Entry] = "new" /\ Item \notin Patches)
     THEN NextEntry ELSE Abort
  /\ UNCHANGED <<files, misc, miscDisk, running>>

(* cb(RK_UPGRADE_FINISHED): handle_upgrade_callback calls setSlotActivity. *)
Finish ==
  /\ pc = "finish"
  /\ misc' = SetSlotActivity(misc, running)
  /\ pc' = "cleanup"
  /\ UNCHANGED <<files, miscDisk, running, job>>

(* RK_ota_start removes done_file and returns. *)
Cleanup ==
  /\ pc = "cleanup"
  /\ done' = {}
  /\ pc' = "exit"
  /\ UNCHANGED <<flash, dst, misc, miscDisk, running, job>>

(* main returns, or resets the device when --reboot was given. *)
Exit ==
  /\ pc = "exit"
  /\ \/ pc' = "idle" /\ UNCHANGED miscDisk
     \/ pc' = "off" /\ Sync
  /\ Forget
  /\ UNCHANGED <<files, misc, running>>
-----------------------------------------------------------------------------
(* What may fail.                                                          *)

(* done_file cannot be opened, dst_file or the image not be read, the      *)
(* patched file not be made, a partition not be read back: an early return.*)
ReadFails ==
  /\ IoErrors
  /\ pc \in {"flash", "patch", "verify"}
  /\ Abort
  /\ UNCHANGED <<files, misc, miscDisk, running>>

(* block_write returns -2: before it wrote, or in the middle. *)
WriteFails ==
  /\ IoErrors
  /\ pc \in {"open", "write"}
  /\ ret' = 2
  /\ pc' = "record"
  /\ UNCHANGED <<files, misc, miscDisk, running, todo, source>>

(* block_write ignores the result of fsync: data that could not be written *)
(* back are lost and nobody is told.                                       *)
FsyncFails ==
  /\ IoErrors
  /\ pc = "write"
  /\ pc' = "record"
  /\ UNCHANGED <<files, misc, miscDisk, running, job>>

(* setSlotActivity fails; handle_upgrade_callback ignores it. *)
ActivityFails ==
  /\ IoErrors
  /\ pc = "finish"
  /\ pc' = "cleanup"
  /\ UNCHANGED <<files, misc, miscDisk, running, job>>

(* The running system has a boot left should it stop now: power is not     *)
(* lost, nor the confirmation refused, so often in a row that a slot is    *)
(* given up although it works.                                             *)
MayStop == Bootable(miscDisk[running])

(* setSlotSucceed fails; S99_bootcontrol ignores it. *)
ConfirmFails ==
  /\ IoErrors /\ MayStop
  /\ pc = "init"
  /\ pc' = "idle"
  /\ UNCHANGED <<files, misc, miscDisk, running, job>>

(* Power is lost: what was not synced is gone, and so is the process. *)
Crash ==
  /\ pc # "off"
  /\ MayStop
  /\ misc' = miscDisk
  /\ pc' = "off"
  /\ Forget
  /\ UNCHANGED <<files, miscDisk, running>>

Fault == ReadFails \/ WriteFails \/ FsyncFails \/ ActivityFails
           \/ ConfirmFails \/ Crash
-----------------------------------------------------------------------------
(* The rest of the device.                                                 *)

(* The boot loader starts the slot it prefers; a slot that does not boot   *)
(* ends in another reset.                                                  *)
Boot ==
  /\ pc = "off"
  /\ \E s \in Slots :
       /\ Preferred(miscDisk, s)
       /\ miscDisk' = UseTry(miscDisk, s)
       /\ IF Intact(s) THEN pc' = "init" /\ running' = s
                       ELSE UNCHANGED <<pc, running>>
  /\ misc' = miscDisk'
  /\ UNCHANGED <<files, job>>

(* S99_bootcontrol: updateEngine --misc=now. *)
Confirm ==
  /\ pc = "init"
  /\ misc' = SetSlotSucceed(misc, running, Mode)
  /\ pc' = "idle"
  /\ UNCHANGED <<files, miscDisk, running, job>>

(* The kernel writes the misc partition back; writeMisc_block does not     *)
(* wait for it.                                                            *)
WriteBack ==
  /\ misc # miscDisk
  /\ pc # "off"
  /\ Sync
  /\ UNCHANGED <<files, misc, running, pc, job>>

(* The system is rebooted in order. *)
Reboot ==
  /\ pc = "idle"
  /\ Sync
  /\ pc' = "off"
  /\ UNCHANGED <<files, misc, running, job>>

(* updateEngine --misc=other and --misc=now from a shell. *)
SwitchByHand ==
  /\ pc = "idle"
  /\ misc' = SetSlotActivity(misc, running)
  /\ UNCHANGED <<files, miscDisk, running, pc, job>>

ConfirmByHand ==
  /\ pc = "idle"
  /\ misc' = SetSlotSucceed(misc, running, Mode)
  /\ UNCHANGED <<files, miscDisk, running, pc, job>>

ByHand == SwitchByHand \/ ConfirmByHand

Engine == \/ StartEntry \/ EndPatch \/ RejectPatch \/ OpenDevice
          \/ FinishWrite \/ RecordDone \/ RemoveDst \/ Verify \/ Finish \/ Cleanup \/ Exit

Next == \/ StartUpdate \/ Engine \/ Fault
        \/ Boot \/ Confirm \/ WriteBack \/ Reboot \/ ByHand

Spec == Init /\ [][Next]_vars

(***************************************************************************)
(* Programs and the boot loader run; whoever maintains the device starts   *)
(* the update again as long as the old version runs, and reboots when      *)
(* another slot is waiting.                                                *)
(***************************************************************************)
WantsUpdate == Holds(running, "old") /\ ~Preferred(misc, 1 - running)
WantsReboot == Preferred(misc, 1 - running)

FairSpec ==
  /\ Spec
  /\ WF_vars(Engine) /\ WF_vars(Boot) /\ WF_vars(Confirm)
  /\ SF_vars(StartUpdate /\ WantsUpdate)
  /\ SF_vars(Reboot /\ WantsReboot)
-----------------------------------------------------------------------------
TypeOK ==
  /\ flash \in [Entries -> Contents]
  /\ dst \in [Items -> {"none", "partial", "good"}]
  /\ done \subseteq Items
  /\ misc \in Metadata /\ miscDisk \in Metadata
  /\ running \in Slots
  /\ pc \in Places
  /\ todo \subseteq Entries
  /\ source \in {"image", "dst"}
  /\ ret \in {0, 2}

(***************************************************************************)
(* The update never touches what the system runs from: the masks, the      *)
(* order of the table and the renaming of entries together only ever       *)
(* select devices of the other slot.                                       *)
(***************************************************************************)
RunningSlotUntouched ==
  [][\A i \in Entries : Table[i].slot = Suffix(running) =>
       flash'[i] = flash[i]]_vars

(***************************************************************************)
(* Whenever the device may be reset, the boot loader finds a way out: it   *)
(* prefers a slot that boots, or one on trial behind which stands a slot   *)
(* that boots.  In particular it never prefers a slot that is half written *)
(* and has been known to boot, which it would start for ever.              *)
(***************************************************************************)
OnTrial(m, s) == ~m[s].successful /\ Bootable(m[1 - s]) /\ Intact(1 - s)

SafeToStop ==
  pc = "off" \/ MayStop =>
    \E s \in Slots : /\ Preferred(miscDisk, s)
                     /\ Intact(s) \/ OnTrial(miscDisk, s)

(* No writer of the metadata leaves a slot both known to boot and with     *)
(* tries left, which the boot loader takes for unbootable, even when the   *)
(* two slots hold systems built the two ways.                              *)
NoConfusedSlot == \A s \in Slots : ~Confused(misc[s])

(***************************************************************************)
(* An update that reports success has written all of the other slot that   *)
(* the image is about, for items that are whole partitions: no error on    *)
(* the way, no restart and no skipped step hides a partition that is not   *)
(* new.                                                                    *)
(***************************************************************************)
FinishedMeansWritten ==
  pc \in {"finish", "cleanup", "exit"} =>
    \A i \in Parts(1 - running) :
      ItemFor(i, Items) \notin Patches => flash[i] = "new"

(***************************************************************************)
(* A power loss never leaves a partition torn without the patched file     *)
(* from which it can be written again: the partition was the only other    *)
(* source of the patch.                                                    *)
(***************************************************************************)
PatchRecoverable ==
  \A i \in Entries :
    Table[i].slot # "none" /\ flash[i] = "torn" /\ ItemFor(i, Items) \in Patches
      => dst[ItemFor(i, Items)] = "good"

(***************************************************************************)
(* Once faults and changes by hand are over, the new version gets to run:  *)
(* "so it can continue on upgrading after unexpected shutdown/reboot"      *)
(* (flash_image.c:206-208).                                                *)
(***************************************************************************)
UpdateCompletes ==
  <>[][~Fault /\ ~ByHand]_vars => <>Holds(running, "new")

(* Whatever happened, a device that is reset comes up again. *)
ComesUp == pc = "off" ~> pc = "init"
=============================================================================
