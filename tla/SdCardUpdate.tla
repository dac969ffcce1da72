---------------------------- MODULE SdCardUpdate ----------------------------
(* updateEngine --update=sdcard (project/SmartCam/app/update_engine): a    *)
(* system that runs from an SD card takes an image apart into files on the *)
(* card and writes a script of dd commands, one for each file, which the   *)
(* recovery system of the device runs after a reset.  The option for a USB *)
(* disk is never recognised (main.c reads optarg too late).                *)
EXTENDS UpdatePlan, SequencesExt

CONSTANTS
  Images,    \* the images somebody puts on the card
  ItemsOf,   \* the names of the items of each
  LayoutOf,  \* the partitions its parameter file lists
  Commented, \* those whose parameter file has a comment line
  MaxRuns    \* bound on the runs of updateEngine

VARIABLES
  image,    \* on the card
  file,     \* of each entry: what its file holds, an item of an image
  script,   \* cmd4recovery: the entries and where their files go
  pc, todo, \* updateEngine, and the entries it has still to go through
  listed,   \* param_item: the partitions flash_parameter has read
  status,   \* m_status of the last run
  lost,     \* history: in that run an fsync has failed, or a command was
            \* appended to one that was cut
  runs

vars == <<image, file, script, pc, todo, listed, status, lost, runs>>

Parameter == CHOOSE i \in Entries : Table[i] = Only("parameter")
Loader    == CHOOSE i \in Entries : Table[i] = Only("bootloader")

(* A command of which the end was not written, and one the next command    *)
(* was appended to.                                                        *)
Cut    == <<0, 0>>
Joined == <<0, 1>>

(* getParamFromString keeps what follows the colon in a name; the names    *)
(* are copied to RK_ota_start before create_gpt_buffer cuts it off.        *)
PlainName(p, name) == p.name = name /\ p.flag = "none"

(* create_gpt_buffer: where a partition begins and ends.                   *)
GptEntry(p, sectors) ==
  [name |-> p.name, bootable |-> p.flag = "bootable", first |-> p.offset,
   last |-> IF p.flag = "grow" THEN sectors - 34 ELSE p.offset + p.size - 1]
GptHeader(sectors) ==
  [mine |-> 1, alternate |-> sectors - 1, entries |-> 2,
   firstUsable |-> 34, lastUsable |-> sectors - 34]
(* prepare_gpt_backup, for the end of the disk.                            *)
GptBackup(header) ==
  [header EXCEPT !.mine = header.alternate, !.alternate = header.mine,
                 !.entries = header.lastUsable + 1]

(* Where the file of an entry goes, in sectors: flash_offset of the item,  *)
(* which for a partition is where the parameter file has it;               *)
(* flash_bootloader puts the loader at 32 KB.                              *)
FlashOffset(i) ==
  IF i = Loader THEN 64
  ELSE IF i = Parameter THEN 0
  ELSE (CHOOSE p \in LayoutOf[image] : p.name = Table[i]).offset

(* need_update, in RK_ota_set_partition: every item, whatever the mask.    *)
Needed == {i \in Entries : Table[i] \in ItemsOf[image]}

Init ==
  /\ image \in Images
  /\ file = [i \in Entries |-> "none"] /\ script = <<>>
  /\ pc = "idle" /\ todo = {} /\ listed = {}
  /\ status = "none" /\ lost = FALSE /\ runs = 0

Entry == CHOOSE i \in todo : \A j \in todo : i <= j

(* Partitions with a slot for which the image has only the item of the     *)
(* other slot get that one too.                                            *)
ToFix == {i \in Needed : /\ Slotted(Table[i]) /\ Partner(Table[i]) \notin ItemsOf[image]
                         /\ \E p \in listed : PlainName(p, Partner(Table[i]))}
FixOffset(i) == (CHOOSE p \in listed : PlainName(p, Partner(Table[i]))).offset
-----------------------------------------------------------------------------
(* main and the begin of RK_ota_start.                                     *)
Start ==
  /\ pc = "idle" /\ runs < MaxRuns
  /\ pc' = "flash" /\ todo' = Needed /\ listed' = {}
  /\ status' = "none" /\ lost' = FALSE /\ runs' = runs + 1
  /\ UNCHANGED <<image, file, script>>

(* flash_normal, flash_parameter and flash_bootloader make the file anew.  *)
OpenFile ==
  /\ pc = "flash" /\ todo # {} /\ ~(Entry = Parameter /\ image \in Commented)
  /\ file' = [file EXCEPT ![Entry] = "torn"]
  /\ listed' = IF Entry = Parameter THEN LayoutOf[image] ELSE listed
  /\ pc' = "write"
  /\ UNCHANGED <<image, script, todo, status, lost, runs>>

(* A comment line: getParamFromString looks at it for ever.                *)
Hang ==
  /\ pc = "flash" /\ todo # {} /\ Entry = Parameter /\ image \in Commented
  /\ pc' = "hung"
  /\ UNCHANGED <<image, file, script, todo, listed, status, lost, runs>>

FinishFile ==
  /\ pc = "write"
  /\ file' = [file EXCEPT ![Entry] = image] /\ pc' = "command"
  /\ UNCHANGED <<image, script, todo, listed, status, lost, runs>>

(* fsync fails: nobody looks, and nothing is read back in SD mode.         *)
FsyncFails ==
  /\ pc = "write"
  /\ pc' = "command" /\ lost' = TRUE
  /\ UNCHANGED <<image, file, script, todo, listed, status, runs>>

(* Mutant of Extended: the script is written from its begin.               *)
Prepended(command) == <<command>> \o script

(* ota_recovery_cmds: O_APPEND and O_SYNC.                                 *)
EndsCut == script # <<>> /\ Last(script) = Cut
Extended(command) ==
  IF EndsCut THEN [script EXCEPT ![Len(script)] = Joined] ELSE Append(script, command)
AppendCommand(i, offset) ==
  script' = Extended(<<i, offset>>) /\ lost' = (lost \/ EndsCut)

Command ==
  /\ pc = "command" /\ AppendCommand(Entry, FlashOffset(Entry))
  /\ todo' = todo \ {Entry} /\ pc' = "flash"
  /\ UNCHANGED <<image, file, listed, status, runs>>

(* All files are there: what is left is the other slot.                    *)
BeginFix ==
  /\ pc = "flash" /\ todo = {}
  /\ pc' = "fix" /\ todo' = ToFix
  /\ UNCHANGED <<image, file, script, listed, status, lost, runs>>

Fix ==
  /\ pc = "fix" /\ todo # {}
  /\ AppendCommand(Entry, FixOffset(Entry))
  /\ todo' = todo \ {Entry}
  /\ UNCHANGED <<image, file, pc, listed, status, runs>>

Finish ==
  /\ pc = "fix" /\ todo = {}
  /\ pc' = "idle" /\ status' = "finished"
  /\ UNCHANGED <<image, file, script, todo, listed, lost, runs>>

(* An error ends the run, and so does a power loss, or somebody who is     *)
(* tired of waiting.  The line that is being written may be cut.           *)
Break ==
  /\ pc # "idle"
  /\ pc' = "idle" /\ todo' = {}
  /\ status' = "error"
  /\ \/ UNCHANGED script
     \/ /\ (pc = "command" \/ (pc = "fix" /\ todo # {}))
        /\ script' = IF EndsCut THEN script ELSE Append(script, Cut)
  /\ UNCHANGED <<image, file, listed, lost, runs>>

(* Another image is copied over the one on the card.                       *)
CopyImage(im) ==
  /\ pc = "idle" /\ im # image
  /\ image' = im /\ status' = "none"
  /\ UNCHANGED <<file, script, pc, todo, listed, lost, runs>>

Next ==
  \/ Start \/ OpenFile \/ Hang \/ FinishFile \/ FsyncFails \/ Command
  \/ BeginFix \/ Fix \/ Finish \/ Break
  \/ \E im \in Images : CopyImage(im)

Spec == Init /\ [][Next]_vars
-----------------------------------------------------------------------------
(* What the commands leave at an offset when recovery has run them all in  *)
(* order.                                                                  *)
Leaves(offset) ==
  LET ks == {k \in DOMAIN script : script[k][1] # 0 /\ script[k][2] = offset}
      k  == CHOOSE k \in ks : \A j \in ks : j <= k
  IN  IF ks = {} THEN <<0, "none">> ELSE <<script[k][1], file[script[k][1]]>>

(* After a run that reported success the script leaves every item of the   *)
(* image where the new partition table has its partition, and the item of  *)
(* one slot in the other where that has none: whatever images, failures    *)
(* and power losses were before, whose commands are still in the script.   *)
(* It needs files that were synced and a first command that is not on one  *)
(* line with one cut off before; the other slot a name without a flag.     *)
ScriptInstalls ==
  status = "finished" /\ ~lost =>
    \A i \in Needed :
      /\ Leaves(FlashOffset(i)) = <<i, image>>
      /\ Parameter \in Needed /\ Slotted(Table[i]) /\ Partner(Table[i]) \notin ItemsOf[image] =>
           \A p \in LayoutOf[image] : PlainName(p, Partner(Table[i])) =>
             Leaves(GptEntry(p, 0).first) = <<i, image>>
=============================================================================
