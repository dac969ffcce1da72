------------------------ MODULE RecoveryUpdateProofs ------------------------
(* Proofs about RecoveryUpdate, for every image and with all faults: the *)
(* types for every mask, and for those that include recovery the         *)
(* partitions that each system leaves alone, and that there is always a  *)
(* way to boot; and about SdCardUpdate, for any images: the script of a run     *)
(* that has finished installs its image.                                 *)
(*                                                                       *)
(* The inductive invariant of the first ties what is still to write to   *)
(* the system that runs, the two copies of the message to each other,    *)
(* and both to what the partitions hold: the normal system's are whole   *)
(* unless the update of which the message tells is under way in          *)
(* recovery, and recovery is whole whenever a message waits.             *)
(*                                                                       *)
(* That of the second says of the entries the loop has left behind that  *)
(* their files are on the card and that the last command for their       *)
(* places is theirs: no two entries have the same place.                 *)
EXTENDS WithoutSlots, SequenceTheorems, WellFoundedInduction, TLAPS

LEMMA EntriesAre == Entries = 1 .. 16
BY DEF Entries, Table

(* The two updates: of recovery alone, and of everything else. *)
LEMMA SelectedFacts ==
  /\ \A mask : Selected(mask) \subseteq Entries
  /\ Recovery \in Entries
  /\ Selected({RecoveryBit}) \subseteq {Recovery}
  /\ ThroughRecovery => InNormal = {RecoveryBit}
  /\ Recovery \notin Selected(NeedUpdate)
  /\ SystemParts \subseteq Selected(NeedUpdate)
<1>1. \A mask : Selected(mask) \subseteq Entries
  BY DEF Selected, Matched, Marked
<1>2. \A mask : \A i \in Selected(mask) : i \in 1 .. 16 /\ 24 - i \in mask
  BY EntriesAre DEF Selected, Matched, Marked
<1>3. \A i \in Selected({RecoveryBit}) : i = Recovery
  BY <1>2 DEF RecoveryBit, Recovery
<1>4. Recovery \notin Selected(NeedUpdate)
  BY <1>2 DEF RecoveryBit, Recovery, NeedUpdate
<1> QED
  BY <1>1, <1>3, <1>4, EntriesAre DEF Recovery, RecoveryBit, SystemParts, InNormal

LEMMA MessageFacts ==
  /\ NoMessage # UpdateMessage /\ NoMessage # WipeMessage /\ UpdateMessage # WipeMessage
  /\ UpdateMessage.mask = NeedUpdate
  /\ \A m \in Messages : m.command = "update" <=> m = UpdateMessage
  /\ \A m \in Messages : m.command = "wipe" <=> m = WipeMessage
  /\ {NoMessage, UpdateMessage, WipeMessage} = Messages
<1>1. /\ NoMessage.command = "none" /\ UpdateMessage.command = "update"
      /\ WipeMessage.command = "wipe" /\ UpdateMessage.mask = NeedUpdate
  BY DEF NoMessage, UpdateMessage, WipeMessage, Message
<1> QED
  BY <1>1 DEF Messages

(* The loop goes through entries in their order.                           *)
LEMMA Smallest ==
  ASSUME NEW S, S \subseteq Entries, S # {}
  PROVE  \E i \in S : \A j \in S : i <= j
<1>1. S \subseteq Nat
  BY EntriesAre
<1> DEFINE Less == {p \in Nat \X Nat : p[1] < p[2]}
<1>2. IsWellFoundedOn(Less, Nat)
  BY NatLessThanWellFounded DEF OpToRel
<1>3. PICK i \in S : \A j \in S : ~(<<j, i>> \in Less)
  <2> HIDE DEF Less
  <2> QED
    BY <1>1, <1>2, WFMin
<1>4. ASSUME NEW j \in S PROVE i <= j
  <2>1. i \in Nat /\ j \in Nat
    BY <1>1
  <2>2. j < i => <<j, i>> \in Less
    BY <2>1
  <2>3. <<j, i>> \notin Less
    BY <1>3
  <2> QED
    BY <2>1, <2>2, <2>3
<1> QED
  BY <1>4

(* The entry the loop is at is one of those still to be written. *)
LEMMA EntryInTodo ==
  ASSUME todo \subseteq Entries, todo # {}
  PROVE  Entry \in todo
BY Smallest DEF Entry
-----------------------------------------------------------------------------
(* The loop of RK_ota_start is at an entry. *)
Working == pc \in {"flash", "write", "verify"}

PlaceInv ==
  /\ Working <=> todo # {}
  /\ system = "none" => pc = "idle" /\ message = messageDisk
  /\ system = "normal" => todo \subseteq Selected(InNormal)
  /\ system = "recovery" => todo \subseteq Selected(NeedUpdate)

MessageInv ==
  /\ system = "normal" /\ message = NoMessage => messageDisk = NoMessage
  /\ Patient /\ system = "normal" /\ pc \notin {"idle", "exit"} => message = NoMessage
  /\ system = "recovery" =>
       /\ pc # "exit" => message = messageDisk
       /\ pc \notin {"idle", "exit"} => message = UpdateMessage
       /\ pc = "exit" => message = NoMessage

(* The normal system, and how far the update in recovery has got. *)
SystemInv ==
  /\ system = "normal" => Whole(SystemParts)
  /\ Whole(SystemParts) \/ (message = UpdateMessage /\ messageDisk = UpdateMessage)
  /\ system = "recovery" /\ pc \notin {"idle", "exit"} =>
       \A i \in SystemParts \ todo : flash[i] = "new"

(* The recovery system, and the update of it. *)
HasRecovery == Recovery \in Selected({RecoveryBit})
RecoveryInv ==
  /\ ~HasRecovery => flash[Recovery] = "old"
  /\ system = "recovery" => flash[Recovery] # "torn"
  /\ message # NoMessage \/ messageDisk # NoMessage => flash[Recovery] # "torn"
  /\ HasRecovery /\ system = "normal" /\ pc \in {"finish", "message"}
       => flash[Recovery] = "new"
  /\ HasRecovery /\ UpdateMessage \in {message, messageDisk} => flash[Recovery] = "new"

IInv ==
  /\ TypeOK /\ PlaceInv /\ MessageInv
  /\ Patient /\ ThroughRecovery => SystemInv /\ RecoveryInv
-----------------------------------------------------------------------------
LEMMA TypeStep ==
  ASSUME TypeOK, [Next]_vars
  PROVE  TypeOK'
<1>1. CASE StartInNormal
  BY <1>1, SelectedFacts, MessageFacts
  DEF StartInNormal, TypeOK, Places, Systems, Begin
<1>2. CASE StartInRecovery
  BY <1>2, SelectedFacts, MessageFacts
  DEF StartInRecovery, TypeOK, Places, Systems, Begin
<1>3. CASE OpenDevice
  BY <1>3, SelectedFacts, MessageFacts
  DEF OpenDevice, TypeOK, Places, Systems
<1>4. CASE FinishWrite
  BY <1>4, SelectedFacts, MessageFacts
  DEF FinishWrite, TypeOK, Places, Systems
<1>5. CASE Verify
  BY <1>5, SelectedFacts, MessageFacts
  DEF Verify, TypeOK, Places, Systems, Abort
<1>6. CASE Finish
  BY <1>6, SelectedFacts, MessageFacts
  DEF Finish, TypeOK, Places, Systems
<1>7. CASE LeaveMessage
  BY <1>7, SelectedFacts, MessageFacts
  DEF LeaveMessage, TypeOK, Places, Systems
<1>8. CASE Exit
  BY <1>8, SelectedFacts, MessageFacts
  DEF Exit, TypeOK, Places, Systems, Sync
<1>9. CASE ClearMessage
  BY <1>9, SelectedFacts, MessageFacts
  DEF ClearMessage, TypeOK, Places, Systems
<1>10. CASE LeaveRecovery
  BY <1>10, SelectedFacts, MessageFacts
  DEF LeaveRecovery, TypeOK, Places, Systems, Sync
<1>11. CASE Boot
  BY <1>11, SelectedFacts, MessageFacts
  DEF Boot, TypeOK, Places, Systems, Target
<1>12. CASE WriteBack
  BY <1>12, SelectedFacts, MessageFacts
  DEF WriteBack, TypeOK, Places, Systems, Sync
<1>13. CASE Reboot
  BY <1>13, SelectedFacts, MessageFacts
  DEF Reboot, TypeOK, Places, Systems, Sync
<1>14. CASE FsyncFails
  BY <1>14, SelectedFacts, MessageFacts
  DEF FsyncFails, TypeOK, Places, Systems
<1>15. CASE EntryFails
  BY <1>15, SelectedFacts, MessageFacts
  DEF EntryFails, TypeOK, Places, Systems, Abort
<1>16. CASE MessageFails
  BY <1>16, SelectedFacts, MessageFacts
  DEF MessageFails, TypeOK, Places, Systems
<1>17. CASE Crash
  BY <1>17, SelectedFacts, MessageFacts
  DEF Crash, TypeOK, Places, Systems, Abort
<1>18. CASE WipeUserdata
  BY <1>18, SelectedFacts, MessageFacts
  DEF WipeUserdata, TypeOK, Places, Systems
<1>19. CASE UNCHANGED vars
  BY <1>19, SelectedFacts, MessageFacts DEF vars, TypeOK, Places, Systems
<1> QED
  BY <1>1, <1>2, <1>3, <1>4, <1>5, <1>6, <1>7, <1>8, <1>9, <1>10, <1>11, <1>12, <1>13, <1>14, <1>15, <1>16, <1>17, <1>18, <1>19 DEF Next, Engine, Fault, ByHand

(* What is left to write stays with the system it was selected for. *)
LEMMA PlaceStep ==
  ASSUME TypeOK, PlaceInv, MessageInv, [Next]_vars
  PROVE  PlaceInv'
<1>1. CASE StartInNormal
  BY <1>1
  DEF StartInNormal, TypeOK, PlaceInv, Working, Begin
<1>2. CASE StartInRecovery
  BY <1>2, MessageFacts
  DEF StartInRecovery, TypeOK, PlaceInv, Working, Begin
<1>3. CASE OpenDevice
  BY <1>3
  DEF OpenDevice, TypeOK, PlaceInv, Working
<1>4. CASE FinishWrite
  BY <1>4
  DEF FinishWrite, TypeOK, PlaceInv, Working
<1>5. CASE Verify
  BY <1>5, EntryInTodo
  DEF Verify, TypeOK, PlaceInv, Working, Abort
<1>6. CASE Finish
  BY <1>6
  DEF Finish, TypeOK, PlaceInv, Working
<1>7. CASE LeaveMessage
  BY <1>7
  DEF LeaveMessage, TypeOK, PlaceInv, Working
<1>8. CASE Exit
  BY <1>8
  DEF Exit, TypeOK, PlaceInv, Working, Sync
<1>9. CASE ClearMessage
  BY <1>9
  DEF ClearMessage, TypeOK, PlaceInv, Working
<1>10. CASE LeaveRecovery
  BY <1>10
  DEF LeaveRecovery, TypeOK, PlaceInv, Working, Sync
<1>11. CASE Boot
  BY <1>11
  DEF Boot, TypeOK, PlaceInv, Working, Target
<1>12. CASE WriteBack
  BY <1>12
  DEF WriteBack, TypeOK, PlaceInv, Working, Sync
<1>13. CASE Reboot
  BY <1>13
  DEF Reboot, TypeOK, PlaceInv, Working, Sync
<1>14. CASE FsyncFails
  BY <1>14
  DEF FsyncFails, TypeOK, PlaceInv, Working
<1>15. CASE EntryFails
  BY <1>15
  DEF EntryFails, TypeOK, PlaceInv, Working, Abort
<1>16. CASE MessageFails
  BY <1>16
  DEF MessageFails, TypeOK, PlaceInv, Working
<1>17. CASE Crash
  BY <1>17
  DEF Crash, TypeOK, PlaceInv, Working, Abort
<1>18. CASE WipeUserdata
  BY <1>18
  DEF WipeUserdata, TypeOK, PlaceInv, Working
<1>19. CASE UNCHANGED vars
  BY <1>19 DEF vars, TypeOK, PlaceInv, Working
<1> QED
  BY <1>1, <1>2, <1>3, <1>4, <1>5, <1>6, <1>7, <1>8, <1>9, <1>10, <1>11, <1>12, <1>13, <1>14, <1>15, <1>16, <1>17, <1>18, <1>19 DEF Next, Engine, Fault, ByHand

(* The message and its copy on disk. *)
LEMMA MessageStep ==
  ASSUME TypeOK, PlaceInv, MessageInv, [Next]_vars
  PROVE  MessageInv'
<1>1. CASE StartInNormal
  BY <1>1, MessageFacts
  DEF StartInNormal, TypeOK, PlaceInv, MessageInv, Working, Begin
<1>2. CASE StartInRecovery
  BY <1>2, MessageFacts
  DEF StartInRecovery, TypeOK, PlaceInv, MessageInv, Working, Begin
<1>3. CASE OpenDevice
  BY <1>3, MessageFacts
  DEF OpenDevice, TypeOK, PlaceInv, MessageInv, Working
<1>4. CASE FinishWrite
  BY <1>4, MessageFacts
  DEF FinishWrite, TypeOK, PlaceInv, MessageInv, Working
<1>5. CASE Verify
  BY <1>5, MessageFacts
  DEF Verify, TypeOK, PlaceInv, MessageInv, Working, Abort
<1>6. CASE Finish
  BY <1>6, MessageFacts
  DEF Finish, TypeOK, PlaceInv, MessageInv, Working
<1>7. CASE LeaveMessage
  BY <1>7, MessageFacts
  DEF LeaveMessage, TypeOK, PlaceInv, MessageInv, Working
<1>8. CASE Exit
  BY <1>8, MessageFacts
  DEF Exit, TypeOK, PlaceInv, MessageInv, Working, Sync
<1>9. CASE ClearMessage
  BY <1>9, MessageFacts
  DEF ClearMessage, TypeOK, PlaceInv, MessageInv, Working
<1>10. CASE LeaveRecovery
  BY <1>10, MessageFacts
  DEF LeaveRecovery, TypeOK, PlaceInv, MessageInv, Working, Sync
<1>11. CASE Boot
  BY <1>11, MessageFacts
  DEF Boot, TypeOK, PlaceInv, MessageInv, Working, Target
<1>12. CASE WriteBack
  BY <1>12, MessageFacts
  DEF WriteBack, TypeOK, PlaceInv, MessageInv, Working, Sync
<1>13. CASE Reboot
  BY <1>13, MessageFacts
  DEF Reboot, TypeOK, PlaceInv, MessageInv, Working, Sync
<1>14. CASE FsyncFails
  BY <1>14, MessageFacts
  DEF FsyncFails, TypeOK, PlaceInv, MessageInv, Working
<1>15. CASE EntryFails
  BY <1>15, MessageFacts
  DEF EntryFails, TypeOK, PlaceInv, MessageInv, Working, Abort
<1>16. CASE MessageFails
  BY <1>16, MessageFacts
  DEF MessageFails, TypeOK, PlaceInv, MessageInv, Working
<1>17. CASE Crash
  BY <1>17, MessageFacts
  DEF Crash, TypeOK, PlaceInv, MessageInv, Working, Abort
<1>18. CASE WipeUserdata
  BY <1>18, MessageFacts
  DEF WipeUserdata, TypeOK, PlaceInv, MessageInv, Working
<1>19. CASE UNCHANGED vars
  BY <1>19, MessageFacts DEF vars, TypeOK, PlaceInv, MessageInv, Working
<1> QED
  BY <1>1, <1>2, <1>3, <1>4, <1>5, <1>6, <1>7, <1>8, <1>9, <1>10, <1>11, <1>12, <1>13, <1>14, <1>15, <1>16, <1>17, <1>18, <1>19 DEF Next, Engine, Fault, ByHand

(* The two steps that write a partition write one that is still to do.     *)
LEMMA WriteFacts ==
  ASSUME TypeOK, PlaceInv, OpenDevice \/ FinishWrite
  PROVE  /\ Entry \in todo /\ Working /\ Working'
         /\ \A i \in Entries : flash'[i] = flash[i] \/ i = Entry
         /\ system \in {"normal", "recovery"}
         /\ UNCHANGED <<message, messageDisk, system, todo>>
<1>1. todo # {} /\ Working /\ Working' /\ system \in {"normal", "recovery"}
  BY DEF TypeOK, PlaceInv, Working, Systems, OpenDevice, FinishWrite
<1>2. Entry \in todo
  BY <1>1, EntryInTodo DEF TypeOK
<1> QED
  BY <1>1, <1>2 DEF TypeOK, OpenDevice, FinishWrite

(* Only recovery writes the normal system, and clears the message when all *)
(* of it is new.                                                           *)
LEMMA SystemStep ==
  ASSUME TypeOK, PlaceInv, MessageInv, Patient, ThroughRecovery, SystemInv, [Next]_vars
  PROVE  SystemInv'
<1>1. CASE StartInNormal
  BY <1>1, SelectedFacts, MessageFacts
  DEF StartInNormal, TypeOK, PlaceInv, MessageInv, Working, SystemInv, Whole, Begin
<1>2. CASE StartInRecovery
  BY <1>2, SelectedFacts, MessageFacts
  DEF StartInRecovery, TypeOK, PlaceInv, MessageInv, Working, SystemInv, Whole, Begin
<1>3. CASE OpenDevice
  <2>1. CASE system = "normal"
    <3>1. \A i \in SystemParts : flash'[i] = flash[i]
      BY <1>3, <2>1, WriteFacts, SelectedFacts DEF PlaceInv
    <3> QED
      BY <1>3, <2>1, <3>1, WriteFacts DEF SystemInv, Whole
  <2>2. CASE system = "recovery"
    <3>1. message = UpdateMessage /\ messageDisk = UpdateMessage
      BY <1>3, <2>2 DEF MessageInv, OpenDevice
    <3>2. \A i \in SystemParts \ todo : flash'[i] = flash[i]
      BY <1>3, WriteFacts, SelectedFacts
    <3> QED
      BY <1>3, <2>2, <3>1, <3>2, WriteFacts DEF SystemInv, Working
  <2> QED
    BY <1>3, <2>1, <2>2, WriteFacts
<1>4. CASE FinishWrite
  <2>1. CASE system = "normal"
    <3>1. \A i \in SystemParts : flash'[i] = flash[i]
      BY <1>4, <2>1, WriteFacts, SelectedFacts DEF PlaceInv
    <3> QED
      BY <1>4, <2>1, <3>1, WriteFacts DEF SystemInv, Whole
  <2>2. CASE system = "recovery"
    <3>1. message = UpdateMessage /\ messageDisk = UpdateMessage
      BY <1>4, <2>2 DEF MessageInv, FinishWrite
    <3>2. \A i \in SystemParts \ todo : flash'[i] = flash[i]
      BY <1>4, WriteFacts, SelectedFacts
    <3> QED
      BY <1>4, <2>2, <3>1, <3>2, WriteFacts DEF SystemInv, Working
  <2> QED
    BY <1>4, <2>1, <2>2, WriteFacts
<1>5. CASE Verify
  BY <1>5, SelectedFacts, MessageFacts, EntryInTodo
  DEF Verify, TypeOK, PlaceInv, MessageInv, Working, SystemInv, Whole, Abort
<1>6. CASE Finish
  BY <1>6, SelectedFacts, MessageFacts
  DEF Finish, TypeOK, PlaceInv, MessageInv, Working, SystemInv, Whole
<1>7. CASE LeaveMessage
  BY <1>7, SelectedFacts, MessageFacts
  DEF LeaveMessage, TypeOK, PlaceInv, MessageInv, Working, SystemInv, Whole
<1>8. CASE Exit
  BY <1>8, SelectedFacts, MessageFacts
  DEF Exit, TypeOK, PlaceInv, MessageInv, Working, SystemInv, Whole, Sync
<1>9. CASE ClearMessage
  BY <1>9, SelectedFacts, MessageFacts
  DEF ClearMessage, TypeOK, PlaceInv, MessageInv, Working, SystemInv, Whole
<1>10. CASE LeaveRecovery
  BY <1>10, SelectedFacts, MessageFacts
  DEF LeaveRecovery, TypeOK, PlaceInv, MessageInv, Working, SystemInv, Whole, Sync
<1>11. CASE Boot
  BY <1>11, SelectedFacts, MessageFacts
  DEF Boot, TypeOK, PlaceInv, MessageInv, Working, SystemInv, Whole, Target, Starts
<1>12. CASE WriteBack
  BY <1>12, SelectedFacts, MessageFacts
  DEF WriteBack, TypeOK, PlaceInv, MessageInv, Working, SystemInv, Whole, Sync
<1>13. CASE Reboot
  BY <1>13, SelectedFacts, MessageFacts
  DEF Reboot, TypeOK, PlaceInv, MessageInv, Working, SystemInv, Whole, Sync
<1>14. CASE FsyncFails
  BY <1>14, SelectedFacts, MessageFacts
  DEF FsyncFails, TypeOK, PlaceInv, MessageInv, Working, SystemInv, Whole
<1>15. CASE EntryFails
  BY <1>15, SelectedFacts, MessageFacts
  DEF EntryFails, TypeOK, PlaceInv, MessageInv, Working, SystemInv, Whole, Abort
<1>16. CASE MessageFails
  BY <1>16, SelectedFacts, MessageFacts
  DEF MessageFails, TypeOK, PlaceInv, MessageInv, Working, SystemInv, Whole
<1>17. CASE Crash
  BY <1>17, SelectedFacts, MessageFacts
  DEF Crash, TypeOK, PlaceInv, MessageInv, Working, SystemInv, Whole, Abort
<1>18. CASE WipeUserdata
  BY <1>18, SelectedFacts, MessageFacts
  DEF WipeUserdata, TypeOK, PlaceInv, MessageInv, Working, SystemInv, Whole
<1>19. CASE UNCHANGED vars
  BY <1>19, SelectedFacts, MessageFacts DEF vars, TypeOK, PlaceInv, MessageInv, Working, SystemInv, Whole
<1> QED
  BY <1>1, <1>2, <1>3, <1>4, <1>5, <1>6, <1>7, <1>8, <1>9, <1>10, <1>11, <1>12, <1>13, <1>14, <1>15, <1>16, <1>17, <1>18, <1>19 DEF Next, Engine, Fault, ByHand

(* Only the normal system writes recovery, and never while a message waits. *)
LEMMA RecoveryStep ==
  ASSUME TypeOK, PlaceInv, MessageInv, Patient, ThroughRecovery, RecoveryInv, [Next]_vars
  PROVE  RecoveryInv'
<1>1. CASE StartInNormal
  BY <1>1, SelectedFacts, MessageFacts
  DEF StartInNormal, TypeOK, PlaceInv, MessageInv, Working, RecoveryInv, HasRecovery, Begin
<1>2. CASE StartInRecovery
  BY <1>2, SelectedFacts, MessageFacts
  DEF StartInRecovery, TypeOK, PlaceInv, MessageInv, Working, RecoveryInv, HasRecovery, Begin
<1>3. CASE OpenDevice
  <2>1. CASE system = "normal"
    <3>1. HasRecovery /\ message = NoMessage /\ messageDisk = NoMessage
      BY <1>3, <2>1, WriteFacts, SelectedFacts
      DEF PlaceInv, MessageInv, Working, HasRecovery
    <3> QED
      BY <1>3, <2>1, <3>1, WriteFacts, MessageFacts DEF RecoveryInv, Working
  <2>2. CASE system = "recovery"
    <3>1. flash'[Recovery] = flash[Recovery]
      BY <1>3, <2>2, WriteFacts, SelectedFacts DEF PlaceInv
    <3> QED
      BY <1>3, <2>2, <3>1, WriteFacts DEF RecoveryInv
  <2> QED
    BY <1>3, <2>1, <2>2, WriteFacts
<1>4. CASE FinishWrite
  <2>1. CASE system = "normal"
    <3>1. HasRecovery /\ message = NoMessage /\ messageDisk = NoMessage
      BY <1>4, <2>1, WriteFacts, SelectedFacts
      DEF PlaceInv, MessageInv, Working, HasRecovery
    <3> QED
      BY <1>4, <2>1, <3>1, WriteFacts, MessageFacts DEF RecoveryInv, Working
  <2>2. CASE system = "recovery"
    <3>1. flash'[Recovery] = flash[Recovery]
      BY <1>4, <2>2, WriteFacts, SelectedFacts DEF PlaceInv
    <3> QED
      BY <1>4, <2>2, <3>1, WriteFacts DEF RecoveryInv
  <2> QED
    BY <1>4, <2>1, <2>2, WriteFacts
<1>5. CASE Verify
  BY <1>5, SelectedFacts, MessageFacts, EntryInTodo
  DEF Verify, TypeOK, PlaceInv, MessageInv, Working, RecoveryInv, HasRecovery, Abort
<1>6. CASE Finish
  BY <1>6, SelectedFacts, MessageFacts
  DEF Finish, TypeOK, PlaceInv, MessageInv, Working, RecoveryInv, HasRecovery
<1>7. CASE LeaveMessage
  BY <1>7, SelectedFacts, MessageFacts
  DEF LeaveMessage, TypeOK, PlaceInv, MessageInv, Working, RecoveryInv, HasRecovery
<1>8. CASE Exit
  BY <1>8, SelectedFacts, MessageFacts
  DEF Exit, TypeOK, PlaceInv, MessageInv, Working, RecoveryInv, HasRecovery, Sync
<1>9. CASE ClearMessage
  BY <1>9, SelectedFacts, MessageFacts
  DEF ClearMessage, TypeOK, PlaceInv, MessageInv, Working, RecoveryInv, HasRecovery
<1>10. CASE LeaveRecovery
  BY <1>10, SelectedFacts, MessageFacts
  DEF LeaveRecovery, TypeOK, PlaceInv, MessageInv, Working, RecoveryInv, HasRecovery, Sync
<1>11. CASE Boot
  BY <1>11, SelectedFacts, MessageFacts
  DEF Boot, TypeOK, PlaceInv, MessageInv, Working, RecoveryInv, HasRecovery, Target, Starts
<1>12. CASE WriteBack
  BY <1>12, SelectedFacts, MessageFacts
  DEF WriteBack, TypeOK, PlaceInv, MessageInv, Working, RecoveryInv, HasRecovery, Sync
<1>13. CASE Reboot
  BY <1>13, SelectedFacts, MessageFacts
  DEF Reboot, TypeOK, PlaceInv, MessageInv, Working, RecoveryInv, HasRecovery, Sync
<1>14. CASE FsyncFails
  BY <1>14, SelectedFacts, MessageFacts
  DEF FsyncFails, TypeOK, PlaceInv, MessageInv, Working, RecoveryInv, HasRecovery
<1>15. CASE EntryFails
  BY <1>15, SelectedFacts, MessageFacts
  DEF EntryFails, TypeOK, PlaceInv, MessageInv, Working, RecoveryInv, HasRecovery, Abort
<1>16. CASE MessageFails
  BY <1>16, SelectedFacts, MessageFacts
  DEF MessageFails, TypeOK, PlaceInv, MessageInv, Working, RecoveryInv, HasRecovery
<1>17. CASE Crash
  BY <1>17, SelectedFacts, MessageFacts
  DEF Crash, TypeOK, PlaceInv, MessageInv, Working, RecoveryInv, HasRecovery, Abort
<1>18. CASE WipeUserdata
  BY <1>18, SelectedFacts, MessageFacts
  DEF WipeUserdata, TypeOK, PlaceInv, MessageInv, Working, RecoveryInv, HasRecovery
<1>19. CASE UNCHANGED vars
  BY <1>19, SelectedFacts, MessageFacts DEF vars, TypeOK, PlaceInv, MessageInv, Working, RecoveryInv, HasRecovery
<1> QED
  BY <1>1, <1>2, <1>3, <1>4, <1>5, <1>6, <1>7, <1>8, <1>9, <1>10, <1>11, <1>12, <1>13, <1>14, <1>15, <1>16, <1>17, <1>18, <1>19 DEF Next, Engine, Fault, ByHand
-----------------------------------------------------------------------------
LEMMA InitInvariant == Init => IInv
<1> SUFFICES ASSUME Init PROVE IInv
  OBVIOUS
<1>1. TypeOK
  BY MessageFacts DEF Init, TypeOK, Places, Systems
<1>2. PlaceInv /\ MessageInv
  BY MessageFacts DEF Init, PlaceInv, MessageInv, Working
<1>3. SystemInv
  BY SelectedFacts DEF Init, SystemInv, Whole
<1>4. RecoveryInv
  BY SelectedFacts, MessageFacts DEF Init, RecoveryInv
<1> QED
  BY <1>1, <1>2, <1>3, <1>4 DEF IInv

LEMMA NextInvariant == IInv /\ [Next]_vars => IInv'
<1> SUFFICES ASSUME IInv, [Next]_vars PROVE IInv'
  OBVIOUS
<1>1. TypeOK' /\ PlaceInv' /\ MessageInv'
  BY TypeStep, PlaceStep, MessageStep DEF IInv
<1>2. Patient /\ ThroughRecovery => SystemInv' /\ RecoveryInv'
  BY SystemStep, RecoveryStep DEF IInv
<1> QED
  BY <1>1, <1>2 DEF IInv

LEMMA Invariant == Spec => []IInv
BY InitInvariant, NextInvariant, PTL DEF Spec

(* Every variable keeps its type: no update selects an entry that is not in *)
(* the table, and the message is one of the three (main.c, rkbootloader.c). *)
THEOREM TypeCorrect == Spec => []TypeOK
<1>1. IInv => TypeOK
  BY DEF IInv
<1> QED
  BY <1>1, Invariant, PTL

(* In an update that goes through recovery there is always a complete      *)
(* system for the boot loader to start: of the order of the steps in       *)
(* MiscUpdate, and for every image.                                        *)
THEOREM BootsAlways == Spec => []AlwaysBoots
<1>1. IInv => AlwaysBoots
  <2> SUFFICES ASSUME IInv, Patient, ThroughRecovery
               PROVE  Starts(Target(message)) /\ Starts(Target(messageDisk))
    BY DEF AlwaysBoots
  <2>1. message # NoMessage \/ messageDisk # NoMessage => flash[Recovery] # "torn"
    BY DEF IInv, RecoveryInv
  <2>2. message = NoMessage \/ messageDisk = NoMessage => Whole(SystemParts)
    BY MessageFacts DEF IInv, SystemInv
  <2> QED
    BY <2>1, <2>2 DEF Starts, Target
<1> QED
  BY <1>1, Invariant, PTL

(* The update is handed over to no recovery system but the new one.        *)
THEOREM HandedToNewRecovery == Spec => []NewRecovery
<1>1. IInv => NewRecovery
  BY DEF IInv, RecoveryInv, HasRecovery, NewRecovery
<1> QED
  BY <1>1, Invariant, PTL

(* In an update that goes through recovery no system writes the partitions *)
(* it runs from, whatever fails and however often it is started: only with *)
(* the bit of recovery in the mask does MiscUpdate take that way.          *)
THEOREM LeavesRunningAlone == Spec => RunningUntouched
<1> DEFINE Untouched ==
      ThroughRecovery => \A i \in Entries :
        flash'[i] # flash[i] =>
          IF system = "normal" THEN i = Recovery ELSE system = "recovery" /\ i # Recovery
<1>1. ASSUME IInv, [Next]_vars PROVE [Untouched]_vars
  <2>1. CASE UNCHANGED vars
    BY <2>1
  <2>2. CASE OpenDevice \/ FinishWrite
    BY <1>1, <2>2, WriteFacts, SelectedFacts DEF IInv, PlaceInv
  <2>3. CASE Next /\ ~OpenDevice /\ ~FinishWrite
    <3>1. flash' = flash
      BY <2>3 DEF Next, Engine, Fault, ByHand, StartInNormal, StartInRecovery, Begin,
                  Verify, Abort, Finish, LeaveMessage, Exit, ClearMessage,
                  LeaveRecovery, Boot, WriteBack, Reboot, FsyncFails, EntryFails,
                  MessageFails, Crash, WipeUserdata
    <3> QED
      BY <3>1
  <2> QED
    BY <1>1, <2>1, <2>2, <2>3
<1> QED
  BY <1>1, Invariant, PTL DEF Spec, RunningUntouched
-----------------------------------------------------------------------------
(* An SD card with a script (SdCardUpdate).  LastAt: of the commands for   *)
(* an offset the last is that of an entry.                                 *)
LastAt(s, i, offset) ==
  \E k \in 1 .. Len(s) :
    /\ s[k] = <<i, offset>>
    /\ \A j \in 1 .. Len(s) : s[j][1] # 0 /\ s[j][2] = offset => j <= k

Flashing == place \in {"flash", "write", "command"}
Fixing   == place = "fix" \/ status = "finished"

CardTyped ==
  /\ image \in Images /\ script \in Seq(Nat \X Nat)
  /\ file \in [Entries -> Images \cup {"none", "torn"}]
  /\ place = "idle" => left = {}
  /\ Flashing => left \subseteq Card!Needed
  /\ place \in {"write", "command"} => left # {}
  /\ place = "fix" => left \subseteq Card!ToFix
  /\ status = "finished" => place = "idle"

(* flash_parameter has read the partitions before anybody looks for one.   *)
ListedInv ==
  /\ Flashing \/ Fixing => listed \in {{}, LayoutOf[image]}
  /\ Card!Parameter \in Card!Needed =>
       /\ Flashing => Card!Parameter \in left \/ listed = LayoutOf[image]
       /\ place \in {"write", "command"} =>
            Card!Entry # Card!Parameter \/ listed = LayoutOf[image]
       /\ Fixing => listed = LayoutOf[image]

(* What the run has done: its files are on the card, and the last commands *)
(* for their offsets are its own.                                          *)
Installed(i) == file[i] = image /\ LastAt(script, i, Card!FlashOffset(i))

DoneInv ==
  ~lost =>
    /\ Flashing => \A i \in Card!Needed \ left : Installed(i)
    /\ place = "command" => file[Card!Entry] = image
    /\ Fixing =>
         /\ \A i \in Card!Needed : Installed(i)
         /\ \A i \in Card!ToFix \ left : LastAt(script, i, Card!FixOffset(i))

CardInv == CardTyped /\ ListedInv /\ DoneInv

-----------------------------------------------------------------------------
(* The two updates share the table. *)
LEMMA SameTable ==
  /\ Card!Entries = Entries /\ Card!Table = Table
  /\ \A base : Card!Only(base) = Only(base)
  /\ \A name : Card!Slotted(name) = Slotted(name) /\ Card!Partner(name) = Partner(name)
BY DEF Card!Entries, Entries, Card!Table, Table, Card!Only, Only, Card!InA, InA, Card!InB, InB,
       Card!Slotted, Slotted, Card!Partner, Partner

(* No two entries are the same partition, or go to the same other slot. *)
LEMMA TableFacts ==
  /\ \A i, j \in Entries : Table[i] = Table[j] => i = j
  /\ \A i \in Entries : Slotted(Table[i]) => Table[i].slot \in {"a", "b"}
  /\ \A i, j \in Entries :
       Slotted(Table[i]) /\ Slotted(Table[j]) /\ Partner(Table[i]) = Partner(Table[j]) => i = j
  /\ Card!Parameter \in Entries /\ Table[Card!Parameter] = Only("parameter")
  /\ Card!Loader \in Entries /\ Table[Card!Loader] = Only("bootloader")
<1>1. \A i \in Entries : Table[i].slot \in {"none", "a", "b"}
  BY EntriesAre DEF Table, Only, InA, InB
<1>2. \A i, j \in Entries : Table[i] = Table[j] => i = j
  BY EntriesAre DEF Table, Only, InA, InB
<1>3. \A i \in Entries : Table[i] = [base |-> Table[i].base, slot |-> Table[i].slot]
  BY EntriesAre DEF Table, Only, InA, InB
<1>4. ASSUME NEW i \in Entries, NEW j \in Entries, Slotted(Table[i]), Slotted(Table[j]),
             Partner(Table[i]) = Partner(Table[j])
      PROVE  i = j
  <2>1. /\ Partner(Table[i]).base = Table[i].base /\ Partner(Table[j]).base = Table[j].base
        /\ Partner(Table[i]).slot = IF Table[i].slot = "a" THEN "b" ELSE "a"
        /\ Partner(Table[j]).slot = IF Table[j].slot = "a" THEN "b" ELSE "a"
    BY <1>3 DEF Partner
  <2>2. Table[i].slot = Table[j].slot /\ Table[i].base = Table[j].base
    BY <1>1, <1>4, <2>1 DEF Slotted
  <2> QED
    BY <1>2, <1>3, <2>2
<1>5. 1 \in Entries /\ 2 \in Entries
      /\ Table[1] = Only("bootloader") /\ Table[2] = Only("parameter")
  BY EntriesAre DEF Table
<1>6. Card!Parameter \in Entries /\ Table[Card!Parameter] = Only("parameter")
  BY <1>5, SameTable DEF Card!Parameter
<1>7. Card!Loader \in Entries /\ Table[Card!Loader] = Only("bootloader")
  BY <1>5, SameTable DEF Card!Loader
<1> QED
  BY <1>1, <1>2, <1>4, <1>6, <1>7 DEF Slotted

(* No two entries have the same offset: of the layout of an image, with    *)
(* the boot loader before the first partition.                             *)
LEMMA Offsets ==
  ASSUME CardTyped
  PROVE  /\ Card!Needed \subseteq Entries /\ Card!ToFix \subseteq Card!Needed
         /\ \A i \in Card!Needed : Card!FlashOffset(i) \in Nat
         /\ \A i, j \in Card!Needed : Card!FlashOffset(i) = Card!FlashOffset(j) => i = j
         /\ listed \subseteq LayoutOf[image] =>
              /\ \A i \in Card!ToFix : Card!FixOffset(i) \in Nat
              /\ \A i \in Card!ToFix, j \in Card!Needed :
                   Card!FixOffset(i) # Card!FlashOffset(j)
              /\ \A i, j \in Card!ToFix : Card!FixOffset(i) = Card!FixOffset(j) => i = j
<1> DEFINE L == LayoutOf[image]
<1>1. /\ \A p \in L : p.offset \in Nat \ {0, 64}
      /\ \A p, q \in L : p.name = q.name \/ p.offset = q.offset => p = q
      /\ \A i \in Entries : Table[i] \in ItemsOf[image] \ {Only("parameter"), Only("bootloader")}
           => \E p \in L : p.name = Table[i]
  BY CardAssumption DEF CardTyped
<1>2. Card!Needed \subseteq Entries /\ Card!ToFix \subseteq Card!Needed
  BY SameTable DEF Card!Needed, Card!ToFix
<1>3. ASSUME NEW i \in Card!Needed, i # Card!Loader, i # Card!Parameter
      PROVE  \E p \in L : p.name = Table[i] /\ Card!FlashOffset(i) = p.offset
  <2>1. Table[i] \in ItemsOf[image] \ {Only("parameter"), Only("bootloader")}
    BY <1>2, <1>3, TableFacts, SameTable DEF Card!Needed
  <2>2. \E p \in L : p.name = Table[i]
    BY <1>1, <1>2, <2>1
  <2> QED
    BY <1>3, <2>2, SameTable DEF Card!FlashOffset
<1>4. Card!FlashOffset(Card!Loader) = 64
  BY DEF Card!FlashOffset
<1>5. Card!Loader # Card!Parameter
  BY TableFacts DEF Only
<1>6. Card!FlashOffset(Card!Parameter) = 0
  BY <1>5 DEF Card!FlashOffset
<1>7. ASSUME NEW i \in Card!ToFix, listed \subseteq L
      PROVE  \E p \in L : p.name = Partner(Table[i]) /\ Card!FixOffset(i) = p.offset
  BY <1>7, SameTable DEF Card!ToFix, Card!FixOffset, Card!PlainName
<1>u. \A p, q \in L : p.name = q.name \/ p.offset = q.offset => p = q
  BY <1>1
<1> HIDE DEF L
<1>8. \A i \in Card!Needed : Card!FlashOffset(i) \in Nat
  BY <1>1, <1>3, <1>4, <1>6
<1>9. ASSUME NEW i \in Card!Needed, NEW j \in Card!Needed,
             Card!FlashOffset(i) = Card!FlashOffset(j)
      PROVE  i = j
  <2>1. CASE i \in {Card!Loader, Card!Parameter} \/ j \in {Card!Loader, Card!Parameter}
    BY <1>1, <1>3, <1>4, <1>6, <1>9, <2>1
  <2>2. CASE i \notin {Card!Loader, Card!Parameter} /\ j \notin {Card!Loader, Card!Parameter}
    <3>1. PICK p \in L : p.name = Table[i] /\ Card!FlashOffset(i) = p.offset
      BY <1>3, <2>2
    <3>2. PICK q \in L : q.name = Table[j] /\ Card!FlashOffset(j) = q.offset
      BY <1>3, <2>2
    <3> QED
      <4>1. p = q
        <5>1. p.offset = q.offset
          BY <1>9, <3>1, <3>2, Zenon
        <5> QED
          BY <1>u, <5>1, Zenon
      <4>2. Table[i] = Table[j] /\ i \in Entries /\ j \in Entries
        BY <1>2, <3>1, <3>2, <4>1
      <4> QED
        BY <4>2, TableFacts
  <2> QED
    BY <2>1, <2>2
<1>10. ASSUME NEW i \in Card!ToFix, NEW j \in Card!Needed, listed \subseteq L
       PROVE  Card!FixOffset(i) # Card!FlashOffset(j)
  <2>1. PICK p \in L : p.name = Partner(Table[i]) /\ Card!FixOffset(i) = p.offset
    BY <1>7, <1>10
  <2>2. CASE j \in {Card!Loader, Card!Parameter}
    BY <1>1, <1>4, <1>6, <2>1, <2>2
  <2>3. CASE j \notin {Card!Loader, Card!Parameter}
    <3>1. PICK q \in L : q.name = Table[j] /\ Card!FlashOffset(j) = q.offset
      BY <1>3, <2>3
    <3>2. Table[j] # Partner(Table[i])
      BY SameTable DEF Card!ToFix, Card!Needed
    <3> QED
      BY <1>1, <2>1, <3>1, <3>2
  <2> QED
    BY <2>2, <2>3
<1>11. ASSUME NEW i \in Card!ToFix, NEW j \in Card!ToFix, listed \subseteq L,
              Card!FixOffset(i) = Card!FixOffset(j)
       PROVE  i = j
  <2>1. PICK p \in L : p.name = Partner(Table[i]) /\ Card!FixOffset(i) = p.offset
    BY <1>7, <1>11
  <2>2. PICK q \in L : q.name = Partner(Table[j]) /\ Card!FixOffset(j) = q.offset
    BY <1>7, <1>11
  <2>3. Slotted(Table[i]) /\ Slotted(Table[j])
    BY SameTable DEF Card!ToFix
  <2> QED
    <3>1. p = q
      <4>1. p.offset = q.offset
        BY <1>11, <2>1, <2>2, Zenon
      <4> QED
        BY <1>u, <4>1, Zenon
    <3>2. Partner(Table[i]) = Partner(Table[j]) /\ i \in Entries /\ j \in Entries
      BY <1>2, <2>1, <2>2, <3>1
    <3> QED
      BY <2>3, <3>2, TableFacts
<1>12. ASSUME NEW i \in Card!ToFix, listed \subseteq L PROVE Card!FixOffset(i) \in Nat
  BY <1>1, <1>7, <1>12
<1> QED
  BY <1>2, <1>8, <1>9, <1>10, <1>11, <1>12 DEF L

(* A command at the end of the script is the last for its offset, and      *)
(* those for other offsets stay so.                                        *)
LEMMA CommandLast ==
  ASSUME NEW s \in Seq(Nat \X Nat), NEW i \in Entries, NEW o \in Nat
  PROVE  /\ Append(s, <<i, o>>) \in Seq(Nat \X Nat)
         /\ LastAt(Append(s, <<i, o>>), i, o)
         /\ \A j, p : p # o /\ LastAt(s, j, p) => LastAt(Append(s, <<i, o>>), j, p)
<1> DEFINE t == Append(s, <<i, o>>)
<1>0. i \in Nat
  BY EntriesAre
<1>1. /\ t \in Seq(Nat \X Nat) /\ Len(t) = Len(s) + 1 /\ t[Len(s) + 1] = <<i, o>>
      /\ \A k \in 1 .. Len(s) : t[k] = s[k]
      /\ Len(s) \in Nat
  BY <1>0, AppendProperties, LenProperties
<1>n. Len(s) \in Nat /\ Len(t) = Len(s) + 1
  BY <1>1
<1> HIDE DEF t
<1>2. LastAt(t, i, o)
  <2>1. Len(s) + 1 \in 1 .. Len(t) /\ \A l \in 1 .. Len(t) : l <= Len(s) + 1
    BY <1>1
  <2> QED
    BY <1>1, <2>1, Zenon DEF LastAt
<1>3. ASSUME NEW j, NEW p, p # o, LastAt(s, j, p) PROVE LastAt(t, j, p)
  <2>1. PICK k \in 1 .. Len(s) :
          /\ s[k] = <<j, p>>
          /\ \A l \in 1 .. Len(s) : s[l][1] # 0 /\ s[l][2] = p => l <= k
    BY <1>3 DEF LastAt
  <2>2. ASSUME NEW l \in 1 .. Len(t), t[l][1] # 0, t[l][2] = p PROVE l <= k
    <3>1. l # Len(s) + 1
      BY <1>1, <1>3, <2>2
    <3>2. l \in 1 .. Len(s)
      BY <1>n, <3>1
    <3>3. t[l] = s[l]
      BY <1>1, <3>2
    <3> QED
      BY <2>1, <2>2, <3>2, <3>3
  <2>3. t[k] = s[k]
    BY <1>1
  <2>4. k \in 1 .. Len(t)
    BY <1>1
  <2> QED
    BY <2>1, <2>2, <2>3, <2>4 DEF LastAt
<1> QED
  BY <1>1, <1>2, <1>3 DEF t

LEMMA CardEntry ==
  ASSUME left \subseteq Entries, left # {}
  PROVE  Card!Entry \in left
BY Smallest DEF Card!Entry

(* AppendCommand in a run that has lost nothing.                           *)
LEMMA Appended ==
  ASSUME CardTyped, NEW i \in Entries, NEW o \in Nat, Card!AppendCommand(i, o), ~lost'
  PROVE  /\ ~lost
         /\ script' = Append(script, <<i, o>>)
         /\ LastAt(script', i, o)
         /\ \A j, p : p # o /\ LastAt(script, j, p) => LastAt(script', j, p)
<1>1. ~lost /\ script' = Append(script, <<i, o>>)
  BY DEF Card!AppendCommand, Card!Extended
<1> QED
  BY <1>1, CommandLast DEF CardTyped

(* What is written, a whole command or a piece of one, leaves a script.    *)
LEMMA ScriptKept ==
  ASSUME CardTyped
  PROVE  /\ \A i \in Entries : \A o \in Nat :
              Card!AppendCommand(i, o) => script' \in Seq(Nat \X Nat)
         /\ Append(script, Card!Cut) \in Seq(Nat \X Nat)
<1>1. script \in Seq(Nat \X Nat) /\ Card!Cut \in Nat \X Nat /\ Card!Joined \in Nat \X Nat
  BY DEF CardTyped, Card!Cut, Card!Joined
<1>2. ASSUME NEW i \in Entries, NEW o \in Nat, Card!AppendCommand(i, o)
      PROVE  script' \in Seq(Nat \X Nat)
  <2>1. CASE Card!EndsCut
    <3>1. script' = [script EXCEPT ![Len(script)] = Card!Joined]
      BY <1>2, <2>1 DEF Card!AppendCommand, Card!Extended
    <3>2. Len(script) \in 1 .. Len(script)
      BY <1>1, <2>1, EmptySeq, LenProperties DEF Card!EndsCut
    <3> QED
      BY <1>1, <3>1, <3>2, ExceptSeq
  <2>2. CASE ~Card!EndsCut
    <3>1. script' = Append(script, <<i, o>>)
      BY <1>2, <2>2 DEF Card!AppendCommand, Card!Extended
    <3> QED
      BY <1>1, <3>1, CommandLast
  <2> QED
    BY <2>1, <2>2
<1> QED
  BY <1>1, <1>2, AppendProperties

LEMMA CardTypedStep ==
  ASSUME CardTyped, ListedInv, Card!Next
  PROVE  CardTyped'
<1> USE DEF Card!Needed, Card!ToFix
<1>1. CASE Card!Start
  BY <1>1 DEF Card!Start, CardTyped, Flashing
<1>2. CASE Card!OpenFile
  BY <1>2 DEF Card!OpenFile, CardTyped, Flashing
<1>3. CASE Card!Hang
  BY <1>3 DEF Card!Hang, CardTyped, Flashing
<1>4. CASE Card!FinishFile
  BY <1>4 DEF Card!FinishFile, CardTyped, Flashing
<1>5. CASE Card!FsyncFails
  BY <1>5 DEF Card!FsyncFails, CardTyped, Flashing
<1>6. CASE Card!Command
  <2>1. script' \in Seq(Nat \X Nat)
    <3>1. Card!Entry \in Card!Needed
      BY <1>6, CardEntry, Offsets DEF Card!Command, CardTyped, Flashing
    <3> HIDE DEF Card!Needed
    <3> QED
      BY <1>6, <3>1, Offsets, ScriptKept DEF Card!Command
  <2> QED
    BY <1>6, <2>1 DEF Card!Command, CardTyped, Flashing
<1>7. CASE Card!BeginFix
  BY <1>7 DEF Card!BeginFix, CardTyped, Flashing
<1>8. CASE Card!Fix
  <2>1. script' \in Seq(Nat \X Nat)
    <3> HIDE DEF Card!Needed, Card!ToFix
    <3>1. Card!Entry \in Card!ToFix
      BY <1>8, CardEntry, Offsets DEF Card!Fix, CardTyped
    <3>2. listed \subseteq LayoutOf[image]
      BY <1>8 DEF Card!Fix, ListedInv, Fixing
    <3> QED
      BY <1>8, <3>1, <3>2, Offsets, ScriptKept DEF Card!Fix
  <2> QED
    BY <1>8, <2>1 DEF Card!Fix, CardTyped, Flashing
<1>9. CASE Card!Finish
  BY <1>9 DEF Card!Finish, CardTyped, Flashing
<1>10. CASE Card!Break
  <2>1. script' \in Seq(Nat \X Nat)
    BY <1>10, ScriptKept DEF Card!Break, CardTyped
  <2> QED
    BY <1>10, <2>1 DEF Card!Break, CardTyped, Flashing
<1>11. ASSUME NEW im \in Images, Card!CopyImage(im) PROVE CardTyped'
  BY <1>11 DEF Card!CopyImage, CardTyped, Flashing
<1> QED
  BY <1>1, <1>2, <1>3, <1>4, <1>5, <1>6, <1>7, <1>8, <1>9, <1>10, <1>11 DEF Card!Next

LEMMA ListedStep ==
  ASSUME CardTyped, ListedInv, Card!Next
  PROVE  ListedInv'
<1> USE DEF ListedInv, Flashing, Fixing, CardTyped
<1>n. UNCHANGED image => Card!Needed' = Card!Needed
  BY DEF Card!Needed
<1>e. UNCHANGED left => Card!Entry' = Card!Entry
  BY DEF Card!Entry
<1>1. CASE Card!Start
  BY <1>1, <1>n DEF Card!Start
<1>2. CASE Card!OpenFile
  BY <1>2, <1>n, <1>e DEF Card!OpenFile
<1>3. CASE Card!Hang
  BY <1>3, <1>n DEF Card!Hang
<1>4. CASE Card!FinishFile
  BY <1>4, <1>n, <1>e DEF Card!FinishFile
<1>5. CASE Card!FsyncFails
  BY <1>5, <1>n, <1>e DEF Card!FsyncFails
<1>6. CASE Card!Command
  BY <1>6, <1>n DEF Card!Command
<1>7. CASE Card!BeginFix
  BY <1>7, <1>n DEF Card!BeginFix
<1>8. CASE Card!Fix
  BY <1>8, <1>n DEF Card!Fix
<1>9. CASE Card!Finish
  BY <1>9, <1>n DEF Card!Finish
<1>10. CASE Card!Break
  BY <1>10, <1>n DEF Card!Break
<1>11. ASSUME NEW im \in Images, Card!CopyImage(im) PROVE ListedInv'
  BY <1>11 DEF Card!CopyImage
<1> QED
  BY <1>1, <1>2, <1>3, <1>4, <1>5, <1>6, <1>7, <1>8, <1>9, <1>10, <1>11 DEF Card!Next

LEMMA DoneStep ==
  ASSUME CardInv, Card!Next
  PROVE  DoneInv'
<1> USE DEF CardInv, Flashing, Fixing
<1>n. UNCHANGED image => Card!Needed' = Card!Needed /\ \A i : Card!FlashOffset(i)' = Card!FlashOffset(i)
  BY DEF Card!Needed, Card!FlashOffset
<1>x. UNCHANGED <<image, listed>> =>
        Card!ToFix' = Card!ToFix /\ \A i : Card!FixOffset(i)' = Card!FixOffset(i)
  BY DEF Card!ToFix, Card!Needed, Card!FixOffset
<1>e. UNCHANGED left => Card!Entry' = Card!Entry
  BY DEF Card!Entry
<1>o. Card!Needed \subseteq Entries /\ Card!ToFix \subseteq Card!Needed
  BY Offsets
<1>1. CASE Card!Start
  BY <1>1, <1>n DEF Card!Start, DoneInv, CardTyped
<1>2. CASE Card!OpenFile
  <2>1. Card!Entry \in left
    BY <1>2, <1>o, CardEntry DEF Card!OpenFile, CardTyped
  <2>2. \A i \in Card!Needed \ left : file'[i] = file[i]
    BY <1>2, <1>o, <2>1 DEF Card!OpenFile, CardTyped
  <2> QED
    BY <1>2, <1>n, <2>2 DEF Card!OpenFile, DoneInv, Installed, CardTyped
<1>3. CASE Card!Hang
  BY <1>3 DEF Card!Hang, DoneInv, CardTyped
<1>4. CASE Card!FinishFile
  <2>1. Card!Entry \in left /\ Card!Entry \in Entries
    BY <1>4, <1>o, CardEntry DEF Card!FinishFile, CardTyped
  <2>2. /\ \A i \in Card!Needed \ left : file'[i] = file[i]
        /\ file'[Card!Entry] = image
    BY <1>4, <1>o, <2>1 DEF Card!FinishFile, CardTyped
  <2> QED
    BY <1>4, <1>n, <1>e, <2>2 DEF Card!FinishFile, DoneInv, Installed, CardTyped
<1>5. CASE Card!FsyncFails
  BY <1>5 DEF Card!FsyncFails, DoneInv
<1>6. CASE Card!Command
  <2> SUFFICES ASSUME ~lost' PROVE DoneInv'
    BY DEF DoneInv
  <2>1. PICK e \in Card!Needed : e = Card!Entry /\ e \in left
    BY <1>6, <1>o, CardEntry DEF Card!Command, CardTyped
  <2>2. Card!AppendCommand(e, Card!FlashOffset(e))
    BY <1>6, <2>1 DEF Card!Command
  <2>3. PICK o \in Nat : o = Card!FlashOffset(e)
    BY Offsets
  <2>4. /\ ~lost /\ LastAt(script', e, o)
        /\ \A j, p : p # o /\ LastAt(script, j, p) => LastAt(script', j, p)
    BY <1>o, <2>2, <2>3, Appended
  <2>5. \A i \in Card!Needed : i # e => Card!FlashOffset(i) # o
    BY <2>3, Offsets
  <2>6. file[e] = image
    BY <1>6, <2>1, <2>4 DEF Card!Command, DoneInv
  <2>7. \A i \in Card!Needed \ left' : Installed(i)'
    <3> TAKE i \in Card!Needed \ left'
    <3>1. CASE i = e
      BY <1>6, <1>n, <2>3, <2>4, <2>6, <3>1 DEF Card!Command, Installed
    <3>2. CASE i # e
      <4>1. i \in Card!Needed \ left
        BY <1>6, <2>1, <3>2 DEF Card!Command
      <4>2. Installed(i)
        BY <1>6, <2>4, <4>1 DEF Card!Command, DoneInv
      <4> QED
        BY <1>6, <1>n, <2>4, <2>5, <3>2, <4>2 DEF Card!Command, Installed
    <3> QED
      BY <3>1, <3>2
  <2> QED
    BY <1>6, <1>n, <2>7 DEF Card!Command, DoneInv, CardTyped
<1>7. CASE Card!BeginFix
  BY <1>7, <1>n, <1>x DEF Card!BeginFix, DoneInv, Installed, CardTyped
<1>8. CASE Card!Fix
  <2> SUFFICES ASSUME ~lost' PROVE DoneInv'
    BY DEF DoneInv
  <2>0. listed \subseteq LayoutOf[image]
    BY <1>8 DEF Card!Fix, ListedInv
  <2>1. PICK e \in Card!ToFix : e = Card!Entry /\ e \in left
    BY <1>8, <1>o, CardEntry DEF Card!Fix, CardTyped
  <2>2. Card!AppendCommand(e, Card!FixOffset(e))
    BY <1>8, <2>1 DEF Card!Fix
  <2>3. PICK o \in Nat : o = Card!FixOffset(e)
    BY <2>0, Offsets
  <2>4. /\ ~lost /\ LastAt(script', e, o)
        /\ \A j, p : p # o /\ LastAt(script, j, p) => LastAt(script', j, p)
    BY <1>o, <2>2, <2>3, Appended
  <2>5. /\ \A i \in Card!Needed : Card!FlashOffset(i) # o
        /\ \A i \in Card!ToFix : i # e => Card!FixOffset(i) # o
    BY <2>0, <2>3, Offsets
  <2>6. \A i \in Card!Needed : Installed(i)'
    BY <1>8, <1>n, <2>4, <2>5 DEF Card!Fix, DoneInv, Installed
  <2>7. \A i \in Card!ToFix \ left' : LastAt(script', i, Card!FixOffset(i))
    <3> TAKE i \in Card!ToFix \ left'
    <3>1. CASE i = e
      BY <2>3, <2>4, <3>1
    <3>2. CASE i # e
      BY <1>8, <2>1, <2>4, <2>5, <3>2 DEF Card!Fix, DoneInv
    <3> QED
      BY <3>1, <3>2
  <2> QED
    BY <1>8, <1>n, <1>x, <2>6, <2>7 DEF Card!Fix, DoneInv, CardTyped
<1>9. CASE Card!Finish
  BY <1>9, <1>n, <1>x DEF Card!Finish, DoneInv, Installed, CardTyped
<1>10. CASE Card!Break
  BY <1>10 DEF Card!Break, DoneInv
<1>11. ASSUME NEW im \in Images, Card!CopyImage(im) PROVE DoneInv'
  BY <1>11 DEF Card!CopyImage, DoneInv
<1> QED
  BY <1>1, <1>2, <1>3, <1>4, <1>5, <1>6, <1>7, <1>8, <1>9, <1>10, <1>11 DEF Card!Next

LEMMA CardInitInv == Card!Init => CardInv
<1> SUFFICES ASSUME Card!Init PROVE CardInv
  OBVIOUS
<1>1. CardTyped
  BY EmptySeq, SameTable DEF Card!Init, CardTyped, Flashing
<1> QED
  BY <1>1 DEF Card!Init, CardInv, ListedInv, DoneInv, Flashing, Fixing

LEMMA CardNextInv == CardInv /\ [Card!Next]_(Card!vars) => CardInv'
<1>1. ASSUME CardInv, UNCHANGED Card!vars PROVE CardInv'
  BY <1>1 DEF Card!vars, CardInv, CardTyped, ListedInv, DoneInv, Flashing, Fixing, Installed,
              Card!Needed, Card!ToFix, Card!Entry, Card!FlashOffset, Card!FixOffset
<1>2. ASSUME CardInv, Card!Next PROVE CardInv'
  BY <1>2, CardTypedStep, ListedStep, DoneStep DEF CardInv
<1> QED
  BY <1>1, <1>2

(* Of the commands for an offset recovery runs the last one last.          *)
LEMMA LastLeaves ==
  ASSUME CardTyped, NEW i \in Entries, NEW o, LastAt(script, i, o)
  PROVE  Card!Leaves(o) = <<i, file[i]>>
<1> DEFINE ks == {k \in DOMAIN script : script[k][1] # 0 /\ script[k][2] = o}
           last == CHOOSE k \in ks : \A j \in ks : j <= k
<1>1. DOMAIN script = 1 .. Len(script) /\ Len(script) \in Nat /\ i # 0
  BY EntriesAre, LenProperties DEF CardTyped
<1>2. PICK k \in ks : script[k] = <<i, o>> /\ \A j \in ks : j <= k
  BY <1>1 DEF LastAt
<1>3. ks \subseteq Nat
  BY <1>1
<1>4. last \in ks /\ \A j \in ks : j <= last
  BY <1>2
<1>5. last = k
  <2> HIDE DEF ks, last
  <2> QED
    BY <1>2, <1>3, <1>4
<1>6. ks # {} /\ Card!Leaves(o) = <<script[last][1], file[script[last][1]]>>
  BY <1>2 DEF Card!Leaves
<1> HIDE DEF ks, last
<1> QED
  BY <1>2, <1>5, <1>6

(* The script of an SD card: whatever images were on it and whatever runs  *)
(* broke off before, a run that ends well (RK_ota_start) leaves commands   *)
(* that put every item of its image where the partition table has it.      *)
THEOREM CardInstalls == Card!Spec => []ScriptInstalls
<1>1. CardInv => ScriptInstalls
  <2> SUFFICES ASSUME CardInv, status = "finished", ~lost, NEW i \in Card!Needed
               PROVE  /\ Card!Leaves(Card!FlashOffset(i)) = <<i, image>>
                      /\ /\ Card!Parameter \in Card!Needed
                         /\ Card!Slotted(Card!Table[i])
                         /\ Card!Partner(Card!Table[i]) \notin ItemsOf[image]
                         => \A p \in LayoutOf[image] :
                              Card!PlainName(p, Card!Partner(Card!Table[i])) =>
                                Card!Leaves(Card!GptEntry(p, 0).first) = <<i, image>>
    BY DEF ScriptInstalls, Card!ScriptInstalls
  <2>1. /\ CardTyped /\ Installed(i) /\ i \in Entries
        /\ left = {}
        /\ \A j \in Card!ToFix \ left : LastAt(script, j, Card!FixOffset(j))
    BY Offsets DEF CardInv, CardTyped, DoneInv, Fixing
  <2>2. Card!Leaves(Card!FlashOffset(i)) = <<i, image>>
    BY <2>1, LastLeaves DEF Installed
  <2>3. ASSUME Card!Parameter \in Card!Needed, Card!Slotted(Card!Table[i]),
               Card!Partner(Card!Table[i]) \notin ItemsOf[image],
               NEW p \in LayoutOf[image], Card!PlainName(p, Card!Partner(Card!Table[i]))
        PROVE  Card!Leaves(Card!GptEntry(p, 0).first) = <<i, image>>
    <3>1. listed = LayoutOf[image]
      BY <2>3 DEF CardInv, ListedInv, Fixing
    <3>2. i \in Card!ToFix
      BY <2>3, <3>1 DEF Card!ToFix
    <3>3. Card!FixOffset(i) = p.offset
      <4>1. \A q, r \in LayoutOf[image] : q.name = r.name => q = r
        BY <2>1, CardAssumption DEF CardTyped
      <4> QED
        BY <2>3, <3>1, <4>1 DEF Card!FixOffset, Card!PlainName
    <3>4. Card!GptEntry(p, 0).first = p.offset
      BY DEF Card!GptEntry
    <3> QED
      BY <2>1, <3>2, <3>3, <3>4, LastLeaves DEF Installed
  <2> QED
    BY <2>2, <2>3
<1> QED
  BY <1>1, CardInitInv, CardNextInv, PTL DEF Card!Spec
=============================================================================
