------------------------- MODULE UpdateEngineProofs -------------------------
(* Proofs about UpdateEngine, for every image, every mix of whole items  *)
(* and patches, every number of tries, and with all faults: the types,   *)
(* the running slot, the metadata, what a finished update has written,   *)
(* the slot a power loss leaves to start from, and the patched file it   *)
(* leaves.                                                               *)
(*                                                                       *)
(* The inductive invariant says where in the loop of RK_ota_start the    *)
(* engine is: what is still to write is part of the plan of the running  *)
(* slot, something is left while an entry is being worked on and nothing *)
(* outside the loop, and whatever the loop has left behind is new.       *)
(* SafeInv adds that the running slot is whole and that both copies of   *)
(* the metadata have it before another slot that boots, PatchInv where   *)
(* the patched file is while its partition is torn.                      *)
EXTENDS UpdateEngine, WellFoundedInduction, TLAPS

LEMMA EntriesAre == Entries = 1 .. 16
BY DEF Entries, Table

(* The table, entry by entry, as far as the slots go. *)
LEMMA TableSlots ==
  /\ \A i \in Entries : Table[i].slot \in {"none", "a", "b"}
  /\ \A i \in Entries : Table[i].slot = "a" <=> i \in {9, 11, 13}
  /\ \A i \in Entries : Table[i].slot = "b" <=> i \in {10, 12, 14}
<1>1. /\ Table[1].slot = "none" /\ Table[2].slot = "none"
      /\ Table[3].slot = "none" /\ Table[4].slot = "none"
      /\ Table[5].slot = "none" /\ Table[6].slot = "none"
      /\ Table[7].slot = "none" /\ Table[8].slot = "none"
      /\ Table[9].slot = "a" /\ Table[10].slot = "b"
      /\ Table[11].slot = "a" /\ Table[12].slot = "b"
      /\ Table[13].slot = "a" /\ Table[14].slot = "b"
      /\ Table[15].slot = "none" /\ Table[16].slot = "none"
  BY DEF Table, Only, InA, InB
<1>2. \A i \in Entries :
        \/ i = 1 \/ i = 2 \/ i = 3 \/ i = 4 \/ i = 5 \/ i = 6 \/ i = 7 \/ i = 8
        \/ i = 9 \/ i = 10 \/ i = 11 \/ i = 12 \/ i = 13 \/ i = 14 \/ i = 15
        \/ i = 16
  BY EntriesAre
<1> QED
  BY <1>1, <1>2

LEMMA PlanHasItem ==
  ASSUME NEW r \in Slots, NEW i \in Plan(r, Mask, Items)
  PROVE  ItemFor(i, Items) \in Items
BY DEF Plan, Matched, ItemFor, HasItem, TakesOther

(* What a plan selects belongs to the other slot or to none, and has an    *)
(* item.                                                                   *)
LEMMA PlanFacts ==
  ASSUME NEW r \in Slots, NEW i \in Plan(r, Mask, Items)
  PROVE  i \in Entries /\ Table[i].slot # Suffix(r) /\ ItemFor(i, Items) \in Items
<1>1. i \in Marked(Mask \cap Allowed(r)) /\ Table[i] # Only("parameter")
  BY DEF Plan, Matched
<1>2. i \in Entries /\ 24 - i \in Allowed(r)
  BY <1>1 DEF Marked
<1>3. i \in 1 .. 16
  BY <1>2, EntriesAre
<1>4. CASE r = 0
  <2>1. i \notin {9, 11, 13}
    BY <1>2, <1>3, <1>4 DEF Allowed
  <2> QED
    BY <1>2, <1>4, <2>1, TableSlots, PlanHasItem DEF Suffix
<1>5. CASE r = 1
  <2>1. i \notin {10, 12, 14}
    BY <1>2, <1>3, <1>5 DEF Allowed
  <2> QED
    BY <1>2, <1>5, <2>1, TableSlots, PlanHasItem DEF Suffix
<1> QED
  BY <1>4, <1>5 DEF Slots

(* With the default mask, or more, the plan has all of the other slot that *)
(* the image has items for.                                                *)
LEMMA PlanCovers ==
  ASSUME DefaultMask \subseteq Mask, NEW r \in Slots
  PROVE  Parts(1 - r) \subseteq Plan(r, Mask, Items)
<1> SUFFICES ASSUME NEW i \in Parts(1 - r)
             PROVE  i \in Plan(r, Mask, Items)
  OBVIOUS
<1>1. /\ i \in Entries /\ i \in 1 .. 16
      /\ Table[i].slot = Suffix(1 - r)
      /\ Table[i] \in Items \/ Partner(Table[i]) \in Items
  BY EntriesAre DEF Parts
<1>2. 24 - i \in Mask \cap Allowed(r)
  <2>1. CASE r = 0
    <3>1. i \in {10, 12, 14}
      BY <1>1, <2>1, TableSlots DEF Suffix
    <3> QED
      BY <2>1, <3>1 DEF Allowed, DefaultMask
  <2>2. CASE r = 1
    <3>1. i \in {9, 11, 13}
      BY <1>1, <2>2, TableSlots DEF Suffix
    <3> QED
      BY <2>2, <3>1 DEF Allowed, DefaultMask
  <2> QED
    BY <2>1, <2>2 DEF Slots
<1>3. Table[i].slot # "none"
  BY <1>1 DEF Suffix
<1>4. Table[i] # Only("misc") /\ Table[i] # Only("parameter")
  BY <1>3 DEF Only
<1> QED
  BY <1>1, <1>2, <1>3, <1>4
  DEF Plan, Matched, Marked, HasItem, TakesOther, Slotted

(* The entry the loop is at is one of those still to be written. *)
LEMMA EntryInTodo ==
  ASSUME todo \subseteq Entries, todo # {}
  PROVE  Entry \in todo
<1>1. todo \subseteq Nat
  BY EntriesAre
<1> DEFINE Less == {p \in Nat \X Nat : p[1] < p[2]}
<1>2. IsWellFoundedOn(Less, Nat)
  BY NatLessThanWellFounded DEF OpToRel
<1>3. PICK i \in todo : \A j \in todo : ~(<<j, i>> \in Less)
  <2> HIDE DEF Less
  <2> QED
    BY <1>1, <1>2, WFMin
<1>4. ASSUME NEW j \in todo PROVE i <= j
  <2>1. i \in Nat /\ j \in Nat
    BY <1>1
  <2>2. j < i => <<j, i>> \in Less
    BY <2>1
  <2>3. <<j, i>> \notin Less
    BY <1>3
  <2> QED
    BY <2>1, <2>2, <2>3
<1> QED
  BY <1>4 DEF Entry
-----------------------------------------------------------------------------
(* The loop of RK_ota_start is at an entry. *)
Working == pc \in {"flash", "patch", "open", "write", "record", "unlink", "verify"}

(* What is left to write belongs to the plan of the running slot, and      *)
(* there is something left exactly while the loop is at an entry.          *)
LoopInv == /\ todo \subseteq Plan(running, Mask, Items)
           /\ Working <=> todo # {}

(* Only a patch is made into a dst_file, and written from one. *)
SourceInv == /\ source = "dst" => Working /\ Item \in Patches
             /\ pc = "patch" => Item \in Patches

MetaInv == \A s \in Slots : ~Confused(misc[s]) /\ ~Confused(miscDisk[s])

IInv == TypeOK /\ LoopInv /\ SourceInv /\ MetaInv

LEMMA AtAnEntry ==
  ASSUME IInv, Working
  PROVE  /\ Entry \in todo /\ Entry \in Entries
         /\ Table[Entry].slot # Suffix(running)
         /\ Item \in Items
<1>1. todo \subseteq Entries /\ todo # {} /\ running \in Slots
  BY DEF IInv, TypeOK, LoopInv
<1>2. Entry \in todo
  BY <1>1, EntryInTodo
<1> QED
  BY <1>1, <1>2, PlanFacts DEF IInv, LoopInv, Item

(* The writers of the metadata. *)
LEMMA SlotIsType ==
  /\ Unbootable \in Slot /\ ~Confused(Unbootable)
  /\ \A p \in {0, MaxPriority - 1, MaxPriority}, n \in 0 .. MaxTries, b \in BOOLEAN :
       [priority |-> p, tries |-> n, successful |-> b] \in Slot
BY TriesAssumption DEF Unbootable, Slot, MaxPriority, Confused

LEMMA SucceedType ==
  ASSUME NEW m \in Metadata, NEW s \in Slots, NEW mode,
         \A x \in Slots : ~Confused(m[x])
  PROVE  /\ SetSlotSucceed(m, s, mode) \in Metadata
         /\ \A x \in Slots : ~Confused(SetSlotSucceed(m, s, mode)[x])
<1> DEFINE new == [priority   |-> MaxPriority,
                   tries      |-> IF mode = "retry" THEN MaxTries ELSE 0,
                   successful |-> mode = "success"]
<1>1. new \in Slot /\ ~Confused(new)
  <2>1. CASE mode = "retry"
    <3>1. new = [priority |-> MaxPriority, tries |-> MaxTries,
                 successful |-> FALSE]
      BY <2>1
    <3> QED
      BY <3>1, TriesAssumption DEF Slot, Confused
  <2>2. CASE mode = "success"
    <3>1. new = [priority |-> MaxPriority, tries |-> 0, successful |-> TRUE]
      BY <2>2
    <3> QED
      BY <3>1, TriesAssumption DEF Slot, Confused
  <2>3. CASE mode # "retry" /\ mode # "success"
    <3>1. new = [priority |-> MaxPriority, tries |-> 0, successful |-> FALSE]
      BY <2>3
    <3> QED
      BY <3>1, TriesAssumption DEF Slot, Confused
  <2> QED
    BY <2>1, <2>2, <2>3
<1>2. SetSlotSucceed(m, s, mode) = [m EXCEPT ![s] = new]
  BY DEF SetSlotSucceed
<1> HIDE DEF new
<1> QED
  BY <1>1, <1>2 DEF Metadata, Slots

LEMMA ActivityType ==
  ASSUME NEW m \in Metadata, NEW s \in Slots,
         \A x \in Slots : ~Confused(m[x])
  PROVE  /\ SetSlotActivity(m, s) \in Metadata
         /\ \A x \in Slots : ~Confused(SetSlotActivity(m, s)[x])
<1> DEFINE new == [priority |-> MaxPriority, tries |-> MaxTries,
                   successful |-> FALSE]
           old == [m[s] EXCEPT !.priority = MaxPriority - 1]
<1>1. m[s] \in Slot /\ 1 - s \in Slots /\ 1 - s # s
  BY DEF Metadata, Slots
<1>2. new \in Slot /\ ~Confused(new)
  BY TriesAssumption DEF Slot, Confused
<1>3. old \in Slot /\ ~Confused(old)
  BY <1>1 DEF Slot, Confused
<1>4. SetSlotActivity(m, s) = [[m EXCEPT ![s] = old] EXCEPT ![1 - s] = new]
  BY <1>1 DEF SetSlotActivity, Metadata, Slots
<1> HIDE DEF new, old
<1> QED
  BY <1>1, <1>2, <1>3, <1>4 DEF Metadata, Slots

LEMMA UseTryType ==
  ASSUME NEW m \in Metadata, NEW s \in Slots, Preferred(m, s)
  PROVE  /\ UseTry(m, s) \in Metadata
         /\ \A x \in Slots : ~Confused(UseTry(m, s)[x])
<1>1. \A x \in Slots : m[x] \in Slot
  BY DEF Metadata, Slots
<1>2. \A x \in Slots : /\ Normalize(m)[x] \in Slot
                       /\ ~Confused(Normalize(m)[x])
  BY <1>1, SlotIsType DEF Normalize, Slots, Bootable
<1>3. Normalize(m) \in Metadata /\ Normalize(m)[s] = m[s]
  BY <1>2 DEF Normalize, Metadata, Slots, Preferred
<1> DEFINE n == IF m[s].successful THEN m[s].tries ELSE m[s].tries - 1
           new == [m[s] EXCEPT !.tries = n]
<1>4. n \in 0 .. MaxTries /\ ~(m[s].successful /\ n > 0)
  BY <1>1, TriesAssumption DEF Slot, Preferred, Bootable, Confused
<1>5. new \in Slot /\ ~Confused(new)
  BY <1>1, <1>4 DEF Slot, Confused
<1>6. UseTry(m, s) = [Normalize(m) EXCEPT ![s] = new]
  BY <1>3 DEF UseTry, Metadata, Slots
<1> HIDE DEF new, n
<1> QED
  BY <1>2, <1>3, <1>5, <1>6 DEF Metadata, Slots
-----------------------------------------------------------------------------
(* The invariant, in two halves: the metadata, and the engine.             *)
MetaOK == misc \in Metadata /\ miscDisk \in Metadata /\ MetaInv

EngineOK ==
  /\ flash \in [Entries -> Contents]
  /\ dst \in [Items -> {"none", "partial", "good"}]
  /\ done \subseteq Items
  /\ running \in Slots
  /\ pc \in Places
  /\ todo \subseteq Entries
  /\ source \in {"image", "dst"}
  /\ ret \in {0, 2}
  /\ LoopInv /\ SourceInv

LEMMA Halves == IInv <=> MetaOK /\ EngineOK
BY DEF IInv, TypeOK, MetaOK, EngineOK

LEMMA InitInv == Init => IInv
<1> SUFFICES ASSUME Init PROVE IInv
  OBVIOUS
<1>1. MetaOK
  <2>1. PICK other \in {Unbootable}
           \cup [priority : {MaxPriority - 1}, tries : 1 .. MaxTries,
                 successful : {FALSE}]
           \cup [priority : {MaxPriority - 1}, tries : {0}, successful : {TRUE}] :
         misc = SetSlotSucceed([s \in Slots |-> other], running, OldMode)
    BY DEF Init
  <2>2. other \in Slot /\ ~Confused(other)
    <3>1. CASE other = Unbootable
      BY <3>1, SlotIsType
    <3>2. CASE other \in [priority : {MaxPriority - 1}, tries : 1 .. MaxTries,
                          successful : {FALSE}]
      <4>1. PICK n \in 1 .. MaxTries :
              other = [priority |-> MaxPriority - 1, tries |-> n,
                       successful |-> FALSE]
        BY <3>2
      <4> QED
        BY <4>1, TriesAssumption DEF Slot, Confused
    <3>3. CASE other \in [priority : {MaxPriority - 1}, tries : {0},
                          successful : {TRUE}]
      <4>1. other = [priority |-> MaxPriority - 1, tries |-> 0,
                     successful |-> TRUE]
        BY <3>3
      <4> QED
        BY <4>1, TriesAssumption DEF Slot, Confused
    <3> QED
      BY <3>1, <3>2, <3>3
  <2>3. [s \in Slots |-> other] \in Metadata
    BY <2>2 DEF Metadata, Slots
  <2>4. misc \in Metadata /\ \A x \in Slots : ~Confused(misc[x])
    BY <2>1, <2>2, <2>3, SucceedType DEF Init
  <2> QED
    BY <2>4 DEF Init, MetaOK, MetaInv
<1>2. EngineOK
  BY DEF Init, EngineOK, Contents, Versions, Places, LoopInv, Working,
         SourceInv, Slots
<1> QED
  BY <1>1, <1>2, Halves

LEMMA NextMeta == IInv /\ [Next]_vars => MetaOK'
<1> SUFFICES ASSUME IInv, [Next]_vars PROVE MetaOK'
  OBVIOUS
<1>0. /\ misc \in Metadata /\ miscDisk \in Metadata /\ running \in Slots
      /\ \A x \in Slots : ~Confused(misc[x]) /\ ~Confused(miscDisk[x])
  BY DEF IInv, TypeOK, MetaInv
<1>1. ASSUME misc' \in {misc, miscDisk}, miscDisk' \in {misc, miscDisk}
      PROVE  MetaOK'
  BY <1>0, <1>1 DEF MetaOK, MetaInv
<1>2. ASSUME misc' = SetSlotActivity(misc, running), miscDisk' = miscDisk
      PROVE  MetaOK'
  BY <1>0, <1>2, ActivityType DEF MetaOK, MetaInv
<1>3. ASSUME misc' = SetSlotSucceed(misc, running, Mode), miscDisk' = miscDisk
      PROVE  MetaOK'
  BY <1>0, <1>3, SucceedType DEF MetaOK, MetaInv
<1>4. CASE Boot
  BY <1>0, <1>4, UseTryType DEF MetaOK, MetaInv, Boot
<1>5. CASE Finish \/ SwitchByHand
  BY <1>2, <1>5 DEF Finish, SwitchByHand
<1>6. CASE Confirm \/ ConfirmByHand
  BY <1>3, <1>6 DEF Confirm, ConfirmByHand
<1>7. CASE StartUpdate \/ StartEntry \/ EndPatch \/ RejectPatch \/ OpenDevice
           \/ FinishWrite \/ RecordDone \/ RemoveDst \/ Verify \/ Cleanup
  BY <1>1, <1>7 DEF StartUpdate, StartEntry, EndPatch, RejectPatch,
     OpenDevice, FinishWrite, RecordDone, RemoveDst, Verify, Cleanup, Sync
<1>8. CASE Exit \/ Fault \/ WriteBack \/ Reboot
  BY <1>1, <1>8 DEF Exit, Fault, ReadFails, WriteFails, FsyncFails,
     ActivityFails, ConfirmFails, Crash, WriteBack, Reboot, Sync
<1>9. CASE UNCHANGED vars
  BY <1>1, <1>9 DEF vars
<1> QED
  BY <1>4, <1>5, <1>6, <1>7, <1>8, <1>9 DEF Next, Engine, ByHand

(* Leaving the loop, or staying out of it. *)
LEMMA EndLoop ==
  ASSUME EngineOK, Forget, pc' \in {"off", "init", "idle"}, running' \in Slots,
         flash' = flash, dst' \in [Items -> {"none", "partial", "good"}], done' = done
  PROVE  EngineOK'
BY DEF EngineOK, Forget, LoopInv, Working, SourceInv, Places

(* The loop goes on to the next entry, or ends. *)
LEMMA NextEntryOK ==
  ASSUME EngineOK, Working, NextEntry, UNCHANGED <<flash, dst, done, running>>
  PROVE  EngineOK'
BY DEF EngineOK, NextEntry, LoopInv, Working, SourceInv, Places

(* A step inside the treatment of an entry. *)
LEMMA InLoopOK ==
  ASSUME EngineOK, Working, Working',
         UNCHANGED <<todo, running>>,
         pc' \in Places,
         flash' \in [Entries -> Contents],
         dst' \in [Items -> {"none", "partial", "good"}],
         done' \subseteq Items,
         source' = source \/ source' = "image" \/ (source' = "dst" /\ Item \in Patches),
         pc' = "patch" => Item \in Patches,
         ret' \in {0, 2}
  PROVE  EngineOK'
<1>1. Item' = Item
  BY DEF Item, Entry
<1> QED
  BY <1>1 DEF EngineOK, LoopInv, SourceInv

LEMMA NextEngine == IInv /\ [Next]_vars => EngineOK'
<1> SUFFICES ASSUME IInv, [Next]_vars PROVE EngineOK'
  OBVIOUS
<1>0. EngineOK /\ running \in Slots
  BY Halves DEF EngineOK
<1>a. Working =>
        Entry \in todo /\ Entry \in Entries /\ Item \in Items
  BY AtAnEntry
<1>b. ~AlreadyDone
  BY DEF AlreadyDone, DoneFileSize
<1>t. /\ flash \in [Entries -> Contents]
      /\ dst \in [Items -> {"none", "partial", "good"}]
      /\ done \subseteq Items
      /\ ret \in {0, 2} /\ pc \in Places
      /\ "old" \in Contents /\ "new" \in Contents /\ "torn" \in Contents
  BY <1>0 DEF EngineOK, Contents, Versions
<1>1. CASE StartUpdate
  <2>1. todo' = Plan(running, Mask, Items) /\ todo' \subseteq Entries
    BY <1>0, <1>1, PlanFacts DEF StartUpdate
  <2>2. pc = "idle" /\ source = "image"
    BY <1>0, <1>1 DEF StartUpdate, EngineOK, SourceInv, Working
  <2> QED
    BY <1>0, <1>1, <2>1, <2>2 DEF StartUpdate, EngineOK, LoopInv, Working, SourceInv,
       files, Places
<1>2. CASE StartEntry
  <2>1. Working /\ Working' /\ pc' \in Places
    BY <1>2, <1>b DEF StartEntry, Working, Places
  <2>2. dst' \in [Items -> {"none", "partial", "good"}]
    BY <1>2, <1>b, <1>t DEF StartEntry
  <2>3. /\ source' = source \/ source' = "image"
           \/ (source' = "dst" /\ Item \in Patches)
        /\ pc' = "patch" => Item \in Patches
    BY <1>2, <1>b DEF StartEntry
  <2> QED
    BY <1>0, <1>2, <1>t, <2>1, <2>2, <2>3, InLoopOK DEF StartEntry
<1>3. CASE EndPatch
  <2>1. Working /\ Working' /\ pc' \in Places
    BY <1>3 DEF EndPatch, Working, Places
  <2>2. Item \in Patches
    BY <1>0, <1>3 DEF EndPatch, EngineOK, SourceInv
  <2> QED
    BY <1>0, <1>3, <1>t, <2>1, <2>2, InLoopOK DEF EndPatch
<1>4. CASE RejectPatch
  BY <1>0, <1>4, <1>t, EndLoop DEF RejectPatch, Abort, files
<1>5. CASE OpenDevice
  <2>1. Working /\ Working' /\ pc' \in Places
    BY <1>5 DEF OpenDevice, Working, Places
  <2>2. flash' \in [Entries -> Contents]
    BY <1>5, <1>t DEF OpenDevice
  <2> QED
    BY <1>0, <1>5, <1>t, <2>1, <2>2, InLoopOK DEF OpenDevice, job
<1>6. CASE FinishWrite
  <2>1. Working /\ Working' /\ pc' \in Places
    BY <1>6 DEF FinishWrite, Working, Places
  <2>2. flash' \in [Entries -> Contents]
    BY <1>6, <1>t DEF FinishWrite
  <2> QED
    BY <1>0, <1>6, <1>t, <2>1, <2>2, InLoopOK DEF FinishWrite, job
<1>7. CASE RecordDone
  <2>1. Working /\ Working' /\ pc' \in Places
    BY <1>7 DEF RecordDone, Working, Places
  <2>2. done' \subseteq Items
    BY <1>7, <1>a, <1>t, <2>1 DEF RecordDone
  <2> QED
    BY <1>0, <1>7, <1>t, <2>1, <2>2, InLoopOK DEF RecordDone, job
<1>8. CASE RemoveDst
  <2>1. dst' \in [Items -> {"none", "partial", "good"}]
    BY <1>8, <1>t DEF RemoveDst
  <2>2. CASE ret = 0
    <3>1. Working /\ Working' /\ pc' \in Places
      BY <1>8, <2>2 DEF RemoveDst, Working, Places
    <3> QED
      BY <1>0, <1>8, <1>t, <2>1, <2>2, <3>1, InLoopOK DEF RemoveDst, job
  <2>3. CASE ret # 0
    BY <1>0, <1>8, <2>1, <2>3, EndLoop DEF RemoveDst, Abort
  <2> QED
    BY <2>2, <2>3
<1>9. CASE Verify
  <2>1. Working
    BY <1>9 DEF Verify, Working
  <2>2. CASE NextEntry
    BY <1>0, <1>9, <2>1, <2>2, NextEntryOK DEF Verify, files
  <2>3. CASE Abort
    BY <1>0, <1>9, <1>t, <2>3, EndLoop DEF Verify, Abort, files
  <2> QED
    BY <1>9, <2>2, <2>3 DEF Verify
<1>10. CASE Finish \/ Cleanup \/ ActivityFails
  BY <1>0, <1>10 DEF Finish, Cleanup, ActivityFails, EngineOK, LoopInv,
     Working, SourceInv, Places, job, files
<1>11. CASE Exit
  BY <1>0, <1>11, <1>t, EndLoop DEF Exit, files
<1>12. CASE ReadFails
  BY <1>0, <1>12, <1>t, EndLoop DEF ReadFails, Abort, files
<1>13. CASE WriteFails \/ FsyncFails
  <2>1. Working /\ Working' /\ pc' \in Places
    BY <1>13 DEF WriteFails, FsyncFails, Working, Places
  <2> QED
    BY <1>0, <1>13, <1>t, <2>1, InLoopOK DEF WriteFails, FsyncFails, files, job
<1>14. CASE Crash
  BY <1>0, <1>14, <1>t, EndLoop DEF Crash, files
<1>15. CASE ConfirmFails \/ Confirm \/ Reboot
  BY <1>0, <1>15 DEF ConfirmFails, Confirm, Reboot, EngineOK, LoopInv, Working,
     SourceInv, Places, job, files
<1>16. CASE Boot
  <2>1. pc' \in {"off", "init"} /\ running' \in Slots /\ pc = "off"
    BY <1>0, <1>16 DEF Boot
  <2>2. todo = {} /\ todo' = {}
    BY <1>0, <1>16, <2>1 DEF EngineOK, LoopInv, Working, Boot, job
  <2> QED
    BY <1>0, <1>16, <2>1, <2>2 DEF Boot, EngineOK, LoopInv, Working, SourceInv,
       Places, job, files
<1>17. CASE WriteBack \/ SwitchByHand \/ ConfirmByHand \/ UNCHANGED vars
  <2>1. UNCHANGED <<files, running, pc, job>>
    BY <1>17 DEF WriteBack, SwitchByHand, ConfirmByHand, vars, files, job
  <2>2. Item' = Item
    BY <2>1 DEF Item, Entry, job
  <2> QED
    BY <1>0, <2>1, <2>2 DEF EngineOK, LoopInv, Working, SourceInv, job, files
<1> QED
  BY <1>1, <1>2, <1>3, <1>4, <1>5, <1>6, <1>7, <1>8, <1>9, <1>10, <1>11,
     <1>12, <1>13, <1>14, <1>15, <1>16, <1>17
  DEF Next, Engine, Fault, ByHand

LEMMA Invariance == Spec => []IInv
<1>1. IInv /\ [Next]_vars => IInv'
  BY NextMeta, NextEngine, Halves DEF MetaOK, EngineOK, IInv, TypeOK
<1> QED
  BY <1>1, InitInv, PTL DEF Spec
-----------------------------------------------------------------------------
(* The types; among others, no try is taken from a slot that has none.     *)
THEOREM TypeCorrectness == Spec => []TypeOK
<1>1. IInv => TypeOK
  BY DEF IInv
<1> QED
  BY <1>1, Invariance, PTL

(* No step writes a partition of the slot the system runs in. *)
LEMMA StepLeavesRunning ==
  ASSUME IInv, [Next]_vars
  PROVE  \A i \in Entries : Table[i].slot = Suffix(running) => flash'[i] = flash[i]
<1>1. CASE OpenDevice \/ FinishWrite
  <2>1. Working
    BY <1>1 DEF OpenDevice, FinishWrite, Working
  <2>2. Entry \in Entries /\ Table[Entry].slot # Suffix(running)
    BY <2>1, AtAnEntry
  <2>3. \A i \in Entries : i # Entry => flash'[i] = flash[i]
    BY <1>1, <2>2 DEF OpenDevice, FinishWrite, IInv, TypeOK
  <2> QED
    BY <2>2, <2>3
<1>2. CASE ~(OpenDevice \/ FinishWrite)
  <2>1. flash' = flash
    BY <1>2 DEF Next, Engine, Fault, ByHand, StartUpdate, StartEntry,
       EndPatch, RejectPatch, RecordDone, RemoveDst, Verify, Finish,
       Cleanup, Exit, ReadFails, WriteFails, FsyncFails, ActivityFails,
       ConfirmFails, Crash, Boot, Confirm, WriteBack, Reboot, SwitchByHand,
       ConfirmByHand, files, vars
  <2> QED
    BY <2>1
<1> QED
  BY <1>1, <1>2

(***************************************************************************)
(* Whatever the mask and the image: no step of an update writes a          *)
(* partition of the slot the system runs in.                               *)
(***************************************************************************)
THEOREM RunningSlotSafe == Spec => RunningSlotUntouched
<1> DEFINE A == \A i \in Entries : Table[i].slot = Suffix(running) =>
                  flash'[i] = flash[i]
<1>1. IInv /\ [Next]_vars => [A]_vars
  BY StepLeavesRunning
<1> HIDE DEF A
<1>2. Spec => [][A]_vars
  BY <1>1, Invariance, PTL DEF Spec
<1> QED
  BY <1>2 DEF A, RunningSlotUntouched

(***************************************************************************)
(* The metadata never marks a slot both known to boot and with tries left, *)
(* whichever way the two systems were built.                               *)
(***************************************************************************)
THEOREM NeverConfused == Spec => []NoConfusedSlot
<1>1. IInv => NoConfusedSlot
  BY DEF IInv, MetaInv, NoConfusedSlot
<1> QED
  BY <1>1, Invariance, PTL
-----------------------------------------------------------------------------
(* While an update is under way, what the image has for the other slot as  *)
(* a whole partition is written, or still on the list.                     *)
Busy == Working \/ pc \in {"finish", "cleanup", "exit"}

Handled(i) == ItemFor(i, Items) \notin Patches => i \in todo \/ flash[i] = "new"

WrittenInv == Busy => \A i \in Parts(1 - running) : Handled(i)

LEMMA NextWritten ==
  ASSUME DefaultMask \subseteq Mask, IInv, WrittenInv, [Next]_vars
  PROVE  WrittenInv'
<1>0. running \in Slots /\ flash \in [Entries -> Contents]
  BY DEF IInv, TypeOK
<1>q. ASSUME ~Busy' PROVE WrittenInv'
  BY <1>q DEF WrittenInv
<1>s. ASSUME Busy, UNCHANGED <<flash, todo, running>> PROVE WrittenInv'
  BY <1>s DEF WrittenInv, Handled, Parts
<1>1. CASE StartUpdate
  <2>1. \A i \in Parts(1 - running) : i \in todo'
    BY <1>0, <1>1, PlanCovers DEF StartUpdate
  <2> QED
    BY <1>1, <2>1 DEF StartUpdate, WrittenInv, Handled, Parts
<1>2. CASE OpenDevice \/ FinishWrite
  <2>1. Working /\ UNCHANGED <<todo, running>>
    BY <1>2 DEF OpenDevice, FinishWrite, Working, job
  <2>2. Entry \in todo /\ Entry \in Entries
    BY <2>1, AtAnEntry
  <2>3. \A i \in Entries : i # Entry => flash'[i] = flash[i]
    BY <1>0, <1>2, <2>2 DEF OpenDevice, FinishWrite
  <2> QED
    BY <2>1, <2>2, <2>3 DEF WrittenInv, Handled, Parts, Busy
<1>3. CASE Verify
  <2>1. Working /\ flash' = flash /\ running' = running
    BY <1>3 DEF Verify, Working, files
  <2>2. CASE NextEntry /\ (source = "dst" \/ flash[Entry] = "new")
    <3>1. Item \in Patches \/ flash[Entry] = "new"
      BY <2>2 DEF IInv, SourceInv
    <3>2. todo' = todo \ {Entry}
      BY <2>2 DEF NextEntry
    <3> QED
      BY <2>1, <3>1, <3>2 DEF WrittenInv, Handled, Parts, Busy, Item
  <2>3. CASE Abort
    BY <2>3, <1>q DEF Abort, Busy, Working
  <2> QED
    BY <1>3, <2>2, <2>3 DEF Verify
<1>4. CASE RemoveDst
  <2>1. CASE ret = 0
    BY <1>4, <2>1, <1>s DEF RemoveDst, Busy, Working, job
  <2>2. CASE ret # 0
    BY <1>4, <2>2, <1>q DEF RemoveDst, Abort, Busy, Working
  <2> QED
    BY <2>1, <2>2
<1>5. CASE StartEntry \/ EndPatch \/ RecordDone \/ WriteFails \/ FsyncFails
  BY <1>5, <1>s DEF StartEntry, EndPatch, RecordDone, WriteFails, FsyncFails,
     Busy, Working, job, files
<1>6. CASE Finish \/ Cleanup \/ ActivityFails
  BY <1>6, <1>s DEF Finish, Cleanup, ActivityFails, Busy, job, files
<1>7. CASE RejectPatch \/ ReadFails \/ Exit \/ Crash \/ ConfirmFails \/ Boot
           \/ Confirm \/ Reboot
  BY <1>7, <1>q DEF RejectPatch, ReadFails, Abort, Exit, Crash, ConfirmFails,
     Boot, Confirm, Reboot, Busy, Working
<1>8. CASE WriteBack \/ SwitchByHand \/ ConfirmByHand \/ UNCHANGED vars
  <2>1. UNCHANGED <<flash, todo, running, pc>>
    BY <1>8 DEF WriteBack, SwitchByHand, ConfirmByHand, vars, files, job
  <2> QED
    BY <2>1, <1>q, <1>s DEF Busy, Working
<1> QED
  BY <1>1, <1>2, <1>3, <1>4, <1>5, <1>6, <1>7, <1>8
  DEF Next, Engine, Fault, ByHand

(***************************************************************************)
(* With the default mask, or one that selects more: when an update reports *)
(* success, every partition of the other slot that the image has as a      *)
(* whole is new, whatever failed before, however often it was restarted.   *)
(***************************************************************************)
THEOREM SuccessMeansWritten ==
  ASSUME DefaultMask \subseteq Mask
  PROVE  Spec => []FinishedMeansWritten
<1>1. Init => WrittenInv
  BY DEF Init, WrittenInv, Busy, Working
<1>2. IInv /\ WrittenInv /\ [Next]_vars => WrittenInv'
  BY NextWritten
<1>3. IInv /\ WrittenInv => FinishedMeansWritten
  BY DEF IInv, LoopInv, Working, WrittenInv, Busy, Handled, FinishedMeansWritten
<1> QED
  BY <1>1, <1>2, <1>3, Invariance, PTL DEF Spec
-----------------------------------------------------------------------------
(* The way out.  The boot loader's choice between the two slots, and what  *)
(* each writer of the metadata does to it.                                 *)
Outranks(m, s) ==
  \/ m[s].priority > m[1 - s].priority
  \/ m[s].priority = m[1 - s].priority /\ s = 0

(* A slot other than s that is known to boot comes behind s. *)
Behind(m, s) == m[1 - s].successful /\ Bootable(m[1 - s]) => Outranks(m, s)

LEMMA SucceedRanks ==
  ASSUME NEW m \in Metadata, NEW s \in Slots, NEW mode \in {"success", "retry"}
  PROVE  /\ Bootable(SetSlotSucceed(m, s, mode)[s])
         /\ Behind(m, s) => Behind(SetSlotSucceed(m, s, mode), s)
<1> DEFINE n == SetSlotSucceed(m, s, mode)
<1>1. m[s] \in Slot /\ m[1 - s] \in Slot /\ 1 - s # s
  BY DEF Metadata, Slots
<1>2. /\ n[1 - s] = m[1 - s]
      /\ n[s] = [priority |-> MaxPriority,
                 tries |-> IF mode = "retry" THEN MaxTries ELSE 0,
                 successful |-> mode = "success"]
  BY <1>1 DEF SetSlotSucceed, Metadata, Slots
<1>3. n[s].priority = 15
  BY <1>2 DEF MaxPriority
<1> HIDE DEF n
<1>4. Bootable(n[s])
  <2>1. CASE mode = "retry"
    <3>1. n[s] = [priority |-> MaxPriority, tries |-> MaxTries, successful |-> FALSE]
      BY <1>2, <2>1
    <3> QED
      BY <3>1, TriesAssumption DEF Bootable, Confused, MaxPriority
  <2>2. CASE mode = "success"
    <3>1. n[s] = [priority |-> MaxPriority, tries |-> 0, successful |-> TRUE]
      BY <1>2, <2>2
    <3> QED
      BY <3>1 DEF Bootable, Confused, MaxPriority
  <2> QED
    BY <2>1, <2>2
<1>5. m[s].priority \in {0, 14, 15} /\ m[1 - s].priority \in {0, 14, 15}
  BY <1>1 DEF Slot, MaxPriority
<1>6. Behind(m, s) => Behind(n, s)
  BY <1>2, <1>3, <1>5 DEF Behind, Outranks
<1> QED
  BY <1>4, <1>6 DEF n

LEMMA ActivityRanks ==
  ASSUME NEW m \in Metadata, NEW s \in Slots
  PROVE  /\ Bootable(m[s]) => Bootable(SetSlotActivity(m, s)[s])
         /\ Behind(SetSlotActivity(m, s), s)
<1> DEFINE n == SetSlotActivity(m, s)
<1>1. m[s] \in Slot /\ 1 - s \in Slots /\ 1 - s # s
  BY DEF Metadata, Slots
<1>2. n[s] = [m[s] EXCEPT !.priority = MaxPriority - 1]
  BY <1>1 DEF SetSlotActivity, Metadata, Slots
<1>3. n[1 - s] = [priority |-> MaxPriority, tries |-> MaxTries, successful |-> FALSE]
  BY <1>1 DEF SetSlotActivity, Metadata, Slots
<1>4. n[s].priority = 14 /\ n[s].tries = m[s].tries
                         /\ n[s].successful = m[s].successful
  BY <1>1, <1>2 DEF Slot, MaxPriority
<1>5. ~n[1 - s].successful
  BY <1>3
<1> HIDE DEF n
<1>6. Bootable(m[s]) => Bootable(n[s])
  BY <1>4 DEF Bootable, Confused
<1>7. Behind(n, s)
  BY <1>5 DEF Behind
<1> QED
  BY <1>6, <1>7 DEF n

(* The boot loader takes one try from the slot it starts, and leaves the   *)
(* other bootable if it was.                                               *)
LEMMA UseTryRanks ==
  ASSUME NEW m \in Metadata, NEW s \in Slots, Preferred(m, s)
  PROVE  /\ Behind(UseTry(m, s), s)
         /\ Bootable(m[1 - s]) => UseTry(m, s)[1 - s] = m[1 - s]
         /\ UseTry(m, s)[s].priority = m[s].priority
         /\ UseTry(m, s)[s].successful = m[s].successful
<1> DEFINE n == UseTry(m, s)
<1>1. m[s] \in Slot /\ m[1 - s] \in Slot /\ 1 - s \in Slots /\ 1 - s # s
  BY DEF Metadata, Slots
<1>2. /\ Normalize(m)[s] = m[s]
      /\ Normalize(m)[1 - s] = IF Bootable(m[1 - s]) THEN m[1 - s] ELSE Unbootable
  BY <1>1 DEF Normalize, Slots, Preferred
<1>3. n[1 - s] = IF Bootable(m[1 - s]) THEN m[1 - s] ELSE Unbootable
  BY <1>1, <1>2 DEF UseTry, Normalize, Slots
<1>4. n[s] = [m[s] EXCEPT !.tries = IF m[s].successful THEN @ ELSE @ - 1]
  BY <1>1, <1>2 DEF UseTry, Normalize, Slots
<1>5. n[s].priority = m[s].priority /\ n[s].successful = m[s].successful
  BY <1>1, <1>4 DEF Slot
<1> HIDE DEF n
<1>6. Behind(n, s)
  <2>1. CASE Bootable(m[1 - s])
    BY <1>3, <1>5, <2>1 DEF Behind, Outranks, Preferred
  <2>2. CASE ~Bootable(m[1 - s])
    BY <1>3, <2>2 DEF Behind, Unbootable
  <2> QED
    BY <2>1, <2>2
<1> QED
  BY <1>3, <1>5, <1>6 DEF n

(* Both copies of the metadata put the running slot before another one     *)
(* that is known to boot; the running slot can be booted again from the    *)
(* moment S99_bootcontrol has run, and when the device is reset; and it    *)
(* holds one whole version.                                                *)
CanRun == /\ pc \in {"off", "init"} => misc = miscDisk
          /\ pc # "init" => Bootable(misc[running])

SafeInv == /\ Intact(running)
           /\ Behind(misc, running) /\ Behind(miscDisk, running)
           /\ CanRun

LEMMA IntactStep ==
  ASSUME IInv, Intact(running), [Next]_vars
  PROVE  Intact(running)'
<1>1. CASE running' = running
  <2>1. \A i \in Parts(running) : flash'[i] = flash[i]
    BY StepLeavesRunning DEF Parts
  <2>2. Parts(running)' = Parts(running)
    BY <1>1 DEF Parts
  <2> QED
    BY <1>1, <2>1, <2>2 DEF Intact, Holds
<1>2. CASE running' # running
  <2>1. Boot
    BY <1>2 DEF Next, Engine, Fault, ByHand, StartUpdate, StartEntry,
       EndPatch, RejectPatch, OpenDevice, FinishWrite, RecordDone, RemoveDst,
       Verify, Finish, Cleanup, Exit, ReadFails, WriteFails, FsyncFails,
       ActivityFails, ConfirmFails, Crash, Confirm, WriteBack, Reboot,
       SwitchByHand, ConfirmByHand, files, vars
  <2>2. Intact(running') /\ flash' = flash
    BY <1>2, <2>1 DEF Boot, files
  <2> QED
    BY <2>2 DEF Intact, Holds, Parts
<1> QED
  BY <1>1, <1>2

LEMMA ModeIs == Mode \in {"success", "retry"}
BY ImageAssumption DEF Mode

(* The boot loader starts a slot, or fails to: then it was the other one,  *)
(* and the running slot stays bootable behind it.                          *)
LEMMA BootSafe ==
  ASSUME IInv, SafeInv, Boot
  PROVE  Behind(misc, running)' /\ Behind(miscDisk, running)' /\ CanRun'
<1> DEFINE r == running
<1>0. r \in Slots /\ miscDisk \in Metadata /\ pc = "off"
  BY DEF IInv, TypeOK, Boot
<1>1. PICK s \in Slots :
        /\ Preferred(miscDisk, s)
        /\ miscDisk' = UseTry(miscDisk, s)
        /\ IF Intact(s) THEN pc' = "init" /\ running' = s
                        ELSE UNCHANGED <<pc, running>>
  BY DEF Boot
<1>2. misc' = miscDisk'
  BY DEF Boot
<1>3. Bootable(miscDisk[r])
  BY <1>0 DEF SafeInv, CanRun
<1>4. Behind(UseTry(miscDisk, s), s)
  BY <1>0, <1>1, UseTryRanks
<1>5. CASE Intact(s)
  BY <1>1, <1>2, <1>4, <1>5 DEF CanRun, Behind, Outranks
<1>6. CASE ~Intact(s)
  <2>1. s # r /\ s = 1 - r /\ 1 - s = r
    BY <1>0, <1>6 DEF SafeInv, Slots
  <2>2. UseTry(miscDisk, s)[r] = miscDisk[r]
    BY <1>0, <1>1, <1>3, <2>1, UseTryRanks
  <2>3. ~miscDisk[s].successful
    <3>1. Bootable(miscDisk[s])
      BY <1>1 DEF Preferred
    <3>2. miscDisk[s] \in Slot /\ miscDisk[r] \in Slot
      BY <1>0 DEF Metadata, Slots
    <3>3. ~Outranks(miscDisk, r)
      <4>1. \/ miscDisk[s].priority > miscDisk[r].priority
            \/ miscDisk[s].priority = miscDisk[r].priority /\ s = 0
        BY <1>1, <1>3, <2>1 DEF Preferred
      <4>2. miscDisk[s].priority \in {0, 14, 15} /\ miscDisk[r].priority \in {0, 14, 15}
        BY <3>2 DEF Slot, MaxPriority
      <4> QED
        BY <4>1, <4>2, <2>1 DEF Outranks
    <3> QED
      BY <2>1, <3>1, <3>3 DEF SafeInv, Behind
  <2>4. ~UseTry(miscDisk, s)[s].successful
    BY <1>0, <1>1, <2>3, UseTryRanks
  <2>5. Behind(UseTry(miscDisk, s), r)
    BY <2>1, <2>4 DEF Behind
  <2>6. running' = r /\ pc' = pc
    BY <1>1, <1>6
  <2> QED
    BY <1>0, <1>1, <1>2, <1>3, <2>2, <2>5, <2>6 DEF CanRun, Behind, Outranks
<1> QED
  BY <1>5, <1>6

LEMMA SafeStep ==
  ASSUME IInv, SafeInv, [Next]_vars
  PROVE  SafeInv'
<1>0. /\ running \in Slots /\ misc \in Metadata /\ miscDisk \in Metadata
      /\ Behind(misc, running) /\ Behind(miscDisk, running) /\ CanRun
  BY DEF IInv, TypeOK, SafeInv
<1> DEFINE Ranks == Behind(misc, running)' /\ Behind(miscDisk, running)'
(* What a step makes of the two copies: it keeps them, writes the cache    *)
(* back, loses it, or is one of the writers.                               *)
<1>1. ASSUME running' = running, misc' \in {misc, miscDisk}, miscDisk' \in {misc, miscDisk}
      PROVE  Ranks
  BY <1>0, <1>1 DEF Behind, Outranks
<1>2. ASSUME UNCHANGED <<misc, running>>, miscDisk' \in {misc, miscDisk},
             pc \notin {"off", "init"}, pc' # "init", pc' = "off" => miscDisk' = misc
      PROVE  Ranks /\ CanRun'
  BY <1>0, <1>1, <1>2 DEF CanRun
<1>3. CASE \/ StartUpdate \/ StartEntry \/ EndPatch \/ RejectPatch \/ OpenDevice
           \/ FinishWrite \/ RecordDone \/ RemoveDst \/ Verify \/ Cleanup
           \/ ReadFails \/ WriteFails \/ FsyncFails \/ ActivityFails
  <2>1. /\ UNCHANGED <<misc, running>>
        /\ miscDisk' \in {misc, miscDisk}
        /\ pc \notin {"off", "init"} /\ pc' \notin {"off", "init"}
    BY <1>3 DEF StartUpdate, StartEntry, EndPatch, RejectPatch, OpenDevice,
       FinishWrite, RecordDone, RemoveDst, Verify, Cleanup, ReadFails,
       WriteFails, FsyncFails, ActivityFails, NextEntry, Abort, Sync
  <2> QED
    BY <1>2, <2>1, IntactStep DEF SafeInv
<1>4. CASE Exit \/ Reboot
  <2>1. /\ UNCHANGED <<misc, running>>
        /\ miscDisk' \in {misc, miscDisk}
        /\ pc \notin {"off", "init"} /\ pc' # "init"
        /\ pc' = "off" => miscDisk' = misc
    BY <1>4 DEF Exit, Reboot, Sync
  <2> QED
    BY <1>2, <2>1, IntactStep DEF SafeInv
<1>5. CASE Finish \/ SwitchByHand
  <2>1. /\ misc' = SetSlotActivity(misc, running)
        /\ UNCHANGED <<miscDisk, running>>
        /\ pc \notin {"off", "init"} /\ pc' \notin {"off", "init"}
    BY <1>5 DEF Finish, SwitchByHand
  <2>2. Behind(misc', running) /\ Bootable(misc'[running])
    BY <1>0, <2>1, ActivityRanks DEF CanRun
  <2> QED
    BY <1>0, <2>1, <2>2, IntactStep DEF SafeInv, Behind, Outranks, CanRun
<1>6. CASE Confirm \/ ConfirmByHand
  <2>1. /\ misc' = SetSlotSucceed(misc, running, Mode)
        /\ UNCHANGED <<miscDisk, running>> /\ pc' = "idle"
    BY <1>6 DEF Confirm, ConfirmByHand
  <2>2. Behind(misc', running) /\ Bootable(misc'[running])
    BY <1>0, <2>1, SucceedRanks, ModeIs
  <2> QED
    BY <1>0, <2>1, <2>2, IntactStep DEF SafeInv, Behind, Outranks, CanRun
<1>7. CASE ConfirmFails
  <2>1. Ranks
    BY <1>1, <1>7 DEF ConfirmFails
  <2>2. CanRun'
    BY <1>0, <1>7 DEF ConfirmFails, MayStop, CanRun
  <2> QED
    BY <2>1, <2>2, IntactStep DEF SafeInv
<1>8. CASE Crash
  <2>1. Ranks
    BY <1>1, <1>8 DEF Crash
  <2>2. CanRun'
    BY <1>0, <1>8 DEF Crash, MayStop, CanRun
  <2> QED
    BY <2>1, <2>2, IntactStep DEF SafeInv
<1>9. CASE WriteBack
  <2>1. pc \notin {"off", "init"}
    BY <1>0, <1>9 DEF WriteBack, CanRun
  <2> QED
    BY <1>2, <1>9, <2>1, IntactStep DEF WriteBack, Sync, SafeInv
<1>10. CASE UNCHANGED vars
  BY <1>0, <1>10, IntactStep DEF vars, SafeInv, CanRun, Behind, Outranks
<1>11. CASE Boot
  BY <1>11, BootSafe, IntactStep DEF SafeInv
<1> QED
  BY <1>3, <1>4, <1>5, <1>6, <1>7, <1>8, <1>9, <1>10, <1>11
  DEF Next, Engine, Fault, ByHand

LEMMA InitSafe == Init => SafeInv
<1> SUFFICES ASSUME Init PROVE SafeInv
  OBVIOUS
<1>1. Intact(running)
  BY DEF Init, Intact, Holds, Parts, Versions
<1>2. PICK other \in {Unbootable}
           \cup [priority : {MaxPriority - 1}, tries : 1 .. MaxTries,
                 successful : {FALSE}]
           \cup [priority : {MaxPriority - 1}, tries : {0}, successful : {TRUE}] :
        misc = SetSlotSucceed([s \in Slots |-> other], running, OldMode)
  BY DEF Init
<1>3. other.priority \in {0, 14}
  <2>1. CASE other = Unbootable
    BY <2>1 DEF Unbootable
  <2>2. CASE other \in [priority : {MaxPriority - 1}, tries : 1 .. MaxTries,
                        successful : {FALSE}]
    BY <2>2 DEF MaxPriority
  <2>3. CASE other \in [priority : {MaxPriority - 1}, tries : {0},
                        successful : {TRUE}]
    BY <2>3 DEF MaxPriority
  <2> QED
    BY <1>2, <2>1, <2>2, <2>3
<1>4. /\ running \in Slots /\ 1 - running \in Slots /\ 1 - running # running
      /\ OldMode \in {"success", "retry"}
  BY ImageAssumption DEF Init, Slots
<1>5. misc[1 - running] = other /\ misc[running].priority = 15
  BY <1>2, <1>4 DEF SetSlotSucceed, MaxPriority
<1>6. Behind(misc, running)
  BY <1>3, <1>5 DEF Behind, Outranks
<1>7. misc[running] = [priority |-> MaxPriority,
                       tries |-> IF OldMode = "retry" THEN MaxTries ELSE 0,
                       successful |-> OldMode = "success"]
  BY <1>2, <1>4 DEF SetSlotSucceed
<1>8. Bootable(misc[running])
  <2>1. CASE OldMode = "retry"
    <3>1. misc[running] = [priority |-> MaxPriority, tries |-> MaxTries,
                           successful |-> FALSE]
      BY <1>7, <2>1
    <3> QED
      BY <3>1, TriesAssumption DEF Bootable, Confused, MaxPriority
  <2>2. CASE OldMode = "success"
    <3>1. misc[running] = [priority |-> MaxPriority, tries |-> 0, successful |-> TRUE]
      BY <1>7, <2>2
    <3> QED
      BY <3>1 DEF Bootable, Confused, MaxPriority
  <2> QED
    BY <1>4, <2>1, <2>2
<1> QED
  BY <1>1, <1>6, <1>8 DEF Init, SafeInv, CanRun

(***************************************************************************)
(* Power may be lost at any moment of an update, of a confirmation or of a *)
(* switch by hand: the boot loader then prefers a slot that is whole, or   *)
(* one on trial with the running slot, whole and bootable, behind it.      *)
(***************************************************************************)
THEOREM AlwaysAWayOut == Spec => []SafeToStop
<1>1. IInv /\ SafeInv => SafeToStop
  <2> SUFFICES ASSUME IInv, SafeInv, pc = "off" \/ MayStop
               PROVE  \E s \in Slots : /\ Preferred(miscDisk, s)
                                       /\ Intact(s) \/ OnTrial(miscDisk, s)
    BY DEF SafeToStop
  <2> DEFINE r == running
             o == 1 - running
  <2>1. /\ r \in Slots /\ o \in Slots /\ o # r /\ 1 - o = r
        /\ miscDisk[r] \in Slot /\ miscDisk[o] \in Slot
    BY DEF IInv, TypeOK, Slots, Metadata
  <2>2. Bootable(miscDisk[r]) /\ Intact(r)
    BY DEF SafeInv, CanRun, MayStop
  <2>3. CASE Preferred(miscDisk, r)
    BY <2>1, <2>2, <2>3
  <2>4. CASE ~Preferred(miscDisk, r)
    <3>1. Bootable(miscDisk[o]) /\ ~Outranks(miscDisk, r)
      BY <2>2, <2>4 DEF Preferred, Outranks
    <3>2. ~miscDisk[o].successful
      BY <3>1 DEF SafeInv, Behind
    <3>3. Preferred(miscDisk, o)
      <4>1. miscDisk[r].priority \in {0, 14, 15} /\ miscDisk[o].priority \in {0, 14, 15}
        BY <2>1 DEF Slot, MaxPriority
      <4>2. r = 0 \/ o = 0
        BY <2>1 DEF Slots
      <4> QED
        BY <2>1, <3>1, <4>1, <4>2 DEF Preferred, Outranks
    <3> QED
      BY <2>1, <2>2, <3>2, <3>3 DEF OnTrial
  <2> QED
    BY <2>3, <2>4
<1>2. IInv /\ SafeInv /\ [Next]_vars => SafeInv'
  BY SafeStep
<1> QED
  BY <1>1, <1>2, InitSafe, Invariance, PTL DEF Spec
-----------------------------------------------------------------------------
(* The file a patch is written from.  Two partitions of one slot are never *)
(* written from the same item, and what has no slot has an item of its own.*)
LEMMA SlotBases ==
  /\ Table[9].base = "uboot" /\ Table[10].base = "uboot"
  /\ Table[11].base = "boot" /\ Table[12].base = "boot"
  /\ Table[13].base = "system" /\ Table[14].base = "system"
BY DEF Table, InA, InB

LEMMA NameIs ==
  ASSUME NEW i \in Entries
  PROVE  /\ Partner(Table[i]).base = Table[i].base
         /\ Partner(Table[i]).slot = IF Table[i].slot = "a" THEN "b" ELSE "a"
<1>1. \E b, s : Table[i] = [base |-> b, slot |-> s]
  <2>1. \A b : /\ Only(b) = [base |-> b, slot |-> "none"]
               /\ InA(b) = [base |-> b, slot |-> "a"]
               /\ InB(b) = [base |-> b, slot |-> "b"]
    BY DEF Only, InA, InB
  <2>2. \E b : Table[i] \in {Only(b), InA(b), InB(b)}
    BY EntriesAre DEF Table
  <2> QED
    BY <2>1, <2>2
<1> QED
  BY <1>1 DEF Partner

LEMMA ItemNames ==
  ASSUME NEW i \in Entries, NEW j \in Entries,
         Table[i].slot # "none", Table[j].slot = Table[i].slot,
         ItemFor(i, Items) = ItemFor(j, Items)
  PROVE  i = j
<1>1. Table[i].base = Table[j].base
  BY NameIs DEF ItemFor
<1>2. CASE Table[i].slot = "a"
  BY <1>1, <1>2, TableSlots, SlotBases
<1>3. CASE Table[i].slot = "b"
  BY <1>1, <1>3, TableSlots, SlotBases
<1> QED
  BY <1>2, <1>3, TableSlots

(* What the loop is at shares its item with no partition that could be     *)
(* torn: not with one of its own slot, and the running slot is whole.      *)
LEMMA OwnItem ==
  ASSUME IInv, Intact(running), Working,
         NEW i \in Entries, Table[i].slot # "none", flash[i] = "torn",
         ItemFor(i, Items) = Item
  PROVE  i = Entry
<1>1. /\ Entry \in Plan(running, Mask, Items) /\ Entry \in Entries
      /\ running \in Slots /\ Table[Entry].slot # Suffix(running) /\ Item \in Items
  BY AtAnEntry DEF IInv, TypeOK, LoopInv
<1>2. Table[i].slot # Suffix(running)
  <2> SUFFICES ASSUME Table[i].slot = Suffix(running) PROVE FALSE
    OBVIOUS
  <2>1. i \in Parts(running)
    BY <1>1 DEF Parts, ItemFor, HasItem
  <2> QED
    BY <2>1 DEF Intact, Holds, Versions
<1>3. Table[Entry].slot # "none"
  <2> SUFFICES ASSUME Table[Entry].slot = "none" PROVE FALSE
    OBVIOUS
  <2>1. Item = Table[Entry]
    BY <1>1 DEF Plan, Matched, TakesOther, Slotted, Item, ItemFor
  <2> QED
    BY <2>1, NameIs DEF ItemFor
<1>4. Table[i].slot = Table[Entry].slot
  BY <1>1, <1>2, <1>3, TableSlots DEF Suffix, Slots
<1> QED
  BY <1>1, <1>3, <1>4, ItemNames DEF Item

(* From the moment the device is opened the patched file is there, and     *)
(* when it is removed the partition has been written.                      *)
PatchInv ==
  /\ PatchRecoverable
  /\ pc \in {"open", "write"} /\ Item \in Patches => dst[Item] = "good"
  /\ pc \in {"record", "unlink"} => flash[Entry] = "new"

LEMMA PatchStep ==
  ASSUME IInv, SafeInv, PatchInv, [Next]_vars, ~WriteFails, ~FsyncFails
  PROVE  PatchInv'
<1>0. /\ flash \in [Entries -> Contents]
      /\ dst \in [Items -> {"none", "partial", "good"}]
      /\ Intact(running) /\ ~AlreadyDone
  BY DEF IInv, TypeOK, SafeInv, AlreadyDone, DoneFileSize
<1>a. Working => Entry \in Entries /\ Item \in Items
  BY AtAnEntry
<1>i. todo' = todo => Entry' = Entry /\ Item' = Item
  BY DEF Entry, Item
<1>q. ASSUME UNCHANGED <<flash, dst>>,
             pc' \notin {"open", "write", "record", "unlink"}
      PROVE  PatchInv'
  BY <1>q DEF PatchInv, PatchRecoverable
<1>s. ASSUME UNCHANGED <<flash, dst, todo, pc>> PROVE PatchInv'
  BY <1>s, <1>i DEF PatchInv, PatchRecoverable
<1>1. CASE StartEntry
  <2>0. Working /\ UNCHANGED <<flash, todo>> /\ pc' \notin {"record", "unlink"}
    BY <1>0, <1>1 DEF StartEntry, Working
  <2>1. CASE dst' = dst
    <3>1. pc' = "write" => FALSE
      BY <1>0, <1>1 DEF StartEntry
    <3>2. pc' = "open" /\ Item \in Patches => dst[Item] = "good"
      BY <1>0, <1>1 DEF StartEntry
    <3> QED
      BY <2>0, <2>1, <3>1, <3>2, <1>i DEF PatchInv, PatchRecoverable
  <2>2. CASE dst' # dst
    <3>1. /\ Item \in Patches /\ dst[Item] # "good" /\ pc' = "patch"
          /\ dst' = [dst EXCEPT ![Item] = "partial"]
      BY <1>0, <1>1, <2>2 DEF StartEntry
    <3>2. \A n \in Items : n # Item => dst'[n] = dst[n]
      BY <1>0, <3>1
    <3>3. PatchRecoverable'
      BY <2>0, <3>1, <3>2, ImageAssumption DEF PatchInv, PatchRecoverable
    <3> QED
      BY <3>1, <3>3 DEF PatchInv
  <2> QED
    BY <2>1, <2>2
<1>2. CASE EndPatch
  <2>1. Working /\ UNCHANGED <<flash, todo>> /\ pc' = "open"
    BY <1>2 DEF EndPatch, Working
  <2>2. dst'[Item] = "good" /\ \A n \in Items : n # Item => dst'[n] = dst[n]
    BY <1>0, <1>2, <1>a, <2>1 DEF EndPatch
  <2> QED
    BY <2>1, <2>2, <1>i, ImageAssumption DEF PatchInv, PatchRecoverable
<1>3. CASE OpenDevice
  <2>1. Working /\ UNCHANGED <<dst, todo>> /\ pc = "open" /\ pc' = "write"
    BY <1>3 DEF OpenDevice, Working, job
  <2>2. \A i \in Entries : i # Entry => flash'[i] = flash[i]
    BY <1>0, <1>3 DEF OpenDevice
  <2>3. Item \in Patches => dst[Item] = "good"
    BY <2>1 DEF PatchInv
  <2> QED
    BY <2>1, <2>2, <2>3, <1>i DEF PatchInv, PatchRecoverable, Item
<1>4. CASE FinishWrite
  <2>1. Working /\ UNCHANGED <<dst, todo>> /\ pc' = "record"
    BY <1>4 DEF FinishWrite, Working, job
  <2>2. flash'[Entry] = "new" /\ \A i \in Entries : i # Entry => flash'[i] = flash[i]
    BY <1>0, <1>4, <1>a, <2>1 DEF FinishWrite
  <2> QED
    BY <2>1, <2>2, <1>i DEF PatchInv, PatchRecoverable
<1>5. CASE RecordDone
  <2>1. UNCHANGED <<flash, dst, todo>> /\ pc = "record" /\ pc' = "unlink"
    BY <1>5 DEF RecordDone, job
  <2> QED
    BY <2>1, <1>i DEF PatchInv, PatchRecoverable
<1>6. CASE RemoveDst
  <2>1. Working /\ flash' = flash /\ pc = "unlink" /\ pc' \in {"verify", "idle"}
    BY <1>6 DEF RemoveDst, Working, Abort
  <2>2. \A n \in Items : n # Item => dst'[n] = dst[n]
    BY <1>0, <1>6 DEF RemoveDst
  <2>3. flash[Entry] = "new"
    BY <2>1 DEF PatchInv
  <2>4. ASSUME NEW i \in Entries, Table[i].slot # "none", flash[i] = "torn"
        PROVE  ItemFor(i, Items) # Item
    BY <1>0, <2>1, <2>3, <2>4, OwnItem
  <2>5. PatchRecoverable'
    BY <2>1, <2>2, <2>4, ImageAssumption DEF PatchInv, PatchRecoverable
  <2> QED
    BY <2>1, <2>5 DEF PatchInv
<1>7. CASE StartUpdate \/ RejectPatch \/ Verify \/ Finish \/ Cleanup \/ Exit
  BY <1>7, <1>q DEF StartUpdate, RejectPatch, Verify, NextEntry, Abort, Finish,
     Cleanup, Exit, files
<1>8. CASE ReadFails \/ ActivityFails \/ ConfirmFails \/ Crash \/ Boot \/ Confirm
           \/ Reboot
  BY <1>8, <1>q DEF ReadFails, Abort, ActivityFails, ConfirmFails, Crash, Boot,
     Confirm, Reboot, files
<1>9. CASE WriteBack \/ SwitchByHand \/ ConfirmByHand \/ UNCHANGED vars
  BY <1>9, <1>s DEF WriteBack, SwitchByHand, ConfirmByHand, vars, files, job
<1> QED
  BY <1>1, <1>2, <1>3, <1>4, <1>5, <1>6, <1>7, <1>8, <1>9
  DEF Next, Engine, Fault, ByHand

(***************************************************************************)
(* As long as no write of a partition fails, unnoticed or not: whenever    *)
(* power is lost, a torn partition that is written from a patch has its    *)
(* patched file, whole.  (A write that fails does break it: flash_normal   *)
(* removes the file whatever block_write returned.)                        *)
(***************************************************************************)
THEOREM PatchSurvives ==
  Spec /\ [][~WriteFails /\ ~FsyncFails]_vars => []PatchRecoverable
<1> DEFINE Lucky == ~WriteFails /\ ~FsyncFails
<1>1. Init => PatchInv
  BY DEF Init, PatchInv, PatchRecoverable
<1>2. IInv /\ SafeInv /\ PatchInv /\ [Next]_vars /\ [Lucky]_vars => PatchInv'
  <2>1. CASE UNCHANGED vars
    <3>1. Entry' = Entry /\ Item' = Item
      BY <2>1 DEF vars, Entry, Item
    <3> QED
      BY <2>1, <3>1 DEF vars, PatchInv, PatchRecoverable
  <2>2. CASE Lucky
    BY <2>2, PatchStep
  <2> QED
    BY <2>1, <2>2
<1>3. PatchInv => PatchRecoverable
  BY DEF PatchInv
<1>4. IInv /\ SafeInv /\ [Next]_vars => SafeInv'
  BY SafeStep
<1> HIDE DEF Lucky
<1>5. Spec /\ [][Lucky]_vars => []PatchRecoverable
  BY <1>1, <1>2, <1>3, <1>4, InitSafe, Invariance, PTL DEF Spec
<1> QED
  BY <1>5 DEF Lucky

(* In particular when nothing fails but the power. *)
COROLLARY PatchSurvivesPowerLoss ==
  ASSUME ~IoErrors
  PROVE  Spec => []PatchRecoverable
<1>1. ~WriteFails /\ ~FsyncFails
  BY DEF WriteFails, FsyncFails
<1> QED
  BY <1>1, PatchSurvives, PTL
=============================================================================
