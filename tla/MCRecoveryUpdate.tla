-------------------------- MODULE MCRecoveryUpdate --------------------------
(* Model-checking instance of the updates of a device without slots: a     *)
(* behaviour is one of an update through the recovery system               *)
(* (RecoveryUpdate), or one of a card that installs images (SdCardUpdate). *)
EXTENDS WithoutSlots

(* An image with a boot loader, the recovery system, two partitions of the *)
(* normal system and misc.                                                 *)
FullImage == {Only(base) : base \in {"uboot", "boot", "recovery", "rootfs", "misc"}}

VARIABLE setup

Part(name, flag, offset) == [name |-> name, flag |-> flag, offset |-> offset, size |-> 40]

(* An image with items of slot A alone; one with an item for each slot,    *)
(* and the partitions in another order; one with a comment.                *)
CardItems ==
  [half    |-> {Only("parameter"), InA("uboot"), InA("boot")},
   swapped |-> {Only("bootloader"), Only("parameter"), InA("boot"), InB("boot")},
   comment |-> {Only("parameter")}]
CardLayout ==
  [half    |-> {Part(InA("uboot"), "bootable", 640), Part(InB("uboot"), "bootable", 680),
                Part(InA("boot"), "none", 720), Part(InB("boot"), "none", 760),
                Part(Only("userdata"), "grow", 800)},
   swapped |-> {Part(InB("boot"), "none", 720), Part(InA("boot"), "none", 760),
                Part(Only("userdata"), "grow", 800)},
   comment |-> {}]

CardImages == DOMAIN CardItems

cardvars == <<image, file, script, place, left, listed, status, lost, runs>>

MCInit == setup \in {"recovery", "card"} /\ Init /\ Card!Init
MCNext ==
  /\ UNCHANGED setup
  /\ \/ setup = "recovery" /\ Next /\ UNCHANGED cardvars
     \/ setup = "card" /\ Card!Next /\ UNCHANGED vars
MCSpec == MCInit /\ [][MCNext]_<<setup, vars, cardvars>> /\ Fairness

(* create_gpt_buffer: partitions of an image that has room for them lie    *)
(* where the header says and do not overlap, also the one that grows; and  *)
(* the backup of the table ends right before its header.                   *)
ASSUME TableFits ==
  \A im \in Images, sectors \in 900 .. 1000 :
    LET header == Card!GptHeader(sectors)
        table  == {Card!GptEntry(p, sectors) : p \in LayoutOf[im]}
        backup == Card!GptBackup(header)
    IN  /\ \A e \in table : /\ header.firstUsable <= e.first
                            /\ e.first <= e.last /\ e.last <= header.lastUsable
        /\ \A d, e \in table : d # e => d.last < e.first \/ e.last < d.first
        /\ backup.entries + 32 = backup.mine /\ backup.entries > header.lastUsable
=============================================================================
