----------------------------- MODULE UpdatePlan -----------------------------
(***************************************************************************)
(* Which partitions an update writes, and with which item of the image     *)
(* (project/SmartCam/app/update_engine/update.c and main.c).               *)
(*                                                                         *)
(* The table update_cmd lists the partitions the engine knows; a 24-bit    *)
(* mask selects entries, entry i (from 1) by bit 24 - i.  MiscUpdate       *)
(* chooses the mask, RK_ota_set_partition(mask) marks the entries, and     *)
(* RK_ota_set_partition(-1) matches them with the items of the image.      *)
(* A mask is the set of its bits, so that & is an intersection.            *)
(***************************************************************************)
EXTENDS Naturals, Sequences

(* A partition: the part of the system it holds, and its slot. *)
Only(base) == [base |-> base, slot |-> "none"]
InA(base)  == [base |-> base, slot |-> "a"]
InB(base)  == [base |-> base, slot |-> "b"]

(* update_cmd, in the order in which RK_ota_start goes through it. *)
Table ==
  << Only("bootloader"), Only("parameter"), Only("uboot"), Only("trust"),
     Only("boot"), Only("recovery"), Only("rootfs"), Only("oem"),
     InA("uboot"), InB("uboot"), InA("boot"), InB("boot"),
     InA("system"), InB("system"), Only("misc"), Only("userdata") >>

Entries == DOMAIN Table

(* The slots as u-boot numbers them, and their suffixes _a and _b. *)
Slots == {0, 1}
Suffix(s) == IF s = 0 THEN "a" ELSE "b"

(* The same partition of the other slot. *)
Slotted(name) == name.slot # "none"
Partner(name) == [name EXCEPT !.slot = IF @ = "a" THEN "b" ELSE "a"]

(* The default mask in A/B mode, 0xFC00: every partition with a slot. *)
DefaultMask == 10 .. 15

(* Mutants of Allowed: the masks of the two slots exchanged; the bit of    *)
(* system_b missing for the update that runs in slot A.                    *)
AllowedSwapped(running) ==
  IF running = 0 THEN (0 .. 8) \cup {11, 13, 15, 16}
                 ELSE (0 .. 8) \cup {10, 12, 14, 16}

AllowedForgetsSystem(running) ==
  IF running = 0 THEN (0 .. 8) \cup {12, 14, 16}
                 ELSE (0 .. 8) \cup {11, 13, 15, 16}

(* What an update may select when it runs in slot A, 0x155ff, or in slot   *)
(* B, 0x1a9ff.                                                             *)
Allowed(running) ==
  IF running = 0 THEN (0 .. 8) \cup {10, 12, 14, 16}
                 ELSE (0 .. 8) \cup {11, 13, 15, 16}

(* RK_ota_set_partition(mask): the entries that get need_update and a      *)
(* dest_path; parameter gets them whatever the mask says.                  *)
Marked(mask) == {i \in Entries : 24 - i \in mask \/ Table[i] = Only("parameter")}

(* RK_ota_set_partition(-1): a marked entry the image has no item for is   *)
(* written from the item of its partner, and renamed to it; its dest_path  *)
(* still names the device of the entry.                                    *)
HasItem(i, items)    == Table[i] \in items
TakesOther(i, items) == ~HasItem(i, items) /\ Slotted(Table[i])
                          /\ Partner(Table[i]) \in items

Matched(marked, items) ==
  {i \in marked : HasItem(i, items) \/ TakesOther(i, items)}

ItemFor(i, items) == IF HasItem(i, items) THEN Table[i] ELSE Partner(Table[i])

(* The entries that an update started in a running slot writes:            *)
(* RK_ota_start passes over misc and parameter.                            *)
Plan(running, mask, items) ==
  {i \in Matched(Marked(mask \cap Allowed(running)), items) :
     Table[i] \notin {Only("misc"), Only("parameter")}}
=============================================================================
