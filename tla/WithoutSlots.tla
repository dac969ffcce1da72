---------------------------- MODULE WithoutSlots ----------------------------
(* The updates of a device without slots: the one through the recovery     *)
(* system (RecoveryUpdate), and the one from an SD card (SdCardUpdate).    *)
(* They share no state.                                                    *)
EXTENDS RecoveryUpdate

CONSTANTS Images, ItemsOf, LayoutOf, Commented, MaxRuns

(* A parameter file lists partitions of different names in different       *)
(* places, behind the partition table and the boot loader, and one for     *)
(* each item of its image.                                                 *)
ASSUME CardAssumption ==
  \A im \in Images :
    /\ \A p \in LayoutOf[im] : p.offset \in Nat \ {0, 64}
    /\ \A p, q \in LayoutOf[im] : p.name = q.name \/ p.offset = q.offset => p = q
    /\ \A i \in Entries :
         Table[i] \in ItemsOf[im] \ {Only("parameter"), Only("bootloader")} =>
           \E p \in LayoutOf[im] : p.name = Table[i]

VARIABLES image, file, script, place, left, listed, status, lost, runs

Card == INSTANCE SdCardUpdate WITH pc <- place, todo <- left

(* The script that a finished run leaves installs its image, whatever      *)
(* earlier runs have left in it.                                           *)
ScriptInstalls == Card!ScriptInstalls
=============================================================================
