---------------------------- MODULE MCSdMonitor ----------------------------
(* Model-checking instances of SdMonitor.                                  *)
EXTENDS SdMonitor

OnePartition == {"mmcblk1p1"}
OneStranger == {"gpiochip1"}

(* The digits after the last 'p'.                                          *)
NumberOf == [n \in Names |-> 1]
=============================================================================
