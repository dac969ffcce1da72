------------------------------- MODULE Netmask ------------------------------
(* common/utils/network/netip.c: which netmasks are accepted, for masks of *)
(* any width.                                                              *)
EXTENDS Naturals, Bitwise

(* is_valid_netmask and is_valid_netmask2.                                 *)
is_valid_netmask(netmask, expected, width) ==
  LET b == (2^width - netmask) % 2^width
  IN  /\ (IF b = 0 THEN 0 ELSE b & (b - 1)) = 0
      /\ expected \in {0, netmask}
=============================================================================
