------------------------------ MODULE NetConfig -----------------------------
(* common/utils/network/netip.c: an Ethernet interface, configured by      *)
(* several programs with ioctls, none of which knows of the others.  Of    *)
(* the flags of an interface only IFF_UP is kept.                          *)
EXTENDS Naturals

CONSTANTS
  Programs,
  Addresses, Masks, Gateways,
  NoAddress, Classful, \* no address; the mask that comes with an address
  Failures             \* bound on failing system calls

VARIABLES
  addr, mask, up, routes,  \* of the interface; the default gateways
  alias,      \* eth0:5, with an address to be checked, is there
  pc, call,   \* of each program: the next step, and what was asked for
  alone,      \* history: nobody else has configured since its call began
  asked,      \* history: what the last undisturbed call was to set
  failures,
  aliasLeft   \* history: a check has failed after its alias was made

interface == <<addr, mask, up, routes>>
vars == <<interface, alias, pc, call, alone, asked, failures, aliasLeft>>

Any == [addr |-> NoAddress, mask |-> Classful, up |-> FALSE]  \* nothing known
Busy == {t \in Programs : pc[t] # "idle"}
Checking == {t \in Programs : pc[t] \in {"alias", "aliasUp", "aliasDown"}}

Init ==
  /\ addr = NoAddress /\ mask = Classful /\ up = FALSE /\ routes = {}
  /\ alias = FALSE /\ pc = [t \in Programs |-> "idle"]
  /\ call = [t \in Programs |-> Any] /\ alone = [t \in Programs |-> FALSE]
  /\ asked = Any /\ failures = 0 /\ aliasLeft = FALSE

Goto(t, from, to) == pc[t] = from /\ pc' = [pc EXCEPT ![t] = to]
-----------------------------------------------------------------------------
(* A call that configures the interface: valid arguments, a socket, and    *)
(* flags read.                                                             *)
Begin(t, to, what) ==
  /\ Goto(t, "idle", to) /\ call' = [call EXCEPT ![t] = what]
  /\ alone' = [s \in Programs |-> s = t /\ Busy \subseteq Checking]
  /\ asked' = Any
  /\ UNCHANGED <<interface, alias, failures, aliasLeft>>

SetIp(t, a)      == Begin(t, "addr", [addr |-> a, mask |-> Classful, up |-> TRUE])
SetNetmask(t, m) == Begin(t, "mask", [addr |-> NoAddress, mask |-> m, up |-> TRUE])
SetBoth(t, a, m) == Begin(t, "addr", [addr |-> a, mask |-> m, up |-> TRUE])
UpNetif(t)       == Begin(t, "up", [Any EXCEPT !.up = TRUE])
DownNetif(t)     == Begin(t, "down", Any)

(* The kernel takes the routes away with the last address.                 *)
Flush == routes' = IF alias THEN routes ELSE {}

(* Mutant of AfterAddr: the mask is not set, as in set_addr.               *)
AfterAddrUp(t) == "up"
AfterAddr(t) == IF call[t].mask = Classful THEN "up" ELSE "mask"

(* SIOCSIFADDR: another address takes the mask of its class, and may take  *)
(* along the alias, when that is in the network of the old one.            *)
SetAddr(t) ==
  /\ Goto(t, "addr", AfterAddr(t)) /\ addr' = call[t].addr
  /\ IF addr = addr' THEN UNCHANGED <<mask, routes, alias>>
     ELSE mask' = Classful /\ Flush /\ alias' \in {alias, FALSE}
  /\ UNCHANGED <<up, call, alone, asked, failures, aliasLeft>>

(* SIOCSIFNETMASK, for an interface that has an address.                   *)
SetMask(t) ==
  /\ addr # NoAddress /\ Goto(t, "mask", "up") /\ mask' = call[t].mask
  /\ IF mask = mask' THEN UNCHANGED routes ELSE Flush
  /\ UNCHANGED <<addr, up, alias, call, alone, asked, failures, aliasLeft>>

(* SIOCSIFFLAGS, and the call returns 0.                                   *)
SetUp(t) ==
  /\ Goto(t, "up", "idle") /\ up' = TRUE
  /\ asked' = IF alone[t] THEN call[t] ELSE asked
  /\ UNCHANGED <<addr, mask, routes, alias, call, alone, failures, aliasLeft>>

SetDown(t) ==
  /\ Goto(t, "down", "idle") /\ up' = FALSE /\ routes' = {}
  /\ UNCHANGED <<addr, mask, alias, call, alone, asked, failures, aliasLeft>>

(* An ioctl fails, and the call with it, after what it has done so far.    *)
Fail(t) ==
  /\ pc[t] \in {"addr", "mask", "up", "down"} /\ pc' = [pc EXCEPT ![t] = "idle"]
  /\ \/ pc[t] = "mask" /\ addr = NoAddress /\ UNCHANGED failures
     \/ failures < Failures /\ failures' = failures + 1
  /\ UNCHANGED <<interface, alias, call, alone, asked, aliasLeft>>
-----------------------------------------------------------------------------
(* set_localgateway: to an up interface with an address; a gateway that is *)
(* there already counts as set.                                            *)
SetGateway(g) ==
  /\ up /\ addr # NoAddress /\ routes' = routes \cup {g}
  /\ UNCHANGED <<addr, mask, up, alias, pc, call, alone, asked, failures, aliasLeft>>

(* is_valid_ip2: the address is given to the alias, which is then taken    *)
(* down.                                                                   *)
CheckIp(t) ==
  /\ Goto(t, "idle", "alias")
  /\ UNCHANGED <<interface, alias, call, alone, asked, failures, aliasLeft>>

AliasAddr(t) ==
  /\ Goto(t, "alias", "aliasUp") /\ alias' = TRUE
  /\ UNCHANGED <<interface, call, alone, asked, failures, aliasLeft>>

(* EEXIST counts as valid; another error as invalid.                       *)
AliasRefused(t) ==
  /\ Goto(t, "alias", "idle")
  /\ UNCHANGED <<interface, alias, call, alone, asked, failures, aliasLeft>>

AliasUp(t) ==
  /\ alias /\ Goto(t, "aliasUp", "aliasDown")
  /\ UNCHANGED <<interface, alias, call, alone, asked, failures, aliasLeft>>

AliasDown(t) ==
  /\ alias /\ Goto(t, "aliasDown", "idle") /\ alias' = FALSE
  /\ UNCHANGED <<interface, call, alone, asked, failures, aliasLeft>>

(* Another check has taken the alias away, or an ioctl has failed: the     *)
(* address is reported invalid.                                            *)
AliasFails(t) ==
  /\ pc[t] \in {"aliasUp", "aliasDown"} /\ pc' = [pc EXCEPT ![t] = "idle"]
  /\ \/ ~alias /\ UNCHANGED <<failures, aliasLeft>>
     \/ failures < Failures /\ failures' = failures + 1 /\ aliasLeft' = TRUE
  /\ UNCHANGED <<interface, alias, call, alone, asked>>

Next ==
  \/ \E t \in Programs :
       \/ \E a \in Addresses : SetIp(t, a) \/ \E m \in Masks : SetBoth(t, a, m)
       \/ \E m \in Masks : SetNetmask(t, m)
       \/ UpNetif(t) \/ DownNetif(t) \/ SetAddr(t) \/ SetMask(t) \/ SetUp(t)
       \/ SetDown(t) \/ Fail(t) \/ CheckIp(t) \/ AliasAddr(t) \/ AliasRefused(t)
       \/ AliasUp(t) \/ AliasDown(t) \/ AliasFails(t)
  \/ \E g \in Gateways : SetGateway(g)

Spec == Init /\ [][Next]_vars
-----------------------------------------------------------------------------
ConfiguredAsAsked ==
  /\ asked.addr # NoAddress => addr = asked.addr
  /\ asked.mask # Classful  => mask = asked.mask
  /\ asked.up => up

AliasGone == Checking = {} /\ ~aliasLeft => ~alias

(* After a call that returned 0 and that no other overlapped, the          *)
(* interface is up with the address and the mask it asked for, whatever    *)
(* the calls before it have left half done; and with no check of an        *)
(* address under way the alias is gone, unless an ioctl of a check failed. *)
Settled == ConfiguredAsAsked /\ AliasGone
=============================================================================
