------------------------------- MODULE Network ------------------------------
(* The ways out of the gateway: the supply of the radio modem              *)
(* (RadioPower), the programs that ping (Ping), and those that configure   *)
(* the Ethernet interface (NetConfig).  They share no state.               *)
EXTENDS Naturals

CONSTANTS
  Monitor, Resetters, Failures,
  Pingers, Id, Local, Times, Queue, OnTheWay,
  Configurers, Addresses, Masks, Gateways, NoAddress, Classful, NetFailures

ASSUME RadioAssumption == Monitor \notin Resetters /\ Failures \in Nat

VARIABLES
  power, modem, node, netif, route, resetting, state, failures, excused, unlinked,
  pinging, itimes, counted, socket, network, answered, strays,
  addr, mask, up, gateways, alias, configuring, call, alone, asked, netFailures,
  aliasLeft

Radio == INSTANCE RadioPower WITH Programs <- Resetters, pc <- resetting

Pings == INSTANCE Ping WITH pc <- pinging

Ethernet == INSTANCE NetConfig WITH
  Programs <- Configurers, Failures <- NetFailures,
  pc <- configuring, failures <- netFailures, routes <- gateways

(* When nobody is resetting it the modem has power, unless a call has      *)
(* failed or a program was killed since it was last switched on.           *)
LeftOffOnlyByFailure == Radio!LeftOffOnlyByFailure

(* A request counted as answered has been answered, unless the socket got  *)
(* another packet with the same two numbers, whose type nobody reads.      *)
CountedAnswered == Pings!CountedAnswered

(* After a call that nobody disturbed the interface is up as it asked, and *)
(* the alias of a check is gone.                                           *)
Settled == Ethernet!Settled
=============================================================================
