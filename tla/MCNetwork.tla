------------------------------ MODULE MCNetwork -----------------------------
(* Model-checking instance of the ways out of the gateway: a behaviour is  *)
(* one of the programs that reset and dial the radio modem, of the threads *)
(* that send it commands, of the programs that ping, or of those that      *)
(* configure the Ethernet interface.                                       *)
EXTENDS Network, MCModemRequests, Netmask

VARIABLE setup

(* Every caller of ping and ping_intf has the id 0.                        *)
IdZero == [p \in Pingers |-> 0]

radiovars == <<power, modem, node, netif, route, resetting, state, failures, excused,
               unlinked>>
pingvars == <<pinging, itimes, counted, socket, network, answered, strays>>
netvars == <<addr, mask, up, gateways, alias, configuring, call, alone, asked,
             netFailures, aliasLeft>>

MCInit ==
  /\ setup \in {"radio", "modem", "ping", "ethernet"}
  /\ Radio!Init /\ Init /\ Pings!Init /\ Ethernet!Init

MCNext ==
  /\ UNCHANGED setup
  /\ \/ setup = "radio" /\ Radio!Next /\ UNCHANGED <<vars, pingvars, netvars>>
     \/ setup = "modem" /\ Next /\ UNCHANGED <<radiovars, pingvars, netvars>>
     \/ setup = "ping" /\ Pings!Next /\ UNCHANGED <<radiovars, vars, netvars>>
     \/ setup = "ethernet" /\ Ethernet!Next /\ UNCHANGED <<radiovars, vars, pingvars>>

(* Who sends commands runs, and so does the modem that answers them.       *)
MCSpec ==
  /\ MCInit /\ [][MCNext]_<<setup, radiovars, vars, pingvars, netvars>>
  /\ Fairness

(* While the monitor lives, and the modem, it and the programs run, the    *)
(* modem comes back again and again.                                       *)
Heals == setup = "radio" /\ Radio!Fairness => Radio!Heals

(* checksum: a packet with its own checksum in it has checksum 0.          *)
ASSUME ChecksumIsZero ==
  \A a, b, c \in {0, 1, 255, 65534, 65535} :
    Pings!Checksum(<<a, b, c, Pings!Checksum(<<a, b, c>>)>>) = 0

(* is_valid_netmask takes just the masks of ones followed by zeros.        *)
ASSUME NetmaskIsPrefix ==
  \A w \in 1 .. 8 : \A m \in 0 .. 2^w - 1 :
    is_valid_netmask(m, 0, w) <=> \E k \in 0 .. w : m = 2^w - 2^k
=============================================================================
