---------------------------- MODULE RadioPower ------------------------------
(* The 4G modem of the gateway as device: its supply, the node under /dev  *)
(* and the network interface usb0 that come and go with it, and what       *)
(* rf.c and rf_daemon.c do to them, in several programs at once.           *)
EXTENDS Naturals, FiniteSets

CONSTANTS
  Monitor,   \* the thread of rf_daemon.c
  Programs,  \* rf_test, unit_test, the gateway daemon
  Failures   \* bound on failing gpio commands and on killed programs

Users == Programs \cup {Monitor}

VARIABLES
  power,   \* the GPIO that supplies the modem
  modem,   \* "off", "up": on the USB bus
  node,    \* RF_DEV_PATH: "none", "char", "file"
  netif,   \* the interface is there
  route,   \* and a default route through it
  pc,      \* where each thread is
  state,   \* of rf_monitor_thread
  failures,
  excused, \* since the modem was last switched on a call failed, or a program was killed
  unlinked \* rf_dev_clean has removed the name of a modem that is up

machine == <<power, modem, node, netif, route>>
vars == <<machine, pc, state, failures, excused, unlinked>>

Init ==
  /\ power = FALSE /\ modem = "off" /\ node \in {"none", "file"}
  /\ netif = FALSE /\ route = FALSE
  /\ pc = [t \in Users |-> "idle"] /\ state = "RF_INIT"
  /\ failures = 0 /\ excused = TRUE /\ unlinked = FALSE

Goto(t, from, to) == pc[t] = from /\ pc' = [pc EXCEPT ![t] = to]
ReturnError(t, from) == Goto(t, from, "idle") /\ excused' = TRUE

rf_exist == node = "char"
rf_file_exist == node # "none"
netif_exist == netif
net_check_default_route == route
-----------------------------------------------------------------------------
(* The modem: it boots when it has power, and its driver makes the node    *)
(* unless something of that name is there; without power it is gone.       *)
Boot ==
  /\ power /\ modem = "off"
  /\ modem' = "up" /\ node' = IF node = "none" THEN "char" ELSE node
  /\ UNCHANGED <<power, netif, route, pc, state, failures, excused, unlinked>>

Gone ==
  /\ modem' = "off" /\ node' = IF node = "char" THEN "none" ELSE node
  /\ netif' = FALSE /\ route' = FALSE

Vanish ==
  /\ ~power /\ modem = "up" /\ Gone
  /\ UNCHANGED <<power, pc, state, failures, excused, unlinked>>

(* It crashes, and boots again.                                            *)
ModemCrash ==
  /\ power /\ modem = "up" /\ failures < Failures /\ Gone
  /\ failures' = failures + 1
  /\ UNCHANGED <<power, pc, state, excused, unlinked>>
-----------------------------------------------------------------------------
(* Mutant of Reset: a modem without a node is not switched on.             *)
ResetPresent(t) ==
  /\ Goto(t, "idle", IF rf_exist THEN "off" ELSE "idle")
  /\ UNCHANGED <<machine, state, failures, excused, unlinked>>
(* rf_reset, and rf_reset_test, which repeats it: off, if the node is      *)
(* there, until it has gone, and on, until it is back.                     *)
Reset(t) ==
  /\ Goto(t, "idle", IF rf_exist THEN "off" ELSE "gone")
  /\ UNCHANGED <<machine, state, failures, excused, unlinked>>

PowerOff(t) ==
  /\ Goto(t, "off", "gone") /\ power' = FALSE
  /\ UNCHANGED <<modem, node, netif, route, state, failures, excused, unlinked>>

PowerOffFails(t) ==
  /\ failures < Failures /\ failures' = failures + 1
  /\ ReturnError(t, "off")
  /\ UNCHANGED <<machine, state, unlinked>>

(* Mutant of WaitGone: the modem is left as it is.                         *)
WaitGoneOnly(t) ==
  /\ ~rf_exist /\ Goto(t, "gone", "idle")
  /\ UNCHANGED <<machine, state, failures, excused, unlinked>>
WaitGone(t) ==
  /\ ~rf_exist /\ Goto(t, "gone", "on")
  /\ UNCHANGED <<machine, state, failures, excused, unlinked>>

(* After ten seconds the modem stays without power.                        *)
GiveUpGone(t) ==
  /\ rf_exist /\ ReturnError(t, "gone")
  /\ UNCHANGED <<machine, state, failures, unlinked>>

PowerOn(t) ==
  /\ Goto(t, "on", "back") /\ power' = TRUE /\ excused' = FALSE
  /\ UNCHANGED <<modem, node, netif, route, state, failures, unlinked>>

PowerOnFails(t) ==
  /\ failures < Failures /\ failures' = failures + 1
  /\ ReturnError(t, "on")
  /\ UNCHANGED <<machine, state, unlinked>>

(* The reset has succeeded.                                                *)
Back(t) ==
  /\ rf_exist /\ Goto(t, "back", "idle")
  /\ UNCHANGED <<machine, state, failures, excused, unlinked>>

GiveUpBack(t) ==
  /\ ~rf_exist /\ ReturnError(t, "back")
  /\ UNCHANGED <<machine, state, failures, unlinked>>
-----------------------------------------------------------------------------
(* rf_monitor_thread: once it has seen no node it cleans up, and resets    *)
(* the modem from then on, for ever.                                       *)
MonitorInit ==
  /\ state = "RF_INIT" /\ ~rf_exist
  /\ Goto(Monitor, "idle", "clean") /\ state' = "RF_HARD_RESET"
  /\ UNCHANGED <<machine, failures, excused, unlinked>>

MonitorReset == state = "RF_HARD_RESET" /\ Reset(Monitor)

(* rf_dev_clean looks at the node, looks again, and removes it.            *)
Clean(t) ==
  /\ Goto(t, "clean", IF rf_exist THEN "idle" ELSE "look")
  /\ UNCHANGED <<machine, state, failures, excused, unlinked>>

Look(t) ==
  /\ Goto(t, "look", IF rf_file_exist THEN "unlink" ELSE "idle")
  /\ UNCHANGED <<machine, state, failures, excused, unlinked>>

Unlink(t) ==
  /\ Goto(t, "unlink", "idle")
  /\ node' = "none" /\ unlinked' = (unlinked \/ modem = "up")
  /\ UNCHANGED <<power, modem, netif, route, state, failures, excused>>
-----------------------------------------------------------------------------
(* rf_module_dial.  Whether the power could be switched is not looked at.  *)
Dial(t) ==
  /\ Goto(t, "idle", IF netif_exist THEN "idle" ELSE "dialOn")
  /\ route' = netif_exist
  /\ UNCHANGED <<power, modem, node, netif, state, failures, excused, unlinked>>

DialOn(t) ==
  /\ Goto(t, "dialOn", "dialWait") /\ power' = TRUE /\ excused' = FALSE
  /\ UNCHANGED <<modem, node, netif, route, state, failures, unlinked>>

DialWait(t) ==
  /\ rf_exist /\ Goto(t, "dialWait", "call")
  /\ UNCHANGED <<machine, state, failures, excused, unlinked>>

GiveUpDial(t) ==
  /\ ~rf_exist /\ ReturnError(t, "dialWait")
  /\ UNCHANGED <<machine, state, failures, unlinked>>

(* 4G_call.sh writes to the node by its name, which makes a regular file   *)
(* of it when the modem has gone; the interface comes with the modem's     *)
(* answer.                                                                 *)
Call(t) ==
  /\ Goto(t, "call", "idle")
  /\ node' = IF node = "none" THEN "file" ELSE node
  /\ netif' = (netif \/ node = "char") /\ route' = netif'
  /\ UNCHANGED <<power, modem, state, failures, excused, unlinked>>

(* rf_net_test: the route again, before the ping.                          *)
NetTest(t) ==
  /\ pc[t] = "idle" /\ netif_exist /\ ~net_check_default_route /\ route' = TRUE
  /\ UNCHANGED <<power, modem, node, netif, pc, state, failures, excused, unlinked>>

DialOnFails(t) ==
  /\ failures < Failures /\ failures' = failures + 1
  /\ Goto(t, "dialOn", "dialWait")
  /\ UNCHANGED <<machine, state, excused, unlinked>>

(* SIGINT, anywhere; rf_daemon ends with its monitor.                      *)
Kill(t) ==
  /\ pc[t] \notin {"idle", "dead"} /\ failures < Failures /\ failures' = failures + 1
  /\ pc' = [pc EXCEPT ![t] = IF t = Monitor THEN "dead" ELSE "idle"] /\ excused' = TRUE
  /\ UNCHANGED <<machine, state, unlinked>>

Modem == Boot \/ Vanish
Step(t) == \/ PowerOff(t) \/ WaitGone(t) \/ GiveUpGone(t) \/ PowerOn(t) \/ Back(t) \/ GiveUpBack(t)
           \/ Clean(t) \/ Look(t) \/ Unlink(t)
           \/ DialOn(t) \/ DialWait(t) \/ GiveUpDial(t) \/ Call(t)
Fault(t) == PowerOffFails(t) \/ PowerOnFails(t) \/ DialOnFails(t) \/ Kill(t)

Next == \/ Modem \/ ModemCrash
        \/ MonitorInit \/ MonitorReset
        \/ \E t \in Programs : Reset(t) \/ Dial(t) \/ NetTest(t)
        \/ \E t \in Users : Step(t) \/ Fault(t)

Spec == Init /\ [][Next]_vars

(* The modem boots and goes, threads run, and the monitor goes on.         *)
Fairness == /\ WF_vars(Modem)
            /\ WF_vars(MonitorInit) /\ WF_vars(MonitorReset)
            /\ \A t \in Users : WF_vars(Step(t))
FairSpec == Spec /\ Fairness
-----------------------------------------------------------------------------
(* When nobody is resetting it the modem has power, unless a call has      *)
(* failed or a program was killed since it was last switched on: however   *)
(* many reset and dial at once, the last to switch it off switches it on.  *)
LeftOffOnlyByFailure ==
  ~power => excused \/ \E t \in Users : pc[t] \in {"gone", "on"}

(* While the monitor lives the modem comes back again and again, whoever   *)
(* resets and dials as well; unless a regular file has taken the place of  *)
(* its node for good, or rf_dev_clean has removed that name when the modem *)
(* was up: a reset finds no node then, and does not switch the modem off.  *)
Heals ==
  [](pc[Monitor] # "dead" /\ ~unlinked) /\ <>[](node # "file") => []<>rf_exist
=============================================================================
