-------------------------------- MODULE Mqtt --------------------------------
(* project/elec/module/src/mqtt.c: one MQTT client for the threads that    *)
(* publish and the thread that starts and stops it.                        *)
EXTENDS Naturals

CONSTANTS Publishers, Control

MqttThreads == Publishers \cup {Control}

VARIABLES
  client,    \* vn_client.client: there is one
  bConnect,
  mutex,     \* vn_client.mutex is locked
  pc,
  reset,     \* history: mqtt_start has initialised the mutex under its holder
  opened,    \* history: mqtt_start has connected once
  late,      \* history: publishers let in before the client was last destroyed
  stale      \* history: a mqtt_start that failed has left bConnect set

vars == <<client, bConnect, mutex, pc, reset, opened, late, stale>>
history == <<reset, opened, late, stale>>

Init ==
  /\ client = FALSE /\ bConnect = FALSE /\ mutex = FALSE
  /\ pc = [t \in MqttThreads |-> "idle"]
  /\ reset = FALSE /\ opened = FALSE /\ late = {} /\ stale = FALSE

Goto(t, from, to) == pc[t] = from /\ pc' = [pc EXCEPT ![t] = to]

(* Those who hold the mutex, or did until it was initialised again.        *)
Inside == {t \in MqttThreads : pc[t] \in {"publish", "wait", "disconnect"}}
(* mqtt_start uses the client without it, to create, connect and destroy.  *)
Starting == pc[Control] = "connect"
Using == Inside \cup {t \in {Control} : Starting}

(* Mutant of Lock: the client is used without the mutex.                   *)
LockNot(t, from, to) ==
  /\ Goto(t, from, to) /\ UNCHANGED <<client, bConnect, mutex, history>>
Lock(t, from, to) ==
  /\ Goto(t, from, to) /\ ~mutex /\ mutex' = TRUE
  /\ UNCHANGED <<client, bConnect, history>>

(* MQTTClient_destroy, under whoever was let in before.                    *)
Destroy ==
  /\ client' = FALSE
  /\ late' = {p \in Publishers : pc[p] # "idle"}
-----------------------------------------------------------------------------
(* mqtt_publish: bConnect is read before the mutex is taken, and never     *)
(* after; what publishMessage returns is not looked at.                    *)
Check(p) ==
  /\ bConnect /\ Goto(p, "idle", "lock")
  /\ UNCHANGED <<client, bConnect, mutex, history>>

Publish(p) ==
  /\ Goto(p, "publish", "wait")
  /\ UNCHANGED <<client, bConnect, mutex, history>>

Unlock(p) ==
  /\ Goto(p, "wait", "idle") /\ mutex' = FALSE
  /\ late' = late \ {p}
  /\ UNCHANGED <<client, bConnect, reset, opened, stale>>

(* mqtt_start.                                                             *)
Create ==
  /\ Goto(Control, "idle", "connect") /\ client' = TRUE /\ stale' = FALSE
  /\ UNCHANGED <<bConnect, mutex, reset, opened, late>>

Connect ==
  /\ Goto(Control, "connect", "init") /\ bConnect' = TRUE /\ opened' = TRUE
  /\ UNCHANGED <<client, mutex, reset, late, stale>>

(* bConnect keeps what an earlier start has left in it.                    *)
ConnectFails ==
  /\ Goto(Control, "connect", "idle") /\ Destroy /\ stale' = bConnect
  /\ UNCHANGED <<bConnect, mutex, reset, opened>>

(* After the publishers have been let in: a mutex that one of them has     *)
(* locked is unlocked by it.                                               *)
InitMutex ==
  /\ Goto(Control, "init", "idle") /\ mutex' = FALSE
  /\ reset' = (reset \/ Inside # {})
  /\ UNCHANGED <<client, bConnect, opened, late, stale>>

(* Mutant of Stop: publishers are still let in.                            *)
StopLetsIn ==
  /\ Goto(Control, "disconnect", "idle")
  /\ Destroy /\ mutex' = FALSE /\ stale' = FALSE
  /\ UNCHANGED <<bConnect, reset, opened>>
(* mqtt_stop.                                                              *)
Stop ==
  /\ Goto(Control, "disconnect", "idle")
  /\ bConnect' = FALSE /\ Destroy /\ mutex' = FALSE /\ stale' = FALSE
  /\ UNCHANGED <<reset, opened>>

Next ==
  \/ \E p \in Publishers : \/ Check(p) \/ Lock(p, "lock", "publish")
                           \/ Publish(p) \/ Unlock(p)
  \/ Create \/ Connect \/ ConnectFails \/ InitMutex
  \/ Lock(Control, "idle", "disconnect") \/ Stop

Spec == Init /\ [][Next]_vars
-----------------------------------------------------------------------------
(* Publishers and mqtt_stop use the client one at a time for as long as    *)
(* mqtt_start has not initialised the mutex while somebody held it.  The   *)
(* create, connect and destroy of mqtt_start (mqtt.c:98-108) take no lock: *)
(* the first is alone even so, since nobody is let in before it has        *)
(* connected, but a later one meets the publisher that uses the client.    *)
PublishExclusive ==
  \A s, t \in Using : s = t \/ reset \/ (opened /\ Starting /\ Control \in {s, t})

(* Nobody publishes through a client that is not there, but who was let in *)
(* before it was destroyed, and reads bConnect no more (mqtt.c:66), or who *)
(* is let in after a mqtt_start that failed and left bConnect set          *)
(* (mqtt.c:106-111).                                                       *)
PublishesToClient ==
  \A p \in Publishers :
    pc[p] \in {"publish", "wait"} => client \/ p \in late \/ stale
=============================================================================
