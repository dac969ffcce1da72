------------------------------ MODULE MCMeter -------------------------------
(* Model-checking instance of the meter box (project/elec): a behaviour is *)
(* one of the threads on the line of the metering chip, or one of the      *)
(* threads that share the MQTT client.                                     *)
EXTENDS Meter

CONSTANTS Publishers, Control   \* the threads that publish; the one that starts and stops

SigalRegs == <<"LOSSVOL_UP", "OVERCUR_DOWN">>
ConRegs   == <<"FACTOR_DOWN">>

VARIABLES setup, client, bConnect, locked, place, reset, opened, late, stale

mqttvars == <<client, bConnect, locked, place, reset, opened, late, stale>>

Publishing == INSTANCE Mqtt WITH mutex <- locked, pc <- place

MCInit == setup \in {"chip", "mqtt"} /\ Init /\ Publishing!Init

MCNext ==
  \/ setup = "chip" /\ Next /\ UNCHANGED <<setup, mqttvars>>
  \/ setup = "mqtt" /\ Publishing!Next /\ UNCHANGED <<setup, vars>>

MCSpec == MCInit /\ [][MCNext]_<<setup, vars, mqttvars>> /\ Fairness

(* Publishers and mqtt_stop use the MQTT client one at a time, until       *)
(* mqtt_start initialises the mutex under somebody who holds it, and the   *)
(* first mqtt_start uses it alone; a later one does not.                   *)
PublishExclusive == Publishing!PublishExclusive

(* Nobody publishes through a client that is not there, but who was let in *)
(* before it was destroyed, or after a mqtt_start that failed.             *)
PublishesToClient == Publishing!PublishesToClient
=============================================================================
