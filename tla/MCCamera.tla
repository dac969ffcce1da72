------------------------------ MODULE MCCamera ------------------------------
(* Model-checking instance of the camera of SmartCam: a behaviour is one   *)
(* of Camera, or one of SensorRegisters.                                   *)
EXTENDS Camera

CONSTANTS Settings, Values   \* of the sensor

VARIABLES setup, reg, asked

Sensor == INSTANCE SensorRegisters WITH Unknown <- Nothing

ASSUME SettingsAssumption == Settings \subseteq DOMAIN Sensor!Written

MCInit ==
  /\ setup \in {"stream", "sensor"} /\ Init /\ Sensor!Init

MCNext ==
  \/ setup = "stream" /\ Next /\ UNCHANGED <<setup, reg, asked>>
  \/ setup = "sensor" /\ Sensor!Next /\ UNCHANGED <<setup, vars>>

MCSpec == MCInit /\ [][MCNext]_<<setup, vars, reg, asked>> /\ Fairness

(* The modes of exposure, gain and GPIO1 read back as they were last set.  *)
ReadsBack == Sensor!ReadsBack
=============================================================================
