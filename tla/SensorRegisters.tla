--------------------------- MODULE SensorRegisters --------------------------
(* project/SmartCam/module/src/mvcam.c: the settings of the image sensor,  *)
(* each in a register behind the I2C bus, set and read by programs that    *)
(* share the bus.                                                          *)
EXTENDS Naturals

CONSTANTS
  Settings,  \* those set and read in the instance
  Values,    \* what programs set them to
  Unknown    \* no value

(* The register each setter writes.                                        *)
Written ==
  [trigger_mode |-> "Trigger_Mode", trigger_source |-> "Trigger_Source",
   trigger_number |-> "Trigger_Num", trigger_delay |-> "Trigger_Delay",
   trigger_edge |-> "Trigger_Activation", gpio1_mode |-> "GPIO1_OutSelect",
   acquisition |-> "Image_Acquisition", ae_mode |-> "Exposure_Mode",
   ag_mode |-> "Gain_Mode", brightness |-> "Target_Brightness"]

(* The register each getter reads: not always the one its setter writes.   *)
(* The acquisition has no getter.                                          *)
Read ==
  [trigger_mode |-> "CAPTURE_MODE", trigger_source |-> "CAPTURE_MODE",
   trigger_number |-> "CAPTURE_MODE", trigger_delay |-> "Trigger_Delay",
   trigger_edge |-> "Trigger_Activation", gpio1_mode |-> "GPIO1_OutSelect",
   ae_mode |-> "Exposure_Mode", ag_mode |-> "Gain_Mode",
   brightness |-> "Trigger_Count"]

Registers == {Written[s] : s \in DOMAIN Written} \cup {Read[s] : s \in DOMAIN Read}
Flags == {"gpio1_mode", "ae_mode", "ag_mode"}

VARIABLES
  reg,    \* the registers
  asked   \* history: what each setting was last set to, if that has arrived

vars == <<reg, asked>>

Init ==
  /\ reg = [r \in Registers |-> 0] /\ asked = [s \in Settings |-> Unknown]
-----------------------------------------------------------------------------
(* What the setters make of their argument: the trigger mode is switched   *)
(* over, and 1 is written.                                                 *)
Encode(s, v) ==
  CASE s = "trigger_mode"           -> 1
    [] s \in {"ae_mode", "ag_mode"} -> IF v # 0 THEN 2 ELSE 0
    [] s = "gpio1_mode"             -> IF v = 0 THEN 1 ELSE 0
    [] OTHER                        -> v

(* Mutant of Register: the gain is set with the register of the exposure.  *)
RegisterOfExposure(s) == IF s = "ag_mode" THEN "Exposure_Mode" ELSE Written[s]
Register(s) == Written[s]

(* mvcam_i2c_write: the register number and the value, in one message.     *)
Set(s, v) ==
  /\ reg' = [reg EXCEPT ![Register(s)] = Encode(s, v)]
  /\ asked' = [asked EXCEPT ![s] = IF s \in Flags /\ v # 0 THEN 1 ELSE v]

(* A write that fails returns 0 all the same.                              *)
SetFails(s) == UNCHANGED reg /\ asked' = [asked EXCEPT ![s] = Unknown]

(* mvcam_write_reg from sensor_test: any register.                         *)
WriteReg(r, v) ==
  /\ reg' = [reg EXCEPT ![r] = v]
  /\ asked' = [s \in Settings |-> IF Register(s) = r THEN Unknown ELSE asked[s]]

(* mvcam_reboot_cam.                                                       *)
Reboot == reg' = [r \in Registers |-> 0] /\ asked' = [s \in Settings |-> Unknown]

(* mvcam_software_trigger, and a picture: the count goes up.               *)
Trigger ==
  /\ \E n \in Values : reg' = [reg EXCEPT !["Trigger_Count"] = n]
  /\ UNCHANGED asked

Bit(n, i) == (n \div 2^i) % 2 = 1

(* What a getter gives its caller for what it has read; the getters of     *)
(* delay and edge read into the pointer they were given and leave what it  *)
(* points to alone.                                                        *)
Decode(s, n) ==
  CASE s = "trigger_mode" -> IF Bit(n, 0) THEN "VIDEO_STREAM"
                             ELSE IF Bit(n, 1) THEN "NOMAL_TRIGGER" ELSE "UNKOWN_MODE"
    [] s \in {"trigger_delay", "trigger_edge"} -> Unknown
    [] s \in {"ae_mode", "ag_mode"} -> IF n = 2 THEN 1 ELSE 0
    [] s = "gpio1_mode" -> IF n = 0 THEN 1 ELSE 0
    [] OTHER -> n

Get(s) == Decode(s, reg[Read[s]])

Next ==
  \/ \E s \in Settings : SetFails(s) \/ \E v \in Values : Set(s, v)
  \/ \E r \in {Register(s) : s \in Settings}, v \in Values : WriteReg(r, v)
  \/ Reboot \/ Trigger

Spec == Init /\ [][Next]_vars
-----------------------------------------------------------------------------
(* The modes of exposure, gain and GPIO1 read back as they were last set,  *)
(* whatever other settings have been written since.  Of the other getters  *)
(* two agree with their setter on the register too, those of delay and     *)
(* edge, but give their caller nothing; the rest read another register.    *)
ReadsBack ==
  \A s \in Settings \cap Flags : asked[s] # Unknown => Get(s) = asked[s]
=============================================================================
