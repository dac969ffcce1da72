-------------------------- MODULE MCModemRequests --------------------------
(* Model-checking instances of ModemRequests: threads of one process.      *)
EXTENDS ModemRequests

InOneProcess == [t \in Threads |-> "iot_daemon"]
LockedOps == {"rf_cfun_reset", "rf_soft_reset", "rf_get_cpin", "rf_get_cfun",
              "update_RF_signalInfo", "N1_RF_hwreset"}
InfoOnly == {"get_RF_moduleInfo"}
=============================================================================
