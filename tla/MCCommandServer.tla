--------------------------- MODULE MCCommandServer ---------------------------
(* Model-checking instance of CommandServer.                               *)
EXTENDS CommandServer

Ask(module, submodule, action, fields) ==
  [module |-> module, submodule |-> submodule, action |-> action, fields |-> fields]

(* Requests for each handler: answered, refused, forgotten, incomplete.    *)
SomeRequests ==
  { Ask("sensor", "framerate", "set", {"fps"}), Ask("sensor", "framerate", "reset", {}),
    Ask("sensor", "trigger", "set", TriggerFields \ {"mode"}),
    Ask("sensor", "trigger", "set", TriggerFields), Ask("video", "format", "get", {}),
    Ask("video", "stream", "start", {}),
    Ask("system", "none", "set", {"ip", "netmask", "gateway"}),
    Ask("network", "none", "get", {}), Ask("sensor", "gain", "none", {}) }
=============================================================================
