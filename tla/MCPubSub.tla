------------------------------ MODULE MCPubSub ------------------------------
(***************************************************************************)
(* Small instances of PubSub.  The logger subscribes to everything at LOW  *)
(* priority as g_sdLoggerModule does; "watch" is a SYNC observer; "ctrl" is  *)
(* a consumer of the sensor packets only, ahead of the logger.             *)
(***************************************************************************)
EXTENDS PubSub

MCBits    == {"log", "sensor"}
MCLogApid == {"log"}
MCApids   == {{"sensor"}}
MCLevels  == {LogERROR, LogVERBOSE}

watch  == [handler |-> "watch",  apid |-> MCBits,     prio |-> SYNC]
ctrl   == [handler |-> "ctrl",   apid |-> {"sensor"}, prio |-> 1]
logger == [handler |-> "logger", apid |-> MCBits,     prio |-> 3]

MCSubscriptions == {watch, ctrl, logger}
MCHandlerCalls  == [h \in {"watch", "ctrl", "logger"} |-> 1]
=============================================================================
