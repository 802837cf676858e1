---------------------------- MODULE MCSuperloop ----------------------------
(***************************************************************************)
(* The two sensor services, the SD logger (LOW, every APID) and "ctrl", an *)
(* application module that gets the pressure samples synchronously.        *)
(***************************************************************************)
EXTENDS Superloop

MCBits       == {"log", "icm", "bmp"}
MCLogApid    == {"log"}
MCLevels     == {LogVERBOSE}
MCSensors    == {"icm20948", "bmp390"}
MCSensorApid == [s \in MCSensors |-> IF s = "bmp390" THEN {"bmp"} ELSE {"icm"}]
MCFirst      == {"bmp390"}

logger == [handler |-> "sd_logger", apid |-> MCBits,  prio |-> 3]
ctrl   == [handler |-> "ctrl",      apid |-> {"bmp"}, prio |-> SYNC]

MCSubscriptions == {logger, ctrl}
MCHandlerCalls  == [h \in {"sd_logger", "ctrl"} |-> 1]
=============================================================================
