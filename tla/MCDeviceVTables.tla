-------------------------- MODULE MCDeviceVTables --------------------------
(* A configuration, a factory and two devices of different versions.       *)
EXTENDS DeviceVTables

CONSTANTS cfg, fac, new, old

MCVTable == {cfg, fac, new, old}
MCClass == [v \in MCVTable |-> CASE v = cfg -> "config" [] v = fac -> "factory"
                                 [] OTHER -> "device"]
MCVersion == [v \in MCVTable |-> IF v = old THEN 1 ELSE 10]
=============================================================================
