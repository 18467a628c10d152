-------------------------- MODULE MCSatelliteTasks --------------------------
EXTENDS SatelliteTasks

CONSTANTS tel, rad   \* model values

(* Telemetry outranks radiation in the buffer (sensor.rs:276 and 294).     *)
MCPriority == [s \in Sensor |-> IF s = tel THEN 3 ELSE 2]
=============================================================================
