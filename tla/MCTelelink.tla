----------------------------- MODULE MCTelelink -----------------------------
EXTENDS Telelink

CONSTANTS tel, rad   \* model values

(* One fault message between three packets of the sensor.                  *)
MCMaxPackets == [p \in Prefix |-> IF p = "FMI" THEN 1 ELSE 3]
=============================================================================
