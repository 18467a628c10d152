--------------------------- MODULE PriorityBuffer ---------------------------
(***************************************************************************)
(* The abstract sensor buffer as a state machine: the promise that         *)
(* SatelliteTasks relies on and SensorAcquisition implements.              *)
(***************************************************************************)
EXTENDS SensorBuffer

VARIABLE buffer   \* the data in the heap, smallest first

Init == buffer = <<>>

Push(d) == \E i \in HeapPlaces(buffer, d) : buffer' = BufferPush(buffer, d, i)

Pop == buffer # <<>> /\ buffer' = Front(buffer)

Clear == buffer' = <<>>

Next == Pop \/ Clear \/ \E d \in Datum : Push(d)

Spec == Init /\ [][Next]_buffer

=============================================================================
