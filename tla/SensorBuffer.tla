---------------------------- MODULE SensorBuffer ----------------------------
(***************************************************************************)
(* What SensorPrioritizedBuffer (src/src/satellite/buffer.rs) promises to  *)
(* its users: a bounded priority queue of sensor data in which timestamps  *)
(* are visible only through the order they impose.  SatelliteTasks is      *)
(* built on these operators; SensorAcquisition, which has the timestamps,  *)
(* implements them.                                                        *)
(***************************************************************************)
EXTENDS Integers, Sequences, SequencesExt

CONSTANTS
  Sensor,           \* the sensors (telemetry, radiation, antenna)
  Telemetry,        \* the one whose data the thermal control watches
  Kinds,            \* which fault kinds are simulated
  BufferCapacity    \* SENSOR_BUFFER_SIZE

ASSUME SensorsAssumption == Telemetry \in Sensor
ASSUME KindsAssumption == Kinds \subseteq {"corrupt", "delay"}
ASSUME CapacityAssumption == BufferCapacity \in Nat \ {0}

Datum == [sensor : Sensor, priority : {1, 2, 3, 5}, faults : SUBSET Kinds]
NoDatum == [sensor |-> Telemetry, priority |-> 0, faults |-> {}]

(* SensorData::cmp, with timestamps abstracted: may d sort above e?  Data  *)
(* of one sensor are sampled in timestamp order, except that a delayed     *)
(* datum is 500 ms older than it looks.                                    *)
MaySortAbove(d, e) == d.priority >= e.priority

MaySortBelow(d, e) ==
  \/ d.priority < e.priority
  \/ /\ d.priority = e.priority
     /\ \/ d.sensor # e.sensor
        \/ "delay" \in d.faults /\ "delay" \notin e.faults

(* The places a new datum d can take in the heap, smallest first.          *)
HeapPlaces(b, d) ==
  {i \in 1..(Len(b) + 1) : /\ \A j \in 1..(i - 1) : MaySortAbove(d, b[j])
                           /\ \A j \in i..Len(b)  : MaySortBelow(d, b[j])}

(* SensorPrioritizedBuffer::push: a full heap drops its minimum, which is  *)
(* the new datum itself (Err "LOSS") when it sorts below all the others.   *)
BufferPush(b, d, i) ==
  LET placed == InsertAt(b, i, d)
  IN  IF Len(b) >= BufferCapacity THEN Tail(placed) ELSE placed

=============================================================================
