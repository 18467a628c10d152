-------------------------- MODULE SensorAcquisition --------------------------
(***************************************************************************)
(* Data acquisition with its timestamps: the sensor tasks, the heap behind *)
(* SensorPrioritizedBuffer, and the safety alert on missed telemetry       *)
(* (src/src/satellite/{sensor,buffer,task}.rs).                            *)
(*                                                                         *)
(* Utc::now() has nanoseconds, so no two data carry the same timestamp:    *)
(* time advances in even numbers and the injected delay is odd.  What a    *)
(* recovery does to the flags is left to SatelliteTasks: here any sample   *)
(* may be faulty, and the buffer may be cleared at any time.               *)
(***************************************************************************)
EXTENDS SensorBuffer, FiniteSets

CONSTANTS
  BasePriority,  \* buffer priority of a sensor's data under NP
  InjectedDelay, \* 500 ms
  MaxClock       \* model bound: sampling stops then

ASSUME PriorityAssumption == BasePriority \in [Sensor -> 1..3]
ASSUME TimeAssumption == /\ InjectedDelay \in Nat /\ InjectedDelay % 2 = 1
                         /\ MaxClock \in Nat

VARIABLES
  clock,          \* the time of the last sample
  sensor_command, \* the sensor's SensorCommand
  sampled,        \* the datum a sensor task holds before it pushes it
  heap,           \* SensorPrioritizedBuffer.heap
  missed_cycles,  \* the telemetry sensor's count of lost data
  unalerted       \* history: telemetry lost in a row, since its last alert

vars == <<clock, sensor_command, sampled, heap, missed_cycles, unalerted>>

----------------------------------------------------------------------------
TimedDatum == [sensor : Sensor, priority : {1, 2, 3, 5},
               faults : SUBSET Kinds, timestamp : Int]
Nothing == [sensor |-> Telemetry, priority |-> 0, faults |-> {}, timestamp |-> 0]

(* SensorData::cmp; the mutant puts the oldest first.                      *)
Above_Oldest(d, e) ==
  \/ d.priority > e.priority
  \/ d.priority = e.priority /\ d.timestamp < e.timestamp
Above(d, e) ==
  \/ d.priority > e.priority
  \/ d.priority = e.priority /\ d.timestamp > e.timestamp

Top(h) == CHOOSE d \in h : \A e \in h \ {d} : Above(d, e)
Bottom(h) == CHOOSE d \in h : \A e \in h \ {d} : Above(e, d)

(* When is a datum lost on its way in (Err "LOSS")?  The mutant looks at   *)
(* priorities only.                                                        *)
Lost_ByPriority(d) == /\ Cardinality(heap) >= BufferCapacity
                      /\ d.priority <= Bottom(heap).priority
Lost(d) == /\ Cardinality(heap) >= BufferCapacity
           /\ Above(Bottom(heap), d)

(* push: a full heap makes room for what is not lost; the mutant only adds.*)
Stored_Grows(d) == heap \cup {d}
Stored(d) ==
  (IF Cardinality(heap) >= BufferCapacity THEN heap \ {Bottom(heap)} ELSE heap)
  \cup {d}

Init ==
  /\ clock = 0
  /\ sensor_command = [s \in Sensor |-> "NP"]
  /\ sampled = [s \in Sensor |-> Nothing]
  /\ heap = {}
  /\ missed_cycles = 0 /\ unalerted = 0

----------------------------------------------------------------------------
(* A tick: the flags, the command and the time are read ...                *)
Sample(s, faults, elapsed) ==
  /\ sampled[s] = Nothing /\ clock < MaxClock
  /\ clock' = clock + 2 * elapsed
  /\ sampled' = [sampled EXCEPT ![s] =
       [sensor    |-> s,
        priority  |-> IF sensor_command[s] = "IP" THEN 5 ELSE BasePriority[s],
        faults    |-> faults,
        timestamp |-> clock' - (IF "delay" \in faults THEN InjectedDelay ELSE 0)]]
  /\ UNCHANGED <<sensor_command, heap, missed_cycles, unalerted>>

(* ... and the datum is pushed, Ok ...                                     *)
PushOk(s) ==
  /\ sampled[s] # Nothing /\ ~Lost(sampled[s])
  /\ heap' = Stored(sampled[s])
  /\ sampled' = [sampled EXCEPT ![s] = Nothing]
  /\ unalerted' = IF s = Telemetry THEN 0 ELSE unalerted
  /\ UNCHANGED <<clock, sensor_command, missed_cycles>>

(* ... or Err: telemetry counts its losses, and raises the safety alert    *)
(* when there are more than three.  The mutant is off by one.              *)
AlertDue_OffByOne(misses) == misses > 4
AlertDue(misses) == misses > 3

PushErr(s) ==
  /\ sampled[s] # Nothing /\ Lost(sampled[s])
  /\ sampled' = [sampled EXCEPT ![s] = Nothing]
  /\ IF s # Telemetry THEN UNCHANGED <<missed_cycles, unalerted>>
     ELSE IF AlertDue(missed_cycles + 1)
     THEN missed_cycles' = 0 /\ unalerted' = 0
     ELSE missed_cycles' = missed_cycles + 1 /\ unalerted' = unalerted + 1
  /\ UNCHANGED <<clock, sensor_command, heap>>

(* A monitoring task of sensor s pops the top; its own datum resets the    *)
(* command.                                                                *)
Read(s) ==
  /\ heap # {}
  /\ heap' = heap \ {Top(heap)}
  /\ sensor_command' = [sensor_command EXCEPT ![s] =
                          IF Top(heap).sensor = s THEN "NP" ELSE @]
  /\ UNCHANGED <<clock, sampled, missed_cycles, unalerted>>

(* It finds no datum of its own within 20 ms.                              *)
ReadTimeout(s) ==
  /\ sensor_command' = [sensor_command EXCEPT ![s] = "IP"]
  /\ UNCHANGED <<clock, sampled, heap, missed_cycles, unalerted>>

(* A recovery task empties the buffer.                                     *)
RecoverClear ==
  /\ heap' = {}
  /\ UNCHANGED <<clock, sensor_command, sampled, missed_cycles, unalerted>>

Acquire(s) ==
  \/ \E faults \in SUBSET Kinds, elapsed \in 1..2 : Sample(s, faults, elapsed)
  \/ PushOk(s) \/ PushErr(s)

Next == RecoverClear \/ \E s \in Sensor : Acquire(s) \/ Read(s) \/ ReadTimeout(s)

Spec == Init /\ [][Next]_vars

----------------------------------------------------------------------------
TypeOK ==
  /\ clock \in 0..(MaxClock + 4)
  /\ sensor_command \in [Sensor -> {"NP", "IP"}]
  /\ sampled \in [Sensor -> TimedDatum \cup {Nothing}]
  /\ heap \subseteq TimedDatum /\ Cardinality(heap) <= BufferCapacity
  /\ missed_cycles \in 0..3
  /\ unalerted \in Nat

(* The order of importance the buffer is meant to keep: priority first,    *)
(* the newer of equals before the older.                                   *)
Outranks(d, e) ==
  <<d.priority, d.timestamp>> # <<e.priority, e.timestamp>> /\
  IF d.priority = e.priority THEN d.timestamp > e.timestamp
                             ELSE d.priority > e.priority

(* A full buffer gives up the least important datum, be it the one that    *)
(* comes or one that is there, and gives up one only: whatever a push      *)
(* loses is outranked by all that stays.                                   *)
LossIsLowest ==
  [][\A s \in Sensor : (sampled[s] # Nothing /\ sampled'[s] = Nothing) =>
       LET lost == (heap \cup {sampled[s]}) \ heap'
       IN  /\ Cardinality(lost) <= 1
           /\ lost # {} => Cardinality(heap) = BufferCapacity
           /\ \A l \in lost, kept \in heap' : Outranks(kept, l)]_vars

(* Four telemetry data lost in a row never go unalerted, wherever the      *)
(* count of losses stood before: more than three raise the safety alert.   *)
FourMissesAlert == unalerted <= missed_cycles /\ unalerted <= 3

(* The heap without its timestamps, smallest first, behaves as the         *)
(* abstract buffer the satellite's tasks are modelled with.                *)
Rank(i) == CHOOSE d \in heap :
             Cardinality({e \in heap : Outranks(d, e)}) = i - 1
Untimed(d) == [sensor |-> d.sensor, priority |-> d.priority, faults |-> d.faults]
SortedHeap == [i \in 1..Cardinality(heap) |-> Untimed(Rank(i))]

Abstract == INSTANCE PriorityBuffer WITH buffer <- SortedHeap
ImplementsBuffer == Abstract!Spec

(* "Safety Alert: >3 consecutive telemetry data misses" (sensor.rs:331):   *)
(* an alert comes with the fourth miss in a row.                           *)
AlertIsConsecutive ==
  [][(missed_cycles > 0 /\ missed_cycles' = 0) => unalerted = 3]_vars

=============================================================================
