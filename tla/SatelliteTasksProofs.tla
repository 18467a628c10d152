------------------------ MODULE SatelliteTasksProofs ------------------------
(***************************************************************************)
(* Machine-checked proofs about SatelliteTasks, for any sensors, buffer    *)
(* and queue capacities and bounds.                                        *)
(***************************************************************************)
EXTENDS SatelliteTasks, TLAPS

(* A drop-oldest FIFO of capacity n never holds more than n elements.      *)
LEMMA FifoPushType ==
  ASSUME NEW S, NEW q \in Seq(S), NEW e \in S, NEW n \in Nat \ {0}, Len(q) <= n
  PROVE  FifoPush(q, e, n) \in Seq(S) /\ Len(FifoPush(q, e, n)) <= n
BY DEF FifoPush

(* The new element is in the queue; so is every old one but the head of a  *)
(* full queue.                                                             *)
LEMMA FifoPushKeeps ==
  ASSUME NEW S, NEW q \in Seq(S), NEW e \in S, NEW n \in Nat \ {0}, Len(q) <= n
  PROVE  /\ \E i \in 1..Len(FifoPush(q, e, n)) : FifoPush(q, e, n)[i] = e
         /\ \A j \in 1..Len(q) :
              \/ q[j] \in FifoDropped(q, n)
              \/ \E i \in 1..Len(FifoPush(q, e, n)) : FifoPush(q, e, n)[i] = q[j]
<1> DEFINE r == IF Len(q) >= n THEN Tail(q) ELSE q
<1>1. FifoPush(q, e, n) = Append(r, e)
  BY DEF FifoPush
<1>2. r \in Seq(S) /\ (Len(q) >= n => Len(r) = Len(q) - 1)
  OBVIOUS
<1>3. Append(r, e)[Len(r) + 1] = e /\ Len(Append(r, e)) = Len(r) + 1
  BY <1>2
<1>4. ASSUME NEW j \in 1..Len(q)
      PROVE  \/ q[j] \in FifoDropped(q, n)
             \/ \E i \in 1..Len(r) : r[i] = q[j]
  <2>1. CASE Len(q) >= n /\ j = 1
    BY <2>1 DEF FifoDropped
  <2>2. CASE Len(q) >= n /\ j # 1
    <3>1. r[j - 1] = q[j] /\ j - 1 \in 1..Len(r)
      BY <2>2
    <3> QED BY <3>1
  <2>3. CASE ~(Len(q) >= n)
    BY <2>3
  <2> QED BY <2>1, <2>2, <2>3
<1>5. \A i \in 1..Len(r) : Append(r, e)[i] = r[i] /\ i \in 1..Len(Append(r, e))
  BY <1>2, <1>3
<1> HIDE DEF r
<1> QED BY <1>1, <1>2, <1>3, <1>4, <1>5

(* Pushing into the sensor buffer keeps it within its capacity.            *)
LEMMA BufferPushType ==
  ASSUME NEW b \in Seq(Datum), Len(b) <= BufferCapacity,
         NEW d \in Datum, NEW i \in 1..(Len(b) + 1)
  PROVE  BufferPush(b, d, i) \in Seq(Datum)
         /\ Len(BufferPush(b, d, i)) <= BufferCapacity
<1> DEFINE l == SubSeq(b, 1, i - 1)
           r == SubSeq(b, i, Len(b))
<1>1. l \in Seq(Datum) /\ Len(l) = i - 1
  OBVIOUS
<1>2. r \in Seq(Datum) /\ Len(r) = Len(b) - i + 1
  OBVIOUS
<1>3. InsertAt(b, i, d) = l \o <<d>> \o r
  BY DEF InsertAt
<1> HIDE DEF l, r
<1>4. l \o <<d>> \in Seq(Datum) /\ Len(l \o <<d>>) = i
  BY <1>1
<1>5. InsertAt(b, i, d) \in Seq(Datum) /\ Len(InsertAt(b, i, d)) = Len(b) + 1
  <2> DEFINE m == l \o <<d>>
  <2>1. InsertAt(b, i, d) = m \o r
    BY <1>3
  <2>2. m \in Seq(Datum) /\ Len(m) = i
    BY <1>4
  <2> HIDE DEF m
  <2>3. m \o r \in Seq(Datum) /\ Len(m \o r) = Len(m) + Len(r)
    BY <2>2, <1>2
  <2> QED BY <2>1, <2>2, <2>3, <1>2
<1> QED BY <1>5, CapacityAssumption DEF BufferPush
----------------------------------------------------------------------------
(* What the executor's local variables hold at each step of a task.        *)
ExecutorInv ==
  /\ pc = "idle" => cur = NoTask /\ data = NoDatum /\ fault = NoFault
  /\ pc # "idle" => cur \in Task
  /\ pc \in {"recover", "clear", "reset"} => cur.name \in Kinds
  /\ pc \in {"clear", "reset"} => recovery[<<cur.name, cur.sensor>>]
  /\ fault # NoFault => /\ pc = "work" /\ cur.name \in Kinds
                        /\ ~recovery[<<cur.name, cur.sensor>>]
  /\ pc \in {"respond", "check"} => data \in Datum

Typing == TypeOK /\ ExecutorInv

LEMMA NamesDiffer ==
  /\ NoTask \notin Task
  /\ NoDatum \notin Datum
  /\ \A k \in Kinds : k \in TaskName /\ RecoveredSituation(k) # NoFault
BY KindsAssumption DEF NoTask, Task, TaskName, NoDatum, Datum,
                       RecoveredSituation, NoFault

LEMMA TypingInit == Init => Typing
<1> SUFFICES ASSUME Init PROVE Typing
  OBVIOUS
<1>1. sensor_buffer \in Seq(Datum) /\ Len(sensor_buffer) <= BufferCapacity
  BY CapacityAssumption, CommandAssumption DEF Init
<1>2. scheduler_command \in Seq(Task) /\ Len(scheduler_command) <= CommandCapacity
  BY CapacityAssumption, CommandAssumption DEF Init
<1>3. TypeOK
  BY <1>1, <1>2, BoundAssumption DEF Init, TypeOK
<1>4. ExecutorInv
  BY DEF Init, ExecutorInv
<1> QED BY <1>3, <1>4 DEF Typing

(* A command pushed by anybody leaves the queue well typed.                *)
LEMMA PushCommandType ==
  ASSUME TypeOK, NEW c \in Task, PushCommand(c)
  PROVE  /\ scheduler_command' \in Seq(Task)
         /\ Len(scheduler_command') <= CommandCapacity
         /\ DiscardedRecoveries \subseteq Kinds \X Sensor
<1>1. CommandCapacity \in Nat \ {0}
  BY CapacityAssumption, CommandAssumption
<1>2. scheduler_command \in Seq(Task) /\ Len(scheduler_command) <= CommandCapacity
  BY DEF TypeOK
<1>3. FifoDropped(scheduler_command, CommandCapacity) \subseteq Task
  BY <1>1, <1>2 DEF FifoDropped
<1>4. DiscardedRecoveries \subseteq Kinds \X Sensor
  BY <1>3 DEF DiscardedRecoveries, Task
<1>5. scheduler_command' = FifoPush(scheduler_command, c, CommandCapacity)
  BY DEF PushCommand
<1> QED BY <1>1, <1>2, <1>4, <1>5, FifoPushType

LEMMA TypingStep == Typing /\ [Next]_vars => Typing'
<1> SUFFICES ASSUME Typing, [Next]_vars PROVE Typing'
  OBVIOUS
<1> USE DEF Typing
<1>u. CASE UNCHANGED vars
  BY <1>u DEF vars, TypeOK, ExecutorInv
<1>1. ASSUME NEW k \in Kinds, NEW s \in Sensor, InjectFault(k, s) PROVE Typing'
  <2>1. AwaitsConfirmation(k, s) => k \in Kinds \ SpacedInjection
    BY <1>1 DEF InjectFault, AwaitsConfirmation
  <2>2. reinjected' \subseteq (Kinds \ SpacedInjection) \X Sensor
    BY <1>1, <2>1 DEF InjectFault, TypeOK
  <2> QED BY <1>1, <2>2 DEF InjectFault, TypeOK, ExecutorInv, executor
<1>2. ASSUME NEW s \in Sensor, Sample(s) PROVE Typing'
  <2>1. BasePriority[s] \in {1, 2, 3}
    BY PriorityAssumption
  <2>2. sampled' \in [Sensor -> Datum \cup {NoDatum}]
    BY <1>2, <2>1 DEF Sample, TypeOK, Datum
  <2> QED BY <1>2, <2>2 DEF Sample, TypeOK, ExecutorInv, executor, flags
<1>3. ASSUME NEW s \in Sensor, PushSample(s) PROVE Typing'
  <2>1. sampled[s] \in Datum
    BY <1>3 DEF PushSample, TypeOK
  <2>2. PICK i \in 1..(Len(sensor_buffer) + 1) :
          sensor_buffer' = BufferPush(sensor_buffer, sampled[s], i)
    BY <1>3 DEF PushSample, HeapPlaces
  <2>3. sensor_buffer' \in Seq(Datum) /\ Len(sensor_buffer') <= BufferCapacity
    BY <2>1, <2>2, BufferPushType DEF TypeOK
  <2>4. sampled' \in [Sensor -> Datum \cup {NoDatum}]
    BY <1>3 DEF PushSample, TypeOK
  <2> QED BY <1>3, <2>3, <2>4 DEF PushSample, TypeOK, ExecutorInv, executor, flags
<1>4. ASSUME NEW s \in Sensor, ScheduleTask(s) PROVE Typing'
  <2>1. [name |-> "periodic", sensor |-> s] \in Task
    BY DEF Task, TaskName
  <2>2. task_queue' \in [Task -> Nat]
    BY <1>4, <2>1 DEF ScheduleTask, PushTask, TypeOK
  <2> QED BY <1>4, <2>2 DEF ScheduleTask, TypeOK, ExecutorInv, executor, flags
<1>5. ASSUME NEW s \in Sensor, ReceiveReRequest(s) PROVE Typing'
  <2>1. PICK n \in {"rerequest", "lossOfContact"} :
          PushCommand([name |-> n, sensor |-> s])
    BY <1>5 DEF ReceiveReRequest
  <2>2. [name |-> n, sensor |-> s] \in Task
    BY DEF Task, TaskName
  <2>3. /\ scheduler_command' \in Seq(Task)
        /\ Len(scheduler_command') <= CommandCapacity
        /\ DiscardedRecoveries \subseteq Kinds \X Sensor
    BY <2>1, <2>2, PushCommandType
  <2>4. uplinks' \in 0..MaxUplinks
    BY <1>5, BoundAssumption DEF ReceiveReRequest, TypeOK
  <2> QED BY <1>5, <2>3, <2>4 DEF ReceiveReRequest, TypeOK, ExecutorInv, executor, flags
<1>6. CASE TakeCommand
  <2>1. /\ hand' \in Task /\ scheduler_command' \in Seq(Task)
        /\ Len(scheduler_command') <= CommandCapacity
    BY <1>6, CapacityAssumption, CommandAssumption DEF TakeCommand, TypeOK
  <2> QED BY <1>6, <2>1 DEF TakeCommand, TypeOK, ExecutorInv, executor, flags
<1>7. CASE InsertCommand
  BY <1>7 DEF InsertCommand, PushTask, TypeOK, ExecutorInv, executor, flags
<1>8. ASSUME NEW t \in Task, Dequeue(t) PROVE Typing'
  <2>1. task_queue' \in [Task -> Nat]
    BY <1>8 DEF Dequeue, TypeOK
  <2>2. /\ pc' \in {"recover", "work", "read"}
        /\ pc' = "recover" => t.name \in Kinds
    BY <1>8 DEF Dequeue
  <2>3. data' \in Datum \cup {NoDatum}
    BY <1>8, PriorityAssumption DEF Dequeue, Datum, Task
  <2>4. cur' = t /\ fault' = NoFault
    BY <1>8 DEF Dequeue, LockFree, ExecutorInv
  <2> QED BY <1>8, <2>1, <2>2, <2>3, <2>4 DEF Dequeue, TypeOK, ExecutorInv, flags
<1>9. CASE ReadDatum
  <2>1. /\ sensor_buffer' \in Seq(Datum)
        /\ Len(sensor_buffer') <= BufferCapacity
        /\ Last(sensor_buffer) \in Datum
    BY <1>9, CapacityAssumption DEF ReadDatum, TypeOK, Front, Last
  <2>2. /\ data' = data \/ data' \in Datum
        /\ pc' = "read" \/ (pc' \in {"check", "respond"} /\ data' \in Datum)
    BY <1>9, <2>1 DEF ReadDatum
  <2>3. sensor_command' \in [Sensor -> {"NP", "IP"}]
    BY <1>9, <2>1 DEF ReadDatum, TypeOK, Datum
  <2> QED BY <1>9, <2>1, <2>2, <2>3 DEF ReadDatum, TypeOK, ExecutorInv, flags
<1>10. CASE ReadTimeout
  <2>1. sensor_command' \in [Sensor -> {"NP", "IP"}]
    BY <1>10 DEF ReadTimeout, TypeOK
  <2> QED BY <1>10, <2>1 DEF ReadTimeout, Release, TypeOK, ExecutorInv, flags
<1>11. CASE Respond
  BY <1>11 DEF Respond, Release, TypeOK, ExecutorInv, flags
<1>12. CASE PassChecks
  <2>1. stat' \in [Kinds \X Sensor -> BOOLEAN]
    BY <1>12 DEF PassChecks, StatAfter, TypeOK
  <2>2. /\ scheduler_command' \in Seq(Task)
        /\ Len(scheduler_command') <= CommandCapacity
        /\ evicted' \subseteq Kinds \X Sensor
    <3>1. CASE UNCHANGED <<scheduler_command, evicted>>
      BY <3>1 DEF TypeOK
    <3>2. CASE /\ PushCommand([name |-> "thermal", sensor |-> Telemetry])
               /\ evicted' = evicted \cup DiscardedRecoveries
      <4>1. [name |-> "thermal", sensor |-> Telemetry] \in Task
        BY SensorsAssumption DEF Task, TaskName
      <4> QED BY <3>2, <4>1, PushCommandType DEF TypeOK
    <3> QED BY <1>12, <3>1, <3>2 DEF PassChecks
  <2> QED BY <1>12, <2>1, <2>2 DEF PassChecks, TypeOK, ExecutorInv
<1>13. ASSUME NEW k \in Kinds, StartFault(k) PROVE Typing'
  <2>1. cur \in Task /\ cur.sensor \in Sensor
    BY <1>13 DEF StartFault, ExecutorInv, Task
  <2>2. [name |-> k, sensor |-> cur.sensor] \in Task
    BY <2>1 DEF Task, TaskName
  <2>3. /\ scheduler_command' \in Seq(Task)
        /\ Len(scheduler_command') <= CommandCapacity
        /\ evicted' \subseteq Kinds \X Sensor
    BY <1>13, <2>2, PushCommandType DEF StartFault, TypeOK
  <2>4. /\ stat' \in [Kinds \X Sensor -> BOOLEAN]
        /\ recovery' \in [Kinds \X Sensor -> BOOLEAN]
        /\ reported' \in [Kinds \X Sensor -> BOOLEAN]
    BY <1>13, <2>1 DEF StartFault, StatAfter, TypeOK
  <2> QED BY <1>13, <2>3, <2>4 DEF StartFault, Release, TypeOK, ExecutorInv
<1>14. ASSUME NEW k \in Kinds, StillFaulty(k) PROVE Typing'
  <2>1. stat' \in [Kinds \X Sensor -> BOOLEAN]
    BY <1>14 DEF StillFaulty, StatAfter, TypeOK
  <2> QED BY <1>14, <2>1 DEF StillFaulty, Release, TypeOK, ExecutorInv
<1>15. CASE RecoverNothing
  BY <1>15 DEF RecoverNothing, TypeOK, ExecutorInv, flags
<1>16. CASE RecoverStop
  BY <1>16 DEF RecoverStop, StopInjection, TypeOK, ExecutorInv
<1>17. CASE RecoverClear
  <2>1. sensor_buffer' \in Seq(Datum) /\ Len(sensor_buffer') <= BufferCapacity
    BY <1>17, CapacityAssumption DEF RecoverClear
  <2> QED BY <1>17, <2>1 DEF RecoverClear, TypeOK, ExecutorInv, flags
<1>18. CASE RecoverReset
  <2>1. cur \in Task /\ cur.name \in Kinds
    BY <1>18 DEF RecoverReset, ExecutorInv
  <2>2. ~recovery'[<<cur.name, cur.sensor>>]
    BY <1>18, <2>1 DEF RecoverReset, TypeOK, Task
  <2> QED BY <1>18, <2>1, <2>2 DEF RecoverReset, TypeOK, ExecutorInv
<1>19. CASE Finish
  <2>1. reported' \in [Kinds \X Sensor -> BOOLEAN]
    BY <1>19 DEF Finish, TypeOK, ExecutorInv, Task
  <2> QED BY <1>19, <2>1 DEF Finish, Release, TypeOK, ExecutorInv, flags
<1> QED
  BY <1>u, <1>1, <1>2, <1>3, <1>4, <1>5, <1>6, <1>7, <1>8, <1>9, <1>10, <1>11,
     <1>12, <1>13, <1>14, <1>15, <1>16, <1>17, <1>18, <1>19
  DEF Next, SensorStep, Checker, Executor, Check, Recover

(* Every variable keeps its type: the queues stay within their capacities  *)
(* and the counts of the task heap never go below zero.                    *)
THEOREM TypeCorrect == Spec => []TypeOK
<1>1. Typing => TypeOK
  BY DEF Typing
<1> QED BY <1>1, TypingInit, TypingStep, PTL DEF Spec

LEMMA TypingCorrect == Spec => []Typing
BY TypingInit, TypingStep, PTL DEF Spec
----------------------------------------------------------------------------
(* FaultNotStuck is not inductive: it needs to know what holds between the *)
(* step in which a recovery stops the injection and the one in which it    *)
(* stops the clock.                                                        *)
StopInv ==
  pc \in {"clear", "reset"} =>
    (inject[<<cur.name, cur.sensor>>] /\ stat[<<cur.name, cur.sensor>>]
       => <<cur.name, cur.sensor>> \in reinjected)

LEMMA NotStuckStep ==
  ASSUME Typing, FaultNotStuck, StopInv, [Next]_vars
  PROVE  FaultNotStuck' /\ StopInv'
<1> USE DEF Typing
<1> DEFINE Goal == FaultNotStuck' /\ StopInv'
<1>u. CASE UNCHANGED vars
  BY <1>u DEF vars, FaultNotStuck, StopInv
<1>1. ASSUME NEW k \in Kinds, NEW s \in Sensor, InjectFault(k, s) PROVE Goal
  <2>1. /\ \A a \in Kinds, b \in Sensor :
              inject'[<<a, b>>] => inject[<<a, b>>] \/ (a = k /\ b = s)
        /\ UNCHANGED <<stat, recovery, pc, cur>>
        /\ reinjected \subseteq reinjected'
        /\ AwaitsConfirmation(k, s) => <<k, s>> \in reinjected'
    BY <1>1 DEF InjectFault, TypeOK, executor
  <2>2. ASSUME NEW a \in Kinds, NEW b \in Sensor,
               inject'[<<a, b>>], stat'[<<a, b>>], ~recovery'[<<a, b>>]
        PROVE  <<a, b>> \in reinjected'
    <3>1. CASE inject[<<a, b>>]
      BY <2>1, <2>2, <3>1 DEF FaultNotStuck
    <3>2. CASE a = k /\ b = s
      BY <2>1, <2>2, <3>2 DEF AwaitsConfirmation
    <3> QED BY <2>1, <2>2, <3>1, <3>2
  <2>3. FaultNotStuck'
    BY <2>2 DEF FaultNotStuck
  <2>4. StopInv'
    <3> SUFFICES ASSUME pc' \in {"clear", "reset"},
                        inject'[<<cur'.name, cur'.sensor>>],
                        stat'[<<cur'.name, cur'.sensor>>]
                 PROVE  <<cur'.name, cur'.sensor>> \in reinjected'
      BY DEF StopInv
    <3>1. /\ pc \in {"clear", "reset"} /\ cur' = cur
          /\ cur.name \in Kinds /\ cur.sensor \in Sensor
          /\ cur = RecoveryTask(cur.name, cur.sensor)
      BY <2>1 DEF ExecutorInv, Task, RecoveryTask
    <3>2. CASE inject[<<cur.name, cur.sensor>>]
      BY <2>1, <3>1, <3>2 DEF StopInv
    <3>3. CASE cur.name = k /\ cur.sensor = s
      BY <2>1, <3>1, <3>3 DEF AwaitsConfirmation
    <3> QED BY <2>1, <3>1, <3>2, <3>3
  <2> QED BY <2>3, <2>4
<1>2. ASSUME NEW s \in Sensor, \/ SensorStep(s) \/ ScheduleTask(s)
                                \/ ReceiveReRequest(s)
      PROVE  Goal
  BY <1>2 DEF SensorStep, Sample, PushSample, ScheduleTask, ReceiveReRequest,
              FaultNotStuck, StopInv, flags, executor
<1>3. CASE Checker
  BY <1>3 DEF Checker, TakeCommand, InsertCommand, FaultNotStuck, StopInv,
              flags, executor
<1>4. ASSUME NEW t \in Task, Dequeue(t) PROVE Goal
  BY <1>4 DEF Dequeue, FaultNotStuck, StopInv, flags
<1>5. CASE ReadDatum \/ ReadTimeout \/ Respond \/ Finish
  BY <1>5 DEF ReadDatum, ReadTimeout, Respond, Finish, Release,
              FaultNotStuck, StopInv, flags
<1>6. ASSUME NEW k \in Kinds, StartFault(k) PROVE Goal
  BY <1>6 DEF StartFault, StatAfter, Release, FaultNotStuck, StopInv, TypeOK,
              ExecutorInv, Task
<1>7. ASSUME NEW k \in Kinds, StillFaulty(k) PROVE Goal
  BY <1>7 DEF StillFaulty, StatAfter, Release, FaultNotStuck, StopInv
<1>8. CASE PassChecks
  BY <1>8 DEF PassChecks, StatAfter, FaultNotStuck, StopInv
<1>9. CASE RecoverNothing \/ RecoverClear
  BY <1>9 DEF RecoverNothing, RecoverClear, FaultNotStuck, StopInv, flags
<1>10. CASE RecoverStop
  BY <1>10 DEF RecoverStop, StopInjection, FaultNotStuck, StopInv, TypeOK, ExecutorInv, Task
<1>11. CASE RecoverReset
  BY <1>11 DEF RecoverReset, FaultNotStuck, StopInv, TypeOK, ExecutorInv, Task
<1> QED
  BY <1>u, <1>1, <1>2, <1>3, <1>4, <1>5, <1>6, <1>7, <1>8, <1>9, <1>10, <1>11
  DEF Next, Executor, Check, Recover

(* No fault is left with the monitoring task waiting for a recovery that   *)
(* will never come, unless it was injected again behind its own recovery;  *)
(* a kind that is injected far enough apart (60 s in the code) never is.   *)
THEOREM NoFaultStuck ==
  Spec => [](/\ FaultNotStuck
             /\ \A k \in SpacedInjection, s \in Sensor :
                  inject[<<k, s>>] /\ stat[<<k, s>>] => recovery[<<k, s>>])
<1>1. Init => FaultNotStuck /\ StopInv
  BY DEF Init, FaultNotStuck, StopInv
<1>2. Typing /\ FaultNotStuck /\ StopInv /\ [Next]_vars
      => FaultNotStuck' /\ StopInv'
  BY NotStuckStep
<1>3. Typing /\ FaultNotStuck
      => \A k \in SpacedInjection, s \in Sensor :
           inject[<<k, s>>] /\ stat[<<k, s>>] => recovery[<<k, s>>]
  BY ModeAssumption DEF Typing, TypeOK, FaultNotStuck
<1> QED BY <1>1, <1>2, <1>3, TypingCorrect, PTL DEF Spec

----------------------------------------------------------------------------
LEMMA ReportedStep ==
  ASSUME Typing, RecoveredAfterReported, [Next]_vars
  PROVE  RecoveredAfterReported'
<1> USE DEF Typing
<1>u. CASE UNCHANGED vars
  BY <1>u DEF vars, RecoveredAfterReported
<1>1. ASSUME NEW k \in Kinds, NEW s \in Sensor, InjectFault(k, s)
      PROVE  RecoveredAfterReported'
  BY <1>1 DEF InjectFault, RecoveredAfterReported, executor
<1>2. ASSUME NEW s \in Sensor, \/ SensorStep(s) \/ ScheduleTask(s)
                                \/ ReceiveReRequest(s)
      PROVE  RecoveredAfterReported'
  BY <1>2 DEF SensorStep, Sample, PushSample, ScheduleTask, ReceiveReRequest,
              RecoveredAfterReported, flags, executor
<1>3. CASE Checker
  BY <1>3 DEF Checker, TakeCommand, InsertCommand, RecoveredAfterReported,
              flags, executor
<1>4. ASSUME NEW t \in Task, Dequeue(t) PROVE RecoveredAfterReported'
  BY <1>4 DEF Dequeue, LockFree, RecoveredAfterReported, ExecutorInv, flags
<1>5. CASE ReadDatum \/ ReadTimeout \/ Respond
  BY <1>5 DEF ReadDatum, ReadTimeout, Respond, Release,
              RecoveredAfterReported, flags
<1>6. ASSUME NEW k \in Kinds, StartFault(k) PROVE RecoveredAfterReported'
  BY <1>6 DEF StartFault, Release, RecoveredAfterReported, TypeOK,
              ExecutorInv, Task
<1>7. ASSUME NEW k \in Kinds, StillFaulty(k) PROVE RecoveredAfterReported'
  BY <1>7 DEF StillFaulty, Release, RecoveredAfterReported
<1>8. CASE PassChecks \/ RecoverNothing \/ RecoverStop \/ RecoverClear
  BY <1>8 DEF PassChecks, RecoverNothing, RecoverStop, StopInjection, RecoverClear,
              RecoveredAfterReported, flags
<1>9. CASE RecoverReset
  BY <1>9 DEF RecoverReset, RecoveredAfterReported, TypeOK, ExecutorInv, Task
<1>10. CASE Finish
  <2>1. CASE fault = NoFault
    BY <1>10, <2>1 DEF Finish, Release, RecoveredAfterReported, flags
  <2>2. CASE fault # NoFault
    <3>1. <<cur.name, cur.sensor>> \in Kinds \X Sensor
          /\ ~recovery[<<cur.name, cur.sensor>>]
      BY <1>10, <2>2 DEF Finish, ExecutorInv, Task
    <3>2. \A k \in Kinds, s \in Sensor :
            recovery[<<k, s>>] => <<k, s>> # <<cur.name, cur.sensor>>
      BY <3>1
    <3> QED BY <1>10, <2>2, <3>1, <3>2
            DEF Finish, Release, RecoveredAfterReported, TypeOK, flags
  <2> QED BY <2>1, <2>2
<1> QED
  BY <1>u, <1>1, <1>2, <1>3, <1>4, <1>5, <1>6, <1>7, <1>8, <1>9, <1>10
  DEF Next, Executor, Check, Recover

(* Every "recovered" message the ground receives ends a fault it was told  *)
(* of, and no recovery clock runs for a fault that was not reported.       *)
THEOREM RecoveriesReported == Spec => []RecoveredAfterReported
<1>1. Init => RecoveredAfterReported
  BY DEF Init, RecoveredAfterReported
<1>2. Typing /\ RecoveredAfterReported /\ [Next]_vars => RecoveredAfterReported'
  BY ReportedStep
<1> QED BY <1>1, <1>2, TypingCorrect, PTL DEF Spec

----------------------------------------------------------------------------
(* A command that is in the queue is still there after a push, unless the  *)
(* push discards it, and then the fault it recovers is in evicted.         *)
LEMMA PushKeepsRequest ==
  ASSUME TypeOK, NEW c \in Task, PushCommand(c),
         NEW k \in Kinds, NEW s \in Sensor,
         \E i \in 1..Len(scheduler_command) :
           scheduler_command[i] = RecoveryTask(k, s)
  PROVE  \/ <<k, s>> \in DiscardedRecoveries
         \/ \E i \in 1..Len(scheduler_command') :
              scheduler_command'[i] = RecoveryTask(k, s)
<1>1. PICK j \in 1..Len(scheduler_command) :
        scheduler_command[j] = RecoveryTask(k, s)
  OBVIOUS
<1>2. /\ scheduler_command \in Seq(Task)
      /\ Len(scheduler_command) <= CommandCapacity
      /\ CommandCapacity \in Nat \ {0}
  BY CapacityAssumption, CommandAssumption DEF TypeOK
<1>3. scheduler_command' = FifoPush(scheduler_command, c, CommandCapacity)
  BY DEF PushCommand
<1> DEFINE pushed == FifoPush(scheduler_command, c, CommandCapacity)
<1>4. \A i \in 1..Len(scheduler_command) :
        \/ scheduler_command[i] \in FifoDropped(scheduler_command, CommandCapacity)
        \/ \E m \in 1..Len(pushed) : pushed[m] = scheduler_command[i]
  BY <1>2, FifoPushKeeps
<1>5. scheduler_command' = pushed
  BY <1>3
<1> HIDE DEF pushed
<1>6. \/ RecoveryTask(k, s) \in FifoDropped(scheduler_command, CommandCapacity)
      \/ \E m \in 1..Len(pushed) : pushed[m] = RecoveryTask(k, s)
  BY <1>1, <1>4
<1>7. RecoveryTask(k, s) \in FifoDropped(scheduler_command, CommandCapacity)
      => <<k, s>> \in DiscardedRecoveries
  BY DEF DiscardedRecoveries, RecoveryTask
<1> QED BY <1>5, <1>6, <1>7

(* The element a push appends is in the queue.                             *)
LEMMA PushAddsRequest ==
  ASSUME TypeOK, NEW c \in Task, PushCommand(c)
  PROVE  \E i \in 1..Len(scheduler_command') : scheduler_command'[i] = c
<1>1. /\ scheduler_command \in Seq(Task)
      /\ Len(scheduler_command) <= CommandCapacity
      /\ CommandCapacity \in Nat \ {0}
  BY CapacityAssumption, CommandAssumption DEF TypeOK
<1> QED BY <1>1, FifoPushKeeps DEF PushCommand

(* A step that keeps every request where it is, or hands it on.            *)
LEMMA PendingStep ==
  ASSUME Typing, RecoveryPending, [Next]_vars
  PROVE  RecoveryPending'
<1> USE DEF Typing
<1> SUFFICES ASSUME NEW k \in Kinds, NEW s \in Sensor,
                    recovery'[<<k, s>>], <<k, s>> \notin evicted'
             PROVE  RecoveryRequested(k, s)'
  BY DEF RecoveryPending
<1> DEFINE Requested == RecoveryRequested(k, s)
           InQueue == \E i \in 1..Len(scheduler_command) :
                        scheduler_command[i] = RecoveryTask(k, s)
<1>k. RecoveryTask(k, s) \in Task /\ RecoveryTask(k, s) # NoTask
      /\ RecoveryTask(k, s).name = k /\ RecoveryTask(k, s).sensor = s
  BY KindsAssumption DEF RecoveryTask, Task, TaskName, NoTask
<1>p. recovery[<<k, s>>] /\ <<k, s>> \notin evicted => Requested
  BY DEF RecoveryPending
<1>u. CASE UNCHANGED vars
  BY <1>u, <1>p DEF vars, RecoveryRequested
<1>1. ASSUME NEW l \in Kinds, NEW x \in Sensor, InjectFault(l, x)
      PROVE  RecoveryRequested(k, s)'
  BY <1>1, <1>p DEF InjectFault, RecoveryRequested, executor
<1>2. ASSUME NEW x \in Sensor, SensorStep(x) PROVE RecoveryRequested(k, s)'
  BY <1>2, <1>p DEF SensorStep, Sample, PushSample, RecoveryRequested, flags,
                    executor
<1>3. ASSUME NEW x \in Sensor, ScheduleTask(x) PROVE RecoveryRequested(k, s)'
  <2>1. [name |-> "periodic", sensor |-> x] \in Task
    BY DEF Task, TaskName
  <2>2. task_queue'[RecoveryTask(k, s)] >= task_queue[RecoveryTask(k, s)]
        /\ task_queue'[RecoveryTask(k, s)] \in Nat
        /\ task_queue[RecoveryTask(k, s)] \in Nat
    BY <1>3, <2>1, <1>k DEF ScheduleTask, PushTask, TypeOK
  <2> QED BY <1>3, <1>p, <2>2 DEF ScheduleTask, RecoveryRequested, flags, executor
<1>4. ASSUME NEW x \in Sensor, ReceiveReRequest(x) PROVE RecoveryRequested(k, s)'
  <2>1. PICK n \in {"rerequest", "lossOfContact"} :
          PushCommand([name |-> n, sensor |-> x])
    BY <1>4 DEF ReceiveReRequest
  <2>2. [name |-> n, sensor |-> x] \in Task
    BY DEF Task, TaskName
  <2>3. Requested /\ <<k, s>> \notin DiscardedRecoveries
    BY <1>4, <1>p DEF ReceiveReRequest, flags
  <2>4. InQueue => InQueue'
    BY <2>1, <2>2, <2>3, PushKeepsRequest
  <2> QED BY <1>4, <2>3, <2>4 DEF ReceiveReRequest, RecoveryRequested, executor
<1>5. CASE TakeCommand
  <2>1. Requested
    BY <1>5, <1>p DEF TakeCommand, flags
  <2>2. ASSUME NEW i \in 1..Len(scheduler_command),
               scheduler_command[i] = RecoveryTask(k, s)
        PROVE  hand' = RecoveryTask(k, s) \/ InQueue'
    <3>1. CASE i = 1
      BY <1>5, <2>2, <3>1 DEF TakeCommand, TypeOK
    <3>2. CASE i # 1
      <4>1. i - 1 \in 1..Len(scheduler_command')
            /\ scheduler_command'[i - 1] = scheduler_command[i]
        BY <1>5, <3>2 DEF TakeCommand, TypeOK
      <4> QED BY <2>2, <4>1
    <3> QED BY <3>1, <3>2
  <2>3. hand # RecoveryTask(k, s)
    BY <1>5, <1>k DEF TakeCommand
  <2> QED BY <1>5, <2>1, <2>2, <2>3 DEF TakeCommand, RecoveryRequested, executor
<1>6. CASE InsertCommand
  <2>1. Requested
    BY <1>6, <1>p DEF InsertCommand, flags
  <2>2. /\ task_queue'[RecoveryTask(k, s)] >= task_queue[RecoveryTask(k, s)]
        /\ hand = RecoveryTask(k, s) => task_queue'[RecoveryTask(k, s)] > 0
        /\ task_queue'[RecoveryTask(k, s)] \in Nat
        /\ task_queue[RecoveryTask(k, s)] \in Nat
    BY <1>6, <1>k DEF InsertCommand, PushTask, TypeOK
  <2> QED BY <1>6, <2>1, <2>2 DEF InsertCommand, RecoveryRequested, executor
<1>7. ASSUME NEW t \in Task, Dequeue(t) PROVE RecoveryRequested(k, s)'
  <2>1. Requested /\ cur = NoTask
    BY <1>7, <1>p DEF Dequeue, LockFree, flags, ExecutorInv
  <2>2. CASE t = RecoveryTask(k, s)
    BY <1>7, <2>2, <1>k DEF Dequeue, RecoveryRequested
  <2>3. CASE t # RecoveryTask(k, s)
    <3>1. task_queue'[RecoveryTask(k, s)] = task_queue[RecoveryTask(k, s)]
      BY <1>7, <2>3, <1>k DEF Dequeue, TypeOK
    <3> QED BY <1>7, <2>1, <3>1, <1>k DEF Dequeue, RecoveryRequested
  <2> QED BY <2>2, <2>3
<1>8. CASE ReadDatum
  BY <1>8, <1>p DEF ReadDatum, RecoveryRequested, flags
<1>9. CASE ReadTimeout \/ Respond \/ Finish
  BY <1>9, <1>p DEF ReadTimeout, Respond, Finish, Release, RecoveryRequested, flags
<1>10. CASE PassChecks
  <2>1. Requested
    BY <1>10, <1>p DEF PassChecks
  <2>2. CASE UNCHANGED <<scheduler_command, evicted>>
    BY <1>10, <2>1, <2>2 DEF PassChecks, RecoveryRequested
  <2>3. CASE /\ PushCommand([name |-> "thermal", sensor |-> Telemetry])
             /\ evicted' = evicted \cup DiscardedRecoveries
    <3>1. [name |-> "thermal", sensor |-> Telemetry] \in Task
      BY SensorsAssumption DEF Task, TaskName
    <3>2. InQueue => InQueue'
      BY <2>3, <3>1, PushKeepsRequest
    <3> QED BY <1>10, <2>1, <3>2 DEF PassChecks, RecoveryRequested
  <2> QED BY <1>10, <2>2, <2>3 DEF PassChecks
<1>11. ASSUME NEW l \in Kinds, StartFault(l) PROVE RecoveryRequested(k, s)'
  <2> DEFINE c == [name |-> l, sensor |-> cur.sensor]
  <2>1. cur \in Task /\ c \in Task /\ PushCommand(c)
    BY <1>11 DEF StartFault, ExecutorInv, Task, TaskName
  <2>2. CASE <<k, s>> = <<l, cur.sensor>>
    <3>1. c = RecoveryTask(k, s)
      BY <2>2 DEF RecoveryTask
    <3>2. InQueue'
      BY <2>1, <3>1, PushAddsRequest
    <3> QED BY <3>2 DEF RecoveryRequested
  <2>3. CASE <<k, s>> # <<l, cur.sensor>>
    <3>1. recovery[<<k, s>>]
      BY <1>11, <2>3 DEF StartFault, TypeOK
    <3>2. <<k, s>> \notin evicted /\ <<k, s>> \notin DiscardedRecoveries
      BY <1>11, <2>3 DEF StartFault
    <3>3. InQueue => InQueue'
      <4> HIDE DEF c
      <4> QED BY <2>1, <3>2, PushKeepsRequest
    <3>4. Requested /\ pc = "check"
      BY <1>11, <1>p, <3>1, <3>2 DEF StartFault
    <3> QED BY <1>11, <3>3, <3>4 DEF StartFault, RecoveryRequested
  <2> QED BY <2>2, <2>3
<1>12. ASSUME NEW l \in Kinds, StillFaulty(l) PROVE RecoveryRequested(k, s)'
  BY <1>12, <1>p DEF StillFaulty, Release, RecoveryRequested
<1>13. CASE RecoverNothing
  <2>1. cur # RecoveryTask(k, s)
    BY <1>13, <1>k DEF RecoverNothing, flags
  <2> QED BY <1>13, <2>1, <1>p DEF RecoverNothing, RecoveryRequested, flags
<1>14. CASE RecoverStop \/ RecoverClear
  BY <1>14, <1>p DEF RecoverStop, StopInjection, RecoverClear, RecoveryRequested, flags
<1>15. CASE RecoverReset
  <2>1. <<cur.name, cur.sensor>> \in Kinds \X Sensor
    BY <1>15 DEF RecoverReset, ExecutorInv, Task
  <2>2. recovery[<<k, s>>] /\ <<k, s>> # <<cur.name, cur.sensor>>
    BY <1>15, <2>1 DEF RecoverReset, TypeOK
  <2>3. <<k, s>> \notin evicted
    BY <1>15, <2>2 DEF RecoverReset
  <2>4. Requested /\ cur # RecoveryTask(k, s)
    BY <1>p, <1>k, <2>2, <2>3
  <2> QED BY <1>15, <2>4 DEF RecoverReset, RecoveryRequested
<1> QED
  BY <1>u, <1>1, <1>2, <1>3, <1>4, <1>5, <1>6, <1>7, <1>8, <1>9, <1>10, <1>11,
     <1>12, <1>13, <1>14, <1>15
  DEF Next, Checker, Executor, Check, Recover

(* A recovery clock that runs is never orphaned: unless drop-oldest threw  *)
(* its command away, the recovery task that stops it is queued or running. *)
THEOREM RecoveryNeverOrphaned == Spec => []RecoveryPending
<1>1. Init => RecoveryPending
  BY DEF Init, RecoveryPending
<1>2. Typing /\ RecoveryPending /\ [Next]_vars => RecoveryPending'
  BY PendingStep
<1> QED BY <1>1, <1>2, TypingCorrect, PTL DEF Spec
----------------------------------------------------------------------------
LEMMA ClockStep ==
  ASSUME Typing, StopInv, [Next]_vars
  PROVE  \A k \in Kinds, s \in Sensor :
           recovery[<<k, s>>] /\ ~recovery'[<<k, s>>]
             => /\ cur = RecoveryTask(k, s)
                /\ inject[<<k, s>>] /\ stat[<<k, s>>] => <<k, s>> \in reinjected
<1> USE DEF Typing
<1> SUFFICES ASSUME NEW a \in Kinds, NEW b \in Sensor,
                    recovery[<<a, b>>], ~recovery'[<<a, b>>]
             PROVE  /\ cur = RecoveryTask(a, b)
                    /\ inject[<<a, b>>] /\ stat[<<a, b>>]
                         => <<a, b>> \in reinjected
  OBVIOUS
<1>1. CASE RecoverReset
  <2>1. <<a, b>> = <<cur.name, cur.sensor>>
    BY <1>1 DEF RecoverReset, TypeOK
  <2>2. cur = RecoveryTask(a, b)
    BY <1>1, <2>1 DEF RecoverReset, ExecutorInv, Task, RecoveryTask
  <2> QED BY <1>1, <2>1, <2>2 DEF RecoverReset, StopInv
<1>2. ASSUME NEW k \in Kinds, StartFault(k) PROVE FALSE
  BY <1>2 DEF StartFault, TypeOK
<1>3. CASE ~RecoverReset /\ \A k \in Kinds : ~StartFault(k)
  <2>1. UNCHANGED recovery
    BY <1>3 DEF Next, vars, SensorStep, Checker, Executor, Check, Recover, flags,
                InjectFault, Sample, PushSample, ScheduleTask, TakeCommand,
                InsertCommand, ReceiveReRequest, Dequeue, ReadDatum,
                ReadTimeout, Respond, StillFaulty, PassChecks,
                RecoverNothing, RecoverStop, RecoverClear, Finish
  <2> QED BY <2>1
<1> QED BY <1>1, <1>2, <1>3

(* The clock of a recovery stops only in its own recovery task, and with   *)
(* the fault still injected and believed handled only if it was injected   *)
(* again behind that recovery.                                             *)
THEOREM ClockStopsInjection == Spec => RecoveryStopsInjection
<1>1. Init => FaultNotStuck /\ StopInv
  BY DEF Init, FaultNotStuck, StopInv
<1>2. Typing /\ FaultNotStuck /\ StopInv /\ [Next]_vars
      => FaultNotStuck' /\ StopInv'
  BY NotStuckStep
<1>3. Typing /\ StopInv /\ [Next]_vars
      => [\A k \in Kinds, s \in Sensor :
            recovery[<<k, s>>] /\ ~recovery'[<<k, s>>]
              => /\ cur = RecoveryTask(k, s)
                 /\ inject[<<k, s>>] /\ stat[<<k, s>>]
                      => <<k, s>> \in reinjected]_vars
  BY ClockStep
<1> QED BY <1>1, <1>2, <1>3, TypingCorrect, PTL DEF Spec, RecoveryStopsInjection

LEMMA CleanStep ==
  ASSUME Typing, PeriodicDataClean, [Next]_vars PROVE PeriodicDataClean'
<1> USE DEF Typing
<1>u. CASE UNCHANGED vars
  BY <1>u DEF vars, PeriodicDataClean
<1>1. CASE PassChecks
  BY <1>1 DEF PassChecks, Blocks, PeriodicDataClean
<1>2. ASSUME NEW t \in Task, Dequeue(t) PROVE PeriodicDataClean'
  BY <1>2, KindsAssumption DEF Dequeue, PeriodicDataClean, Task
<1>3. CASE Recover
  BY <1>3, KindsAssumption DEF Recover, RecoverNothing, RecoverStop,
       RecoverClear, RecoverReset, PeriodicDataClean, ExecutorInv
<1>4. CASE ReadDatum
  BY <1>4 DEF ReadDatum, PeriodicDataClean
<1>5. CASE ReadTimeout \/ Respond \/ Finish
  BY <1>5 DEF ReadTimeout, Respond, Finish, Release, PeriodicDataClean
<1>6. ASSUME NEW k \in Kinds, StartFault(k) \/ StillFaulty(k)
      PROVE  PeriodicDataClean'
  BY <1>6 DEF StartFault, StillFaulty, Release, PeriodicDataClean
<1>7. ASSUME NEW k \in Kinds, NEW s \in Sensor, InjectFault(k, s)
      PROVE  PeriodicDataClean'
  BY <1>7 DEF InjectFault, PeriodicDataClean, executor
<1>8. ASSUME NEW s \in Sensor, \/ SensorStep(s) \/ ScheduleTask(s)
                                \/ ReceiveReRequest(s)
      PROVE  PeriodicDataClean'
  BY <1>8 DEF SensorStep, Sample, PushSample, ScheduleTask, ReceiveReRequest,
              PeriodicDataClean, executor
<1>9. CASE Checker
  BY <1>9 DEF Checker, TakeCommand, InsertCommand, PeriodicDataClean, executor
<1> QED
  BY <1>u, <1>1, <1>2, <1>3, <1>4, <1>5, <1>6, <1>7, <1>8, <1>9
  DEF Next, Executor, Check

(* No periodic task downlinks a datum that was corrupted when sampled.     *)
THEOREM PeriodicDownlinksClean == Spec => []PeriodicDataClean
<1>1. Init => PeriodicDataClean
  BY DEF Init, PeriodicDataClean
<1>2. Typing /\ PeriodicDataClean /\ [Next]_vars => PeriodicDataClean'
  BY CleanStep
<1> QED BY <1>1, <1>2, TypingCorrect, PTL DEF Spec

=============================================================================
