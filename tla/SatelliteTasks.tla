--------------------------- MODULE SatelliteTasks ---------------------------
(***************************************************************************)
(* The satellite's real-time core: sensors that sample into one shared     *)
(* priority buffer, the periodic scheduler, the preemption checker, the    *)
(* single executor, and the fault-recovery protocol that ties them         *)
(* together through the inject / stat / recovery_time flags of each sensor *)
(* (src/src/satellite/{sensor,buffer,task,scheduler,FIFO_queue}.rs).       *)
(*                                                                         *)
(* Every tokio task of the program is a set of actions here.  The executor *)
(* keeps the task_queue mutex for the whole execution of a task, because   *)
(* the guard is a temporary of the `if let` of scheduler.rs:173: whoever   *)
(* wants to insert a task waits until pc = "idle".                         *)
(***************************************************************************)
EXTENDS SensorBuffer, FifoQueue

CONSTANTS
  BasePriority,     \* buffer priority of a sensor's data under NP
  CommandCapacity,  \* capacity of the scheduler_command queue
  AgedReads,        \* may an undelayed datum wait > 500 ms in the buffer?
  SpacedInjection,  \* kinds injected only when the last fault is over
  MaxCopies,        \* model bound: equal tasks waiting in task_queue
  MaxUplinks        \* model bound: re-requests the ground sends

ASSUME PriorityAssumption == BasePriority \in [Sensor -> 1..3]
ASSUME CommandAssumption == CommandCapacity \in Nat \ {0}
ASSUME ModeAssumption ==
  /\ AgedReads \in BOOLEAN /\ SpacedInjection \subseteq Kinds
  /\ AgedReads => "delay" \notin SpacedInjection  \* aged data raise it too
ASSUME BoundAssumption == MaxCopies \in Nat \ {0} /\ MaxUplinks \in Nat

VARIABLES
  inject,            \* {delay,corrupt}_inject of each sensor
  stat,              \* delay_stat / corrupt_stat: a fault is being handled
  recovery,          \* is {delay,corrupt}_recovery_time Some(_)?
  sensor_command,    \* the sensor's SensorCommand
  sampled,           \* the datum a sensor task holds before it pushes it
  sensor_buffer,     \* the shared heap, smallest first
  scheduler_command, \* FIFO of commands for the preemption checker
  hand,              \* the command the checker popped and has not inserted
  task_queue,        \* the heap of tasks, as a bag
  pc, cur, data, fault, \* the executor: step, task, self.data, fault message
  reported,          \* was the last report on a fault "faulty" or "recovered"?
  uplinks,           \* how many re-requests the ground has sent
  evicted,           \* history: recovery commands lost to drop-oldest
  reinjected         \* history: faults injected again behind their recovery

flags == <<inject, stat, recovery, reinjected>>
executor == <<pc, cur, data, fault>>
vars == <<inject, stat, recovery, sensor_command, sampled, sensor_buffer,
          scheduler_command, hand, task_queue, pc, cur, data, fault,
          reported, uplinks, evicted, reinjected>>

----------------------------------------------------------------------------
(* One record for a SchedulerCommand and for the Task the checker makes of *)
(* it; a recovery task is named after the fault kind it ends.              *)
TaskName == {"periodic", "rerequest", "lossOfContact", "thermal"} \cup Kinds
Task == [name : TaskName, sensor : Sensor]
NoTask == [name |-> "none", sensor |-> Telemetry]

(* Mutant: the recovery tasks are background work.                         *)
priority_RecoveryLast(t) == IF t.name \in Kinds THEN 0 ELSE 1

priority(t) == CASE t.name = "periodic" -> 1
                 [] t.name = "thermal"  -> 4
                 [] t.name \in Kinds    -> 5
                 [] OTHER               -> 6

RecoveredSituation(k) == IF k = "corrupt" THEN "CorruptedDataRecovered"
                                          ELSE "DelayedDataRecovered"
NoFault == "None"

----------------------------------------------------------------------------
Init ==
  /\ inject = [ks \in Kinds \X Sensor |-> FALSE]
  /\ stat = [ks \in Kinds \X Sensor |-> FALSE]
  /\ recovery = [ks \in Kinds \X Sensor |-> FALSE]
  /\ sensor_command = [s \in Sensor |-> "NP"]
  /\ sampled = [s \in Sensor |-> NoDatum]
  /\ sensor_buffer = <<>>
  /\ scheduler_command = <<>>
  /\ hand = NoTask
  /\ task_queue = [t \in Task |-> 0]
  /\ pc = "idle" /\ cur = NoTask /\ data = NoDatum /\ fault = NoFault
  /\ reported = [ks \in Kinds \X Sensor |-> FALSE]
  /\ uplinks = 0
  /\ evicted = {} /\ reinjected = {}

----------------------------------------------------------------------------
(* The sensors and the simulated faults.                                   *)

RecoveryTask(k, s) == [name |-> k, sensor |-> s]

(* Has the recovery of a fault that counts as handled stopped the          *)
(* injection already, while no good datum has confirmed it yet?            *)
AwaitsConfirmation(k, s) ==
  /\ stat[<<k, s>>]
  /\ recovery[<<k, s>>] => cur = RecoveryTask(k, s) /\ pc \in {"clear", "reset"}

(* {delay,corrupt}_fault_injection, every 60 s, whatever the other flags   *)
(* are.  For the kinds in SpacedInjection the 60 s are taken to be enough  *)
(* for the last fault to be over.                                          *)
InjectFault(k, s) ==
  /\ k \in SpacedInjection => ~stat[<<k, s>>]
  /\ inject' = [inject EXCEPT ![<<k, s>>] = TRUE]
  /\ reinjected' = reinjected \cup
                     {ks \in {<<k, s>>} : AwaitsConfirmation(k, s)}
  /\ UNCHANGED <<stat, recovery, sensor_command, sampled, sensor_buffer,
                 scheduler_command, hand, task_queue, executor,
                 reported, uplinks, evicted>>

(* Sensor::spawn, one tick: the flags and the command are read ...         *)
Sample(s) ==
  /\ sampled[s] = NoDatum
  /\ sampled' = [sampled EXCEPT ![s] =
       [sensor   |-> s,
        priority |-> IF sensor_command[s] = "IP" THEN 5 ELSE BasePriority[s],
        faults   |-> {k \in Kinds : inject[<<k, s>>]}]]
  /\ UNCHANGED <<flags, sensor_command, sensor_buffer, scheduler_command,
                 hand, task_queue, executor, reported, uplinks, evicted>>

(* ... and the datum is pushed after further awaits, whatever happened to  *)
(* the flags and to the buffer in between.                                 *)
PushSample(s) ==
  /\ sampled[s] # NoDatum
  /\ \E i \in HeapPlaces(sensor_buffer, sampled[s]) :
       sensor_buffer' = BufferPush(sensor_buffer, sampled[s], i)
  /\ sampled' = [sampled EXCEPT ![s] = NoDatum]
  /\ UNCHANGED <<flags, sensor_command, scheduler_command, hand, task_queue,
                 executor, reported, uplinks, evicted>>

----------------------------------------------------------------------------
(* The scheduler's two producers of tasks.                                 *)

LockFree == pc = "idle"

PushTask(t) ==
  /\ task_queue[t] < MaxCopies
  /\ task_queue' = [task_queue EXCEPT ![t] = @ + 1]

(* schedule_task, one tick of one periodic task.                           *)
ScheduleTask(s) ==
  /\ LockFree
  /\ PushTask([name |-> "periodic", sensor |-> s])
  /\ UNCHANGED <<flags, sensor_command, sampled, sensor_buffer,
                 scheduler_command, hand, executor, reported, uplinks,
                 evicted>>

(* Mutant: the command popped before is forgotten.                         *)
TakeCommand_Overwrites ==
  /\ scheduler_command # <<>>
  /\ hand' = Head(scheduler_command)
  /\ scheduler_command' = Tail(scheduler_command)
  /\ UNCHANGED <<flags, sensor_command, sampled, sensor_buffer, task_queue,
                 executor, reported, uplinks, evicted>>

(* check_preemption pops a command without the task_queue lock ...         *)
TakeCommand ==
  /\ hand = NoTask /\ scheduler_command # <<>>
  /\ hand' = Head(scheduler_command)
  /\ scheduler_command' = Tail(scheduler_command)
  /\ UNCHANGED <<flags, sensor_command, sampled, sensor_buffer, task_queue,
                 executor, reported, uplinks, evicted>>

(* ... and inserts its task once the executor lets go of the lock.         *)
InsertCommand ==
  /\ LockFree /\ hand # NoTask
  /\ PushTask(hand)
  /\ hand' = NoTask
  /\ UNCHANGED <<flags, sensor_command, sampled, sensor_buffer,
                 scheduler_command, executor, reported, uplinks, evicted>>

(* The faults whose recovery command a push to scheduler_command discards. *)
DiscardedRecoveries ==
  {<<c.name, c.sensor>> : c \in {x \in FifoDropped(scheduler_command,
                                                  CommandCapacity) :
                                   x.name \in Kinds}}

PushCommand(c) ==
  scheduler_command' = FifoPush(scheduler_command, c, CommandCapacity)

(* SatelliteReceiver::process_command on RR(s) and LC(s).                  *)
ReceiveReRequest(s) ==
  /\ uplinks < MaxUplinks
  /\ uplinks' = uplinks + 1
  /\ \E n \in {"rerequest", "lossOfContact"} :
       PushCommand([name |-> n, sensor |-> s])
  /\ evicted' = evicted \cup DiscardedRecoveries
  /\ UNCHANGED <<flags, sensor_command, sampled, sensor_buffer, hand,
                 task_queue, executor, reported>>

----------------------------------------------------------------------------
(* The executor: Scheduler::execute_task and Task::execute.                *)

Release ==
  pc' = "idle" /\ cur' = NoTask /\ data' = NoDatum /\ fault' = NoFault

(* BinaryHeap::pop: the highest priority; deadlines break ties, and are    *)
(* not modelled.  The pop takes the lock that the execution will keep.     *)
Dequeue(t) ==
  /\ LockFree /\ task_queue[t] > 0
  /\ \A u \in Task : task_queue[u] > 0 => priority(u) <= priority(t)
  /\ task_queue' = [task_queue EXCEPT ![t] = @ - 1]
  /\ cur' = t
  /\ pc' = IF t.name \in Kinds THEN "recover"
           ELSE IF t.name = "thermal" THEN "work" ELSE "read"
  /\ data' = IF t.name \in Kinds   \* the datum that came with the command
             THEN [sensor |-> t.sensor, priority |-> BasePriority[t.sensor],
                   faults |-> {t.name}]
             ELSE NoDatum
  /\ UNCHANGED <<flags, sensor_command, sampled, sensor_buffer,
                 scheduler_command, hand, fault, reported, uplinks,
                 evicted>>

(* One turn of the read loop that finds a datum: another sensor's datum is *)
(* popped for nothing, the task's own ends the loop and resets the command.*)
ReadDatum ==
  /\ pc = "read" /\ sensor_buffer # <<>>
  /\ sensor_buffer' = Front(sensor_buffer)
  /\ LET d == Last(sensor_buffer)
     IN  IF d.sensor = cur.sensor
         THEN /\ data' = d
              /\ sensor_command' = [sensor_command EXCEPT ![d.sensor] = "NP"]
              /\ pc' = IF cur.name = "periodic" THEN "check" ELSE "respond"
         ELSE UNCHANGED <<data, sensor_command, pc>>
  /\ UNCHANGED <<flags, sampled, scheduler_command, hand, task_queue, cur,
                 fault, reported, uplinks, evicted>>

(* 20 ms without a datum of its own: the task asks for priority and ends.  *)
ReadTimeout ==
  /\ pc = "read"
  /\ sensor_command' = [sensor_command EXCEPT ![cur.sensor] = "IP"]
  /\ Release
  /\ UNCHANGED <<flags, sampled, sensor_buffer, scheduler_command, hand,
                 task_queue, reported, uplinks, evicted>>

(* A re-request is answered with the datum as it is, before any check, and *)
(* with a fault message that names the answer; both go to downlink_buffer. *)
Respond ==
  /\ pc = "respond"
  /\ Release
  /\ UNCHANGED <<flags, sensor_command, sampled, sensor_buffer,
                 scheduler_command, hand, task_queue, reported, uplinks,
                 evicted>>

(* How the age of a datum compares with 500 ms.  "edge" is the millisecond *)
(* above 500: num_milliseconds() > 500 is still false there, while         *)
(* diff > 500 ms already holds (task.rs:237 and 267).                      *)
Age == {"ontime", "edge", "late"}
AgeOf(d) == IF "delay" \in Kinds /\ ("delay" \in d.faults \/ AgedReads)
            THEN Age ELSE {"ontime"}

Raises(d, age) == (d.faults \cap {"corrupt"})
                  \cup (IF age = "late" THEN {"delay"} ELSE {})
Blocks_DelayOnly(d, age) == IF age # "ontime" THEN {"delay"} ELSE {} \* mutant
Blocks(d, age) == (d.faults \cap {"corrupt"})
                  \cup (IF age # "ontime" THEN {"delay"} ELSE {})

(* The corrupt check comes first; a check that passes clears its stat.     *)
ChecksBefore(k) == IF k = "delay" THEN Kinds \ {"delay"} ELSE {}
Reaches(k, age) == ChecksBefore(k) \cap Blocks(data, age) = {}
StatAfter(passed) ==
  [ks \in Kinds \X Sensor |->
     IF ks[1] \in passed /\ ks[2] = cur.sensor THEN FALSE ELSE stat[ks]]

(* The first faulty datum: start the recovery clock, ask for the recovery  *)
(* task, remember the fault, report it, end the task.                      *)
StartFault(k) ==
  /\ pc = "check" /\ ~stat[<<k, cur.sensor>>]
  /\ \E age \in AgeOf(data) : Reaches(k, age) /\ k \in Raises(data, age)
  /\ recovery' = [recovery EXCEPT ![<<k, cur.sensor>>] = TRUE]
  /\ PushCommand([name |-> k, sensor |-> cur.sensor])
  /\ evicted' = (evicted \ {<<k, cur.sensor>>}) \cup DiscardedRecoveries
  /\ stat' = [StatAfter(ChecksBefore(k)) EXCEPT ![<<k, cur.sensor>>] = TRUE]
  /\ reinjected' = {ks \in reinjected : stat'[ks]}
  /\ reported' = [reported EXCEPT ![<<k, cur.sensor>>] = TRUE]
  /\ Release
  /\ UNCHANGED <<inject, sensor_command, sampled, sensor_buffer, hand,
                 task_queue, uplinks>>

(* Mutant: the task warns and reads on, it does not return.                *)
StillFaulty_Continues(k) ==
  /\ pc = "check"
  /\ \E age \in AgeOf(data) :
       /\ Reaches(k, age) /\ k \in Blocks(data, age)
       /\ k \in Raises(data, age) => stat[<<k, cur.sensor>>]
  /\ stat' = StatAfter(ChecksBefore(k))
  /\ reinjected' = {ks \in reinjected : stat'[ks]}
  /\ UNCHANGED <<inject, recovery, sensor_command, sampled, sensor_buffer,
                 scheduler_command, hand, task_queue, executor, reported,
                 uplinks, evicted>>

(* "Still receiving corrupted / delayed data, task terminated".            *)
StillFaulty(k) ==
  /\ pc = "check"
  /\ \E age \in AgeOf(data) :
       /\ Reaches(k, age) /\ k \in Blocks(data, age)
       /\ k \in Raises(data, age) => stat[<<k, cur.sensor>>]
  /\ stat' = StatAfter(ChecksBefore(k))
  /\ reinjected' = {ks \in reinjected : stat'[ks]}
  /\ Release
  /\ UNCHANGED <<inject, recovery, sensor_command, sampled, sensor_buffer,
                 scheduler_command, hand, task_queue, reported,
                 uplinks, evicted>>

(* Both checks pass.  Hot telemetry asks for thermal control (task.rs:293).*)
PassChecks ==
  /\ pc = "check"
  /\ \E age \in AgeOf(data) : Blocks(data, age) = {}
  /\ stat' = StatAfter(Kinds)
  /\ reinjected' = {ks \in reinjected : stat'[ks]}
  /\ pc' = "work"
  /\ \/ UNCHANGED <<scheduler_command, evicted>>
     \/ /\ cur.sensor = Telemetry
        /\ PushCommand([name |-> "thermal", sensor |-> Telemetry])
        /\ evicted' = evicted \cup DiscardedRecoveries
  /\ UNCHANGED <<inject, recovery, sensor_command, sampled, sensor_buffer,
                 hand, task_queue, cur, data, fault, reported, uplinks>>

(* Mutant: the recovered message is made whether or not a clock ran.       *)
RecoverNothing_Reports ==
  /\ pc = "recover" /\ ~recovery[<<cur.name, cur.sensor>>]
  /\ fault' = RecoveredSituation(cur.name)
  /\ data' = NoDatum
  /\ pc' = "work"
  /\ UNCHANGED <<flags, sensor_command, sampled, sensor_buffer,
                 scheduler_command, hand, task_queue, cur, reported,
                 uplinks, evicted>>

(* A recovery task.  Nothing to recover: it keeps its old datum.           *)
RecoverNothing ==
  /\ pc = "recover" /\ ~recovery[<<cur.name, cur.sensor>>]
  /\ pc' = "work"
  /\ UNCHANGED <<flags, sensor_command, sampled, sensor_buffer,
                 scheduler_command, hand, task_queue, cur, data, fault,
                 reported, uplinks, evicted>>

(* The injection a recovery task stops.  Mutants: one branch is a copy of  *)
(* the other, and all monitoring tasks share one sensor's flag.            *)
StopInjection_CopyPaste ==
  inject' = [ks \in Kinds \X Sensor |->
               IF ks = <<"delay", cur.sensor>> THEN FALSE ELSE inject[ks]]
StopInjection_OneFlag ==
  inject' = [inject EXCEPT ![<<cur.name, Telemetry>>] = FALSE]
StopInjection == inject' = [inject EXCEPT ![<<cur.name, cur.sensor>>] = FALSE]

(* Otherwise it stops the injection ...                                    *)
RecoverStop ==
  /\ pc = "recover" /\ recovery[<<cur.name, cur.sensor>>]
  /\ StopInjection
  /\ pc' = "clear"
  /\ UNCHANGED <<stat, recovery, reinjected, sensor_command, sampled,
                 sensor_buffer, scheduler_command, hand, task_queue, cur, data,
                 fault, reported, uplinks, evicted>>

(* ... empties the buffer all sensors share ...                            *)
RecoverClear ==
  /\ pc = "clear"
  /\ sensor_buffer' = <<>>
  /\ pc' = "reset"
  /\ UNCHANGED <<flags, sensor_command, sampled, scheduler_command, hand,
                 task_queue, cur, data, fault, reported, uplinks,
                 evicted>>

(* ... and stops the clock, dropping its datum for a recovered message.    *)
RecoverReset ==
  /\ pc = "reset"
  /\ recovery' = [recovery EXCEPT ![<<cur.name, cur.sensor>>] = FALSE]
  /\ evicted' = evicted \ {<<cur.name, cur.sensor>>}
  /\ fault' = RecoveredSituation(cur.name)
  /\ data' = NoDatum
  /\ pc' = "work"
  /\ UNCHANGED <<inject, stat, reinjected, sensor_command, sampled,
                 sensor_buffer, scheduler_command, hand, task_queue, cur,
                 reported, uplinks>>

(* The rest of the process time passes; then what the task holds, a datum  *)
(* or the message that the fault is recovered, goes to downlink_buffer.    *)
Finish ==
  /\ pc = "work"
  /\ reported' = IF fault = NoFault THEN reported
                 ELSE [reported EXCEPT ![<<cur.name, cur.sensor>>] = FALSE]
  /\ Release
  /\ UNCHANGED <<flags, sensor_command, sampled, sensor_buffer,
                 scheduler_command, hand, task_queue, uplinks, evicted>>

----------------------------------------------------------------------------
SensorStep(s) == Sample(s) \/ PushSample(s)
Checker == TakeCommand \/ InsertCommand
Recover == RecoverNothing \/ RecoverStop \/ RecoverClear \/ RecoverReset
Check == PassChecks \/ \E k \in Kinds : StartFault(k) \/ StillFaulty(k)
Executor == \/ \E t \in Task : Dequeue(t)
            \/ ReadDatum \/ ReadTimeout
            \/ Respond \/ Check \/ Recover \/ Finish

Next ==
  \/ \E k \in Kinds, s \in Sensor : InjectFault(k, s)
  \/ \E s \in Sensor : SensorStep(s) \/ ScheduleTask(s) \/ ReceiveReRequest(s)
  \/ Checker \/ Executor

Spec == Init /\ [][Next]_vars

(* Fairness.  Weak: a tokio task that can run does.  Strong: the waiters   *)
(* of tokio's mutex are served in FIFO order, so a task that waits for     *)
(* task_queue each time the executor lets go of it gets it at last; and a  *)
(* pop of a non-empty buffer takes microseconds of the 20 ms read window.  *)
ExecutorFairness ==
  /\ WF_vars(\E t \in Task : Dequeue(t))
  /\ SF_vars(ReadDatum) /\ WF_vars(ReadTimeout)
  /\ WF_vars(Respond) /\ WF_vars(Check) /\ WF_vars(Recover) /\ WF_vars(Finish)

CheckerFairness == WF_vars(TakeCommand) /\ SF_vars(InsertCommand)

TickFairness == \A s \in Sensor : WF_vars(SensorStep(s)) /\ SF_vars(ScheduleTask(s))

FairSpec == Spec /\ ExecutorFairness /\ CheckerFairness /\ TickFairness

----------------------------------------------------------------------------
TypeOK ==
  /\ inject \in [Kinds \X Sensor -> BOOLEAN]
  /\ stat \in [Kinds \X Sensor -> BOOLEAN]
  /\ recovery \in [Kinds \X Sensor -> BOOLEAN]
  /\ sensor_command \in [Sensor -> {"NP", "IP"}]
  /\ sampled \in [Sensor -> Datum \cup {NoDatum}]
  /\ sensor_buffer \in Seq(Datum) /\ Len(sensor_buffer) <= BufferCapacity
  /\ scheduler_command \in Seq(Task) /\ Len(scheduler_command) <= CommandCapacity
  /\ hand \in Task \cup {NoTask}
  /\ task_queue \in [Task -> Nat]
  /\ pc \in {"idle", "read", "respond", "check", "recover",
             "clear", "reset", "work"}
  /\ cur \in Task \cup {NoTask}
  /\ data \in Datum \cup {NoDatum}
  /\ fault \in {RecoveredSituation(k) : k \in Kinds} \cup {NoFault}
  /\ reported \in [Kinds \X Sensor -> BOOLEAN]
  /\ uplinks \in 0..MaxUplinks
  /\ evicted \subseteq Kinds \X Sensor
  /\ reinjected \subseteq (Kinds \ SpacedInjection) \X Sensor

(* Where the recovery task of fault k of sensor s is still to be found.    *)
RecoveryRequested(k, s) ==
  \/ \E i \in 1..Len(scheduler_command) : scheduler_command[i] = RecoveryTask(k, s)
  \/ hand = RecoveryTask(k, s)
  \/ task_queue[RecoveryTask(k, s)] > 0
  \/ cur = RecoveryTask(k, s) /\ pc \in {"recover", "clear", "reset"}

(* A running recovery clock is never orphaned: as long as recovery_time is *)
(* Some, the recovery command is in the FIFO, in the checker's hand, in    *)
(* the heap or being executed, unless drop-oldest discarded it.            *)
RecoveryPending ==
  \A k \in Kinds, s \in Sensor :
    recovery[<<k, s>>] /\ <<k, s>> \notin evicted => RecoveryRequested(k, s)

(* A fault gets stuck only by being injected again at the wrong moment:    *)
(* when data of sensor s are still made faulty and the monitoring task     *)
(* believes the fault handled (so that it only logs "Still receiving" and  *)
(* raises nothing), a recovery is under way, or that fault was injected    *)
(* after its recovery stopped the injection and before a good datum was    *)
(* read.  A fault of a kind that is injected far enough apart is never     *)
(* stuck, and no order of samples, pushes, clears, time-outs, duplicate    *)
(* recoveries and other sensors' recoveries makes it so.                   *)
FaultNotStuck ==
  \A k \in Kinds, s \in Sensor :
    inject[<<k, s>>] /\ stat[<<k, s>>]
      => recovery[<<k, s>>] \/ <<k, s>> \in reinjected

(* The ground is told of every fault it is told the end of: while a clock  *)
(* runs, and until the recovery task has sent its message, the last report *)
(* on that fault is that it exists.                                        *)
RecoveredAfterReported ==
  /\ \A k \in Kinds, s \in Sensor : recovery[<<k, s>>] => reported[<<k, s>>]
  /\ fault # NoFault => reported[<<cur.name, cur.sensor>>]

(* What a periodic task is about to downlink passed the corrupt check on   *)
(* the same datum, through all the ways in and out of the checks.          *)
PeriodicDataClean ==
  pc = "work" /\ cur.name = "periodic" => "corrupt" \notin data.faults

(* The clock of a recovery stops only in the recovery task of that very    *)
(* fault, and only after it stopped the injection it recovers from, while  *)
(* the fault is no longer believed to be handled, or while it was injected *)
(* anew behind that stop.                                                  *)
RecoveryStopsInjection ==
  [][\A k \in Kinds, s \in Sensor :
       recovery[<<k, s>>] /\ ~recovery'[<<k, s>>]
         => /\ cur = RecoveryTask(k, s)
            /\ inject[<<k, s>>] /\ stat[<<k, s>>] => <<k, s>> \in reinjected]_vars

(* Every started recovery ends: the clock stops, unless the command was    *)
(* lost to drop-oldest (task priorities, the held lock and the hand-over   *)
(* through the checker cannot hold it up for ever).                        *)
RecoveryCompletes ==
  \A k \in Kinds, s \in Sensor :
    recovery[<<k, s>>] ~> (~recovery[<<k, s>>] \/ <<k, s>> \in evicted)

(* An injected corruption is found and recovered from at last, although    *)
(* the data that show it may be dropped, cleared or timed out on.          *)
CorruptionRecovered ==
  \A s \in Sensor :
    ("corrupt" \in Kinds /\ inject[<<"corrupt", s>>])
      ~> (~inject[<<"corrupt", s>>] \/ <<"corrupt", s>> \in evicted)

(* The executor always lets go of the task_queue lock.                     *)
LockReleased == pc # "idle" ~> LockFree

=============================================================================
