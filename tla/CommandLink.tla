---------------------------- MODULE CommandLink ----------------------------
(***************************************************************************)
(* The round trip of a re-request or loss of contact: raised and logged as *)
(* a fault on the ground, uplinked through the broker, received, buffered  *)
(* and scheduled by the satellite, executed, answered, and resolved in the *)
(* ground's fault log (src/src/ground/{ground_service,fault_event,sender}, *)
(* src/src/satellite/{receiver,scheduler,task}.rs).                        *)
(*                                                                         *)
(* A satellite runs for a session and is started anew; the ground goes on. *)
(* The receiver never acknowledges a command, so that the broker queues    *)
(* all of a session again when it is over.                                 *)
(*                                                                         *)
(* Time is the number of faults logged so far: a fault and its command are *)
(* named by it, an answer is stamped with it.                              *)
(***************************************************************************)
EXTENDS FifoQueue, FiniteSets

CONSTANTS
  Sensor,           \* the sensors that are asked for
  BufferCapacity,   \* capacity of command_buffer
  CommandCapacity,  \* capacity of scheduler_command
  MaxFaults,        \* model bound: faults the ground logs
  MaxSessions       \* model bound: starts of the satellite

ASSUME CapacityAssumption == /\ BufferCapacity \in Nat \ {0}
                             /\ CommandCapacity \in Nat \ {0}
ASSUME BoundAssumption == MaxFaults \in Nat /\ MaxSessions \in Nat

VARIABLES
  logged,            \* how many faults the ground has logged
  satellite_fault,   \* FaultEvent.satellite_fault: the open ones
  fault_resolve,     \* FaultEvent.fault_resolve
  tracker,           \* the situations in cooldown
  scheduled,         \* commands in the mailbox and the scheduler's heap
  uplink,            \* the broker's command queue
  unacked,           \* what it delivered and was not acknowledged
  session,           \* the satellite: "off", "started", "purged", "consuming"
  sessions,          \* how often it was started
  command_buffer, scheduler_command, task_queue,
  telemetry,         \* answers on their way down
  sentIn,            \* history: the sessions started when it was uplinked
  executed,          \* history: the commands the satellite has executed
  evicted            \* history: those a full queue has thrown away

faultLog == <<logged, satellite_fault, fault_resolve>>
buffers == <<command_buffer, scheduler_command, task_queue>>
vars == <<logged, satellite_fault, fault_resolve, tracker, scheduled, uplink,
          unacked, session, sessions, command_buffer, scheduler_command,
          task_queue, telemetry, sentIn, executed, evicted>>

----------------------------------------------------------------------------
Situation == {"ReRequest", "LossOfContact"}
Fault == 1..MaxFaults
Command == [situation : Situation, sensor : Sensor, fault : Fault]
(* What shares the queues: PG, SC and EC, which are only answered in a log,*)
(* and what the satellite's tasks command: recovery, thermal control.      *)
OtherCommand == [situation |-> "None", sensor |-> "none", fault |-> 0]

Answer == [command : Command, stamp : Nat]
Resolve == [fault : Fault, answer : Situation, stamp : Nat]

Elements(q) == {q[i] : i \in 1..Len(q)}

Init ==
  /\ logged = 0
  /\ satellite_fault = [ws \in Situation \X Sensor |-> <<>>]
  /\ fault_resolve = [s \in Sensor |-> {}]
  /\ tracker = {} /\ scheduled = {}
  /\ uplink = <<>> /\ unacked = <<>>
  /\ session = "off" /\ sessions = 0
  /\ command_buffer = <<>> /\ scheduler_command = <<>> /\ task_queue = {}
  /\ telemetry = <<>>
  /\ sentIn = [n \in Fault |-> 0]
  /\ executed = {} /\ evicted = {}

----------------------------------------------------------------------------
(* The ground raises a command: out of cooldown, logged and scheduled.     *)
(* (A loss of contact that its validation rejects is neither.)             *)
Trigger(w, s) ==
  /\ <<w, s>> \notin tracker /\ logged < MaxFaults
  /\ tracker' = tracker \cup {<<w, s>>}
  /\ \/ /\ logged' = logged + 1
        /\ satellite_fault' = [satellite_fault EXCEPT ![<<w, s>>] =
                                 Append(@, logged + 1)]
        /\ scheduled' = scheduled \cup
             {[situation |-> w, sensor |-> s, fault |-> logged + 1]}
     \/ w = "LossOfContact" /\ UNCHANGED <<logged, satellite_fault, scheduled>>
  /\ UNCHANGED <<fault_resolve, uplink, unacked, session, sessions, buffers,
                 telemetry, sentIn, executed, evicted>>

(* A cooldown outlives its command's stay with the scheduler (shown in     *)
(* CommandTiming), not its way to the satellite and back.                  *)
CooldownExpires(w, s) ==
  /\ <<w, s>> \in tracker
  /\ \A c \in scheduled : c.situation # w \/ c.sensor # s
  /\ tracker' = tracker \ {<<w, s>>}
  /\ UNCHANGED <<faultLog, scheduled, uplink, unacked, session, sessions,
                 buffers, telemetry, sentIn, executed, evicted>>

(* The scheduler rejects a re-request for an inactive sensor, publishes    *)
(* the command, or fails to without noticing.  The fault stays open.       *)
RejectOrLose(c) ==
  /\ c \in scheduled
  /\ scheduled' = scheduled \ {c}
  /\ UNCHANGED <<faultLog, tracker, uplink, unacked, session, sessions,
                 buffers, telemetry, sentIn, executed, evicted>>

SendCommand(c) ==
  /\ c \in scheduled
  /\ scheduled' = scheduled \ {c}
  /\ uplink' = Append(uplink, c)
  /\ sentIn' = [sentIn EXCEPT ![c.fault] = sessions]
  /\ UNCHANGED <<faultLog, tracker, unacked, session, sessions, buffers,
                 telemetry, executed, evicted>>

----------------------------------------------------------------------------
(* The satellite connects, purges the command queue and subscribes to it.  *)
StartSatellite ==
  /\ session = "off"
  /\ session' = "started" /\ sessions' = sessions + 1
  /\ UNCHANGED <<faultLog, tracker, scheduled, uplink, unacked, buffers,
                 telemetry, sentIn, executed, evicted>>

Purged_Nothing == uplink   \* mutant: no queue_purge
Purged == <<>>

PurgeQueue ==
  /\ session = "started"
  /\ uplink' = Purged
  /\ session' = "purged"
  /\ UNCHANGED <<faultLog, tracker, scheduled, unacked, sessions, buffers,
                 telemetry, sentIn, executed, evicted>>

Subscribe ==
  /\ session = "purged"
  /\ session' = "consuming"
  /\ UNCHANGED <<faultLog, tracker, scheduled, uplink, unacked, sessions,
                 buffers, telemetry, sentIn, executed, evicted>>

(* The session ends with its connection: what was delivered goes back to   *)
(* the head of the queue, what is in the program is gone; of its answers   *)
(* those that were published stay.                                         *)
StopSatellite ==
  /\ session # "off" /\ sessions < MaxSessions
  /\ session' = "off"
  /\ uplink' = unacked \o uplink /\ unacked' = <<>>
  /\ command_buffer' = <<>> /\ scheduler_command' = <<>> /\ task_queue' = {}
  /\ \E n \in 0..Len(telemetry) : telemetry' = SubSeq(telemetry, 1, n)
  /\ UNCHANGED <<faultLog, tracker, scheduled, sessions, sentIn, executed,
                 evicted>>

----------------------------------------------------------------------------
(* receive_command; process_command, which makes a scheduler command of    *)
(* it; check_preemption, which makes a task of that.                       *)
Thrown(q, capacity) ==
  {c.fault : c \in FifoDropped(q, capacity) \ {OtherCommand}}

ReceiveCommand ==
  /\ session = "consuming" /\ uplink # <<>>
  /\ uplink' = Tail(uplink) /\ unacked' = Append(unacked, Head(uplink))
  /\ command_buffer' = FifoPush(command_buffer, Head(uplink), BufferCapacity)
  /\ evicted' = evicted \cup Thrown(command_buffer, BufferCapacity)
  /\ UNCHANGED <<faultLog, tracker, scheduled, session, sessions,
                 scheduler_command, task_queue, telemetry, sentIn, executed>>

ReceiveOther ==
  /\ session = "consuming"
  /\ command_buffer' = FifoPush(command_buffer, OtherCommand, BufferCapacity)
  /\ evicted' = evicted \cup Thrown(command_buffer, BufferCapacity)
  /\ UNCHANGED <<faultLog, tracker, scheduled, uplink, unacked, session,
                 sessions, scheduler_command, task_queue, telemetry, sentIn,
                 executed>>

(* Mutant: looks at the command and leaves it in the buffer.               *)
Rest_Peeked(q) == q
Rest(q) == Tail(q)

ProcessCommand ==
  /\ command_buffer # <<>>
  /\ command_buffer' = Rest(command_buffer)
  /\ IF Head(command_buffer) = OtherCommand
     THEN UNCHANGED <<scheduler_command, evicted>>
     ELSE /\ scheduler_command' =
               FifoPush(scheduler_command, Head(command_buffer), CommandCapacity)
          /\ evicted' = evicted \cup Thrown(scheduler_command, CommandCapacity)
  /\ UNCHANGED <<faultLog, tracker, scheduled, uplink, unacked, session,
                 sessions, task_queue, telemetry, sentIn, executed>>

(* The satellite's own tasks push commands to the same queue.              *)
PushOther ==
  /\ session # "off"
  /\ scheduler_command' =
       FifoPush(scheduler_command, OtherCommand, CommandCapacity)
  /\ evicted' = evicted \cup Thrown(scheduler_command, CommandCapacity)
  /\ UNCHANGED <<faultLog, tracker, scheduled, uplink, unacked, session,
                 sessions, command_buffer, task_queue, telemetry, sentIn,
                 executed>>

CheckPreemption ==
  /\ scheduler_command # <<>>
  /\ task_queue' = task_queue \cup ({Head(scheduler_command)} \ {OtherCommand})
  /\ scheduler_command' = Tail(scheduler_command)
  /\ UNCHANGED <<faultLog, tracker, scheduled, uplink, unacked, session,
                 sessions, command_buffer, telemetry, sentIn, executed, evicted>>

(* The task answers with a fault message of its own time, or finds no      *)
(* datum within 20 ms and ends without a word.                             *)
Execute(c) ==
  /\ c \in task_queue
  /\ task_queue' = task_queue \ {c}
  /\ executed' = executed \cup {c.fault}
  /\ \/ telemetry' = Append(telemetry, [command |-> c, stamp |-> logged])
     \/ UNCHANGED telemetry
  /\ UNCHANGED <<faultLog, tracker, scheduled, uplink, unacked, session,
                 sessions, command_buffer, scheduler_command, sentIn, evicted>>

----------------------------------------------------------------------------
(* The telemetry link loses any packet, and keeps the order (Telelink).    *)
LoseAnswer ==
  /\ \E i \in 1..Len(telemetry) :
       telemetry' = SubSeq(telemetry, 1, i - 1)
                      \o SubSeq(telemetry, i + 1, Len(telemetry))
  /\ UNCHANGED <<faultLog, tracker, scheduled, uplink, unacked, session,
                 sessions, buffers, sentIn, executed, evicted>>

(* get_first_and_remove; the mutant takes the latest.                      *)
First_Latest(q) == Len(q)
First(q) == 1

(* fault_detection: an answer, of either kind, resolves an open ReRequest  *)
(* fault of its sensor, if there is one, and its recovery time is the      *)
(* answer's stamp less that fault's.                                       *)
DetectResponse ==
  /\ telemetry # <<>>
  /\ telemetry' = Tail(telemetry)
  /\ LET a == Head(telemetry)
         s == a.command.sensor
         open == satellite_fault[<<"ReRequest", s>>]
         i == First(open)
     IN  IF open = <<>> THEN UNCHANGED <<satellite_fault, fault_resolve>>
         ELSE /\ fault_resolve' = [fault_resolve EXCEPT ![s] = @ \cup
                   {[fault |-> open[i], answer |-> a.command.situation,
                     stamp |-> a.stamp]}]
              /\ satellite_fault' =
                   [satellite_fault EXCEPT ![<<"ReRequest", s>>] =
                      SubSeq(open, 1, i - 1) \o SubSeq(open, i + 1, Len(open))]
  /\ UNCHANGED <<logged, tracker, scheduled, uplink, unacked, session, sessions,
                 buffers, sentIn, executed, evicted>>

----------------------------------------------------------------------------
Ground ==
  \/ \E w \in Situation, s \in Sensor : Trigger(w, s) \/ CooldownExpires(w, s)
  \/ \E c \in scheduled : SendCommand(c) \/ RejectOrLose(c)
  \/ DetectResponse

Session == StartSatellite \/ PurgeQueue \/ Subscribe \/ StopSatellite

Satellite == \/ ReceiveCommand \/ ProcessCommand \/ CheckPreemption
             \/ \E c \in task_queue : Execute(c)

Next == Ground \/ Session \/ Satellite \/ ReceiveOther \/ PushOther \/ LoseAnswer

Spec == Init /\ [][Next]_vars

(* A tokio task that can run does.                                         *)
Fairness ==
  /\ WF_vars(ReceiveCommand) /\ WF_vars(ProcessCommand)
  /\ WF_vars(CheckPreemption) /\ WF_vars(\E c \in task_queue : Execute(c))

FairSpec == Spec /\ Fairness

----------------------------------------------------------------------------
TypeOK ==
  /\ logged \in 0..MaxFaults
  /\ satellite_fault \in [Situation \X Sensor -> Seq(Fault)]
  /\ fault_resolve \in [Sensor -> SUBSET Resolve]
  /\ tracker \subseteq Situation \X Sensor
  /\ scheduled \subseteq Command
  /\ uplink \in Seq(Command) /\ unacked \in Seq(Command)
  /\ session \in {"off", "started", "purged", "consuming"}
  /\ sessions \in Nat
  /\ command_buffer \in Seq(Command \cup {OtherCommand})
  /\ scheduler_command \in Seq(Command \cup {OtherCommand})
  /\ Len(command_buffer) <= BufferCapacity
  /\ Len(scheduler_command) <= CommandCapacity
  /\ task_queue \subseteq Command
  /\ telemetry \in Seq(Answer)
  /\ sentIn \in [Fault -> Nat]
  /\ executed \subseteq Fault /\ evicted \subseteq Fault

(* A satellite that was started anew executes no command of an earlier     *)
(* session, although the broker has all of them queued again and the       *)
(* ground may publish while it is off: what it holds was uplinked after it *)
(* was started.                                                            *)
Waiting == scheduler_command \o command_buffer
Held == task_queue \cup (Elements(Waiting) \ {OtherCommand})

FreshCommandsOnly == \A c \in Held : sentIn[c.fault] = sessions

(* Redelivery, buffers and restarts execute no command twice: none that is *)
(* held has been executed, and none is held in two places.                 *)
ExecutedOnce ==
  /\ \A c \in Held : c.fault \notin executed
  /\ \A i \in 1..Len(Waiting) :
       /\ Waiting[i] \notin task_queue
       /\ Waiting[i] # OtherCommand =>
            \A j \in 1..Len(Waiting) : Waiting[i] = Waiting[j] => i = j

(* An answer that comes finds an open fault: of a sensor whose faults no   *)
(* answer to a loss of contact has resolved, at least as many re-requests  *)
(* are open as commands and answers are on their way, through rejected,    *)
(* lost and repeated ones.                                                 *)
OnlyReRequests(s) == \A r \in fault_resolve[s] : r.answer = "ReRequest"

OnTheWay(s) ==
  LET commands == scheduled \cup Held \cup {a.command : a \in Elements(telemetry)}
                    \cup (IF session \in {"purged", "consuming"}
                          THEN Elements(uplink) ELSE {})
  IN  {c \in commands : c.situation = "ReRequest" /\ c.sensor = s}

AnswersFindFaults ==
  \A s \in Sensor :
    OnlyReRequests(s) =>
      Cardinality(OnTheWay(s)) <= Len(satellite_fault[<<"ReRequest", s>>])

(* A recovery time is not negative (as a u64 it would be huge): the fault  *)
(* an answer resolves is older than the answer, if only re-requests were   *)
(* answered so far.                                                        *)
RecoveryTimesReal ==
  \A s \in Sensor :
    OnlyReRequests(s) => \A r \in fault_resolve[s] : r.fault <= r.stamp

(* A command that waits for a satellite that consumes is executed, unless  *)
(* a full queue throws it away or the satellite stops.                     *)
CommandsExecuted ==
  \A c \in Command :
    session = "consuming" /\ c \in Elements(uplink)
      ~> c.fault \in executed \cup evicted \/ session # "consuming"

=============================================================================
