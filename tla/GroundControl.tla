---------------------------- MODULE GroundControl ----------------------------
(***************************************************************************)
(* The ground station's control loop: the receiver task (packet validator, *)
(* fault detection and the triggers of re-request and loss of contact) and *)
(* the command scheduler task.  They share the system state, the fault     *)
(* event log and a one-place mailbox, `schedule_command`, whose mutex the  *)
(* scheduler may keep while it sleeps (src/src/ground/{receiver,           *)
(* packet_validator,ground_service,scheduler,command,system_state,         *)
(* fault_event}.rs).                                                       *)
(*                                                                         *)
(* Time is abstracted: a command at the top of the heap may or may not be  *)
(* due, a sleep may end at any time, and a cooldown of 10 s ends at any    *)
(* time after the command it let through has been dispatched.              *)
(***************************************************************************)
EXTENDS Integers

CONSTANTS
  Sensor,     \* the sensors whose packets the ground validates
  DataFault,  \* the faults the satellite reports of its own data
  MaxErrors,  \* model bound: error_count and sensor_failures saturate here
  MaxFaults   \* model bound: so do the queues of faults (0: not kept)

ASSUME FaultsAssumption == DataFault \subseteq {"CorruptedData", "DelayedData"}

(* The code compares the counters with 3 only (== 3 and >= 3), so counters *)
(* that stop above 3 behave like the unbounded ones.                       *)
ASSUME BoundsAssumption == MaxErrors \in Nat /\ MaxErrors > 3
                           /\ MaxFaults \in Nat

VARIABLES
  active,      \* SystemState.active_sensors
  failures,    \* SystemState.sensor_failures
  error_count, \* PacketValidator.error_count, by the sensor of the prefix
  satellite_fault, \* how many faults each VecDeque of FaultEvent holds
  tracker,     \* the situations in cooldown (TriggerTracker)
  mailbox,     \* schedule_command: Option<Command>
  notified,    \* the permit notify_one() stores
  heap,        \* CommandScheduler.heap
  spc, job, guarded, \* scheduler: step, popped command, mailbox guard kept?
  rpc, rsensor, \* receiver: step, sensor of the packet it handles
  asked,       \* environment: uplinked requests the satellite may answer
  lcSent       \* history: LC uplinked since the sensor's last good packet

scheduler == <<spc, job, guarded>>
receiver == <<rpc, rsensor>>
vars == <<active, failures, error_count, satellite_fault, tracker, mailbox,
          notified, heap, spc, job, guarded, rpc, rsensor, asked, lcSent>>

----------------------------------------------------------------------------
NoSensor == "none"
PeriodicCommand == [type : {"PG", "SC", "EC"}, sensor : {NoSensor}]
OneShotCommand == [type : {"RR", "LC"}, sensor : Sensor]
Command == PeriodicCommand \cup OneShotCommand
NoCommand == [type |-> "none", sensor |-> NoSensor]

RR(s) == [type |-> "RR", sensor |-> s]
LC(s) == [type |-> "LC", sensor |-> s]

(* Mutant: the heap is a min-heap.                                         *)
priority_Reversed(c) == CASE c.type = "LC" -> 1 [] c.type = "RR" -> 3
                          [] OTHER -> 5

priority(c) == CASE c.type = "LC" -> 5 [] c.type = "RR" -> 3 [] OTHER -> 1

Trigger == {"ReRequest", "LossOfContact"}
Situation == Trigger \cup DataFault

AtMost(n, max) == IF n > max THEN max ELSE n

AddFault(w, s) ==
  satellite_fault' =
    [satellite_fault EXCEPT ![<<w, s>>] = AtMost(@ + 1, MaxFaults)]

(* FaultEvent::get_first_and_remove, then add_fault_resolve.  A queue at   *)
(* the bound may be longer than it, and may stay at it.                    *)
Shorter_Unchecked(n) == {n - 1}   \* mutant: pops from an empty queue
Shorter(n) == IF n = 0 THEN {0}
              ELSE IF n = MaxFaults THEN {n - 1, n} ELSE {n - 1}

ResolveFirst(w, s) ==
  \E n \in Shorter(satellite_fault[<<w, s>>]) :
    satellite_fault' = [satellite_fault EXCEPT ![<<w, s>>] = n]

(* SystemState::has_consecutive_failures; the mutant is off by one.        *)
has_consecutive_failures_Above(s) == failures[s] > 3
has_consecutive_failures(s) == failures[s] >= 3

Init ==
  /\ active = [s \in Sensor |-> TRUE]
  /\ failures = [s \in Sensor |-> 0]
  /\ error_count = [s \in Sensor |-> 0]
  /\ satellite_fault = [ws \in Situation \X Sensor |-> 0]
  /\ tracker = {}
  /\ mailbox = NoCommand /\ notified = FALSE
  /\ heap = PeriodicCommand
  /\ spc = "loop" /\ job = NoCommand /\ guarded = FALSE
  /\ rpc = "ready" /\ rsensor = NoSensor
  /\ asked = {}
  /\ lcSent = [s \in Sensor |-> FALSE]

----------------------------------------------------------------------------
(* The receiver: one packet at a time, acknowledged only when its handler  *)
(* is through.                                                             *)

Ready == rpc' = "ready" /\ rsensor' = NoSensor

(* validate_packet up to its triggers.  `errors` packets are missing in    *)
(* front of this one, or it is the late one itself; none means it is good. *)
(* Exactly three errors in a row mean loss of contact.                     *)
ValidatePacket(s, errors) ==
  /\ rpc = "ready"
  /\ LET count == IF errors = 0 THEN 0
                  ELSE AtMost(error_count[s] + errors, MaxErrors)
     IN  /\ error_count' = [error_count EXCEPT ![s] =
                              IF count = 3 THEN 0 ELSE count]
         /\ rpc' = IF count = 3 THEN "lossOfContact"
                   ELSE IF errors > 0 THEN "rerequest" ELSE "ready"
  /\ rsensor' = IF rpc' = "ready" THEN NoSensor ELSE s
  /\ failures' = [failures EXCEPT ![s] =
                   IF errors = 0 THEN 0 ELSE AtMost(@ + errors, MaxErrors)]
  /\ lcSent' = [lcSent EXCEPT ![s] = IF errors = 0 THEN FALSE ELSE @]
  /\ UNCHANGED <<active, satellite_fault, tracker, mailbox, notified, heap,
                 scheduler, asked>>

(* check_cooldown; the mutant forgets the last trigger.                    *)
InCooldown_Never(w, s) == FALSE
InCooldown(w, s) == <<w, s>> \in tracker

(* trigger_rerequest: ignored in cooldown, else logged as a fault.         *)
TriggerReRequest ==
  /\ rpc = "rerequest"
  /\ IF InCooldown("ReRequest", rsensor)
     THEN Ready /\ UNCHANGED <<tracker, satellite_fault>>
     ELSE /\ tracker' = tracker \cup {<<"ReRequest", rsensor>>}
          /\ AddFault("ReRequest", rsensor)
          /\ rpc' = "putRR" /\ UNCHANGED rsensor
  /\ UNCHANGED <<active, failures, error_count, mailbox, notified, heap,
                 scheduler, asked, lcSent>>

(* trigger_loss_of_contact: the cooldown starts before the validation ...  *)
TriggerLossOfContact ==
  /\ rpc = "lossOfContact"
  /\ IF InCooldown("LossOfContact", rsensor)
     THEN Ready /\ UNCHANGED tracker
     ELSE /\ tracker' = tracker \cup {<<"LossOfContact", rsensor>>}
          /\ rpc' = "validateLC" /\ UNCHANGED rsensor
  /\ UNCHANGED <<active, failures, error_count, satellite_fault, mailbox,
                 notified, heap, scheduler, asked, lcSent>>

(* ... which rejects the command for good, or logs the fault.              *)
ValidLC(s) == has_consecutive_failures(s) /\ active[s]

ValidateLossOfContact ==
  /\ rpc = "validateLC"
  /\ IF ValidLC(rsensor)
     THEN AddFault("LossOfContact", rsensor) /\ rpc' = "putLC" /\ UNCHANGED rsensor
     ELSE Ready /\ UNCHANGED satellite_fault
  /\ UNCHANGED <<active, failures, error_count, tracker, mailbox, notified,
                 heap, scheduler, asked, lcSent>>

NotifyOne_Missing == UNCHANGED notified   \* mutant: a put tells nobody
NotifyOne == notified' = TRUE

(* The loop that waits for the mailbox to be empty: with its mutex free it *)
(* looks, and yields when it is full; a put stores a permit.               *)
Put ==
  /\ rpc \in {"putRR", "putLC"}
  /\ ~guarded /\ mailbox = NoCommand
  /\ mailbox' = IF rpc = "putRR" THEN RR(rsensor) ELSE LC(rsensor)
  /\ NotifyOne
  /\ Ready
  /\ UNCHANGED <<active, failures, error_count, satellite_fault, tracker,
                 heap, scheduler, asked, lcSent>>

(* fault_detection on what the satellite reports of its own faults.        *)
DetectFault(w, s) ==
  /\ rpc = "ready"
  /\ AddFault(w, s)
  /\ active' = [active EXCEPT ![s] = FALSE]
  /\ UNCHANGED <<failures, error_count, tracker, mailbox, notified, heap,
                 scheduler, receiver, asked, lcSent>>

DetectRecovery(w, s) ==
  /\ rpc = "ready"
  /\ ResolveFirst(w, s)
  /\ active' = [active EXCEPT ![s] = TRUE]
  /\ UNCHANGED <<failures, error_count, tracker, mailbox, notified, heap,
                 scheduler, receiver, asked, lcSent>>

(* fault_detection on an answer.  Both answers resolve a ReRequest fault   *)
(* (ground_service.rs:191 and 204).                                        *)
DetectResponse(w, s) ==
  /\ rpc = "ready" /\ <<w, s>> \in asked
  /\ asked' = asked \ {<<w, s>>}
  /\ ResolveFirst("ReRequest", s)
  /\ UNCHANGED <<active, failures, error_count, tracker, mailbox, notified,
                 heap, scheduler, receiver, lcSent>>

----------------------------------------------------------------------------
(* The command scheduler.  An iteration that finds a command in the        *)
(* mailbox keeps the guard until it ends, through the send or the sleep.   *)

EndIteration == spc' = "loop" /\ job' = NoCommand /\ guarded' = FALSE

TakeMailbox_Clones == UNCHANGED mailbox   \* mutant: clone() for take()
TakeMailbox == mailbox' = NoCommand

CheckMailbox ==
  /\ spc = "loop"
  /\ heap' = heap \cup ({mailbox} \ {NoCommand})
  /\ guarded' = (mailbox # NoCommand)
  /\ TakeMailbox
  /\ spc' = "peek"
  /\ UNCHANGED <<active, failures, error_count, satellite_fault, tracker,
                 notified, job, receiver, asked, lcSent>>

(* Only the top of the heap is looked at: the highest priority, and the    *)
(* earliest release among equals (not modelled).  If it is due it is       *)
(* popped ...                                                              *)
Release(c) ==
  /\ spc = "peek" /\ c \in heap
  /\ \A d \in heap : priority(d) <= priority(c)
  /\ heap' = heap \ {c}
  /\ job' = c
  /\ spc' = "dispatch"
  /\ UNCHANGED <<active, failures, error_count, satellite_fault, tracker,
                 mailbox, notified, guarded, receiver, asked, lcSent>>

(* ... and if not, the scheduler sleeps until it is, or until notified.    *)
Sleep ==
  /\ spc = "peek"
  /\ spc' = "sleep"
  /\ UNCHANGED <<active, failures, error_count, satellite_fault, tracker,
                 mailbox, notified, heap, job, guarded, receiver, asked,
                 lcSent>>

Wake ==
  /\ spc = "sleep"
  /\ \/ UNCHANGED notified
     \/ notified /\ notified' = FALSE
  /\ EndIteration
  /\ UNCHANGED <<active, failures, error_count, satellite_fault, tracker,
                 mailbox, heap, receiver, asked, lcSent>>

(* Urgent commands were validated before and periodic ones are always      *)
(* safe; a re-request for an inactive sensor is rejected and forgotten.    *)
ValidateCommand ==
  /\ spc = "dispatch"
  /\ IF job.type = "RR" /\ ~active[job.sensor]
     THEN EndIteration
     ELSE spc' = "send" /\ UNCHANGED <<job, guarded>>
  /\ UNCHANGED <<active, failures, error_count, satellite_fault, tracker,
                 mailbox, notified, heap, receiver, asked, lcSent>>

(* Sender::send_command logs a failed publish and returns nothing of it.   *)
Response(c) == IF c.type = "RR" THEN "ReRequest" ELSE "LossOfContact"

SendCommand ==
  /\ spc = "send"
  /\ \/ /\ spc' = "sent"
        /\ asked' = IF job \in OneShotCommand
                     THEN asked \cup {<<Response(job), job.sensor>>} ELSE asked
     \/ spc' = "unsent" /\ UNCHANGED asked
  /\ UNCHANGED <<active, failures, error_count, satellite_fault, tracker,
                 mailbox, notified, heap, job, guarded, receiver, lcSent>>

Requeued_Inverted == {job} \cap OneShotCommand   \* mutant: if one_shot
Requeued == {job} \cap PeriodicCommand

(* Sent or not, the command is counted as an uplink.  A loss-of-contact    *)
(* command clears the failures it was raised for; what is not one-shot     *)
(* goes back to the heap.                                                  *)
CompleteCommand ==
  /\ spc \in {"sent", "unsent"}
  /\ failures' = [s \in Sensor |-> IF job = LC(s) THEN 0 ELSE failures[s]]
  /\ lcSent' = [s \in Sensor |-> job = LC(s) \/ lcSent[s]]
  /\ heap' = heap \cup Requeued
  /\ EndIteration
  /\ UNCHANGED <<active, error_count, satellite_fault, tracker, mailbox,
                 notified, receiver, asked>>

----------------------------------------------------------------------------
(* The environment: 10 s go by.  A command spends far less than that       *)
(* between its trigger and its uplink (600 ms and the iterations it needs).*)
OnItsWay(w, s) ==
  LET c == IF w = "ReRequest" THEN RR(s) ELSE LC(s)
  IN  \/ c \in heap \/ mailbox = c \/ job = c
      \/ rpc # "ready" /\ rsensor = s

CooldownExpires(w, s) ==
  /\ <<w, s>> \in tracker /\ ~OnItsWay(w, s)
  /\ tracker' = tracker \ {<<w, s>>}
  /\ UNCHANGED <<active, failures, error_count, satellite_fault, mailbox,
                 notified, heap, scheduler, receiver, asked, lcSent>>

Triggers == TriggerReRequest \/ TriggerLossOfContact \/ ValidateLossOfContact
Receiver ==
  \/ \E s \in Sensor :
       \/ \E errors \in 0..MaxErrors : ValidatePacket(s, errors)
       \/ \E w \in DataFault : DetectFault(w, s) \/ DetectRecovery(w, s)
       \/ \E w \in Trigger : DetectResponse(w, s)
  \/ Triggers \/ Put
Scheduler ==
  \/ CheckMailbox \/ Sleep \/ Wake \/ \E c \in Command : Release(c)
  \/ ValidateCommand \/ SendCommand \/ CompleteCommand

Next == \/ Receiver \/ Scheduler
        \/ \E w \in Trigger, s \in Sensor : CooldownExpires(w, s)

Spec == Init /\ [][Next]_vars

(* Weak fairness: a tokio task that can run does, sleeps and sends end.    *)
(* Strong: a one-shot command that is the top of the heap again and again  *)
(* is due in the end, and tokio's FIFO mutex lets the receiver look at the *)
(* mailbox between two iterations of the scheduler.                        *)
Fairness ==
  /\ WF_vars(Scheduler) /\ \A c \in OneShotCommand : SF_vars(Release(c))
  /\ WF_vars(Triggers) /\ SF_vars(Put)

FairSpec == Spec /\ Fairness

----------------------------------------------------------------------------
TypeOK ==
  /\ active \in [Sensor -> BOOLEAN]
  /\ failures \in [Sensor -> 0..MaxErrors]
  /\ error_count \in [Sensor -> 0..MaxErrors]
  /\ satellite_fault \in [Situation \X Sensor -> 0..MaxFaults]
  /\ tracker \subseteq Trigger \X Sensor
  /\ mailbox \in OneShotCommand \cup {NoCommand}
  /\ notified \in BOOLEAN
  /\ heap \subseteq Command
  /\ spc \in {"loop", "peek", "sleep", "dispatch", "send", "sent",
              "unsent"}
  /\ job \in Command \cup {NoCommand}
  /\ guarded \in BOOLEAN
  /\ rpc \in {"ready", "rerequest", "putRR", "lossOfContact", "validateLC",
              "putLC"}
  /\ rsensor \in Sensor \cup {NoSensor}
  /\ asked \subseteq Trigger \X Sensor
  /\ lcSent \in [Sensor -> BOOLEAN]

(* No lost wakeup: a command that lies in the mailbox while the scheduler  *)
(* is anywhere but in front of its check has a permit stored for it, so    *)
(* that the sleep the scheduler is in, or about to enter, ends at once;    *)
(* and the scheduler never sleeps on the mailbox's lock with a command in  *)
(* it.                                                                     *)
NoLostWakeup ==
  /\ mailbox # NoCommand => notified \/ spc = "loop"
  /\ guarded => mailbox = NoCommand

(* Ping, status check and echo are scheduled for ever: through pop, send,  *)
(* rejection and reschedule, each is either in the heap or being           *)
(* dispatched, never both.                                                 *)
DefaultCommandsKept ==
  \A c \in PeriodicCommand : (c \in heap) # (job = c)

(* The two failure counters agree: the validator counts errors per packet  *)
(* prefix and forgets them at three, the system state counts them per      *)
(* sensor and forgets them when a loss-of-contact command is uplinked, at  *)
(* any time.  Unless that happened since the last good packet, the system  *)
(* state has seen every error the validator has, and three of them when a  *)
(* loss of contact is about to be validated.                               *)
FailuresCoverErrors ==
  \A s \in Sensor :
    ~lcSent[s] =>
      /\ error_count[s] <= failures[s]
      /\ rpc \in {"lossOfContact", "validateLC"} /\ rsensor = s
           => has_consecutive_failures(s)

(* The cooldown lets at most one command of a kind and sensor through: it  *)
(* is with the receiver, in the mailbox, in the heap or being dispatched,  *)
(* and never in two of these places.                                       *)
Holders(c) ==
  (IF c \in heap THEN {"heap"} ELSE {})
  \cup (IF mailbox = c THEN {"mailbox"} ELSE {})
  \cup (IF job = c THEN {"job"} ELSE {})
  \cup (IF \/ rpc = "putRR" /\ c = RR(rsensor)
           \/ rpc = "putLC" /\ c = LC(rsensor) THEN {"receiver"} ELSE {})
OneInFlight == \A c \in OneShotCommand : \A p, q \in Holders(c) : p = q

(* The receiver, which acknowledges nothing while it waits for room in the *)
(* mailbox, always gets out of that wait, although the scheduler sleeps    *)
(* and uplinks with the mailbox locked.                                    *)
ReceiverUnblocked == rpc # "ready" ~> rpc = "ready"

(* A loss of contact that was validated is published: nothing rejects it,  *)
(* overwrites it or holds it up for ever.                                  *)
UrgentUplinked ==
  \A s \in Sensor : (rpc = "putLC" /\ rsensor = s)
                      ~> (spc \in {"sent", "unsent"} /\ job = LC(s))

----------------------------------------------------------------------------
(* What the program says of itself, and does not do.                       *)

(* "Sensor {:?} recovered normally from LossOfContact"                     *)
(* (ground_service.rs:240): the answer to a loss-of-contact command        *)
(* resolves the one fault that was logged when the command was raised.     *)
LossOfContactResolved ==
  [][\A s \in Sensor :
       /\ <<"LossOfContact", s>> \in asked \ asked'
       /\ satellite_fault[<<"LossOfContact", s>>] = 1
       => satellite_fault'[<<"LossOfContact", s>>] = 0]_vars

=============================================================================
