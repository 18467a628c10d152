------------------------- MODULE GroundControlProofs -------------------------
(***************************************************************************)
(* Theorems about GroundControl, for any set of sensors and any bounds.    *)
(***************************************************************************)
EXTENDS GroundControl, TLAPS

(* What the two tasks hold at each of their steps.                         *)
TasksInv ==
  /\ spc \in {"loop", "peek", "sleep"} => job = NoCommand
  /\ spc \in {"dispatch", "send", "sent", "unsent"} => job \in Command
  /\ rpc # "ready" => rsensor \in Sensor
  /\ spc = "loop" => ~guarded

Typing == TypeOK /\ TasksInv

LEMMA NoCommandDiffers == NoCommand \notin Command
BY DEF NoCommand, Command, PeriodicCommand, OneShotCommand

LEMMA CommandTypes ==
  /\ PeriodicCommand \subseteq Command /\ OneShotCommand \subseteq Command
  /\ PeriodicCommand \cap OneShotCommand = {}
  /\ \A s \in Sensor : RR(s) \in OneShotCommand /\ LC(s) \in OneShotCommand
BY DEF Command, PeriodicCommand, OneShotCommand, RR, LC

LEMMA AtMostType ==
  ASSUME NEW n \in Nat, NEW max \in Nat PROVE AtMost(n, max) \in 0..max
BY DEF AtMost

LEMMA ShorterType ==
  ASSUME NEW n \in 0..MaxFaults PROVE Shorter(n) \subseteq 0..MaxFaults
BY BoundsAssumption DEF Shorter

LEMMA TypingInit == Init => Typing
<1> SUFFICES ASSUME Init PROVE Typing
  OBVIOUS
<1>1. 0 \in 0..MaxErrors /\ 0 \in 0..MaxFaults
  BY BoundsAssumption
<1>2. TypeOK
  BY <1>1, CommandTypes DEF Init, TypeOK
<1>3. TasksInv
  BY DEF Init, TasksInv
<1> QED BY <1>2, <1>3 DEF Typing

(* The steps that add to or take from a queue of faults keep its type.     *)
LEMMA FaultsType ==
  ASSUME TypeOK, NEW w \in Situation, NEW s \in Sensor,
         AddFault(w, s) \/ ResolveFirst(w, s)
  PROVE  satellite_fault' \in [Situation \X Sensor -> 0..MaxFaults]
<1>1. satellite_fault[<<w, s>>] \in 0..MaxFaults /\ MaxFaults \in Nat
  BY BoundsAssumption DEF TypeOK
<1>2. AtMost(satellite_fault[<<w, s>>] + 1, MaxFaults) \in 0..MaxFaults
  <2>1. satellite_fault[<<w, s>>] + 1 \in Nat
    BY <1>1
  <2> QED BY <1>1, <2>1, AtMostType
<1>3. Shorter(satellite_fault[<<w, s>>]) \subseteq 0..MaxFaults
  BY <1>1, ShorterType
<1>4. PICK n \in 0..MaxFaults :
        satellite_fault' = [satellite_fault EXCEPT ![<<w, s>>] = n]
  <2>1. CASE AddFault(w, s)
    BY <2>1, <1>2 DEF AddFault
  <2>2. CASE ResolveFirst(w, s)
    <3>1. PICK n \in Shorter(satellite_fault[<<w, s>>]) :
            satellite_fault' = [satellite_fault EXCEPT ![<<w, s>>] = n]
      BY <2>2 DEF ResolveFirst
    <3> QED BY <3>1, <1>3
  <2> QED BY <2>1, <2>2
<1> QED BY <1>4 DEF TypeOK

LEMMA TypingStep == Typing /\ [Next]_vars => Typing'
<1> SUFFICES ASSUME Typing, [Next]_vars PROVE Typing'
  OBVIOUS
<1> USE CommandTypes, NoCommandDiffers DEF Typing
<1>u. CASE UNCHANGED vars
  BY <1>u DEF vars, TypeOK, TasksInv
<1>1. ASSUME NEW s \in Sensor, NEW errors \in 0..MaxErrors,
             ValidatePacket(s, errors)
      PROVE  Typing'
  <2>1. MaxErrors \in Nat
    BY BoundsAssumption
  <2>2. /\ AtMost(error_count[s] + errors, MaxErrors) \in 0..MaxErrors
        /\ AtMost(failures[s] + errors, MaxErrors) \in 0..MaxErrors
    <3>1. error_count[s] \in 0..MaxErrors /\ failures[s] \in 0..MaxErrors
      BY DEF TypeOK
    <3>2. error_count[s] + errors \in Nat /\ failures[s] + errors \in Nat
      BY <2>1, <3>1
    <3> QED BY <2>1, <3>2, AtMostType
  <2>3. /\ error_count' \in [Sensor -> 0..MaxErrors]
        /\ failures' \in [Sensor -> 0..MaxErrors]
        /\ lcSent' \in [Sensor -> BOOLEAN]
    <3>1. 0 \in 0..MaxErrors
      BY <2>1
    <3> HIDE DEF AtMost
    <3> QED BY <1>1, <2>2, <3>1 DEF ValidatePacket, TypeOK
  <2>4. /\ rpc' \in {"ready", "rerequest", "lossOfContact"}
        /\ rsensor' = IF rpc' = "ready" THEN NoSensor ELSE s
    BY <1>1 DEF ValidatePacket
  <2> QED BY <1>1, <2>3, <2>4 DEF ValidatePacket, TypeOK, TasksInv, scheduler
<1>2. CASE TriggerReRequest
  <2>1. satellite_fault' \in [Situation \X Sensor -> 0..MaxFaults]
    BY <1>2, FaultsType DEF TriggerReRequest, TypeOK, TasksInv, Situation, Trigger
  <2> QED BY <1>2, <2>1 DEF TriggerReRequest, Ready, TypeOK, TasksInv,
                            Trigger, scheduler
<1>3. CASE TriggerLossOfContact
  BY <1>3 DEF TriggerLossOfContact, Ready, TypeOK, TasksInv, Trigger, scheduler
<1>4. CASE ValidateLossOfContact
  <2>1. satellite_fault' \in [Situation \X Sensor -> 0..MaxFaults]
    BY <1>4, FaultsType
    DEF ValidateLossOfContact, TypeOK, TasksInv, Situation, Trigger
  <2> QED BY <1>4, <2>1 DEF ValidateLossOfContact, Ready, TypeOK, TasksInv,
                            scheduler
<1>5. CASE Put
  BY <1>5 DEF Put, NotifyOne, Ready, TypeOK, TasksInv, scheduler
<1>6. ASSUME NEW w \in DataFault, NEW s \in Sensor,
             DetectFault(w, s) \/ DetectRecovery(w, s)
      PROVE  Typing'
  <2>1. satellite_fault' \in [Situation \X Sensor -> 0..MaxFaults]
    BY <1>6, FaultsType DEF DetectFault, DetectRecovery, Situation
  <2>2. active' \in [Sensor -> BOOLEAN]
    BY <1>6 DEF DetectFault, DetectRecovery, TypeOK
  <2>3. /\ UNCHANGED <<failures, error_count, tracker, mailbox, notified>>
        /\ UNCHANGED <<heap, spc, job, guarded, rpc, rsensor, asked, lcSent>>
    BY <1>6 DEF DetectFault, DetectRecovery, scheduler, receiver
  <2> QED BY <2>1, <2>2, <2>3 DEF TypeOK, TasksInv
<1>7. ASSUME NEW w \in Trigger, NEW s \in Sensor, DetectResponse(w, s)
      PROVE  Typing'
  <2>1. satellite_fault' \in [Situation \X Sensor -> 0..MaxFaults]
    BY <1>7, FaultsType DEF DetectResponse, Situation, Trigger
  <2> QED BY <1>7, <2>1 DEF DetectResponse, TypeOK, TasksInv, scheduler, receiver
<1>8. CASE CheckMailbox
  BY <1>8 DEF CheckMailbox, TakeMailbox, TypeOK, TasksInv, receiver
<1>9. ASSUME NEW c \in Command, Release(c) PROVE Typing'
  BY <1>9 DEF Release, TypeOK, TasksInv, receiver
<1>10. CASE Sleep \/ Wake
  BY <1>10 DEF Sleep, Wake, EndIteration, TypeOK, TasksInv, receiver
<1>11. CASE ValidateCommand
  BY <1>11 DEF ValidateCommand, EndIteration, TypeOK, TasksInv, receiver
<1>12. CASE SendCommand
  <2>1. asked' \subseteq Trigger \X Sensor
    BY <1>12 DEF SendCommand, TypeOK, Response, OneShotCommand, Trigger
  <2> QED BY <1>12, <2>1 DEF SendCommand, TypeOK, TasksInv, receiver
<1>13. CASE CompleteCommand
  <2>1. failures' \in [Sensor -> 0..MaxErrors] /\ lcSent' \in [Sensor -> BOOLEAN]
    BY <1>13, BoundsAssumption DEF CompleteCommand, TypeOK
  <2> QED BY <1>13, <2>1
          DEF CompleteCommand, Requeued, EndIteration, TypeOK, TasksInv, receiver
<1>14. ASSUME NEW w \in Trigger, NEW s \in Sensor, CooldownExpires(w, s)
       PROVE  Typing'
  BY <1>14 DEF CooldownExpires, TypeOK, TasksInv, scheduler, receiver
<1> QED
  BY <1>u, <1>1, <1>2, <1>3, <1>4, <1>5, <1>6, <1>7, <1>8, <1>9, <1>10, <1>11,
     <1>12, <1>13, <1>14
  DEF Next, Receiver, Scheduler, Triggers

LEMMA TypingCorrect == Spec => []Typing
BY TypingInit, TypingStep, PTL DEF Spec

(* Every variable keeps its type.                                          *)
THEOREM GroundTypeCorrect == Spec => []TypeOK
<1>1. Typing => TypeOK
  BY DEF Typing
<1> QED BY <1>1, TypingCorrect, PTL

----------------------------------------------------------------------------
LEMMA WakeupStep ==
  ASSUME Typing, NoLostWakeup, [Next]_vars PROVE NoLostWakeup'
<1> USE DEF Typing
<1>u. CASE UNCHANGED vars
  BY <1>u DEF vars, NoLostWakeup
<1>1. CASE Receiver
  <2>1. CASE Put
    BY <2>1 DEF Put, NotifyOne, scheduler, NoLostWakeup
  <2>2. CASE ~Put
    <3>1. UNCHANGED <<mailbox, notified, spc, guarded>>
      BY <1>1, <2>2 DEF Receiver, Triggers, ValidatePacket, DetectFault,
           DetectRecovery, DetectResponse, TriggerReRequest,
           TriggerLossOfContact, ValidateLossOfContact, scheduler
    <3> QED BY <3>1 DEF NoLostWakeup
  <2> QED BY <2>1, <2>2
<1>2. CASE CheckMailbox
  BY <1>2 DEF CheckMailbox, TakeMailbox, NoLostWakeup
<1>3. ASSUME NEW c \in Command, Release(c) PROVE NoLostWakeup'
  BY <1>3 DEF Release, NoLostWakeup
<1>4. CASE Sleep \/ Wake
  BY <1>4 DEF Sleep, Wake, EndIteration, NoLostWakeup
<1>5. CASE ValidateCommand \/ SendCommand \/ CompleteCommand
  BY <1>5 DEF ValidateCommand, SendCommand, CompleteCommand, EndIteration,
              NoLostWakeup
<1>6. ASSUME NEW w \in Trigger, NEW s \in Sensor, CooldownExpires(w, s)
      PROVE  NoLostWakeup'
  BY <1>6 DEF CooldownExpires, scheduler, NoLostWakeup
<1> QED BY <1>u, <1>1, <1>2, <1>3, <1>4, <1>5, <1>6 DEF Next, Scheduler

(* A command in the mailbox is never slept on: its permit is still there,  *)
(* or the scheduler is about to look.                                      *)
THEOREM NoWakeupLost == Spec => []NoLostWakeup
<1>1. Init => NoLostWakeup
  BY DEF Init, NoLostWakeup
<1>2. Typing /\ NoLostWakeup /\ [Next]_vars => NoLostWakeup'
  BY WakeupStep
<1> QED BY <1>1, <1>2, TypingCorrect, PTL DEF Spec

----------------------------------------------------------------------------
LEMMA KeptStep ==
  ASSUME Typing, DefaultCommandsKept, [Next]_vars PROVE DefaultCommandsKept'
<1> USE CommandTypes, NoCommandDiffers DEF Typing
<1>u. CASE UNCHANGED vars
  BY <1>u DEF vars, DefaultCommandsKept
<1>1. CASE Receiver
  BY <1>1 DEF Receiver, Triggers, ValidatePacket, DetectFault, DetectRecovery,
       DetectResponse, TriggerReRequest, TriggerLossOfContact,
       ValidateLossOfContact, Put, scheduler, DefaultCommandsKept
<1>2. CASE CheckMailbox
  BY <1>2 DEF CheckMailbox, TypeOK, DefaultCommandsKept
<1>3. ASSUME NEW c \in Command, Release(c) PROVE DefaultCommandsKept'
  BY <1>3 DEF Release, TasksInv, DefaultCommandsKept
<1>4. CASE Sleep \/ Wake
  BY <1>4 DEF Sleep, Wake, EndIteration, TasksInv, DefaultCommandsKept
<1>5. CASE ValidateCommand
  <2>1. job.type = "RR" => job \notin PeriodicCommand
    BY DEF PeriodicCommand
  <2> QED BY <1>5, <2>1 DEF ValidateCommand, EndIteration, DefaultCommandsKept
<1>6. CASE SendCommand
  BY <1>6 DEF SendCommand, DefaultCommandsKept
<1>7. CASE CompleteCommand
  BY <1>7 DEF CompleteCommand, Requeued, EndIteration, DefaultCommandsKept
<1>8. ASSUME NEW w \in Trigger, NEW s \in Sensor, CooldownExpires(w, s)
      PROVE  DefaultCommandsKept'
  BY <1>8 DEF CooldownExpires, scheduler, DefaultCommandsKept
<1> QED BY <1>u, <1>1, <1>2, <1>3, <1>4, <1>5, <1>6, <1>7, <1>8
        DEF Next, Scheduler

(* Ping, status check and echo are never lost and never doubled.           *)
THEOREM DefaultCommandsNeverLost == Spec => []DefaultCommandsKept
<1>1. Init => DefaultCommandsKept
  BY CommandTypes, NoCommandDiffers DEF Init, DefaultCommandsKept
<1>2. Typing /\ DefaultCommandsKept /\ [Next]_vars => DefaultCommandsKept'
  BY KeptStep
<1> QED BY <1>1, <1>2, TypingCorrect, PTL DEF Spec

----------------------------------------------------------------------------
(* The validator's counter never runs ahead of the system state's.         *)
LEMMA CoverStep ==
  ASSUME Typing, FailuresCoverErrors, [Next]_vars PROVE FailuresCoverErrors'
<1> USE DEF Typing
<1>u. CASE UNCHANGED vars
  BY <1>u DEF vars, FailuresCoverErrors, has_consecutive_failures
<1>1. ASSUME NEW s \in Sensor, NEW errors \in 0..MaxErrors,
             ValidatePacket(s, errors)
      PROVE  FailuresCoverErrors'
  <2> SUFFICES ASSUME NEW r \in Sensor, ~lcSent'[r]
               PROVE  /\ error_count'[r] <= failures'[r]
                      /\ rpc' \in {"lossOfContact", "validateLC"} /\ rsensor' = r
                           => failures'[r] >= 3
    BY DEF FailuresCoverErrors, has_consecutive_failures
  <2>1. /\ error_count[r] \in Nat /\ failures[r] \in Nat /\ MaxErrors \in Nat
        /\ MaxErrors > 3 /\ errors \in Nat
    BY BoundsAssumption DEF TypeOK
  <2>2. CASE r # s
    BY <1>1, <2>1, <2>2 DEF ValidatePacket, TypeOK, FailuresCoverErrors
  <2>3. CASE r = s /\ errors = 0
    BY <1>1, <2>1, <2>3 DEF ValidatePacket, TypeOK
  <2>4. CASE r = s /\ errors # 0
    <3> DEFINE count == AtMost(error_count[s] + errors, MaxErrors)
    <3>1. ~lcSent[s]
      BY <1>1, <2>4 DEF ValidatePacket, TypeOK
    <3>2. error_count[s] <= failures[s]
      BY <3>1 DEF FailuresCoverErrors
    <3>3. count <= AtMost(failures[s] + errors, MaxErrors) /\ count \in Nat
      BY <2>1, <2>4, <3>2 DEF AtMost
    <3>4. failures'[s] = AtMost(failures[s] + errors, MaxErrors)
      BY <1>1, <2>4 DEF ValidatePacket, TypeOK
    <3>5. /\ error_count'[s] = IF count = 3 THEN 0 ELSE count
          /\ rpc' = IF count = 3 THEN "lossOfContact" ELSE "rerequest"
      BY <1>1, <2>1, <2>4 DEF ValidatePacket, TypeOK
    <3> HIDE DEF count
    <3>6. failures'[s] \in Nat
      <4>1. failures[s] + errors \in Nat
        BY <2>1, <2>4
      <4> QED BY <2>1, <3>4, <4>1, AtMostType
    <3> QED BY <2>4, <3>3, <3>4, <3>5, <3>6
  <2> QED BY <2>2, <2>3, <2>4
<1>2. CASE TriggerLossOfContact
  BY <1>2 DEF TriggerLossOfContact, Ready, FailuresCoverErrors,
              has_consecutive_failures
<1>3. CASE TriggerReRequest \/ ValidateLossOfContact \/ Put
  BY <1>3 DEF TriggerReRequest, ValidateLossOfContact, Put, Ready,
              FailuresCoverErrors, has_consecutive_failures
<1>4. ASSUME NEW s \in Sensor,
             \/ \E w \in DataFault : DetectFault(w, s) \/ DetectRecovery(w, s)
             \/ \E w \in Trigger : DetectResponse(w, s)
      PROVE  FailuresCoverErrors'
  BY <1>4 DEF DetectFault, DetectRecovery, DetectResponse, receiver,
              FailuresCoverErrors, has_consecutive_failures
<1>5. CASE CompleteCommand
  <2> SUFFICES ASSUME NEW r \in Sensor, ~lcSent'[r]
               PROVE  /\ error_count'[r] <= failures'[r]
                      /\ rpc' \in {"lossOfContact", "validateLC"} /\ rsensor' = r
                           => failures'[r] >= 3
    BY DEF FailuresCoverErrors, has_consecutive_failures
  <2>1. job # LC(r) /\ ~lcSent[r]
    BY <1>5 DEF CompleteCommand
  <2>2. failures'[r] = failures[r]
    BY <1>5, <2>1 DEF CompleteCommand
  <2> QED BY <1>5, <2>1, <2>2
          DEF CompleteCommand, receiver, FailuresCoverErrors,
              has_consecutive_failures
<1>6. ASSUME \/ CheckMailbox \/ Sleep \/ Wake \/ ValidateCommand \/ SendCommand
             \/ \E c \in Command : Release(c)
             \/ \E w \in Trigger, s \in Sensor : CooldownExpires(w, s)
      PROVE  FailuresCoverErrors'
  <2>1. UNCHANGED <<failures, error_count, rpc, rsensor, lcSent>>
    BY <1>6 DEF CheckMailbox, Sleep, Wake, ValidateCommand, SendCommand, Release,
                CooldownExpires, receiver
  <2> QED BY <2>1 DEF FailuresCoverErrors, has_consecutive_failures
<1> QED BY <1>u, <1>1, <1>2, <1>3, <1>4, <1>5, <1>6
        DEF Next, Receiver, Scheduler, Triggers

(* Unless a loss-of-contact command was uplinked since the last good       *)
(* packet, the sensor has three failures on record whenever the validator  *)
(* calls for one.                                                          *)
THEOREM FailuresCovered == Spec => []FailuresCoverErrors
<1>1. Init => FailuresCoverErrors
  BY DEF Init, FailuresCoverErrors
<1>2. Typing /\ FailuresCoverErrors /\ [Next]_vars => FailuresCoverErrors'
  BY CoverStep
<1> QED BY <1>1, <1>2, TypingCorrect, PTL DEF Spec

----------------------------------------------------------------------------
(* OneInFlight holds because a command that is anywhere keeps its cooldown *)
(* running, and a loss of contact under validation is nowhere yet.         *)
CommandOf(w, s) == IF w = "ReRequest" THEN RR(s) ELSE LC(s)

CooldownInv ==
  /\ \A w \in Trigger, s \in Sensor :
       Holders(CommandOf(w, s)) # {} => <<w, s>> \in tracker
  /\ \A s \in Sensor : rpc = "validateLC" /\ rsensor = s
       => <<"LossOfContact", s>> \in tracker /\ Holders(LC(s)) = {}

FlightInv == OneInFlight /\ CooldownInv

LEMMA CommandOfOneShot ==
  \A c \in OneShotCommand : \E w \in Trigger, s \in Sensor : c = CommandOf(w, s)
<1> SUFFICES ASSUME NEW c \in OneShotCommand
             PROVE  \E w \in Trigger, s \in Sensor : c = CommandOf(w, s)
  OBVIOUS
<1>1. c.type \in {"RR", "LC"} /\ c.sensor \in Sensor
      /\ c = [type |-> c.type, sensor |-> c.sensor]
  BY DEF OneShotCommand
<1>2. CASE c.type = "RR"
  <2>1. c = CommandOf("ReRequest", c.sensor)
    BY <1>1, <1>2 DEF CommandOf, RR
  <2> QED BY <1>1, <2>1 DEF Trigger
<1>3. CASE c.type = "LC"
  <2>1. c = CommandOf("LossOfContact", c.sensor)
    BY <1>1, <1>3 DEF CommandOf, LC
  <2> QED BY <1>1, <2>1 DEF Trigger
<1> QED BY <1>1, <1>2, <1>3

LEMMA CommandsDiffer ==
  ASSUME NEW r \in Sensor, NEW s \in Sensor
  PROVE  /\ RR(r) # LC(s)
         /\ RR(r) = RR(s) <=> r = s
         /\ LC(r) = LC(s) <=> r = s
         /\ RR(r) # NoCommand /\ LC(r) # NoCommand
BY DEF RR, LC, NoCommand

(* Steps that hand a command over, or let go of it.                        *)
LEMMA HandOver ==
  ASSUME FlightInv, UNCHANGED tracker,
         \A c \in OneShotCommand :
           /\ Holders(c) = {} => Holders(c)' = {}
           /\ \A p, q \in Holders(c)' : p = q,
         rpc' = "validateLC" => UNCHANGED receiver /\ rsensor \in Sensor
  PROVE  FlightInv'
<1>1. \A w \in Trigger, s \in Sensor : CommandOf(w, s) \in OneShotCommand
  BY CommandTypes DEF CommandOf
<1>2. OneInFlight'
  BY DEF OneInFlight
<1>3. ASSUME NEW w \in Trigger, NEW s \in Sensor, Holders(CommandOf(w, s))' # {}
      PROVE  <<w, s>> \in tracker'
  BY <1>1, <1>3 DEF FlightInv, CooldownInv
<1>4. ASSUME NEW s \in Sensor, rpc' = "validateLC", rsensor' = s
      PROVE  <<"LossOfContact", s>> \in tracker' /\ Holders(LC(s))' = {}
  BY <1>4, CommandTypes DEF FlightInv, CooldownInv, receiver
<1>5. CooldownInv'
  BY <1>3, <1>4 DEF CooldownInv
<1> QED BY <1>2, <1>5 DEF FlightInv

LEMMA FlightStep == ASSUME Typing, FlightInv, [Next]_vars PROVE FlightInv'
<1> USE CommandTypes, NoCommandDiffers DEF Typing
<1>u. CASE UNCHANGED vars
  BY <1>u DEF vars, FlightInv, OneInFlight, CooldownInv, Holders
<1> DEFINE Quiet == UNCHANGED <<mailbox, heap, job, tracker>>
(* Steps that touch no holder and no cooldown.                             *)
<1>q. ASSUME Quiet, rpc \notin {"putRR", "putLC", "validateLC"},
             rpc' \notin {"putRR", "putLC", "validateLC"}
      PROVE  FlightInv'
  BY <1>q DEF FlightInv, OneInFlight, CooldownInv, Holders
<1>s. ASSUME Quiet, UNCHANGED receiver PROVE FlightInv'
  BY <1>s DEF FlightInv, OneInFlight, CooldownInv, Holders, receiver
<1>1. ASSUME NEW s \in Sensor, NEW errors \in 0..MaxErrors,
             ValidatePacket(s, errors)
      PROVE  FlightInv'
  <2>1. rpc' \in {"ready", "rerequest", "lossOfContact"}
    BY <1>1 DEF ValidatePacket
  <2> QED BY <1>1, <2>1, <1>q DEF ValidatePacket, scheduler
<1>2. CASE TriggerReRequest
  <2>1. CASE <<"ReRequest", rsensor>> \in tracker
    BY <1>2, <2>1, <1>q DEF TriggerReRequest, InCooldown, Ready, scheduler
  <2>2. CASE <<"ReRequest", rsensor>> \notin tracker
    <3>1. /\ tracker' = tracker \cup {<<"ReRequest", rsensor>>}
          /\ rpc = "rerequest" /\ rpc' = "putRR"
          /\ UNCHANGED <<rsensor, mailbox, heap, job>> /\ rsensor \in Sensor
      BY <1>2, <2>2 DEF TriggerReRequest, InCooldown, scheduler, TasksInv
    <3> PICK r \in Sensor : r = rsensor
      BY <3>1
    <3>2. Holders(RR(r)) = {}
      BY <2>2, <3>1 DEF FlightInv, CooldownInv, CommandOf, Trigger
    <3>3. /\ Holders(RR(r))' = {"receiver"}
          /\ \A c \in OneShotCommand :
               c # RR(r) => Holders(c)' = Holders(c)
      BY <3>1, <3>2 DEF Holders
    <3>4. OneInFlight'
      BY <3>3 DEF FlightInv, OneInFlight
    <3>5. ASSUME NEW w \in Trigger, NEW s \in Sensor,
                 Holders(CommandOf(w, s))' # {}
          PROVE  <<w, s>> \in tracker'
      <4>1. CASE w = "ReRequest" /\ s = r
        BY <4>1, <3>1
      <4>2. CASE ~(w = "ReRequest" /\ s = r)
        <5>1. CommandOf(w, s) # RR(r) /\ CommandOf(w, s) \in OneShotCommand
          BY <4>2, <3>1, CommandsDiffer DEF CommandOf, Trigger
        <5> QED BY <5>1, <3>1, <3>3, <3>5 DEF FlightInv, CooldownInv
      <4> QED BY <4>1, <4>2
    <3>6. CooldownInv'
      BY <3>1, <3>5 DEF CooldownInv
    <3> QED BY <3>4, <3>6 DEF FlightInv
  <2> QED BY <2>1, <2>2
<1>3. CASE TriggerLossOfContact
  <2>1. CASE <<"LossOfContact", rsensor>> \in tracker
    BY <1>3, <2>1, <1>q DEF TriggerLossOfContact, InCooldown, Ready, scheduler
  <2>2. CASE <<"LossOfContact", rsensor>> \notin tracker
    <3>1. /\ tracker' = tracker \cup {<<"LossOfContact", rsensor>>}
          /\ rpc = "lossOfContact" /\ rpc' = "validateLC"
          /\ UNCHANGED <<rsensor, mailbox, heap, job>> /\ rsensor \in Sensor
      BY <1>3, <2>2 DEF TriggerLossOfContact, InCooldown, scheduler, TasksInv
    <3> PICK r \in Sensor : r = rsensor
      BY <3>1
    <3>2. Holders(LC(r)) = {}
      BY <2>2, <3>1 DEF FlightInv, CooldownInv, CommandOf, Trigger
    <3>3. \A c \in OneShotCommand : Holders(c)' = Holders(c)
      BY <3>1 DEF Holders
    <3>4. \A w \in Trigger, s \in Sensor : CommandOf(w, s) \in OneShotCommand
      BY DEF CommandOf
    <3> QED BY <3>1, <3>2, <3>3, <3>4 DEF FlightInv, OneInFlight, CooldownInv
  <2> QED BY <2>1, <2>2
<1>4. CASE ValidateLossOfContact
  <2>1. CASE ValidLC(rsensor)
    <3>1. /\ rpc = "validateLC" /\ rpc' = "putLC"
          /\ UNCHANGED <<rsensor, mailbox, heap, job, tracker>>
          /\ rsensor \in Sensor
      BY <1>4, <2>1 DEF ValidateLossOfContact, scheduler, TasksInv
    <3> PICK r \in Sensor : r = rsensor
      BY <3>1
    <3>2. Holders(LC(r)) = {} /\ <<"LossOfContact", r>> \in tracker
      BY <3>1 DEF FlightInv, CooldownInv
    <3>3. /\ Holders(LC(r))' = {"receiver"}
          /\ \A c \in OneShotCommand :
               c # LC(r) => Holders(c)' = Holders(c)
      BY <3>1, <3>2 DEF Holders
    <3>4. OneInFlight'
      BY <3>3 DEF FlightInv, OneInFlight
    <3>5. ASSUME NEW w \in Trigger, NEW s \in Sensor,
                 Holders(CommandOf(w, s))' # {}
          PROVE  <<w, s>> \in tracker'
      <4>1. CASE w = "LossOfContact" /\ s = r
        BY <4>1, <3>1, <3>2
      <4>2. CASE ~(w = "LossOfContact" /\ s = r)
        <5>1. CommandOf(w, s) # LC(r) /\ CommandOf(w, s) \in OneShotCommand
          BY <4>2, <3>1, CommandsDiffer DEF CommandOf, Trigger
        <5> QED BY <5>1, <3>1, <3>3, <3>5 DEF FlightInv, CooldownInv
      <4> QED BY <4>1, <4>2
    <3>6. CooldownInv'
      BY <3>1, <3>5 DEF CooldownInv
    <3> QED BY <3>4, <3>6 DEF FlightInv
  <2>2. CASE ~ValidLC(rsensor)
    <3>1. Quiet /\ rpc = "validateLC" /\ rpc' = "ready"
      BY <1>4, <2>2 DEF ValidateLossOfContact, Ready, scheduler
    <3> QED BY <3>1 DEF FlightInv, OneInFlight, CooldownInv, Holders
  <2> QED BY <2>1, <2>2
<1>5. CASE Put
  <2> PICK c0 \in OneShotCommand :
             c0 = IF rpc = "putRR" THEN RR(rsensor) ELSE LC(rsensor)
    BY <1>5 DEF Put, TasksInv
  <2>1. /\ mailbox = NoCommand /\ mailbox' = c0 /\ rpc' = "ready"
        /\ UNCHANGED <<heap, job, tracker>> /\ rpc \in {"putRR", "putLC"}
        /\ rsensor \in Sensor
    BY <1>5 DEF Put, Ready, scheduler, TasksInv
  <2>2. "receiver" \in Holders(c0)
    BY <2>1 DEF Holders
  <2>3. Holders(c0) = {"receiver"}
    BY <2>2 DEF FlightInv, OneInFlight
  <2>4. Holders(c0)' = {"mailbox"}
    BY <2>1, <2>3 DEF Holders
  <2>5. \A c \in OneShotCommand : c # c0 => Holders(c)' = Holders(c)
    BY <2>1 DEF Holders
  <2> QED BY <2>1, <2>2, <2>3, <2>4, <2>5, HandOver DEF FlightInv, OneInFlight
<1>6. ASSUME NEW s \in Sensor,
             \/ \E w \in DataFault : DetectFault(w, s) \/ DetectRecovery(w, s)
             \/ \E w \in Trigger : DetectResponse(w, s)
      PROVE  FlightInv'
  BY <1>6, <1>s DEF DetectFault, DetectRecovery, DetectResponse, scheduler
<1>7. CASE CheckMailbox
  <2>1. /\ heap' = heap \cup ({mailbox} \ {NoCommand}) /\ mailbox' = NoCommand
        /\ UNCHANGED <<job, tracker, receiver>>
    BY <1>7 DEF CheckMailbox, TakeMailbox
  <2>2. ASSUME NEW c \in OneShotCommand
        PROVE  /\ Holders(c) = {} => Holders(c)' = {}
               /\ \A p, q \in Holders(c)' : p = q
    <3>1. CASE mailbox = c
      <4>1. Holders(c) = {"mailbox"}
        BY <3>1 DEF FlightInv, OneInFlight, Holders
      <4>2. Holders(c)' = {"heap"}
        BY <2>1, <3>1, <4>1 DEF Holders, receiver
      <4> QED BY <4>1, <4>2
    <3>2. CASE mailbox # c
      <4>1. Holders(c)' = Holders(c)
        BY <2>1, <3>2 DEF Holders, receiver
      <4> QED BY <4>1 DEF FlightInv, OneInFlight
    <3> QED BY <3>1, <3>2
  <2> QED BY <2>1, <2>2, HandOver DEF receiver, TasksInv
<1>8. ASSUME NEW d \in Command, Release(d) PROVE FlightInv'
  <2>1. /\ d \in heap /\ heap' = heap \ {d} /\ job = NoCommand /\ job' = d
        /\ UNCHANGED <<mailbox, tracker, receiver>>
    BY <1>8 DEF Release, TasksInv
  <2>2. ASSUME NEW c \in OneShotCommand
        PROVE  /\ Holders(c) = {} => Holders(c)' = {}
               /\ \A p, q \in Holders(c)' : p = q
    <3>1. CASE c = d
      <4>1. Holders(c) = {"heap"}
        BY <2>1, <3>1 DEF FlightInv, OneInFlight, Holders
      <4>2. Holders(c)' = {"job"}
        BY <2>1, <3>1, <4>1 DEF Holders, receiver
      <4> QED BY <4>1, <4>2
    <3>2. CASE c # d
      <4>1. Holders(c)' = Holders(c)
        BY <2>1, <3>2 DEF Holders, receiver
      <4> QED BY <4>1 DEF FlightInv, OneInFlight
    <3> QED BY <3>1, <3>2
  <2> QED BY <2>1, <2>2, HandOver DEF receiver, TasksInv
<1>9. CASE Wake
  BY <1>9, <1>s DEF Wake, EndIteration, TasksInv
<1>10. CASE Sleep \/ SendCommand
  BY <1>10, <1>s DEF Sleep, SendCommand
<1>11. CASE ValidateCommand \/ CompleteCommand
  <2>1. /\ job' = job \/ job' = NoCommand
        /\ UNCHANGED <<mailbox, tracker, receiver>>
        /\ \A c \in OneShotCommand : c \in heap' <=> c \in heap
    BY <1>11 DEF ValidateCommand, CompleteCommand, Requeued, EndIteration
  <2>2. \A c \in OneShotCommand : Holders(c)' \subseteq Holders(c)
    BY <2>1 DEF Holders, receiver
  <2>3. \A c \in OneShotCommand :
           /\ Holders(c) = {} => Holders(c)' = {}
           /\ \A p, q \in Holders(c)' : p = q
    BY <2>2 DEF FlightInv, OneInFlight
  <2> QED BY <2>1, <2>3, HandOver DEF receiver, TasksInv
<1>12. ASSUME NEW w \in Trigger, NEW s \in Sensor, CooldownExpires(w, s)
       PROVE  FlightInv'
  <2>1. /\ tracker' = tracker \ {<<w, s>>} /\ ~OnItsWay(w, s)
        /\ UNCHANGED <<mailbox, heap, job, receiver>>
    BY <1>12 DEF CooldownExpires, scheduler
  <2>2. \A c \in OneShotCommand : Holders(c)' = Holders(c)
    BY <2>1 DEF Holders, receiver
  <2>3. rpc # "ready" => rsensor # s
    BY <2>1 DEF OnItsWay
  <2>4. Holders(CommandOf(w, s)) = {}
    <3>1. CommandOf(w, s) \notin heap /\ mailbox # CommandOf(w, s)
          /\ job # CommandOf(w, s)
      BY <2>1 DEF OnItsWay, CommandOf
    <3>2. rpc = "putRR" => CommandOf(w, s) # RR(rsensor)
      BY <2>3, CommandsDiffer DEF CommandOf, TasksInv
    <3>3. rpc = "putLC" => CommandOf(w, s) # LC(rsensor)
      BY <2>3, CommandsDiffer DEF CommandOf, TasksInv
    <3> QED BY <3>1, <3>2, <3>3 DEF Holders
  <2>5. OneInFlight'
    BY <2>2 DEF FlightInv, OneInFlight
  <2>6. ASSUME NEW x \in Trigger, NEW r \in Sensor,
               Holders(CommandOf(x, r))' # {}
        PROVE  <<x, r>> \in tracker'
    <3>1. CommandOf(x, r) \in OneShotCommand
      BY DEF CommandOf
    <3>2. Holders(CommandOf(x, r)) # {}
      BY <2>2, <2>6, <3>1
    <3>3. <<x, r>> \in tracker
      BY <3>2 DEF FlightInv, CooldownInv
    <3>4. <<x, r>> # <<w, s>>
      BY <2>4, <3>2
    <3> QED BY <2>1, <3>3, <3>4
  <2>7. ASSUME NEW r \in Sensor, rpc' = "validateLC", rsensor' = r
        PROVE  <<"LossOfContact", r>> \in tracker' /\ Holders(LC(r))' = {}
    BY <2>1, <2>2, <2>3, <2>7 DEF FlightInv, CooldownInv, receiver, TasksInv
  <2>8. CooldownInv'
    BY <2>6, <2>7 DEF CooldownInv
  <2> QED BY <2>5, <2>8 DEF FlightInv
<1> QED
  BY <1>u, <1>1, <1>2, <1>3, <1>4, <1>5, <1>6, <1>7, <1>8, <1>9, <1>10, <1>11,
     <1>12
  DEF Next, Receiver, Scheduler, Triggers

(* The cooldown keeps every one-shot command single: it is never at once   *)
(* in two of the receiver's hands, the mailbox, the heap and the           *)
(* scheduler's hands.                                                      *)
THEOREM OneShotSingle == Spec => []OneInFlight
<1>1. Init => FlightInv
  <2> SUFFICES ASSUME Init PROVE FlightInv
    OBVIOUS
  <2>1. \A c \in OneShotCommand : Holders(c) = {}
    BY CommandTypes, NoCommandDiffers DEF Init, Holders
  <2>2. \A w \in Trigger, s \in Sensor : CommandOf(w, s) \in OneShotCommand
    BY CommandTypes DEF CommandOf
  <2>3. rpc # "validateLC"
    BY DEF Init
  <2> QED BY <2>1, <2>2, <2>3 DEF FlightInv, OneInFlight, CooldownInv
<1>2. Typing /\ FlightInv /\ [Next]_vars => FlightInv'
  BY FlightStep
<1>3. FlightInv => OneInFlight
  BY DEF FlightInv
<1> QED BY <1>1, <1>2, <1>3, TypingCorrect, PTL DEF Spec
=============================================================================
