-------------------------- MODULE CommandLinkProofs --------------------------
(***************************************************************************)
(* Theorems about CommandLink, for any sensors, capacities and bounds: its *)
(* types, that a session executes only what was uplinked in it, and that   *)
(* nothing is executed twice.                                              *)
(***************************************************************************)
EXTENDS CommandLink, SequenceTheorems, TLAPS

----------------------------------------------------------------------------
(* Queues.                                                                 *)
LEMMA FifoPushType ==
  ASSUME NEW S, NEW q \in Seq(S), NEW e \in S, NEW n \in Nat \ {0}, Len(q) <= n
  PROVE  FifoPush(q, e, n) \in Seq(S) /\ Len(FifoPush(q, e, n)) <= n
BY DEF FifoPush

LEMMA DroppedType ==
  ASSUME NEW q \in Seq(Command \cup {OtherCommand}), NEW n \in Nat \ {0}
  PROVE  Thrown(q, n) \subseteq Fault
<1>1. FifoDropped(q, n) \subseteq Command \cup {OtherCommand}
  BY DEF FifoDropped
<1> QED BY <1>1 DEF Thrown, Command

LEMMA QueueType ==
  ASSUME NEW S, NEW q \in Seq(S), q # <<>>
  PROVE  /\ Head(q) \in S /\ Tail(q) \in Seq(S)
         /\ Len(Tail(q)) = Len(q) - 1 /\ Len(q) \in Nat
BY HeadTailProperties

(* What remains of a queue from which one element is taken.                *)
LEMMA RemoveType ==
  ASSUME NEW S, NEW q \in Seq(S), NEW i \in 1..Len(q)
  PROVE  SubSeq(q, 1, i - 1) \o SubSeq(q, i + 1, Len(q)) \in Seq(S)
<1>1. /\ \A j \in 1..i - 1 : q[j] \in S
      /\ \A j \in i + 1..Len(q) : q[j] \in S
  OBVIOUS
<1>2. SubSeq(q, 1, i - 1) \in Seq(S) /\ SubSeq(q, i + 1, Len(q)) \in Seq(S)
  BY <1>1, SubSeqProperties
<1> QED BY <1>2, ConcatProperties

LEMMA UpdateType ==
  ASSUME NEW X, NEW Y, NEW f \in [X -> Y], NEW x \in X, NEW y \in Y
  PROVE  [f EXCEPT ![x] = y] \in [X -> Y]
OBVIOUS

----------------------------------------------------------------------------
(* Types.                                                                  *)
LEMMA TypeInit == Init => TypeOK
<1> SUFFICES ASSUME Init PROVE TypeOK
  OBVIOUS
<1>1. logged \in 0..MaxFaults
  BY BoundAssumption DEF Init
<1>2. /\ satellite_fault \in [Situation \X Sensor -> Seq(Fault)]
      /\ fault_resolve \in [Sensor -> SUBSET Resolve]
      /\ sentIn \in [Fault -> Nat]
  BY DEF Init
<1>3. /\ uplink \in Seq(Command) /\ unacked \in Seq(Command)
      /\ command_buffer \in Seq(Command \cup {OtherCommand})
      /\ scheduler_command \in Seq(Command \cup {OtherCommand})
      /\ telemetry \in Seq(Answer)
      /\ Len(command_buffer) <= BufferCapacity
      /\ Len(scheduler_command) <= CommandCapacity
  BY CapacityAssumption DEF Init
<1>4. /\ tracker \subseteq Situation \X Sensor
      /\ scheduled \subseteq Command /\ task_queue \subseteq Command
      /\ executed \subseteq Fault /\ evicted \subseteq Fault
      /\ session = "off" /\ sessions \in Nat
  BY DEF Init
<1> QED BY <1>1, <1>2, <1>3, <1>4 DEF TypeOK

LEMMA TypeStep == TypeOK /\ [Next]_vars => TypeOK'
<1> SUFFICES ASSUME TypeOK, [Next]_vars PROVE TypeOK'
  OBVIOUS
<1> USE DEF TypeOK, faultLog, buffers
<1>1. CASE UNCHANGED vars
  BY <1>1 DEF vars
<1>2. ASSUME NEW w \in Situation, NEW s \in Sensor, Trigger(w, s)
      PROVE  TypeOK'
  <2>1. logged + 1 \in Fault /\ logged' \in 0..MaxFaults
    BY <1>2, BoundAssumption DEF Trigger, Fault
  <2>2. Append(satellite_fault[<<w, s>>], logged + 1) \in Seq(Fault)
    BY <2>1
  <2>3. satellite_fault' \in [Situation \X Sensor -> Seq(Fault)]
    BY <1>2, <2>2 DEF Trigger
  <2>4. scheduled' \subseteq Command
    BY <1>2, <2>1 DEF Trigger, Command
  <2> QED BY <1>2, <2>1, <2>3, <2>4 DEF Trigger
<1>3. ASSUME NEW w \in Situation, NEW s \in Sensor, CooldownExpires(w, s)
      PROVE  TypeOK'
  BY <1>3 DEF CooldownExpires
<1>4. ASSUME NEW c \in scheduled, SendCommand(c) PROVE TypeOK'
  <2>1. c \in Command /\ c.fault \in Fault
    BY DEF Command
  <2>2. uplink' \in Seq(Command)
    BY <1>4, <2>1 DEF SendCommand
  <2>3. sentIn' \in [Fault -> Nat]
    BY <1>4, <2>1 DEF SendCommand
  <2> QED BY <1>4, <2>2, <2>3 DEF SendCommand
<1>5. ASSUME NEW c \in scheduled, RejectOrLose(c) PROVE TypeOK'
  BY <1>5 DEF RejectOrLose
<1>6. CASE DetectResponse
  <2> DEFINE a == Head(telemetry)
             s == a.command.sensor
             open == satellite_fault[<<"ReRequest", s>>]
  <2>1. telemetry' \in Seq(Answer) /\ a \in Answer
    BY <1>6, QueueType DEF DetectResponse
  <2>2. s \in Sensor /\ a.command.situation \in Situation /\ a.stamp \in Nat
    BY <2>1 DEF Answer, Command
  <2>3. open \in Seq(Fault)
    BY <2>2 DEF Situation
  <2>4. CASE open = <<>>
    BY <1>6, <2>1, <2>4 DEF DetectResponse
  <2>5. CASE open # <<>>
    <3>1. 1 \in 1..Len(open)
      BY <2>3, <2>5, QueueType
    <3>2. SubSeq(open, 1, 1 - 1) \o SubSeq(open, 1 + 1, Len(open)) \in Seq(Fault)
      BY <2>3, <3>1, RemoveType
    <3> DEFINE r == [fault |-> open[1], answer |-> a.command.situation,
                     stamp |-> a.stamp]
               rest == SubSeq(open, 1, 1 - 1) \o SubSeq(open, 1 + 1, Len(open))
    <3>3. /\ fault_resolve' = [fault_resolve EXCEPT ![s] = @ \cup {r}]
          /\ satellite_fault' = [satellite_fault EXCEPT ![<<"ReRequest", s>>] = rest]
      BY <1>6, <2>5, Zenon DEF DetectResponse, First
    <3>4. r \in Resolve /\ rest \in Seq(Fault)
      <4>1. open[1] \in Fault
        BY <2>3, <3>1, ElementOfSeq
      <4>2. r \in Resolve
        BY <2>2, <4>1 DEF Resolve
      <4> QED BY <3>2, <4>2
    <3> HIDE DEF r, rest, a, s, open
    <3>5. satellite_fault' \in [Situation \X Sensor -> Seq(Fault)]
      <4>1. <<"ReRequest", s>> \in Situation \X Sensor
        BY <2>2 DEF Situation
      <4> QED BY <3>3, <3>4, <4>1, UpdateType
    <3>6. fault_resolve' \in [Sensor -> SUBSET Resolve]
      <4>1. fault_resolve[s] \cup {r} \in SUBSET Resolve
        BY <2>2, <3>4
      <4>2. fault_resolve' = [fault_resolve EXCEPT ![s] = fault_resolve[s] \cup {r}]
        BY <3>3
      <4> QED BY <2>2, <4>1, <4>2, UpdateType
    <3> QED BY <1>6, <2>1, <3>5, <3>6 DEF DetectResponse
  <2> QED BY <2>4, <2>5
<1>7. CASE StartSatellite
  BY <1>7 DEF StartSatellite
<1>8. CASE PurgeQueue
  BY <1>8 DEF PurgeQueue, Purged
<1>9. CASE Subscribe
  BY <1>9 DEF Subscribe
<1>10. CASE StopSatellite
  <2>1. uplink' \in Seq(Command) /\ unacked' \in Seq(Command)
    BY <1>10, ConcatProperties DEF StopSatellite
  <2>2. PICK n \in 0..Len(telemetry) : telemetry' = SubSeq(telemetry, 1, n)
    BY <1>10 DEF StopSatellite
  <2>3. \A i \in 1..n : telemetry[i] \in Answer
    BY <2>2
  <2>4. telemetry' \in Seq(Answer)
    BY <2>2, <2>3, SubSeqProperties
  <2>5. /\ command_buffer' \in Seq(Command \cup {OtherCommand})
        /\ Len(command_buffer') <= BufferCapacity
        /\ scheduler_command' \in Seq(Command \cup {OtherCommand})
        /\ Len(scheduler_command') <= CommandCapacity
        /\ task_queue' \subseteq Command
    BY <1>10, CapacityAssumption DEF StopSatellite
  <2> QED BY <1>10, <2>1, <2>4, <2>5 DEF StopSatellite
<1>11. CASE ReceiveCommand
  <2>1. Head(uplink) \in Command /\ uplink' \in Seq(Command)
    BY <1>11, QueueType DEF ReceiveCommand
  <2>2. unacked' \in Seq(Command)
    BY <1>11, <2>1 DEF ReceiveCommand
  <2>3. /\ command_buffer' \in Seq(Command \cup {OtherCommand})
        /\ Len(command_buffer') <= BufferCapacity
    BY <1>11, <2>1, FifoPushType, CapacityAssumption DEF ReceiveCommand
  <2>4. evicted' \subseteq Fault
    BY <1>11, DroppedType, CapacityAssumption DEF ReceiveCommand
  <2> QED BY <1>11, <2>1, <2>2, <2>3, <2>4 DEF ReceiveCommand
<1>12. CASE ProcessCommand
  <2>1. /\ Head(command_buffer) \in Command \cup {OtherCommand}
        /\ Tail(command_buffer) \in Seq(Command \cup {OtherCommand})
        /\ Len(Tail(command_buffer)) = Len(command_buffer) - 1
        /\ Len(command_buffer) \in Nat
    BY <1>12, QueueType DEF ProcessCommand
  <2>2. /\ command_buffer' \in Seq(Command \cup {OtherCommand})
        /\ Len(command_buffer') <= BufferCapacity
    BY <1>12, <2>1, CapacityAssumption DEF ProcessCommand, Rest
  <2>3. /\ scheduler_command' \in Seq(Command \cup {OtherCommand})
        /\ Len(scheduler_command') <= CommandCapacity
    BY <1>12, <2>1, FifoPushType, CapacityAssumption DEF ProcessCommand
  <2>4. evicted' \subseteq Fault
    BY <1>12, DroppedType, CapacityAssumption DEF ProcessCommand
  <2> QED BY <1>12, <2>2, <2>3, <2>4 DEF ProcessCommand
<1>13. CASE PushOther
  <2>1. /\ scheduler_command' \in Seq(Command \cup {OtherCommand})
        /\ Len(scheduler_command') <= CommandCapacity
    BY <1>13, FifoPushType, CapacityAssumption DEF PushOther
  <2>2. evicted' \subseteq Fault
    BY <1>13, DroppedType, CapacityAssumption DEF PushOther
  <2> QED BY <1>13, <2>1, <2>2 DEF PushOther
<1>14. CASE CheckPreemption
  <2>1. /\ Head(scheduler_command) \in Command \cup {OtherCommand}
        /\ scheduler_command' \in Seq(Command \cup {OtherCommand})
        /\ Len(scheduler_command') = Len(scheduler_command) - 1
        /\ Len(scheduler_command) \in Nat
    BY <1>14, QueueType DEF CheckPreemption
  <2>2. task_queue' \subseteq Command
    BY <1>14, <2>1 DEF CheckPreemption
  <2>3. Len(scheduler_command') <= CommandCapacity
    <3>1. \A n, m \in Nat : n <= m => n - 1 <= m
      OBVIOUS
    <3>2. Len(scheduler_command) <= CommandCapacity /\ CommandCapacity \in Nat
      BY CapacityAssumption
    <3> QED BY <2>1, <3>1, <3>2
  <2>4. scheduler_command' \in Seq(Command \cup {OtherCommand})
    BY <2>1
  <2> QED BY <1>14, <2>2, <2>3, <2>4 DEF CheckPreemption
<1>15. ASSUME NEW c \in task_queue, Execute(c) PROVE TypeOK'
  <2>1. c \in Command /\ c.fault \in Fault
    BY DEF Command
  <2> DEFINE a == [command |-> c, stamp |-> logged]
  <2>2. a \in Answer
    BY <2>1 DEF Answer
  <2>3. telemetry' \in {telemetry, Append(telemetry, a)}
    BY <1>15 DEF Execute
  <2> HIDE DEF a
  <2>4. telemetry \in Seq(Answer) /\ Append(telemetry, a) \in Seq(Answer)
    BY <2>2
  <2>5. telemetry' \in Seq(Answer)
    BY <2>3, <2>4
  <2> QED BY <1>15, <2>1, <2>5 DEF Execute
<1>16. CASE LoseAnswer
  <2>1. telemetry' \in Seq(Answer)
    BY <1>16, RemoveType DEF LoseAnswer
  <2> QED BY <1>16, <2>1 DEF LoseAnswer
<1>17. CASE ReceiveOther
  <2>1. /\ command_buffer' \in Seq(Command \cup {OtherCommand})
        /\ Len(command_buffer') <= BufferCapacity
    BY <1>17, FifoPushType, CapacityAssumption DEF ReceiveOther
  <2>2. evicted' \subseteq Fault
    BY <1>17, DroppedType, CapacityAssumption DEF ReceiveOther
  <2> QED BY <1>17, <2>1, <2>2 DEF ReceiveOther
<1> QED
  BY <1>1, <1>2, <1>3, <1>4, <1>5, <1>6, <1>7, <1>8, <1>9, <1>10, <1>11,
     <1>12, <1>13, <1>14, <1>15, <1>16, <1>17
     DEF Next, Ground, Session, Satellite

(* All variables keep their types and the queues their bounds.             *)
THEOREM CommandLinkTypeCorrect == Spec => []TypeOK
<1> QED BY TypeInit, TypeStep, PTL DEF Spec

----------------------------------------------------------------------------
(* The inductive invariant behind both theorems: what is held in a session *)
(* was uplinked in it, and a fault's command is in one place only.  Only   *)
(* the broker's queue of an earlier session is exempt, which is purged     *)
(* before anybody reads it.                                                *)
Current == IF session \in {"purged", "consuming"} THEN uplink ELSE <<>>

Faults(q) == {q[i].fault : i \in 1..Len(q)} \ {0}
FaultsOf(S) == {c.fault : c \in S}

Distinct(q) ==
  \A i, j \in 1..Len(q) : q[i].fault = q[j].fault /\ q[i].fault # 0 => i = j
DistinctSet(S) == \A c, d \in S : c.fault = d.fault => c = d

InSession == Faults(Current) \cup Faults(command_buffer)
           \cup Faults(scheduler_command) \cup FaultsOf(task_queue)

EmptyInv ==
  session # "consuming" =>
    /\ Faults(command_buffer) = {} /\ Faults(scheduler_command) = {}
    /\ FaultsOf(task_queue) = {}

FreshInv == \A f \in InSession : f \in Fault /\ sentIn[f] = sessions

KnownInv == FaultsOf(scheduled) \cup InSession \cup executed \subseteq 1..logged

ApartInv ==
  /\ FaultsOf(scheduled) \cap (InSession \cup executed) = {}
  /\ executed \cap InSession = {}
  /\ Faults(Current) \cap Faults(command_buffer) = {}
  /\ Faults(Current) \cap Faults(scheduler_command) = {}
  /\ Faults(Current) \cap FaultsOf(task_queue) = {}
  /\ Faults(command_buffer) \cap Faults(scheduler_command) = {}
  /\ Faults(command_buffer) \cap FaultsOf(task_queue) = {}
  /\ Faults(scheduler_command) \cap FaultsOf(task_queue) = {}

DistinctInv ==
  /\ Distinct(Current) /\ Distinct(command_buffer) /\ Distinct(scheduler_command)
  /\ DistinctSet(scheduled) /\ DistinctSet(task_queue)

LinkInv == EmptyInv /\ FreshInv /\ KnownInv /\ ApartInv /\ DistinctInv

Element == Command \cup {OtherCommand}

LEMMA NumberOf ==
  /\ \A c \in Command : c \in Element /\ c.fault \in Fault /\ c.fault # 0
  /\ OtherCommand.fault = 0 /\ OtherCommand \notin Command
  /\ \A c \in Element : c.fault = 0 => c = OtherCommand
<1>1. \A c \in Command : c.fault \in Fault /\ c.fault # 0
  BY BoundAssumption DEF Command, Fault
<1>2. OtherCommand.fault = 0
  BY DEF OtherCommand
<1> QED BY <1>1, <1>2 DEF Element

LEMMA EmptyFaults == Faults(<<>>) = {} /\ Distinct(<<>>)
BY DEF Faults, Distinct

LEMMA AppendFaults ==
  ASSUME NEW q \in Seq(Element), NEW e \in Element
  PROVE  /\ Faults(Append(q, e)) = Faults(q) \cup ({e.fault} \ {0})
         /\ Distinct(q) /\ e.fault \notin Faults(q) => Distinct(Append(q, e))
<1> DEFINE r == Append(q, e)
<1>1. /\ Len(r) = Len(q) + 1 /\ Len(q) \in Nat
      /\ \A i \in 1..Len(q) : r[i] = q[i]
      /\ r[Len(q) + 1] = e
  OBVIOUS
<1> HIDE DEF r
<1>2. Faults(r) = Faults(q) \cup ({e.fault} \ {0})
  BY <1>1 DEF Faults
<1>3. ASSUME Distinct(q), e.fault \notin Faults(q) PROVE Distinct(r)
  <2> SUFFICES ASSUME NEW i \in 1..Len(r), NEW j \in 1..Len(r),
                      r[i].fault = r[j].fault, r[i].fault # 0
               PROVE  i = j
    BY DEF Distinct
  <2>1. CASE i \in 1..Len(q) /\ j \in 1..Len(q)
    BY <1>1, <1>3, <2>1 DEF Distinct
  <2>2. \A k \in 1..Len(q) : q[k].fault # 0 => q[k].fault # e.fault
    BY <1>3 DEF Faults
  <2> QED BY <1>1, <2>1, <2>2
<1> QED BY <1>2, <1>3 DEF r

LEMMA TailFaults ==
  ASSUME NEW q \in Seq(Element), q # <<>>
  PROVE  /\ Head(q) \in Element /\ Tail(q) \in Seq(Element)
         /\ Faults(Tail(q)) \subseteq Faults(q)
         /\ Head(q).fault # 0 => Head(q).fault \in Faults(q)
         /\ Distinct(q) => /\ Distinct(Tail(q))
                            /\ Head(q).fault \notin Faults(Tail(q))
<1> DEFINE r == Tail(q)
<1>1. /\ Len(r) = Len(q) - 1 /\ Len(q) \in Nat \ {0}
      /\ \A i \in 1..Len(r) : r[i] = q[i + 1]
      /\ Head(q) \in Element /\ r \in Seq(Element)
  BY HeadTailProperties
<1>2. Head(q) = q[1] /\ 1 \in 1..Len(q)
  BY <1>1
<1> HIDE DEF r
<1>3. \A i \in 1..Len(r) : i + 1 \in 1..Len(q) /\ i + 1 # 1
  BY <1>1
<1>4. Faults(r) \subseteq Faults(q)
  BY <1>1, <1>3 DEF Faults
<1>5. q[1].fault # 0 => q[1].fault \in Faults(q)
  BY <1>2 DEF Faults
<1>6. ASSUME Distinct(q) PROVE Distinct(r) /\ q[1].fault \notin Faults(r)
  <2>1. \A i, j \in 1..Len(q) :
          q[i].fault = q[j].fault /\ q[i].fault # 0 => i = j
    BY <1>6 DEF Distinct
  <2>2. Distinct(r)
    <3> SUFFICES ASSUME NEW i \in 1..Len(r), NEW j \in 1..Len(r),
                        r[i].fault = r[j].fault, r[i].fault # 0
                 PROVE  i = j
      BY DEF Distinct
    <3>1. i + 1 = j + 1
      BY <1>1, <1>3, <2>1
    <3> QED BY <3>1
  <2>3. \A i \in 1..Len(r) : q[1].fault = r[i].fault => r[i].fault = 0
    BY <1>1, <1>2, <1>3, <2>1
  <2>4. q[1].fault \notin Faults(r)
    BY <2>3 DEF Faults
  <2> QED BY <2>2, <2>4
<1> QED BY <1>1, <1>2, <1>4, <1>5, <1>6 DEF r

LEMMA PushFaults ==
  ASSUME NEW q \in Seq(Element), NEW e \in Element, NEW n \in Nat \ {0}
  PROVE  /\ Faults(FifoPush(q, e, n)) \subseteq Faults(q) \cup ({e.fault} \ {0})
         /\ Distinct(q) /\ e.fault \notin Faults(q) => Distinct(FifoPush(q, e, n))
<1>1. CASE Len(q) >= n
  <2>1. q # <<>>
    <3>1. Len(<<>>) = 0 /\ ~(0 >= n)
      OBVIOUS
    <3> QED BY <1>1, <3>1
  <2> DEFINE r == Tail(q)
  <2>2. FifoPush(q, e, n) = Append(r, e)
    BY <1>1 DEF FifoPush
  <2>3. /\ r \in Seq(Element) /\ Faults(r) \subseteq Faults(q)
        /\ Distinct(q) => Distinct(r)
    BY <2>1, TailFaults
  <2> HIDE DEF r
  <2> QED BY <2>2, <2>3, AppendFaults
<1>2. CASE ~(Len(q) >= n)
  BY <1>2, AppendFaults DEF FifoPush
<1> QED BY <1>1, <1>2

LEMMA SetFaults ==
  ASSUME NEW S, NEW c
  PROVE  /\ FaultsOf(S \cup {c}) = FaultsOf(S) \cup {c.fault}
         /\ FaultsOf(S \ {c}) \subseteq FaultsOf(S)
         /\ c \in S => c.fault \in FaultsOf(S)
         /\ DistinctSet(S) => DistinctSet(S \ {c})
         /\ DistinctSet(S) /\ c \in S => c.fault \notin FaultsOf(S \ {c})
         /\ DistinctSet(S) /\ c.fault \notin FaultsOf(S) => DistinctSet(S \cup {c})
BY DEF FaultsOf, DistinctSet

LEMMA QueuesOfElements ==
  ASSUME TypeOK
  PROVE  /\ uplink \in Seq(Element) /\ command_buffer \in Seq(Element)
         /\ scheduler_command \in Seq(Element)
         /\ \A c \in scheduled \cup task_queue : c \in Command
BY SeqMonotonic DEF TypeOK, Element

LEMMA LinkInit == Init => LinkInv
<1> SUFFICES ASSUME Init PROVE LinkInv
  OBVIOUS
<1>1. Current = <<>>
  BY DEF Init, Current
<1>2. /\ Faults(Current) = {} /\ Faults(command_buffer) = {}
      /\ Faults(scheduler_command) = {} /\ FaultsOf(task_queue) = {}
      /\ FaultsOf(scheduled) = {} /\ executed = {} /\ InSession = {}
  BY <1>1, EmptyFaults DEF Init, FaultsOf, InSession
<1>3. DistinctInv
  BY <1>1, EmptyFaults DEF Init, DistinctInv, DistinctSet
<1> QED
  BY <1>2, <1>3 DEF LinkInv, EmptyInv, FreshInv, KnownInv, ApartInv

(* A step that leaves every fault where it is, and the session's commands  *)
(* uplinked in it.                                                         *)
LEMMA LinkStutter ==
  ASSUME LinkInv,
         UNCHANGED <<logged, scheduled, command_buffer, scheduler_command,
                     task_queue, sentIn, sessions, executed>>,
         Current' = Current,
         session' # "consuming" => session # "consuming"
  PROVE  LinkInv'
<1>1. InSession' = InSession
  BY DEF InSession
<1> QED
  BY <1>1 DEF LinkInv, EmptyInv, FreshInv, KnownInv, ApartInv, DistinctInv

LEMMA LinkStep == TypeOK /\ LinkInv /\ [Next]_vars => LinkInv'
<1> SUFFICES ASSUME TypeOK, LinkInv, [Next]_vars PROVE LinkInv'
  OBVIOUS
<1>a. /\ uplink \in Seq(Element) /\ command_buffer \in Seq(Element)
      /\ scheduler_command \in Seq(Element)
      /\ \A c \in scheduled \cup task_queue : c \in Command
      /\ Current \in {uplink, <<>>}
  BY QueuesOfElements DEF Current
<1>1. CASE UNCHANGED vars
  BY <1>1, LinkStutter DEF vars, Current
<1>2. ASSUME NEW w \in Situation, NEW s \in Sensor, Trigger(w, s)
      PROVE  LinkInv'
  <2> DEFINE c == [situation |-> w, sensor |-> s, fault |-> logged + 1]
  <2>1. CASE UNCHANGED <<logged, scheduled>>
    BY <1>2, <2>1, LinkStutter DEF Trigger, buffers, Current
  <2>2. CASE logged' = logged + 1 /\ scheduled' = scheduled \cup {c}
    <3>1. /\ UNCHANGED <<session, sessions, uplink, sentIn, executed>>
          /\ UNCHANGED <<command_buffer, scheduler_command, task_queue>>
      BY <1>2 DEF Trigger, buffers
    <3>2. Current' = Current /\ InSession' = InSession
      BY <3>1 DEF Current, InSession
    <3>3. FaultsOf(scheduled') = FaultsOf(scheduled) \cup {logged + 1}
      <4>1. c.fault = logged + 1
        OBVIOUS
      <4> HIDE DEF c
      <4>2. FaultsOf(scheduled \cup {c}) = FaultsOf(scheduled) \cup {c.fault}
        BY SetFaults
      <4> QED BY <2>2, <4>1, <4>2, Zenon
    <3>4. logged \in Nat /\ logged + 1 \notin 1..logged
      BY DEF TypeOK
    <3>5. EmptyInv' /\ FreshInv'
      BY <3>1, <3>2 DEF LinkInv, EmptyInv, FreshInv
    <3>6. KnownInv'
      <4>1. 1..logged \cup {logged + 1} \subseteq 1..(logged + 1)
        BY <3>4
      <4> QED BY <2>2, <3>1, <3>2, <3>3, <4>1 DEF LinkInv, KnownInv
    <3>7. ApartInv'
      BY <3>1, <3>2, <3>3, <3>4 DEF LinkInv, ApartInv, KnownInv
    <3>8. DistinctSet(scheduled')
      <4>1. c.fault = logged + 1
        OBVIOUS
      <4> HIDE DEF c
      <4>2. c.fault \notin FaultsOf(scheduled)
        BY <3>4, <4>1 DEF LinkInv, KnownInv
      <4> QED BY <2>2, <4>2, SetFaults DEF LinkInv, DistinctInv
    <3>9. DistinctInv'
      BY <3>1, <3>2, <3>8 DEF LinkInv, DistinctInv
    <3> QED BY <3>5, <3>6, <3>7, <3>9 DEF LinkInv
  <2> QED BY <1>2, <2>1, <2>2 DEF Trigger
<1>3. ASSUME NEW w \in Situation, NEW s \in Sensor, CooldownExpires(w, s)
      PROVE  LinkInv'
  BY <1>3, LinkStutter DEF CooldownExpires, faultLog, buffers, Current
<1>4. ASSUME NEW c \in scheduled, SendCommand(c) PROVE LinkInv'
  <2> DEFINE f == c.fault
  <2>1. /\ UNCHANGED <<logged, session, sessions, executed>>
        /\ UNCHANGED <<command_buffer, scheduler_command, task_queue>>
        /\ scheduled' = scheduled \ {c} /\ uplink' = Append(uplink, c)
        /\ sentIn' = [sentIn EXCEPT ![f] = sessions]
    BY <1>4 DEF SendCommand, buffers, faultLog
  <2>2. c \in Element /\ f \in Fault /\ f # 0
    BY <1>a, NumberOf
  <2>3. /\ FaultsOf(scheduled') \subseteq FaultsOf(scheduled)
        /\ f \in FaultsOf(scheduled) /\ f \notin FaultsOf(scheduled')
        /\ DistinctSet(scheduled')
    <3> DEFINE rest == scheduled \ {c}
    <3>1. /\ FaultsOf(rest) \subseteq FaultsOf(scheduled)
          /\ f \in FaultsOf(scheduled) /\ f \notin FaultsOf(rest)
          /\ DistinctSet(rest)
      BY SetFaults DEF LinkInv, DistinctInv
    <3> QED BY <2>1, <3>1, Zenon
  <2>4. f \notin InSession /\ f \notin executed /\ f \in 1..logged
    BY <2>3 DEF LinkInv, ApartInv, KnownInv
  <2>5. /\ Faults(Current') \subseteq Faults(Current) \cup {f}
        /\ Distinct(Current')
    <3>1. CASE session \in {"purged", "consuming"}
      <4>1. Current = uplink /\ Current' = Append(uplink, c)
        BY <2>1, <3>1 DEF Current
      <4>2. f \notin Faults(uplink) /\ Distinct(uplink)
        BY <2>4, <4>1 DEF InSession, LinkInv, DistinctInv
      <4> QED BY <1>a, <2>2, <4>1, <4>2, AppendFaults
    <3>2. CASE session \notin {"purged", "consuming"}
      BY <2>1, <3>2, EmptyFaults DEF Current
    <3> QED BY <3>1, <3>2
  <2>6. InSession' \subseteq InSession \cup {f}
    BY <2>1, <2>5 DEF InSession
  <2> HIDE DEF f
  <2>7. EmptyInv'
    BY <2>1 DEF LinkInv, EmptyInv
  <2>8. FreshInv'
    BY <2>1, <2>2, <2>6 DEF LinkInv, FreshInv, TypeOK
  <2>9. KnownInv'
    BY <2>1, <2>3, <2>4, <2>6 DEF LinkInv, KnownInv
  <2>10. ApartInv'
    <3>1. /\ FaultsOf(scheduled') \cap (InSession' \cup executed') = {}
          /\ executed' \cap InSession' = {}
      BY <2>1, <2>3, <2>4, <2>6 DEF LinkInv, ApartInv
    <3>2. /\ Faults(Current') \cap Faults(command_buffer) = {}
          /\ Faults(Current') \cap Faults(scheduler_command) = {}
          /\ Faults(Current') \cap FaultsOf(task_queue) = {}
      BY <2>4, <2>5 DEF LinkInv, ApartInv, InSession
    <3> QED BY <2>1, <3>1, <3>2 DEF LinkInv, ApartInv
  <2>11. DistinctInv'
    BY <2>1, <2>3, <2>5 DEF LinkInv, DistinctInv
  <2> QED BY <2>7, <2>8, <2>9, <2>10, <2>11 DEF LinkInv
<1>5. ASSUME NEW c \in scheduled, RejectOrLose(c) PROVE LinkInv'
  <2>1. /\ UNCHANGED <<logged, session, sessions, executed, uplink, sentIn>>
        /\ UNCHANGED <<command_buffer, scheduler_command, task_queue>>
        /\ scheduled' = scheduled \ {c}
    BY <1>5 DEF RejectOrLose, buffers, faultLog
  <2>2. Current' = Current /\ InSession' = InSession
    BY <2>1 DEF Current, InSession
  <2>3. /\ FaultsOf(scheduled') \subseteq FaultsOf(scheduled)
        /\ DistinctSet(scheduled')
    <3> DEFINE rest == scheduled \ {c}
    <3>1. FaultsOf(rest) \subseteq FaultsOf(scheduled) /\ DistinctSet(rest)
      BY SetFaults DEF LinkInv, DistinctInv
    <3> QED BY <2>1, <3>1, Zenon
  <2>4. EmptyInv' /\ FreshInv' /\ KnownInv' /\ DistinctInv'
    BY <2>1, <2>2, <2>3
       DEF LinkInv, EmptyInv, FreshInv, KnownInv, DistinctInv
  <2>5. ApartInv'
    BY <2>1, <2>2, <2>3 DEF LinkInv, ApartInv
  <2> QED BY <2>4, <2>5 DEF LinkInv
<1>7. CASE StartSatellite
  <2>1. InSession = {} /\ Current = <<>> /\ Current' = <<>>
    BY <1>7, EmptyFaults
       DEF StartSatellite, LinkInv, EmptyInv, InSession, Current
  <2>2. /\ UNCHANGED <<logged, scheduled, executed>>
        /\ UNCHANGED <<command_buffer, scheduler_command, task_queue>>
        /\ session # "consuming"
    BY <1>7 DEF StartSatellite, buffers, faultLog
  <2>3. InSession' = InSession
    BY <2>1, <2>2 DEF InSession
  <2>4. EmptyInv' /\ FreshInv' /\ KnownInv' /\ DistinctInv'
    BY <2>1, <2>2, <2>3
       DEF LinkInv, EmptyInv, FreshInv, KnownInv, DistinctInv
  <2>5. ApartInv'
    BY <2>1, <2>2, <2>3 DEF LinkInv, ApartInv
  <2> QED BY <2>4, <2>5 DEF LinkInv
<1>8. CASE PurgeQueue
  <2>1. Current = <<>> /\ Current' = <<>>
    BY <1>8 DEF PurgeQueue, Purged, Current
  <2> QED BY <1>8, <2>1, LinkStutter DEF PurgeQueue, buffers, faultLog
<1>9. CASE Subscribe
  <2>1. Current' = Current
    BY <1>9 DEF Subscribe, Current
  <2> QED BY <1>9, <2>1, LinkStutter DEF Subscribe, buffers, faultLog
<1>10. CASE StopSatellite
  <2>1. /\ Current' = <<>> /\ command_buffer' = <<>>
        /\ scheduler_command' = <<>> /\ task_queue' = {}
        /\ UNCHANGED <<logged, scheduled, executed>>
    BY <1>10 DEF StopSatellite, faultLog, Current
  <2>2. /\ Faults(Current') = {} /\ Faults(command_buffer') = {}
        /\ Faults(scheduler_command') = {} /\ FaultsOf(task_queue') = {}
        /\ Distinct(Current') /\ Distinct(command_buffer')
        /\ Distinct(scheduler_command') /\ DistinctSet(task_queue')
    BY <2>1, EmptyFaults DEF FaultsOf, DistinctSet
  <2>3. InSession' = {}
    BY <2>2 DEF InSession
  <2>4. EmptyInv' /\ FreshInv' /\ KnownInv' /\ DistinctInv'
    BY <2>1, <2>2, <2>3
       DEF LinkInv, EmptyInv, FreshInv, KnownInv, DistinctInv
  <2>5. ApartInv'
    BY <2>1, <2>2, <2>3 DEF LinkInv, ApartInv
  <2> QED BY <2>4, <2>5 DEF LinkInv
<1>6. CASE DetectResponse
  BY <1>6, LinkStutter DEF DetectResponse, buffers, Current
<1>11. CASE ReceiveCommand
  <2> DEFINE e == Head(uplink)
  <2>1. /\ UNCHANGED <<logged, scheduled, session, sessions, executed, sentIn>>
        /\ UNCHANGED <<scheduler_command, task_queue>>
        /\ session = "consuming" /\ uplink # <<>>
        /\ uplink' = Tail(uplink)
        /\ command_buffer' = FifoPush(command_buffer, e, BufferCapacity)
    BY <1>11 DEF ReceiveCommand, faultLog
  <2>2. Current = uplink /\ Current' = Tail(uplink) /\ Distinct(uplink)
    BY <2>1 DEF Current, LinkInv, DistinctInv
  <2>3. e \in Element /\ e.fault \in Faults(Current)
    <3>1. e \in Command
      BY <2>1, QueueType DEF TypeOK
    <3> QED BY <1>a, <2>1, <2>2, <3>1, TailFaults, NumberOf
  <2>4. /\ Faults(Current') \subseteq Faults(Current)
        /\ e.fault \notin Faults(Current') /\ Distinct(Current')
    BY <1>a, <2>1, <2>2, TailFaults
  <2> HIDE DEF e
  <2>5. e.fault \notin Faults(command_buffer)
    BY <2>3 DEF LinkInv, ApartInv
  <2>6. /\ Faults(command_buffer') \subseteq Faults(command_buffer) \cup {e.fault}
        /\ Distinct(command_buffer')
    BY <1>a, <2>1, <2>3, <2>5, PushFaults, CapacityAssumption
       DEF LinkInv, DistinctInv
  <2>7. InSession' \subseteq InSession
    BY <2>1, <2>3, <2>4, <2>6 DEF InSession
  <2>8. EmptyInv' /\ FreshInv' /\ KnownInv' /\ DistinctInv'
    BY <2>1, <2>4, <2>6, <2>7
       DEF LinkInv, EmptyInv, FreshInv, KnownInv, DistinctInv
  <2>9. ApartInv'
    BY <2>1, <2>3, <2>4, <2>6, <2>7 DEF LinkInv, ApartInv
  <2> QED BY <2>8, <2>9 DEF LinkInv
<1>12. CASE ProcessCommand
  <2> DEFINE e == Head(command_buffer)
  <2>1. /\ UNCHANGED <<logged, scheduled, session, sessions, executed, sentIn>>
        /\ UNCHANGED <<uplink, task_queue>>
        /\ command_buffer # <<>>
        /\ command_buffer' = Tail(command_buffer)
        /\ IF e = OtherCommand THEN UNCHANGED scheduler_command
           ELSE scheduler_command' = FifoPush(scheduler_command, e, CommandCapacity)
    BY <1>12 DEF ProcessCommand, faultLog, Rest
  <2>2. Current' = Current /\ Distinct(command_buffer)
    BY <2>1 DEF Current, LinkInv, DistinctInv
  <2>3. /\ e \in Element
        /\ e.fault # 0 => e.fault \in Faults(command_buffer)
        /\ Faults(command_buffer') \subseteq Faults(command_buffer)
        /\ e.fault \notin Faults(command_buffer') /\ Distinct(command_buffer')
    BY <1>a, <2>1, <2>2, TailFaults
  <2> HIDE DEF e
  <2>4. CASE e = OtherCommand
    <3>1. scheduler_command' = scheduler_command
      BY <2>1, <2>4
    <3>2. InSession' \subseteq InSession
      BY <2>1, <2>2, <2>3, <3>1 DEF InSession
    <3>3. EmptyInv' /\ FreshInv' /\ KnownInv' /\ DistinctInv'
      BY <2>1, <2>2, <2>3, <3>1, <3>2
         DEF LinkInv, EmptyInv, FreshInv, KnownInv, DistinctInv
    <3>4. ApartInv'
      BY <2>1, <2>2, <2>3, <3>1, <3>2 DEF LinkInv, ApartInv
    <3> QED BY <3>3, <3>4 DEF LinkInv
  <2>5. CASE e # OtherCommand
    <3>1. e.fault \in Faults(command_buffer)
      BY <2>3, <2>5, NumberOf
    <3>2. e.fault \notin Faults(scheduler_command)
      BY <3>1 DEF LinkInv, ApartInv
    <3>3. /\ Faults(scheduler_command')
               \subseteq Faults(scheduler_command) \cup {e.fault}
          /\ Distinct(scheduler_command')
      BY <1>a, <2>1, <2>3, <2>5, <3>2, PushFaults, CapacityAssumption
         DEF LinkInv, DistinctInv
    <3>4. InSession' \subseteq InSession
      BY <2>1, <2>2, <2>3, <3>1, <3>3 DEF InSession
    <3>5. session = "consuming"
      BY <3>1 DEF LinkInv, EmptyInv
    <3>6. EmptyInv' /\ FreshInv' /\ KnownInv' /\ DistinctInv'
      BY <2>1, <2>2, <2>3, <3>3, <3>4, <3>5
         DEF LinkInv, EmptyInv, FreshInv, KnownInv, DistinctInv
    <3>7. ApartInv'
      BY <2>1, <2>2, <2>3, <3>1, <3>3, <3>4 DEF LinkInv, ApartInv
    <3> QED BY <3>6, <3>7 DEF LinkInv
  <2> QED BY <2>4, <2>5
<1>13. CASE PushOther
  <2>1. /\ UNCHANGED <<logged, scheduled, session, sessions, executed, sentIn>>
        /\ UNCHANGED <<uplink, command_buffer, task_queue>>
        /\ scheduler_command' =
             FifoPush(scheduler_command, OtherCommand, CommandCapacity)
    BY <1>13 DEF PushOther, faultLog
  <2>2. Current' = Current
    BY <2>1 DEF Current
  <2>3. OtherCommand \in Element /\ OtherCommand.fault = 0
    BY NumberOf DEF Element
  <2>4. /\ Faults(scheduler_command') \subseteq Faults(scheduler_command)
        /\ Distinct(scheduler_command')
    <3>1. 0 \notin Faults(scheduler_command)
      BY DEF Faults
    <3> QED BY <1>a, <2>1, <2>3, <3>1, PushFaults, CapacityAssumption
            DEF LinkInv, DistinctInv
  <2>5. InSession' \subseteq InSession
    BY <2>1, <2>2, <2>4 DEF InSession
  <2>6. EmptyInv' /\ FreshInv' /\ KnownInv' /\ DistinctInv'
    BY <2>1, <2>2, <2>4, <2>5
       DEF LinkInv, EmptyInv, FreshInv, KnownInv, DistinctInv
  <2>7. ApartInv'
    BY <2>1, <2>2, <2>4, <2>5 DEF LinkInv, ApartInv
  <2> QED BY <2>6, <2>7 DEF LinkInv
<1>14. CASE CheckPreemption
  <2> DEFINE e == Head(scheduler_command)
  <2>1. /\ UNCHANGED <<logged, scheduled, session, sessions, executed, sentIn>>
        /\ UNCHANGED <<uplink, command_buffer>>
        /\ scheduler_command # <<>>
        /\ scheduler_command' = Tail(scheduler_command)
        /\ task_queue' = task_queue \cup ({e} \ {OtherCommand})
    BY <1>14 DEF CheckPreemption, faultLog
  <2>2. Current' = Current /\ Distinct(scheduler_command)
    BY <2>1 DEF Current, LinkInv, DistinctInv
  <2>3. /\ e \in Element
        /\ e.fault # 0 => e.fault \in Faults(scheduler_command)
        /\ Faults(scheduler_command') \subseteq Faults(scheduler_command)
        /\ e.fault \notin Faults(scheduler_command')
        /\ Distinct(scheduler_command')
    BY <1>a, <2>1, <2>2, TailFaults
  <2> HIDE DEF e
  <2>4. CASE e = OtherCommand
    <3>1. task_queue' = task_queue
      BY <2>1, <2>4
    <3>2. InSession' \subseteq InSession
      BY <2>1, <2>2, <2>3, <3>1 DEF InSession
    <3>3. EmptyInv' /\ FreshInv' /\ KnownInv' /\ DistinctInv'
      BY <2>1, <2>2, <2>3, <3>1, <3>2
         DEF LinkInv, EmptyInv, FreshInv, KnownInv, DistinctInv
    <3>4. ApartInv'
      BY <2>1, <2>2, <2>3, <3>1, <3>2 DEF LinkInv, ApartInv
    <3> QED BY <3>3, <3>4 DEF LinkInv
  <2>5. CASE e # OtherCommand
    <3>1. e.fault \in Faults(scheduler_command)
      BY <2>3, <2>5, NumberOf
    <3>2. e.fault \notin FaultsOf(task_queue)
      BY <3>1 DEF LinkInv, ApartInv
    <3>3. /\ FaultsOf(task_queue') = FaultsOf(task_queue) \cup {e.fault}
          /\ DistinctSet(task_queue')
      <4> DEFINE more == task_queue \cup {e}
      <4>1. FaultsOf(more) = FaultsOf(task_queue) \cup {e.fault}
        BY SetFaults
      <4>2. DistinctSet(more)
        BY <3>2, SetFaults DEF LinkInv, DistinctInv
      <4>3. task_queue' = more
        BY <2>1, <2>5
      <4> QED BY <4>1, <4>2, <4>3, Zenon
    <3>4. InSession' \subseteq InSession
      BY <2>1, <2>2, <2>3, <3>1, <3>3 DEF InSession
    <3>5. session = "consuming"
      BY <3>1 DEF LinkInv, EmptyInv
    <3>6. EmptyInv' /\ FreshInv' /\ KnownInv' /\ DistinctInv'
      BY <2>1, <2>2, <2>3, <3>3, <3>4, <3>5
         DEF LinkInv, EmptyInv, FreshInv, KnownInv, DistinctInv
    <3>7. ApartInv'
      BY <2>1, <2>2, <2>3, <3>1, <3>3, <3>4 DEF LinkInv, ApartInv
    <3> QED BY <3>6, <3>7 DEF LinkInv
  <2> QED BY <2>4, <2>5
<1>15. ASSUME NEW c \in task_queue, Execute(c) PROVE LinkInv'
  <2> DEFINE f == c.fault
  <2>1. /\ UNCHANGED <<logged, scheduled, session, sessions, sentIn>>
        /\ UNCHANGED <<uplink, command_buffer, scheduler_command>>
        /\ task_queue' = task_queue \ {c} /\ executed' = executed \cup {f}
    BY <1>15 DEF Execute, faultLog
  <2>2. Current' = Current
    BY <2>1 DEF Current
  <2>3. /\ FaultsOf(task_queue') \subseteq FaultsOf(task_queue)
        /\ f \in FaultsOf(task_queue) /\ f \notin FaultsOf(task_queue')
        /\ DistinctSet(task_queue')
    <3> DEFINE rest == task_queue \ {c}
    <3>1. /\ FaultsOf(rest) \subseteq FaultsOf(task_queue)
          /\ f \in FaultsOf(task_queue) /\ f \notin FaultsOf(rest)
          /\ DistinctSet(rest)
      BY SetFaults DEF LinkInv, DistinctInv
    <3> QED BY <2>1, <3>1, Zenon
  <2> HIDE DEF f
  <2>4. InSession' \subseteq InSession /\ f \in InSession /\ f \notin InSession'
    <3>1. /\ f \notin Faults(Current) /\ f \notin Faults(command_buffer)
          /\ f \notin Faults(scheduler_command)
      BY <2>3 DEF LinkInv, ApartInv
    <3> QED BY <2>1, <2>2, <2>3, <3>1 DEF InSession
  <2>5. EmptyInv' /\ FreshInv' /\ DistinctInv'
    BY <2>1, <2>2, <2>3, <2>4 DEF LinkInv, EmptyInv, FreshInv, DistinctInv
  <2>6. KnownInv'
    BY <2>1, <2>4 DEF LinkInv, KnownInv
  <2>7. ApartInv'
    BY <2>1, <2>2, <2>3, <2>4 DEF LinkInv, ApartInv
  <2> QED BY <2>5, <2>6, <2>7 DEF LinkInv
<1>16. CASE LoseAnswer
  BY <1>16, LinkStutter DEF LoseAnswer, faultLog, buffers, Current
<1>17. CASE ReceiveOther
  <2>1. /\ UNCHANGED <<logged, scheduled, session, sessions, executed, sentIn>>
        /\ UNCHANGED <<uplink, scheduler_command, task_queue>>
        /\ session = "consuming"
        /\ command_buffer' = FifoPush(command_buffer, OtherCommand, BufferCapacity)
    BY <1>17 DEF ReceiveOther, faultLog
  <2>2. Current' = Current
    BY <2>1 DEF Current
  <2>3. OtherCommand \in Element /\ OtherCommand.fault = 0
    BY NumberOf DEF Element
  <2>4. /\ Faults(command_buffer') \subseteq Faults(command_buffer)
        /\ Distinct(command_buffer')
    <3>1. 0 \notin Faults(command_buffer)
      BY DEF Faults
    <3> QED BY <1>a, <2>1, <2>3, <3>1, PushFaults, CapacityAssumption
            DEF LinkInv, DistinctInv
  <2>5. InSession' \subseteq InSession
    BY <2>1, <2>2, <2>4 DEF InSession
  <2>6. EmptyInv' /\ FreshInv' /\ KnownInv' /\ DistinctInv'
    BY <2>1, <2>2, <2>4, <2>5
       DEF LinkInv, EmptyInv, FreshInv, KnownInv, DistinctInv
  <2>7. ApartInv'
    BY <2>1, <2>2, <2>4, <2>5 DEF LinkInv, ApartInv
  <2> QED BY <2>6, <2>7 DEF LinkInv
<1> QED
  BY <1>1, <1>2, <1>3, <1>4, <1>5, <1>6, <1>7, <1>8, <1>9, <1>10, <1>11,
     <1>12, <1>13, <1>14, <1>15, <1>16, <1>17
     DEF Next, Ground, Session, Satellite

LEMMA LinkInvariant == Spec => [](TypeOK /\ LinkInv)
<1> QED BY TypeInit, TypeStep, LinkInit, LinkStep, PTL DEF Spec

(* What waits is in one of the two queues.                                 *)
LEMMA WaitingElements ==
  ASSUME TypeOK
  PROVE  /\ Waiting \in Seq(Element)
         /\ Len(Waiting) = Len(scheduler_command) + Len(command_buffer)
         /\ \A i \in 1..Len(Waiting) :
              Waiting[i] = IF i <= Len(scheduler_command)
                           THEN scheduler_command[i]
                           ELSE command_buffer[i - Len(scheduler_command)]
BY QueuesOfElements, ConcatProperties DEF Waiting

LEMMA HeldFaults ==
  ASSUME TypeOK
  PROVE  /\ \A i \in 1..Len(Waiting) :
              Waiting[i] # OtherCommand =>
                Waiting[i].fault \in Faults(scheduler_command)
                                       \cup Faults(command_buffer)
         /\ \A c \in Held : c.fault \in InSession
<1>1. ASSUME NEW i \in 1..Len(Waiting), Waiting[i] # OtherCommand
      PROVE  Waiting[i].fault \in Faults(scheduler_command)
                                    \cup Faults(command_buffer)
  <2>1. Len(scheduler_command) \in Nat /\ Len(command_buffer) \in Nat
    BY QueuesOfElements, LenProperties
  <2>2. Waiting[i].fault # 0
    BY <1>1, WaitingElements, ElementOfSeq, NumberOf
  <2>3. CASE i <= Len(scheduler_command)
    <3>1. i \in 1..Len(scheduler_command) /\ Waiting[i] = scheduler_command[i]
      BY <2>1, <2>3, WaitingElements
    <3> QED BY <2>2, <3>1 DEF Faults
  <2>4. CASE ~(i <= Len(scheduler_command))
    <3> DEFINE j == i - Len(scheduler_command)
    <3>1. j \in 1..Len(command_buffer) /\ Waiting[i] = command_buffer[j]
      BY <2>1, <2>4, WaitingElements
    <3> HIDE DEF j
    <3> QED BY <2>2, <3>1 DEF Faults
  <2> QED BY <2>3, <2>4
<1>2. \A c \in task_queue : c.fault \in FaultsOf(task_queue)
  BY DEF FaultsOf
<1> QED BY <1>1, <1>2 DEF Held, Elements, InSession

(* A session executes nothing that was uplinked before it: the queue purge *)
(* at its start covers what the broker has queued again.                   *)
THEOREM NothingStale == Spec => []FreshCommandsOnly
<1>1. TypeOK /\ LinkInv => FreshCommandsOnly
  BY HeldFaults DEF FreshCommandsOnly, LinkInv, FreshInv
<1> QED BY <1>1, LinkInvariant, PTL

(* No command is executed twice, through queues, purges and restarts.      *)
THEOREM NothingTwice == Spec => []ExecutedOnce
<1>1. TypeOK /\ LinkInv => ExecutedOnce
  <2> SUFFICES ASSUME TypeOK, LinkInv PROVE ExecutedOnce
    OBVIOUS
  <2>1. \A c \in Held : c.fault \notin executed
    BY HeldFaults DEF LinkInv, ApartInv
  <2>2. \A i \in 1..Len(Waiting) : Waiting[i] \notin task_queue
    <3> SUFFICES ASSUME NEW i \in 1..Len(Waiting), Waiting[i] \in task_queue
                 PROVE  FALSE
      OBVIOUS
    <3>1. Waiting[i].fault \in FaultsOf(task_queue)
      BY DEF FaultsOf
    <3>2. Waiting[i] # OtherCommand
      BY QueuesOfElements, NumberOf
    <3> QED BY <3>1, <3>2, HeldFaults DEF LinkInv, ApartInv
  <2>3. ASSUME NEW i \in 1..Len(Waiting), Waiting[i] # OtherCommand,
               NEW j \in 1..Len(Waiting), Waiting[i] = Waiting[j]
        PROVE  i = j
    <3> DEFINE m == Len(scheduler_command)
    <3>1. m \in Nat /\ Len(command_buffer) \in Nat
      BY QueuesOfElements, LenProperties
    <3>2. Waiting[i].fault # 0
      BY <2>3, WaitingElements, ElementOfSeq, NumberOf
    <3>3. CASE i <= m /\ j <= m
      BY <2>3, <3>1, <3>2, <3>3, WaitingElements
         DEF LinkInv, DistinctInv, Distinct
    <3>4. CASE i > m /\ j > m
      <4>1. /\ i - m \in 1..Len(command_buffer) /\ j - m \in 1..Len(command_buffer)
            /\ Waiting[i] = command_buffer[i - m]
            /\ Waiting[j] = command_buffer[j - m]
        BY <3>1, <3>4, WaitingElements
      <4>2. i - m = j - m
        BY <2>3, <3>2, <4>1 DEF LinkInv, DistinctInv, Distinct
      <4> QED BY <3>1, <4>2
    <3>5. CASE i <= m /\ j > m
      <4>1. Waiting[i].fault \in Faults(scheduler_command)
        BY <3>1, <3>2, <3>5, WaitingElements DEF Faults
      <4>2. Waiting[j].fault \in Faults(command_buffer)
        <5>1. j - m \in 1..Len(command_buffer) /\ Waiting[j] = command_buffer[j - m]
          BY <3>1, <3>5, WaitingElements
        <5> QED BY <2>3, <3>2, <5>1 DEF Faults
      <4> QED BY <2>3, <4>1, <4>2 DEF LinkInv, ApartInv
    <3>6. CASE i > m /\ j <= m
      <4>1. Waiting[j].fault \in Faults(scheduler_command)
        BY <2>3, <3>1, <3>2, <3>6, WaitingElements DEF Faults
      <4>2. Waiting[i].fault \in Faults(command_buffer)
        <5>1. i - m \in 1..Len(command_buffer) /\ Waiting[i] = command_buffer[i - m]
          BY <3>1, <3>6, WaitingElements
        <5> QED BY <3>2, <5>1 DEF Faults
      <4> QED BY <2>3, <4>1, <4>2 DEF LinkInv, ApartInv
    <3> QED BY <3>1, <3>3, <3>4, <3>5, <3>6
  <2> QED BY <2>1, <2>2, <2>3 DEF ExecutedOnce
<1> QED BY <1>1, LinkInvariant, PTL

=============================================================================
