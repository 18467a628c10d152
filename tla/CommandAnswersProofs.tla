------------------------ MODULE CommandAnswersProofs ------------------------
(***************************************************************************)
(* Theorems about CommandLink's answers, for any sensors, capacities and   *)
(* bounds: every answer to a re-request finds an open fault, and one that  *)
(* is older than the answer.                                               *)
(***************************************************************************)
EXTENDS CommandLinkProofs, FiniteSetTheorems

----------------------------------------------------------------------------
(* Queues as sets.                                                         *)
LEMMA ElementsOfQueue ==
  ASSUME NEW S, NEW q \in Seq(S)
  PROVE  /\ Elements(q) \subseteq S
         /\ Elements(<<>>) = {}
         /\ \A e \in S : Elements(Append(q, e)) = Elements(q) \cup {e}
         /\ q # <<>> => Head(q) \in Elements(q) /\ Elements(Tail(q)) \subseteq Elements(q)
<1>1. ASSUME NEW e \in S PROVE Elements(Append(q, e)) = Elements(q) \cup {e}
  <2> DEFINE r == Append(q, e)
  <2>1. /\ Len(r) = Len(q) + 1 /\ Len(q) \in Nat
        /\ \A i \in 1..Len(q) : r[i] = q[i]
        /\ r[Len(q) + 1] = e
    OBVIOUS
  <2> HIDE DEF r
  <2> QED BY <2>1 DEF Elements, r
<1>2. ASSUME q # <<>>
      PROVE  Head(q) \in Elements(q) /\ Elements(Tail(q)) \subseteq Elements(q)
  <2> DEFINE r == Tail(q)
  <2>1. /\ Len(r) = Len(q) - 1 /\ Len(q) \in Nat \ {0}
        /\ \A i \in 1..Len(r) : r[i] = q[i + 1]
    BY <1>2, HeadTailProperties
  <2>2. Head(q) = q[1] /\ 1 \in 1..Len(q)
    BY <2>1
  <2> HIDE DEF r
  <2>3. \A i \in 1..Len(r) : i + 1 \in 1..Len(q)
    BY <2>1
  <2> QED BY <2>1, <2>2, <2>3 DEF Elements, r
<1> QED BY <1>1, <1>2 DEF Elements

LEMMA ElementsOfPush ==
  ASSUME NEW S, NEW q \in Seq(S), NEW e \in S, NEW n \in Nat \ {0}
  PROVE  Elements(FifoPush(q, e, n)) \subseteq Elements(q) \cup {e}
<1>1. CASE Len(q) >= n
  <2>1. q # <<>>
    <3>1. Len(<<>>) = 0 /\ ~(0 >= n)
      OBVIOUS
    <3> QED BY <1>1, <3>1
  <2> DEFINE r == Tail(q)
  <2>2. FifoPush(q, e, n) = Append(r, e)
    BY <1>1 DEF FifoPush
  <2>3. r \in Seq(S) /\ Elements(r) \subseteq Elements(q)
    BY <2>1, ElementsOfQueue, HeadTailProperties
  <2> HIDE DEF r
  <2> QED BY <2>2, <2>3, ElementsOfQueue
<1>2. CASE ~(Len(q) >= n)
  BY <1>2, ElementsOfQueue DEF FifoPush
<1> QED BY <1>1, <1>2

----------------------------------------------------------------------------
(* The commands that are somewhere between their trigger and their answer's*)
(* arrival.                                                                *)
Answering == {a.command : a \in Elements(telemetry)}
UnderWay == scheduled \cup task_queue \cup Elements(Current)
              \cup ((Elements(command_buffer) \cup Elements(scheduler_command))
                    \ {OtherCommand})
              \cup Answering
ReRequestsOf(S, s) == {c \in S : c.situation = "ReRequest" /\ c.sensor = s}

Open(s) == satellite_fault[<<"ReRequest", s>>]

LEMMA OnTheWayIs ==
  ASSUME TypeOK, NEW s
  PROVE  OnTheWay(s) = ReRequestsOf(UnderWay, s)
<1>1. Waiting \in Seq(Element) /\ command_buffer \in Seq(Element)
      /\ scheduler_command \in Seq(Element)
  BY WaitingElements, QueuesOfElements
<1>2. Elements(Waiting) = Elements(scheduler_command) \cup Elements(command_buffer)
  <2>1. /\ Len(Waiting) = Len(scheduler_command) + Len(command_buffer)
        /\ \A i \in 1..Len(Waiting) :
             Waiting[i] = IF i <= Len(scheduler_command)
                          THEN scheduler_command[i]
                          ELSE command_buffer[i - Len(scheduler_command)]
    BY WaitingElements
  <2>2. Len(scheduler_command) \in Nat /\ Len(command_buffer) \in Nat
    BY <1>1
  <2>3. Elements(Waiting) \subseteq
          Elements(scheduler_command) \cup Elements(command_buffer)
    <3> SUFFICES ASSUME NEW i \in 1..Len(Waiting)
                 PROVE  Waiting[i] \in Elements(scheduler_command)
                                         \cup Elements(command_buffer)
      BY DEF Elements
    <3>1. \/ i \in 1..Len(scheduler_command)
          \/ /\ ~(i <= Len(scheduler_command))
             /\ i - Len(scheduler_command) \in 1..Len(command_buffer)
      BY <2>1, <2>2
    <3> QED BY <2>1, <3>1 DEF Elements
  <2>4. Elements(scheduler_command) \subseteq Elements(Waiting)
    <3>1. \A i \in 1..Len(scheduler_command) :
            i \in 1..Len(Waiting) /\ Waiting[i] = scheduler_command[i]
      BY <2>1, <2>2
    <3> QED BY <3>1 DEF Elements
  <2>5. Elements(command_buffer) \subseteq Elements(Waiting)
    <3> SUFFICES ASSUME NEW i \in 1..Len(command_buffer)
                 PROVE  command_buffer[i] \in Elements(Waiting)
      BY DEF Elements
    <3> DEFINE j == i + Len(scheduler_command)
    <3>1. /\ j \in 1..Len(Waiting) /\ ~(j <= Len(scheduler_command))
          /\ j - Len(scheduler_command) = i
      BY <2>1, <2>2
    <3>2. Waiting[j] = command_buffer[i]
      BY <2>1, <3>1
    <3> QED BY <3>1, <3>2 DEF Elements
  <2> QED BY <2>3, <2>4, <2>5
<1>3. Elements(<<>>) = {}
  BY DEF Elements
<1> QED BY <1>2, <1>3 DEF OnTheWay, UnderWay, Held, Current, Answering, ReRequestsOf

(* Commands of one situation and sensor are told apart by their faults, so *)
(* there are finitely many.                                                *)
LEMMA FiniteReRequests ==
  ASSUME NEW S \in SUBSET Command, NEW s
  PROVE  /\ IsFiniteSet(ReRequestsOf(S, s))
         /\ Cardinality(ReRequestsOf(S, s)) \in Nat
<1> DEFINE R == ReRequestsOf(S, s)
           f == [c \in R |-> c.fault]
<1>1. f \in [R -> Fault]
  BY DEF ReRequestsOf, Command
<1>2. \A c, d \in R : f[c] = f[d] => c = d
  <2> SUFFICES ASSUME NEW c \in R, NEW d \in R, c.fault = d.fault PROVE c = d
    OBVIOUS
  <2>1. c \in Command /\ d \in Command /\ c.situation = d.situation /\ c.sensor = d.sensor
    BY DEF ReRequestsOf
  <2>2. /\ c = [situation |-> c.situation, sensor |-> c.sensor, fault |-> c.fault]
        /\ d = [situation |-> d.situation, sensor |-> d.sensor, fault |-> d.fault]
    BY <2>1 DEF Command
  <2> QED BY <2>1, <2>2
<1>3. f \in Injection(R, Fault)
  BY <1>1, <1>2 DEF Injection, IsInjective
<1>4. IsFiniteSet(Fault)
  BY FS_Interval, BoundAssumption DEF Fault
<1>5. IsFiniteSet(R)
  BY <1>3, <1>4, FS_Injection
<1> QED BY <1>5, FS_CardinalityType

LEMMA UnderWayType ==
  ASSUME TypeOK
  PROVE  UnderWay \subseteq Command
<1>1. /\ Elements(command_buffer) \subseteq Command \cup {OtherCommand}
      /\ Elements(scheduler_command) \subseteq Command \cup {OtherCommand}
  BY ElementsOfQueue DEF TypeOK
<1>2. Elements(Current) \subseteq Command
  BY ElementsOfQueue DEF TypeOK, Current
<1>3. Elements(telemetry) \subseteq Answer
  BY ElementsOfQueue DEF TypeOK
<1>4. Answering \subseteq Command
  BY <1>3 DEF Answering, Answer
<1> QED BY <1>1, <1>2, <1>4 DEF UnderWay, TypeOK

----------------------------------------------------------------------------
(* A queue from which some elements were lost, the rest in their order.    *)
Thinned(q, r) ==
  \E f \in [1..Len(r) -> 1..Len(q)] :
    /\ \A i, j \in 1..Len(r) : i < j => f[i] < f[j]
    /\ \A i \in 1..Len(r) : r[i] = q[f[i]]

LEMMA ThinnedElements ==
  ASSUME NEW q, NEW r, Thinned(q, r)
  PROVE  Elements(r) \subseteq Elements(q)
<1>1. PICK f \in [1..Len(r) -> 1..Len(q)] : \A i \in 1..Len(r) : r[i] = q[f[i]]
  BY DEF Thinned
<1>2. \A i \in 1..Len(r) : f[i] \in 1..Len(q)
  BY <1>1
<1> QED BY <1>1, <1>2 DEF Elements

LEMMA TailThinned ==
  ASSUME NEW S, NEW q \in Seq(S), q # <<>>
  PROVE  Thinned(q, Tail(q))
<1> DEFINE r == Tail(q)
           f == [i \in 1..Len(r) |-> i + 1]
<1>1. /\ Len(r) = Len(q) - 1 /\ Len(q) \in Nat \ {0}
      /\ \A i \in 1..Len(r) : r[i] = q[i + 1]
  BY HeadTailProperties
<1> HIDE DEF r
<1>2. f \in [1..Len(r) -> 1..Len(q)]
  BY <1>1
<1>3. \A i, j \in 1..Len(r) : i < j => f[i] < f[j]
  OBVIOUS
<1>4. \A i \in 1..Len(r) : r[i] = q[f[i]]
  BY <1>1
<1> HIDE DEF f
<1>5. Thinned(q, r)
  BY <1>2, <1>3, <1>4 DEF Thinned
<1> QED BY <1>5 DEF r

LEMMA PrefixThinned ==
  ASSUME NEW S, NEW q \in Seq(S), NEW n \in 0..Len(q)
  PROVE  Thinned(q, SubSeq(q, 1, n))
<1> DEFINE r == SubSeq(q, 1, n)
           f == [i \in 1..Len(r) |-> i]
<1>1. Len(q) \in Nat /\ Len(r) = n /\ \A i \in 1..Len(r) : r[i] = q[i]
  OBVIOUS
<1> HIDE DEF r
<1>2. f \in [1..Len(r) -> 1..Len(q)]
  BY <1>1
<1>3. \A i, j \in 1..Len(r) : i < j => f[i] < f[j]
  OBVIOUS
<1>4. \A i \in 1..Len(r) : r[i] = q[f[i]]
  BY <1>1
<1> HIDE DEF f
<1>5. Thinned(q, r)
  BY <1>2, <1>3, <1>4 DEF Thinned
<1> QED BY <1>5 DEF r

LEMMA RemoveThinned ==
  ASSUME NEW S, NEW q \in Seq(S), NEW k \in 1..Len(q)
  PROVE  Thinned(q, SubSeq(q, 1, k - 1) \o SubSeq(q, k + 1, Len(q)))
<1> DEFINE a == SubSeq(q, 1, k - 1)
           b == SubSeq(q, k + 1, Len(q))
           r == a \o b
           f == [i \in 1..Len(r) |-> IF i < k THEN i ELSE i + 1]
<1>1. /\ Len(q) \in Nat /\ a \in Seq(S) /\ b \in Seq(S)
      /\ Len(a) = k - 1 /\ Len(b) = Len(q) - k
      /\ \A i \in 1..Len(a) : a[i] = q[i]
      /\ \A i \in 1..Len(b) : b[i] = q[k + i]
  <2>1. /\ \A j \in 1..k - 1 : q[j] \in S
        /\ \A j \in k + 1..Len(q) : q[j] \in S
    OBVIOUS
  <2>2. a \in Seq(S) /\ b \in Seq(S)
    BY <2>1, SubSeqProperties
  <2> QED BY <2>2
<1> HIDE DEF a, b
<1>2. /\ Len(r) = Len(q) - 1
      /\ \A i \in 1..Len(r) : r[i] = IF i < k THEN a[i] ELSE b[i - (k - 1)]
  <2>1. /\ Len(r) = Len(a) + Len(b)
        /\ \A i \in 1..Len(a) + Len(b) :
             r[i] = IF i <= Len(a) THEN a[i] ELSE b[i - Len(a)]
    BY <1>1, ConcatProperties
  <2> HIDE DEF r
  <2> QED BY <1>1, <2>1
<1> HIDE DEF r
<1>3. f \in [1..Len(r) -> 1..Len(q)]
  BY <1>1, <1>2
<1>4. \A i, j \in 1..Len(r) : i < j => f[i] < f[j]
  BY <1>1, <1>2
<1>5. \A i \in 1..Len(r) : r[i] = q[f[i]]
  <2> TAKE i \in 1..Len(r)
  <2>1. CASE i < k
    BY <1>1, <1>2, <2>1
  <2>2. CASE ~(i < k)
    <3>1. i - (k - 1) \in 1..Len(b) /\ k + (i - (k - 1)) = i + 1
      BY <1>1, <1>2, <2>2
    <3> QED BY <1>1, <1>2, <2>2, <3>1
  <2> QED BY <2>1, <2>2
<1> HIDE DEF f
<1>6. Thinned(q, r)
  BY <1>3, <1>4, <1>5 DEF Thinned
<1> QED BY <1>6 DEF r, a, b

----------------------------------------------------------------------------
(* A step that leaves the fault log alone, brings nothing new under way    *)
(* and at most loses answers.                                              *)
Quiet ==
  /\ UNCHANGED faultLog
  /\ executed \subseteq executed'
  /\ UnderWay' \subseteq UnderWay
  /\ telemetry' = telemetry \/ Thinned(telemetry, telemetry')

(* A step that leaves the answers alone.                                   *)
LEMMA QuietStep ==
  ASSUME UNCHANGED <<faultLog, telemetry>>, executed \subseteq executed',
         scheduled' \cup task_queue' \cup Elements(Current')
             \cup ((Elements(command_buffer') \cup Elements(scheduler_command'))
                     \ {OtherCommand})
           \subseteq UnderWay
  PROVE  Quiet
<1>1. Answering' = Answering
  BY DEF Answering
<1>2. UnderWay' \subseteq UnderWay
  BY <1>1 DEF UnderWay
<1> QED BY <1>2 DEF Quiet

(* What a task's end with an answer does.                                  *)
Answers(c) ==
  /\ c \in task_queue
  /\ UNCHANGED faultLog
  /\ telemetry' = Append(telemetry, [command |-> c, stamp |-> logged])
  /\ executed' = executed \cup {c.fault}
  /\ UnderWay' \subseteq UnderWay

LEMMA StepKinds ==
  ASSUME TypeOK, [Next]_vars
  PROVE  \/ Quiet
         \/ \E w \in Situation, s \in Sensor : Trigger(w, s)
         \/ \E c \in task_queue : Answers(c)
         \/ DetectResponse
<1>a. /\ uplink \in Seq(Element) /\ command_buffer \in Seq(Element)
      /\ scheduler_command \in Seq(Element) /\ Current \in {uplink, <<>>}
      /\ telemetry \in Seq(Answer)
  BY QueuesOfElements DEF Current, TypeOK
<1>b. Elements(<<>>) = {}
  BY DEF Elements
<1>c. OtherCommand \in Element
  BY DEF Element
<1>1. CASE UNCHANGED vars
  BY <1>1, QuietStep DEF vars, faultLog, Current, UnderWay
<1>3. ASSUME NEW w \in Situation, NEW s \in Sensor, CooldownExpires(w, s)
      PROVE  Quiet
  BY <1>3, QuietStep DEF CooldownExpires, buffers, Current, UnderWay
<1>4. ASSUME NEW c \in scheduled, SendCommand(c) PROVE Quiet
  <2>1. c \in Element
    BY QueuesOfElements DEF Element
  <2>2. /\ UNCHANGED <<faultLog, telemetry, executed, session>>
        /\ UNCHANGED <<task_queue, command_buffer, scheduler_command>>
        /\ scheduled' = scheduled \ {c} /\ uplink' = Append(uplink, c)
    BY <1>4 DEF SendCommand, buffers
  <2>3. Elements(uplink') = Elements(uplink) \cup {c}
    BY <1>a, <2>1, <2>2, ElementsOfQueue
  <2>4. Elements(Current') \subseteq Elements(Current) \cup {c}
    BY <1>b, <2>2, <2>3 DEF Current
  <2> QED BY <2>2, <2>4, QuietStep DEF UnderWay
<1>5. ASSUME NEW c \in scheduled, RejectOrLose(c) PROVE Quiet
  BY <1>5, QuietStep DEF RejectOrLose, buffers, Current, UnderWay
<1>7. CASE StartSatellite
  <2>1. Current' = <<>>
    BY <1>7 DEF StartSatellite, Current
  <2> QED BY <1>7, <1>b, <2>1, QuietStep DEF StartSatellite, buffers, UnderWay
<1>8. CASE PurgeQueue
  <2>1. Current' = <<>>
    BY <1>8 DEF PurgeQueue, Purged, Current
  <2> QED BY <1>8, <1>b, <2>1, QuietStep DEF PurgeQueue, buffers, UnderWay
<1>9. CASE Subscribe
  <2>1. Current' = Current
    BY <1>9 DEF Subscribe, Current
  <2> QED BY <1>9, <2>1, QuietStep DEF Subscribe, buffers, UnderWay
<1>10. CASE StopSatellite
  <2>1. PICK n \in 0..Len(telemetry) : telemetry' = SubSeq(telemetry, 1, n)
    BY <1>10 DEF StopSatellite
  <2>2. Thinned(telemetry, telemetry')
    BY <1>a, <2>1, PrefixThinned
  <2>3. Answering' \subseteq Answering
    BY <2>2, ThinnedElements DEF Answering
  <2>4. Current' = <<>>
    BY <1>10 DEF StopSatellite, Current
  <2>5. UnderWay' \subseteq UnderWay
    BY <1>10, <1>b, <2>3, <2>4 DEF StopSatellite, UnderWay
  <2> QED BY <1>10, <2>2, <2>5 DEF StopSatellite, Quiet
<1>11. CASE ReceiveCommand
  <2> DEFINE e == Head(uplink)
  <2>1. /\ UNCHANGED <<faultLog, telemetry, executed, scheduled, session>>
        /\ UNCHANGED <<task_queue, scheduler_command>>
        /\ session = "consuming" /\ uplink # <<>> /\ uplink' = Tail(uplink)
        /\ command_buffer' = FifoPush(command_buffer, e, BufferCapacity)
    BY <1>11 DEF ReceiveCommand
  <2>2. /\ e \in Elements(uplink) /\ Elements(uplink') \subseteq Elements(uplink)
        /\ e \in Element
    BY <1>a, <2>1, ElementsOfQueue, QueueType
  <2> HIDE DEF e
  <2>3. Elements(command_buffer') \subseteq Elements(command_buffer) \cup {e}
    BY <1>a, <2>1, <2>2, ElementsOfPush, CapacityAssumption
  <2>4. Current = uplink /\ Current' = uplink'
    BY <2>1 DEF Current
  <2> QED BY <2>1, <2>2, <2>3, <2>4, QuietStep DEF UnderWay
<1>12. CASE ProcessCommand
  <2> DEFINE e == Head(command_buffer)
  <2>1. /\ UNCHANGED <<faultLog, telemetry, executed, scheduled, session>>
        /\ UNCHANGED <<uplink, task_queue>>
        /\ command_buffer # <<>> /\ command_buffer' = Tail(command_buffer)
        /\ \/ scheduler_command' = scheduler_command
           \/ scheduler_command' = FifoPush(scheduler_command, e, CommandCapacity)
    BY <1>12 DEF ProcessCommand, Rest
  <2>2. /\ e \in Elements(command_buffer) /\ e \in Element
        /\ Elements(command_buffer') \subseteq Elements(command_buffer)
    BY <1>a, <2>1, ElementsOfQueue, QueueType
  <2> HIDE DEF e
  <2>3. Elements(scheduler_command') \subseteq Elements(scheduler_command) \cup {e}
    BY <1>a, <2>1, <2>2, ElementsOfPush, CapacityAssumption
  <2>4. Current' = Current
    BY <2>1 DEF Current
  <2> QED BY <2>1, <2>2, <2>3, <2>4, QuietStep DEF UnderWay
<1>13. CASE PushOther
  <2>1. /\ UNCHANGED <<faultLog, telemetry, executed, scheduled, session>>
        /\ UNCHANGED <<uplink, task_queue, command_buffer>>
        /\ scheduler_command' =
             FifoPush(scheduler_command, OtherCommand, CommandCapacity)
    BY <1>13 DEF PushOther
  <2>2. Elements(scheduler_command')
          \subseteq Elements(scheduler_command) \cup {OtherCommand}
    BY <1>a, <2>1, ElementsOfPush, CapacityAssumption, <1>c
  <2>3. Current' = Current
    BY <2>1 DEF Current
  <2> QED BY <2>1, <2>2, <2>3, QuietStep DEF UnderWay
<1>14. CASE CheckPreemption
  <2> DEFINE e == Head(scheduler_command)
  <2>1. /\ UNCHANGED <<faultLog, telemetry, executed, scheduled, session>>
        /\ UNCHANGED <<uplink, command_buffer>>
        /\ scheduler_command # <<>>
        /\ scheduler_command' = Tail(scheduler_command)
        /\ task_queue' = task_queue \cup ({e} \ {OtherCommand})
    BY <1>14 DEF CheckPreemption
  <2>2. /\ e \in Elements(scheduler_command)
        /\ Elements(scheduler_command') \subseteq Elements(scheduler_command)
    BY <1>a, <2>1, ElementsOfQueue
  <2> HIDE DEF e
  <2>3. Current' = Current
    BY <2>1 DEF Current
  <2> QED BY <2>1, <2>2, <2>3, QuietStep DEF UnderWay
<1>15. ASSUME NEW c \in task_queue, Execute(c) PROVE Quiet \/ Answers(c)
  <2> DEFINE a == [command |-> c, stamp |-> logged]
  <2>1. /\ UNCHANGED <<faultLog, scheduled, session, uplink>>
        /\ UNCHANGED <<command_buffer, scheduler_command>>
        /\ task_queue' = task_queue \ {c} /\ executed' = executed \cup {c.fault}
        /\ telemetry' = telemetry \/ telemetry' = Append(telemetry, a)
    BY <1>15 DEF Execute
  <2>2. Current' = Current
    BY <2>1 DEF Current
  <2>3. CASE telemetry' = telemetry
    BY <2>1, <2>2, <2>3, QuietStep DEF UnderWay
  <2>4. CASE telemetry' = Append(telemetry, a)
    <3>1. a \in Answer /\ a.command = c
      BY DEF TypeOK, Answer
    <3> HIDE DEF a
    <3>2. Elements(telemetry') = Elements(telemetry) \cup {a}
      BY <1>a, <2>4, <3>1, ElementsOfQueue
    <3>3. Answering' \subseteq Answering \cup {c}
      BY <3>1, <3>2 DEF Answering
    <3>4. UnderWay' \subseteq UnderWay
      BY <2>1, <2>2, <3>3 DEF UnderWay
    <3> QED BY <2>1, <2>4, <3>4 DEF Answers, a
  <2> QED BY <2>1, <2>3, <2>4
<1>16. CASE LoseAnswer
  <2>1. Thinned(telemetry, telemetry')
    BY <1>16, <1>a, RemoveThinned DEF LoseAnswer
  <2>2. Answering' \subseteq Answering
    BY <2>1, ThinnedElements DEF Answering
  <2>3. UnderWay' \subseteq UnderWay
    BY <1>16, <2>2 DEF LoseAnswer, UnderWay, Current, buffers
  <2> QED BY <1>16, <2>1, <2>3 DEF LoseAnswer, Quiet
<1>17. CASE ReceiveOther
  <2>1. /\ UNCHANGED <<faultLog, telemetry, executed, scheduled, session>>
        /\ UNCHANGED <<uplink, task_queue, scheduler_command>>
        /\ command_buffer' = FifoPush(command_buffer, OtherCommand, BufferCapacity)
    BY <1>17 DEF ReceiveOther
  <2>2. Elements(command_buffer')
          \subseteq Elements(command_buffer) \cup {OtherCommand}
    BY <1>a, <2>1, ElementsOfPush, CapacityAssumption, <1>c
  <2>3. Current' = Current
    BY <2>1 DEF Current
  <2> QED BY <2>1, <2>2, <2>3, QuietStep DEF UnderWay
<1> QED
  BY <1>1, <1>3, <1>4, <1>5, <1>7, <1>8, <1>9, <1>10, <1>11, <1>12, <1>13,
     <1>14, <1>15, <1>16, <1>17 DEF Next, Ground, Session, Satellite

----------------------------------------------------------------------------
(* What a trigger and an answer's arrival do to the open re-requests.      *)
LEMMA OpenType ==
  ASSUME TypeOK, NEW s \in Sensor
  PROVE  /\ Open(s) \in Seq(Fault) /\ Len(Open(s)) \in Nat
         /\ \A i \in 1..Len(Open(s)) : Open(s)[i] \in Nat
<1>1. Open(s) \in Seq(Fault) /\ Len(Open(s)) \in Nat
  BY DEF TypeOK, Open, Situation
<1>2. \A i \in 1..Len(Open(s)) : Open(s)[i] \in Fault
  BY <1>1, ElementOfSeq
<1> QED BY <1>1, <1>2 DEF Fault

LEMMA TriggerFacts ==
  ASSUME TypeOK, NEW w \in Situation, NEW x \in Sensor, Trigger(w, x)
  PROVE  /\ UNCHANGED <<fault_resolve, telemetry, executed>>
         /\ logged' \in {logged, logged + 1}
         /\ \A s \in Sensor :
              \/ /\ Open(s)' = Open(s)
                 /\ ReRequestsOf(UnderWay', s) \subseteq ReRequestsOf(UnderWay, s)
              \/ /\ Open(s)' = Append(Open(s), logged + 1)
                 /\ logged' = logged + 1
                 /\ \E c : ReRequestsOf(UnderWay', s)
                             \subseteq ReRequestsOf(UnderWay, s) \cup {c}
<1> DEFINE c == [situation |-> w, sensor |-> x, fault |-> logged + 1]
<1>1. /\ UNCHANGED <<fault_resolve, telemetry, executed, session, uplink>>
      /\ UNCHANGED <<task_queue, command_buffer, scheduler_command>>
      /\ \/ /\ logged' = logged + 1
            /\ satellite_fault' = [satellite_fault EXCEPT ![<<w, x>>] =
                                     Append(@, logged + 1)]
            /\ scheduled' = scheduled \cup {c}
         \/ UNCHANGED <<logged, satellite_fault, scheduled>>
  BY DEF Trigger, buffers
<1>2. Answering' = Answering /\ Current' = Current
  BY <1>1 DEF Answering, Current
<1>3. c.situation = w /\ c.sensor = x
  OBVIOUS
<1> HIDE DEF c
<1>4. UnderWay' \subseteq UnderWay \cup {c}
  BY <1>1, <1>2 DEF UnderWay
<1>5. ASSUME NEW s \in Sensor
      PROVE  \/ /\ Open(s)' = Open(s)
                /\ ReRequestsOf(UnderWay', s) \subseteq ReRequestsOf(UnderWay, s)
             \/ /\ Open(s)' = Append(Open(s), logged + 1)
                /\ logged' = logged + 1
                /\ \E d : ReRequestsOf(UnderWay', s)
                            \subseteq ReRequestsOf(UnderWay, s) \cup {d}
  <2>1. CASE UNCHANGED <<logged, satellite_fault, scheduled>>
    <3>1. UnderWay' = UnderWay
      BY <1>1, <1>2, <2>1 DEF UnderWay
    <3> QED BY <2>1, <3>1 DEF Open
  <2>2. CASE /\ logged' = logged + 1
             /\ satellite_fault' = [satellite_fault EXCEPT ![<<w, x>>] =
                                      Append(@, logged + 1)]
    <3>0. /\ <<"ReRequest", s>> \in Situation \X Sensor
          /\ <<w, x>> \in Situation \X Sensor
          /\ satellite_fault \in [Situation \X Sensor -> Seq(Fault)]
      BY DEF Situation, TypeOK
    <3>1. CASE w = "ReRequest" /\ x = s
      <4>1. Open(s)' = Append(Open(s), logged + 1)
        BY <2>2, <3>0, <3>1 DEF Open
      <4>2. ReRequestsOf(UnderWay', s) \subseteq ReRequestsOf(UnderWay, s) \cup {c}
        BY <1>4 DEF ReRequestsOf
      <4> QED BY <2>2, <4>1, <4>2
    <3>2. CASE ~(w = "ReRequest" /\ x = s)
      <4>1. Open(s)' = Open(s)
        <5>1. <<w, x>> # <<"ReRequest", s>>
          BY <3>2
        <5> QED BY <2>2, <3>0, <5>1 DEF Open
      <4>2. ReRequestsOf(UnderWay', s) \subseteq ReRequestsOf(UnderWay, s)
        BY <1>3, <1>4, <3>2 DEF ReRequestsOf
      <4> QED BY <4>1, <4>2
    <3> QED BY <3>1, <3>2
  <2> QED BY <1>1, <2>1, <2>2
<1> QED BY <1>1, <1>5

(* What is left when the first element is taken.                           *)
LEMMA FirstRemoved ==
  ASSUME NEW S, NEW q \in Seq(S), q # <<>>
  PROVE  LET r == SubSeq(q, 1, 1 - 1) \o SubSeq(q, 1 + 1, Len(q))
         IN  /\ Len(r) = Len(q) - 1
             /\ \A i \in 1..Len(r) : r[i] = q[i + 1]
<1> DEFINE a == SubSeq(q, 1, 1 - 1)
           b == SubSeq(q, 1 + 1, Len(q))
           r == a \o b
<1>1. Len(q) \in Nat \ {0}
  BY HeadTailProperties
<1>2. \A i \in 2..Len(q) : q[i] \in S
  BY <1>1
<1>3. /\ b \in Seq(S) /\ Len(b) = Len(q) - 1
      /\ \A i \in 1..Len(b) : b[i] = q[i + 1]
  <2>1. b = SubSeq(q, 2, Len(q))
    OBVIOUS
  <2> HIDE DEF b
  <2>2. /\ b \in Seq(S)
        /\ Len(b) = IF 2 <= Len(q) THEN Len(q) - 2 + 1 ELSE 0
        /\ \A i \in 1..Len(q) - 2 + 1 : b[i] = q[2 + i - 1]
    BY <1>1, <1>2, <2>1, SubSeqProperties
  <2>3. Len(b) = Len(q) - 1
    <3>1. \A n \in Nat \ {0} : (IF 2 <= n THEN n - 2 + 1 ELSE 0) = n - 1
      OBVIOUS
    <3>2. Len(b) = IF 2 <= Len(q) THEN Len(q) - 2 + 1 ELSE 0
      BY <2>2
    <3> QED BY <1>1, <3>1, <3>2
  <2>4. \A i \in 1..Len(b) : b[i] = q[i + 1]
    <3> TAKE i \in 1..Len(b)
    <3>1. i \in 1..Len(q) - 2 + 1 /\ 2 + i - 1 = i + 1
      BY <1>1, <2>3
    <3> QED BY <2>2, <3>1
  <2> QED BY <2>2, <2>3, <2>4
<1>4. a \in Seq(S) /\ Len(a) = 0
  BY <1>1, SubSeqProperties
<1> HIDE DEF a, b
<1>5. /\ Len(r) = Len(a) + Len(b)
      /\ \A i \in 1..Len(a) + Len(b) :
           r[i] = IF i <= Len(a) THEN a[i] ELSE b[i - Len(a)]
  BY <1>3, <1>4, ConcatProperties
<1> HIDE DEF r
<1>6. Len(r) = Len(q) - 1 /\ \A i \in 1..Len(r) : r[i] = q[i + 1]
  BY <1>1, <1>3, <1>4, <1>5
<1> QED BY <1>6 DEF r, a, b

LEMMA DetectFacts ==
  ASSUME TypeOK, DetectResponse
  PROVE  \E a \in Answer, x \in Sensor :
           /\ a = Head(telemetry) /\ x = a.command.sensor
           /\ telemetry # <<>> /\ telemetry' = Tail(telemetry)
           /\ UNCHANGED <<logged, executed>>
           /\ UnderWay' \subseteq UnderWay
           /\ \A s \in Sensor \ {x} : /\ Open(s)' = Open(s)
                                      /\ fault_resolve'[s] = fault_resolve[s]
           /\ \/ Open(x) = <<>> /\ UNCHANGED <<satellite_fault, fault_resolve>>
              \/ /\ Open(x) # <<>>
                 /\ Len(Open(x)') = Len(Open(x)) - 1
                 /\ \A i \in 1..Len(Open(x)') : Open(x)'[i] = Open(x)[i + 1]
                 /\ fault_resolve'[x] = fault_resolve[x] \cup
                      {[fault |-> Open(x)[1], answer |-> a.command.situation,
                        stamp |-> a.stamp]}
<1>1. /\ telemetry # <<>> /\ telemetry' = Tail(telemetry)
      /\ UNCHANGED <<logged, executed, scheduled, session, uplink>>
      /\ UNCHANGED <<task_queue, command_buffer, scheduler_command>>
  BY DEF DetectResponse, buffers
<1>2. telemetry \in Seq(Answer) /\ Head(telemetry) \in Answer
  BY <1>1, QueueType DEF TypeOK
<1>3. PICK a \in Answer, x \in Sensor : a = Head(telemetry) /\ x = a.command.sensor
  BY <1>2 DEF Answer, Command
<1>4. UnderWay' \subseteq UnderWay
  <2>1. Elements(telemetry') \subseteq Elements(telemetry)
    BY <1>1, <1>2, ElementsOfQueue
  <2>2. Answering' \subseteq Answering /\ Current' = Current
    BY <1>1, <2>1 DEF Answering, Current
  <2> QED BY <1>1, <2>2 DEF UnderWay
<1> DEFINE r == [fault |-> Open(x)[1], answer |-> a.command.situation,
                 stamp |-> a.stamp]
           rest == SubSeq(Open(x), 1, 1 - 1) \o SubSeq(Open(x), 1 + 1, Len(Open(x)))
<1>5. CASE Open(x) = <<>>
  <2>1. UNCHANGED <<satellite_fault, fault_resolve>>
    BY <1>3, <1>5, Zenon DEF DetectResponse, Open
  <2>2. \A s \in Sensor \ {x} : Open(s)' = Open(s) /\ fault_resolve'[s] = fault_resolve[s]
    BY <2>1 DEF Open
  <2> QED BY <1>1, <1>3, <1>4, <1>5, <2>1, <2>2
<1>6. CASE Open(x) # <<>>
  <2>1. /\ fault_resolve' = [fault_resolve EXCEPT ![x] = @ \cup {r}]
        /\ satellite_fault' = [satellite_fault EXCEPT ![<<"ReRequest", x>>] = rest]
    BY <1>3, <1>6, Zenon DEF DetectResponse, First, Open
  <2>2. /\ fault_resolve \in [Sensor -> SUBSET Resolve]
        /\ satellite_fault \in [Situation \X Sensor -> Seq(Fault)]
        /\ \A s \in Sensor : <<"ReRequest", s>> \in Situation \X Sensor
    BY DEF TypeOK, Situation
  <2>3. Len(rest) = Len(Open(x)) - 1 /\ \A i \in 1..Len(rest) : rest[i] = Open(x)[i + 1]
    BY <1>6, OpenType, FirstRemoved
  <2> HIDE DEF rest, r
  <2>4. fault_resolve'[x] = fault_resolve[x] \cup {r}
    BY <2>1, <2>2
  <2>5. Open(x)' = rest
    BY <2>1, <2>2 DEF Open
  <2>6. \A s \in Sensor \ {x} : /\ Open(s)' = Open(s)
                                /\ fault_resolve'[s] = fault_resolve[s]
    <3> TAKE s \in Sensor \ {x}
    <3>1. <<"ReRequest", s>> # <<"ReRequest", x>>
      OBVIOUS
    <3> QED BY <2>1, <2>2, <3>1 DEF Open
  <2> QED BY <1>1, <1>3, <1>4, <1>6, <2>3, <2>4, <2>5, <2>6 DEF r
<1> QED BY <1>5, <1>6

----------------------------------------------------------------------------
(* The inductive invariant.  No command has two answers on their way; the  *)
(* answers and the open faults are in the order of their times; and of a   *)
(* sensor whose faults no loss of contact resolved, at least as many       *)
(* faults of time t or before are open as answers stamped by t come.       *)
OneAnswer ==
  /\ \A i \in 1..Len(telemetry) : telemetry[i].command.fault \in executed
  /\ \A i, j \in 1..Len(telemetry) :
       telemetry[i].command.fault = telemetry[j].command.fault => i = j

StampsAscend ==
  /\ \A i \in 1..Len(telemetry) : telemetry[i].stamp <= logged
  /\ \A i, j \in 1..Len(telemetry) :
       i < j => telemetry[i].stamp <= telemetry[j].stamp

OpenAscend ==
  \A s \in Sensor :
    /\ \A i \in 1..Len(Open(s)) : Open(s)[i] <= logged
    /\ \A i, j \in 1..Len(Open(s)) : i < j => Open(s)[i] <= Open(s)[j]

CountInv ==
  \A s \in Sensor :
    OnlyReRequests(s) => Cardinality(ReRequestsOf(UnderWay, s)) <= Len(Open(s))

AnsweredBy(s, t) ==
  ReRequestsOf({a.command : a \in {b \in Elements(telemetry) : b.stamp <= t}}, s)

RankInv ==
  \A s \in Sensor, t \in Nat :
    OnlyReRequests(s) /\ Cardinality(AnsweredBy(s, t)) > 0 =>
      /\ Cardinality(AnsweredBy(s, t)) <= Len(Open(s))
      /\ Open(s)[Cardinality(AnsweredBy(s, t))] <= t

AnswerInv ==
  OneAnswer /\ StampsAscend /\ OpenAscend /\ CountInv /\ RankInv /\ RecoveryTimesReal

----------------------------------------------------------------------------
LEMMA AnswerInit == TypeOK /\ Init => AnswerInv
<1> SUFFICES ASSUME TypeOK, Init PROVE AnswerInv
  OBVIOUS
<1>1. /\ Len(telemetry) = 0 /\ telemetry = <<>>
      /\ \A s \in Sensor : Open(s) = <<>> /\ Len(Open(s)) = 0 /\ fault_resolve[s] = {}
  BY DEF Init, Open, Situation
<1>2. Elements(<<>>) = {}
  BY DEF Elements
<1>3. OneAnswer /\ StampsAscend /\ OpenAscend
  BY <1>1 DEF OneAnswer, StampsAscend, OpenAscend
<1>4. UnderWay = {}
  <2>1. Current = <<>> /\ Answering = {}
    BY <1>1, <1>2 DEF Current, Answering, Init
  <2> QED BY <1>2, <2>1 DEF UnderWay, Init
<1>5. CountInv
  <2>1. \A s : ReRequestsOf(UnderWay, s) = {}
    BY <1>4 DEF ReRequestsOf
  <2> QED BY <1>1, <2>1, FS_EmptySet DEF CountInv
<1>6. RankInv
  <2>1. \A s, t : AnsweredBy(s, t) = {}
    BY <1>1, <1>2 DEF AnsweredBy, ReRequestsOf
  <2>2. Cardinality({}) = 0 /\ ~(0 > 0)
    BY FS_EmptySet
  <2> QED BY <2>1, <2>2, Zenon DEF RankInv
<1>7. RecoveryTimesReal
  BY <1>1 DEF RecoveryTimesReal
<1> QED BY <1>3, <1>5, <1>6, <1>7 DEF AnswerInv

(* What is not answered yet has not been executed.                         *)
LEMMA NotExecutedYet ==
  ASSUME TypeOK, LinkInv,
         NEW c \in scheduled \cup task_queue \cup Elements(Current)
                     \cup ((Elements(command_buffer) \cup Elements(scheduler_command))
                             \ {OtherCommand})
  PROVE  c.fault \notin executed
<1>1. CASE c \in scheduled
  BY <1>1 DEF LinkInv, ApartInv, FaultsOf
<1>2. CASE c \in task_queue
  <2>1. c.fault \in InSession
    BY <1>2 DEF InSession, FaultsOf
  <2> QED BY <2>1 DEF LinkInv, ApartInv
<1>a. ASSUME NEW q \in Seq(Element), c \in Elements(q), c # OtherCommand
      PROVE  c.fault \in Faults(q)
  <2>1. PICK i \in 1..Len(q) : c = q[i]
    BY <1>a DEF Elements
  <2>2. c.fault # 0
    BY <1>a, <2>1, NumberOf
  <2> QED BY <2>1, <2>2 DEF Faults
<1>3. CASE c \in Elements(Current)
  <2>1. Current \in Seq(Command) /\ Current \in Seq(Element)
    BY QueuesOfElements DEF TypeOK, Current
  <2>2. c # OtherCommand
    BY <1>3, <2>1, ElementsOfQueue, NumberOf
  <2>3. c.fault \in InSession
    BY <1>3, <1>a, <2>1, <2>2 DEF InSession
  <2> QED BY <2>3 DEF LinkInv, ApartInv
<1>4. CASE c \in (Elements(command_buffer) \cup Elements(scheduler_command))
                   \ {OtherCommand}
  <2>1. c.fault \in InSession
    BY <1>4, <1>a, QueuesOfElements DEF InSession
  <2> QED BY <2>1 DEF LinkInv, ApartInv
<1> QED BY <1>1, <1>2, <1>3, <1>4

LEMMA OneAnswerStep ==
  ASSUME TypeOK, LinkInv, OneAnswer, [Next]_vars
  PROVE  OneAnswer'
<1>a. ASSUME Thinned(telemetry, telemetry'), executed \subseteq executed'
      PROVE  OneAnswer'
  <2>1. PICK f \in [1..Len(telemetry') -> 1..Len(telemetry)] :
          /\ \A i, j \in 1..Len(telemetry') : i < j => f[i] < f[j]
          /\ \A i \in 1..Len(telemetry') : telemetry'[i] = telemetry[f[i]]
    BY <1>a DEF Thinned
  <2>2. \A i \in 1..Len(telemetry') : f[i] \in 1..Len(telemetry)
    BY <2>1
  <2>3. \A i \in 1..Len(telemetry') : telemetry'[i].command.fault \in executed'
    BY <1>a, <2>1, <2>2 DEF OneAnswer
  <2>4. ASSUME NEW i \in 1..Len(telemetry'), NEW j \in 1..Len(telemetry'),
               telemetry'[i].command.fault = telemetry'[j].command.fault
        PROVE  i = j
    <3>1. f[i] = f[j]
      BY <2>1, <2>2, <2>4 DEF OneAnswer
    <3>2. i \in Int /\ j \in Int /\ f[i] \in Int /\ f[j] \in Int
      BY <2>2
    <3>3. ~(i < j) /\ ~(j < i)
      BY <2>1, <3>1, <3>2
    <3> QED BY <3>2, <3>3
  <2> QED BY <2>3, <2>4 DEF OneAnswer
<1>1. CASE Quiet
  <2>1. CASE telemetry' = telemetry
    BY <1>1, <2>1 DEF Quiet, OneAnswer
  <2> QED BY <1>1, <1>a, <2>1 DEF Quiet
<1>2. ASSUME NEW w \in Situation, NEW s \in Sensor, Trigger(w, s)
      PROVE  OneAnswer'
  BY <1>2, TriggerFacts DEF OneAnswer
<1>3. ASSUME NEW c \in task_queue, Answers(c) PROVE OneAnswer'
  <2> DEFINE a == [command |-> c, stamp |-> logged]
  <2>1. a \in Answer /\ a.command = c
    BY DEF TypeOK, Answer
  <2>2. c.fault \notin executed
    BY NotExecutedYet
  <2>3. telemetry' = Append(telemetry, a) /\ executed' = executed \cup {c.fault}
    BY <1>3 DEF Answers
  <2> HIDE DEF a
  <2>4. /\ Len(telemetry') = Len(telemetry) + 1 /\ Len(telemetry) \in Nat
        /\ \A i \in 1..Len(telemetry) : telemetry'[i] = telemetry[i]
        /\ telemetry'[Len(telemetry) + 1] = a
    BY <2>1, <2>3 DEF TypeOK
  <2>5. \A i \in 1..Len(telemetry) : telemetry[i].command.fault # c.fault
    BY <2>2 DEF OneAnswer
  <2>6. \A i \in 1..Len(telemetry') :
          i \in 1..Len(telemetry) \/ i = Len(telemetry) + 1
    BY <2>4
  <2>7. \A i \in 1..Len(telemetry') : telemetry'[i].command.fault \in executed'
    BY <2>1, <2>3, <2>4, <2>6 DEF OneAnswer
  <2>8. ASSUME NEW i \in 1..Len(telemetry'), NEW j \in 1..Len(telemetry'),
               telemetry'[i].command.fault = telemetry'[j].command.fault
        PROVE  i = j
    BY <2>1, <2>4, <2>5, <2>6, <2>8 DEF OneAnswer
  <2> QED BY <2>7, <2>8 DEF OneAnswer
<1>4. CASE DetectResponse
  <2>1. telemetry # <<>> /\ telemetry' = Tail(telemetry) /\ executed' = executed
    BY <1>4, DetectFacts
  <2>2. Thinned(telemetry, telemetry')
    BY <2>1, TailThinned DEF TypeOK
  <2> QED BY <1>a, <2>1, <2>2
<1> QED BY <1>1, <1>2, <1>3, <1>4, StepKinds

LEMMA StampsAscendStep ==
  ASSUME TypeOK, StampsAscend, [Next]_vars
  PROVE  StampsAscend'
<1>a. ASSUME Thinned(telemetry, telemetry'), logged' = logged
      PROVE  StampsAscend'
  <2>1. PICK f \in [1..Len(telemetry') -> 1..Len(telemetry)] :
          /\ \A i, j \in 1..Len(telemetry') : i < j => f[i] < f[j]
          /\ \A i \in 1..Len(telemetry') : telemetry'[i] = telemetry[f[i]]
    BY <1>a DEF Thinned
  <2>2. \A i \in 1..Len(telemetry') : f[i] \in 1..Len(telemetry)
    BY <2>1
  <2> QED BY <1>a, <2>1, <2>2 DEF StampsAscend
<1>b. \A i \in 1..Len(telemetry) : telemetry[i].stamp \in Nat
  <2>1. \A i \in 1..Len(telemetry) : telemetry[i] \in Answer
    BY ElementOfSeq DEF TypeOK
  <2> QED BY <2>1 DEF Answer
<1>1. CASE Quiet
  <2>1. CASE telemetry' = telemetry
    BY <1>1, <2>1 DEF Quiet, StampsAscend, faultLog
  <2> QED BY <1>1, <1>a, <2>1 DEF Quiet, faultLog
<1>2. ASSUME NEW w \in Situation, NEW s \in Sensor, Trigger(w, s)
      PROVE  StampsAscend'
  <2>1. telemetry' = telemetry /\ logged' \in {logged, logged + 1} /\ logged \in Nat
    BY <1>2, TriggerFacts DEF TypeOK
  <2>2. \A n \in Nat : n <= logged => n <= logged'
    BY <2>1
  <2> QED BY <1>b, <2>1, <2>2 DEF StampsAscend
<1>3. ASSUME NEW c \in task_queue, Answers(c) PROVE StampsAscend'
  <2> DEFINE a == [command |-> c, stamp |-> logged]
  <2>1. a \in Answer /\ a.stamp = logged /\ logged \in Nat
    BY DEF TypeOK, Answer
  <2>2. telemetry' = Append(telemetry, a) /\ logged' = logged
    BY <1>3 DEF Answers, faultLog
  <2> HIDE DEF a
  <2>3. /\ Len(telemetry') = Len(telemetry) + 1 /\ Len(telemetry) \in Nat
        /\ \A i \in 1..Len(telemetry) : telemetry'[i] = telemetry[i]
        /\ telemetry'[Len(telemetry) + 1] = a
    BY <2>1, <2>2 DEF TypeOK
  <2>4. \A i \in 1..Len(telemetry') :
          i \in 1..Len(telemetry) \/ i = Len(telemetry) + 1
    BY <2>3
  <2>5. \A i \in 1..Len(telemetry') : telemetry'[i].stamp <= logged
    BY <2>1, <2>3, <2>4 DEF StampsAscend
  <2>6. ASSUME NEW i \in 1..Len(telemetry'), NEW j \in 1..Len(telemetry'), i < j
        PROVE  telemetry'[i].stamp <= telemetry'[j].stamp
    <3>1. CASE j \in 1..Len(telemetry)
      <4>1. i \in 1..Len(telemetry)
        BY <2>3, <2>6, <3>1
      <4> QED BY <2>3, <2>6, <3>1, <4>1 DEF StampsAscend
    <3>2. CASE j = Len(telemetry) + 1
      BY <2>1, <2>3, <2>5, <3>2
    <3> QED BY <2>4, <3>1, <3>2
  <2> QED BY <2>2, <2>5, <2>6 DEF StampsAscend
<1>4. CASE DetectResponse
  <2>1. telemetry # <<>> /\ telemetry' = Tail(telemetry) /\ logged' = logged
    BY <1>4, DetectFacts
  <2>2. Thinned(telemetry, telemetry')
    BY <2>1, TailThinned DEF TypeOK
  <2> QED BY <1>a, <2>1, <2>2
<1> QED BY <1>1, <1>2, <1>3, <1>4, StepKinds

LEMMA OpenAscendStep ==
  ASSUME TypeOK, OpenAscend, [Next]_vars
  PROVE  OpenAscend'
<1>a. logged \in Nat /\ \A s \in Sensor : Open(s) \in Seq(Fault) /\ Len(Open(s)) \in Nat
  BY OpenType DEF TypeOK
<1>b. \A s \in Sensor : \A i \in 1..Len(Open(s)) : Open(s)[i] \in Nat
  BY OpenType
<1>1. CASE UNCHANGED faultLog
  <2>1. logged' = logged /\ \A s \in Sensor : Open(s)' = Open(s)
    BY <1>1 DEF faultLog, Open
  <2> QED BY <2>1 DEF OpenAscend
<1>2. ASSUME NEW w \in Situation, NEW x \in Sensor, Trigger(w, x)
      PROVE  OpenAscend'
  <2> SUFFICES ASSUME NEW s \in Sensor
               PROVE  /\ \A i \in 1..Len(Open(s)') : Open(s)'[i] <= logged'
                      /\ \A i, j \in 1..Len(Open(s)') :
                           i < j => Open(s)'[i] <= Open(s)'[j]
    BY DEF OpenAscend
  <2>1. logged' \in {logged, logged + 1}
    BY <1>2, TriggerFacts
  <2>2. CASE Open(s)' = Open(s)
    BY <1>a, <1>b, <2>1, <2>2 DEF OpenAscend
  <2>3. CASE Open(s)' = Append(Open(s), logged + 1) /\ logged' = logged + 1
    <3> DEFINE r == Append(Open(s), logged + 1)
    <3>1. /\ Len(r) = Len(Open(s)) + 1
          /\ \A i \in 1..Len(Open(s)) : r[i] = Open(s)[i]
          /\ r[Len(Open(s)) + 1] = logged + 1
      BY <1>a
    <3> HIDE DEF r
    <3>2. \A i \in 1..Len(r) : i \in 1..Len(Open(s)) \/ i = Len(Open(s)) + 1
      BY <1>a, <3>1
    <3>3. \A i \in 1..Len(r) : r[i] <= logged + 1
      BY <1>a, <1>b, <3>1, <3>2 DEF OpenAscend
    <3>4. ASSUME NEW i \in 1..Len(r), NEW j \in 1..Len(r), i < j
          PROVE  r[i] <= r[j]
      <4>1. CASE j \in 1..Len(Open(s))
        <5>1. i \in 1..Len(Open(s))
          BY <1>a, <3>1, <3>4, <4>1
        <5> QED BY <3>1, <3>4, <4>1, <5>1 DEF OpenAscend
      <4>2. CASE j = Len(Open(s)) + 1
        BY <3>1, <3>3, <4>2
      <4> QED BY <3>2, <4>1, <4>2
    <3> QED BY <2>3, <3>3, <3>4 DEF r
  <2> QED BY <1>2, <2>2, <2>3, TriggerFacts
<1>3. CASE DetectResponse
  <2> SUFFICES ASSUME NEW s \in Sensor
               PROVE  /\ \A i \in 1..Len(Open(s)') : Open(s)'[i] <= logged'
                      /\ \A i, j \in 1..Len(Open(s)') :
                           i < j => Open(s)'[i] <= Open(s)'[j]
    BY DEF OpenAscend
  <2>1. /\ logged' = logged
        /\ \/ Open(s)' = Open(s)
           \/ /\ Len(Open(s)') = Len(Open(s)) - 1
              /\ \A i \in 1..Len(Open(s)') : Open(s)'[i] = Open(s)[i + 1]
    BY <1>3, DetectFacts DEF Open
  <2>2. CASE Open(s)' = Open(s)
    BY <2>1, <2>2 DEF OpenAscend
  <2>3. CASE /\ Len(Open(s)') = Len(Open(s)) - 1
             /\ \A i \in 1..Len(Open(s)') : Open(s)'[i] = Open(s)[i + 1]
    <3>1. \A i \in 1..Len(Open(s)') : i \in Nat /\ i + 1 \in 1..Len(Open(s))
      BY <1>a, <2>3
    <3>2. \A i \in 1..Len(Open(s)') : Open(s)'[i] <= logged'
      BY <2>1, <2>3, <3>1 DEF OpenAscend
    <3>3. ASSUME NEW i \in 1..Len(Open(s)'), NEW j \in 1..Len(Open(s)'), i < j
          PROVE  Open(s)'[i] <= Open(s)'[j]
      <4>1. i + 1 < j + 1
        BY <3>3
      <4> QED BY <2>3, <3>1, <4>1 DEF OpenAscend
    <3> QED BY <3>2, <3>3
  <2> QED BY <2>1, <2>2, <2>3
<1> QED BY <1>1, <1>2, <1>3, StepKinds DEF Quiet, Answers

----------------------------------------------------------------------------
(* Resolved faults stay resolved.                                          *)
LEMMA ResolvesStay ==
  ASSUME TypeOK, [Next]_vars, NEW s \in Sensor
  PROVE  /\ fault_resolve[s] \subseteq fault_resolve'[s]
         /\ OnlyReRequests(s)' => OnlyReRequests(s)
<1>1. fault_resolve[s] \subseteq fault_resolve'[s]
  <2>1. CASE UNCHANGED faultLog
    BY <2>1 DEF faultLog
  <2>2. ASSUME NEW w \in Situation, NEW x \in Sensor, Trigger(w, x)
        PROVE  fault_resolve' = fault_resolve
    BY <2>2, TriggerFacts
  <2>3. CASE DetectResponse
    <3>1. \/ fault_resolve'[s] = fault_resolve[s]
          \/ \E r : fault_resolve'[s] = fault_resolve[s] \cup {r}
      BY <2>3, DetectFacts
    <3> QED BY <3>1
  <2> QED BY <2>1, <2>2, <2>3, StepKinds DEF Quiet, Answers
<1> QED BY <1>1 DEF OnlyReRequests

(* An answer that has arrived is not under way any more.                   *)
LEMMA HeadGone ==
  ASSUME TypeOK, LinkInv, OneAnswer, DetectResponse,
         NEW c, c = Head(telemetry).command
  PROVE  c \in Answering /\ c \notin UnderWay'
<1>1. /\ telemetry # <<>> /\ telemetry' = Tail(telemetry)
      /\ UNCHANGED <<scheduled, session, uplink, task_queue>>
      /\ UNCHANGED <<command_buffer, scheduler_command>>
  BY DEF DetectResponse, buffers
<1>2. /\ Len(telemetry) \in Nat \ {0} /\ Len(telemetry') = Len(telemetry) - 1
      /\ Head(telemetry) = telemetry[1]
      /\ \A i \in 1..Len(telemetry') : telemetry'[i] = telemetry[i + 1]
  BY <1>1, HeadTailProperties DEF TypeOK
<1>3. 1 \in 1..Len(telemetry) /\ c.fault \in executed /\ c \in Answering
  BY <1>2 DEF OneAnswer, Answering, Elements
<1>4. c \notin Answering'
  <2>1. \A i \in 1..Len(telemetry') : i + 1 \in 1..Len(telemetry) /\ i + 1 # 1
    BY <1>2
  <2>2. \A i \in 1..Len(telemetry') : telemetry[i + 1].command.fault # c.fault
    BY <1>2, <1>3, <2>1 DEF OneAnswer
  <2>3. \A i \in 1..Len(telemetry') : telemetry'[i].command # c
    BY <1>2, <2>2
  <2> QED BY <2>3 DEF Answering, Elements
<1>5. Current' = Current
  BY <1>1 DEF Current
<1> QED BY <1>1, <1>3, <1>4, <1>5, NotExecutedYet DEF UnderWay

(* Counting a part of a finite set, one element more, one element less.    *)
LEMMA SubsetCount ==
  ASSUME NEW S \in SUBSET Command, NEW s, NEW T \in SUBSET ReRequestsOf(S, s)
  PROVE  /\ IsFiniteSet(T) /\ Cardinality(T) \in Nat
         /\ Cardinality(T) <= Cardinality(ReRequestsOf(S, s))
BY FiniteReRequests, FS_Subset, FS_CardinalityType

LEMMA CountOneMore ==
  ASSUME NEW R, IsFiniteSet(R), NEW c, NEW T \in SUBSET (R \cup {c})
  PROVE  Cardinality(T) \in Nat /\ Cardinality(T) <= Cardinality(R) + 1
<1>1. IsFiniteSet(R \cup {c}) /\ Cardinality(R) \in Nat
  BY FS_AddElement, FS_CardinalityType
<1>2. Cardinality(R \cup {c}) = Cardinality(R)
        \/ Cardinality(R \cup {c}) = Cardinality(R) + 1
  BY FS_AddElement
<1>3. Cardinality(T) \in Nat /\ Cardinality(T) <= Cardinality(R \cup {c})
  BY <1>1, FS_Subset, FS_CardinalityType
<1> QED BY <1>1, <1>2, <1>3

LEMMA CountOneLess ==
  ASSUME NEW R, IsFiniteSet(R), NEW c \in R, NEW T \in SUBSET (R \ {c})
  PROVE  Cardinality(T) \in Nat /\ Cardinality(T) + 1 <= Cardinality(R)
<1>1. IsFiniteSet(R \ {c}) /\ Cardinality(R) \in Nat
  BY FS_RemoveElement, FS_CardinalityType
<1>2. Cardinality(R \ {c}) = Cardinality(R) - 1
  BY FS_RemoveElement
<1>3. Cardinality(T) \in Nat /\ Cardinality(T) <= Cardinality(R \ {c})
  BY <1>1, FS_Subset, FS_CardinalityType
<1> QED BY <1>1, <1>2, <1>3

LEMMA CountStep ==
  ASSUME TypeOK, LinkInv, OneAnswer, CountInv, [Next]_vars
  PROVE  CountInv'
<1> SUFFICES ASSUME NEW s \in Sensor, OnlyReRequests(s)'
             PROVE  Cardinality(ReRequestsOf(UnderWay', s)) <= Len(Open(s)')
  BY DEF CountInv, ReRequestsOf
<1> DEFINE R == ReRequestsOf(UnderWay, s)
           next == ReRequestsOf(UnderWay', s)
<1>a. UnderWay \in SUBSET Command /\ Len(Open(s)) \in Nat
  BY UnderWayType, OpenType
<1>b. /\ IsFiniteSet(R) /\ Cardinality(R) \in Nat
      /\ Cardinality(R) <= Len(Open(s))
  BY <1>a, FiniteReRequests, ResolvesStay DEF CountInv
<1>c. ASSUME next \subseteq R, Open(s)' = Open(s)
      PROVE  Cardinality(next) <= Len(Open(s)')
  <2>1. Cardinality(next) \in Nat /\ Cardinality(next) <= Cardinality(R)
    BY <1>a, <1>c, SubsetCount
  <2> QED BY <1>a, <1>b, <1>c, <2>1
<1>1. CASE UnderWay' \subseteq UnderWay /\ UNCHANGED faultLog
  <2>1. next \subseteq R /\ Open(s)' = Open(s)
    BY <1>1 DEF ReRequestsOf, Open, faultLog
  <2> QED BY <1>c, <2>1
<1>2. ASSUME NEW w \in Situation, NEW x \in Sensor, Trigger(w, x)
      PROVE  Cardinality(next) <= Len(Open(s)')
  <2>1. CASE Open(s)' = Open(s) /\ next \subseteq R
    BY <1>c, <2>1
  <2>2. CASE /\ Open(s)' = Append(Open(s), logged + 1)
             /\ \E c : next \subseteq R \cup {c}
    <3>1. PICK c : next \subseteq R \cup {c}
      BY <2>2
    <3> HIDE DEF R, next
    <3>2. Cardinality(next) \in Nat /\ Cardinality(next) <= Cardinality(R) + 1
      BY <1>b, <3>1, CountOneMore
    <3>3. Len(Open(s)') = Len(Open(s)) + 1
      BY <2>2, OpenType
    <3> QED BY <1>a, <1>b, <3>2, <3>3
  <2> QED BY <1>2, <2>1, <2>2, TriggerFacts
<1>3. CASE DetectResponse
  <2>1. PICK a \in Answer, x \in Sensor :
          /\ a = Head(telemetry) /\ x = a.command.sensor
          /\ UnderWay' \subseteq UnderWay
          /\ \A z \in Sensor \ {x} : Open(z)' = Open(z)
          /\ \/ Open(x) = <<>> /\ UNCHANGED satellite_fault
             \/ /\ Len(Open(x)') = Len(Open(x)) - 1
                /\ fault_resolve'[x] = fault_resolve[x] \cup
                     {[fault |-> Open(x)[1], answer |-> a.command.situation,
                       stamp |-> a.stamp]}
    BY <1>3, DetectFacts
  <2>2. next \subseteq R
    BY <2>1 DEF ReRequestsOf
  <2>3. CASE Open(s)' = Open(s)
    BY <1>c, <2>2, <2>3
  <2>4. CASE /\ s = x /\ Len(Open(x)') = Len(Open(x)) - 1
             /\ fault_resolve'[x] = fault_resolve[x] \cup
                  {[fault |-> Open(x)[1], answer |-> a.command.situation,
                    stamp |-> a.stamp]}
    <3> DEFINE c == a.command
    <3>1. c.situation = "ReRequest"
      <4> DEFINE r == [fault |-> Open(x)[1], answer |-> c.situation,
                       stamp |-> a.stamp]
      <4>1. r \in fault_resolve'[s] /\ r.answer = c.situation
        BY <2>4
      <4> HIDE DEF r
      <4> QED BY <4>1 DEF OnlyReRequests
    <3>2. c \in UnderWay /\ c \notin UnderWay'
      BY <1>3, <2>1, HeadGone DEF UnderWay
    <3>3. c \in R /\ next \subseteq R \ {c}
      BY <2>1, <2>2, <2>4, <3>1, <3>2 DEF ReRequestsOf
    <3> HIDE DEF c, R, next
    <3>4. Cardinality(next) \in Nat /\ Cardinality(next) + 1 <= Cardinality(R)
      BY <1>b, <3>3, CountOneLess
    <3> QED BY <1>a, <1>b, <2>4, <3>4 DEF next
  <2> QED BY <2>1, <2>3, <2>4 DEF Open
<1> QED BY <1>1, <1>2, <1>3, StepKinds DEF Quiet, Answers

----------------------------------------------------------------------------
(* The answers stamped by t are among the re-requests under way.           *)
LEMMA AnsweredType ==
  ASSUME TypeOK, NEW s \in Sensor, NEW t
  PROVE  /\ AnsweredBy(s, t) \subseteq ReRequestsOf(UnderWay, s)
         /\ IsFiniteSet(AnsweredBy(s, t)) /\ Cardinality(AnsweredBy(s, t)) \in Nat
         /\ Cardinality(AnsweredBy(s, t)) <= Cardinality(ReRequestsOf(UnderWay, s))
<1>1. AnsweredBy(s, t) \subseteq ReRequestsOf(UnderWay, s)
  BY DEF AnsweredBy, ReRequestsOf, UnderWay, Answering
<1> QED BY <1>1, UnderWayType, SubsetCount

(* Fewer answers, or the same open faults with later ones behind them.     *)
LEMMA RankKept ==
  ASSUME TypeOK, OpenAscend, RankInv, NEW s \in Sensor, NEW t \in Nat,
         OnlyReRequests(s),
         NEW T \in SUBSET AnsweredBy(s, t), Cardinality(T) > 0
  PROVE  /\ Cardinality(T) \in 1..Len(Open(s))
         /\ Open(s)[Cardinality(T)] <= t
<1> DEFINE m == Cardinality(T)
           n == Cardinality(AnsweredBy(s, t))
<1>1. /\ IsFiniteSet(AnsweredBy(s, t)) /\ n \in Nat /\ m \in Nat /\ m <= n
  BY AnsweredType, FS_Subset, FS_CardinalityType
<1>2. n > 0 /\ m > 0
  BY <1>1
<1>3. n <= Len(Open(s)) /\ Open(s)[n] <= t
  BY <1>2 DEF RankInv
<1>4. Len(Open(s)) \in Nat /\ Open(s) \in Seq(Fault)
  BY OpenType
<1> HIDE DEF m, n
<1>5. m \in 1..Len(Open(s)) /\ n \in 1..Len(Open(s))
  BY <1>1, <1>2, <1>3, <1>4
<1>6. Open(s)[m] \in Nat /\ Open(s)[n] \in Nat
  BY <1>5, OpenType
<1>7. Open(s)[m] <= Open(s)[n]
  <2>1. CASE m = n
    BY <1>6, <2>1
  <2>2. CASE m < n
    BY <1>5, <2>2 DEF OpenAscend
  <2> QED BY <1>1, <2>1, <2>2
<1>8. Open(s)[m] <= t
  BY <1>3, <1>6, <1>7
<1> QED BY <1>5, <1>8 DEF m

LEMMA RankStep ==
  ASSUME TypeOK, LinkInv, OneAnswer, StampsAscend, OpenAscend, CountInv, RankInv,
         [Next]_vars
  PROVE  RankInv'
<1> SUFFICES ASSUME NEW s \in Sensor, NEW t \in Nat, OnlyReRequests(s)',
                    Cardinality(AnsweredBy(s, t)') > 0
             PROVE  /\ Cardinality(AnsweredBy(s, t)') <= Len(Open(s)')
                    /\ Open(s)'[Cardinality(AnsweredBy(s, t)')] <= t
  BY DEF RankInv
<1> DEFINE next == AnsweredBy(s, t)'
           m == Cardinality(next)
<1>a. OnlyReRequests(s)
  BY ResolvesStay
<1>b. Len(Open(s)) \in Nat /\ Open(s) \in Seq(Fault)
  BY OpenType
<1>c. ASSUME next \subseteq AnsweredBy(s, t),
             \A i \in 1..Len(Open(s)) : i <= Len(Open(s)') /\ Open(s)'[i] = Open(s)[i]
      PROVE  m <= Len(Open(s)') /\ Open(s)'[m] <= t
  BY <1>a, <1>c, RankKept
<1>d. Elements(telemetry') \subseteq Elements(telemetry) => next \subseteq AnsweredBy(s, t)
  BY DEF AnsweredBy, ReRequestsOf
<1>1. CASE Quiet
  <2>1. Elements(telemetry') \subseteq Elements(telemetry)
    BY <1>1, ThinnedElements DEF Quiet
  <2>2. Open(s)' = Open(s)
    BY <1>1 DEF Quiet, faultLog, Open
  <2>3. \A i \in 1..Len(Open(s)) : i <= Len(Open(s)') /\ Open(s)'[i] = Open(s)[i]
    BY <1>b, <2>2
  <2> QED BY <1>c, <1>d, <2>1, <2>3
<1>2. ASSUME NEW w \in Situation, NEW x \in Sensor, Trigger(w, x)
      PROVE  m <= Len(Open(s)') /\ Open(s)'[m] <= t
  <2>1. telemetry' = telemetry
    BY <1>2, TriggerFacts
  <2>2. \A i \in 1..Len(Open(s)) : i <= Len(Open(s)') /\ Open(s)'[i] = Open(s)[i]
    <3>1. CASE Open(s)' = Open(s)
      BY <1>b, <3>1
    <3>2. CASE Open(s)' = Append(Open(s), logged + 1)
      BY <1>b, <3>2
    <3> QED BY <1>2, <3>1, <3>2, TriggerFacts
  <2> QED BY <1>c, <1>d, <2>1, <2>2
<1>3. ASSUME NEW c \in task_queue, Answers(c)
      PROVE  m <= Len(Open(s)') /\ Open(s)'[m] <= t
  <2> DEFINE a == [command |-> c, stamp |-> logged]
  <2>1. Open(s)' = Open(s) /\ UnderWay' \subseteq UnderWay
    BY <1>3 DEF Answers, faultLog, Open
  <2>2. a \in Answer /\ a.stamp = logged /\ logged \in Nat
    BY DEF TypeOK, Answer
  <2>3. telemetry' = Append(telemetry, a)
    BY <1>3 DEF Answers
  <2> HIDE DEF a
  <2>4. Elements(telemetry') = Elements(telemetry) \cup {a}
    BY <2>2, <2>3, ElementsOfQueue DEF TypeOK
  <2>5. CASE t < logged
    <3>1. ~(a.stamp <= t)
      BY <2>2, <2>5
    <3>2. next \subseteq AnsweredBy(s, t)
      BY <2>4, <3>1 DEF AnsweredBy, ReRequestsOf
    <3>3. \A i \in 1..Len(Open(s)) : i <= Len(Open(s)') /\ Open(s)'[i] = Open(s)[i]
      BY <1>b, <2>1
    <3> QED BY <1>c, <3>2, <3>3
  <2>6. CASE t >= logged
    <3>1. next \subseteq ReRequestsOf(UnderWay, s)
      <4>1. next \subseteq ReRequestsOf(UnderWay', s)
        BY DEF AnsweredBy, ReRequestsOf, UnderWay, Answering
      <4> QED BY <2>1, <4>1 DEF ReRequestsOf
    <3> HIDE DEF next
    <3>2. m \in Nat /\ m <= Cardinality(ReRequestsOf(UnderWay, s))
      BY <3>1, UnderWayType, SubsetCount
    <3>3. Cardinality(ReRequestsOf(UnderWay, s)) \in Nat
      BY UnderWayType, FiniteReRequests
    <3>4. Cardinality(ReRequestsOf(UnderWay, s)) <= Len(Open(s))
      BY <1>a DEF CountInv
    <3>5. m > 0
      BY DEF next
    <3> HIDE DEF m
    <3>6. m \in 1..Len(Open(s))
      BY <1>b, <3>2, <3>3, <3>4, <3>5
    <3>7. Open(s)[m] <= logged /\ Open(s)[m] \in Nat
      BY <3>6, OpenType DEF OpenAscend
    <3> QED BY <1>b, <2>1, <2>2, <2>6, <3>6, <3>7
  <2> QED BY <2>2, <2>5, <2>6
<1>4. CASE DetectResponse
  <2>1. PICK a \in Answer, x \in Sensor :
          /\ a = Head(telemetry) /\ x = a.command.sensor
          /\ telemetry # <<>> /\ telemetry' = Tail(telemetry)
          /\ \A z \in Sensor \ {x} : Open(z)' = Open(z)
          /\ \/ Open(x) = <<>> /\ UNCHANGED satellite_fault
             \/ /\ Len(Open(x)') = Len(Open(x)) - 1
                /\ \A i \in 1..Len(Open(x)') : Open(x)'[i] = Open(x)[i + 1]
                /\ fault_resolve'[x] = fault_resolve[x] \cup
                     {[fault |-> Open(x)[1], answer |-> a.command.situation,
                       stamp |-> a.stamp]}
    BY <1>4, DetectFacts
  <2>2. /\ Elements(telemetry') \subseteq Elements(telemetry)
        /\ a \in Elements(telemetry)
    BY <2>1, ElementsOfQueue DEF TypeOK
  <2>3. next \subseteq AnsweredBy(s, t)
    BY <1>d, <2>2
  <2>4. CASE Open(s)' = Open(s)
    <3>1. \A i \in 1..Len(Open(s)) : i <= Len(Open(s)') /\ Open(s)'[i] = Open(s)[i]
      BY <1>b, <2>4
    <3> QED BY <1>c, <2>3, <3>1
  <2>5. CASE /\ s = x /\ Len(Open(x)') = Len(Open(x)) - 1
             /\ \A i \in 1..Len(Open(x)') : Open(x)'[i] = Open(x)[i + 1]
             /\ fault_resolve'[x] = fault_resolve[x] \cup
                  {[fault |-> Open(x)[1], answer |-> a.command.situation,
                    stamp |-> a.stamp]}
    <3> DEFINE c == a.command
               n == Cardinality(AnsweredBy(s, t))
    <3>1. c.situation = "ReRequest"
      <4> DEFINE r == [fault |-> Open(x)[1], answer |-> c.situation,
                       stamp |-> a.stamp]
      <4>1. r \in fault_resolve'[s] /\ r.answer = c.situation
        BY <2>5
      <4> HIDE DEF r
      <4> QED BY <4>1 DEF OnlyReRequests
    <3>2. a.stamp <= t
      <4>1. next # {}
        BY FS_EmptySet
      <4>2. PICK b \in Elements(telemetry') : b.stamp <= t
        BY <4>1 DEF AnsweredBy, ReRequestsOf
      <4>3. PICK i \in 1..Len(telemetry') : b = telemetry'[i]
        BY <4>2 DEF Elements
      <4>4. /\ Len(telemetry') = Len(telemetry) - 1 /\ Len(telemetry) \in Nat \ {0}
            /\ telemetry'[i] = telemetry[i + 1] /\ a = telemetry[1]
        BY <2>1, HeadTailProperties DEF TypeOK
      <4>5. i + 1 \in 1..Len(telemetry) /\ 1 \in 1..Len(telemetry) /\ 1 < i + 1
        BY <4>4
      <4>6. a.stamp <= b.stamp
        BY <4>3, <4>4, <4>5 DEF StampsAscend
      <4>7. a.stamp \in Nat /\ b.stamp \in Nat
        <5>1. b \in Answer
          BY <4>3, <4>4, <4>5, ElementOfSeq DEF TypeOK
        <5> QED BY <2>1, <5>1 DEF Answer
      <4> QED BY <4>2, <4>6, <4>7
    <3>3. c \in AnsweredBy(s, t)
      BY <2>1, <2>2, <2>5, <3>1, <3>2 DEF AnsweredBy, ReRequestsOf
    <3>4. c \notin next
      <4>1. c \notin Answering'
        BY <1>4, <2>1, HeadGone DEF UnderWay
      <4> QED BY <4>1 DEF AnsweredBy, ReRequestsOf, Answering
    <3> HIDE DEF c
    <3>5. m \in Nat /\ m + 1 <= n /\ n \in Nat
      <4>1. next \subseteq AnsweredBy(s, t) \ {c}
        BY <2>3, <3>4
      <4> HIDE DEF next
      <4> QED BY <3>3, <4>1, AnsweredType, CountOneLess
    <3>6. m > 0
      OBVIOUS
    <3> HIDE DEF m, next
    <3>7. n > 0
      BY <3>5
    <3>8. n \in 1..Len(Open(s)) /\ Open(s)[n] <= t
      BY <1>a, <3>7, RankKept
    <3> HIDE DEF n
    <3>9. m \in 1..Len(Open(s)') /\ m + 1 \in 1..Len(Open(s))
      BY <1>b, <2>5, <3>5, <3>6, <3>8
    <3>10. Open(s)'[m] = Open(s)[m + 1]
      BY <2>5, <3>9
    <3>11. Open(s)[m + 1] \in Nat /\ Open(s)[n] \in Nat
      BY <3>8, <3>9, OpenType
    <3>12. Open(s)[m + 1] <= Open(s)[n]
      <4>1. CASE m + 1 = n
        BY <3>11, <4>1
      <4>2. CASE m + 1 < n
        BY <3>8, <3>9, <4>2 DEF OpenAscend
      <4> QED BY <3>5, <4>1, <4>2
    <3>13. Open(s)'[m] <= t
      BY <3>8, <3>10, <3>11, <3>12
    <3>14. m <= Len(Open(s)')
      BY <3>9
    <3> QED BY <3>13, <3>14 DEF m, next
  <2> QED BY <2>1, <2>4, <2>5 DEF Open
<1> QED BY <1>1, <1>2, <1>3, <1>4, StepKinds

(* The fault that an answer resolves is the oldest open one, and there is  *)
(* an open fault that is not younger than the answer.                      *)
LEMMA RecoveryStep ==
  ASSUME TypeOK, LinkInv, OneAnswer, OpenAscend, RankInv, RecoveryTimesReal,
         [Next]_vars
  PROVE  RecoveryTimesReal'
<1> SUFFICES ASSUME NEW s \in Sensor, OnlyReRequests(s)',
                    NEW r \in fault_resolve'[s]
             PROVE  r.fault <= r.stamp
  BY DEF RecoveryTimesReal
<1>a. OnlyReRequests(s)
  BY ResolvesStay
<1>b. r \in fault_resolve[s] => r.fault <= r.stamp
  BY <1>a DEF RecoveryTimesReal
<1>1. CASE UNCHANGED faultLog
  BY <1>1, <1>b DEF faultLog
<1>2. ASSUME NEW w \in Situation, NEW x \in Sensor, Trigger(w, x)
      PROVE  r.fault <= r.stamp
  BY <1>2, <1>b, TriggerFacts
<1>3. CASE DetectResponse
  <2>1. PICK a \in Answer, x \in Sensor :
          /\ a = Head(telemetry) /\ x = a.command.sensor /\ telemetry # <<>>
          /\ \A z \in Sensor \ {x} : fault_resolve'[z] = fault_resolve[z]
          /\ \/ UNCHANGED fault_resolve
             \/ fault_resolve'[x] = fault_resolve[x] \cup
                  {[fault |-> Open(x)[1], answer |-> a.command.situation,
                    stamp |-> a.stamp]}
    BY <1>3, DetectFacts
  <2>2. CASE r \in fault_resolve[s]
    BY <1>b, <2>2
  <2>3. CASE s = x /\ r = [fault |-> Open(x)[1], answer |-> a.command.situation,
                           stamp |-> a.stamp]
    <3>1. r.fault = Open(s)[1] /\ r.answer = a.command.situation /\ r.stamp = a.stamp
      BY <2>3
    <3>2. a.command.situation = "ReRequest"
      BY <3>1 DEF OnlyReRequests
    <3>3. a.stamp \in Nat
      BY <2>1 DEF Answer
    <3>4. a \in Elements(telemetry)
      BY <2>1, ElementsOfQueue DEF TypeOK
    <3>5. a.command \in AnsweredBy(s, a.stamp)
      BY <2>1, <2>3, <3>2, <3>3, <3>4 DEF AnsweredBy, ReRequestsOf
    <3> DEFINE T == {a.command}
    <3>6. T \in SUBSET AnsweredBy(s, a.stamp) /\ Cardinality(T) = 1
      BY <3>5, FS_Singleton
    <3> HIDE DEF T
    <3>7. Open(s)[Cardinality(T)] <= a.stamp
      BY <1>a, <3>3, <3>6, RankKept
    <3> QED BY <3>1, <3>6, <3>7
  <2> QED BY <2>1, <2>2, <2>3
<1> QED BY <1>1, <1>2, <1>3, StepKinds DEF Quiet, Answers

----------------------------------------------------------------------------
(* Its parts put together.                                                 *)
LEMMA AnswerStep == TypeOK /\ LinkInv /\ AnswerInv /\ [Next]_vars => AnswerInv'
BY OneAnswerStep, StampsAscendStep, OpenAscendStep, CountStep, RankStep, RecoveryStep
   DEF AnswerInv

LEMMA AnswerInvariant == Spec => [](TypeOK /\ AnswerInv)
<1> QED BY TypeInit, TypeStep, LinkInit, LinkStep, AnswerInit, AnswerStep, PTL DEF Spec

(* As long as no answer to a loss of contact has resolved a fault of its   *)
(* sensor, every answer to a re-request finds an open fault: no sequence   *)
(* of rejections, restarts, evictions and losses leaves more commands      *)
(* under way than there are faults open.                                   *)
THEOREM EveryAnswerFindsFault == Spec => []AnswersFindFaults
<1>1. TypeOK /\ AnswerInv => AnswersFindFaults
  BY OnTheWayIs DEF AnswerInv, CountInv, AnswersFindFaults, Open
<1> QED BY <1>1, AnswerInvariant, PTL

(* And the fault that it resolves is older than itself: the recovery time, *)
(* an unsigned difference of the two, does not wrap around.                *)
THEOREM NoNegativeRecovery == Spec => []RecoveryTimesReal
<1>1. AnswerInv => RecoveryTimesReal
  BY DEF AnswerInv
<1> QED BY <1>1, AnswerInvariant, PTL

=============================================================================
