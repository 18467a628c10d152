--------------------------- MODULE TelelinkProofs ---------------------------
(***************************************************************************)
(* Theorems about Telelink, for any sensors, capacities and bounds.        *)
(***************************************************************************)
EXTENDS Telelink, SequenceTheorems, TLAPS

(* What the encoder and the window hold at each of their steps.            *)
HoldsInv ==
  /\ encoder = "queue" <=> Len(encoded) = 1
  /\ window = "publishing" <=> Len(sending) = 1

(* Max is a choice: the numbers received have a greatest.                  *)
MaximumInv ==
  \A s \in Sensor :
    received[s] = {} \/ \E m \in received[s] : \A n \in received[s] : n <= m

Typing == TypeOK /\ HoldsInv /\ MaximumInv

LEMMA PacketType ==
  ASSUME NEW p \in Prefix, NEW n \in Nat \ {0}, n <= MaxPackets[p]
  PROVE  [prefix |-> p, num |-> n] \in Packet
<1>1. MaxPackets[p] \in Nat
  BY BoundAssumption DEF Prefix
<1> QED BY <1>1 DEF Packet

LEMMA PacketFields ==
  ASSUME NEW e \in Packet
  PROVE  /\ e.prefix \in Prefix /\ e.num \in Nat \ {0}
         /\ e.num <= MaxPackets[e.prefix]
         /\ e = [prefix |-> e.prefix, num |-> e.num]
<1>1. PICK p \in Prefix : e \in [prefix : {p}, num : 1..MaxPackets[p]]
  BY DEF Packet
<1>2. MaxPackets[p] \in Nat
  BY BoundAssumption DEF Prefix
<1> QED BY <1>1, <1>2

LEMMA FifoPushType ==
  ASSUME NEW S, NEW q \in Seq(S), NEW e \in S, NEW n \in Nat \ {0}, Len(q) <= n
  PROVE  /\ FifoPush(q, e, n) \in Seq(S) /\ Len(FifoPush(q, e, n)) <= n
         /\ FifoDropped(q, n) \subseteq S
BY DEF FifoPush, FifoDropped

LEMMA ElementsType ==
  ASSUME NEW S, NEW q \in Seq(S) PROVE Elements(q) \subseteq S
BY DEF Elements

LEMMA WaitingType ==
  ASSUME TypeOK
  PROVE  Elements(transmission_queue \o encoded) \subseteq Packet
<1>1. transmission_queue \o encoded \in Seq(Packet)
  BY ConcatProperties DEF TypeOK
<1> QED BY <1>1, ElementsType

LEMMA OlderType ==
  ASSUME NEW w \in -1..1
  PROVE  Older(w) \in -1..1 /\ Older(w) <= 0
BY DEF Older

LEMMA PrevMax ==
  ASSUME Typing, NEW s \in Sensor
  PROVE  /\ prev_max(s) \in Nat
         /\ \A n \in received[s] : n <= prev_max(s)
         /\ IF received[s] = {} THEN prev_max(s) = 0
                                ELSE prev_max(s) \in received[s]
<1>1. received[s] \subseteq Nat
  BY DEF Typing, TypeOK
<1>2. CASE received[s] = {}
  BY <1>2 DEF prev_max
<1>3. CASE received[s] # {}
  <2>1. \E m \in received[s] : \A n \in received[s] : m >= n
    BY <1>1, <1>3 DEF Typing, MaximumInv
  <2>2. /\ Max(received[s]) \in received[s]
        /\ \A n \in received[s] : Max(received[s]) >= n
    BY <2>1 DEF Max
  <2> QED BY <1>1, <1>3, <2>2 DEF prev_max
<1> QED BY <1>2, <1>3

LEMMA MissingType ==
  ASSUME Typing, NEW s \in Sensor, NEW num \in Nat
  PROVE  Missing(s, num) \subseteq Nat
BY PrevMax DEF Missing

LEMMA SingleType ==
  ASSUME NEW S, NEW q \in Seq(S), Len(q) = 1
  PROVE  q[1] \in S /\ q = <<q[1]>>
<1>1. q[1] \in S
  OBVIOUS
<1> DEFINE r == <<q[1]>>
<1>2. r \in Seq(S) /\ Len(r) = 1 /\ r[1] = q[1]
  BY <1>1
<1> HIDE DEF r
<1>3. \A i \in 1..Len(q) : q[i] = r[i]
  BY <1>2
<1>4. q = r
  BY <1>2, <1>3, SeqEqual
<1> QED BY <1>1, <1>4 DEF r

LEMMA Holding ==
  ASSUME Typing
  PROVE  /\ encoder = "queue" => encoded[1] \in Packet /\ encoded = <<encoded[1]>>
         /\ encoder # "queue" => encoded = <<>>
         /\ window = "publishing" => sending[1] \in Packet /\ sending = <<sending[1]>>
         /\ window # "publishing" => sending = <<>>
<1>1. /\ encoded \in Seq(Packet) /\ Len(encoded) <= 1
      /\ sending \in Seq(Packet) /\ Len(sending) <= 1
  BY DEF Typing, TypeOK
<1>2. /\ encoder = "queue" <=> Len(encoded) = 1
      /\ window = "publishing" <=> Len(sending) = 1
  BY DEF Typing, HoldsInv
<1>3. /\ Len(encoded) # 1 => encoded = <<>>
      /\ Len(sending) # 1 => sending = <<>>
  <2>1. \A n \in Nat : n <= 1 /\ n # 1 => n = 0
    OBVIOUS
  <2>2. \A q \in Seq(Packet) : Len(q) \in Nat /\ (Len(q) = 0 => q = <<>>)
    OBVIOUS
  <2> QED BY <1>1, <2>1, <2>2, Zenon
<1> QED BY <1>1, <1>2, <1>3, SingleType

LEMMA TypingInit == Init => Typing
<1> SUFFICES ASSUME Init PROVE Typing
  OBVIOUS
<1>1. \A p \in Prefix : MaxPackets[p] \in Nat
  BY BoundAssumption DEF Prefix
<1>2. downlink_buffer \in Seq(Prefix) /\ Len(downlink_buffer) <= DownlinkCapacity
  BY CapacityAssumption DEF Init
<1>3. /\ transmission_queue \in Seq(Packet) /\ broker \in Seq(Packet)
      /\ encoded \in Seq(Packet) /\ sending \in Seq(Packet)
      /\ Len(transmission_queue) <= TransmissionCapacity
      /\ Len(encoded) = 0 /\ Len(sending) = 0
  BY CapacityAssumption DEF Init
<1>4. /\ counter \in [Prefix -> Nat]
      /\ \A p \in Prefix : counter[p] <= MaxPackets[p]
  BY <1>1 DEF Init
<1>5. expected \in -1..1 /\ stamp \in [Packet -> -1..1]
  BY DEF Init
<1>6. /\ received \in [Sensor -> SUBSET Nat]
      /\ reported_missing \in [Sensor -> SUBSET Nat]
      /\ lost \subseteq Packet /\ left \subseteq Packet
  BY DEF Init
<1>7. TypeOK
  <2>1. Len(encoded) <= 1 /\ Len(sending) <= 1
    BY <1>3
  <2> QED BY <1>2, <1>3, <1>4, <1>5, <1>6, <2>1, Zenon DEF Init, TypeOK
<1>8. MaximumInv
  BY DEF Init, MaximumInv
<1> QED BY <1>3, <1>7, <1>8 DEF Init, Typing, HoldsInv

LEMMA TypingStep == Typing /\ [Next]_vars => Typing'
<1> SUFFICES ASSUME Typing, [Next]_vars PROVE Typing'
  OBVIOUS
<1> USE DEF Typing
<1>c. /\ DownlinkCapacity \in Nat \ {0} /\ TransmissionCapacity \in Nat \ {0}
      /\ \A p \in Prefix : MaxPackets[p] \in Nat
  BY CapacityAssumption, BoundAssumption DEF Prefix
<1>w. Elements(transmission_queue \o encoded) \subseteq Packet
  BY WaitingType
<1>u. CASE UNCHANGED vars
  BY <1>u DEF vars, TypeOK, HoldsInv, MaximumInv
<1>1. ASSUME NEW p \in Prefix, Produce(p) PROVE Typing'
  <2>1. /\ downlink_buffer' \in Seq(Prefix)
        /\ Len(downlink_buffer') <= DownlinkCapacity
    BY <1>1, <1>c, FifoPushType DEF Produce, TypeOK
  <2> QED BY <1>1, <2>1 DEF Produce, TypeOK, HoldsInv, MaximumInv, ground, stamps
<1>2. CASE Encode
  <2> DEFINE p == Head(downlink_buffer)
             e == [prefix |-> p, num |-> counter[p] + 1]
  <2>1. p \in Prefix /\ counter[p] \in Nat /\ counter[p] < MaxPackets[p]
    BY <1>2 DEF Encode, TypeOK
  <2>2. counter[p] + 1 \in Nat \ {0} /\ counter[p] + 1 <= MaxPackets[p]
    BY <1>c, <2>1
  <2>3. e \in Packet
    BY <2>1, <2>2, PacketType
  <2>4. /\ encoded' = <<e>> /\ stamp' = [stamp EXCEPT ![e] = expected]
        /\ counter' = [counter EXCEPT ![p] = counter[p] + 1]
        /\ downlink_buffer' = Tail(downlink_buffer) /\ downlink_buffer # <<>>
    BY <1>2 DEF Encode
  <2> HIDE DEF p, e
  <2>5. encoded' \in Seq(Packet) /\ Len(encoded') = 1
    BY <2>3, <2>4
  <2>6. stamp' \in [Packet -> -1..1]
    BY <2>3, <2>4 DEF TypeOK
  <2>7. /\ counter' \in [Prefix -> Nat]
        /\ \A r \in Prefix : counter'[r] <= MaxPackets[r]
    BY <2>1, <2>2, <2>4 DEF TypeOK
  <2>8. /\ downlink_buffer' \in Seq(Prefix)
        /\ Len(downlink_buffer') <= DownlinkCapacity
    BY <2>4, <1>c DEF TypeOK
  <2>9. TypeOK'
    BY <1>2, <2>5, <2>6, <2>7, <2>8 DEF Encode, TypeOK, ground
  <2>10. HoldsInv' /\ MaximumInv'
    BY <1>2, <2>5 DEF Encode, HoldsInv, MaximumInv, ground
  <2> QED BY <2>9, <2>10
<1>3. CASE Queue
  <2>1. encoded[1] \in Packet
    BY <1>3, Holding DEF Queue
  <2>2. /\ transmission_queue' \in Seq(Packet)
        /\ Len(transmission_queue') <= TransmissionCapacity
        /\ lost' \subseteq Packet
    BY <1>3, <1>c, <2>1, FifoPushType DEF Queue, TypeOK
  <2>3. encoded' \in Seq(Packet) /\ Len(encoded') = 0 /\ left' \subseteq Packet
    BY <1>3 DEF Queue, TypeOK
  <2>4. TypeOK'
    BY <1>3, <2>2, <2>3 DEF Queue, TypeOK, ground
  <2>5. HoldsInv' /\ MaximumInv'
    BY <1>3, <2>3 DEF Queue, HoldsInv, MaximumInv, ground
  <2> QED BY <2>4, <2>5
<1>4. CASE CheckRates
  <2>1. degradation_mode' \in BOOLEAN /\ announced' \in BOOLEAN
    BY <1>4, Zenon DEF CheckRates, TypeOK
  <2> QED BY <1>4, <2>1
          DEF CheckRates, TypeOK, HoldsInv, MaximumInv, ground, stamps
<1>5. CASE StartDownlink
  <2>1. expected' \in -1..1 /\ left' \subseteq Packet
    BY <1>5, <1>w DEF StartDownlink, WaitForNextWindow, TypeOK
  <2>2. TypeOK'
    BY <1>5, <2>1 DEF StartDownlink, TypeOK, satellite, ground
  <2>3. HoldsInv' /\ MaximumInv'
    BY <1>5 DEF StartDownlink, HoldsInv, MaximumInv, satellite, ground
  <2> QED BY <2>2, <2>3
<1>6. CASE OpenWindow
  <2>1. stamp' \in [Packet -> -1..1]
    BY <1>6, OlderType DEF OpenWindow, TypeOK
  <2> QED BY <1>6, <2>1, OlderType
          DEF OpenWindow, TypeOK, HoldsInv, MaximumInv, satellite, ground
<1>7. CASE TakePacket
  <2>1. /\ transmission_queue' \in Seq(Packet)
        /\ Len(transmission_queue') <= TransmissionCapacity
        /\ sending' \in Seq(Packet) /\ Len(sending') = 1
    BY <1>7, <1>c DEF TakePacket, TypeOK
  <2>2. TypeOK'
    BY <1>7, <2>1 DEF TakePacket, TypeOK, satellite, ground, stamps
  <2>3. HoldsInv' /\ MaximumInv'
    BY <1>7, <2>1 DEF TakePacket, HoldsInv, MaximumInv, satellite, ground
  <2> QED BY <2>2, <2>3
<1>8. CASE Publish
  <2>1. sending[1] \in Packet
    BY <1>8, Holding DEF Publish
  <2>2. broker' \in Seq(Packet) /\ sending' \in Seq(Packet) /\ Len(sending') = 0
    BY <1>8, <2>1 DEF Publish, TypeOK
  <2>3. left' \subseteq Packet
    BY <1>8 DEF Publish, TypeOK
  <2>4. TypeOK'
    BY <1>8, <2>2, <2>3 DEF Publish, TypeOK, satellite, ground
  <2>5. HoldsInv' /\ MaximumInv'
    BY <1>8, <2>2 DEF Publish, HoldsInv, MaximumInv, satellite, ground
  <2> QED BY <2>4, <2>5
<1>9. CASE PublishFails
  <2>1. sending[1] \in Packet
    BY <1>9, Holding DEF PublishFails
  <2>2. sending' \in Seq(Packet) /\ Len(sending') = 0
    BY <1>9 DEF PublishFails, TypeOK
  <2>3. lost' \subseteq Packet /\ left' \subseteq Packet
    BY <1>9, <1>w, <2>1 DEF PublishFails, TypeOK
  <2>4. TypeOK'
    BY <1>9, <2>2, <2>3 DEF PublishFails, TypeOK, satellite, ground
  <2>5. HoldsInv' /\ MaximumInv'
    BY <1>9, <2>2 DEF PublishFails, HoldsInv, MaximumInv, satellite, ground
  <2> QED BY <2>4, <2>5
<1>10. CASE CloseWindow
  <2>1. expected' \in -1..1 /\ left' \subseteq Packet
    BY <1>10, <1>w DEF CloseWindow, WaitForNextWindow, TypeOK
  <2>2. TypeOK'
    BY <1>10, <2>1 DEF CloseWindow, TypeOK, satellite, ground
  <2>3. HoldsInv' /\ MaximumInv'
    BY <1>10 DEF CloseWindow, HoldsInv, MaximumInv, satellite, ground
  <2> QED BY <2>2, <2>3
<1>11. CASE StartReceiver
  <2>1. lost' \subseteq Packet
    BY <1>11, ElementsType DEF StartReceiver, TypeOK
  <2>2. broker' \in Seq(Packet)
    BY <1>11 DEF StartReceiver
  <2>3. TypeOK'
    BY <1>11, <2>1, <2>2 DEF StartReceiver, TypeOK, satellite, stamps
  <2>4. HoldsInv' /\ MaximumInv'
    BY <1>11 DEF StartReceiver, HoldsInv, MaximumInv, satellite, stamps
  <2> QED BY <2>3, <2>4
<1>12. CASE Receive
  <2> DEFINE m == Head(broker)
  <2>1. m \in Packet /\ broker' \in Seq(Packet) /\ m.num \in Nat
    BY <1>12, PacketFields DEF Receive, TypeOK
  <2>2. /\ received' \in [Sensor -> SUBSET Nat]
        /\ reported_missing' \in [Sensor -> SUBSET Nat]
    <3>1. CASE m.prefix \notin Sensor
      BY <1>12, <3>1 DEF Receive, TypeOK
    <3>2. CASE m.prefix \in Sensor
      <4>1. Missing(m.prefix, m.num) \subseteq Nat
        BY <2>1, <3>2, MissingType
      <4>2. /\ received' = [received EXCEPT ![m.prefix] = @ \cup {m.num}]
            /\ reported_missing' = [reported_missing EXCEPT ![m.prefix] =
                                      @ \cup Missing(m.prefix, m.num)]
        BY <1>12, <3>2 DEF Receive
      <4> QED BY <2>1, <3>2, <4>1, <4>2 DEF TypeOK
    <3> QED BY <3>1, <3>2
  <2>3. MaximumInv'
    <3> SUFFICES ASSUME NEW s \in Sensor
                 PROVE  \/ received'[s] = {}
                        \/ \E k \in received'[s] : \A n \in received'[s] : n <= k
      BY DEF MaximumInv
    <3>1. CASE received'[s] = received[s]
      BY <3>1 DEF MaximumInv
    <3>2. CASE received'[s] = received[s] \cup {m.num}
      <4>1. received[s] \subseteq Nat
        BY DEF TypeOK
      <4>2. CASE received[s] = {}
        BY <2>1, <3>2, <4>2
      <4>3. CASE received[s] # {}
        <5>1. PICK k \in received[s] : \A n \in received[s] : n <= k
          BY <4>3 DEF MaximumInv
        <5>2. CASE m.num <= k
          BY <2>1, <3>2, <5>1, <5>2
        <5>3. CASE ~(m.num <= k)
          BY <2>1, <3>2, <4>1, <5>1, <5>3
        <5> QED BY <5>2, <5>3
      <4> QED BY <4>2, <4>3
    <3> QED BY <1>12, <3>1, <3>2 DEF Receive, TypeOK
  <2> QED BY <1>12, <2>1, <2>2, <2>3
          DEF Receive, TypeOK, HoldsInv, satellite, stamps
<1> QED BY <1>u, <1>1, <1>2, <1>3, <1>4, <1>5, <1>6, <1>7, <1>8, <1>9, <1>10,
           <1>11, <1>12 DEF Next, Encoder, Window, Ground

(* All variables keep their types, and both FIFO queues their bounds.      *)
THEOREM LinkTypeCorrect == Spec => []TypeOK
<1>1. Typing => TypeOK
  BY DEF Typing
<1> QED BY <1>1, TypingInit, TypingStep, PTL DEF Spec

LEMMA TypingCorrect == Spec => []Typing
BY TypingInit, TypingStep, PTL DEF Spec

-----------------------------------------------------------------------------
(* The pipeline as sets: what it holds and in which order.                 *)
Below(X, Y) == \A x \in X, y \in Y : x.prefix = y.prefix => x.num < y.num

LEMMA ElementsConcat ==
  ASSUME NEW a \in Seq(Packet), NEW b \in Seq(Packet)
  PROVE  Elements(a \o b) = Elements(a) \cup Elements(b)
<1>1. /\ Len(a \o b) = Len(a) + Len(b) /\ Len(a) \in Nat /\ Len(b) \in Nat
      /\ \A i \in 1..(Len(a) + Len(b)) :
           (a \o b)[i] = IF i <= Len(a) THEN a[i] ELSE b[i - Len(a)]
  BY ConcatProperties
<1>2. ASSUME NEW e \in Elements(a \o b)
      PROVE  e \in Elements(a) \cup Elements(b)
  <2>1. PICK i \in 1..(Len(a) + Len(b)) : e = (a \o b)[i]
    BY <1>1 DEF Elements
  <2>2. CASE i <= Len(a)
    BY <1>1, <2>1, <2>2 DEF Elements
  <2>3. CASE ~(i <= Len(a))
    <3>1. i - Len(a) \in 1..Len(b) /\ e = b[i - Len(a)]
      BY <1>1, <2>1, <2>3
    <3> QED BY <3>1 DEF Elements
  <2> QED BY <2>2, <2>3
<1>3. ASSUME NEW e \in Elements(a) PROVE e \in Elements(a \o b)
  <2>1. PICK i \in 1..Len(a) : e = a[i]
    BY DEF Elements
  <2>2. i \in 1..(Len(a) + Len(b)) /\ e = (a \o b)[i]
    BY <1>1, <2>1
  <2> QED BY <1>1, <2>2 DEF Elements
<1>4. ASSUME NEW e \in Elements(b) PROVE e \in Elements(a \o b)
  <2>1. PICK i \in 1..Len(b) : e = b[i]
    BY DEF Elements
  <2>2. /\ i + Len(a) \in 1..(Len(a) + Len(b)) /\ ~(i + Len(a) <= Len(a))
        /\ (i + Len(a)) - Len(a) = i
    BY <1>1
  <2>3. e = (a \o b)[i + Len(a)]
    BY <1>1, <2>1, <2>2
  <2> QED BY <1>1, <2>2, <2>3 DEF Elements
<1> QED BY <1>2, <1>3, <1>4

LEMMA OrderedConcat ==
  ASSUME NEW a \in Seq(Packet), NEW b \in Seq(Packet)
  PROVE  Ordered(a \o b)
           <=> Ordered(a) /\ Ordered(b) /\ Below(Elements(a), Elements(b))
<1> DEFINE c == a \o b
<1>1. /\ Len(c) = Len(a) + Len(b) /\ Len(a) \in Nat /\ Len(b) \in Nat
      /\ \A i \in 1..Len(c) : c[i] = IF i <= Len(a) THEN a[i] ELSE b[i - Len(a)]
  BY ConcatProperties
<1> HIDE DEF c
<1>2. \A i \in 1..Len(a) : i \in 1..Len(c) /\ c[i] = a[i]
  BY <1>1
<1>3. \A i \in 1..Len(b) : /\ Len(a) + i \in 1..Len(c) /\ c[Len(a) + i] = b[i]
                          /\ Len(a) < Len(a) + i
  BY <1>1
<1>4. \A i \in 1..Len(c) : \/ i \in 1..Len(a)
                          \/ \E j \in 1..Len(b) : i = Len(a) + j
  <2> TAKE i \in 1..Len(c)
  <2>1. CASE i <= Len(a)
    BY <1>1, <2>1
  <2>2. CASE ~(i <= Len(a))
    <3>1. i - Len(a) \in 1..Len(b) /\ i = Len(a) + (i - Len(a))
      BY <1>1, <2>2
    <3> QED BY <3>1
  <2> QED BY <2>1, <2>2
<1>5. ASSUME Ordered(c)
      PROVE  Ordered(a) /\ Ordered(b) /\ Below(Elements(a), Elements(b))
  <2>1. Ordered(a)
    BY <1>2, <1>5 DEF Ordered
  <2>2. Ordered(b)
    <3> SUFFICES ASSUME NEW i \in 1..Len(b), NEW j \in 1..Len(b), i < j,
                        b[i].prefix = b[j].prefix
                 PROVE  b[i].num < b[j].num
      BY DEF Ordered
    <3>1. Len(a) + i < Len(a) + j
      BY <1>1
    <3> QED BY <1>3, <1>5, <3>1 DEF Ordered
  <2>3. Below(Elements(a), Elements(b))
    <3> SUFFICES ASSUME NEW i \in 1..Len(a), NEW j \in 1..Len(b),
                        a[i].prefix = b[j].prefix
                 PROVE  a[i].num < b[j].num
      BY DEF Below, Elements
    <3>1. i < Len(a) + j
      BY <1>1
    <3> QED BY <1>2, <1>3, <1>5, <3>1 DEF Ordered
  <2> QED BY <2>1, <2>2, <2>3
<1>6. ASSUME Ordered(a), Ordered(b), Below(Elements(a), Elements(b))
      PROVE  Ordered(c)
  <2> SUFFICES ASSUME NEW i \in 1..Len(c), NEW j \in 1..Len(c), i < j,
                      c[i].prefix = c[j].prefix
               PROVE  c[i].num < c[j].num
    BY DEF Ordered
  <2>1. CASE i \in 1..Len(a) /\ j \in 1..Len(a)
    BY <1>2, <1>6, <2>1 DEF Ordered
  <2>2. CASE i \in 1..Len(a) /\ \E k \in 1..Len(b) : j = Len(a) + k
    <3>1. PICK k \in 1..Len(b) : j = Len(a) + k
      BY <2>2
    <3>2. a[i] \in Elements(a) /\ b[k] \in Elements(b)
      BY <2>2 DEF Elements
    <3> QED BY <1>2, <1>3, <1>6, <2>2, <3>1, <3>2 DEF Below
  <2>3. CASE /\ \E k \in 1..Len(b) : i = Len(a) + k
             /\ \E k \in 1..Len(b) : j = Len(a) + k
    <3>1. PICK k \in 1..Len(b), l \in 1..Len(b) : i = Len(a) + k /\ j = Len(a) + l
      BY <2>3
    <3>2. k < l
      BY <1>1, <3>1
    <3> QED BY <1>3, <1>6, <3>1, <3>2 DEF Ordered
  <2>4. CASE (\E k \in 1..Len(b) : i = Len(a) + k) /\ j \in 1..Len(a)
    BY <1>1, <2>4
  <2> QED BY <1>4, <2>1, <2>2, <2>3, <2>4
<1> QED BY <1>5, <1>6 DEF c

LEMMA SmallQueues ==
  /\ Elements(<<>>) = {} /\ Ordered(<<>>)
  /\ \A e \in Packet : Elements(<<e>>) = {e} /\ Ordered(<<e>>)
<1>1. Elements(<<>>) = {} /\ Ordered(<<>>)
  BY DEF Elements, Ordered
<1>2. ASSUME NEW e \in Packet PROVE Elements(<<e>>) = {e} /\ Ordered(<<e>>)
  BY DEF Elements, Ordered
<1> QED BY <1>1, <1>2

LEMMA AppendSplit ==
  ASSUME NEW q \in Seq(Packet), NEW e \in Packet
  PROVE  /\ Append(q, e) \in Seq(Packet)
         /\ Elements(Append(q, e)) = Elements(q) \cup {e}
         /\ Ordered(Append(q, e)) <=> Ordered(q) /\ Below(Elements(q), {e})
<1>1. Append(q, e) = q \o <<e>> /\ <<e>> \in Seq(Packet)
  BY AppendIsConcat
<1>2. Append(q, e) \in Seq(Packet)
  OBVIOUS
<1>3. /\ Elements(q \o <<e>>) = Elements(q) \cup Elements(<<e>>)
      /\ Ordered(q \o <<e>>)
           <=> Ordered(q) /\ Ordered(<<e>>) /\ Below(Elements(q), Elements(<<e>>))
  BY <1>1, ElementsConcat, OrderedConcat
<1>4. Elements(<<e>>) = {e} /\ Ordered(<<e>>)
  BY SmallQueues
<1> QED BY <1>1, <1>2, <1>3, <1>4, Zenon

LEMMA HeadSplit ==
  ASSUME NEW q \in Seq(Packet), q # <<>>
  PROVE  /\ Head(q) \in Packet /\ Tail(q) \in Seq(Packet)
         /\ Elements(q) = {Head(q)} \cup Elements(Tail(q))
         /\ Ordered(q) <=> Ordered(Tail(q)) /\ Below({Head(q)}, Elements(Tail(q)))
<1>1. Head(q) \in Packet /\ Tail(q) \in Seq(Packet)
  OBVIOUS
<1>2. q = <<Head(q)>> \o Tail(q)
  <2> DEFINE r == <<Head(q)>> \o Tail(q)
  <2>1. <<Head(q)>> \in Seq(Packet) /\ Len(<<Head(q)>>) = 1
    BY <1>1
  <2>2. /\ r \in Seq(Packet) /\ Len(r) = 1 + Len(Tail(q))
        /\ \A i \in 1..(1 + Len(Tail(q))) :
             r[i] = IF i <= 1 THEN <<Head(q)>>[i] ELSE Tail(q)[i - 1]
    BY <1>1, <2>1, ConcatProperties
  <2>3. Len(q) = 1 + Len(Tail(q)) /\ Len(q) \in Nat \ {0}
    BY EmptySeq, HeadTailProperties
  <2>4. \A i \in 1..Len(q) : q[i] = r[i]
    <3> TAKE i \in 1..Len(q)
    <3>1. CASE i = 1
      BY <2>2, <2>3, <3>1
    <3>2. CASE i # 1
      <4>1. i - 1 \in 1..Len(Tail(q)) /\ ~(i <= 1) /\ (i - 1) + 1 = i
        BY <2>3, <3>2
      <4>2. Tail(q)[i - 1] = q[i]
        BY <4>1, HeadTailProperties
      <4> QED BY <2>2, <2>3, <4>1, <4>2
    <3> QED BY <3>1, <3>2
  <2> QED BY <2>2, <2>3, <2>4, SeqEqual
<1>3. <<Head(q)>> \in Seq(Packet)
  BY <1>1
<1>4. /\ Elements(<<Head(q)>> \o Tail(q))
           = Elements(<<Head(q)>>) \cup Elements(Tail(q))
      /\ Ordered(<<Head(q)>> \o Tail(q))
           <=> /\ Ordered(<<Head(q)>>) /\ Ordered(Tail(q))
               /\ Below(Elements(<<Head(q)>>), Elements(Tail(q)))
  BY <1>1, <1>3, ElementsConcat, OrderedConcat
<1>5. Elements(<<Head(q)>>) = {Head(q)} /\ Ordered(<<Head(q)>>)
  BY <1>1, SmallQueues
<1> QED BY <1>1, <1>2, <1>4, <1>5, Zenon

(* The four places of the pipeline and their order.                        *)
Sent == Elements(broker)
Taken == Elements(sending)
Queued == Elements(transmission_queue)
Fresh == Elements(encoded)

InOrder(b, s, t, e) ==
  /\ Below(b, s) /\ Below(b, t) /\ Below(b, e)
  /\ Below(s, t) /\ Below(s, e) /\ Below(t, e)

PlacesInv ==
  /\ Elements(Pipeline) = Sent \cup Taken \cup Queued \cup Fresh
  /\ Ordered(Pipeline)
       <=> /\ Ordered(broker) /\ Ordered(transmission_queue)
           /\ InOrder(Sent, Taken, Queued, Fresh)

LEMMA ShortOrdered ==
  ASSUME NEW q \in Seq(Packet), Len(q) <= 1
  PROVE  Ordered(q)
BY DEF Ordered

LEMMA Places == Typing => PlacesInv
<1> SUFFICES ASSUME Typing PROVE PlacesInv
  OBVIOUS
<1>1. /\ broker \in Seq(Packet) /\ sending \in Seq(Packet)
      /\ transmission_queue \in Seq(Packet) /\ encoded \in Seq(Packet)
      /\ Len(sending) <= 1 /\ Len(encoded) <= 1
  BY DEF Typing, TypeOK
<1>2. Ordered(sending) /\ Ordered(encoded)
  BY <1>1, ShortOrdered
<1>3. /\ Elements(Pipeline) = ((Sent \cup Taken) \cup Queued) \cup Fresh
      /\ Ordered(Pipeline)
           <=> /\ Ordered(broker) /\ Ordered(transmission_queue)
               /\ Below(Sent, Taken) /\ Below(Sent \cup Taken, Queued)
               /\ Below((Sent \cup Taken) \cup Queued, Fresh)
  <2> DEFINE P == (broker \o sending) \o transmission_queue
             Q == P \o encoded
  <2>1. broker \o sending \in Seq(Packet) /\ P \in Seq(Packet)
    BY <1>1, ConcatProperties
  <2>2. /\ Elements(broker \o sending) = Sent \cup Taken
        /\ Ordered(broker \o sending) <=> Ordered(broker) /\ Below(Sent, Taken)
    BY <1>1, <1>2, ElementsConcat, OrderedConcat DEF Sent, Taken
  <2>3. /\ Elements(P) = Elements(broker \o sending) \cup Queued
        /\ Ordered(P) <=> /\ Ordered(broker \o sending)
                          /\ Ordered(transmission_queue)
                          /\ Below(Elements(broker \o sending), Queued)
    BY <1>1, <2>1, ElementsConcat, OrderedConcat DEF Queued
  <2> HIDE DEF P
  <2>4. /\ Elements(Q) = Elements(P) \cup Fresh
        /\ Ordered(Q) <=> Ordered(P) /\ Below(Elements(P), Fresh)
    BY <1>1, <1>2, <2>1, ElementsConcat, OrderedConcat DEF Fresh
  <2> HIDE DEF Q
  <2>5. Q = Pipeline
    BY DEF P, Q, Pipeline
  <2> QED BY <2>2, <2>3, <2>4, <2>5, Zenon
<1>4. InOrder(Sent, Taken, Queued, Fresh)
       <=> /\ Below(Sent, Taken) /\ Below(Sent \cup Taken, Queued)
           /\ Below((Sent \cup Taken) \cup Queued, Fresh)
  BY Zenon DEF InOrder, Below
<1> QED BY <1>3, <1>4, Zenon DEF PlacesInv

LEMMA PlacesPrime == Typing' => PlacesInv'
BY Places, PTL

LEMMA GreatestIsMax ==
  ASSUME NEW R \in SUBSET Nat, NEW num \in Nat, \A n \in R : n < num
  PROVE  Max(R \cup {num}) = num
<1> DEFINE m == Max(R \cup {num})
<1>1. m \in R \cup {num} /\ \A n \in R \cup {num} : m >= n
  <2>1. num \in R \cup {num} /\ \A n \in R \cup {num} : num >= n
    OBVIOUS
  <2> QED BY <2>1, Zenon DEF Max
<1> HIDE DEF m
<1>2. m \in Nat /\ m >= num
  BY <1>1
<1>3. m \notin R
  BY <1>2
<1>4. m = num
  BY <1>1, <1>3
<1> QED BY <1>4 DEF m

-----------------------------------------------------------------------------
(* The bookkeeping behind Accounted and GapsAreLosses, over the packets E  *)
(* on their way, the lost ones L, the numbers received R, the counters c   *)
(* and the numbers reported missing M; and its three kinds of change.      *)
Tallied(E, L, R, c) ==
  /\ E \subseteq Packet /\ L \subseteq Packet /\ E \cap L = {}
  /\ \A e \in E \cup L : e.num <= c[e.prefix]
  /\ \A s \in Sensor : \A n \in R[s] : n \in Nat \ {0} /\ n <= c[s]
  /\ \A e \in E : e.prefix \in Sensor => \A n \in R[e.prefix] : n < e.num
  /\ \A e \in L : e.prefix \in Sensor => e.num \notin R[e.prefix]
  /\ \A e \in Packet :
       e.prefix \in Sensor /\ e.num <= c[e.prefix]
         => e.num \in R[e.prefix] \/ e \in L \/ e \in E

Reported(L, R, M) ==
  /\ \A s \in Sensor : \A n \in M[s] : [prefix |-> s, num |-> n] \in L
  /\ \A e \in L :
       e.prefix \in Sensor
         => (e.num \in M[e.prefix] <=> \E m \in R[e.prefix] : e.num < m)

LEMMA Loses ==
  ASSUME NEW E, NEW L, NEW R, NEW c, NEW M, NEW X \in SUBSET E,
         Tallied(E, L, R, c), Reported(L, R, M),
         M \in [Sensor -> SUBSET Nat], R \in [Sensor -> SUBSET Nat]
  PROVE  Tallied(E \ X, L \cup X, R, c) /\ Reported(L \cup X, R, M)
<1>1. Tallied(E \ X, L \cup X, R, c)
  <2>1. /\ E \ X \subseteq Packet /\ L \cup X \subseteq Packet
        /\ (E \ X) \cap (L \cup X) = {}
    BY DEF Tallied
  <2>2. \A e \in X : e.prefix \in Sensor => e.num \notin R[e.prefix]
    <3> SUFFICES ASSUME NEW e \in X, e.prefix \in Sensor, e.num \in R[e.prefix]
                 PROVE  FALSE
      OBVIOUS
    <3>1. e.num < e.num /\ e.num \in Nat
      BY DEF Tallied
    <3> QED BY <3>1
  <2> QED BY <2>1, <2>2 DEF Tallied
<1>2. ASSUME NEW e \in X, e.prefix \in Sensor
      PROVE  e.num \notin M[e.prefix] /\ ~\E m \in R[e.prefix] : e.num < m
  <2>1. e \in Packet /\ e \notin L /\ \A n \in R[e.prefix] : n < e.num
    BY <1>2 DEF Tallied
  <2>2. e = [prefix |-> e.prefix, num |-> e.num] /\ e.num \in Nat
    BY <2>1, PacketFields
  <2>3. e.num \notin M[e.prefix]
    BY <1>2, <2>1, <2>2 DEF Reported
  <2>4. \A n \in R[e.prefix] : n \in Nat /\ n < e.num
    BY <1>2, <2>1
  <2> QED BY <2>2, <2>3, <2>4
<1>3. Reported(L \cup X, R, M)
  BY <1>2 DEF Reported
<1> QED BY <1>1, <1>3

LEMMA NumbersNext ==
  ASSUME NEW E, NEW L, NEW R, NEW c \in [Prefix -> Nat], NEW e \in Packet,
         Tallied(E, L, R, c), e.num = c[e.prefix] + 1,
         R \in [Sensor -> SUBSET Nat]
  PROVE  /\ Tallied(E \cup {e}, L, R, [c EXCEPT ![e.prefix] = @ + 1])
         /\ Below(E, {e}) /\ e \notin E
<1> DEFINE d == [c EXCEPT ![e.prefix] = @ + 1]
<1>1. e.prefix \in Prefix /\ e.num \in Nat \ {0}
  BY PacketFields
<1>2. \A f \in E \cup L : /\ f \in Packet /\ f.prefix \in Prefix /\ f.num \in Nat
                         /\ f.num <= c[f.prefix]
  BY PacketFields DEF Tallied
<1>3. /\ d \in [Prefix -> Nat] /\ d[e.prefix] = e.num
      /\ \A p \in Prefix : c[p] <= d[p] /\ (p # e.prefix => d[p] = c[p])
  BY <1>1
<1>4. e \notin E \cup L /\ Below(E, {e})
  BY <1>1, <1>2 DEF Below
<1> HIDE DEF d
<1>5. \A f \in E \cup L \cup {e} : f.num <= d[f.prefix]
  <2>1. e.num <= d[e.prefix]
    BY <1>1, <1>3
  <2>2. ASSUME NEW f \in E \cup L PROVE f.num <= d[f.prefix]
    <3>1. /\ f.num \in Nat /\ c[f.prefix] \in Nat /\ d[f.prefix] \in Nat
          /\ f.num <= c[f.prefix] /\ c[f.prefix] <= d[f.prefix]
      BY <1>2, <1>3
    <3> QED BY <3>1
  <2> QED BY <2>1, <2>2
<1>6. \A s \in Sensor : \A n \in R[s] : n \in Nat \ {0} /\ n <= d[s]
  <2> TAKE s \in Sensor
  <2> TAKE n \in R[s]
  <2>1. n \in Nat \ {0} /\ n <= c[s]
    BY DEF Tallied
  <2>2. c[s] \in Nat /\ d[s] \in Nat /\ c[s] <= d[s]
    BY <1>3 DEF Prefix
  <2> QED BY <2>1, <2>2
<1>7. ASSUME e.prefix \in Sensor PROVE \A n \in R[e.prefix] : n < e.num
  <2> TAKE n \in R[e.prefix]
  <2>1. n \in Nat /\ n <= c[e.prefix] /\ c[e.prefix] \in Nat
    BY <1>1, <1>7 DEF Tallied
  <2> QED BY <2>1
<1>8. ASSUME NEW f \in Packet, f.prefix \in Sensor, f.num <= d[f.prefix]
      PROVE  f.num \in R[f.prefix] \/ f \in L \/ f \in E \cup {e}
  <2>1. f.prefix \in Prefix /\ f.num \in Nat
        /\ f = [prefix |-> f.prefix, num |-> f.num]
        /\ e = [prefix |-> e.prefix, num |-> e.num]
    BY PacketFields
  <2>2. CASE f.num <= c[f.prefix]
    BY <1>8, <2>2 DEF Tallied
  <2>3. CASE ~(f.num <= c[f.prefix])
    <3>1. f.prefix = e.prefix /\ f.num = e.num
      BY <1>1, <1>3, <1>8, <2>1, <2>3
    <3> QED BY <2>1, <3>1, Zenon
  <2> QED BY <2>2, <2>3
<1>9. Tallied(E \cup {e}, L, R, d)
  <2>1. /\ E \cup {e} \subseteq Packet /\ L \subseteq Packet
        /\ (E \cup {e}) \cap L = {}
    BY <1>4 DEF Tallied
  <2>2. \A f \in E \cup {e} : f.prefix \in Sensor
                               => \A n \in R[f.prefix] : n < f.num
    BY <1>7 DEF Tallied
  <2>3. \A f \in (E \cup {e}) \cup L : f.num <= d[f.prefix]
    BY <1>5
  <2>4. \A f \in L : f.prefix \in Sensor => f.num \notin R[f.prefix]
    BY DEF Tallied
  <2>5. \A f \in Packet : f.prefix \in Sensor /\ f.num <= d[f.prefix]
                            => f.num \in R[f.prefix] \/ f \in L \/ f \in E \cup {e}
    BY <1>8
  <2> QED BY <1>6, <2>1, <2>2, <2>3, <2>4, <2>5, Zenon DEF Tallied
<1> QED BY <1>4, <1>9 DEF d

LEMMA Delivers ==
  ASSUME NEW E, NEW L, NEW R \in [Sensor -> SUBSET Nat],
         NEW c \in [Prefix -> Nat], NEW M \in [Sensor -> SUBSET Nat],
         NEW m \in E, NEW gap \in SUBSET Nat,
         Tallied(E, L, R, c), Reported(L, R, M), m.prefix \in Sensor,
         \A f \in E \ {m} : f.prefix = m.prefix => m.num < f.num,
         \A n \in Nat \ {0} :
           n \in gap <=> n < m.num /\ \A k \in R[m.prefix] : k < n,
         0 \notin gap
  PROVE  /\ Tallied(E \ {m}, L, [R EXCEPT ![m.prefix] = @ \cup {m.num}], c)
         /\ Reported(L, [R EXCEPT ![m.prefix] = @ \cup {m.num}],
                     [M EXCEPT ![m.prefix] = @ \cup gap])
<1> DEFINE S == [R EXCEPT ![m.prefix] = @ \cup {m.num}]
           N == [M EXCEPT ![m.prefix] = @ \cup gap]
<1>1. \A e \in Packet : /\ e.prefix \in Prefix /\ e.num \in Nat \ {0}
                       /\ e = [prefix |-> e.prefix, num |-> e.num]
  BY PacketFields
<1>2. m \in Packet /\ m \notin L /\ m.num <= c[m.prefix]
  BY DEF Tallied
<1>3. /\ S[m.prefix] = R[m.prefix] \cup {m.num}
      /\ N[m.prefix] = M[m.prefix] \cup gap
      /\ \A s \in Sensor : s # m.prefix => S[s] = R[s] /\ N[s] = M[s]
  OBVIOUS
<1> HIDE DEF S, N
<1>4. \A f \in E \ {m} : f.prefix \in Sensor => \A n \in S[f.prefix] : n < f.num
  <2> SUFFICES ASSUME NEW f \in E \ {m}, f.prefix \in Sensor,
                      NEW n \in S[f.prefix]
               PROVE  n < f.num
    OBVIOUS
  <2>1. \A k \in R[f.prefix] : k < f.num
    BY DEF Tallied
  <2>2. CASE f.prefix = m.prefix
    BY <1>3, <2>1, <2>2
  <2>3. CASE f.prefix # m.prefix
    BY <1>3, <2>1, <2>3
  <2> QED BY <2>2, <2>3
<1>5. ASSUME NEW f \in L, f.prefix \in Sensor PROVE f.num \notin S[f.prefix]
  <2>1. f.num \notin R[f.prefix] /\ f \in Packet
    BY <1>5 DEF Tallied
  <2>2. f.prefix = m.prefix => f.num # m.num
    BY <1>1, <1>2, <1>5, <2>1
  <2> QED BY <1>3, <1>5, <2>1, <2>2
<1>6. ASSUME NEW f \in Packet, f.prefix \in Sensor, f.num <= c[f.prefix]
      PROVE  f.num \in S[f.prefix] \/ f \in L \/ f \in E \ {m}
  <2>1. f.num \in R[f.prefix] \/ f \in L \/ f \in E
    BY <1>6 DEF Tallied
  <2>2. f = m => f.num \in S[f.prefix]
    BY <1>3
  <2>3. f.num \in R[f.prefix] => f.num \in S[f.prefix]
    BY <1>3, <1>6
  <2> QED BY <2>1, <2>2, <2>3
<1>7. \A s \in Sensor : \A n \in S[s] : n \in Nat \ {0} /\ n <= c[s]
  <2> SUFFICES ASSUME NEW s \in Sensor, NEW n \in S[s]
               PROVE  n \in Nat \ {0} /\ n <= c[s]
    OBVIOUS
  <2>1. CASE n \in R[s]
    BY <2>1 DEF Tallied
  <2>2. CASE s = m.prefix /\ n = m.num
    BY <1>1, <1>2, <2>2
  <2> QED BY <1>3, <2>1, <2>2
<1>8. Tallied(E \ {m}, L, S, c)
  <2>1. /\ E \ {m} \subseteq Packet /\ L \subseteq Packet /\ (E \ {m}) \cap L = {}
        /\ \A e \in (E \ {m}) \cup L : e.num <= c[e.prefix]
    BY DEF Tallied
  <2> QED BY <1>4, <1>5, <1>6, <1>7, <2>1, Zenon DEF Tallied
<1>9. ASSUME NEW n \in gap PROVE [prefix |-> m.prefix, num |-> n] \in L
  <2> DEFINE f == [prefix |-> m.prefix, num |-> n]
  <2>1. n \in Nat \ {0} /\ n < m.num /\ \A k \in R[m.prefix] : k < n
    OBVIOUS
  <2>2. m.num \in Nat /\ m.num <= MaxPackets[m.prefix]
        /\ MaxPackets[m.prefix] \in Nat /\ c[m.prefix] \in Nat
    BY <1>2, PacketFields, BoundAssumption DEF Prefix
  <2>3. n <= MaxPackets[m.prefix] /\ n <= c[m.prefix]
    BY <1>2, <2>1, <2>2
  <2>4. f \in Packet /\ f.prefix = m.prefix /\ f.num = n
    BY <1>1, <1>2, <2>1, <2>3, PacketType
  <2> HIDE DEF f
  <2>5. n \notin R[m.prefix]
    BY <2>1
  <2>6. f \notin E
    <3>1. f # m /\ ~(m.num < f.num)
      BY <2>1, <2>2, <2>4
    <3> QED BY <2>4, <3>1
  <2>7. f.num \in R[f.prefix] \/ f \in L \/ f \in E
    BY <2>3, <2>4 DEF Tallied
  <2>8. f \in L
    BY <2>4, <2>5, <2>6, <2>7
  <2> QED BY <2>8 DEF f
<1>10. ASSUME NEW s \in Sensor, NEW n \in N[s]
       PROVE  [prefix |-> s, num |-> n] \in L
  <2>1. CASE n \in M[s]
    BY <2>1 DEF Reported
  <2>2. CASE s = m.prefix /\ n \in gap
    BY <1>9, <2>2
  <2> QED BY <1>3, <2>1, <2>2
<1>11. ASSUME NEW e \in L, e.prefix \in Sensor
       PROVE  e.num \in N[e.prefix] <=> \E k \in S[e.prefix] : e.num < k
  <2>1. /\ e.num \in M[e.prefix] <=> \E k \in R[e.prefix] : e.num < k
        /\ e.num \notin R[e.prefix] /\ e \in Packet
    BY <1>11 DEF Reported, Tallied
  <2>2. e.num \in Nat \ {0} /\ m.num \in Nat
    BY <1>1, <1>2, <2>1
  <2>3. CASE e.prefix # m.prefix
    BY <1>3, <1>11, <2>1, <2>3
  <2>4. CASE e.prefix = m.prefix
    <3>1. /\ e.num \in N[e.prefix] <=> e.num \in M[e.prefix] \/ e.num \in gap
          /\ (\E k \in S[e.prefix] : e.num < k)
               <=> (\E k \in R[e.prefix] : e.num < k) \/ e.num < m.num
      BY <1>3, <2>4
    <3>2. e.num \in gap <=> e.num < m.num /\ \A k \in R[e.prefix] : k < e.num
      BY <2>2, <2>4
    <3>3. (\A k \in R[e.prefix] : k < e.num) \/ (\E k \in R[e.prefix] : e.num < k)
      <4>1. \A k \in R[e.prefix] : k \in Nat /\ k # e.num
        BY <1>11, <2>1
      <4> QED BY <2>2, <4>1
    <3> QED BY <2>1, <3>1, <3>2, <3>3, Zenon
  <2> QED BY <2>3, <2>4
<1>12. Reported(L, S, N)
  BY <1>10, <1>11 DEF Reported
<1> QED BY <1>8, <1>12 DEF S, N

-----------------------------------------------------------------------------
OnTheWay == Sent \cup Taken \cup Queued \cup Fresh

OrderInv == /\ Ordered(broker) /\ Ordered(transmission_queue)
            /\ InOrder(Sent, Taken, Queued, Fresh)

LinkInv == /\ OrderInv
           /\ Tallied(OnTheWay, lost, received, counter)
           /\ Reported(lost, received, reported_missing)

LEMMA LinkInit == Init => LinkInv
<1> SUFFICES ASSUME Init PROVE LinkInv
  OBVIOUS
<1>1. /\ Sent = {} /\ Taken = {} /\ Queued = {} /\ Fresh = {}
      /\ Ordered(broker) /\ Ordered(transmission_queue)
  BY SmallQueues DEF Init, Sent, Taken, Queued, Fresh
<1>2. OrderInv /\ OnTheWay = {}
  BY <1>1 DEF OrderInv, InOrder, Below, OnTheWay
<1>3. \A e \in Packet : e.prefix \in Prefix /\ e.num \in Nat \ {0}
  BY PacketFields
<1>4. Tallied({}, {}, [s \in Sensor |-> {}], [p \in Prefix |-> 0])
  BY <1>3 DEF Tallied
<1>5. Reported({}, [s \in Sensor |-> {}], [s \in Sensor |-> {}])
  BY DEF Reported
<1> QED BY <1>2, <1>4, <1>5 DEF Init, LinkInv

(* What the places hold, by the encoder's and the window's step.           *)
LEMMA PlaceTypes ==
  ASSUME Typing
  PROVE  /\ broker \in Seq(Packet) /\ transmission_queue \in Seq(Packet)
         /\ Sent \subseteq Packet /\ Taken \subseteq Packet
         /\ Queued \subseteq Packet /\ Fresh \subseteq Packet
         /\ encoder = "queue" => encoded[1] \in Packet /\ Fresh = {encoded[1]}
         /\ encoder # "queue" => Fresh = {}
         /\ window = "publishing" => sending[1] \in Packet /\ Taken = {sending[1]}
         /\ window # "publishing" => Taken = {}
<1>1. /\ broker \in Seq(Packet) /\ transmission_queue \in Seq(Packet)
      /\ sending \in Seq(Packet) /\ encoded \in Seq(Packet)
  BY DEF Typing, TypeOK
<1>2. /\ Sent \subseteq Packet /\ Taken \subseteq Packet
      /\ Queued \subseteq Packet /\ Fresh \subseteq Packet
  BY <1>1, ElementsType DEF Sent, Taken, Queued, Fresh
<1>3. /\ encoder = "queue" => encoded[1] \in Packet /\ Fresh = {encoded[1]}
      /\ encoder # "queue" => Fresh = {}
  BY Holding, SmallQueues, Zenon DEF Fresh
<1>4. /\ window = "publishing" => sending[1] \in Packet /\ Taken = {sending[1]}
      /\ window # "publishing" => Taken = {}
  BY Holding, SmallQueues, Zenon DEF Taken
<1> QED BY <1>1, <1>2, <1>3, <1>4, Zenon

(* Different packets of one place, or of two, are different.               *)
LEMMA Apart ==
  ASSUME NEW X \in SUBSET Packet, NEW Y \in SUBSET Packet, Below(X, Y)
  PROVE  X \cap Y = {}
<1> SUFFICES ASSUME NEW e \in X, e \in Y PROVE FALSE
  OBVIOUS
<1>1. e.num \in Nat /\ e.num < e.num
  BY PacketFields DEF Below
<1> QED BY <1>1

LEMMA LinkSame ==
  ASSUME LinkInv, OrderInv', OnTheWay' = OnTheWay, lost' = lost,
         received' = received, counter' = counter,
         reported_missing' = reported_missing
  PROVE  LinkInv'
BY Zenon DEF LinkInv

LEMMA LinkLoses ==
  ASSUME LinkInv, Typing, OrderInv', NEW X \in SUBSET OnTheWay,
         OnTheWay' = OnTheWay \ X, lost' = lost \cup X,
         received' = received, counter' = counter,
         reported_missing' = reported_missing
  PROVE  LinkInv'
<1>1. /\ reported_missing \in [Sensor -> SUBSET Nat]
      /\ received \in [Sensor -> SUBSET Nat]
  BY DEF Typing, TypeOK
<1>2. /\ Tallied(OnTheWay \ X, lost \cup X, received, counter)
      /\ Reported(lost \cup X, received, reported_missing)
  BY <1>1, Loses DEF LinkInv
<1> QED BY <1>2, Zenon DEF LinkInv

LEMMA QueueRest ==
  ASSUME transmission_queue \in Seq(Packet), Ordered(transmission_queue)
  PROVE  LET X == FifoDropped(transmission_queue, TransmissionCapacity)
             rest == IF Len(transmission_queue) >= TransmissionCapacity
                     THEN Tail(transmission_queue) ELSE transmission_queue
         IN  /\ rest \in Seq(Packet) /\ Ordered(rest) /\ X \subseteq Queued
             /\ Elements(rest) = Queued \ X
<1>1. CASE Len(transmission_queue) >= TransmissionCapacity
  <2>1. transmission_queue # <<>>
    BY <1>1, CapacityAssumption
  <2>2. /\ Head(transmission_queue) \in Packet
        /\ Tail(transmission_queue) \in Seq(Packet)
        /\ Queued = {Head(transmission_queue)}
                      \cup Elements(Tail(transmission_queue))
        /\ Ordered(Tail(transmission_queue))
        /\ Below({Head(transmission_queue)}, Elements(Tail(transmission_queue)))
    BY <2>1, HeadSplit DEF Queued
  <2>3. {Head(transmission_queue)} \cap Elements(Tail(transmission_queue)) = {}
    BY <2>2, Apart, ElementsType
  <2> QED BY <1>1, <2>2, <2>3 DEF FifoDropped
<1>2. CASE ~(Len(transmission_queue) >= TransmissionCapacity)
  BY <1>2 DEF FifoDropped, Queued
<1> QED BY <1>1, <1>2

LEMMA LinkStep == Typing /\ LinkInv /\ [Next]_vars => LinkInv'
<1> SUFFICES ASSUME Typing, LinkInv, [Next]_vars PROVE LinkInv'
  OBVIOUS
<1>t. Typing'
  BY TypingStep
<1>o. /\ Ordered(broker) /\ Ordered(transmission_queue)
      /\ InOrder(Sent, Taken, Queued, Fresh)
  BY DEF LinkInv, OrderInv
<1>p. /\ Sent \subseteq Packet /\ Taken \subseteq Packet
      /\ Queued \subseteq Packet /\ Fresh \subseteq Packet
      /\ broker \in Seq(Packet) /\ transmission_queue \in Seq(Packet)
  BY PlaceTypes
<1>0. ASSUME UNCHANGED <<broker, sending, transmission_queue, encoded, lost,
                         received, counter, reported_missing>>
      PROVE  LinkInv'
  <2>1. /\ Sent' = Sent /\ Taken' = Taken /\ Queued' = Queued /\ Fresh' = Fresh
    BY <1>0, Zenon DEF Sent, Taken, Queued, Fresh
  <2>2. OnTheWay' = OnTheWay /\ OrderInv'
    BY <1>0, <1>o, <2>1, Zenon DEF OnTheWay, OrderInv
  <2> QED BY <1>0, <2>2, LinkSame, Zenon
<1>1. CASE UNCHANGED vars
  BY <1>0, <1>1 DEF vars
<1>2. ASSUME NEW p \in Prefix, Produce(p) PROVE LinkInv'
  BY <1>0, <1>2 DEF Produce, ground
<1>3. CASE Encode
  <2> DEFINE p == Head(downlink_buffer)
             e == [prefix |-> p, num |-> counter[p] + 1]
  <2>1. /\ p \in Prefix /\ counter[p] \in Nat /\ counter[p] < MaxPackets[p]
        /\ encoded' = <<e>> /\ counter' = [counter EXCEPT ![p] = @ + 1]
        /\ encoder # "queue"
        /\ UNCHANGED <<broker, sending, transmission_queue, lost, received,
                       reported_missing>>
    BY <1>3 DEF Encode, Typing, TypeOK, ground
  <2>2. e \in Packet /\ e.prefix = p /\ e.num = counter[p] + 1
    <3>1. counter[p] + 1 \in Nat \ {0} /\ counter[p] + 1 <= MaxPackets[p]
      BY <2>1, BoundAssumption DEF Prefix
    <3> QED BY <2>1, <3>1, PacketType
  <2> HIDE DEF p, e
  <2>3. /\ counter \in [Prefix -> Nat] /\ received \in [Sensor -> SUBSET Nat]
        /\ Tallied(OnTheWay, lost, received, counter)
    BY DEF Typing, TypeOK, LinkInv
  <2>4. /\ Tallied(OnTheWay \cup {e}, lost, received, counter')
        /\ Below(OnTheWay, {e})
    BY <2>1, <2>2, <2>3, NumbersNext
  <2>5. Fresh = {} /\ Fresh' = {e}
    BY <2>1, <2>2, PlaceTypes, SmallQueues DEF Fresh
  <2>6. Sent' = Sent /\ Taken' = Taken /\ Queued' = Queued
    BY <2>1 DEF Sent, Taken, Queued
  <2>7. OnTheWay' = OnTheWay \cup {e}
    BY <2>5, <2>6 DEF OnTheWay
  <2>8. InOrder(Sent', Taken', Queued', Fresh')
    BY <1>o, <2>4, <2>5, <2>6 DEF InOrder, Below, OnTheWay
  <2>9. OrderInv'
    BY <1>o, <2>1, <2>8 DEF OrderInv
  <2> QED BY <2>1, <2>4, <2>7, <2>9 DEF LinkInv
<1>4. CASE Queue
  <2> DEFINE x == encoded[1]
             X == FifoDropped(transmission_queue, TransmissionCapacity)
             rest == IF Len(transmission_queue) >= TransmissionCapacity
                     THEN Tail(transmission_queue) ELSE transmission_queue
  <2>1. /\ x \in Packet /\ Fresh = {x} /\ encoded' = <<>>
        /\ transmission_queue' = Append(rest, x) /\ lost' = lost \cup X
        /\ UNCHANGED <<broker, sending, received, counter, reported_missing>>
    BY <1>4, PlaceTypes DEF Queue, FifoPush, ground
  <2>2. /\ rest \in Seq(Packet) /\ Ordered(rest) /\ X \subseteq Queued
        /\ Elements(rest) = Queued \ X
    BY <1>o, <1>p, QueueRest
  <2> HIDE DEF x, X, rest
  <2>3. Below(Queued \ X, {x})
    BY <1>o, <2>1 DEF InOrder, Below
  <2>4. Queued' = (Queued \ X) \cup {x} /\ Ordered(transmission_queue')
    BY <2>1, <2>2, <2>3, AppendSplit DEF Queued
  <2>5. Sent' = Sent /\ Taken' = Taken /\ Fresh' = {}
    BY <2>1, SmallQueues DEF Sent, Taken, Fresh
  <2>6. InOrder(Sent', Taken', Queued', Fresh')
    BY <1>o, <2>1, <2>4, <2>5 DEF InOrder, Below
  <2>7. OrderInv'
    BY <1>o, <2>1, <2>4, <2>6 DEF OrderInv
  <2>8. OnTheWay' = OnTheWay \ X
    <3>1. /\ Sent \cap Queued = {} /\ Taken \cap Queued = {}
          /\ Queued \cap Fresh = {}
      BY <1>o, <1>p, Apart DEF InOrder
    <3> QED BY <2>1, <2>2, <2>4, <2>5, <3>1 DEF OnTheWay
  <2> QED BY <2>1, <2>2, <2>7, <2>8, LinkLoses DEF OnTheWay
<1>5. CASE CheckRates
  BY <1>0, <1>5 DEF CheckRates, ground
<1>6. CASE StartDownlink
  BY <1>0, <1>6 DEF StartDownlink, satellite, ground
<1>7. CASE OpenWindow
  BY <1>0, <1>7 DEF OpenWindow, satellite, ground
<1>8. CASE TakePacket
  <2> DEFINE h == Head(transmission_queue)
  <2>1. /\ transmission_queue # <<>> /\ sending' = <<h>> /\ Taken = {}
        /\ transmission_queue' = Tail(transmission_queue)
        /\ UNCHANGED <<broker, encoded, lost, received, counter,
                       reported_missing>>
    BY <1>8, PlaceTypes DEF TakePacket, satellite, ground
  <2>2. /\ h \in Packet /\ Queued = {h} \cup Queued'
        /\ Ordered(transmission_queue') /\ Below({h}, Queued')
    BY <1>o, <1>p, <2>1, HeadSplit DEF Queued
  <2>3. Sent' = Sent /\ Taken' = {h} /\ Fresh' = Fresh
    BY <2>1, <2>2, SmallQueues DEF Sent, Taken, Fresh
  <2>4. InOrder(Sent', Taken', Queued', Fresh')
    BY <1>o, <2>2, <2>3 DEF InOrder, Below
  <2>5. OrderInv' /\ OnTheWay' = OnTheWay
    BY <1>o, <2>1, <2>2, <2>3, <2>4 DEF OrderInv, OnTheWay
  <2> QED BY <2>1, <2>5, LinkSame
<1>9. CASE Publish
  <2> DEFINE x == sending[1]
  <2>1. /\ x \in Packet /\ Taken = {x} /\ sending' = <<>>
        /\ broker' = Append(broker, x)
        /\ UNCHANGED <<transmission_queue, encoded, lost, received, counter,
                       reported_missing>>
    BY <1>9, PlaceTypes DEF Publish, satellite, ground
  <2> HIDE DEF x
  <2>2. Below(Sent, {x})
    BY <1>o, <2>1 DEF InOrder
  <2>3. Sent' = Sent \cup {x} /\ Ordered(broker')
    BY <1>o, <1>p, <2>1, <2>2, AppendSplit DEF Sent
  <2>4. Taken' = {} /\ Queued' = Queued /\ Fresh' = Fresh
    BY <2>1, SmallQueues DEF Taken, Queued, Fresh
  <2>5. InOrder(Sent', Taken', Queued', Fresh')
    BY <1>o, <2>1, <2>3, <2>4 DEF InOrder, Below
  <2>6. OrderInv' /\ OnTheWay' = OnTheWay
    BY <1>o, <2>1, <2>3, <2>4, <2>5 DEF OrderInv, OnTheWay
  <2> QED BY <2>1, <2>6, LinkSame
<1>10. CASE PublishFails
  <2> DEFINE x == sending[1]
  <2>1. /\ x \in Packet /\ Taken = {x} /\ sending' = <<>>
        /\ lost' = lost \cup {x}
        /\ UNCHANGED <<broker, transmission_queue, encoded, received, counter,
                       reported_missing>>
    BY <1>10, PlaceTypes DEF PublishFails, satellite, ground
  <2> HIDE DEF x
  <2>2. Sent' = Sent /\ Taken' = {} /\ Queued' = Queued /\ Fresh' = Fresh
    BY <2>1, SmallQueues DEF Sent, Taken, Queued, Fresh
  <2>3. InOrder(Sent', Taken', Queued', Fresh')
    BY <1>o, <2>2 DEF InOrder, Below
  <2>4. OrderInv'
    BY <1>o, <2>1, <2>3 DEF OrderInv
  <2>5. OnTheWay' = OnTheWay \ {x} /\ {x} \subseteq OnTheWay
    <3>1. Sent \cap Taken = {} /\ Taken \cap Queued = {} /\ Taken \cap Fresh = {}
      BY <1>o, <1>p, Apart DEF InOrder
    <3> QED BY <2>1, <2>2, <3>1 DEF OnTheWay
  <2> QED BY <2>1, <2>4, <2>5, LinkLoses
<1>11. CASE CloseWindow
  BY <1>0, <1>11 DEF CloseWindow, satellite, ground
<1>12. CASE StartReceiver
  <2>1. /\ broker' = <<>> /\ lost' = lost \cup Sent
        /\ UNCHANGED <<sending, transmission_queue, encoded, received, counter,
                       reported_missing>>
    BY <1>12 DEF StartReceiver, satellite, Sent
  <2>2. /\ Sent' = {} /\ Taken' = Taken /\ Queued' = Queued /\ Fresh' = Fresh
        /\ Ordered(broker')
    BY <2>1, SmallQueues DEF Sent, Taken, Queued, Fresh
  <2>3. InOrder(Sent', Taken', Queued', Fresh')
    BY <1>o, <2>2 DEF InOrder, Below
  <2>4. OrderInv'
    BY <1>o, <2>1, <2>2, <2>3 DEF OrderInv
  <2>5. OnTheWay' = OnTheWay \ Sent /\ Sent \subseteq OnTheWay
    <3>1. Sent \cap Taken = {} /\ Sent \cap Queued = {} /\ Sent \cap Fresh = {}
      BY <1>o, <1>p, Apart DEF InOrder
    <3> QED BY <2>2, <3>1 DEF OnTheWay
  <2> QED BY <2>1, <2>4, <2>5, LinkLoses
<1>13. CASE Receive
  <2> DEFINE m == Head(broker)
  <2>1. /\ broker # <<>> /\ broker' = Tail(broker)
        /\ UNCHANGED <<sending, transmission_queue, encoded, lost, counter>>
    BY <1>13 DEF Receive, satellite
  <2>2. /\ m \in Packet /\ Sent = {m} \cup Sent'
        /\ Ordered(broker') /\ Below({m}, Sent') /\ Sent' \subseteq Packet
    BY <1>o, <1>p, <2>1, HeadSplit, ElementsType DEF Sent
  <2>3. Taken' = Taken /\ Queued' = Queued /\ Fresh' = Fresh
    BY <2>1 DEF Taken, Queued, Fresh
  <2>4. InOrder(Sent', Taken', Queued', Fresh')
    BY <1>o, <2>2, <2>3 DEF InOrder, Below
  <2>5. OrderInv'
    BY <1>o, <2>1, <2>2, <2>4 DEF OrderInv
  <2>6. Below({m}, OnTheWay')
    BY <1>o, <2>2, <2>3 DEF InOrder, Below, OnTheWay
  <2>7. OnTheWay' \subseteq Packet
    BY <1>p, <2>2, <2>3 DEF OnTheWay
  <2>8. m \in OnTheWay /\ OnTheWay' = OnTheWay \ {m}
    <3>1. {m} \cap OnTheWay' = {}
      BY <2>2, <2>6, <2>7, Apart
    <3> QED BY <2>2, <2>3, <3>1 DEF OnTheWay
  <2>9. \A f \in OnTheWay \ {m} : f.prefix = m.prefix => m.num < f.num
    BY <2>6, <2>8 DEF Below
  <2>10. /\ received \in [Sensor -> SUBSET Nat] /\ counter \in [Prefix -> Nat]
         /\ reported_missing \in [Sensor -> SUBSET Nat]
         /\ Tallied(OnTheWay, lost, received, counter)
         /\ Reported(lost, received, reported_missing)
    BY DEF Typing, TypeOK, LinkInv
  <2>11. Tallied(OnTheWay', lost, received', counter)
         /\ Reported(lost, received', reported_missing')
    <3>1. CASE m.prefix \notin Sensor
      <4>1. received' = received /\ reported_missing' = reported_missing
        BY <1>13, <3>1 DEF Receive
      <4>2. Tallied(OnTheWay', lost, received, counter)
        BY <2>8, <2>10, <3>1 DEF Tallied
      <4> QED BY <2>10, <4>1, <4>2
    <3>2. CASE m.prefix \in Sensor
      <4> DEFINE gap == Missing(m.prefix, m.num)
      <4>1. /\ received' = [received EXCEPT ![m.prefix] = @ \cup {m.num}]
            /\ reported_missing' = [reported_missing EXCEPT ![m.prefix] =
                                      @ \cup gap]
        BY <1>13, <3>2 DEF Receive
      <4>2. /\ m.num \in Nat \ {0} /\ gap \in SUBSET Nat
        BY <2>2, <3>2, PacketFields, MissingType
      <4>3. /\ prev_max(m.prefix) \in Nat
            /\ \A k \in received[m.prefix] : k \in Nat /\ k <= prev_max(m.prefix)
            /\ prev_max(m.prefix) = 0
                 \/ prev_max(m.prefix) \in received[m.prefix]
        BY <2>10, <3>2, PrevMax
      <4>4. 0 \notin gap
        BY <4>2, <4>3 DEF Missing
      <4>5. \A n \in Nat \ {0} :
              n \in gap <=> n < m.num /\ \A k \in received[m.prefix] : k < n
        <5> TAKE n \in Nat \ {0}
        <5>1. n \in gap <=> n < m.num /\ prev_max(m.prefix) < n
          BY <4>2, <4>3 DEF Missing
        <5>2. prev_max(m.prefix) < n
                <=> \A k \in received[m.prefix] : k < n
          BY <4>3
        <5> QED BY <5>1, <5>2
      <4> HIDE DEF gap, m
      <4> QED BY <2>8, <2>9, <2>10, <3>2, <4>1, <4>2, <4>4, <4>5, Delivers
    <3> QED BY <3>1, <3>2
  <2> QED BY <2>1, <2>5, <2>11 DEF LinkInv
<1> QED BY <1>1, <1>2, <1>3, <1>4, <1>5, <1>6, <1>7, <1>8, <1>9, <1>10,
           <1>11, <1>12, <1>13 DEF Next, Encoder, Window, Ground

LEMMA LinkCorrect == Spec => [](Typing /\ LinkInv)
<1>1. Init => Typing /\ LinkInv
  BY TypingInit, LinkInit
<1>2. Typing /\ LinkInv /\ [Next]_vars => (Typing /\ LinkInv)'
  BY TypingStep, LinkStep
<1> QED BY <1>1, <1>2, PTL DEF Spec

(* Membership in Numbers is membership of the packet.                      *)
LEMMA NumbersMembers ==
  ASSUME NEW X \in SUBSET Packet, NEW s \in Sensor, NEW n
  PROVE  n \in Numbers(X, s)
           <=> n \in Nat \ {0} /\ [prefix |-> s, num |-> n] \in X
<1>1. MaxPackets[s] \in Nat
  BY BoundAssumption
<1>2. ASSUME [prefix |-> s, num |-> n] \in X, n \in Nat \ {0}
      PROVE  n \in 1..MaxPackets[s]
  <2> DEFINE e == [prefix |-> s, num |-> n]
  <2>1. e \in Packet /\ e.num = n /\ e.prefix = s
    BY <1>2
  <2>2. e.num <= MaxPackets[e.prefix]
    BY <2>1, PacketFields
  <2> QED BY <1>1, <1>2, <2>1, <2>2
<1> QED BY <1>1, <1>2 DEF Numbers

LEMMA LinkAccounted == Typing /\ LinkInv => Accounted /\ GapsAreLosses
<1> SUFFICES ASSUME Typing, LinkInv PROVE Accounted /\ GapsAreLosses
  OBVIOUS
<1>1. Elements(Pipeline) = OnTheWay /\ Ordered(Pipeline)
  BY Places, Zenon DEF PlacesInv, LinkInv, OrderInv, OnTheWay
<1>2. /\ Tallied(OnTheWay, lost, received, counter)
      /\ Reported(lost, received, reported_missing)
      /\ lost \subseteq Packet /\ OnTheWay \subseteq Packet
      /\ received \in [Sensor -> SUBSET Nat]
      /\ reported_missing \in [Sensor -> SUBSET Nat]
  BY DEF LinkInv, Typing, TypeOK, Tallied
<1>3. ASSUME NEW s \in Sensor
      PROVE  AccountedOf(s)
             /\ reported_missing[s] = {n \in Numbers(lost, s) : n < prev_max(s)}
  <2>1. /\ prev_max(s) \in Nat
        /\ \A n \in received[s] : n \in Nat \ {0} /\ n <= prev_max(s)
                                  /\ n <= counter[s]
        /\ prev_max(s) = 0 \/ prev_max(s) \in received[s]
        /\ counter[s] \in Nat /\ counter[s] <= MaxPackets[s] /\ s \in Prefix
    BY <1>2, PrevMax DEF Tallied, Typing, TypeOK, Prefix
  <2> DEFINE F == Numbers(OnTheWay, s)
             L == Numbers(lost, s)
             P(n) == [prefix |-> s, num |-> n]
  <2>2. \A n : /\ n \in F <=> n \in Nat \ {0} /\ P(n) \in OnTheWay
               /\ n \in L <=> n \in Nat \ {0} /\ P(n) \in lost
    BY <1>2, NumbersMembers
  <2>3. \A n \in Nat \ {0} : n <= counter[s] => P(n) \in Packet
    <3> SUFFICES ASSUME NEW n \in Nat \ {0}, n <= counter[s]
                 PROVE  P(n) \in Packet
      OBVIOUS
    <3>1. n <= MaxPackets[s] /\ MaxPackets[s] \in Nat
      BY <2>1, BoundAssumption
    <3> QED BY <2>1, <3>1, PacketType
  <2>4. \A n : P(n).prefix = s /\ P(n).num = n
    OBVIOUS
  <2> HIDE DEF F, L, P
  <2>5. ASSUME NEW n \in F PROVE n > prev_max(s) /\ n \notin L /\ n <= counter[s]
    <3>1. n \in Nat \ {0} /\ P(n) \in OnTheWay
      BY <2>2
    <3>2. (\A k \in received[s] : k < n) /\ P(n) \notin lost /\ n <= counter[s]
      BY <1>2, <2>4, <3>1 DEF Tallied
    <3> QED BY <2>1, <2>2, <3>1, <3>2
  <2>6. ASSUME NEW n \in L PROVE n \notin received[s] /\ n <= counter[s]
    BY <1>2, <2>2, <2>4 DEF Tallied
  <2>7. ASSUME NEW n \in 1..counter[s] PROVE n \in received[s] \cup L \cup F
    BY <1>2, <2>1, <2>2, <2>3, <2>4 DEF Tallied
  <2>8. AccountedOf(s)
    <3>1. received[s] \cap L = {} /\ F \cap L = {} /\ \A n \in F : n > prev_max(s)
      BY <2>5, <2>6
    <3>2. 1..counter[s] = received[s] \cup L \cup F
      <4>1. \A n \in received[s] \cup L \cup F : n \in 1..counter[s]
        BY <2>1, <2>2, <2>5, <2>6
      <4> QED BY <2>7, <4>1
    <3> QED BY <1>1, <3>1, <3>2 DEF AccountedOf, F, L
  <2>9. reported_missing[s] = {n \in L : n < prev_max(s)}
    <3>1. ASSUME NEW n \in reported_missing[s]
          PROVE  n \in L /\ n < prev_max(s)
      <4>1. P(n) \in lost /\ n \in Nat
        BY <1>2 DEF Reported, P
      <4>2. n \in Nat \ {0}
        BY <1>2, <2>4, <4>1, PacketFields
      <4>3. PICK m \in received[s] : n < m
        BY <1>2, <2>4, <4>1 DEF Reported
      <4> QED BY <2>1, <2>2, <4>1, <4>2, <4>3
    <3>2. ASSUME NEW n \in L, n < prev_max(s)
          PROVE  n \in reported_missing[s]
      <4>1. P(n) \in lost /\ n \in Nat
        BY <2>2
      <4>2. prev_max(s) \in received[s]
        BY <2>1, <3>2, <4>1
      <4> QED BY <1>2, <2>4, <3>2, <4>1, <4>2 DEF Reported
    <3> QED BY <3>1, <3>2
  <2> QED BY <2>8, <2>9 DEF L
<1> QED BY <1>1, <1>3 DEF Accounted, GapsAreLosses

(* Every numbered packet is received, lost or in one place of the pipeline, *)
(* in the order of the numbers, for any interleaving of encoder, window    *)
(* and ground and any failures.                                            *)
THEOREM LinkAccounts == Spec => []Accounted
BY LinkCorrect, LinkAccounted, PTL

(* The validator's missing packets are exactly the losses in front of its  *)
(* last packet.                                                            *)
THEOREM LinkGapsAreLosses == Spec => []GapsAreLosses
BY LinkCorrect, LinkAccounted, PTL

-----------------------------------------------------------------------------
(* While a window is open, the expected time and so every stamp was        *)
(* computed for it or for an earlier one.                                  *)
WindowInv ==
  window \in {"open", "publishing"}
    => expected <= 0 /\ \A e \in Packet : stamp[e] <= 0

LEMMA WindowInit == Init => WindowInv
BY DEF Init, WindowInv

LEMMA WindowStep == Typing /\ WindowInv /\ [Next]_vars => WindowInv'
<1> SUFFICES ASSUME Typing, WindowInv, [Next]_vars PROVE WindowInv'
  OBVIOUS
<1>0. ASSUME UNCHANGED <<window, expected, stamp>> PROVE WindowInv'
  BY <1>0 DEF WindowInv
<1>1. CASE UNCHANGED vars
  BY <1>0, <1>1 DEF vars
<1>2. ASSUME NEW p \in Prefix, Produce(p) PROVE WindowInv'
  BY <1>0, <1>2 DEF Produce, stamps
<1>3. CASE Encode
  <2>1. /\ window' = window /\ expected' = expected /\ stamp \in [Packet -> -1..1]
        /\ \A e \in Packet : stamp'[e] = stamp[e] \/ stamp'[e] = expected
    BY <1>3 DEF Encode, Typing, TypeOK
  <2> QED BY <2>1 DEF WindowInv
<1>4. CASE Queue \/ CheckRates
  BY <1>0, <1>4 DEF Queue, CheckRates, stamps
<1>5. CASE OpenWindow
  <2>1. /\ expected' = Older(expected) /\ expected \in -1..1
        /\ \A e \in Packet : stamp'[e] = Older(stamp[e]) /\ stamp[e] \in -1..1
    BY <1>5 DEF OpenWindow, Typing, TypeOK
  <2> QED BY <2>1, OlderType DEF WindowInv
<1>6. CASE TakePacket \/ Publish
  BY <1>6 DEF TakePacket, Publish, WindowInv, stamps
<1>7. CASE StartDownlink \/ PublishFails \/ CloseWindow
  BY <1>7 DEF StartDownlink, PublishFails, CloseWindow, WindowInv
<1>8. CASE StartReceiver \/ Receive
  BY <1>0, <1>8 DEF StartReceiver, Receive, stamps
<1> QED BY <1>1, <1>2, <1>3, <1>4, <1>5, <1>6, <1>7, <1>8
        DEF Next, Encoder, Window, Ground

(* No packet is published in a window before the one its time was computed *)
(* for.                                                                    *)
THEOREM LinkNeverAWindowEarly == Spec => []NeverAWindowEarly
<1>1. Typing /\ WindowInv => NeverAWindowEarly
  BY Holding DEF NeverAWindowEarly, WindowInv
<1>2. Init => Typing /\ WindowInv
  BY TypingInit, WindowInit
<1>3. Typing /\ WindowInv /\ [Next]_vars => (Typing /\ WindowInv)'
  BY TypingStep, WindowStep
<1> QED BY <1>1, <1>2, <1>3, PTL DEF Spec

(* Between two windows the expected time is meant for the next one and     *)
(* whatever is stamped for an earlier one was left; in a window it is      *)
(* meant for this one.                                                     *)
Waiting == Taken \cup Queued \cup Fresh

LeftInv ==
  /\ window = "closed"
       => expected = 1 /\ \A e \in Waiting : stamp[e] <= 0 => e \in left
  /\ window \in {"open", "publishing"}
       => expected = 0 /\ \A e \in Waiting : stamp[e] = -1 => e \in left

LEMMA LeftInit == Init => LeftInv
BY DEF Init, LeftInv

LEMMA LeftStep ==
  ASSUME Typing, LinkInv, LeftInv, [Next]_vars
  PROVE  LeftInv'
<1>t. Typing'
  BY TypingStep
<1>o. InOrder(Sent, Taken, Queued, Fresh) /\ Ordered(transmission_queue)
  BY DEF LinkInv, OrderInv
<1>p. /\ Taken \subseteq Packet /\ Queued \subseteq Packet /\ Fresh \subseteq Packet
      /\ broker \in Seq(Packet) /\ transmission_queue \in Seq(Packet)
      /\ stamp \in [Packet -> -1..1] /\ expected \in -1..1
  BY PlaceTypes DEF Typing, TypeOK
<1>q. Elements(transmission_queue \o encoded) = Queued \cup Fresh
  BY ElementsConcat DEF Queued, Fresh, Typing, TypeOK
<1>0. ASSUME UNCHANGED <<window, stamps, sending, transmission_queue, encoded>>
      PROVE  LeftInv'
  <2>1. Waiting' = Waiting
    BY <1>0, Zenon DEF Waiting, Taken, Queued, Fresh
  <2> QED BY <1>0, <2>1 DEF LeftInv, stamps
<1>1. CASE UNCHANGED vars
  BY <1>0, <1>1 DEF vars, stamps
<1>2. ASSUME NEW p \in Prefix, Produce(p) PROVE LeftInv'
  BY <1>0, <1>2 DEF Produce
<1>3. CASE Encode
  <2> DEFINE p == Head(downlink_buffer)
             e == [prefix |-> p, num |-> counter[p] + 1]
  <2>1. /\ p \in Prefix /\ counter[p] \in Nat /\ counter[p] < MaxPackets[p]
        /\ encoded' = <<e>> /\ stamp' = [stamp EXCEPT ![e] = expected]
        /\ encoder # "queue"
        /\ UNCHANGED <<window, expected, left, sending, transmission_queue>>
    BY <1>3 DEF Encode, Typing, TypeOK
  <2>2. e \in Packet /\ e.prefix = p /\ e.num = counter[p] + 1
    <3>1. counter[p] + 1 \in Nat \ {0} /\ counter[p] + 1 <= MaxPackets[p]
      BY <2>1, BoundAssumption DEF Prefix
    <3> QED BY <2>1, <3>1, PacketType
  <2> HIDE DEF p, e
  <2>3. Fresh = {} /\ Fresh' = {e} /\ Taken' = Taken /\ Queued' = Queued
    BY <2>1, <2>2, PlaceTypes, SmallQueues DEF Fresh, Taken, Queued
  <2>4. Waiting' = Waiting \cup {e}
    BY <2>3 DEF Waiting
  <2>5. stamp'[e] = expected /\ \A f \in Waiting : f # e => stamp'[f] = stamp[f]
    BY <1>p, <2>1, <2>2
  <2> QED BY <2>1, <2>4, <2>5 DEF LeftInv
<1>4. CASE Queue
  <2> DEFINE x == encoded[1]
             X == FifoDropped(transmission_queue, TransmissionCapacity)
             rest == IF Len(transmission_queue) >= TransmissionCapacity
                     THEN Tail(transmission_queue) ELSE transmission_queue
  <2>1. /\ x \in Packet /\ Fresh = {x} /\ encoded' = <<>>
        /\ transmission_queue' = Append(rest, x) /\ left' = left \ X
        /\ UNCHANGED <<window, expected, stamp, sending>>
    BY <1>4, PlaceTypes DEF Queue, FifoPush
  <2>2. rest \in Seq(Packet) /\ X \subseteq Queued /\ Elements(rest) = Queued \ X
    BY <1>p, <1>o, QueueRest
  <2> HIDE DEF x, X, rest
  <2>3. Queued' = (Queued \ X) \cup {x} /\ Taken' = Taken /\ Fresh' = {}
    BY <2>1, <2>2, AppendSplit, SmallQueues DEF Queued, Taken, Fresh
  <2>4. Taken \cap Queued = {} /\ Queued \cap Fresh = {}
    BY <1>o, <1>p, Apart DEF InOrder
  <2>5. Waiting' \subseteq Waiting \ X
    BY <2>1, <2>2, <2>3, <2>4 DEF Waiting
  <2> QED BY <2>1, <2>5 DEF LeftInv
<1>5. CASE CheckRates
  BY <1>0, <1>5 DEF CheckRates
<1>6. CASE OpenWindow
  <2>1. /\ window = "closed" /\ window' = "open" /\ left' = left
        /\ expected' = Older(expected)
        /\ \A e \in Packet : stamp'[e] = Older(stamp[e]) /\ stamp[e] \in -1..1
        /\ UNCHANGED <<sending, transmission_queue, encoded>>
    BY <1>6, <1>p DEF OpenWindow, satellite
  <2>2. Waiting' = Waiting /\ Waiting \subseteq Packet
    BY <1>p, <2>1 DEF Waiting, Taken, Queued, Fresh
  <2> QED BY <2>1, <2>2 DEF LeftInv, Older
<1>7. CASE TakePacket
  <2> DEFINE h == Head(transmission_queue)
  <2>1. /\ transmission_queue # <<>> /\ sending' = <<h>>
        /\ transmission_queue' = Tail(transmission_queue)
        /\ window = "open" /\ window' = "publishing"
        /\ UNCHANGED <<encoded, stamp, expected, left>>
    BY <1>7 DEF TakePacket, satellite, stamps
  <2>2. h \in Packet /\ Queued = {h} \cup Queued'
    BY <1>p, <2>1, HeadSplit DEF Queued
  <2>3. Taken' = {h} /\ Fresh' = Fresh
    BY <2>1, <2>2, SmallQueues DEF Taken, Fresh
  <2>4. Waiting' \subseteq Waiting
    BY <2>2, <2>3 DEF Waiting
  <2> QED BY <2>1, <2>4 DEF LeftInv
<1>8. CASE Publish
  <2> DEFINE x == sending[1]
  <2>1. /\ x \in Packet /\ Taken = {x} /\ sending' = <<>> /\ left' = left \ {x}
        /\ window = "publishing" /\ window' = "open"
        /\ UNCHANGED <<transmission_queue, encoded, stamp, expected>>
    BY <1>8, PlaceTypes DEF Publish, satellite
  <2> HIDE DEF x
  <2>2. Taken' = {} /\ Queued' = Queued /\ Fresh' = Fresh
    BY <2>1, SmallQueues DEF Taken, Queued, Fresh
  <2>3. Taken \cap Queued = {} /\ Taken \cap Fresh = {}
    BY <1>o, <1>p, Apart DEF InOrder
  <2>4. Waiting' \subseteq Waiting \ {x}
    BY <2>1, <2>2, <2>3 DEF Waiting
  <2> QED BY <2>1, <2>4 DEF LeftInv
<1>9. CASE PublishFails \/ CloseWindow \/ StartDownlink
  <2>1. Taken' = {}
    <3>1. CASE PublishFails
      BY <3>1, SmallQueues DEF PublishFails, Taken
    <3>2. CASE CloseWindow \/ StartDownlink
      BY <3>2, PlaceTypes DEF CloseWindow, StartDownlink, Taken
    <3> QED BY <1>9, <3>1, <3>2
  <2>2. /\ UNCHANGED <<transmission_queue, encoded>>
        /\ window' = "closed" /\ expected' = 1
        /\ Elements(transmission_queue \o encoded) \subseteq left'
    BY <1>9 DEF PublishFails, CloseWindow, StartDownlink, WaitForNextWindow,
                satellite
  <2>3. Waiting' = Queued \cup Fresh
    BY <2>1, <2>2 DEF Waiting, Queued, Fresh
  <2> QED BY <1>q, <2>2, <2>3 DEF LeftInv
<1>10. CASE StartReceiver \/ Receive
  BY <1>0, <1>10 DEF StartReceiver, Receive, satellite
<1> QED BY <1>1, <1>2, <1>3, <1>4, <1>5, <1>6, <1>7, <1>8, <1>9, <1>10
        DEF Next, Encoder, Window, Ground

(* A packet is out of date only if it was there when a window closed.      *)
THEOREM LinkStaleWasLeft == Spec => []StaleWasLeft
<1>1. Typing /\ LeftInv => StaleWasLeft
  <2> SUFFICES ASSUME Typing, LeftInv PROVE StaleWasLeft
    OBVIOUS
  <2>1. Elements(sending \o transmission_queue \o encoded) = Waiting
    <3>1. /\ sending \in Seq(Packet) /\ transmission_queue \in Seq(Packet)
          /\ encoded \in Seq(Packet)
      BY DEF Typing, TypeOK
    <3>2. sending \o transmission_queue \in Seq(Packet)
      BY <3>1, ConcatProperties
    <3> QED BY <3>1, <3>2, ElementsConcat DEF Waiting, Taken, Queued, Fresh
  <2>2. window \in {"starting", "closed", "open", "publishing"}
    BY DEF Typing, TypeOK
  <2> QED BY <2>1, <2>2 DEF StaleWasLeft, LeftInv
<1>2. Init => LeftInv
  BY LeftInit
<1>3. Typing /\ LinkInv /\ LeftInv /\ [Next]_vars => LeftInv'
  BY LeftStep
<1> QED BY <1>1, <1>2, <1>3, LinkCorrect, PTL DEF Spec

=============================================================================
