----------------------- MODULE SensorAcquisitionProofs -----------------------
(***************************************************************************)
(* Theorems about SensorAcquisition, for any sensors, capacity, priorities *)
(* and injected delay: its types, that no four losses in a row go          *)
(* unalerted, that a full buffer gives up its least important datum, and   *)
(* that the heap implements the abstract buffer.                           *)
(***************************************************************************)
EXTENDS SensorAcquisition, FiniteSetTheorems, SequenceTheorems, TLAPS

----------------------------------------------------------------------------
(* The count of losses.                                                    *)
MissesInv == missed_cycles \in 0..3 /\ unalerted \in Nat /\ FourMissesAlert

LEMMA MissesStep == MissesInv /\ [Next]_vars => MissesInv'
<1> SUFFICES ASSUME MissesInv, [Next]_vars PROVE MissesInv'
  OBVIOUS
<1> USE DEF MissesInv, FourMissesAlert
<1>1. CASE UNCHANGED <<missed_cycles, unalerted>>
  BY <1>1
<1>2. ASSUME NEW s \in Sensor, PushOk(s) PROVE MissesInv'
  BY <1>2 DEF PushOk
<1>3. ASSUME NEW s \in Sensor, PushErr(s) PROVE MissesInv'
  <2>1. CASE s # Telemetry
    BY <1>1, <1>3, <2>1 DEF PushErr
  <2>2. CASE s = Telemetry /\ AlertDue(missed_cycles + 1)
    BY <1>3, <2>2 DEF PushErr
  <2>3. CASE s = Telemetry /\ ~AlertDue(missed_cycles + 1)
    <3>1. missed_cycles + 1 <= 3
      BY <2>3 DEF AlertDue
    <3> QED BY <1>3, <2>3, <3>1 DEF PushErr
  <2> QED BY <2>1, <2>2, <2>3
<1> QED
  BY <1>1, <1>2, <1>3
     DEF vars, Next, Acquire, Sample, Read, ReadTimeout, RecoverClear

(* Four telemetry losses in a row always raise the safety alert.           *)
THEOREM MissesAlerted == Spec => []FourMissesAlert
<1>1. Init => MissesInv
  BY DEF Init, MissesInv, FourMissesAlert
<1>2. MissesInv => FourMissesAlert
  BY DEF MissesInv
<1> QED BY <1>1, <1>2, MissesStep, PTL DEF Spec

----------------------------------------------------------------------------
(* When a datum was sampled: the injected delay is taken from its stamp.   *)
At(d) == d.timestamp + (IF "delay" \in d.faults THEN InjectedDelay ELSE 0)

Even(n) == n % 2 = 0

(* No two data in the system were sampled at the same time.                *)
HeldBy(s) == sampled[s] # Nothing

SampledInv ==
  /\ clock \in Nat /\ Even(clock)
  /\ sampled \in [Sensor -> TimedDatum \cup {Nothing}]
  /\ heap \subseteq TimedDatum
  /\ \A d \in heap : Even(At(d)) /\ At(d) <= clock
  /\ \A s \in Sensor : HeldBy(s) => Even(At(sampled[s])) /\ At(sampled[s]) <= clock
  /\ \A d, e \in heap : At(d) = At(e) => d = e
  /\ \A s, t \in Sensor :
       HeldBy(s) /\ HeldBy(t) /\ At(sampled[s]) = At(sampled[t]) => s = t
  /\ \A s \in Sensor, d \in heap : HeldBy(s) => At(sampled[s]) # At(d)

(* Bottom is a choice: whatever is left of the heap has a lowest datum.    *)
IsLowest(d, S) == d \in S /\ \A e \in S \ {d} : Above(e, d)

HeapInv ==
  /\ IsFiniteSet(heap) /\ Cardinality(heap) <= BufferCapacity
  /\ \A S \in SUBSET heap : S # {} => \E d \in S : IsLowest(d, S)

LEMMA Parity ==
  ASSUME NEW i \in Int, NEW j \in Int, Even(i), Even(j)
  PROVE  /\ i - j # InjectedDelay /\ j - i # InjectedDelay
         /\ \A n \in Nat : Even(i + 2 * n)
<1>1. PICK k \in Int : i = 2 * k
  BY DEF Even
<1>2. PICK l \in Int : j = 2 * l
  BY DEF Even
<1>3. PICK m \in Int : InjectedDelay = 2 * m + 1
  BY TimeAssumption
<1>4. \A n \in Nat : Even(2 * (k + n))
  BY DEF Even
<1> QED BY <1>1, <1>2, <1>3, <1>4

LEMMA AtType ==
  ASSUME NEW d \in TimedDatum
  PROVE  At(d) \in Int /\ d.timestamp \in Int /\ d.priority \in 1..5 /\ d # Nothing
BY TimeAssumption DEF At, TimedDatum, Nothing

(* So the order of any two of them is decided.                             *)
LEMMA Decided ==
  ASSUME NEW d \in TimedDatum, NEW e \in TimedDatum,
         Even(At(d)), Even(At(e)), At(d) # At(e)
  PROVE  Above(d, e) \/ Above(e, d)
<1>1. d.timestamp # e.timestamp
  <2>1. d.timestamp - e.timestamp = 0 => At(d) - At(e) \in {0, InjectedDelay, -InjectedDelay}
    BY AtType, TimeAssumption DEF At
  <2> DEFINE i == At(d)
             j == At(e)
  <2>2. i \in Int /\ j \in Int /\ i # j /\ InjectedDelay \in Int
    BY AtType, TimeAssumption
  <2>3. i - j # InjectedDelay /\ j - i # InjectedDelay
    BY <2>2, Parity
  <2>4. d.timestamp - e.timestamp = 0 => i - j \in {0, InjectedDelay, -InjectedDelay}
    BY <2>1
  <2> HIDE DEF i, j
  <2>5. d.timestamp - e.timestamp # 0
    BY <2>2, <2>3, <2>4
  <2> QED BY <2>5, AtType
<1> QED BY <1>1, AtType DEF Above

LEMMA AboveOrder ==
  ASSUME NEW d \in TimedDatum, NEW e \in TimedDatum, NEW f \in TimedDatum
  PROVE  /\ Above(d, e) /\ Above(e, f) => Above(d, f)
         /\ Above(d, e) => ~Above(e, d)
         /\ Above(d, e) => Outranks(d, e)
BY AtType DEF Above, Outranks

LEMMA BottomIsLowest ==
  ASSUME SampledInv, HeapInv, heap # {}
  PROVE  IsLowest(Bottom(heap), heap)
<1>1. \E d \in heap : \A e \in heap \ {d} : Above(e, d)
  BY DEF HeapInv, IsLowest
<1> QED BY <1>1 DEF Bottom, IsLowest

(* A datum that is decided against all of a heap has its place in it.      *)
LEMMA AddKeepsLowest ==
  ASSUME NEW H \in SUBSET TimedDatum, NEW d \in TimedDatum,
         \A S \in SUBSET H : S # {} => \E m \in S : IsLowest(m, S),
         \A e \in H : Above(d, e) \/ Above(e, d)
  PROVE  \A S \in SUBSET (H \cup {d}) : S # {} => \E m \in S : IsLowest(m, S)
<1> SUFFICES ASSUME NEW S \in SUBSET (H \cup {d}), S # {}
             PROVE  \E m \in S : IsLowest(m, S)
  OBVIOUS
<1>1. CASE S \subseteq H
  BY <1>1
<1>2. CASE d \in S /\ S \ {d} = {}
  BY <1>2 DEF IsLowest
<1>3. CASE d \in S /\ S \ {d} # {} /\ d \notin H
  <2>1. PICK m \in S \ {d} : IsLowest(m, S \ {d})
    BY <1>3
  <2>2. m \in H /\ m \in TimedDatum
    BY <2>1
  <2>3. CASE Above(d, m)
    <3>1. IsLowest(m, S)
      BY <2>1, <2>3 DEF IsLowest
    <3> QED BY <2>1, <3>1
  <2>4. CASE Above(m, d)
    <3>1. ASSUME NEW e \in S \ {d} PROVE Above(e, d)
      <4>1. e = m \/ Above(e, m)
        BY <2>1 DEF IsLowest
      <4>2. e \in TimedDatum
        OBVIOUS
      <4> QED BY <2>2, <2>4, <4>1, <4>2, AboveOrder
    <3>2. IsLowest(d, S)
      BY <1>3, <3>1 DEF IsLowest
    <3> QED BY <1>3, <3>2
  <2> QED BY <2>2, <2>3, <2>4
<1> QED BY <1>1, <1>2, <1>3

(* The datum a sensor holds is decided against all of the heap.            *)
LEMMA HeldDecided ==
  ASSUME SampledInv, NEW s \in Sensor, HeldBy(s)
  PROVE  /\ sampled[s] \in TimedDatum /\ sampled[s] \notin heap
         /\ \A e \in heap : Above(sampled[s], e) \/ Above(e, sampled[s])
<1>1. sampled[s] \in TimedDatum /\ Even(At(sampled[s]))
  BY DEF SampledInv, HeldBy
<1>2. ASSUME NEW e \in heap
      PROVE  e \in TimedDatum /\ Even(At(e)) /\ At(sampled[s]) # At(e)
  BY DEF SampledInv
<1> QED BY <1>1, <1>2, Decided

LEMMA FullHeap ==
  ASSUME SampledInv, HeapInv, Cardinality(heap) >= BufferCapacity
  PROVE  /\ heap # {} /\ Cardinality(heap) = BufferCapacity
         /\ Bottom(heap) \in heap /\ IsLowest(Bottom(heap), heap)
<1>1. Cardinality(heap) \in Nat /\ BufferCapacity \in Nat \ {0}
  BY FS_CardinalityType, CapacityAssumption DEF HeapInv
<1>2. heap # {} /\ Cardinality(heap) = BufferCapacity
  BY <1>1, FS_EmptySet DEF HeapInv
<1> QED BY <1>2, BottomIsLowest DEF IsLowest

LEMMA StoredSize ==
  ASSUME SampledInv, HeapInv, NEW d
  PROVE  /\ Stored(d) \subseteq heap \cup {d}
         /\ IsFiniteSet(Stored(d)) /\ Cardinality(Stored(d)) <= BufferCapacity
<1>1. /\ IsFiniteSet(heap) /\ Cardinality(heap) \in Nat
      /\ BufferCapacity \in Nat \ {0}
  BY FS_CardinalityType, CapacityAssumption DEF HeapInv
<1>2. CASE Cardinality(heap) >= BufferCapacity
  <2> DEFINE rest == heap \ {Bottom(heap)}
  <2>1. IsFiniteSet(rest) /\ Cardinality(rest) = BufferCapacity - 1
    BY <1>1, <1>2, FullHeap, FS_RemoveElement
  <2>2. Stored(d) = rest \cup {d} /\ rest \subseteq heap
    BY <1>2 DEF Stored
  <2> HIDE DEF rest
  <2>3. /\ IsFiniteSet(rest \cup {d})
        /\ Cardinality(rest \cup {d}) <= BufferCapacity
    <3>1. /\ IsFiniteSet(rest \cup {d})
          /\ Cardinality(rest \cup {d}) \in {Cardinality(rest), Cardinality(rest) + 1}
      BY <2>1, FS_AddElement
    <3>2. \A n \in Nat \ {0} : n - 1 <= n /\ n - 1 + 1 <= n
      OBVIOUS
    <3> QED BY <1>1, <2>1, <3>1, <3>2
  <2> QED BY <2>2, <2>3, Zenon
<1>3. CASE ~(Cardinality(heap) >= BufferCapacity)
  <2>1. Stored(d) = heap \cup {d}
    BY <1>3 DEF Stored
  <2>2. /\ IsFiniteSet(heap \cup {d})
        /\ Cardinality(heap \cup {d}) <= BufferCapacity
    BY <1>1, <1>3, FS_AddElement
  <2> QED BY <2>1, <2>2, Zenon
<1> QED BY <1>2, <1>3

LEMMA SampledStep == SampledInv /\ HeapInv /\ [Next]_vars => SampledInv' /\ HeapInv'
<1> SUFFICES ASSUME SampledInv, HeapInv, [Next]_vars
             PROVE  SampledInv' /\ HeapInv'
  OBVIOUS
(* A heap that lost some of its data.                                      *)
<1>a. ASSUME heap' \subseteq heap PROVE HeapInv'
  <2>1. IsFiniteSet(heap') /\ Cardinality(heap') <= Cardinality(heap)
    BY <1>a, FS_Subset DEF HeapInv
  <2>2. Cardinality(heap') \in Nat /\ Cardinality(heap) \in Nat
    BY <2>1, FS_CardinalityType DEF HeapInv
  <2>3. Cardinality(heap') <= BufferCapacity
    BY <2>1, <2>2, CapacityAssumption DEF HeapInv
  <2>4. \A S \in SUBSET heap' : S \in SUBSET heap
    BY <1>a
  <2> QED BY <2>1, <2>3, <2>4 DEF HeapInv, IsLowest, Above
<1>b. ASSUME heap' \subseteq heap, UNCHANGED <<clock, sampled>>
      PROVE  SampledInv' /\ HeapInv'
  BY <1>a, <1>b DEF SampledInv, HeldBy
<1>1. CASE UNCHANGED vars
  BY <1>1, <1>b DEF vars
<1>2. ASSUME NEW s \in Sensor, NEW faults \in SUBSET Kinds,
             NEW elapsed \in 1..2, Sample(s, faults, elapsed)
      PROVE  SampledInv' /\ HeapInv'
  <2> DEFINE delay == IF "delay" \in faults THEN InjectedDelay ELSE 0
             stamp == clock' - delay
             d == [sensor |-> s,
                   priority |-> IF sensor_command[s] = "IP" THEN 5
                                ELSE BasePriority[s],
                   faults |-> faults, timestamp |-> stamp]
  <2>1. /\ clock' = clock + 2 * elapsed /\ UNCHANGED heap
        /\ sampled' = [sampled EXCEPT ![s] = d] /\ ~HeldBy(s)
    BY <1>2 DEF Sample, HeldBy
  <2>2. clock' \in Nat /\ Even(clock') /\ clock' > clock
    <3>1. clock \in Nat /\ Even(clock) /\ elapsed \in Nat /\ elapsed > 0
      BY DEF SampledInv
    <3>2. \A n \in Nat : Even(clock + 2 * n)
      BY <3>1, Parity
    <3>3. Even(clock')
      BY <2>1, <3>1, <3>2
    <3> QED BY <2>1, <3>1, <3>3
  <2>3. stamp \in Int /\ At(d) = clock'
    <3>1. d.timestamp = stamp /\ d.faults = faults
      OBVIOUS
    <3>2. delay \in Nat /\ At(d) = d.timestamp + delay
      BY <3>1, TimeAssumption DEF At
    <3> HIDE DEF d, delay
    <3> QED BY <2>2, <3>1, <3>2
  <2>4. d \in TimedDatum
    BY <2>3, PriorityAssumption DEF TimedDatum
  <2> HIDE DEF d, delay
  <2>5. HeapInv'
    BY <1>a, <2>1
  <2>6. \A t \in Sensor : IF t = s THEN HeldBy(t)' /\ sampled'[t] = d
                          ELSE HeldBy(t)' = HeldBy(t) /\ sampled'[t] = sampled[t]
    BY <2>1, <2>4, AtType DEF HeldBy, SampledInv
  <2>7. sampled' \in [Sensor -> TimedDatum \cup {Nothing}]
    BY <2>1, <2>4 DEF SampledInv
  <2>8. \A e \in TimedDatum : At(e) <= clock => At(e) <= clock' /\ At(e) # clock'
    BY <2>2, AtType DEF SampledInv
  <2>9. \A e \in heap : e \in TimedDatum /\ Even(At(e)) /\ At(e) <= clock'
                         /\ At(e) # clock'
    BY <2>8 DEF SampledInv
  <2>10. \A t \in Sensor :
           HeldBy(t) => /\ sampled[t] \in TimedDatum /\ Even(At(sampled[t]))
                        /\ At(sampled[t]) <= clock' /\ At(sampled[t]) # clock'
    BY <2>8 DEF SampledInv, HeldBy
  <2>11. \A t \in Sensor : HeldBy(t)' => /\ Even(At(sampled'[t]))
                                         /\ At(sampled'[t]) <= clock'
    BY <2>2, <2>3, <2>6, <2>10
  <2>12. \A t, u \in Sensor :
           HeldBy(t)' /\ HeldBy(u)' /\ At(sampled'[t]) = At(sampled'[u]) => t = u
    BY <2>3, <2>6, <2>10 DEF SampledInv
  <2>13. \A t \in Sensor, e \in heap : HeldBy(t)' => At(sampled'[t]) # At(e)
    BY <2>3, <2>6, <2>9 DEF SampledInv
  <2> QED
    BY <2>1, <2>2, <2>5, <2>7, <2>9, <2>11, <2>12, <2>13 DEF SampledInv, At
<1>3. ASSUME NEW s \in Sensor, PushOk(s) PROVE SampledInv' /\ HeapInv'
  <2> DEFINE d == sampled[s]
  <2>1. /\ UNCHANGED clock /\ heap' = Stored(d) /\ HeldBy(s)
        /\ sampled' = [sampled EXCEPT ![s] = Nothing]
    BY <1>3 DEF PushOk, HeldBy
  <2>2. /\ d \in TimedDatum /\ Even(At(d)) /\ At(d) <= clock
        /\ \A e \in heap : Above(d, e) \/ Above(e, d)
        /\ \A e \in heap : At(e) # At(d)
    BY <2>1, HeldDecided DEF SampledInv
  <2>3. \A t \in Sensor : HeldBy(t)' => t # s /\ HeldBy(t) /\ sampled'[t] = sampled[t]
    BY <2>1 DEF HeldBy, SampledInv
  <2>4. /\ heap' \subseteq heap \cup {d}
        /\ IsFiniteSet(heap') /\ Cardinality(heap') <= BufferCapacity
    BY <2>1, StoredSize
  <2>5. HeapInv'
    <3>1. \A S \in SUBSET (heap \cup {d}) : S # {} => \E m \in S : IsLowest(m, S)
      BY <2>2, AddKeepsLowest DEF SampledInv, HeapInv
    <3>2. \A S \in SUBSET heap' : S \in SUBSET (heap \cup {d})
      BY <2>4
    <3> QED BY <2>4, <3>1, <3>2 DEF HeapInv, IsLowest, Above
  <2>6. \A t \in Sensor : HeldBy(t)' => At(sampled[t]) # At(d)
    BY <2>1, <2>3 DEF SampledInv
  <2> HIDE DEF d
  <2>7. SampledInv'
    <3>1. sampled' \in [Sensor -> TimedDatum \cup {Nothing}] /\ heap' \subseteq TimedDatum
      BY <2>1, <2>2, <2>4 DEF SampledInv
    <3>2. \A e \in heap' : Even(At(e)) /\ At(e) <= clock
      BY <2>2, <2>4 DEF SampledInv
    <3>3. \A e, f \in heap' : At(e) = At(f) => e = f
      BY <2>2, <2>4 DEF SampledInv
    <3>4. \A t \in Sensor, e \in heap' : HeldBy(t)' => At(sampled'[t]) # At(e)
      BY <2>3, <2>4, <2>6 DEF SampledInv
    <3>5. \A t \in Sensor : HeldBy(t)' => /\ Even(At(sampled'[t]))
                                          /\ At(sampled'[t]) <= clock
      BY <2>3 DEF SampledInv
    <3>6. \A t, u \in Sensor :
            HeldBy(t)' /\ HeldBy(u)' /\ At(sampled'[t]) = At(sampled'[u]) => t = u
      BY <2>3 DEF SampledInv
    <3> QED
      BY <2>1, <3>1, <3>2, <3>3, <3>4, <3>5, <3>6 DEF SampledInv, At
  <2> QED BY <2>5, <2>7
<1>4. ASSUME NEW s \in Sensor, PushErr(s) PROVE SampledInv' /\ HeapInv'
  <2>1. /\ UNCHANGED <<clock, heap>>
        /\ sampled' = [sampled EXCEPT ![s] = Nothing]
    BY <1>4 DEF PushErr
  <2>2. \A t \in Sensor : HeldBy(t)' => HeldBy(t) /\ sampled'[t] = sampled[t]
    BY <2>1 DEF HeldBy, SampledInv
  <2>3. sampled' \in [Sensor -> TimedDatum \cup {Nothing}]
    BY <2>1 DEF SampledInv
  <2>4. SampledInv'
    BY <2>1, <2>2, <2>3 DEF SampledInv, At
  <2> QED BY <1>a, <2>1, <2>4
<1>5. ASSUME NEW s \in Sensor, Read(s) PROVE SampledInv' /\ HeapInv'
  BY <1>5, <1>b DEF Read
<1>6. ASSUME NEW s \in Sensor, ReadTimeout(s) PROVE SampledInv' /\ HeapInv'
  BY <1>6, <1>b DEF ReadTimeout
<1>7. CASE RecoverClear
  BY <1>7, <1>b DEF RecoverClear
<1> QED
  BY <1>1, <1>2, <1>3, <1>4, <1>5, <1>6, <1>7 DEF Next, Acquire

LEMMA SampledInit == Init => SampledInv /\ HeapInv
<1> SUFFICES ASSUME Init PROVE SampledInv /\ HeapInv
  OBVIOUS
<1>1. heap = {} /\ clock = 0 /\ Even(0)
  BY DEF Init, Even
<1>2. sampled \in [Sensor -> TimedDatum \cup {Nothing}]
      /\ \A s \in Sensor : ~HeldBy(s)
  BY DEF Init, HeldBy
<1>3. HeapInv
  BY <1>1, FS_EmptySet, CapacityAssumption DEF HeapInv
<1> QED BY <1>1, <1>2, <1>3 DEF SampledInv

LEMMA AcquisitionInvariant == Spec => [](SampledInv /\ HeapInv)
<1> QED BY SampledInit, SampledStep, PTL DEF Spec

LEMMA CommandStep ==
  ASSUME sensor_command \in [Sensor -> {"NP", "IP"}], clock \in 0..(MaxClock + 4),
         SampledInv, [Next]_vars
  PROVE  /\ sensor_command' \in [Sensor -> {"NP", "IP"}]
         /\ clock' \in 0..(MaxClock + 4)
<1>1. CASE UNCHANGED <<sensor_command, clock>>
  BY <1>1
<1>2. ASSUME NEW s \in Sensor, NEW faults \in SUBSET Kinds,
             NEW elapsed \in 1..2, Sample(s, faults, elapsed)
      PROVE  UNCHANGED sensor_command /\ clock' \in 0..(MaxClock + 4)
  BY <1>2, TimeAssumption DEF Sample
<1>3. ASSUME NEW s \in Sensor, Read(s) \/ ReadTimeout(s)
      PROVE  /\ sensor_command' \in [Sensor -> {"NP", "IP"}]
             /\ UNCHANGED clock
  BY <1>3 DEF Read, ReadTimeout
<1> QED
  BY <1>1, <1>2, <1>3
     DEF vars, Next, Acquire, PushOk, PushErr, RecoverClear

(* All variables keep their types and the heap its bound.                  *)
THEOREM AcquisitionTypeCorrect == Spec => []TypeOK
<1> DEFINE Rest == sensor_command \in [Sensor -> {"NP", "IP"}] /\ clock \in 0..(MaxClock + 4)
<1>1. Init => MissesInv /\ Rest
  BY TimeAssumption DEF Init, MissesInv, FourMissesAlert
<1>2. SampledInv /\ Rest /\ [Next]_vars => Rest'
  BY CommandStep
<1>3. SampledInv /\ HeapInv /\ MissesInv /\ Rest => TypeOK
  BY DEF SampledInv, HeapInv, MissesInv, TypeOK
<1> QED BY <1>1, <1>2, <1>3, MissesStep, AcquisitionInvariant, PTL DEF Spec

(* A push loses at most one datum, only to a full buffer, and only one     *)
(* that all the data that stay outrank.                                    *)
THEOREM LossesLowest == Spec => LossIsLowest
<1> DEFINE lost(s) == (heap \cup {sampled[s]}) \ heap'
           Right(s) == /\ Cardinality(lost(s)) <= 1
                       /\ lost(s) # {} => Cardinality(heap) = BufferCapacity
                       /\ \A l \in lost(s), kept \in heap' : Outranks(kept, l)
<1>1. ASSUME NEW s \in Sensor, SampledInv, HeapInv, PushOk(s) PROVE Right(s)
  <2> DEFINE d == sampled[s]
             b == Bottom(heap)
  <2>1. HeldBy(s) /\ ~Lost(d) /\ heap' = Stored(d)
    BY <1>1 DEF PushOk, HeldBy
  <2>2. /\ d \in TimedDatum /\ d \notin heap
        /\ \A e \in heap : Above(d, e) \/ Above(e, d)
    BY <1>1, <2>1, HeldDecided
  <2>3. CASE ~(Cardinality(heap) >= BufferCapacity)
    <3>1. lost(s) = {}
      BY <2>1, <2>3 DEF Stored
    <3> HIDE DEF lost
    <3> QED BY <3>1, FS_EmptySet
  <2>4. CASE Cardinality(heap) >= BufferCapacity
    <3>1. b \in heap /\ IsLowest(b, heap) /\ Cardinality(heap) = BufferCapacity
      BY <1>1, <2>4, FullHeap
    <3>2. heap' = (heap \ {b}) \cup {d}
      BY <2>1, <2>4 DEF Stored
    <3>3. lost(s) = {b}
      BY <2>2, <3>1, <3>2
    <3>4. Above(d, b)
      BY <2>1, <2>2, <2>4, <3>1 DEF Lost
    <3>5. \A kept \in heap' : kept \in TimedDatum /\ Above(kept, b)
      BY <1>1, <2>2, <3>1, <3>2, <3>4 DEF IsLowest, SampledInv
    <3>6. b \in TimedDatum
      BY <1>1, <3>1 DEF SampledInv
    <3> HIDE DEF lost, b, d
    <3>7. Cardinality(lost(s)) = 1
      BY <3>3, FS_Singleton
    <3>8. \A kept \in heap' : Outranks(kept, b)
      BY <3>5, <3>6, AboveOrder
    <3> QED BY <3>1, <3>3, <3>7, <3>8
  <2> QED BY <2>3, <2>4
<1>2. ASSUME NEW s \in Sensor, SampledInv, HeapInv, PushErr(s) PROVE Right(s)
  <2> DEFINE d == sampled[s]
             b == Bottom(heap)
  <2>1. /\ HeldBy(s) /\ Cardinality(heap) >= BufferCapacity /\ Above(b, d)
        /\ heap' = heap
    BY <1>2 DEF PushErr, Lost, HeldBy
  <2>2. d \in TimedDatum /\ d \notin heap
    BY <1>2, <2>1, HeldDecided
  <2>3. b \in heap /\ IsLowest(b, heap) /\ Cardinality(heap) = BufferCapacity
    BY <1>2, <2>1, FullHeap
  <2>4. lost(s) = {d}
    BY <2>1, <2>2
  <2>5. \A kept \in heap' : Above(kept, d)
    <3>1. \A kept \in heap : kept = b \/ Above(kept, b)
      BY <2>3 DEF IsLowest
    <3>2. \A kept \in heap : kept \in TimedDatum
      BY <1>2 DEF SampledInv
    <3> QED BY <2>1, <2>2, <2>3, <3>1, <3>2, AboveOrder
  <2>6. \A kept \in heap' : Outranks(kept, d)
    BY <1>2, <2>1, <2>2, <2>5, AboveOrder DEF SampledInv
  <2> HIDE DEF lost, b, d
  <2>7. Cardinality(lost(s)) = 1
    BY <2>4, FS_Singleton
  <2> QED BY <2>3, <2>4, <2>6, <2>7
<1>3. ASSUME NEW s \in Sensor, sampled[s] # Nothing, sampled'[s] = Nothing,
             SampledInv, HeapInv, [Next]_vars
      PROVE  Right(s)
  <2>1. ASSUME UNCHANGED sampled PROVE FALSE
    BY <1>3, <2>1
  <2>2. ASSUME NEW t \in Sensor, t # s, PushOk(t) \/ PushErr(t) PROVE FALSE
    BY <1>3, <2>2 DEF PushOk, PushErr, SampledInv
  <2>3. ASSUME NEW t \in Sensor, NEW faults \in SUBSET Kinds,
               NEW elapsed \in 1..2, Sample(t, faults, elapsed)
        PROVE  FALSE
    <3>1. t # s /\ sampled'[s] = sampled[s]
      BY <1>3, <2>3 DEF Sample, SampledInv
    <3> QED BY <1>3, <3>1
  <2>4. PushOk(s) \/ PushErr(s)
    BY <1>3, <2>1, <2>2, <2>3
       DEF vars, Next, Acquire, Read, ReadTimeout, RecoverClear
  <2> QED BY <1>1, <1>2, <1>3, <2>4
<1> QED
  <2>1. SampledInv /\ HeapInv /\ [Next]_vars =>
          [\A s \in Sensor : (sampled[s] # Nothing /\ sampled'[s] = Nothing) =>
             Right(s)]_vars
    BY <1>3
  <2> QED BY <2>1, AcquisitionInvariant, PTL DEF Spec, LossIsLowest

----------------------------------------------------------------------------
(* The heap in order: below a datum are those that it outranks, and its    *)
(* place is after them.                                                    *)
Below(H, d) == {e \in H : Outranks(d, e)}
Place(H, d) == Cardinality(Below(H, d)) + 1
RankOf(H, i) == CHOOSE d \in H : Cardinality({e \in H : Outranks(d, e)}) = i - 1
InOrder(H) == [i \in 1..Cardinality(H) |-> Untimed(RankOf(H, i))]

Chain(H) == /\ H \subseteq TimedDatum /\ IsFiniteSet(H)
            /\ \A d, e \in H : d # e => Outranks(d, e) \/ Outranks(e, d)

LEMMA OutranksOrder ==
  ASSUME NEW d \in TimedDatum, NEW e \in TimedDatum, NEW f \in TimedDatum
  PROVE  /\ Outranks(d, e) /\ Outranks(e, f) => Outranks(d, f)
         /\ Outranks(d, e) => ~Outranks(e, d)
         /\ ~Outranks(d, d)
         /\ Outranks(d, e) => \/ d.priority > e.priority
                              \/ d.priority = e.priority /\ d.timestamp > e.timestamp
         /\ d.priority \in Int /\ e.priority \in Int
BY AtType DEF Outranks

LEMMA Counted ==
  ASSUME NEW T, IsFiniteSet(T), NEW S \in SUBSET T, NEW x \in T, x \notin S
  PROVE  /\ Cardinality(S) \in Nat /\ Cardinality(T) \in Nat
         /\ Cardinality(S) < Cardinality(T)
<1>1. IsFiniteSet(T \ {x}) /\ Cardinality(T \ {x}) = Cardinality(T) - 1
  BY FS_RemoveElement
<1>2. S \in SUBSET (T \ {x})
  OBVIOUS
<1>3. IsFiniteSet(S) /\ Cardinality(S) <= Cardinality(T \ {x})
  BY <1>1, <1>2, FS_Subset
<1> QED BY <1>1, <1>3, FS_CardinalityType

(* A datum outranks more than what it outranks does, so no two share a     *)
(* place: as many places as data, each is taken.                           *)
LEMMA Places ==
  ASSUME NEW H, Chain(H)
  PROVE  /\ Cardinality(H) \in Nat
         /\ \A d \in H : Place(H, d) \in 1..Cardinality(H)
         /\ \A d, e \in H : Outranks(d, e) <=> Place(H, e) < Place(H, d)
         /\ \A d \in H : RankOf(H, Place(H, d)) = d
         /\ \A i \in 1..Cardinality(H) :
              RankOf(H, i) \in H /\ Place(H, RankOf(H, i)) = i
<1>a. H \subseteq TimedDatum /\ IsFiniteSet(H) /\ Cardinality(H) \in Nat
  BY FS_CardinalityType DEF Chain
<1>1. ASSUME NEW d \in H
      PROVE  /\ IsFiniteSet(Below(H, d)) /\ Cardinality(Below(H, d)) \in Nat
             /\ Cardinality(Below(H, d)) < Cardinality(H)
  <2>1. Below(H, d) \in SUBSET H /\ d \notin Below(H, d)
    BY <1>a, OutranksOrder DEF Below
  <2> QED BY <2>1, <1>a, Counted, FS_Subset
<1>2. ASSUME NEW d \in H, NEW e \in H, Outranks(d, e)
      PROVE  Cardinality(Below(H, e)) < Cardinality(Below(H, d))
  <2>1. Below(H, e) \in SUBSET Below(H, d)
    BY <1>a, <1>2, OutranksOrder DEF Below
  <2>2. e \in Below(H, d) /\ e \notin Below(H, e)
    BY <1>a, <1>2, OutranksOrder DEF Below
  <2> QED BY <1>1, <2>1, <2>2, Counted
<1>3. \A d, e \in H : Outranks(d, e) => Place(H, e) < Place(H, d)
  BY <1>1, <1>2 DEF Place
<1>4. \A d, e \in H : Place(H, d) = Place(H, e) => d = e
  <2>1. \A d \in H : Place(H, d) \in Nat
    BY <1>1 DEF Place
  <2> QED BY <1>3, <2>1 DEF Chain
<1>5. \A d, e \in H : Outranks(d, e) <=> Place(H, e) < Place(H, d)
  <2> SUFFICES ASSUME NEW d \in H, NEW e \in H, Place(H, e) < Place(H, d)
               PROVE  Outranks(d, e)
    BY <1>3
  <2>1. Place(H, d) \in Nat /\ Place(H, e) \in Nat
    BY <1>1 DEF Place
  <2>2. d # e /\ ~Outranks(e, d)
    BY <2>1, <1>3
  <2> QED BY <2>2 DEF Chain
<1>6. \A d \in H : Place(H, d) \in 1..Cardinality(H)
  BY <1>1, <1>a DEF Place
<1>7. ASSUME NEW i \in 1..Cardinality(H) PROVE \E d \in H : Place(H, d) = i
  <2> DEFINE f == [d \in H |-> Place(H, d)]
             n == Cardinality(H)
  <2>1. f \in Injection(H, 1..n)
    BY <1>4, <1>6 DEF Injection, IsInjective
  <2>2. IsFiniteSet(1..n) /\ Cardinality(1..n) = n
    BY <1>a, FS_Interval
  <2>3. f \in Surjection(H, 1..n)
    BY <2>1, <2>2, FS_Injection
  <2>4. \E d \in H : f[d] = i
    BY <2>3 DEF Surjection
  <2> QED BY <2>4
<1>8. \A d \in H, i \in Nat : Cardinality(Below(H, d)) = i - 1 <=> Place(H, d) = i
  BY <1>1 DEF Place
<1>9. ASSUME NEW i \in 1..Cardinality(H)
      PROVE  RankOf(H, i) \in H /\ Place(H, RankOf(H, i)) = i
  <2>1. \E d \in H : Cardinality(Below(H, d)) = i - 1
    BY <1>7, <1>8
  <2>2. /\ RankOf(H, i) \in H
        /\ Cardinality(Below(H, RankOf(H, i))) = i - 1
    <3> DEFINE P(d) == Cardinality({e \in H : Outranks(d, e)}) = i - 1
    <3>1. \E d \in H : P(d)
      BY <2>1 DEF Below
    <3>2. RankOf(H, i) = CHOOSE d \in H : P(d)
      BY DEF RankOf
    <3>3. RankOf(H, i) \in H /\ P(RankOf(H, i))
      <4> HIDE DEF P
      <4> QED BY <3>1, <3>2
    <3> QED BY <3>3 DEF Below
  <2> QED BY <2>2, <1>8
<1>10. \A d \in H : RankOf(H, Place(H, d)) = d
  BY <1>4, <1>6, <1>9
<1> QED BY <1>a, <1>5, <1>6, <1>9, <1>10

LEMMA InOrderSeq ==
  ASSUME NEW H, Chain(H)
  PROVE  /\ InOrder(H) \in Seq(Datum) /\ Len(InOrder(H)) = Cardinality(H)
         /\ \A i \in 1..Cardinality(H) : InOrder(H)[i] = Untimed(RankOf(H, i))
<1>1. \A d \in TimedDatum : Untimed(d) \in Datum
  BY DEF Untimed, TimedDatum, Datum
<1>2. \A i \in 1..Cardinality(H) : Untimed(RankOf(H, i)) \in Datum
  BY <1>1, Places DEF Chain
<1>3. Cardinality(H) \in Nat
  BY Places
<1> QED BY <1>2, <1>3 DEF InOrder

LEMMA Inserted ==
  ASSUME NEW S, NEW s \in Seq(S), NEW i \in 1..(Len(s) + 1), NEW x \in S
  PROVE  /\ InsertAt(s, i, x) \in Seq(S) /\ Len(InsertAt(s, i, x)) = Len(s) + 1
         /\ \A k \in 1..(Len(s) + 1) :
              InsertAt(s, i, x)[k] = IF k < i THEN s[k]
                                     ELSE IF k = i THEN x ELSE s[k - 1]
<1> DEFINE l == SubSeq(s, 1, i - 1)
           r == SubSeq(s, i, Len(s))
           m == l \o <<x>>
<1>1. /\ l \in Seq(S) /\ Len(l) = i - 1 /\ \A k \in 1..(i - 1) : l[k] = s[k]
  OBVIOUS
<1>2. /\ r \in Seq(S) /\ Len(r) = Len(s) - i + 1
      /\ \A k \in 1..(Len(s) - i + 1) : r[k] = s[k + i - 1]
  OBVIOUS
<1>3. InsertAt(s, i, x) = m \o r
  BY DEF InsertAt
<1>4. /\ <<x>> \in Seq(S) /\ Len(<<x>>) = 1 /\ <<x>>[1] = x
      /\ Len(s) \in Nat /\ i \in Nat
  OBVIOUS
<1> HIDE DEF l, r
<1>5. /\ m \in Seq(S) /\ Len(m) = i
      /\ \A k \in 1..i : m[k] = IF k < i THEN s[k] ELSE x
  <2>1. /\ m \in Seq(S) /\ Len(m) = i
        /\ \A k \in 1..i : m[k] = IF k <= i - 1 THEN l[k] ELSE <<x>>[k - (i - 1)]
    BY <1>1, <1>4, ConcatProperties
  <2> HIDE DEF m
  <2>2. ASSUME NEW k \in 1..i PROVE m[k] = IF k < i THEN s[k] ELSE x
    <3>1. CASE k < i
      BY <3>1, <2>1, <1>1, <1>4
    <3>2. CASE k = i
      <4>1. m[k] = <<x>>[k - (i - 1)] /\ k - (i - 1) = 1
        BY <3>2, <2>1, <1>4
      <4>2. m[k] = x
        BY <4>1, <1>4, Zenon
      <4> QED BY <3>2, <4>2, <1>4
    <3> QED BY <3>1, <3>2, <1>4
  <2> QED BY <2>1, <2>2
<1> HIDE DEF m
<1>6. /\ m \o r \in Seq(S) /\ Len(m \o r) = Len(s) + 1
      /\ \A k \in 1..(Len(s) + 1) : (m \o r)[k] = IF k <= i THEN m[k] ELSE r[k - i]
  <2>1. m \in Seq(S) /\ r \in Seq(S)
    BY <1>2, <1>5
  <2>2. /\ m \o r \in Seq(S) /\ Len(m \o r) = Len(m) + Len(r)
        /\ \A k \in 1..(Len(m) + Len(r)) :
             (m \o r)[k] = IF k <= Len(m) THEN m[k] ELSE r[k - Len(m)]
    BY <2>1, ConcatProperties, Zenon
  <2>3. Len(m) = i /\ Len(m) + Len(r) = Len(s) + 1
    BY <1>2, <1>4, <1>5
  <2> QED BY <2>2, <2>3, Zenon
<1>7. ASSUME NEW k \in 1..(Len(s) + 1)
      PROVE  (m \o r)[k] = IF k < i THEN s[k] ELSE IF k = i THEN x ELSE s[k - 1]
  <2>1. CASE k <= i
    BY <2>1, <1>4, <1>5, <1>6
  <2>2. CASE k > i
    <3>1. k - i \in 1..(Len(s) - i + 1) /\ (k - i) + i - 1 = k - 1
      BY <2>2, <1>4
    <3>2. r[k - i] = s[k - 1]
      BY <3>1, <1>2
    <3> QED BY <2>2, <3>2, <1>4, <1>6
  <2>3. k <= i \/ k > i
    BY <1>4
  <2> QED BY <2>1, <2>2, <2>3, Zenon
<1> QED BY <1>3, <1>6, <1>7

LEMMA FrontAndTail ==
  ASSUME NEW S, NEW s \in Seq(S), Len(s) > 0
  PROVE  /\ Front(s) \in Seq(S) /\ Len(Front(s)) = Len(s) - 1
         /\ \A k \in 1..(Len(s) - 1) : Front(s)[k] = s[k]
         /\ Tail(s) \in Seq(S) /\ Len(Tail(s)) = Len(s) - 1
         /\ \A k \in 1..(Len(s) - 1) : Tail(s)[k] = s[k + 1]
<1>1. /\ Front(s) \in Seq(S) /\ Len(Front(s)) = Len(s) - 1
      /\ \A k \in 1..(Len(s) - 1) : Front(s)[k] = s[k]
  <2>1. Len(s) \in Nat /\ \A k \in 1..(Len(s) - 1) : s[k] \in S
    BY ElementOfSeq
  <2>2. /\ SubSeq(s, 1, Len(s) - 1) \in Seq(S)
        /\ Len(SubSeq(s, 1, Len(s) - 1)) =
             IF 1 <= Len(s) - 1 THEN Len(s) - 1 - 1 + 1 ELSE 0
        /\ \A k \in 1..(Len(s) - 1 - 1 + 1) :
             SubSeq(s, 1, Len(s) - 1)[k] = s[1 + k - 1]
    BY <2>1, SubSeqProperties
  <2>3. Len(s) - 1 - 1 + 1 = Len(s) - 1 /\ \A k \in Int : 1 + k - 1 = k
    BY <2>1
  <2> QED BY <2>1, <2>2, <2>3 DEF Front
<1>2. /\ Tail(s) \in Seq(S) /\ Len(Tail(s)) = Len(s) - 1
      /\ \A k \in 1..(Len(s) - 1) : Tail(s)[k] = s[k + 1]
  OBVIOUS
<1> QED BY <1>1, <1>2

(* Without its highest datum the heap in order is the front of it ...      *)
LEMMA DropTop ==
  ASSUME NEW H, Chain(H), NEW t \in H, \A e \in H \ {t} : Outranks(t, e)
  PROVE  /\ InOrder(H) # <<>> /\ InOrder(H \ {t}) = Front(InOrder(H))
<1> DEFINE G == H \ {t}
           n == Cardinality(H)
<1>a. H \subseteq TimedDatum /\ IsFiniteSet(H) /\ n \in Nat \ {0}
  BY FS_CardinalityType, FS_EmptySet DEF Chain
<1>b. Chain(G) /\ Cardinality(G) = n - 1
  BY <1>a, FS_RemoveElement DEF Chain
<1>1. \A d \in G : Place(G, d) = Place(H, d)
  <2> SUFFICES ASSUME NEW d \in G PROVE Below(G, d) = Below(H, d)
    BY DEF Place
  <2> QED BY <1>a, OutranksOrder DEF Below
<1>2. ASSUME NEW i \in 1..(n - 1) PROVE RankOf(G, i) = RankOf(H, i)
  <2>1. RankOf(G, i) \in G /\ Place(G, RankOf(G, i)) = i
    BY <1>b, Places
  <2>2. Place(H, RankOf(G, i)) = i /\ RankOf(G, i) \in H
    BY <2>1, <1>1
  <2> QED BY <2>2, Places
<1>3. /\ InOrder(H) \in Seq(Datum) /\ Len(InOrder(H)) = n
      /\ \A i \in 1..n : InOrder(H)[i] = Untimed(RankOf(H, i))
      /\ InOrder(G) \in Seq(Datum) /\ Len(InOrder(G)) = n - 1
      /\ \A i \in 1..(n - 1) : InOrder(G)[i] = Untimed(RankOf(G, i))
  BY <1>b, InOrderSeq
<1> HIDE DEF G, n
<1>4. /\ Front(InOrder(H)) \in Seq(Datum) /\ Len(Front(InOrder(H))) = n - 1
      /\ \A i \in 1..(n - 1) : Front(InOrder(H))[i] = InOrder(H)[i]
  BY <1>a, <1>3, FrontAndTail
<1>5. \A i \in 1..(n - 1) : InOrder(G)[i] = Front(InOrder(H))[i]
  BY <1>a, <1>2, <1>3, <1>4
<1>6. InOrder(G) = Front(InOrder(H))
  BY <1>3, <1>4, <1>5, SeqEqual
<1> QED BY <1>a, <1>3, <1>6 DEF G

(* ... and without its lowest the tail.                                    *)
LEMMA DropLowest ==
  ASSUME NEW H, Chain(H), NEW b \in H, \A e \in H \ {b} : Outranks(e, b)
  PROVE  InOrder(H \ {b}) = Tail(InOrder(H))
<1> DEFINE G == H \ {b}
           n == Cardinality(H)
<1>a. H \subseteq TimedDatum /\ IsFiniteSet(H) /\ n \in Nat \ {0}
  BY FS_CardinalityType, FS_EmptySet DEF Chain
<1>b. Chain(G) /\ Cardinality(G) = n - 1
  BY <1>a, FS_RemoveElement DEF Chain
<1>1. ASSUME NEW d \in G PROVE Place(G, d) + 1 = Place(H, d)
  <2>1. Below(G, d) = Below(H, d) \ {b} /\ b \in Below(H, d)
    BY DEF Below
  <2>2. IsFiniteSet(Below(H, d))
    BY <1>a, FS_Subset DEF Below
  <2>3. Cardinality(Below(G, d)) = Cardinality(Below(H, d)) - 1
        /\ Cardinality(Below(H, d)) \in Nat
    BY <2>1, <2>2, FS_RemoveElement, FS_CardinalityType
  <2> QED BY <2>3 DEF Place
<1>2. ASSUME NEW i \in 1..(n - 1) PROVE RankOf(G, i) = RankOf(H, i + 1)
  <2>1. RankOf(G, i) \in G /\ Place(G, RankOf(G, i)) = i
    BY <1>b, Places
  <2>2. Place(H, RankOf(G, i)) = i + 1 /\ RankOf(G, i) \in H
    BY <2>1, <1>1
  <2> QED BY <2>2, Places
<1>3. /\ InOrder(H) \in Seq(Datum) /\ Len(InOrder(H)) = n
      /\ \A i \in 1..n : InOrder(H)[i] = Untimed(RankOf(H, i))
      /\ InOrder(G) \in Seq(Datum) /\ Len(InOrder(G)) = n - 1
      /\ \A i \in 1..(n - 1) : InOrder(G)[i] = Untimed(RankOf(G, i))
  BY <1>b, InOrderSeq
<1> HIDE DEF G, n
<1>4. /\ Tail(InOrder(H)) \in Seq(Datum) /\ Len(Tail(InOrder(H))) = n - 1
      /\ \A i \in 1..(n - 1) : Tail(InOrder(H))[i] = InOrder(H)[i + 1]
  BY <1>a, <1>3, FrontAndTail
<1>5. \A i \in 1..(n - 1) : InOrder(G)[i] = Tail(InOrder(H))[i]
  BY <1>a, <1>2, <1>3, <1>4
<1>6. InOrder(G) = Tail(InOrder(H))
  BY <1>3, <1>4, <1>5, SeqEqual
<1> QED BY <1>6 DEF G

(* A new datum is inserted at its place: above those it outranks, below    *)
(* the others.                                                             *)
LEMMA AddDatum ==
  ASSUME NEW H, Chain(H), NEW d \in TimedDatum, d \notin H,
         \A e \in H : Outranks(d, e) \/ Outranks(e, d)
  PROVE  /\ Chain(H \cup {d})
         /\ Place(H, d) \in 1..(Cardinality(H) + 1)
         /\ InOrder(H \cup {d}) = InsertAt(InOrder(H), Place(H, d), Untimed(d))
         /\ \A j \in 1..Cardinality(H) :
              IF j < Place(H, d) THEN Outranks(d, RankOf(H, j))
                                 ELSE Outranks(RankOf(H, j), d)
<1> DEFINE K == H \cup {d}
           n == Cardinality(H)
           p == Place(H, d)
<1>a. H \subseteq TimedDatum /\ IsFiniteSet(H) /\ n \in Nat
  BY FS_CardinalityType DEF Chain
<1>b. Chain(K) /\ Cardinality(K) = n + 1
  BY <1>a, FS_AddElement DEF Chain
<1>1. Place(K, d) = p
  <2>1. Below(K, d) = Below(H, d)
    BY <1>a, OutranksOrder DEF Below
  <2> QED BY <2>1 DEF Place
<1>2. ASSUME NEW e \in H
      PROVE  /\ Outranks(d, e) => Place(K, e) = Place(H, e)
             /\ Outranks(e, d) => Place(K, e) = Place(H, e) + 1
  <2>1. IsFiniteSet(Below(H, e)) /\ d \notin Below(H, e)
    BY <1>a, FS_Subset DEF Below
  <2>2. ASSUME Outranks(d, e) PROVE Place(K, e) = Place(H, e)
    <3>1. Below(K, e) = Below(H, e)
      BY <1>a, <2>2, OutranksOrder DEF Below
    <3> QED BY <3>1 DEF Place
  <2>3. ASSUME Outranks(e, d) PROVE Place(K, e) = Place(H, e) + 1
    <3>1. Below(K, e) = Below(H, e) \cup {d}
      BY <2>3 DEF Below
    <3>2. Cardinality(Below(K, e)) = Cardinality(Below(H, e)) + 1
      BY <2>1, <3>1, FS_AddElement
    <3> QED BY <3>2 DEF Place
  <2> QED BY <2>2, <2>3
<1>3. p \in 1..(n + 1)
  BY <1>1, <1>b, Places
<1>4. ASSUME NEW j \in 1..n
      PROVE  /\ j < p => Outranks(d, RankOf(H, j)) /\ RankOf(K, j) = RankOf(H, j)
             /\ ~(j < p) => /\ Outranks(RankOf(H, j), d)
                            /\ RankOf(K, j + 1) = RankOf(H, j)
  <2> DEFINE e == RankOf(H, j)
  <2>1. e \in H /\ Place(H, e) = j /\ e \in K /\ d \in K
    BY Places
  <2>2. /\ Outranks(d, e) => Place(K, e) = j /\ j < p
        /\ Outranks(e, d) => Place(K, e) = j + 1 /\ p < j + 1
    <3>1. /\ Outranks(d, e) <=> Place(K, e) < Place(K, d)
          /\ Outranks(e, d) <=> Place(K, d) < Place(K, e)
      BY <2>1, <1>b, Places
    <3>2. /\ Outranks(d, e) => Place(K, e) = Place(H, e)
          /\ Outranks(e, d) => Place(K, e) = Place(H, e) + 1
      BY <2>1, <1>2
    <3> HIDE DEF e, p, K
    <3> QED BY <3>1, <3>2, <2>1, <1>1
  <2>3. RankOf(K, Place(K, e)) = e
    BY <2>1, <1>b, Places
  <2> HIDE DEF e, p
  <2> QED BY <2>1, <2>2, <2>3, <1>3 DEF e
<1>5. RankOf(K, p) = d
  BY <1>1, <1>b, Places
<1>6. /\ InOrder(H) \in Seq(Datum) /\ Len(InOrder(H)) = n
      /\ \A i \in 1..n : InOrder(H)[i] = Untimed(RankOf(H, i))
      /\ InOrder(K) \in Seq(Datum) /\ Len(InOrder(K)) = n + 1
      /\ \A i \in 1..(n + 1) : InOrder(K)[i] = Untimed(RankOf(K, i))
  BY <1>b, InOrderSeq
<1>7. Untimed(d) \in Datum
  BY DEF Untimed, TimedDatum, Datum
<1> HIDE DEF K, n, p
<1> DEFINE s == InsertAt(InOrder(H), p, Untimed(d))
<1>8. /\ s \in Seq(Datum) /\ Len(s) = n + 1
      /\ \A k \in 1..(n + 1) :
           s[k] = IF k < p THEN InOrder(H)[k]
                  ELSE IF k = p THEN Untimed(d) ELSE InOrder(H)[k - 1]
  <2>1. InOrder(H) \in Seq(Datum) /\ p \in 1..(Len(InOrder(H)) + 1)
    BY <1>3, <1>6
  <2>2. /\ s \in Seq(Datum) /\ Len(s) = Len(InOrder(H)) + 1
        /\ \A k \in 1..(Len(InOrder(H)) + 1) :
             s[k] = IF k < p THEN InOrder(H)[k]
                    ELSE IF k = p THEN Untimed(d) ELSE InOrder(H)[k - 1]
    <3> DEFINE q == InOrder(H)
               u == Untimed(d)
    <3>1. q \in Seq(Datum) /\ p \in 1..(Len(q) + 1) /\ u \in Datum
      BY <2>1, <1>7
    <3> HIDE DEF q, u
    <3>2. /\ InsertAt(q, p, u) \in Seq(Datum) /\ Len(InsertAt(q, p, u)) = Len(q) + 1
          /\ \A k \in 1..(Len(q) + 1) :
               InsertAt(q, p, u)[k] = IF k < p THEN q[k]
                                      ELSE IF k = p THEN u ELSE q[k - 1]
      BY <3>1, Inserted
    <3> QED BY <3>2, Zenon DEF q, u
  <2> QED BY <2>2, <1>6, Zenon
<1> HIDE DEF s
<1>9. ASSUME NEW k \in 1..(n + 1) PROVE InOrder(K)[k] = s[k]
  <2>1. CASE k < p
    <3>1. k \in 1..n
      BY <2>1, <1>3, <1>a
    <3> QED BY <2>1, <3>1, <1>4, <1>6, <1>8
  <2>2. CASE k = p
    BY <2>2, <1>5, <1>6, <1>8
  <2>3. CASE k > p
    <3>1. k - 1 \in 1..n /\ ~(k - 1 < p) /\ (k - 1) + 1 = k
      BY <2>3, <1>3, <1>a
    <3>2. RankOf(K, k) = RankOf(H, k - 1)
      BY <3>1, <1>4
    <3> QED BY <2>3, <3>1, <3>2, <1>3, <1>6, <1>8
  <2> QED BY <2>1, <2>2, <2>3, <1>3
<1>10. InOrder(K) = s
  BY <1>6, <1>8, <1>9, SeqEqual
<1> QED BY <1>b, <1>3, <1>4, <1>10 DEF K, n, p, s

----------------------------------------------------------------------------
(* A sensor samples in order: what it holds is newer than what it has in   *)
(* the heap, so only an injected delay can put it below that.              *)
OwnInv ==
  /\ \A s \in Sensor : HeldBy(s) => sampled[s].sensor = s
  /\ \A s \in Sensor, d \in heap :
       HeldBy(s) /\ d.sensor = s => At(d) < At(sampled[s])

LEMMA OwnStep == SampledInv /\ OwnInv /\ [Next]_vars => OwnInv'
<1> SUFFICES ASSUME SampledInv, OwnInv, [Next]_vars PROVE OwnInv'
  OBVIOUS
<1>a. ASSUME heap' \subseteq heap,
             \A t \in Sensor : HeldBy(t)' => HeldBy(t) /\ sampled'[t] = sampled[t]
      PROVE  OwnInv'
  BY <1>a DEF OwnInv, At
<1>b. ASSUME NEW s \in Sensor, PushOk(s) \/ PushErr(s)
      PROVE  \A t \in Sensor : HeldBy(t)' => /\ t # s /\ HeldBy(t)
                                             /\ sampled'[t] = sampled[t]
  BY <1>b DEF PushOk, PushErr, HeldBy, SampledInv
<1>1. CASE heap' \subseteq heap /\ UNCHANGED sampled
  BY <1>1, <1>a DEF HeldBy
<1>2. ASSUME NEW s \in Sensor, NEW faults \in SUBSET Kinds,
             NEW elapsed \in 1..2, Sample(s, faults, elapsed)
      PROVE  OwnInv'
  <2> DEFINE delay == IF "delay" \in faults THEN InjectedDelay ELSE 0
             stamp == clock' - delay
             d == [sensor |-> s,
                   priority |-> IF sensor_command[s] = "IP" THEN 5
                                ELSE BasePriority[s],
                   faults |-> faults, timestamp |-> stamp]
  <2>1. /\ clock' = clock + 2 * elapsed /\ UNCHANGED heap
        /\ sampled' = [sampled EXCEPT ![s] = d]
    BY <1>2 DEF Sample
  <2>2. clock' \in Nat /\ clock' > clock /\ clock \in Nat
    <3>1. clock \in Nat /\ elapsed \in Nat /\ elapsed > 0
      BY DEF SampledInv
    <3> QED BY <2>1, <3>1
  <2>3. d.sensor = s /\ At(d) = clock'
    <3>1. d.timestamp = stamp /\ d.faults = faults /\ d.sensor = s
      OBVIOUS
    <3>2. delay \in Nat /\ At(d) = d.timestamp + delay
      BY <3>1, TimeAssumption DEF At
    <3>3. \A m, n \in Nat : m - n + n = m
      OBVIOUS
    <3>4. stamp + delay = clock'
      BY <2>2, <3>2, <3>3, Zenon
    <3> HIDE DEF d, delay, stamp
    <3> QED BY <3>1, <3>2, <3>4
  <2> HIDE DEF d, delay
  <2>4. \A t \in Sensor : IF t = s THEN sampled'[t] = d
                          ELSE HeldBy(t)' = HeldBy(t) /\ sampled'[t] = sampled[t]
    BY <2>1 DEF HeldBy, SampledInv
  <2>5. \A e \in heap : At(e) \in Int /\ At(e) < clock'
    <3>1. \A e \in heap : At(e) \in Int /\ At(e) <= clock
      BY AtType DEF SampledInv
    <3> QED BY <2>2, <3>1
  <2>6. \A t \in Sensor : HeldBy(t)' => sampled'[t].sensor = t
    BY <2>3, <2>4 DEF OwnInv
  <2>7. \A t \in Sensor, e \in heap :
          HeldBy(t)' /\ e.sensor = t => At(e) < At(sampled'[t])
    BY <2>3, <2>4, <2>5 DEF OwnInv
  <2> QED BY <2>1, <2>6, <2>7 DEF OwnInv, At
<1>3. ASSUME NEW s \in Sensor, PushOk(s) PROVE OwnInv'
  <2>1. heap' \subseteq heap \cup {sampled[s]} /\ sampled[s].sensor = s
    BY <1>3 DEF PushOk, Stored, OwnInv, HeldBy
  <2> QED BY <1>b, <1>3, <2>1 DEF OwnInv, At
<1>4. ASSUME NEW s \in Sensor, PushErr(s) PROVE OwnInv'
  BY <1>a, <1>b, <1>4 DEF PushErr
<1> QED
  BY <1>1, <1>2, <1>3, <1>4
     DEF vars, Next, Acquire, Read, ReadTimeout, RecoverClear

LEMMA HeapIsChain ==
  ASSUME SampledInv, HeapInv
  PROVE  /\ Chain(heap)
         /\ heap # {} => /\ Top(heap) \in heap
                         /\ \A e \in heap \ {Top(heap)} : Outranks(Top(heap), e)
<1>1. \A d \in heap : d \in TimedDatum /\ Even(At(d))
  BY DEF SampledInv
<1>2. ASSUME NEW d \in heap, NEW e \in heap, d # e
      PROVE  /\ Outranks(d, e) \/ Outranks(e, d)
             /\ Outranks(d, e) => Above(d, e)
  <2>1. At(d) # At(e)
    BY <1>2 DEF SampledInv
  <2>2. Above(d, e) \/ Above(e, d)
    BY <1>1, <2>1, Decided
  <2> QED BY <1>1, <2>2, AboveOrder, OutranksOrder
<1>3. Chain(heap)
  BY <1>1, <1>2 DEF Chain, HeapInv
<1>4. ASSUME heap # {}
      PROVE  /\ Top(heap) \in heap
             /\ \A e \in heap \ {Top(heap)} : Outranks(Top(heap), e)
  <2> DEFINE n == Cardinality(heap)
             t == RankOf(heap, n)
  <2>1. n \in Nat \ {0}
    BY <1>3, <1>4, FS_CardinalityType, FS_EmptySet DEF Chain
  <2>2. t \in heap /\ Place(heap, t) = n
    BY <1>3, <2>1, Places
  <2>3. ASSUME NEW e \in heap \ {t} PROVE Above(t, e)
    <3>1. ~Outranks(e, t)
      BY <1>3, <2>1, <2>2, Places
    <3> QED BY <1>2, <2>2, <3>1
  <2>4. \E d \in heap : \A e \in heap \ {d} : Above(d, e)
    BY <2>2, <2>3
  <2>5. Top(heap) \in heap /\ \A e \in heap \ {Top(heap)} : Above(Top(heap), e)
    BY <2>4 DEF Top
  <2> QED BY <1>1, <2>5, AboveOrder
<1> QED BY <1>3, <1>4

(* SensorData::cmp seen without its timestamps.                            *)
LEMMA MaySort ==
  ASSUME NEW d \in TimedDatum, NEW e \in TimedDatum
  PROVE  /\ Outranks(d, e) => MaySortAbove(Untimed(d), Untimed(e))
         /\ Outranks(e, d) /\ (e.sensor = d.sensor => At(e) < At(d))
              => MaySortBelow(Untimed(d), Untimed(e))
<1>1. /\ Untimed(d).priority = d.priority /\ Untimed(e).priority = e.priority
      /\ Untimed(d).sensor = d.sensor /\ Untimed(e).sensor = e.sensor
      /\ Untimed(d).faults = d.faults /\ Untimed(e).faults = e.faults
  BY DEF Untimed
<1>2. /\ d.priority \in Int /\ e.priority \in Int
      /\ d.timestamp \in Int /\ e.timestamp \in Int /\ InjectedDelay \in Nat
  BY AtType, TimeAssumption
<1>3. Outranks(d, e) => MaySortAbove(Untimed(d), Untimed(e))
  BY <1>1, <1>2, OutranksOrder DEF MaySortAbove
<1>4. ASSUME Outranks(e, d), e.sensor = d.sensor => At(e) < At(d)
      PROVE  MaySortBelow(Untimed(d), Untimed(e))
  <2>1. \/ e.priority > d.priority
        \/ e.priority = d.priority /\ e.timestamp > d.timestamp
    BY <1>4, OutranksOrder
  <2>2. CASE e.priority > d.priority
    BY <1>1, <1>2, <2>2 DEF MaySortBelow
  <2>3. CASE /\ e.priority = d.priority /\ e.timestamp > d.timestamp
             /\ e.sensor = d.sensor
    <3>1. At(e) < At(d)
      BY <1>4, <2>3
    <3>2. "delay" \in d.faults /\ "delay" \notin e.faults
      BY <1>2, <2>3, <3>1 DEF At
    <3> QED BY <1>1, <2>3, <3>2 DEF MaySortBelow
  <2>4. CASE e.priority = d.priority /\ e.sensor # d.sensor
    BY <1>1, <2>4 DEF MaySortBelow
  <2> QED BY <2>1, <2>2, <2>3, <2>4
<1> QED BY <1>3, <1>4

LEMMA SortedHeapInOrder ==
  SortedHeap = InOrder(heap) /\ SortedHeap' = InOrder(heap')
BY DEF SortedHeap, Rank, InOrder, RankOf

LEMMA InHeapPlaces ==
  ASSUME SampledInv, HeapInv, NEW d \in TimedDatum, d \notin heap,
         \A e \in heap : Outranks(d, e) \/ Outranks(e, d),
         \A e \in heap : e.sensor = d.sensor => At(e) < At(d)
  PROVE  /\ Place(heap, d) \in HeapPlaces(InOrder(heap), Untimed(d))
         /\ InOrder(heap \cup {d}) =
              InsertAt(InOrder(heap), Place(heap, d), Untimed(d))
         /\ Chain(heap \cup {d})
<1> DEFINE b == InOrder(heap)
           n == Cardinality(heap)
           p == Place(heap, d)
<1>1. Chain(heap)
  BY HeapIsChain
<1>2. /\ Chain(heap \cup {d}) /\ p \in 1..(n + 1)
      /\ InOrder(heap \cup {d}) = InsertAt(b, p, Untimed(d))
      /\ \A j \in 1..n : IF j < p THEN Outranks(d, RankOf(heap, j))
                                  ELSE Outranks(RankOf(heap, j), d)
  BY <1>1, AddDatum
<1>3. /\ Len(b) = n /\ n \in Nat
      /\ \A j \in 1..n : b[j] = Untimed(RankOf(heap, j)) /\ RankOf(heap, j) \in heap
  BY <1>1, InOrderSeq, Places
<1>4. \A e \in heap : e \in TimedDatum
  BY DEF SampledInv
<1> HIDE DEF b, n, p
<1>5. ASSUME NEW j \in 1..n, j < p PROVE MaySortAbove(Untimed(d), b[j])
  <2>1. Outranks(d, RankOf(heap, j)) /\ RankOf(heap, j) \in TimedDatum
    BY <1>2, <1>3, <1>4, <1>5
  <2> QED BY <2>1, <1>3, MaySort
<1>6. ASSUME NEW j \in 1..n, ~(j < p) PROVE MaySortBelow(Untimed(d), b[j])
  <2> DEFINE e == RankOf(heap, j)
  <2>1. Outranks(e, d) /\ e \in TimedDatum /\ e \in heap /\ b[j] = Untimed(e)
    BY <1>2, <1>3, <1>4, <1>6
  <2> HIDE DEF e
  <2>2. e.sensor = d.sensor => At(e) < At(d)
    BY <2>1
  <2> QED BY <2>1, <2>2, MaySort
<1>7. p \in HeapPlaces(b, Untimed(d))
  <2>1. /\ \A j \in 1..(p - 1) : j \in 1..n /\ j < p
        /\ \A j \in p..n : j \in 1..n /\ ~(j < p)
    BY <1>2, <1>3
  <2> QED BY <2>1, <1>2, <1>3, <1>5, <1>6 DEF HeapPlaces
<1> QED BY <1>2, <1>7 DEF b, p

LEMMA EmptyInOrder == InOrder({}) = <<>>
<1>1. Cardinality({}) = 0
  BY FS_EmptySet
<1>2. Chain({})
  BY FS_EmptySet DEF Chain
<1> QED BY <1>1, <1>2, InOrderSeq, EmptySeq

(* The abstract buffer's operators are SensorBuffer's.                     *)
LEMMA SameOperators ==
  /\ Abstract!Datum = Datum
  /\ \A b \in Seq(Datum) : Abstract!Front(b) = Front(b)
  /\ \A b, d : Abstract!HeapPlaces(b, d) = HeapPlaces(b, d)
  /\ \A b, d, i : Abstract!BufferPush(b, d, i) = BufferPush(b, d, i)
BY DEF Abstract!Datum, Datum, Abstract!Front, Front,
       Abstract!HeapPlaces, HeapPlaces, Abstract!BufferPush, BufferPush,
       Abstract!InsertAt, InsertAt, Abstract!MaySortAbove, MaySortAbove,
       Abstract!MaySortBelow, MaySortBelow

LEMMA PushImplements ==
  ASSUME SampledInv, HeapInv, OwnInv, NEW s \in Sensor, PushOk(s)
  PROVE  Abstract!Push(Untimed(sampled[s])) /\ Untimed(sampled[s]) \in Datum
<1> DEFINE d == sampled[s]
           u == Untimed(d)
           i == Place(heap, d)
           b == InOrder(heap)
<1>1. HeldBy(s) /\ ~Lost(d) /\ heap' = Stored(d)
  BY DEF PushOk, HeldBy
<1>2. /\ d \in TimedDatum /\ d \notin heap
      /\ \A e \in heap : Above(d, e) \/ Above(e, d)
  BY <1>1, HeldDecided
<1>3. \A e \in heap : Outranks(d, e) \/ Outranks(e, d)
  BY <1>2, AboveOrder DEF SampledInv
<1>4. \A e \in heap : e.sensor = d.sensor => At(e) < At(d)
  BY <1>1 DEF OwnInv
<1>5. u \in Datum
  BY <1>2 DEF Untimed, TimedDatum, Datum
<1>6. /\ i \in HeapPlaces(b, u) /\ Chain(heap \cup {d})
      /\ InOrder(heap \cup {d}) = InsertAt(b, i, u)
  BY <1>2, <1>3, <1>4, InHeapPlaces
<1>7. Len(b) = Cardinality(heap)
  BY HeapIsChain, InOrderSeq
<1>8. InOrder(heap') = BufferPush(b, u, i)
  <2>1. CASE ~(Cardinality(heap) >= BufferCapacity)
    BY <1>1, <1>6, <1>7, <2>1 DEF Stored, BufferPush
  <2>2. CASE Cardinality(heap) >= BufferCapacity
    <3> DEFINE l == Bottom(heap)
    <3>1. l \in heap /\ l \in TimedDatum /\ IsLowest(l, heap)
      BY <2>2, FullHeap DEF SampledInv
    <3>2. Above(d, l)
      BY <1>1, <1>2, <2>2, <3>1 DEF Lost
    <3>3. heap' = (heap \cup {d}) \ {l}
      BY <1>1, <1>2, <2>2, <3>1 DEF Stored
    <3> HIDE DEF l
    <3>4. \A e \in (heap \cup {d}) \ {l} : e \in TimedDatum /\ Above(e, l)
      BY <1>2, <3>1, <3>2 DEF IsLowest, SampledInv
    <3>5. \A e \in (heap \cup {d}) \ {l} : Outranks(e, l)
      BY <3>1, <3>4, AboveOrder
    <3>6. InOrder(heap') = Tail(InOrder(heap \cup {d}))
      BY <1>6, <3>1, <3>3, <3>5, DropLowest
    <3> QED BY <1>6, <1>7, <2>2, <3>6 DEF BufferPush
  <2> QED BY <2>1, <2>2
<1>9. SortedHeap = b /\ SortedHeap' = InOrder(heap')
  BY SortedHeapInOrder
<1> HIDE DEF u, i, b, d
<1>10. Abstract!Push(u)
  BY <1>6, <1>8, <1>9, SameOperators DEF Abstract!Push
<1> QED BY <1>5, <1>10 DEF u, d

(* Each step of the heap is one of the abstract buffer, or none.           *)
LEMMA BufferStep ==
  ASSUME SampledInv, HeapInv, OwnInv, [Next]_vars
  PROVE  [Abstract!Next]_SortedHeap
<1>a. ASSUME UNCHANGED heap PROVE UNCHANGED SortedHeap
  BY <1>a, SortedHeapInOrder
<1>1. ASSUME NEW s \in Sensor, PushOk(s) PROVE Abstract!Next
  BY <1>1, PushImplements, SameOperators DEF Abstract!Next
<1>2. ASSUME NEW s \in Sensor, Read(s) PROVE Abstract!Next
  <2>1. heap # {} /\ heap' = heap \ {Top(heap)}
    BY <1>2 DEF Read
  <2>2. /\ InOrder(heap) # <<>> /\ InOrder(heap') = Front(InOrder(heap))
        /\ InOrder(heap) \in Seq(Datum)
    BY <2>1, HeapIsChain, DropTop, InOrderSeq
  <2>3. SortedHeap # <<>> /\ SortedHeap' = Abstract!Front(SortedHeap)
    BY <2>2, SortedHeapInOrder, SameOperators
  <2>4. Abstract!Pop
    BY <2>3 DEF Abstract!Pop
  <2> QED BY <2>4 DEF Abstract!Next
<1>3. CASE RecoverClear
  <2>1. heap' = {}
    BY <1>3 DEF RecoverClear
  <2>2. SortedHeap' = <<>>
    BY <2>1, SortedHeapInOrder, EmptyInOrder, Zenon
  <2> QED BY <2>2 DEF Abstract!Next, Abstract!Clear
<1>4. CASE UNCHANGED heap
  BY <1>4, <1>a
<1> QED
  BY <1>1, <1>2, <1>3, <1>4
     DEF vars, Next, Acquire, Sample, PushErr, ReadTimeout

(* The heap of timestamped data, seen smallest first and without the       *)
(* timestamps, behaves as the bounded priority buffer that the satellite's *)
(* tasks are modelled with: SensorPrioritizedBuffer keeps its promise.     *)
THEOREM HeapImplementsBuffer == Spec => ImplementsBuffer
<1>1. Init => OwnInv
  <2>1. Init => heap = {} /\ \A s \in Sensor : ~HeldBy(s)
    BY DEF Init, HeldBy
  <2> QED BY <2>1 DEF OwnInv
<1>2. Init => SortedHeap = <<>>
  <2>1. Init => heap = {}
    BY DEF Init
  <2> QED BY <2>1, SortedHeapInOrder, EmptyInOrder, Zenon
<1>3. Init => Abstract!Init
  BY <1>2 DEF Abstract!Init
<1>4. SampledInv /\ HeapInv /\ OwnInv /\ [Next]_vars => [Abstract!Next]_SortedHeap
  BY BufferStep
<1> QED
  BY <1>1, <1>3, <1>4, OwnStep, AcquisitionInvariant, PTL
     DEF Spec, ImplementsBuffer, Abstract!Spec

=============================================================================
