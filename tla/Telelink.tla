------------------------------ MODULE Telelink ------------------------------
(***************************************************************************)
(* The telemetry link, from the satellite's downlink buffer to the         *)
(* ground's packet validator (src/src/satellite/{downlink,FIFO_queue}.rs,  *)
(* src/src/ground/{receiver,packet_validator}.rs): packets are numbered    *)
(* per prefix and stamped with the time computed for the next visibility   *)
(* window, wait for one, may be dropped or lost, and the ground infers the *)
(* losses from the gaps.                                                   *)
(*                                                                         *)
(* Of a computed time the model keeps only which window it was computed    *)
(* for, relative to the window opened last: 1 for the next, 0 for that     *)
(* one, -1 for any before.  It does not say when that time comes.  The     *)
(* code computes it from when the last window did open, while the interval *)
(* keeps its schedule: after a late opening the next window opens before   *)
(* the time computed for it, by that lateness, and a packet sent at once   *)
(* arrives early (receiver.rs:239).  The encoder may stay at any step as   *)
(* long as it likes, which covers the 500 ms it sleeps in degraded mode.   *)
(*                                                                         *)
(* The broker between them is external: a FIFO queue with one consumer.    *)
(***************************************************************************)
EXTENDS FifoQueue, FiniteSets, FiniteSetsExt

CONSTANTS
  Sensor,                \* one prefix each: TLI, RAI, ANI
  DownlinkCapacity,      \* DOWNLINK_BUFFER_SIZE
  TransmissionCapacity,  \* TRANSMISSION_QUEUE_SIZE
  MaxPackets             \* model bound: packets numbered, by prefix

ASSUME CapacityAssumption == /\ DownlinkCapacity \in Nat \ {0}
                             /\ TransmissionCapacity \in Nat \ {0}
ASSUME FaultPrefixAssumption == "FMI" \notin Sensor
ASSUME BoundAssumption == MaxPackets \in [Sensor \cup {"FMI"} -> Nat]

VARIABLES
  downlink_buffer,     \* what waits to be encoded, by its prefix
  counter,             \* the last number given, by prefix
  encoded,             \* the packet process_data holds, or <<>>
  encoder,             \* its step: "pop", "queue" or "rates"
  degradation_mode,
  transmission_queue,
  window,              \* downlink_data: "starting", "closed", "open" or
                       \* "publishing"
  expected,            \* the window expected_window_open_time is meant for
  stamp,               \* the same of expected_arrival_time, by packet
  sending,             \* the packet popped for publishing, or <<>>
  broker,              \* the telemetry queue
  consuming,           \* has the ground purged the queue and subscribed?
  received,            \* PacketValidator.received
  reported_missing,    \* PacketValidator.reported_missing
  lost,                \* history: numbered packets nobody will receive
  left,                \* history: packets not sent when a window closed
  announced            \* history: was degraded mode logged as triggered?

satellite == <<downlink_buffer, counter, encoded, encoder, degradation_mode>>
ground == <<consuming, received, reported_missing>>
stamps == <<expected, stamp, left>>
vars == <<downlink_buffer, counter, encoded, encoder, degradation_mode,
          transmission_queue, window, expected, stamp, sending, broker,
          consuming, received, reported_missing, lost, left, announced>>

----------------------------------------------------------------------------
Prefix == Sensor \cup {"FMI"}

Packet == UNION {[prefix : {p}, num : 1..MaxPackets[p]] : p \in Prefix}

Elements(q) == {q[i] : i \in 1..Len(q)}
Numbers(packets, p) ==
  {n \in 1..MaxPackets[p] : [prefix |-> p, num |-> n] \in packets}

Init ==
  /\ downlink_buffer = <<>>
  /\ counter = [p \in Prefix |-> 0]
  /\ encoded = <<>> /\ encoder = "pop"
  /\ degradation_mode = FALSE
  /\ transmission_queue = <<>>
  /\ window = "starting" /\ sending = <<>>
  /\ expected = -1
  /\ stamp = [e \in Packet |-> -1]
  /\ broker = <<>>
  /\ consuming = FALSE
  /\ received = [s \in Sensor |-> {}]
  /\ reported_missing = [s \in Sensor |-> {}]
  /\ lost = {} /\ left = {}
  /\ announced = FALSE

----------------------------------------------------------------------------
(* A task ends with a datum or a fault message for the ground.             *)
Produce(p) ==
  /\ downlink_buffer' = FifoPush(downlink_buffer, p, DownlinkCapacity)
  /\ UNCHANGED <<counter, encoded, encoder, degradation_mode,
                 transmission_queue, window, stamps, sending, broker, ground,
                 lost, announced>>

(* process_data: pop, number and stamp with expected_window_open_time, as  *)
(* the last window's closing left it.                                      *)
Encode ==
  /\ encoder = "pop" /\ downlink_buffer # <<>>
  /\ LET p == Head(downlink_buffer)
         e == [prefix |-> p, num |-> counter[p] + 1]
     IN  /\ counter[p] < MaxPackets[p]
         /\ counter' = [counter EXCEPT ![p] = @ + 1]
         /\ encoded' = <<e>>
         /\ stamp' = [stamp EXCEPT ![e] = expected]
  /\ downlink_buffer' = Tail(downlink_buffer)
  /\ encoder' = "queue"
  /\ UNCHANGED <<degradation_mode, transmission_queue, window, expected,
                 sending, broker, ground, lost, left, announced>>

(* The push drops the oldest packet of a full transmission queue.          *)
Queue ==
  /\ encoder = "queue"
  /\ transmission_queue' =
       FifoPush(transmission_queue, encoded[1], TransmissionCapacity)
  /\ LET dropped == FifoDropped(transmission_queue, TransmissionCapacity)
     IN  lost' = lost \cup dropped /\ left' = left \ dropped
  /\ encoded' = <<>>
  /\ encoder' = "rates"
  /\ UNCHANGED <<downlink_buffer, counter, degradation_mode, window, expected,
                 stamp, sending, broker, ground, announced>>

(* Both fill rates are looked at and both are announced above 80%; only    *)
(* one of them slows the encoder down, for good.                           *)
Crowded(q, capacity) == Len(q) * 100 > 80 * capacity

CheckRates ==
  /\ encoder = "rates"
  /\ degradation_mode' = (degradation_mode \/
                          Crowded(transmission_queue, TransmissionCapacity))
  /\ announced' = (announced \/ Crowded(transmission_queue, TransmissionCapacity)
                             \/ Crowded(downlink_buffer, DownlinkCapacity))
  /\ encoder' = "pop"
  /\ UNCHANGED <<downlink_buffer, counter, encoded, transmission_queue,
                 window, stamps, sending, broker, ground, lost>>

----------------------------------------------------------------------------
(* downlink_data: up to here the expected time is that of the creation;    *)
(* now it is computed for the window that the interval opens next, whether *)
(* that window opens before or after it.                                   *)
WaitForNextWindow ==
  /\ expected' = 1
  /\ left' = left \cup Elements(transmission_queue \o encoded)

StartDownlink ==
  /\ window = "starting"
  /\ window' = "closed"
  /\ WaitForNextWindow
  /\ UNCHANGED <<satellite, transmission_queue, stamp, sending, broker, ground,
                 lost, announced>>

(* The window opens, at the interval's tick (every 500 ms, for 30 ms) and  *)
(* without a look at the expected time: what was meant for the next window *)
(* is meant for this one, what was meant for the last for an earlier one.  *)
(* The mutant computes the time of the next window at the opening.         *)
Older(w) == IF w > -1 THEN w - 1 ELSE -1

OpenWindow_ExpectsNext ==
  /\ window = "closed"
  /\ window' = "open"
  /\ expected' = 1
  /\ stamp' = [e \in Packet |-> Older(stamp[e])]
  /\ UNCHANGED <<satellite, transmission_queue, sending, broker, ground, lost,
                 left, announced>>

OpenWindow ==
  /\ window = "closed"
  /\ window' = "open"
  /\ expected' = Older(expected)
  /\ stamp' = [e \in Packet |-> Older(stamp[e])]
  /\ UNCHANGED <<satellite, transmission_queue, sending, broker, ground, lost,
                 left, announced>>

TakePacket ==
  /\ window = "open" /\ transmission_queue # <<>>
  /\ sending' = <<Head(transmission_queue)>>
  /\ transmission_queue' = Tail(transmission_queue)
  /\ window' = "publishing"
  /\ UNCHANGED <<satellite, stamps, broker, ground, lost, announced>>

Publish ==
  /\ window = "publishing"
  /\ broker' = Append(broker, sending[1])
  /\ left' = left \ {sending[1]}
  /\ sending' = <<>>
  /\ window' = "open"
  /\ UNCHANGED <<satellite, transmission_queue, expected, stamp, ground, lost,
                 announced>>

(* A failed publish loses the packet and ends the window.  The mutants end *)
(* the task, as its message says ("closing channel..."), and go on to the  *)
(* next window without its time.                                           *)
PublishFails_EndsTask ==
  /\ window = "publishing"
  /\ lost' = lost \cup {sending[1]}
  /\ sending' = <<>>
  /\ window' = "ended"
  /\ UNCHANGED <<satellite, transmission_queue, stamps, broker, ground,
                 announced>>
PublishFails_KeepsTime ==
  /\ window = "publishing"
  /\ lost' = lost \cup {sending[1]}
  /\ left' = (left \ {sending[1]}) \cup Elements(transmission_queue \o encoded)
  /\ sending' = <<>>
  /\ window' = "closed"
  /\ UNCHANGED <<satellite, transmission_queue, expected, stamp, broker, ground,
                 announced>>

PublishFails ==
  /\ window = "publishing"
  /\ lost' = lost \cup {sending[1]}
  /\ expected' = 1
  /\ left' = (left \ {sending[1]}) \cup Elements(transmission_queue \o encoded)
  /\ sending' = <<>>
  /\ window' = "closed"
  /\ UNCHANGED <<satellite, transmission_queue, stamp, broker, ground,
                 announced>>

CloseWindow ==
  /\ window = "open"
  /\ window' = "closed"
  /\ WaitForNextWindow
  /\ UNCHANGED <<satellite, transmission_queue, stamp, sending, broker, ground,
                 lost, announced>>

----------------------------------------------------------------------------
(* The ground starts: whatever is in the queue is purged.                  *)
StartReceiver ==
  /\ ~consuming
  /\ consuming' = TRUE
  /\ lost' = lost \cup Elements(broker)
  /\ broker' = <<>>
  /\ UNCHANGED <<satellite, transmission_queue, window, stamps, sending,
                 received, reported_missing, announced>>

prev_max(s) == IF received[s] = {} THEN 0 ELSE Max(received[s])

(* The gap in front of packet num; the mutant takes prev_max itself for    *)
(* missing.                                                                *)
Missing_OffByOne(s, num) == IF num > 1 /\ num > prev_max(s) + 1
                            THEN prev_max(s)..(num - 1) ELSE {}
Missing(s, num) == IF num > 1 /\ num > prev_max(s) + 1
                   THEN (prev_max(s) + 1)..(num - 1) ELSE {}

(* A fault message is handled without a look at its number; a sensor's     *)
(* packet is validated.  (What the errors trigger: see GroundControl, where *)
(* late or not is a free choice: a packet is late if it was published      *)
(* after the window it is stamped for, if that window opened late, or if   *)
(* this task lags.)                                                        *)
Receive ==
  /\ consuming /\ broker # <<>>
  /\ broker' = Tail(broker)
  /\ LET m == Head(broker)
     IN  IF m.prefix \notin Sensor THEN UNCHANGED <<received, reported_missing>>
         ELSE /\ reported_missing' = [reported_missing EXCEPT ![m.prefix] =
                                        @ \cup Missing(m.prefix, m.num)]
              /\ received' = [received EXCEPT ![m.prefix] = @ \cup {m.num}]
  /\ UNCHANGED <<satellite, transmission_queue, window, stamps, sending,
                 consuming, lost, announced>>

----------------------------------------------------------------------------
Encoder == Encode \/ Queue \/ CheckRates
Window == \/ StartDownlink \/ OpenWindow \/ TakePacket \/ Publish
          \/ PublishFails \/ CloseWindow
Ground == StartReceiver \/ Receive

Next == Encoder \/ Window \/ Ground \/ \E p \in Prefix : Produce(p)

Spec == Init /\ [][Next]_vars

(* A tokio task that can run does; within the 30 ms of a window there is   *)
(* time to take a packet, sooner or later.                                 *)
Fairness == /\ WF_vars(Queue \/ CheckRates) /\ WF_vars(Window)
            /\ SF_vars(TakePacket) /\ WF_vars(Receive)

FairSpec == Spec /\ Fairness

----------------------------------------------------------------------------
TypeOK ==
  /\ downlink_buffer \in Seq(Prefix) /\ Len(downlink_buffer) <= DownlinkCapacity
  /\ counter \in [Prefix -> Nat] /\ \A p \in Prefix : counter[p] <= MaxPackets[p]
  /\ encoded \in Seq(Packet) /\ Len(encoded) <= 1
  /\ encoder \in {"pop", "queue", "rates"}
  /\ degradation_mode \in BOOLEAN
  /\ transmission_queue \in Seq(Packet)
  /\ Len(transmission_queue) <= TransmissionCapacity
  /\ window \in {"starting", "closed", "open", "publishing"}
  /\ expected \in -1..1
  /\ stamp \in [Packet -> -1..1]
  /\ sending \in Seq(Packet) /\ Len(sending) <= 1
  /\ broker \in Seq(Packet)
  /\ consuming \in BOOLEAN
  /\ received \in [Sensor -> SUBSET Nat]
  /\ reported_missing \in [Sensor -> SUBSET Nat]
  /\ lost \subseteq Packet
  /\ left \subseteq Packet
  /\ announced \in BOOLEAN

(* The ground's picture of the losses is exact up to the last packet it    *)
(* has: what it reports missing was lost and is not just late or on its    *)
(* way, and no loss in front of a received packet escapes it, through      *)
(* drops, failed publishes, the purge at its start and a first packet that *)
(* is not number 1.                                                        *)
GapsAreLosses ==
  \A s \in Sensor :
    reported_missing[s] = {n \in Numbers(lost, s) : n < prev_max(s)}

(* No numbered packet vanishes unseen: of each sensor's numbers every one  *)
(* is received, lost, or in exactly one place of the pipeline, in the      *)
(* order of the numbers.                                                   *)
Pipeline == broker \o sending \o transmission_queue \o encoded

Ordered(q) ==
  \A i, j \in 1..Len(q) :
    i < j /\ q[i].prefix = q[j].prefix => q[i].num < q[j].num

AccountedOf(s) ==
  LET inFlight == Numbers(Elements(Pipeline), s)
  IN  /\ \A n \in inFlight : n > prev_max(s)
      /\ received[s] \cap Numbers(lost, s) = {}
      /\ inFlight \cap Numbers(lost, s) = {}
      /\ 1..counter[s] = received[s] \cup Numbers(lost, s) \cup inFlight

Accounted == Ordered(Pipeline) /\ \A s \in Sensor : AccountedOf(s)

(* The time a packet carries when it is taken for publishing was computed  *)
(* for the open window or an earlier one, also when the packet was encoded *)
(* while that window was open, and whatever failed before: a packet may be *)
(* some milliseconds early, if the window before opened late, but it is    *)
(* not sent a whole window early.                                          *)
NeverAWindowEarly == sending # <<>> => stamp[sending[1]] <= 0

(* A packet carries the time of an earlier window, so that it arrives late *)
(* and may be asked for again, only if it was there when a window          *)
(* closed (or was numbered before the first one was announced): neither a  *)
(* failed publish nor the race of encoder and window does that to a fresh  *)
(* packet.                                                                 *)
StaleWasLeft ==
  \A e \in Elements(sending \o transmission_queue \o encoded) :
    stamp[e] = -1 => e \in left \/ window = "starting"

(* A packet in the transmission queue does not wait for ever: a window     *)
(* comes that publishes it or loses it, whatever failed before, unless a   *)
(* newer one pushes it out.                                                *)
QueuedPacketLeaves ==
  \A e \in Packet :
    (e \in Elements(transmission_queue))
      ~> (e \notin Elements(transmission_queue \o sending))

(* "Degraded mode triggered as Downlink buffer rate exceeded 80%"          *)
(* (downlink.rs:194): when degraded mode is announced it is on.            *)
AnnouncedIsDegraded == announced => degradation_mode

=============================================================================
