# A TLA+ verification of the satellite and ground-station simulation

The repository is a Rust simulation of a satellite and its ground station: two
programs (`src/src/bin/satellite.rs`, `src/src/bin/ground.rs`) made of many
tokio tasks that share queues, flags and mutexes, and that talk through two
RabbitMQ queues. Nearly all of its logic is about *order*: who holds which lock
for how long, what was read before an `await` and used after it, what a full
queue drops, what a fault recovery leaves behind. The repository has no tests
(its two benches assert nothing), so the models are checked against the code
and against what its log messages say.

Files here: `*.tla` modules, `*.cfg` TLC configurations, `PROJECT.json` (the
machine-readable index: components, runs, mutants, the map from every
definition to the source lines it models, findings, hazards, theorems).

## 1. Inventory

### Satellite

| component | state | operations | interacts through |
|---|---|---|---|
| sensor buffer (`satellite/buffer.rs`) | a min-max heap of `SensorData`, capacity 300 | `push` (drops the minimum, or refuses the new datum with `LOSS`), `pop` (maximum), `clear` | one mutex; shared by 3 sensors and the executor |
| FIFO queue (`satellite/FIFO_queue.rs`) | a `VecDeque` and a capacity | `push` (drops the oldest when full), `pop` | three instances: `scheduler_command` (2000), `downlink_buffer` (100), `transmission_queue` (100) |
| sensors (`satellite/sensor.rs`) | `delay_inject`, `corrupt_inject`, missed-data count, `SensorCommand` | sample and push every 50/100/150 ms; inject faults every 60 s; trace faults for the report | sensor buffer, flags shared with the tasks |
| scheduler (`satellite/scheduler.rs`) | `task_queue`, a heap of tasks ordered by priority and deadline | release periodic tasks (1/2/3 s), turn commands into tasks (`check_preemption`), execute tasks one at a time | `task_queue` mutex, `scheduler_command` |
| tasks (`satellite/task.rs`) | the task's datum and fault message; `delay_stat`, `corrupt_stat`, `*_recovery_time` of its sensor | read, check for corruption and delay, start a recovery, recover, thermal control, answer a re-request | buffer, flags, `scheduler_command`, `downlink_buffer` |
| downlink (`satellite/downlink.rs`) | packet counters, degraded mode, window | number and queue packets; every 500 ms publish for 30 ms | both FIFO queues, RabbitMQ |
| command receiver (`satellite/receiver.rs`) | `command_buffer` (1000), a subscription that never acknowledges | purge at start, receive, translate RR and LC into scheduler commands | RabbitMQ, `scheduler_command` |

### Ground

| component | state | operations | interacts through |
|---|---|---|---|
| receiver (`ground/receiver.rs`) | subscription | purge at start; decode, validate or detect, then acknowledge, one packet at a time | RabbitMQ |
| packet validator (`ground/packet_validator.rs`) | received and reported numbers, error count, per prefix | find gaps and late packets; trigger re-request or loss of contact | system state, ground service |
| ground service (`ground/ground_service.rs`) | cooldowns (`TriggerTracker`) | trigger RR/LC, detect faults and recoveries | mailbox + `Notify`, system state, fault log |
| fault log (`ground/fault_event.rs`) | a queue of faults per situation, resolve records | add, resolve first | mutex |
| system state (`ground/system_state.rs`) | active flag and failure count per sensor | set, count, reset | mutex |
| command scheduler (`ground/scheduler.rs`, `command.rs`, `sender.rs`) | a heap of commands by priority and release time | take from the mailbox, release, validate, send, reschedule, sleep | one-place mailbox `schedule_command` + `Notify`, RabbitMQ |

Reporting (`deadline_metrics`, `jitter_metrics`, `program_utilization`,
`log_generator`, the fault tracers, the summaries of both mains) is write-only
and not modelled. `uplink.rs` and `compressor.rs` encode bytes and keep no
state that matters.

### What is hard here

* **A lock held much longer than it looks.** The `if let` of
  `satellite/scheduler.rs:173` keeps the `task_queue` guard through the whole
  `task.execute()`; `ground/scheduler.rs:72` keeps the mailbox guard through a
  sleep of up to 600 ms or an uplink.
* **Hand-over through a local variable.** The preemption checker pops a command
  and then waits for the lock: the command is in no queue.
* **A protocol spread over three flags.** `inject`, `stat` and `recovery_time`
  of each sensor and kind are read and written by sensors, tasks and recovery
  tasks in separate steps; stale good or bad data arrive in between.
* **Silent loss.** Both kinds of buffer drop; publishes fail; the ground purges.
* **Two counters of the same thing** (`error_count`, `sensor_failures`), reset
  at different moments.
* **Matching by order.** An answer carries no name of the command it answers:
  the ground resolves the oldest open fault, while commands are rejected, lost,
  thrown away or left unanswered on the way.
* **Restarts.** The broker keeps every command of a session, because none is
  acknowledged, and queues them again when the satellite's connection ends.
* **Time.** A packet carries the time of a window that may be over when it is
  sent; a command that is not due blocks those that are.

The full list, with lines and the properties that cover each item, is under
"hazards" in `PROJECT.json`.

## 2. Modules

| module | models | role |
|---|---|---|
| `FifoQueue` | `FIFO_queue.rs` | operators |
| `SensorBuffer` | what `buffer.rs` promises, timestamps abstracted | operators used by `SatelliteTasks` and `PriorityBuffer` |
| `PriorityBuffer` | the abstract buffer as a state machine | abstract specification |
| `SensorAcquisition` | sensors, heap with timestamps, safety alert | refines `PriorityBuffer` |
| `SatelliteTasks` | sensors, periodic scheduler, checker, executor, fault recovery | core of the satellite |
| `GroundControl` | receiver, validator counters, triggers, mailbox, command scheduler | core of the ground |
| `CommandTiming` | release times, sleeps, locks held, deadlines, cooldowns | the ground's scheduler in time |
| `Telelink` | downlink, windows, stamps, broker, packet numbers at the ground | the telemetry path |
| `CommandLink` | trigger, fault log, uplink, broker, command receiver, answer | the round trip of an urgent command |
| `*Proofs` | | theorems about the module of that name (`CommandAnswersProofs`: about the answers of `CommandLink`; `CommandDelayProofs`: about the delays of `CommandTiming`) |
| `MC*` | | model values for the runs |

How the modules meet: `SensorAcquisition` shows that the timestamped heap
behaves as the abstract buffer of `SatelliteTasks`; `Telelink` starts where a
task's `Finish` or `Respond` pushes to `downlink_buffer` and ends in the
validator's numbers; `GroundControl` starts with the errors the validator finds
and ends with the uplink of a command. `CommandLink` composes the ground's
triggers and fault log with the broker, the satellite's receiver, its
checker and executor, each reduced to what the round trip needs. `CommandTiming`
shows of the scheduler what `GroundControl` and `CommandLink` assume of the
cooldown (`CooldownOutlives`).

### SatelliteTasks

Flags are functions of `<<kind, sensor>>`: `inject` is `corrupt_inject` /
`delay_inject`, `stat` is `corrupt_stat` / `delay_stat`, `recovery` says whether
`*_recovery_time` is `Some`. `hand` is the command between `pop()` and
`task_queue.lock()`. The executor is a program counter, `pc = "idle"` meaning
that the `task_queue` lock is free:

```
            Dequeue                ReadDatum            StartFault / StillFaulty
   idle --------------> read ----------------> check -------------------------> idle
     |                    | ReadTimeout -> idle   | PassChecks
     |                    | (re-request)          v
     |                    +-> respond -> idle    work --Finish--> idle
     |                                             ^
     +--> recover --RecoverNothing----------------+
             | RecoverStop -> clear --RecoverClear--> reset --RecoverReset-+
```

`reported` follows the fault messages put into `downlink_buffer`; `evicted`
records recovery commands that drop-oldest discarded. Time appears only as the
age of the datum that is checked: `ontime`, `late`, or `edge`, the millisecond
in which the two comparisons of `task.rs:237` and `267` disagree. `AgedReads`
lets undelayed data be late, too.

The code injects a fault of each kind every 60 s (`sensor.rs:175`, `193`) and
looks at nothing before it does. One moment is bad for that: after the recovery
has stopped the injection and before a good datum has cleared `stat`. A fault
injected then meets `stat = TRUE`, is only logged as "Still receiving" and is
recovered by nobody. `reinjected` records the faults that were, until `stat` is
cleared; `AwaitsConfirmation` is that moment. For corruption the 60 s are long
enough, since a recovery and the next good datum take well under 5 s; for delay
they need not be, because an aged leftover of the buffer may start a delay fault
at any time. `SpacedInjection` is the set of kinds the 60 s are taken to be long
enough for. The properties of safety and their theorems need no kind in it;
`CorruptionRecovered` needs corruption. A named assumption keeps delay out of it
when data may age.

### GroundControl

The receiver's `rpc` follows one packet from `ValidatePacket` through a trigger
to `Put`; the scheduler's `spc` follows one iteration of its loop; `guarded`
says whether the iteration kept the mailbox guard. Counters are compared with
3 only, so they saturate at `MaxErrors > 3` without losing a behaviour; a fault
queue saturates at `MaxFaults`, and a queue at its bound may nondeterministically
stay there. `asked` holds the uplinked requests the satellite may still answer.
Cooldown is a set; it ends at any time except while the command it let through
is on its way, which `CommandTiming` shows with the times. The heap is a set: the periodic commands are
three different ones, and `OneInFlight` shows that a one-shot command never
meets a copy of itself. The heap is never empty when the loop looks at it
(`DefaultCommandsKept`), so the 10 ms sleep of `ground/scheduler.rs:271` is
covered by `Sleep`.

### CommandTiming

The same scheduler with its times and without its data: a trigger may come
whenever its cooldown allows, a loss of contact may be validated or not. `left`
is the time to a command's release, negative when it is overdue; `timer` what is
left of a sleep, or how long a publish takes already. Only sleeping and
publishing take time: `Tick` is possible in these two steps and when the
receiver cannot put its command, so that time never overtakes a task that can
run. `unseen` is the command put between `Utc::now()` and the lock: its release
time lies after the `now` it is compared with, and the loop sleeps (for a time
that rounds to zero) instead of releasing it.

### SensorAcquisition

Time advances in even numbers and the injected delay is odd: data never tie, as
with the nanoseconds of `Utc::now()`. `Err("LOSS")` counts a missed telemetry
datum; `unalerted` is the history the alert is judged by. The refinement mapping
sorts the heap and forgets the timestamps (`SortedHeap`).

### Telelink

A packet is a record of its prefix and number; FMI is the prefix of fault
messages. The encoder pops, numbers and stamps, queues, and looks at the fill
rates; the window task opens, takes, publishes or fails, and closes. Of the
time a stamp carries the model keeps which window it was computed for:
`expected` and `stamp[e]` are 1 for the next window, 0 for the one opened last,
-1 for an earlier one, and age when a window opens. It does not keep when that
time comes, which may be before or after the opening of that window
(section 6). `left` records the packets a closing window leaves behind. The
encoder may linger at any step, which covers the 500 ms of degraded mode. The broker is external: a
FIFO queue with one consumer, as the code uses it. `lost` records numbered
packets that no one will receive.

### CommandLink

Everything is named by the fault the ground logs when it raises a command:
`logged` counts them and is the clock of the stamps. A satellite's session goes
`off -> started -> purged -> consuming -> off`; the ground goes on. Stopping
(`conn.close`, or the process dying) puts `unacked` back in front of `uplink`,
as the broker does with deliveries nobody acknowledged, and forgets what the
program held. `OtherCommand` stands for all that shares the two queues: PG, SC,
EC, recovery and thermal commands. `RejectOrLose` is a rejection as well as a
publish that fails. `Execute` answers, or ends without a datum. Either kind of
answer takes the oldest open `ReRequest` fault of its sensor, as
`fault_detection` does (see the finding at `ground_service.rs:204`).

## 3. Runs

| run | distinct states | shows |
|---|---|---|
| `SatelliteOneSensor` | 2 164 846 | all safety properties of the recovery protocol; both fault kinds, injected at any moment, aged reads, re-requests |
| `SatelliteTwoSensors` | 762 072 | recoveries of two sensors do not disturb each other |
| `SatelliteLiveness` | 26 216 | recoveries end, corruption is found, the lock is released |
| `GroundStation` | 396 461 | mailbox, periodic commands, failure counters, single commands; the receiver gets out of its wait, a validated loss of contact is uplinked |
| `AcquisitionBuffer` | 469 856 | losses are the least important data, four telemetry losses in a row raise the alert, the heap implements the abstract buffer |
| `TelemetryLink` | 107 174 | gaps are exactly the losses, nothing vanishes, packets carry the time of an earlier window only if left behind, of a later one never, queued packets leave |
| `CommandTiming` | 6 753 944 (symmetric) | what a command and the receiver wait at most, and that the cooldown is longer |
| `CommandLink` | 139 466 | nothing stale or twice is executed, answers find older faults, commands are executed |
| `GroundLossUnresolved`, `AcquisitionAlert`, `LinkDegraded`, `CommandDeadline` | stop at the counterexample | a statement of the program that the program contradicts (section 4) |

Every property of a passing run comes with a mutant of one modelled definition
(listed in `PROJECT.json`; the mutated operators stand next to the originals,
named `<definition>_<bug>`) under which TLC finds it violated.

### Properties

Satellite:

* `RecoveryPending` - a running recovery clock always has its command in the
  FIFO, in the checker's hand, in the heap or in execution, unless drop-oldest
  discarded it. This crosses four owners and two locks.
* `FaultNotStuck` - a sensor whose data are still made faulty and whose fault is
  believed handled has a recovery under way, unless the fault was injected again
  between the stop of its recovery and the next good datum. Nothing else gets a
  fault stuck: no order of samples, pushes, clears, time-outs and duplicates.
* `RecoveredAfterReported` - no "recovered" message without the report of the
  fault, although duplicate recovery tasks exist.
* `PeriodicDataClean` - no periodic task downlinks a corrupted datum.
* `RecoveryStopsInjection` (action) - a clock stops only in the recovery task of
  that very fault, and only with its injection stopped, with the fault no longer
  believed handled, or with the fault injected anew behind the stop.
* `RecoveryCompletes`, `CorruptionRecovered`, `LockReleased` (liveness).

Ground:

* `NoLostWakeup` - a command in the mailbox has a stored permit unless the
  scheduler is about to look; the scheduler never sleeps on the mailbox's lock
  with a command inside.
* `DefaultCommandsKept` - each periodic command is in the heap or being
  dispatched, through every early `continue`.
* `FailuresCoverErrors` - the two failure counters agree unless an LC was
  uplinked since the last good packet.
* `OneInFlight` - never two copies of a command on their way.
* `ReceiverUnblocked`, `UrgentUplinked` (liveness).

* `DefaultsSpaced`, `DefaultsDelayed` - a periodic command is dispatched neither
  before its interval is over, however late the last one was, nor later than
  `DefaultTime`: one round of re-requests and loss-of-contact commands, although
  a re-request that is not due blocks the top of the heap for 600 ms.
* `UrgentDelayed`, `ReceiverDelayed` - the sleep with the mailbox locked costs
  the receiver with an unacknowledged packet at most that one sleep, or two
  publishes (`PutTime`); a loss of contact waits for one sleep, or for the
  publishes of losses of contact before it, and for two publishes more
  (`UrgentTime`).
* `CooldownOutlives` - a command is done with before its cooldown ends.

Buffer and link:

* `LossIsLowest` (action), `FourMissesAlert`, `ImplementsBuffer` (refinement).
* `GapsAreLosses` - what the ground reports missing is exactly what was lost in
  front of its last packet. `Accounted` - every numbered packet is received,
  lost or in one place. `QueuedPacketLeaves` (liveness).
* `NeverAWindowEarly`, `StaleWasLeft` - the time a packet carries was computed
  for the window it is sent in or for an earlier one, and for an earlier one only
  if the packet was left behind when a window closed: no race of encoder and
  window makes a fresh packet a whole window early or late. (The milliseconds
  between a window's time and its opening are section 6.)

Commands:

* `FreshCommandsOnly`, `ExecutedOnce` - although the broker queues all commands
  of a session again, a satellite executes only what was sent after it started,
  and that once.
* `AnswersFindFaults`, `RecoveryTimesReal` - an answer to a re-request finds an
  open fault, and one that is older than the answer, so that the recovery time
  (`num_milliseconds() as u64`) does not wrap. The premise `OnlyReRequests` is
  needed: once an answer to a *loss of contact* has taken a `ReRequest` fault
  (the finding below), it may have taken one younger than itself, and both
  invariants fail.
* `CommandsExecuted` (liveness) - what waits for a satellite that consumes is
  executed, unless a full queue throws it away or the satellite stops.

### Bounds, and why they are enough

* Capacities are 1 or 2 where the code has 100 to 2000: dropping, the hard case,
  is reached at once, and every rule of a queue depends on "full" and "empty"
  only. `CommandCapacity = 2` allows a recovery command to be pushed out by a
  re-request and a thermal command. The theorems of section 5 hold for every
  capacity.
* `MaxCopies = 1` bounds equal tasks waiting in the heap, `MaxUplinks = 1` the
  re-requests of the ground: they disable a step, they do not change one.
  One re-request is enough to push a command out; duplicates of a recovery
  command arise in FIFO, hand and heap at once. Two sensors are enough for
  interference, as the code treats them alike but for their priority.
* The two-sensor run has one fault kind and no re-requests, the one-sensor run
  has both; the interference of kinds of one sensor and of sensors of one kind
  are separate questions.
* `SpacedInjection` is empty in the one-sensor run, and `{"corrupt"}` in the
  two-sensor and the liveness run, which have corruption only and no aged reads.
* `MaxErrors = 4` is one above the threshold. `MaxFaults = 1` is enough for
  every decision of `GroundControl`, which never looks at a queue's length;
  `GroundLossUnresolved` uses 2.
* `MaxClock = 12` is enough to fill, overflow and clear a buffer of two, and for
  four telemetry losses in a row; `AcquisitionAlert` takes 18, for losses that
  stored data separate.
* Up to three packets of a sensor allow a gap of two in front of a packet.
* `CommandTiming` counts in units of 200 ms: a re-request is released after 3, a
  publish takes up to 1 (a generous bound for a local broker), a default command
  comes every 4. The cooldown of 20 units stands for 10 s = 50 units: the
  shortest that `CooldownAssumption` allows here is 20 (14 in `CommandDeadline`),
  and a shorter one brings the triggers closer together, which makes the bounds
  harder to keep. One default command and two sensors show the blocking;
  `CommandDeadline` has two defaults and one sensor. The bounds themselves
  (`PutTime`, `UrgentTime`, `DefaultTime`, `OneShotTime`) are functions of the
  constants, and theorems for all of them (section 5).
* `CommandLink`: two faults of one sensor, three sessions and queues of two
  allow a command of every earlier session to be queued again, a full queue, and
  an answer that meets the wrong fault. The sensor is in the name of every queue
  of the fault log, so sensors do not interact there.

Deadlock is checked in every run.

### Fairness

Weak fairness of an action says that a tokio task that can run does: the runtime
is multi-threaded and its tasks yield. Strong fairness is used in these places:

* whoever waits for a `tokio::sync::Mutex` is served in FIFO order: `InsertCommand`
  and `ScheduleTask` (the lock is free again and again between two tasks), and
  `Put` on the ground (the mailbox guard is dropped at each iteration's end);
* `ReadDatum`: a pop takes microseconds of the 20 ms window in which the loop
  repeats;
* `Release(c)` of a one-shot command: if it is the top of the heap again and
  again its release time passes;
* `TakePacket`: a window of 30 ms has time for a packet sooner or later.

`CommandLink` needs weak fairness only, of the satellite's four tasks. There is
no fairness on faults, re-requests, triggers, losses, sessions or cooldowns: the
environment need not do anything. `CommandTiming` states bounds on times, as
invariants, and no fairness.

## 4. Findings

* **`GroundLossUnresolved`** (`ground_service.rs:204`): the answer to a loss of
  contact resolves a `ReRequest` fault; the `LossOfContact` fault stays for ever
  and the branch at line 238 is dead.
* **`AcquisitionAlert`** (`sensor.rs:329`): "> 3 consecutive" misses are not
  consecutive, because a successful push does not reset the count.
* **`CommandDeadline`** (`ground/scheduler.rs:72`): the mailbox guard is dropped
  only in the branch that found nothing. After a command was taken it is kept
  through the sleep, up to 600 ms for a re-request; a loss of contact raised
  meanwhile can neither be put nor end the sleep by `notify_one()`, and misses
  its deadline of 400 ms (`ground_service.rs:91`).
* **`LinkDegraded`** (`downlink.rs:194`): degraded mode is announced for the
  downlink buffer but only the transmission queue enters it.

Other behaviour the models show, which no text of the repository contradicts: a
re-request is answered with an unchecked, possibly corrupted datum; a duplicate
recovery task downlinks the faulty datum that came with its command; the
recovery of one sensor clears the data of all; a good datum sampled before an
injection clears `stat` during a recovery; drop-oldest may discard a recovery
command, after which the clock never stops; a fault injected right behind its
recovery is never recovered; the validator's count can jump over the value 3 it
is compared with; a rejected loss of contact starts its cooldown all the same,
and an uplinked one may cause the rejection of the next; one active flag stands for two fault kinds; a
command whose publish failed is counted as an uplink (`bin/ground.rs:131`
reports the total as sent); one rejected, lost or unanswered re-request leaves
an open fault behind for good, and from then on every answer resolves a fault
older than its own, with a recovery time to match; degraded mode never ends.

## 5. Proofs

TLAPS checks the eight `*Proofs` modules for every value of the constants that
satisfies the named assumptions of the modules: any sets of sensors, capacities
from 1 up, any delays and intervals.

Satellite:

| theorem | property | argument |
|---|---|---|
| `TypeCorrect` | `TypeOK` | inductive as it stands, once the buffer's push is known to keep its bound and type (lemmas on `InsertAt`, `Front`, `Tail`) |
| `RecoveryNeverOrphaned` | `RecoveryPending` | by following the command through `FifoPush` (kept, or recorded in `evicted`), `TakeCommand`, `InsertCommand`, `Dequeue` |
| `NoFaultStuck` | `FaultNotStuck` | needs the executor's steps: between `RecoverStop` and `RecoverReset` the recovered fault is not both injected and believed handled, unless it is in `reinjected` (`StopInv`). No assumption on the injections; the second conjunct says of the kinds in `SpacedInjection` that they are never stuck, since they are never in `reinjected` (`TypeOK`) |
| `ClockStopsInjection` | `RecoveryStopsInjection` | the same invariant, at `RecoverReset` |
| `RecoveriesReported` | `RecoveredAfterReported` | a clock is started by the step that reports the fault; a message exists only while its clock ran |
| `PeriodicDownlinksClean` | `PeriodicDataClean` | the datum in `check` is the one in `work` |

Ground:

| theorem | property | argument |
|---|---|---|
| `GroundTypeCorrect` | `TypeOK` | inductive |
| `NoWakeupLost` | `NoLostWakeup` | the permit is consumed by `Wake` only, after which the scheduler is in front of its check; a put needs the guard free |
| `DefaultCommandsNeverLost` | `DefaultCommandsKept` | with "`job` is a command exactly while dispatching", and a periodic job is never rejected |
| `FailuresCovered` | `FailuresCoverErrors` | both counters grow together and saturate alike; only an LC's uplink resets one alone |
| `OneShotSingle` | `OneInFlight` | a command on its way is in cooldown (`CooldownInv`, `FlightInv`), the trigger passes only outside it, and an LC still being validated has no holder yet |

Telemetry link:

| theorem | property | argument |
|---|---|---|
| `LinkTypeCorrect` | `TypeOK` | with "what the encoder and the window hold at each step" (`HoldsInv`) and "the numbers received have a greatest" (`MaximumInv`, for `Max` is a choice) |
| `LinkAccounts` | `Accounted` | the pipeline is cut into the sets of its four places (`OrderInv`), over which the numbers are tallied; each step moves one packet from a place to the next, or to `lost` |
| `LinkGapsAreLosses` | `GapsAreLosses` | from the tally: whatever is below the number that arrives, and neither received nor on its way, is lost |
| `LinkNeverAWindowEarly` | `NeverAWindowEarly` | while a window is open, the expected time and every stamp are that window's or an earlier one's (`WindowInv`) |
| `LinkStaleWasLeft` | `StaleWasLeft` | between windows the expected time is meant for the next one and all that is stamped for an earlier one was left (`LeftInv`) |

Buffer:

| theorem | property | argument |
|---|---|---|
| `AcquisitionTypeCorrect` | `TypeOK` | with `HeapInv` for the bound |
| `LossesLowest` | `LossIsLowest` | no two data were sampled at the same time (`SampledInv`, by the parity of times and delay), so every part of the heap has exactly one lowest datum (`HeapInv`), which is what `Bottom` chooses |
| `MissesAlerted` | `FourMissesAlert` | the count of losses is never below the losses in a row |
| `HeapImplementsBuffer` | `ImplementsBuffer` | the refinement, step by step; see below |

`HeapImplementsBuffer` says that whatever `SensorAcquisition` does, its heap seen
smallest first and without timestamps (`SortedHeap`) starts empty and moves by
`Push`, `Pop` and `Clear` of `PriorityBuffer` only. The data of a heap form a
chain of the order of importance (`HeapIsChain`, from `SampledInv`), so a datum's
place - one more than the number of data it outranks - numbers the heap from 1
to its cardinality without a gap (`Places`: an injection into a set of the same
size). The rest are facts about places: without its top the sorted heap loses
its last element (`DropTop`), without its bottom its first (`DropLowest`), and a
new datum is inserted at its place (`AddDatum`). That this place is one the
abstract buffer allows (`HeapPlaces`) needs one more invariant, `OwnInv`: what a
sensor holds was sampled after all of its data in the heap, so of two data of
one sensor and priority the newer sorts lower only if it is delayed and the
other is not. This is the justification for what `SatelliteTasks` takes for
granted of the buffer.

Commands:

| theorem | property | argument |
|---|---|---|
| `TimingTypeCorrect` | `TypeOK` | inductive |
| `DefaultsKeepInterval` | `DefaultsSpaced` | `left` counts down as `since` counts up (`SpacedInHeap`) |
| `DelayInvariant` | | `IInv`, the one inductive invariant that the next four are read off |
| `ReceiverWaitsBounded` | `ReceiverDelayed` | the receiver finds the mailbox full for at most the publish under way and the one after it, or locked for one sleep (`PendingInv`, `MailboxInv`) |
| `UrgentInTime` | `UrgentDelayed` | a loss of contact waits for the mailbox, then for the losses of contact ahead of it and at most one other publish (`UrgentInv`) |
| `CooldownOutlivesCommand` | `CooldownOutlives` | a command's age is what its cooldown has run (`AgeInv`), and is at most `OneShotTime` (`RequestInv`, `UrgentInv`) |
| `DefaultsNeverStarve` | `DefaultsDelayed` | a late default waits for one-shot commands that are done with or in its way (`Waited`, `HeldUp`), each situation once (`DefaultInv`) |
| `CommandLinkTypeCorrect` | `TypeOK` | inductive |
| `NothingStale` | `FreshCommandsOnly` | all a session holds, and all in the broker since its purge, was sent in it (`FreshInv`); before it consumes it holds nothing (`EmptyInv`) |
| `NothingTwice` | `ExecutedOnce` | scheduled, queued and executed commands are apart and each queue repeats none (`ApartInv`, `DistinctInv`); new ones have new numbers (`KnownInv`) |
| `EveryAnswerFindsFault` | `AnswersFindFaults` | a trigger adds one command and one open fault; an answer that arrives takes one fault, and its command is nowhere else any more, for it was executed (`NotExecutedYet`) and no command has two answers (`OneAnswer`); all other steps only move or lose commands (`StepKinds`) |
| `NoNegativeRecovery` | `RecoveryTimesReal` | `RankInv`: of the open faults, oldest first, the n-th is not younger than t if n answers stamped by t are on their way; a new answer satisfies it by the theorem before, an arrival shifts both sides by one since stamps and faults are in the order of time (`StampsAscend`, `OpenAscend`) |

The four bounds of `CommandTiming` hold each other up and are proved as one
invariant. A command is late because others are ahead of it; only few are,
because a situation triggers once in a cooldown; and that matters only if a
command is done with before its situation triggers again, which is a bound on
its lateness. `IInv` has a part for each place and step: a command is in one
place (`OnePlace`), what the step says about lock, timer and permit (`StepInv`),
that the defaults are scheduled always and the scheduler sleeps for the top
(`HeapInv`), and the time bounds named above. Every step but `Tick` moves one
command or none (each bound is kept by counting who is ahead); `Tick` makes all
commands older at once, and there the timer of the publish or sleep pays for it.

Two assumptions on the constants are new with it. `FiniteAssumption`: sensors
and defaults are finite sets. `CooldownAssumption`: the cooldown is longer than
two one-shot commands, or a one-shot and a default, can take. With the
code's numbers (10 s cooldown, three sensors, three defaults, 600 ms until a
re-request is released) it holds if no publish takes longer than 455 ms. The code
puts no limit on a publish: with a broker that is slower, the bounds are not
claimed, and a situation may trigger again while its command is on its way.

What is only model-checked: the liveness properties (`RecoveryCompletes`,
`CorruptionRecovered`, `LockReleased`, `ReceiverUnblocked`, `UrgentUplinked`,
`QueuedPacketLeaves`, `CommandsExecuted`), since fairness and ENABLED are
outside the prover's reach. Every invariant and action property of the passing
runs, and the refinement, is a theorem.

## 6. What is not modelled

* Deadlines and process times of the satellite's tasks: tasks of equal priority
  are taken in any order, so nothing is said about their deadline misses or the
  stale `now` of `check_preemption` (`satellite/scheduler.rs:41`).
* The drift in milliseconds (`receiver.rs:221`). `Telelink` says for which window
  a packet's stamp was computed, `GroundControl` leaves open which packets are
  late. The time itself is the opening of the last window plus 500 ms
  (`downlink.rs:114-122`), while the interval ticks on its schedule: if the last
  window opened late, the next one opens before its time by that lateness, the
  drift of what is sent at once is negative and is logged as an early arrival
  (`receiver.rs:239-246`). A window that opens late makes its own packets later.
  Neither matters to the ground below the 100 ms at which it calls a packet late.
* That faults are detected with several sensors: the tasks of the others may pop
  a sensor's data for as long as its 20 ms last, and no fairness of the code
  bounds how often. `CorruptionRecovered` is checked with one sensor.
* Recovery times of data faults on the ground, which are measured between two
  stamps of the satellite; the sums of the final report.
* A satellite that restarts under a running ground and numbers its packets from
  1 again: `Telelink` is one session. The stale-numbers hazard is listed.
* The fault tracers (`sensor.rs:100-166`), the rejection summary, deadline and
  jitter metrics, `program_utilization.rs`, `log_generator.rs` and the reports
  of both mains: written, never read by the control flow.
* `uplink.rs` and `compressor.rs`: the bytes of packets, and payloads.
* Packets out of order: the broker keeps the order of one publisher.

## 7. Plan

What would come next, in this order:

1. `Telelink` over several satellite sessions, with the reset of the numbers.
2. The satellite's executor in time, as `CommandTiming` is for the ground: what
   bounds a fault's detection with several sensors.
3. Windows in time, with late openings, against the drift the ground computes.
