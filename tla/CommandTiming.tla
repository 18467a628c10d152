--------------------------- MODULE CommandTiming ---------------------------
(***************************************************************************)
(* The ground's command scheduler in time (src/src/ground/{scheduler,      *)
(* command,ground_service,sender}.rs): release times, the sleep until the  *)
(* next one, deadlines and cooldowns.  GroundControl has the control flow  *)
(* of receiver and scheduler with time abstracted; here their data are     *)
(* abstracted: whether a packet triggers, or a validation passes, is free. *)
(*                                                                         *)
(* A step takes no time but the publish of a command, and time stands      *)
(* still while a task can do something.  A release time is relative: how   *)
(* long from now.  The unit is up to the model: the code's times are       *)
(* multiples of 100 ms.                                                    *)
(***************************************************************************)
EXTENDS Integers, FiniteSets

CONSTANTS
  Default,         \* the periodic commands: PG, SC, EC
  Interval,        \* their interval_millis: 900, 800, 600 ms
  Sensor,          \* the sensors that are asked for
  ReRequestDelay,  \* a re-request is released 600 ms after its trigger
  UrgentDeadline,  \* relative_deadline of a loss of contact: 400 ms
  Cooldown,        \* 10 s between two triggers of one situation
  MaxSend          \* a publish takes up to this long

Longer(a, b) == IF a > b THEN a ELSE b

(* Bounds: how long the receiver waits for the mailbox, a loss of contact  *)
(* and a default command are late, and a triggered command is on its way.  *)
PutTime == Longer(ReRequestDelay, 2 * MaxSend)
UrgentTime ==
  Longer(ReRequestDelay, (Cardinality(Sensor) + 1) * MaxSend) + 2 * MaxSend
DefaultTime == Cardinality(Sensor) * (ReRequestDelay + 2 * MaxSend)
               + Cardinality(Default) * MaxSend
OneShotTime == PutTime + (2 * Cardinality(Sensor) + 1) * MaxSend

ASSUME DefaultAssumption == Default \cap {"RR", "LC", "none"} = {}
ASSUME IntervalAssumption == Interval \in [Default -> Nat]
ASSUME TimeAssumption == /\ ReRequestDelay \in Nat /\ UrgentDeadline \in Nat
                         /\ Cooldown \in Nat /\ MaxSend \in Nat
ASSUME FiniteAssumption == IsFiniteSet(Default) /\ IsFiniteSet(Sensor)
ASSUME CooldownAssumption == /\ Cooldown > 2 * OneShotTime
                             /\ Cooldown > OneShotTime + DefaultTime

VARIABLES
  heap, job,  \* Scheduler.heap, the command popped from it
  left,       \* Command.release_time, for those on their way
  mailbox,    \* schedule_command
  guarded,    \* is its guard kept by the scheduler?
  notified,   \* the permit of notify_one()
  unseen,     \* the command put since the scheduler's `now` was taken
  spc,        \* the scheduler's step
  timer,      \* how long it still sleeps, or has been publishing
  pending,    \* the command the receiver waits to put
  cooldown,   \* TriggerTracker: how long each situation is in cooldown
  since       \* history: time since a default command was uplinked

vars == <<heap, job, left, mailbox, guarded, notified, unseen, spc, timer,
          pending, cooldown, since>>

----------------------------------------------------------------------------
Periodic == [type : Default, sensor : {"none"}]
OneShot == [type : {"RR", "LC"}, sensor : Sensor]
Command == Periodic \cup OneShot
NoCommand == [type |-> "none", sensor |-> "none"]
LC(s) == [type |-> "LC", sensor |-> s]

(* Mutant: the heap is a min-heap.                                         *)
priority_Reversed(c) == CASE c.type = "LC" -> 1 [] c.type = "RR" -> 3
                          [] OTHER -> 5
priority(c) == CASE c.type = "LC" -> 5 [] c.type = "RR" -> 3 [] OTHER -> 1

Init ==
  /\ heap = Periodic /\ job = NoCommand
  /\ left = [c \in Command |-> IF c \in Periodic THEN Interval[c.type] ELSE 0]
  /\ mailbox = NoCommand /\ guarded = FALSE /\ notified = FALSE
  /\ unseen = NoCommand
  /\ spc = "loop" /\ timer = 0
  /\ pending = NoCommand
  /\ cooldown = [c \in OneShot |-> 0]
  /\ since = [c \in Periodic |-> 0]

----------------------------------------------------------------------------
(* trigger_rerequest and trigger_loss_of_contact: out of cooldown, a new   *)
(* command is made.  A loss of contact may be rejected, which leaves only  *)
(* the cooldown.  The mutant releases both alike.                          *)
ReleaseDelay_Same(c) == ReRequestDelay
ReleaseDelay(c) == IF c.type = "RR" THEN ReRequestDelay ELSE 0

CoolDown_Unset(c) == UNCHANGED cooldown   \* mutant: no map.insert
CoolDown(c) == cooldown' = [cooldown EXCEPT ![c] = Cooldown]

Trigger(c) ==
  /\ pending = NoCommand /\ cooldown[c] = 0
  /\ CoolDown(c)
  /\ \/ pending' = c /\ left' = [left EXCEPT ![c] = ReleaseDelay(c)]
     \/ c.type = "LC" /\ UNCHANGED <<pending, left>>
  /\ UNCHANGED <<heap, job, mailbox, guarded, notified, unseen, spc, timer,
                 since>>

(* The receiver gets the mailbox's mutex, finds it empty and notifies.     *)
CanPut == pending # NoCommand /\ mailbox = NoCommand /\ ~guarded

Put ==
  /\ CanPut
  /\ mailbox' = pending /\ unseen' = pending
  /\ notified' = TRUE
  /\ pending' = NoCommand
  /\ UNCHANGED <<heap, job, left, guarded, spc, timer, cooldown, since>>

----------------------------------------------------------------------------
EndIteration ==
  /\ spc' = "loop" /\ timer' = 0 /\ guarded' = FALSE

(* An iteration takes the time, then the mutex, which it keeps if it found *)
(* a command.  The mutants keep it always, and push what they find without *)
(* looking.                                                                *)
KeepsGuard_Always == TRUE
KeepsGuard == mailbox # NoCommand
Taken_Unchecked == {mailbox}
Taken == {mailbox} \ {NoCommand}

ReadNow ==
  /\ spc = "loop"
  /\ spc' = "lock"
  /\ unseen' = NoCommand
  /\ UNCHANGED <<heap, job, left, mailbox, guarded, notified, timer, pending,
                 cooldown, since>>

CheckMailbox ==
  /\ spc = "lock"
  /\ heap' = heap \cup Taken
  /\ guarded' = KeepsGuard
  /\ mailbox' = NoCommand
  /\ spc' = "peek"
  /\ UNCHANGED <<job, left, notified, unseen, timer, pending, cooldown, since>>

(* Command::cmp: priority, then the earlier release.                       *)
IsTop(c) ==
  /\ c \in heap
  /\ \A d \in heap : \/ priority(d) < priority(c)
                     \/ priority(d) = priority(c) /\ left[c] <= left[d]

(* A due command is popped, a re-request perhaps rejected, and the publish *)
(* begins.                                                                 *)
Release(c) ==
  /\ spc = "peek" /\ IsTop(c) /\ left[c] <= 0
  /\ heap' = heap \ {c}
  /\ \/ spc' = "send" /\ job' = c /\ UNCHANGED <<left, timer, guarded>>
     \/ /\ c.type = "RR"
        /\ job' = NoCommand /\ left' = [left EXCEPT ![c] = 0]
        /\ EndIteration
  /\ UNCHANGED <<mailbox, notified, unseen, pending, cooldown, since>>

(* A command that is not due, or not yet at the time taken at the loop's   *)
(* start, is slept for, with the guard if there is one.                    *)
Sleep(c) ==
  /\ spc = "peek" /\ IsTop(c)
  /\ left[c] > 0 \/ (left[c] = 0 /\ c = unseen)
  /\ spc' = "sleep" /\ timer' = left[c]
  /\ UNCHANGED <<heap, job, left, mailbox, guarded, notified, unseen, pending,
                 cooldown, since>>

Wake ==
  /\ spc = "sleep"
  /\ \/ timer = 0 /\ UNCHANGED notified
     \/ notified /\ notified' = FALSE
  /\ EndIteration
  /\ UNCHANGED <<heap, job, left, mailbox, unseen, pending, cooldown, since>>

(* reschedule counts from now; the mutant from the old release time.       *)
NextRelease_FromRelease(c) == left[c] + Interval[c.type]
NextRelease(c) == Interval[c.type]

CompleteCommand ==
  /\ spc = "send"
  /\ IF job \in Periodic
     THEN /\ heap' = heap \cup {job}
          /\ left' = [left EXCEPT ![job] = NextRelease(job)]
          /\ since' = [since EXCEPT ![job] = 0]
     ELSE left' = [left EXCEPT ![job] = 0] /\ UNCHANGED <<heap, since>>
  /\ job' = NoCommand
  /\ EndIteration
  /\ UNCHANGED <<mailbox, notified, unseen, pending, cooldown>>

----------------------------------------------------------------------------
(* Commands whose release time counts.                                     *)
OnTheirWay == (heap \cup {job, mailbox, pending}) \ {NoCommand}

(* How long ago a command was triggered.                                   *)
Age(c) == ReleaseDelay(c) - left[c]

(* A unit of time goes by.                                                 *)
Tick ==
  /\ ~CanPut
  /\ \/ spc = "sleep" /\ timer > 0 /\ ~notified /\ timer' = timer - 1
     \/ spc = "send" /\ timer < MaxSend /\ timer' = timer + 1
  /\ left' = [c \in Command |-> IF c \in OnTheirWay THEN left[c] - 1 ELSE 0]
  /\ cooldown' = [c \in OneShot |-> IF cooldown[c] > 0 THEN cooldown[c] - 1 ELSE 0]
  /\ since' = [c \in Periodic |-> since[c] + 1]
  /\ UNCHANGED <<heap, job, mailbox, guarded, notified, unseen, spc, pending>>

Receiver == Put \/ \E c \in OneShot : Trigger(c)
Scheduler == \/ ReadNow \/ CheckMailbox \/ Wake \/ CompleteCommand
             \/ \E c \in Command : Release(c) \/ Sleep(c)

Next == Receiver \/ Scheduler \/ Tick

Spec == Init /\ [][Next]_vars

----------------------------------------------------------------------------
TypeOK ==
  /\ heap \subseteq Command /\ job \in Command \cup {NoCommand}
  /\ left \in [Command -> Int]
  /\ mailbox \in OneShot \cup {NoCommand} /\ guarded \in BOOLEAN
  /\ notified \in BOOLEAN /\ unseen \in OneShot \cup {NoCommand}
  /\ spc \in {"loop", "lock", "peek", "sleep", "send"}
  /\ timer \in Nat
  /\ pending \in OneShot \cup {NoCommand}
  /\ cooldown \in [OneShot -> Nat]
  /\ since \in [Periodic -> Nat]

(* A default command is never dispatched before its interval is over,      *)
(* however late it was before: the delays do not make it catch up.         *)
DefaultsSpaced ==
  \A c \in Periodic : job = c => since[c] >= Interval[c.type]

(* Only the top of the heap is looked at, so a re-request that is not due  *)
(* holds up the periodic commands that are; and they one after another.    *)
(* But each sensor's re-request (and loss of contact) does so once in a    *)
(* cooldown, so that no default command starves: it is this late at most.  *)
DefaultsDelayed == \A c \in Periodic : -left[c] <= DefaultTime

(* A loss of contact raised while the scheduler sleeps for a re-request    *)
(* with the mailbox locked waits for the lock, and for what is published   *)
(* before it: it is never later than that, whatever else is scheduled.     *)
UrgentDelayed ==
  \A s \in Sensor : LC(s) \in OnTheirWay => -left[LC(s)] <= UrgentTime

(* And the receiver, which handles and acknowledges no packet meanwhile,   *)
(* waits for the mailbox no longer than the sleep for a re-request takes,  *)
(* or two publishes if they take longer.                                   *)
ReceiverDelayed == pending # NoCommand => Age(pending) <= PutTime

(* A command is done with before its situation's cooldown is over, so that *)
(* there are never two of them: GroundControl takes this for granted.      *)
CooldownOutlives == \A c \in OneShot \cap OnTheirWay : cooldown[c] > 0

----------------------------------------------------------------------------
(* A loss of contact has a deadline of 400 ms (ground_service.rs:91), and  *)
(* the sleep is to end when a command is added: "Notified has been         *)
(* received, new command has been added" (scheduler.rs:267).               *)
UrgentMeetsDeadline ==
  \A s \in Sensor : LC(s) \in OnTheirWay => -left[LC(s)] <= UrgentDeadline

=============================================================================
