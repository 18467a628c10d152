------------------------- MODULE CommandDelayProofs -------------------------
(***************************************************************************)
(* Proofs about CommandTiming: every delay is bounded.  The bounds hold    *)
(* each other up: a triggered command is on its way for less than its      *)
(* cooldown because few others are before it, and few are before it        *)
(* because each situation triggers once in a cooldown.  So they are one    *)
(* inductive invariant, IInv.                                              *)
(***************************************************************************)
EXTENDS CommandTimingProofs, FiniteSetTheorems

N == Cardinality(Sensor)
Publishes(k) == k * MaxSend
Waits(k) == k * ReRequestDelay

----------------------------------------------------------------------------
(* A command is in one place only.                                         *)
OnePlace ==
  /\ job \notin heap /\ mailbox \notin heap /\ pending \notin heap
  /\ job # NoCommand => job # mailbox /\ job # pending
  /\ mailbox # NoCommand => mailbox # pending

(* What the scheduler's step says about the lock, the timer, the permit.   *)
StepInv ==
  /\ guarded => mailbox = NoCommand /\ spc \in {"peek", "sleep", "send"}
  /\ job # NoCommand <=> spc = "send"
  /\ spc \in {"loop", "lock", "peek"} => timer = 0
  /\ spc = "send" => timer <= MaxSend
  /\ mailbox # NoCommand /\ spc \in {"peek", "sleep"} => notified

(* Defaults are scheduled always and sent when nothing else is; what made  *)
(* the scheduler keep the lock is in the heap; it sleeps for the top.      *)
HeapInv ==
  /\ Periodic \subseteq heap \cup {job}
  /\ job \in Periodic => heap \cap OneShot = {}
  /\ guarded /\ spc \in {"peek", "sleep"} => heap \cap OneShot # {}
  /\ spc = "sleep" => \E c \in heap : IsTop(c) /\ left[c] = timer

(* A cooldown starts when its command's release delay does.                *)
AgeInv ==
  \A c \in OneShot \cap OnTheirWay : /\ Age(c) \in Nat
                                     /\ cooldown[c] = Cooldown - Age(c)

Sending == IF spc = "send" THEN timer ELSE 0
SendLeft == IF spc = "send" THEN MaxSend - timer ELSE 0

(* How long a command has been in the mailbox: up to a publish, for the    *)
(* scheduler does not sleep on with a permit.                              *)
MailboxInv ==
  mailbox # NoCommand =>
    Age(mailbox) <= PutTime + (IF spc \in {"loop", "lock"} THEN MaxSend ELSE Sending)

(* How long a command waits for the mailbox, while it is full ...          *)
WaitsForRoom ==
  pending # NoCommand /\ mailbox # NoCommand =>
    /\ Age(pending) <= IF spc \in {"loop", "lock"} THEN MaxSend ELSE Sending
    /\ mailbox.type = "RR" => left[mailbox] + Age(pending) <= ReRequestDelay

(* ... and while the scheduler keeps the lock to look at the heap, to      *)
(* publish, or to sleep.                                                   *)
WaitsForLock ==
  pending # NoCommand /\ guarded =>
    /\ spc = "peek" =>
         /\ Age(pending) <= MaxSend
         /\ \E c \in heap \cap OneShot :
              c.type = "LC" \/ left[c] + Age(pending) <= ReRequestDelay
    /\ spc = "send" => Age(pending) <= MaxSend + timer
    /\ spc = "sleep" => \/ timer = 0 /\ Age(pending) <= MaxSend
                        \/ timer + Age(pending) <= ReRequestDelay

PendingInv == /\ WaitsForRoom /\ WaitsForLock
              /\ CanPut => Age(pending) <= PutTime

(* The losses of contact before that of s, and how long those and its own  *)
(* take.                                                                   *)
AheadOf(s) == {t \in Sensor \ {s} : /\ LC(t) \in heap \cup {mailbox, pending}
                                    /\ left[LC(t)] <= left[LC(s)]}
Turn(s) == Publishes(Cardinality(AheadOf(s)) + 1)

(* What is left of a loss of contact's way, wherever it is, fits.          *)
UrgentInv ==
  \A s \in Sensor :
    /\ LC(s) \in heap => Turn(s) + SendLeft - left[LC(s)] <= UrgentTime
    /\ LC(s) = job => MaxSend - timer - left[LC(s)] <= UrgentTime
    /\ LC(s) = mailbox =>
         Turn(s) + (IF spc = "peek" THEN MaxSend ELSE SendLeft) - left[LC(s)]
           <= UrgentTime
    /\ LC(s) = pending /\ CanPut => Turn(s) + MaxSend - left[LC(s)] <= UrgentTime
    /\ LC(s) = pending /\ guarded /\ spc \in {"sleep", "send"} =>
         Turn(s) + MaxSend + (IF spc = "send" THEN SendLeft ELSE timer)
           - left[LC(s)] <= UrgentTime

(* The one-shot commands done with since c is due: their cooldowns were    *)
(* not nearly over then, so they are not triggered again while c waits.    *)
Done(c) == {d \in OneShot \ {c} : /\ d \notin OnTheirWay
                                  /\ cooldown[d] >= Cooldown - OneShotTime + left[c]}
DoneRequests(c) == {d \in Done(c) : d.type = "RR"}

(* A re-request that is due waits for publishes of other one-shots only.   *)
RequestInv ==
  \A c \in OneShot : c.type = "RR" =>
    /\ c \in heap /\ left[c] <= 0 =>
         Age(c) <= PutTime + MaxSend + Publishes(Cardinality(Done(c))) + Sending
    /\ c = job => Age(c) <= PutTime + Publishes(2 * N) + timer

(* A default that is due waits for each re-request's delay and publish,    *)
(* for each loss of contact's publish, and for the other defaults, that    *)
(* are released later than it once they are rescheduled.                   *)
Behind(c) == {d \in Periodic \ {c} : d \in heap /\ left[d] > left[c]}
Waited(c) == Waits(Cardinality(DoneRequests(c))) + Publishes(Cardinality(Done(c)))
             + Publishes(Cardinality(Behind(c))) + Sending

HeldUp(c, d) == /\ d \in heap \cup {job} /\ d \in OneShot /\ d.type = "RR"
                /\ -left[c] <= Waited(c) + ReRequestDelay
                /\ -left[c] <= Waited(c) + ReRequestDelay - left[d]

DefaultInv ==
  \A c \in Periodic :
    /\ c \in heap /\ left[c] <= 0 =>
         -left[c] <= Waited(c) \/ \E d \in OneShot : HeldUp(c, d)
    /\ c = job => -left[c] <= DefaultTime - MaxSend + timer

IInv == /\ OnePlace /\ StepInv /\ HeapInv /\ AgeInv
        /\ MailboxInv /\ PendingInv /\ UrgentInv /\ RequestInv /\ DefaultInv

----------------------------------------------------------------------------
(* Arithmetic of the bounds; every multiplication is here.                 *)
LEMMA PublishesTake ==
  /\ \A k \in Nat : /\ Publishes(k) \in Nat
                    /\ Publishes(k + 1) = Publishes(k) + MaxSend
  /\ \A j, k \in Nat : j <= k => Publishes(j) <= Publishes(k)
<1> USE TimeAssumption DEF Publishes
<1>1. \A k \in Nat : k * MaxSend \in Nat
  OBVIOUS
<1>2. \A k \in Nat : (k + 1) * MaxSend = k * MaxSend + MaxSend
  OBVIOUS
<1>3. \A j, d \in Nat : (j + d) * MaxSend = j * MaxSend + d * MaxSend
  OBVIOUS
<1>4. ASSUME NEW j \in Nat, NEW k \in Nat, j <= k
      PROVE  j * MaxSend <= k * MaxSend
  <2>1. k - j \in Nat /\ j + (k - j) = k
    BY <1>4
  <2>2. k * MaxSend = j * MaxSend + (k - j) * MaxSend
    BY <2>1, <1>3
  <2> HIDE DEF Publishes
  <2> QED
    BY <2>1, <2>2, <1>1
<1> QED
  BY <1>1, <1>2, <1>4

LEMMA WaitsTake ==
  /\ \A k \in Nat : /\ Waits(k) \in Nat
                    /\ Waits(k + 1) = Waits(k) + ReRequestDelay
  /\ \A j, k \in Nat : j <= k => Waits(j) <= Waits(k)
<1> USE TimeAssumption DEF Waits
<1>1. \A k \in Nat : k * ReRequestDelay \in Nat
  OBVIOUS
<1>2. \A k \in Nat : (k + 1) * ReRequestDelay = k * ReRequestDelay + ReRequestDelay
  OBVIOUS
<1>3. \A j, d \in Nat :
        (j + d) * ReRequestDelay = j * ReRequestDelay + d * ReRequestDelay
  OBVIOUS
<1>4. ASSUME NEW j \in Nat, NEW k \in Nat, j <= k
      PROVE  j * ReRequestDelay <= k * ReRequestDelay
  <2>1. k - j \in Nat /\ j + (k - j) = k
    BY <1>4
  <2>2. k * ReRequestDelay = j * ReRequestDelay + (k - j) * ReRequestDelay
    BY <2>1, <1>3
  <2> QED
    BY <2>1, <2>2, <1>1
<1> QED
  BY <1>1, <1>2, <1>4

LEMMA Counts == N \in Nat /\ Cardinality(Default) \in Nat
  BY FiniteAssumption, FS_CardinalityType DEF N

LEMMA Bounds ==
  /\ PutTime \in Nat /\ UrgentTime \in Nat /\ DefaultTime \in Nat
  /\ OneShotTime \in Nat
  /\ ReRequestDelay <= PutTime /\ 2 * MaxSend <= PutTime
  /\ ReRequestDelay + 2 * MaxSend <= UrgentTime
  /\ Publishes(N) + 3 * MaxSend <= UrgentTime
  /\ OneShotTime = PutTime + Publishes(2 * N) + MaxSend
  /\ N > 0 => UrgentTime <= OneShotTime
  /\ DefaultTime = Waits(N) + Publishes(2 * N) + Publishes(Cardinality(Default))
<1> DEFINE n == N
           m == MaxSend
           d == ReRequestDelay
           e == Cardinality(Default)
<1>1. n \in Nat /\ m \in Nat /\ d \in Nat /\ e \in Nat
  BY Counts, TimeAssumption
<1>2. n * m \in Nat /\ e * m \in Nat /\ n * d \in Nat
  BY <1>1
<1>3. /\ (n + 1) * m = n * m + m /\ (2 * n + 1) * m = n * m + n * m + m
      /\ (2 * n) * m = n * m + n * m
      /\ n * (d + 2 * m) = n * d + n * m + n * m
  BY <1>1
<1>4. n > 0 => m <= n * m
  BY <1>1, PublishesTake DEF Publishes
<1> DEFINE nm == n * m
           em == e * m
           nd == n * d
<1>5. /\ PutTime = Longer(d, 2 * m)
      /\ UrgentTime = Longer(d, nm + m) + 2 * m
      /\ OneShotTime = PutTime + nm + nm + m
      /\ DefaultTime = nd + nm + nm + em
  <2>1. PutTime = Longer(d, 2 * m)
    BY DEF PutTime
  <2>2. UrgentTime = Longer(d, (n + 1) * m) + 2 * m
    BY DEF UrgentTime, N
  <2>3. OneShotTime = PutTime + (2 * n + 1) * m
    BY DEF OneShotTime, N
  <2>4. DefaultTime = n * (d + 2 * m) + e * m
    BY DEF DefaultTime, N
  <2>5. UrgentTime = Longer(d, nm + m) + 2 * m
    BY <1>3, <2>2
  <2>6. OneShotTime = PutTime + nm + nm + m
    <3>1. PutTime \in Int
      BY <2>1, <1>1 DEF Longer
    <3> QED
      BY <1>1, <1>2, <1>3, <2>3, <3>1
  <2>7. DefaultTime = nd + nm + nm + em
    BY <1>3, <2>4
  <2> QED
    BY <2>1, <2>5, <2>6, <2>7
<1>6. /\ Publishes(N) = nm /\ Publishes(2 * N) = nm + nm
      /\ Waits(N) = nd /\ Publishes(Cardinality(Default)) = em
  BY <1>3 DEF Publishes, Waits
<1>7. n > 0 => m <= nm
  BY <1>4
<1>8. nm \in Nat /\ em \in Nat /\ nd \in Nat
  BY <1>2
<1> HIDE DEF nm, em, nd
<1> QED
  BY <1>1, <1>5, <1>6, <1>7, <1>8 DEF Longer

----------------------------------------------------------------------------
(* The commands and their priorities.                                      *)
LEMMA Commands ==
  /\ NoCommand \notin Command /\ Periodic \cap OneShot = {}
  /\ \A c \in Periodic : /\ c \in Command /\ priority(c) = 1
                         /\ c.type \notin {"RR", "LC"}
  /\ \A c \in OneShot : /\ c \in Command /\ c \notin Periodic
                        /\ c.type = "RR" => /\ priority(c) = 3
                                            /\ ReleaseDelay(c) = ReRequestDelay
                        /\ c.type = "LC" => /\ priority(c) = 5
                                            /\ ReleaseDelay(c) = 0
                                            /\ c.sensor \in Sensor /\ c = LC(c.sensor)
                        /\ c.type \in {"RR", "LC"}
  /\ \A s \in Sensor : LC(s) \in OneShot /\ LC(s).type = "LC"
  /\ \A s, t \in Sensor : LC(s) = LC(t) => s = t
<1>1. \A c \in Periodic : c.type \notin {"RR", "LC"}
  BY DefaultAssumption DEF Periodic
<1>2. \A c \in OneShot : c.type \in {"RR", "LC"} /\ c.sensor \in Sensor
  BY DEF OneShot
<1>3. \A c \in Periodic : priority(c) = 1
  BY <1>1 DEF priority
<1>4. \A c \in OneShot : /\ c.type = "RR" => priority(c) = 3
                         /\ c.type = "LC" => priority(c) = 5
  BY DEF priority
<1>5. \A c \in OneShot : c.type = "LC" => c = LC(c.sensor)
  BY DEF OneShot, LC
<1>6. \A s \in Sensor : LC(s) \in OneShot /\ LC(s).type = "LC" /\ LC(s).sensor = s
  BY DEF OneShot, LC
<1>7. \A c \in OneShot :
        ReleaseDelay(c) = IF c.type = "RR" THEN ReRequestDelay ELSE 0
  BY DEF ReleaseDelay
<1>8. /\ \A c \in Periodic : c \in Command
      /\ \A c \in OneShot : c \in Command /\ c \notin Periodic
  BY KindsDiffer DEF Command
<1> HIDE DEF Command, Periodic, OneShot, LC, priority, ReleaseDelay
<1>9. ASSUME NEW c \in OneShot
      PROVE  /\ c \in Command /\ c \notin Periodic
             /\ c.type = "RR" => /\ priority(c) = 3
                                 /\ ReleaseDelay(c) = ReRequestDelay
             /\ c.type = "LC" => /\ priority(c) = 5
                                 /\ ReleaseDelay(c) = 0
                                 /\ c.sensor \in Sensor /\ c = LC(c.sensor)
             /\ c.type \in {"RR", "LC"}
  <2>1. /\ c.type = "LC" => ReleaseDelay(c) = 0
        /\ c.type = "RR" => ReleaseDelay(c) = ReRequestDelay
    BY <1>7
  <2>2. c \in Command /\ c \notin Periodic /\ c.type \in {"RR", "LC"}
        /\ c.sensor \in Sensor
    BY <1>2, <1>8
  <2>3. c.type = "LC" => c = LC(c.sensor)
    BY <1>5
  <2>4. /\ c.type = "RR" => priority(c) = 3
        /\ c.type = "LC" => priority(c) = 5
    BY <1>4
  <2> QED
    BY <2>1, <2>2, <2>3, <2>4
<1>10. \A s, t \in Sensor : LC(s) = LC(t) => s = t
  BY <1>6
<1> QED
  BY <1>1, <1>3, <1>6, <1>8, <1>9, <1>10, KindsDiffer

(* There are two one-shots to a sensor, one of them a re-request.          *)
LEMMA OneShotCount ==
  /\ IsFiniteSet(OneShot) /\ Cardinality(OneShot) <= 2 * N
  /\ LET Requests == {c \in OneShot : c.type = "RR"}
     IN  IsFiniteSet(Requests) /\ Cardinality(Requests) <= N
<1> DEFINE Requests == {[type |-> "RR", sensor |-> s] : s \in Sensor}
           Losses == {[type |-> "LC", sensor |-> s] : s \in Sensor}
<1>1. IsFiniteSet(Requests) /\ Cardinality(Requests) <= N
  <2> DEFINE f == [c \in Requests |-> c.sensor]
  <2>1. f \in Injection(Requests, Sensor)
    BY DEF Injection, IsInjective
  <2> QED
    BY <2>1, FS_Injection, FiniteAssumption DEF N
<1>2. IsFiniteSet(Losses) /\ Cardinality(Losses) <= N
  <2> DEFINE f == [c \in Losses |-> c.sensor]
  <2>1. f \in Injection(Losses, Sensor)
    BY DEF Injection, IsInjective
  <2> QED
    BY <2>1, FS_Injection, FiniteAssumption DEF N
<1>3. OneShot = Requests \cup Losses
  <2>1. ASSUME NEW c \in OneShot PROVE c \in Requests \cup Losses
    <3>1. c = [type |-> c.type, sensor |-> c.sensor] /\ c.sensor \in Sensor
          /\ c.type \in {"RR", "LC"}
      BY DEF OneShot
    <3> QED
      BY <3>1
  <2>2. ASSUME NEW s \in Sensor
        PROVE  /\ [type |-> "RR", sensor |-> s] \in OneShot
               /\ [type |-> "LC", sensor |-> s] \in OneShot
    BY DEF OneShot
  <2> QED
    BY <2>1, <2>2
<1>4. Requests = {c \in OneShot : c.type = "RR"}
  BY DEF OneShot
<1>5. Cardinality(Requests \cap Losses) \in Nat
  BY <1>1, FS_Subset, FS_CardinalityType
<1>6. IsFiniteSet(OneShot) /\ Cardinality(OneShot)
        = Cardinality(Requests) + Cardinality(Losses) - Cardinality(Requests \cap Losses)
  BY <1>1, <1>2, <1>3, FS_Union
<1>7. Cardinality(Requests) \in Nat /\ Cardinality(Losses) \in Nat
  BY <1>1, <1>2, FS_CardinalityType
<1> HIDE DEF Requests, Losses
<1> QED
  BY <1>1, <1>2, <1>4, <1>5, <1>6, <1>7, Counts

LEMMA PeriodicCount ==
  IsFiniteSet(Periodic) /\ Cardinality(Periodic) <= Cardinality(Default)
<1> DEFINE f == [c \in Periodic |-> c.type]
<1>1. f \in Injection(Periodic, Default)
  BY DEF Injection, IsInjective, Periodic
<1> QED
  BY <1>1, FS_Injection, FiniteAssumption

(* What a set of others leaves room for.                                   *)
LEMMA OthersCount ==
  ASSUME NEW S, IsFiniteSet(S), NEW x \in S, NEW T \in SUBSET (S \ {x})
  PROVE  /\ IsFiniteSet(T) /\ Cardinality(T) \in Nat
         /\ Cardinality(T) + 1 <= Cardinality(S)
         /\ Cardinality(S) \in Nat
<1>1. IsFiniteSet(S \ {x}) /\ Cardinality(S \ {x}) = Cardinality(S) - 1
  BY FS_RemoveElement
<1>2. IsFiniteSet(T) /\ Cardinality(T) <= Cardinality(S \ {x})
  BY <1>1, FS_Subset
<1> QED
  BY <1>1, <1>2, FS_CardinalityType

(* A set that gains an element counts one more, a larger set no less.      *)
LEMMA OneMore ==
  ASSUME NEW T, IsFiniteSet(T), NEW S \in SUBSET T, NEW x \in T, x \notin S
  PROVE  Cardinality(S) \in Nat /\ Cardinality(T) \in Nat
         /\ Cardinality(S) + 1 <= Cardinality(T)
<1>1. S \in SUBSET (T \ {x})
  OBVIOUS
<1> QED
  BY <1>1, OthersCount

LEMMA NoFewer ==
  ASSUME NEW T, IsFiniteSet(T), NEW S \in SUBSET T
  PROVE  Cardinality(S) \in Nat /\ Cardinality(T) \in Nat
         /\ Cardinality(S) <= Cardinality(T)
  BY FS_Subset, FS_CardinalityType

(* What being the top says about the others in the heap.                   *)
LEMMA TopFacts ==
  ASSUME heap \subseteq Command, NEW c, IsTop(c), NEW d \in heap
  PROVE  /\ c \in heap
         /\ d \in OneShot => c \in OneShot
         /\ d \in OneShot /\ d.type = "LC" => c.type = "LC"
         /\ c \in Periodic => d \in Periodic
         /\ c \in Periodic /\ d \in Periodic => left[c] <= left[d]
         /\ c \in OneShot /\ d \in OneShot /\ c.type = d.type => left[c] <= left[d]
<1>1. /\ c \in heap
      /\ \/ priority(d) < priority(c)
         \/ priority(d) = priority(c) /\ left[c] <= left[d]
  BY DEF IsTop
<1>2. \A e \in heap : e \in Periodic \/ e \in OneShot
  BY DEF Command
<1>3. \A e \in Periodic : priority(e) = 1
  BY Commands
<1>4. \A e \in OneShot : \/ e.type = "RR" /\ priority(e) = 3
                         \/ e.type = "LC" /\ priority(e) = 5
  BY Commands
<1> QED
  BY <1>1, <1>2, <1>3, <1>4

(* While the scheduler sleeps, what is it sleeping for?                    *)
LEMMA SleepFacts ==
  ASSUME TypeOK, HeapInv, AgeInv, spc = "sleep"
  PROVE  /\ \A c \in heap \cap OneShot : timer = 0 \/ timer <= left[c]
         /\ \A c \in heap \cap OneShot : c.type = "LC" => timer = 0
         /\ guarded => timer <= ReRequestDelay
         /\ \A c \in heap \cap Periodic : timer > 0 /\ left[c] < timer =>
              \E d \in heap \cap OneShot : d.type = "RR" /\ left[d] = timer
<1>1. PICK c \in heap : IsTop(c) /\ left[c] = timer
  BY DEF HeapInv
<1>2. heap \subseteq Command /\ timer \in Nat /\ left \in [Command -> Int]
  BY DEF TypeOK
<1>3. c \in OneShot => left[c] <= ReleaseDelay(c)
  <2> SUFFICES ASSUME c \in OneShot PROVE left[c] <= ReleaseDelay(c)
    OBVIOUS
  <2>1. c \in OnTheirWay /\ c \in Command
    BY <1>2, Commands DEF OnTheirWay
  <2>2. Age(c) \in Nat /\ ReleaseDelay(c) \in Nat /\ left[c] \in Int
    BY <1>2, <2>1, DelayIsNat DEF AgeInv
  <2> QED
    BY <2>2 DEF Age
<1>4. c \in OneShot => \/ c.type = "LC" /\ timer = 0
                       \/ c.type = "RR" /\ timer <= ReRequestDelay
  BY <1>1, <1>2, <1>3, Commands
<1>5. \A d \in heap \cap OneShot : timer = 0 \/ timer <= left[d]
  <2> SUFFICES ASSUME NEW d \in heap, d \in OneShot
               PROVE  timer = 0 \/ timer <= left[d]
    OBVIOUS
  <2>1. c \in OneShot /\ (d.type = "LC" => c.type = "LC")
        /\ (c.type = d.type => left[c] <= left[d])
    BY <1>1, <1>2, TopFacts
  <2>2. d.type \in {"RR", "LC"}
    BY Commands
  <2> QED
    BY <2>1, <2>2, <1>1, <1>4
<1>6. \A d \in heap \cap OneShot : d.type = "LC" => timer = 0
  BY <1>1, <1>2, <1>4, TopFacts
<1>7. guarded => timer <= ReRequestDelay
  <2> SUFFICES ASSUME guarded PROVE timer <= ReRequestDelay
    OBVIOUS
  <2>1. PICK d \in heap : d \in OneShot
    BY DEF HeapInv
  <2>2. c \in OneShot
    BY <2>1, <1>1, <1>2, TopFacts
  <2> QED
    BY <2>2, <1>4, TimeAssumption
<1>8. ASSUME NEW d \in heap, d \in Periodic, timer > 0, left[d] < timer
      PROVE  c \in OneShot /\ c.type = "RR"
  <2>1. c \notin Periodic
    BY <1>1, <1>2, <1>8, TopFacts
  <2> QED
    BY <2>1, <1>1, <1>2, <1>4, <1>8 DEF Command
<1> QED
  BY <1>1, <1>5, <1>6, <1>7, <1>8

(* The receiver waits no longer than the sleep for a re-request, or two    *)
(* publishes; a loss of contact is late by no more than UrgentTime; and    *)
(* whatever is triggered is done with before its cooldown is over.         *)
DelaysBounded ==
  /\ ReceiverDelayed /\ UrgentDelayed
  /\ \A c \in OneShot \cap OnTheirWay :
       Age(c) <= OneShotTime /\ cooldown[c] >= Cooldown - OneShotTime

LEMMA PendingBounded == TypeOK /\ StepInv /\ PendingInv => ReceiverDelayed
<1> SUFFICES ASSUME TypeOK, StepInv, PendingInv, pending # NoCommand
             PROVE  Age(pending) <= PutTime
  BY DEF ReceiverDelayed
<1> DEFINE a == Age(pending)
<1>1. pending \in OneShot /\ pending \in Command
  BY Commands DEF TypeOK
<1>2. a \in Int /\ timer \in Nat
  BY <1>1, DelayIsNat DEF TypeOK, Age
<1>3. CASE mailbox # NoCommand
  <2>1. a <= IF spc \in {"loop", "lock"} THEN MaxSend ELSE Sending
    BY <1>3 DEF PendingInv, WaitsForRoom
  <2>2. Sending <= MaxSend
    BY TimeAssumption DEF Sending, StepInv
  <2> QED
    BY <1>2, <2>1, <2>2, Bounds, TimeAssumption DEF Sending
<1>4. CASE guarded
  <2>1. /\ spc = "peek" => a <= MaxSend
        /\ spc = "send" => a <= MaxSend + timer
        /\ spc = "sleep" => a <= MaxSend \/ timer + a <= ReRequestDelay
    BY <1>4 DEF PendingInv, WaitsForLock
  <2>2. spc \in {"peek", "sleep", "send"} /\ (spc = "send" => timer <= MaxSend)
    BY <1>4 DEF StepInv
  <2> QED
    BY <1>2, <2>1, <2>2, Bounds, TimeAssumption
<1> QED
  BY <1>3, <1>4 DEF PendingInv, CanPut

LEMMA TurnOf ==
  ASSUME NEW s \in Sensor, NEW A \in SUBSET (Sensor \ {s})
  PROVE  /\ IsFiniteSet(A) /\ Cardinality(A) \in Nat
         /\ Publishes(Cardinality(A) + 1) \in Nat
         /\ MaxSend <= Publishes(Cardinality(A) + 1)
         /\ Publishes(Cardinality(A) + 1) <= Publishes(N)
         /\ Publishes(N) \in Nat
<1>1. IsFiniteSet(A) /\ Cardinality(A) \in Nat /\ Cardinality(A) + 1 <= N
  BY OthersCount, FiniteAssumption DEF N
<1>2. /\ Publishes(Cardinality(A)) \in Nat /\ Publishes(N) \in Nat
      /\ Publishes(Cardinality(A) + 1) = Publishes(Cardinality(A)) + MaxSend
      /\ Publishes(Cardinality(A) + 1) \in Nat
  BY <1>1, PublishesTake, Counts
<1>3. Publishes(Cardinality(A) + 1) <= Publishes(N)
  BY <1>1, PublishesTake, Counts
<1> QED
  BY <1>1, <1>2, <1>3, TimeAssumption

LEMMA TurnType ==
  ASSUME NEW s \in Sensor
  PROVE  Turn(s) \in Nat /\ MaxSend <= Turn(s)
<1>1. AheadOf(s) \in SUBSET (Sensor \ {s})
  BY DEF AheadOf
<1> QED
  BY <1>1, TurnOf DEF Turn

LEMMA DoneType ==
  ASSUME NEW c
  PROVE  /\ IsFiniteSet(Done(c)) /\ Cardinality(Done(c)) \in Nat
         /\ Cardinality(Done(c)) <= 2 * N
         /\ c \in OneShot => Cardinality(Done(c)) + 1 <= 2 * N
         /\ IsFiniteSet(DoneRequests(c)) /\ Cardinality(DoneRequests(c)) \in Nat
         /\ Cardinality(DoneRequests(c)) <= N
<1>1. Done(c) \in SUBSET (OneShot \ {c}) /\ Done(c) \in SUBSET OneShot
  BY DEF Done
<1>2. DoneRequests(c) \in SUBSET {d \in OneShot : d.type = "RR"}
  BY <1>1 DEF DoneRequests
<1>3. /\ IsFiniteSet(Done(c)) /\ Cardinality(Done(c)) \in Nat
      /\ Cardinality(Done(c)) <= Cardinality(OneShot)
      /\ Cardinality(OneShot) \in Nat
  BY <1>1, OneShotCount, FS_Subset, FS_CardinalityType
<1>4. c \in OneShot => Cardinality(Done(c)) + 1 <= Cardinality(OneShot)
  BY <1>1, OneShotCount, OthersCount
<1>5. /\ IsFiniteSet(DoneRequests(c)) /\ Cardinality(DoneRequests(c)) \in Nat
      /\ Cardinality(DoneRequests(c))
           <= Cardinality({d \in OneShot : d.type = "RR"})
      /\ Cardinality({d \in OneShot : d.type = "RR"}) \in Nat
  BY <1>2, OneShotCount, FS_Subset, FS_CardinalityType
<1> QED
  BY <1>3, <1>4, <1>5, OneShotCount, Counts

LEMMA UrgentBounded ==
  TypeOK /\ StepInv /\ HeapInv /\ PendingInv /\ UrgentInv => UrgentDelayed
<1> SUFFICES ASSUME TypeOK, StepInv, HeapInv, PendingInv, UrgentInv,
                    NEW s \in Sensor, LC(s) \in OnTheirWay
             PROVE  -left[LC(s)] <= UrgentTime
  BY DEF UrgentDelayed
<1> DEFINE c == LC(s)
<1>1. c \in OneShot /\ c \in Command /\ ReleaseDelay(c) = 0
  BY Commands
<1>2. left[c] \in Int /\ timer \in Nat /\ Age(c) = -left[c]
  BY <1>1 DEF TypeOK, Age
<1>3. Turn(s) \in Nat /\ MaxSend \in Nat /\ UrgentTime \in Nat
      /\ MaxSend <= UrgentTime
  BY TurnType, TimeAssumption, Bounds
<1>4. SendLeft \in Nat
  BY <1>2, <1>3 DEF SendLeft, StepInv
<1>5. CASE c \in heap
  <2>1. Turn(s) + SendLeft - left[c] <= UrgentTime
    BY <1>5 DEF UrgentInv
  <2> QED
    BY <2>1, <1>2, <1>3, <1>4
<1>6. CASE c = job
  <2>1. MaxSend - timer - left[c] <= UrgentTime
    BY <1>6 DEF UrgentInv
  <2>2. timer <= MaxSend
    BY <1>1, <1>6, Commands DEF StepInv
  <2> QED
    BY <2>1, <2>2, <1>2, <1>3
<1>7. CASE c = mailbox
  <2>1. Turn(s) + (IF spc = "peek" THEN MaxSend ELSE SendLeft) - left[c] <= UrgentTime
    BY <1>7 DEF UrgentInv
  <2> QED
    BY <2>1, <1>2, <1>3, <1>4
<1>8. CASE c = pending
  <2>1. CASE CanPut
    <3>1. Turn(s) + MaxSend - left[c] <= UrgentTime
      BY <1>8, <2>1 DEF UrgentInv
    <3> QED
      BY <3>1, <1>2, <1>3
  <2>2. CASE mailbox # NoCommand
    <3>1. Age(c) <= IF spc \in {"loop", "lock"} THEN MaxSend ELSE Sending
      BY <1>1, <1>8, <2>2, Commands DEF PendingInv, WaitsForRoom
    <3>2. Sending <= MaxSend
      BY <1>3 DEF Sending, StepInv
    <3> QED
      BY <3>1, <3>2, <1>2, <1>3 DEF Sending
  <2>3. CASE guarded
    <3>1. CASE spc = "peek"
      <4>1. Age(c) <= MaxSend
        BY <1>1, <1>8, <2>3, <3>1, Commands DEF PendingInv, WaitsForLock
      <4> QED
        BY <4>1, <1>2, <1>3
    <3>2. CASE spc \in {"sleep", "send"}
      <4>1. Turn(s) + MaxSend + (IF spc = "send" THEN SendLeft ELSE timer)
              - left[c] <= UrgentTime
        BY <1>8, <2>3, <3>2 DEF UrgentInv
      <4> QED
        BY <4>1, <1>2, <1>3, <1>4
    <3> QED
      BY <2>3, <3>1, <3>2 DEF StepInv
  <2> QED
    BY <1>1, <1>8, <2>1, <2>2, <2>3, Commands DEF CanPut
<1> QED
  BY <1>1, <1>5, <1>6, <1>7, <1>8 DEF OnTheirWay

LEMMA DelaysAreBounded == TypeOK /\ IInv => DelaysBounded
<1> SUFFICES ASSUME TypeOK, IInv PROVE DelaysBounded
  OBVIOUS
<1>1. ReceiverDelayed /\ UrgentDelayed
  BY PendingBounded, UrgentBounded DEF IInv
<1> SUFFICES \A c \in OneShot \cap OnTheirWay : Age(c) <= OneShotTime
  <2>1. \A c \in OneShot \cap OnTheirWay : /\ Age(c) \in Nat
                                           /\ cooldown[c] = Cooldown - Age(c)
    BY DEF IInv, AgeInv
  <2> QED
    BY <1>1, <2>1, TimeAssumption, Bounds DEF DelaysBounded
<1> SUFFICES ASSUME NEW c \in OneShot, c \in OnTheirWay
             PROVE  Age(c) <= OneShotTime
  OBVIOUS
<1>2. /\ c \in Command /\ c # NoCommand /\ left[c] \in Int /\ timer \in Nat
      /\ Age(c) \in Int /\ MaxSend \in Nat
  BY Commands, DelayIsNat, TimeAssumption DEF TypeOK, Age
<1>3. Sending \in Nat /\ Sending <= MaxSend
  BY <1>2 DEF Sending, IInv, StepInv
<1>4. PutTime \in Nat /\ Publishes(2 * N) \in Nat /\ OneShotTime \in Nat
      /\ PutTime + MaxSend <= OneShotTime
  BY Bounds, PublishesTake, Counts, <1>2
<1>5. CASE c.type = "LC"
  <2>1. c.sensor \in Sensor /\ c = LC(c.sensor) /\ ReleaseDelay(c) = 0
    BY <1>5, Commands
  <2>2. N > 0
    BY <2>1, FS_EmptySet, Counts, FiniteAssumption DEF N
  <2>3. -left[c] <= UrgentTime
    BY <1>1, <2>1 DEF UrgentDelayed
  <2> QED
    BY <2>1, <2>2, <2>3, <1>2, Bounds DEF Age
<1>6. CASE c.type = "RR"
  <2>1. CASE c = pending
    BY <1>1, <1>2, <1>4, <2>1 DEF ReceiverDelayed
  <2>2. CASE c = mailbox
    <3>1. Age(c) <= PutTime + (IF spc \in {"loop", "lock"} THEN MaxSend ELSE Sending)
      BY <1>2, <2>2 DEF IInv, MailboxInv
    <3> QED
      BY <3>1, <1>2, <1>3, <1>4
  <2>3. CASE c = job
    <3>1. Age(c) <= PutTime + Publishes(2 * N) + timer
      BY <1>6, <2>3 DEF IInv, RequestInv
    <3>2. timer <= MaxSend
      BY <1>2, <2>3 DEF IInv, StepInv
    <3> QED
      BY <3>1, <3>2, <1>2, <1>4, Bounds
  <2>4. CASE c \in heap /\ left[c] > 0
    BY <1>2, <1>4, <1>6, <2>4, Commands, Bounds, TimeAssumption DEF Age
  <2>5. CASE c \in heap /\ left[c] <= 0
    <3> DEFINE k == Cardinality(Done(c))
    <3>1. Age(c) <= PutTime + MaxSend + Publishes(k) + Sending
      BY <1>6, <2>5 DEF IInv, RequestInv
    <3>2. k \in Nat /\ k + 1 <= 2 * N
      BY DoneType
    <3>3. Publishes(k) \in Nat /\ Publishes(k) + MaxSend <= Publishes(2 * N)
      BY <3>2, PublishesTake, Counts
    <3> HIDE DEF k
    <3> QED
      BY <3>1, <3>3, <1>2, <1>3, <1>4, Bounds
  <2> QED
    BY <1>2, <2>1, <2>2, <2>3, <2>4, <2>5 DEF OnTheirWay
<1> QED
  BY <1>5, <1>6, Commands

(* So what triggers is nowhere on its way, and what is done with stays     *)
(* done with while something is late.                                      *)
LEMMA TriggersOnce ==
  ASSUME TypeOK, IInv, NEW c \in OneShot, cooldown[c] = 0
  PROVE  c \notin OnTheirWay
<1>1. OneShotTime \in Nat /\ Cooldown \in Nat /\ Cooldown > 2 * OneShotTime
  BY Bounds, TimeAssumption, CooldownAssumption
<1> QED
  BY <1>1, DelaysAreBounded DEF DelaysBounded

----------------------------------------------------------------------------
(* A command moves from one place to the next.                             *)
LEMMA OnePlaceStep == TypeOK /\ IInv /\ [Next]_vars => OnePlace'
<1> SUFFICES ASSUME TypeOK, IInv, [Next]_vars PROVE OnePlace'
  OBVIOUS
<1>a. NoCommand \notin heap /\ heap \subseteq Command
  BY Commands DEF TypeOK
<1> USE DEF OnePlace
<1>b. OnePlace
  BY DEF IInv
<1>1. CASE UNCHANGED vars
  BY <1>1, <1>b DEF vars
<1>2. CASE Put
  BY <1>2, <1>a, <1>b DEF Put, CanPut
<1>3. ASSUME NEW c \in OneShot, Trigger(c) PROVE OnePlace'
  <2>1. c \notin OnTheirWay /\ c # NoCommand
    BY <1>3, TriggersOnce, Commands DEF Trigger
  <2>2. c \notin heap /\ c # job /\ c # mailbox
    BY <2>1 DEF OnTheirWay
  <2>3. (pending' = c \/ pending' = pending) /\ UNCHANGED <<heap, job, mailbox>>
    BY <1>3 DEF Trigger
  <2> QED
    BY <2>2, <2>3, <1>b
<1>4. CASE ReadNow
  BY <1>4, <1>b DEF ReadNow
<1>5. CASE CheckMailbox
  <2>1. heap' = heap \cup ({mailbox} \ {NoCommand}) /\ mailbox' = NoCommand
        /\ UNCHANGED <<job, pending>>
    BY <1>5 DEF CheckMailbox, Taken
  <2> QED
    BY <2>1, <1>a, <1>b
<1>6. CASE Wake
  BY <1>6, <1>b DEF Wake
<1>7. CASE CompleteCommand
  <2>1. heap' \subseteq heap \cup {job} /\ job' = NoCommand
        /\ UNCHANGED <<mailbox, pending>> /\ job # NoCommand
    BY <1>7 DEF CompleteCommand, IInv, StepInv
  <2>2. job' \notin heap'
    BY <2>1, <1>a
  <2> QED
    BY <2>1, <2>2, <1>b
<1>8. ASSUME NEW c \in Command, Release(c) PROVE OnePlace'
  <2>1. heap' = heap \ {c} /\ c \in heap /\ job' \in {c, NoCommand}
        /\ UNCHANGED <<mailbox, pending>>
    BY <1>8 DEF Release, IsTop
  <2> QED
    BY <2>1, <1>a, <1>b
<1>9. ASSUME NEW c \in Command, Sleep(c) PROVE OnePlace'
  BY <1>9, <1>b DEF Sleep
<1>10. CASE Tick
  BY <1>10, <1>b DEF Tick
<1> QED
  BY <1>1, <1>2, <1>3, <1>4, <1>5, <1>6, <1>7, <1>8, <1>9, <1>10
     DEF Next, Receiver, Scheduler

LEMMA StepInvStep == TypeOK /\ IInv /\ [Next]_vars => StepInv'
<1> SUFFICES ASSUME TypeOK, IInv, [Next]_vars PROVE StepInv'
  OBVIOUS
<1> USE DEF StepInv
<1>b. StepInv
  BY DEF IInv
<1>1. CASE UNCHANGED vars
  BY <1>1, <1>b DEF vars
<1>2. CASE Put
  BY <1>2, <1>b DEF Put, CanPut
<1>3. ASSUME NEW c \in OneShot, Trigger(c) PROVE StepInv'
  BY <1>3, <1>b DEF Trigger
<1>4. CASE ReadNow
  BY <1>4, <1>b DEF ReadNow
<1>5. CASE CheckMailbox
  BY <1>5, <1>b DEF CheckMailbox
<1>6. CASE Wake
  BY <1>6, <1>b DEF Wake, EndIteration
<1>7. CASE CompleteCommand
  BY <1>7, <1>b DEF CompleteCommand, EndIteration
<1>8. ASSUME NEW c \in Command, Release(c) PROVE StepInv'
  <2>1. c # NoCommand
    BY Commands
  <2>2. \/ spc' = "send" /\ job' = c /\ timer' = 0 /\ guarded' = guarded
        \/ spc' = "loop" /\ job' = NoCommand /\ timer' = 0 /\ guarded' = FALSE
    BY <1>8, <1>b DEF Release, EndIteration
  <2> QED
    BY <2>1, <2>2, <1>8, <1>b, TimeAssumption DEF Release
<1>9. ASSUME NEW c \in Command, Sleep(c) PROVE StepInv'
  BY <1>9, <1>b DEF Sleep
<1>10. CASE Tick
  BY <1>10, <1>b, TimeAssumption DEF Tick, TypeOK
<1> QED
  BY <1>1, <1>2, <1>3, <1>4, <1>5, <1>6, <1>7, <1>8, <1>9, <1>10
     DEF Next, Receiver, Scheduler

LEMMA HeapInvStep == TypeOK /\ IInv /\ [Next]_vars => HeapInv'
<1> SUFFICES ASSUME TypeOK, IInv, [Next]_vars PROVE HeapInv'
  OBVIOUS
<1>a. /\ heap \subseteq Command /\ left \in [Command -> Int] /\ timer \in Nat
      /\ HeapInv /\ StepInv
  BY DEF TypeOK, IInv
<1>b. ASSUME spc' # "sleep", Periodic \subseteq (heap \cup {job})',
             job' \in Periodic => heap' \cap OneShot = {},
             guarded' /\ spc' = "peek" => heap' \cap OneShot # {}
      PROVE  HeapInv'
  BY <1>b DEF HeapInv
<1>1. CASE UNCHANGED vars
  BY <1>1, <1>a DEF vars, HeapInv, IsTop
<1>2. CASE Put
  BY <1>2, <1>a DEF Put, HeapInv, IsTop
<1>3. ASSUME NEW c \in OneShot, Trigger(c) PROVE HeapInv'
  <2>1. c \notin heap
    BY <1>3, TriggersOnce, Commands DEF Trigger, OnTheirWay
  <2>2. \A d \in heap : left'[d] = left[d]
    BY <1>3, <1>a, <2>1 DEF Trigger
  <2>3. UNCHANGED <<heap, job, guarded, spc, timer>>
    BY <1>3 DEF Trigger
  <2> QED
    BY <2>2, <2>3, <1>a DEF HeapInv, IsTop
<1>4. CASE ReadNow
  BY <1>4, <1>a, <1>b DEF ReadNow, HeapInv, StepInv
<1>5. CASE CheckMailbox
  <2>1. spc' = "peek" /\ heap' = heap \cup ({mailbox} \ {NoCommand}) /\ job' = job
        /\ (guarded' => mailbox # NoCommand) /\ job = NoCommand
    BY <1>5, <1>a DEF CheckMailbox, Taken, KeepsGuard, StepInv
  <2>2. guarded' => mailbox \in OneShot /\ mailbox \in heap'
    BY <2>1 DEF TypeOK
  <2>3. job' \notin Periodic
    BY <2>1, Commands
  <2> QED
    BY <2>1, <2>2, <2>3, <1>a, <1>b DEF HeapInv
<1>6. CASE Wake
  BY <1>6, <1>a, <1>b DEF Wake, EndIteration, HeapInv
<1>7. CASE CompleteCommand
  <2>1. spc' = "loop" /\ job' = NoCommand
        /\ heap' = IF job \in Periodic THEN heap \cup {job} ELSE heap
    BY <1>7 DEF CompleteCommand, EndIteration
  <2>2. NoCommand \notin Periodic
    BY Commands
  <2>3. Periodic \subseteq heap \cup {job}
    BY <1>a DEF HeapInv
  <2>4. Periodic \subseteq heap'
    BY <2>1, <2>3
  <2> QED
    BY <2>1, <2>2, <2>4, <1>b
<1>8. ASSUME NEW c \in Command, Release(c) PROVE HeapInv'
  <2>1. IsTop(c) /\ c \in heap /\ heap' = heap \ {c} /\ spc = "peek"
    BY <1>8 DEF Release, IsTop
  <2>2. c \in Periodic => heap \cap OneShot = {}
    BY <2>1, <1>a, TopFacts, Commands
  <2>3. Periodic \subseteq heap
    BY <2>1, <1>a, Commands DEF HeapInv, StepInv
  <2>4. CASE spc' = "send" /\ job' = c
    BY <2>1, <2>2, <2>3, <2>4, <1>b
  <2>5. CASE c.type = "RR" /\ job' = NoCommand /\ spc' = "loop"
    <3>1. c \notin Periodic /\ NoCommand \notin Periodic
      BY <2>5, Commands
    <3> QED
      BY <2>1, <2>3, <2>5, <3>1, <1>b
  <2> QED
    BY <1>8, <2>4, <2>5 DEF Release, EndIteration
<1>9. ASSUME NEW c \in Command, Sleep(c) PROVE HeapInv'
  <2>1. IsTop(c) /\ timer' = left[c] /\ UNCHANGED <<heap, job, left, guarded>>
        /\ spc = "peek"
    BY <1>9 DEF Sleep
  <2>2. c \in heap' /\ IsTop(c)' /\ left'[c] = timer'
    BY <2>1 DEF IsTop
  <2> QED
    BY <2>1, <2>2, <1>a DEF HeapInv
<1>10. CASE Tick
  <2>1. \A d \in heap : left'[d] = left[d] - 1 /\ left[d] \in Int
    BY <1>10, <1>a, Commands DEF Tick, OnTheirWay
  <2>2. UNCHANGED <<heap, job, guarded, spc>> /\ (spc = "sleep" => timer' = timer - 1)
    BY <1>10 DEF Tick
  <2>3. ASSUME spc = "sleep"
        PROVE  \E c \in heap' : IsTop(c)' /\ left'[c] = timer'
    <3>1. PICK c \in heap : IsTop(c) /\ left[c] = timer
      BY <2>3, <1>a DEF HeapInv
    <3>2. c \in heap' /\ IsTop(c)'
      BY <3>1, <2>1, <2>2 DEF IsTop
    <3>3. left'[c] = timer'
      BY <3>1, <2>1, <2>2, <2>3
    <3> QED
      BY <3>2, <3>3
  <2> QED
    BY <2>2, <2>3, <1>a DEF HeapInv
<1> QED
  BY <1>1, <1>2, <1>3, <1>4, <1>5, <1>6, <1>7, <1>8, <1>9, <1>10
     DEF Next, Receiver, Scheduler

(* What a step of no duration does to the commands on their way.           *)
LEMMA Moves ==
  ASSUME TypeOK, IInv, [Next]_vars, ~Tick, NEW c \in OneShot, c \in OnTheirWay'
  PROVE  \/ c \in OnTheirWay /\ left'[c] = left[c] /\ cooldown'[c] = cooldown[c]
         \/ /\ c \notin OnTheirWay /\ Trigger(c) /\ pending' = c
            /\ left'[c] = ReleaseDelay(c) /\ cooldown'[c] = Cooldown
<1> DEFINE Stays == c \in OnTheirWay /\ left'[c] = left[c]
                    /\ cooldown'[c] = cooldown[c]
<1>a. /\ c \in Command /\ c # NoCommand /\ c \notin Periodic
      /\ left \in [Command -> Int] /\ cooldown \in [OneShot -> Nat]
      /\ NoCommand \notin heap
  BY Commands DEF TypeOK
<1>b. c \in heap' \/ c = job' \/ c = mailbox' \/ c = pending'
  BY DEF OnTheirWay
<1>c. \A d : d \in OnTheirWay <=> /\ d # NoCommand
                                  /\ d \in heap \/ d = job \/ d = mailbox \/ d = pending
  BY DEF OnTheirWay
<1> HIDE DEF OnTheirWay
<1>1. CASE UNCHANGED vars
  BY <1>1, <1>a, <1>b, <1>c DEF vars
<1>2. CASE Put
  BY <1>2, <1>a, <1>b, <1>c DEF Put
<1>3. ASSUME NEW d \in OneShot, Trigger(d)
      PROVE  Stays \/ /\ c \notin OnTheirWay /\ Trigger(c) /\ pending' = c
                      /\ left'[c] = ReleaseDelay(c) /\ cooldown'[c] = Cooldown
  <2>1. d \notin OnTheirWay /\ d # NoCommand
    BY <1>3, TriggersOnce, Commands DEF Trigger
  <2>2. CASE c = d
    <3>1. pending' = c
      BY <2>1, <2>2, <1>3, <1>b, <1>c DEF Trigger
    <3>2. left'[c] = ReleaseDelay(c)
      BY <3>1, <2>2, <1>3, <1>a DEF Trigger
    <3>3. cooldown'[c] = Cooldown
      BY <2>2, <1>3, <1>a DEF Trigger, CoolDown
    <3> QED
      BY <3>1, <3>2, <3>3, <2>1, <2>2, <1>3
  <2>3. CASE c # d
    <3>1. c \in OnTheirWay
      BY <2>3, <1>3, <1>a, <1>b, <1>c DEF Trigger
    <3>2. left'[c] = left[c] /\ cooldown'[c] = cooldown[c]
      BY <2>3, <1>3, <1>a DEF Trigger, CoolDown
    <3> QED
      BY <3>1, <3>2
  <2> QED
    BY <2>2, <2>3
<1>4. CASE ReadNow
  BY <1>4, <1>a, <1>b, <1>c DEF ReadNow
<1>5. CASE CheckMailbox
  BY <1>5, <1>a, <1>b, <1>c DEF CheckMailbox, Taken
<1>6. CASE Wake
  BY <1>6, <1>a, <1>b, <1>c DEF Wake
<1>7. CASE CompleteCommand
  <2>1. job # NoCommand /\ job \notin heap /\ job # mailbox /\ job # pending
    BY <1>7 DEF CompleteCommand, IInv, StepInv, OnePlace
  <2>2. c # job /\ c \in OnTheirWay
    BY <2>1, <1>7, <1>a, <1>b, <1>c DEF CompleteCommand
  <2> QED
    BY <2>2, <1>7, <1>a DEF CompleteCommand
<1>8. ASSUME NEW d \in Command, Release(d) PROVE Stays
  <2>1. d \in heap /\ d # mailbox /\ d # pending /\ d # NoCommand
    BY <1>8, <1>a DEF Release, IsTop, IInv, OnePlace
  <2>2. c \in OnTheirWay
    BY <2>1, <1>8, <1>a, <1>b, <1>c DEF Release
  <2>3. left' = left \/ (c # d /\ left' = [left EXCEPT ![d] = 0])
    <3>1. \/ left' = left
          \/ job' = NoCommand /\ left' = [left EXCEPT ![d] = 0]
      BY <1>8 DEF Release
    <3>2. heap' = heap \ {d} /\ mailbox' = mailbox /\ pending' = pending
      BY <1>8 DEF Release
    <3> QED
      BY <3>1, <3>2, <2>1, <1>a, <1>b
  <2> QED
    BY <2>2, <2>3, <1>8, <1>a DEF Release
<1>9. ASSUME NEW d \in Command, Sleep(d) PROVE Stays
  BY <1>9, <1>a, <1>b, <1>c DEF Sleep
<1> QED
  BY <1>1, <1>2, <1>3, <1>4, <1>5, <1>6, <1>7, <1>8, <1>9
     DEF Next, Receiver, Scheduler

(* What time does to them.                                                 *)
LEMMA Ticks ==
  ASSUME TypeOK, IInv, Tick
  PROVE  /\ UNCHANGED <<heap, job, mailbox, guarded, notified, spc, pending>>
         /\ OnTheirWay' = OnTheirWay
         /\ \A c \in OnTheirWay :
              c \in Command /\ left[c] \in Int /\ left'[c] = left[c] - 1
         /\ \A c \in OneShot : /\ cooldown[c] > 0 => cooldown'[c] = cooldown[c] - 1
                               /\ cooldown[c] \in Nat
         /\ \A c \in OneShot \cap OnTheirWay : Age(c)' = Age(c) + 1
         /\ \/ spc = "sleep" /\ timer > 0 /\ mailbox = NoCommand /\ timer' = timer - 1
            \/ spc = "send" /\ timer < MaxSend /\ timer' = timer + 1
         /\ ~CanPut
<1>1. UNCHANGED <<heap, job, mailbox, guarded, notified, spc, pending>> /\ ~CanPut
  BY DEF Tick
<1>2. OnTheirWay' = OnTheirWay
  BY <1>1 DEF OnTheirWay
<1>3. \A c \in OnTheirWay :
        c \in Command /\ left[c] \in Int /\ left'[c] = left[c] - 1
  <2> SUFFICES ASSUME NEW c \in OnTheirWay
               PROVE  c \in Command /\ left[c] \in Int /\ left'[c] = left[c] - 1
    OBVIOUS
  <2>1. c \in Command
    BY Commands DEF OnTheirWay, TypeOK
  <2> QED
    BY <2>1 DEF Tick, TypeOK
<1>4. \A c \in OneShot : /\ cooldown[c] > 0 => cooldown'[c] = cooldown[c] - 1
                         /\ cooldown[c] \in Nat
  BY DEF Tick, TypeOK
<1>5. \A c \in OneShot \cap OnTheirWay : Age(c)' = Age(c) + 1
  BY <1>3, DelayIsNat DEF Age
<1>6. \/ spc = "sleep" /\ timer > 0 /\ mailbox = NoCommand /\ timer' = timer - 1
      \/ spc = "send" /\ timer < MaxSend /\ timer' = timer + 1
  BY DEF Tick, IInv, StepInv
<1> QED
  BY <1>1, <1>2, <1>3, <1>4, <1>5, <1>6

(* The cooldown starts with the release delay and runs out as it does.     *)
LEMMA AgeStep == TypeOK /\ IInv /\ [Next]_vars => AgeInv'
<1> SUFFICES ASSUME TypeOK, IInv, [Next]_vars, NEW c \in OneShot, c \in OnTheirWay'
             PROVE  Age(c)' \in Nat /\ cooldown'[c] = Cooldown - Age(c)'
  BY DEF AgeInv
<1>1. c \in Command /\ ReleaseDelay(c) \in Nat /\ left[c] \in Int
  BY Commands, DelayIsNat DEF TypeOK
<1>2. CASE Tick
  <2>1. c \in OnTheirWay
    BY <1>2, Ticks
  <2>2. Age(c) \in Nat /\ cooldown[c] = Cooldown - Age(c)
    BY <2>1 DEF IInv, AgeInv
  <2>3. cooldown[c] > 0
    BY <2>1, DelaysAreBounded, CooldownAssumption, TimeAssumption, Bounds, <1>2, Ticks
       DEF DelaysBounded
  <2>4. Age(c)' = Age(c) + 1 /\ cooldown'[c] = cooldown[c] - 1
    BY <2>1, <2>3, <1>2, Ticks
  <2> QED
    BY <2>2, <2>4, TimeAssumption
<1>3. CASE ~Tick
  <2>1. CASE /\ c \in OnTheirWay
             /\ left'[c] = left[c] /\ cooldown'[c] = cooldown[c]
    BY <2>1 DEF Age, IInv, AgeInv
  <2>2. CASE left'[c] = ReleaseDelay(c) /\ cooldown'[c] = Cooldown
    BY <2>2, <1>1, TimeAssumption DEF Age
  <2> QED
    BY <1>3, <2>1, <2>2, Moves
<1> QED
  BY <1>2, <1>3

(* What is in the mailbox was put there in time, or is there for a publish *)
(* at most.                                                                *)
LEMMA MailboxStep == TypeOK /\ IInv /\ [Next]_vars => MailboxInv'
<1> SUFFICES ASSUME TypeOK, IInv, [Next]_vars, mailbox' # NoCommand
             PROVE  Age(mailbox)' <= PutTime +
                      (IF spc' \in {"loop", "lock"} THEN MaxSend ELSE Sending')
  BY DEF MailboxInv
<1> USE TimeAssumption, Bounds
<1>a. /\ timer \in Nat /\ StepInv
      /\ mailbox # NoCommand =>
           Age(mailbox) <= PutTime +
             (IF spc \in {"loop", "lock"} THEN MaxSend ELSE Sending)
  BY DEF TypeOK, IInv, MailboxInv
<1>b. mailbox \in OneShot \cup {NoCommand} /\ pending \in OneShot \cup {NoCommand}
      /\ left \in [Command -> Int]
  BY DEF TypeOK
<1>c. \A c \in OneShot : Age(c) \in Int /\ c \in Command /\ ReleaseDelay(c) \in Int
  BY <1>b, Commands, DelayIsNat DEF Age
<1>0. mailbox' \in OneShot /\ mailbox' \in OnTheirWay'
  BY TypeStep DEF OnTheirWay, TypeOK
<1>d. ASSUME ~Tick, mailbox' = mailbox PROVE Age(mailbox)' = Age(mailbox)
  <2>1. mailbox' \in OnTheirWay
    BY <1>d DEF OnTheirWay
  <2>2. left'[mailbox'] = left[mailbox']
    BY <1>0, <1>d, <2>1, Moves
  <2> QED
    BY <1>d, <2>2 DEF Age
<1>1. CASE UNCHANGED vars
  BY <1>1, <1>a DEF vars, Age, Sending
<1>2. CASE Put
  <2>1. mailbox' = pending /\ UNCHANGED <<left, spc, timer>> /\ CanPut
    BY <1>2 DEF Put
  <2>2. Age(pending) <= PutTime /\ pending \in OneShot
    BY <2>1, <1>b DEF IInv, PendingInv, CanPut
  <2>3. Age(mailbox)' = Age(pending)
    BY <2>1 DEF Age
  <2>4. Sending' \in Nat
    BY <2>1, <1>a DEF Sending
  <2> QED
    BY <2>2, <2>3, <2>4, <1>c
<1>3. ASSUME NEW c \in OneShot, Trigger(c)
      PROVE  mailbox' = mailbox /\ UNCHANGED <<spc, timer>>
  BY <1>3 DEF Trigger
<1>4. CASE ReadNow /\ ~Tick
  BY <1>4, <1>a, <1>d DEF ReadNow
<1>5. ~CheckMailbox
  BY DEF CheckMailbox
<1>6. CASE Wake /\ ~Tick
  <2>1. mailbox' = mailbox /\ spc = "sleep" /\ spc' = "loop"
    BY <1>6 DEF Wake, EndIteration
  <2> QED
    BY <2>1, <1>a, <1>b, <1>c, <1>d, <1>6 DEF Sending
<1>7. CASE CompleteCommand /\ ~Tick
  <2>1. mailbox' = mailbox /\ spc = "send" /\ spc' = "loop"
    BY <1>7 DEF CompleteCommand, EndIteration
  <2>2. Age(mailbox)' = Age(mailbox) /\ mailbox # NoCommand /\ timer <= MaxSend
    BY <2>1, <1>7, <1>a, <1>d DEF StepInv
  <2> QED
    BY <2>1, <2>2, <1>a, <1>b, <1>c DEF Sending
<1>8. ASSUME NEW c \in Command, Release(c)
      PROVE  mailbox' = mailbox /\ spc = "peek" /\ spc' \in {"loop", "send"}
             /\ timer = 0 /\ timer' = 0
  BY <1>8, <1>a DEF Release, EndIteration, StepInv
<1>9. ASSUME NEW c \in Command, Sleep(c)
      PROVE  mailbox' = mailbox /\ spc = "peek" /\ spc' = "sleep"
  BY <1>9 DEF Sleep
<1>10. CASE Tick
  <2>1. Age(mailbox)' = Age(mailbox) + 1
    BY <1>0, <1>10, Ticks DEF OnTheirWay
  <2>2. spc = "send" /\ spc' = "send" /\ timer' = timer + 1 /\ mailbox' = mailbox
    BY <1>10, Ticks
  <2> QED
    BY <2>1, <2>2, <1>a, <1>b, <1>c DEF Sending
<1>11. CASE ~Tick /\ mailbox' = mailbox /\ spc = "peek"
            /\ (spc' = "sleep" \/ (spc' \in {"loop", "send"} /\ timer = 0 /\ timer' = 0))
  BY <1>11, <1>a, <1>b, <1>c, <1>d DEF Sending
<1>12. CASE ~Tick /\ mailbox' = mailbox /\ UNCHANGED <<spc, timer>>
  BY <1>12, <1>a, <1>d DEF Sending
<1>13. CASE \E c \in OneShot : Trigger(c)
  BY <1>3, <1>10, <1>12, <1>13
<1>14. CASE \E c \in Command : Release(c) \/ Sleep(c)
  BY <1>8, <1>9, <1>10, <1>11, <1>14
<1> HIDE TimeAssumption, Bounds
<1> QED
  BY <1>1, <1>2, <1>4, <1>5, <1>6, <1>7, <1>10, <1>13, <1>14
     DEF Next, Receiver, Scheduler

(* How long the receiver has waited, by what the scheduler is at.          *)
LEMMA PendingStep == TypeOK /\ IInv /\ [Next]_vars => PendingInv'
<1> SUFFICES ASSUME TypeOK, IInv, [Next]_vars, pending' # NoCommand
             PROVE  PendingInv'
  BY DEF PendingInv, WaitsForRoom, WaitsForLock, CanPut
<1> DEFINE a == Age(pending)
<1>a. /\ timer \in Nat /\ StepInv /\ HeapInv /\ AgeInv /\ MaxSend \in Nat
      /\ ReRequestDelay \in Nat /\ PutTime \in Nat
      /\ ReRequestDelay <= PutTime /\ 2 * MaxSend <= PutTime
      /\ heap \subseteq Command /\ left \in [Command -> Int]
      /\ mailbox \in OneShot \cup {NoCommand} /\ pending \in OneShot \cup {NoCommand}
  BY TimeAssumption, Bounds DEF TypeOK, IInv
<1>b. \A c \in OneShot : /\ c \in Command /\ c # NoCommand
                         /\ Age(c) \in Int /\ left[c] \in Int
                         /\ ReleaseDelay(c) \in Nat
                         /\ c.type \in {"RR", "LC"}
                         /\ c.type = "RR" => ReleaseDelay(c) = ReRequestDelay
  BY <1>a, Commands, DelayIsNat DEF Age
<1>c. \A c \in OneShot : c \in OnTheirWay /\ c.type = "RR" => left[c] <= ReRequestDelay
  BY <1>a, <1>b DEF AgeInv, Age
<1>d. /\ pending' \in OneShot /\ pending' \in OnTheirWay'
      /\ mailbox' # NoCommand => mailbox' \in OneShot /\ mailbox' \in OnTheirWay'
  BY TypeStep DEF OnTheirWay, TypeOK
<1>e. ASSUME ~Tick, pending' = pending
      PROVE  a' = a /\ (mailbox' = mailbox /\ mailbox # NoCommand => left'[mailbox] = left[mailbox])
             /\ \A c \in OneShot : c \in heap /\ c \in heap' => left'[c] = left[c]
  <2>1. ASSUME NEW c \in OneShot, c \in OnTheirWay', c \in OnTheirWay
        PROVE  left'[c] = left[c]
    BY <1>e, <2>1, Moves
  <2>2. left'[pending] = left[pending]
    BY <1>d, <1>e, <2>1 DEF OnTheirWay
  <2>3. mailbox' = mailbox /\ mailbox # NoCommand => left'[mailbox] = left[mailbox]
    BY <1>d, <2>1 DEF OnTheirWay
  <2>4. \A c \in OneShot : c \in heap /\ c \in heap' => left'[c] = left[c]
    BY <1>b, <2>1 DEF OnTheirWay
  <2> QED
    BY <1>e, <2>2, <2>3, <2>4 DEF Age
<1>f. pending # NoCommand =>
        /\ a \in Int /\ a <= PutTime
        /\ mailbox # NoCommand =>
             /\ a <= IF spc \in {"loop", "lock"} THEN MaxSend ELSE Sending
             /\ mailbox.type = "RR" => left[mailbox] + a <= ReRequestDelay
        /\ guarded =>
             /\ spc = "peek" =>
                  /\ a <= MaxSend
                  /\ \E c \in heap \cap OneShot :
                       c.type = "LC" \/ left[c] + a <= ReRequestDelay
             /\ spc = "send" => a <= MaxSend + timer
             /\ spc = "sleep" => \/ timer = 0 /\ a <= MaxSend
                                 \/ timer + a <= ReRequestDelay
  <2>1. pending # NoCommand => a \in Int /\ a <= PutTime
    BY <1>a, <1>b, PendingBounded DEF IInv, ReceiverDelayed
  <2> QED
    BY <2>1 DEF IInv, PendingInv, WaitsForRoom, WaitsForLock
<1>g. ASSUME a' <= PutTime,
             mailbox' # NoCommand =>
               /\ a' <= IF spc' \in {"loop", "lock"} THEN MaxSend ELSE Sending'
               /\ mailbox'.type = "RR" => left'[mailbox'] + a' <= ReRequestDelay,
             guarded' =>
               /\ spc' = "peek" =>
                    /\ a' <= MaxSend
                    /\ \E c \in heap' \cap OneShot :
                         c.type = "LC" \/ left'[c] + a' <= ReRequestDelay
               /\ spc' = "send" => a' <= MaxSend + timer'
               /\ spc' = "sleep" => \/ timer' = 0 /\ a' <= MaxSend
                                    \/ timer' + a' <= ReRequestDelay
      PROVE  PendingInv'
  BY <1>g DEF PendingInv, WaitsForRoom, WaitsForLock
<1> HIDE DEF a
<1>1. CASE UNCHANGED vars
  BY <1>1 DEF vars, IInv, PendingInv, WaitsForRoom, WaitsForLock, CanPut, Age, Sending
<1>2. ~Put
  BY DEF Put
<1>3. ASSUME NEW c \in OneShot, Trigger(c) PROVE PendingInv'
  <2>1. pending' = c /\ left' = [left EXCEPT ![c] = ReleaseDelay(c)]
        /\ UNCHANGED <<heap, mailbox, guarded, spc, timer>>
    BY <1>3 DEF Trigger
  <2>2. c \notin OnTheirWay
    BY <1>3, TriggersOnce DEF Trigger
  <2>3. a' = 0
    BY <2>1, <1>a, <1>b DEF a, Age
  <2>4. \A d \in OneShot : d # c => left'[d] = left[d]
    BY <2>1, <1>a, <1>b
  <2>5. mailbox # NoCommand /\ mailbox.type = "RR" => left'[mailbox] <= ReRequestDelay
    BY <2>2, <2>4, <1>a, <1>c DEF OnTheirWay
  <2>6. mailbox # NoCommand /\ mailbox.type = "RR" => left'[mailbox'] + a' <= ReRequestDelay
    BY <2>1, <2>3, <2>4, <2>2, <2>5, <1>a, <1>b DEF OnTheirWay
  <2>7. guarded /\ spc = "peek" =>
          \E d \in heap \cap OneShot : d.type = "LC" \/ left'[d] + 0 <= ReRequestDelay
    <3> SUFFICES ASSUME guarded, spc = "peek"
                 PROVE  \E d \in heap \cap OneShot :
                          d.type = "LC" \/ left'[d] + 0 <= ReRequestDelay
      OBVIOUS
    <3>1. PICK d \in heap : d \in OneShot
      BY <1>a DEF HeapInv
    <3>2. d # c /\ d \in OnTheirWay
      BY <3>1, <2>2, <1>b DEF OnTheirWay
    <3>3. left'[d] = left[d] /\ left[d] \in Int /\ d.type \in {"RR", "LC"}
          /\ (d.type = "RR" => left[d] <= ReRequestDelay)
      BY <3>1, <3>2, <2>4, <1>b, <1>c
    <3> QED
      BY <3>1, <3>3
  <2>8. guarded /\ spc = "sleep" => timer <= ReRequestDelay
    BY <1>a, SleepFacts
  <2>9. 0 <= Sending
    BY <1>a DEF Sending
  <2>10. Sending' = Sending
    BY <2>1 DEF Sending
  <2> QED
    BY <2>1, <2>3, <2>6, <2>7, <2>8, <2>9, <2>10, <1>a, <1>g
<1>4. CASE ReadNow /\ ~Tick
  <2>1. spc = "loop" /\ spc' = "lock" /\ guarded = FALSE
        /\ UNCHANGED <<heap, mailbox, guarded, timer, pending>>
    BY <1>4, <1>a DEF ReadNow, StepInv
  <2> QED
    BY <2>1, <1>4, <1>e, <1>f, <1>g
<1>5. CASE CheckMailbox /\ ~Tick
  <2>1. spc = "lock" /\ spc' = "peek" /\ heap' = heap \cup ({mailbox} \ {NoCommand})
        /\ (guarded' => mailbox # NoCommand) /\ mailbox' = NoCommand
        /\ UNCHANGED <<timer, pending, left>>
    BY <1>5 DEF CheckMailbox, Taken, KeepsGuard
  <2>2. a' = a /\ a \in Int
    BY <2>1, <1>5, <1>e, <1>f
  <2>3. ASSUME guarded'
        PROVE  a' <= MaxSend /\ \E c \in heap' \cap OneShot :
                                  c.type = "LC" \/ left'[c] + a' <= ReRequestDelay
    <3>1. mailbox \in heap' /\ mailbox \in OneShot
      BY <2>1, <2>3, <1>a
    <3>2. a <= MaxSend /\ (mailbox.type = "RR" => left[mailbox] + a <= ReRequestDelay)
      BY <2>1, <2>3, <1>f
    <3> QED
      BY <3>1, <3>2, <2>1, <2>2, <1>b
  <2> QED
    BY <2>1, <2>2, <2>3, <1>f, <1>g
<1>6. CASE Wake /\ ~Tick
  <2>1. spc = "sleep" /\ spc' = "loop" /\ guarded' = FALSE
        /\ UNCHANGED <<heap, mailbox, pending>>
    BY <1>6 DEF Wake, EndIteration
  <2>2. mailbox # NoCommand => a <= MaxSend
    BY <2>1, <1>a, <1>f DEF Sending
  <2> QED
    BY <2>1, <2>2, <1>6, <1>e, <1>f, <1>g
<1>7. CASE CompleteCommand /\ ~Tick
  <2>1. spc = "send" /\ spc' = "loop" /\ guarded' = FALSE /\ timer <= MaxSend
        /\ UNCHANGED <<mailbox, pending>>
    BY <1>7, <1>a DEF CompleteCommand, EndIteration, StepInv
  <2>2. mailbox # NoCommand => a <= MaxSend
    BY <2>1, <1>a, <1>f DEF Sending
  <2> QED
    BY <2>1, <2>2, <1>7, <1>e, <1>f, <1>g
<1>8. ASSUME NEW c \in Command, Release(c), ~Tick PROVE PendingInv'
  <2>1. spc = "peek" /\ timer = 0 /\ UNCHANGED <<mailbox, pending>>
        /\ \/ spc' = "send" /\ guarded' = guarded /\ timer' = 0
           \/ spc' = "loop" /\ guarded' = FALSE
    BY <1>8, <1>a DEF Release, EndIteration, StepInv
  <2>2. a' = a /\ a \in Int /\ a <= PutTime
        /\ (mailbox # NoCommand => left'[mailbox] = left[mailbox])
    BY <2>1, <1>8, <1>e, <1>f
  <2>3. mailbox # NoCommand => a <= 0
    BY <2>1, <1>f DEF Sending
  <2>4. spc' = "send" => Sending' = 0
    BY <2>1 DEF Sending
  <2> QED
    BY <2>1, <2>2, <2>3, <2>4, <1>a, <1>f, <1>g
<1>9. ASSUME NEW c \in Command, Sleep(c), ~Tick PROVE PendingInv'
  <2>1. spc = "peek" /\ spc' = "sleep" /\ timer' = left[c] /\ IsTop(c) /\ left[c] >= 0
        /\ UNCHANGED <<heap, left, mailbox, guarded, pending>>
    BY <1>9, <1>a DEF Sleep
  <2>2. a' = a /\ a \in Int /\ a <= PutTime
    BY <2>1, <1>9, <1>e, <1>f
  <2>3. mailbox # NoCommand => a <= 0
    BY <2>1, <1>f DEF Sending
  <2>4. Sending' = 0
    BY <2>1 DEF Sending
  <2>5. ASSUME guarded PROVE \/ left[c] = 0 /\ a <= MaxSend
                             \/ left[c] + a <= ReRequestDelay
    <3>1. a <= MaxSend /\ \E d \in heap \cap OneShot :
                            d.type = "LC" \/ left[d] + a <= ReRequestDelay
      BY <2>1, <2>5, <1>f
    <3>2. PICK d \in heap : /\ d \in OneShot
                            /\ d.type = "LC" \/ left[d] + a <= ReRequestDelay
      BY <3>1
    <3>3. /\ c \in heap /\ c \in OneShot /\ (d.type = "LC" => c.type = "LC")
          /\ (c.type = d.type => left[c] <= left[d])
      BY <2>1, <3>2, <1>a, TopFacts
    <3>4. c.type = "LC" => left[c] <= 0
      <4>1. c \in OnTheirWay
        BY <3>3, <1>b DEF OnTheirWay
      <4> QED
        BY <4>1, <3>3, <1>a, <1>b, Commands DEF AgeInv, Age
    <3> QED
      BY <3>1, <3>2, <3>3, <3>4, <2>1, <2>2, <1>b
  <2> QED
    BY <2>1, <2>2, <2>3, <2>4, <2>5, <1>a, <1>f, <1>g
<1>10. CASE Tick
  <2>1. UNCHANGED <<heap, mailbox, guarded, spc, pending>> /\ ~CanPut
        /\ \/ spc = "sleep" /\ timer > 0 /\ mailbox = NoCommand /\ timer' = timer - 1
           \/ spc = "send" /\ timer < MaxSend /\ timer' = timer + 1
    BY <1>10, Ticks
  <2>2. a' = a + 1
    BY <1>10, <1>d, Ticks DEF a
  <2>3. mailbox # NoCommand => left'[mailbox] = left[mailbox] - 1
    BY <1>10, <1>a, <1>b, Ticks DEF OnTheirWay
  <2>4. pending # NoCommand /\ (mailbox # NoCommand \/ guarded)
    BY <2>1 DEF CanPut
  <2>5. CASE spc = "sleep"
    BY <2>1, <2>2, <2>4, <2>5, <1>a, <1>f, <1>g
  <2>6. CASE spc = "send"
    <3>1. Sending = timer /\ Sending' = timer'
      BY <2>1, <2>6 DEF Sending
    <3>2. a' <= PutTime
      BY <2>1, <2>2, <2>4, <2>6, <3>1, <1>a, <1>f
    <3> QED
      BY <2>1, <2>2, <2>3, <2>4, <2>6, <3>1, <3>2, <1>a, <1>b, <1>f, <1>g
  <2> QED
    BY <2>1, <2>5, <2>6
<1>11. CASE \E c \in OneShot : Trigger(c)
  BY <1>3, <1>11
<1>12. CASE ~Tick /\ \E c \in Command : Release(c) \/ Sleep(c)
  BY <1>8, <1>9, <1>12
<1> QED
  BY <1>1, <1>2, <1>4, <1>5, <1>6, <1>7, <1>10, <1>11, <1>12
     DEF Next, Receiver, Scheduler

(* Nobody gets ahead of a loss of contact but by a trigger, at once.       *)
LEMMA TurnStep ==
  ASSUME TypeOK, IInv, [Next]_vars, NEW s \in Sensor, LC(s) \in OnTheirWay'
  PROVE  /\ Turn(s)' \in Nat /\ MaxSend <= Turn(s)' /\ Turn(s)' <= Publishes(N)
         /\ Publishes(N) \in Nat
         /\ LC(s) \in OnTheirWay =>
              \/ Turn(s)' <= Turn(s)
              \/ left[LC(s)] = 0 /\ \E d \in OneShot : Trigger(d)
         /\ \A t \in AheadOf(s) : LC(s) \in heap /\ Release(LC(t)) =>
              Turn(s)' + MaxSend <= Turn(s)
<1> DEFINE c == LC(s)
<1>a. AheadOf(s) \in SUBSET (Sensor \ {s}) /\ AheadOf(s)' \in SUBSET (Sensor \ {s})
  BY DEF AheadOf
<1>b. /\ Turn(s)' \in Nat /\ MaxSend <= Turn(s)' /\ Turn(s)' <= Publishes(N)
      /\ Publishes(N) \in Nat
  BY <1>a, TurnOf DEF Turn
<1>c. \A t \in Sensor : LC(t) \in OneShot /\ LC(t) \in Command /\ LC(t) # NoCommand
                        /\ ReleaseDelay(LC(t)) = 0
                        /\ left[LC(t)] \in Int
  BY Commands DEF TypeOK
<1>d. ASSUME AheadOf(s)' \subseteq AheadOf(s) PROVE Turn(s)' <= Turn(s)
  <2>1. /\ Cardinality(AheadOf(s))' \in Nat /\ Cardinality(AheadOf(s)) \in Nat
        /\ Cardinality(AheadOf(s))' <= Cardinality(AheadOf(s))
    BY <1>a, <1>d, TurnOf, FS_Subset
  <2> QED
    BY <2>1, PublishesTake DEF Turn
<1>1. CASE Tick
  <2>1. \A t \in Sensor : LC(t) \in heap' \cup {mailbox', pending'} =>
                            left'[LC(t)] = left[LC(t)] - 1
    BY <1>1, <1>c, Ticks DEF OnTheirWay
  <2>2. left'[c] = left[c] - 1
    BY <1>1, Ticks
  <2>3. UNCHANGED <<heap, mailbox, pending>> /\ \A t \in Sensor : ~Release(LC(t))
    BY <1>1, Ticks DEF Tick, Release
  <2>4. AheadOf(s)' \subseteq AheadOf(s)
    BY <2>1, <2>2, <2>3, <1>c DEF AheadOf
  <2>5. Turn(s)' <= Turn(s)
    BY <2>4, <1>d
  <2>6. \A t \in AheadOf(s) : ~Release(LC(t))
    BY <2>3, <1>a
  <2> QED
    BY <2>5, <2>6, <1>b
<1>2. ASSUME ~Tick, NEW d \in OneShot, Trigger(d), c \in OnTheirWay
      PROVE  Turn(s)' <= Turn(s) \/ left[c] = 0
  <2> SUFFICES ASSUME left[c] # 0 PROVE Turn(s)' <= Turn(s)
    OBVIOUS
  <2>1. d \notin OnTheirWay
    BY <1>2, TriggersOnce DEF Trigger
  <2>2. left[c] < 0
    <3>1. Age(c) \in Nat
      BY <1>2, <1>c DEF IInv, AgeInv
    <3> QED
      BY <3>1, <1>c DEF Age
  <2>3. left'[c] = left[c] /\ left \in [Command -> Int]
    BY <1>2, <1>c, Moves DEF TypeOK
  <2>4. ASSUME NEW t \in AheadOf(s)' PROVE t \in AheadOf(s)
    <3>1. t \in Sensor /\ t # s /\ LC(t) \in (heap \cup {mailbox, pending})'
          /\ left'[LC(t)] <= left[c]
      BY <2>3, <2>4 DEF AheadOf
    <3>2. LC(t) \in OnTheirWay'
      BY <3>1, <1>c DEF OnTheirWay
    <3>3. left'[LC(t)] # ReleaseDelay(LC(t))
      BY <3>1, <2>2, <1>c
    <3>4. LC(t) \in OnTheirWay /\ left'[LC(t)] = left[LC(t)]
      BY <3>1, <3>2, <3>3, <1>2, <1>c, Moves
    <3>5. LC(t) \in heap \cup {mailbox, pending}
      BY <3>1, <3>4, <2>1, <1>2 DEF Trigger
    <3> QED
      BY <3>1, <3>4, <3>5 DEF AheadOf
  <2> QED
    BY <2>4, <1>d
<1>3. ASSUME ~Tick, \A d \in OneShot : ~Trigger(d)
      PROVE  /\ Turn(s)' <= Turn(s)
             /\ \A t \in AheadOf(s) : LC(s) \in heap /\ Release(LC(t)) =>
                  Turn(s)' + MaxSend <= Turn(s)
  <2>1. ASSUME NEW d \in OneShot, d \in (heap \cup {mailbox, pending})'
        PROVE  d \in heap \cup {mailbox, pending}
    <3>1. d # NoCommand /\ d \in Command /\ d \notin Periodic
      BY Commands
    <3>2. CASE UNCHANGED vars
      BY <2>1, <3>2 DEF vars
    <3>3. CASE Put
      BY <2>1, <3>1, <3>3 DEF Put
    <3>4. CASE ReadNow \/ Wake
      BY <2>1, <3>4 DEF ReadNow, Wake
    <3>5. CASE CheckMailbox
      BY <2>1, <3>1, <3>5 DEF CheckMailbox, Taken
    <3>6. CASE CompleteCommand
      BY <2>1, <3>1, <3>6 DEF CompleteCommand
    <3>7. ASSUME NEW e \in Command, Release(e) \/ Sleep(e)
          PROVE  d \in heap \cup {mailbox, pending}
      BY <2>1, <3>7 DEF Release, Sleep
    <3> QED
      BY <1>3, <3>2, <3>3, <3>4, <3>5, <3>6, <3>7 DEF Next, Receiver, Scheduler
  <2>2. \A t \in Sensor : LC(t) \in OnTheirWay' => left'[LC(t)] = left[LC(t)]
    BY <1>3, <1>c, Moves
  <2>3. ASSUME NEW t \in AheadOf(s)' PROVE t \in AheadOf(s)
    <3>1. t \in Sensor /\ t # s /\ LC(t) \in (heap \cup {mailbox, pending})'
          /\ left'[LC(t)] <= left'[c]
      BY <2>3 DEF AheadOf
    <3>2. LC(t) \in OnTheirWay'
      BY <3>1, <1>c DEF OnTheirWay
    <3> QED
      BY <3>1, <3>2, <1>c, <2>1, <2>2 DEF AheadOf
  <2>4. ASSUME NEW t \in AheadOf(s), c \in heap, Release(LC(t))
        PROVE  Turn(s)' + MaxSend <= Turn(s)
    <3>1. LC(t) \in heap /\ heap' = heap \ {LC(t)} /\ UNCHANGED <<mailbox, pending>>
          /\ t \in Sensor
      BY <2>4 DEF Release, IsTop, AheadOf
    <3>2. LC(t) # mailbox /\ LC(t) # pending
      BY <3>1 DEF IInv, OnePlace
    <3>3. t \notin AheadOf(s)'
      BY <3>1, <3>2 DEF AheadOf
    <3>4. IsFiniteSet(AheadOf(s))
      BY <1>a, TurnOf
    <3>5. /\ Cardinality(AheadOf(s))' \in Nat /\ Cardinality(AheadOf(s)) \in Nat
          /\ Cardinality(AheadOf(s))' + 1 <= Cardinality(AheadOf(s))
      BY <2>3, <3>3, <3>4, OneMore
    <3>6. /\ Publishes((Cardinality(AheadOf(s))' + 1) + 1)
               = Publishes(Cardinality(AheadOf(s))' + 1) + MaxSend
          /\ Publishes((Cardinality(AheadOf(s))' + 1) + 1)
               <= Publishes(Cardinality(AheadOf(s)) + 1)
      BY <3>5, PublishesTake
    <3> QED
      BY <3>6 DEF Turn
  <2> QED
    BY <2>3, <2>4, <1>d
<1>4. CASE ~Tick
  <2>1. c \in OnTheirWay =>
          \/ Turn(s)' <= Turn(s)
          \/ left[c] = 0 /\ \E d \in OneShot : Trigger(d)
    BY <1>2, <1>3, <1>4
  <2>2. ASSUME NEW t \in AheadOf(s), c \in heap, Release(LC(t))
        PROVE  Turn(s)' + MaxSend <= Turn(s)
    <3>1. \A d \in OneShot : ~Trigger(d)
      BY <2>2 DEF Release, Trigger, EndIteration
    <3> QED
      BY <2>2, <3>1, <1>3, <1>4
  <2> QED
    BY <2>1, <2>2, <1>b
<1> QED
  BY <1>1, <1>4

(* A loss of contact makes its way in time: each publish before it is one  *)
(* less to wait for, and the sleep it may wait for is a re-request's.      *)
LEMMA UrgentStep ==
  TypeOK /\ IInv /\ [Next]_vars /\ PendingInv' /\ StepInv' => UrgentInv'
<1> SUFFICES ASSUME TypeOK, IInv, [Next]_vars, PendingInv', StepInv',
                    NEW s \in Sensor, LC(s) \in OnTheirWay'
             PROVE  /\ LC(s) \in heap' =>
                         Turn(s)' + SendLeft' - left'[LC(s)] <= UrgentTime
                    /\ LC(s) = job' => MaxSend - timer' - left'[LC(s)] <= UrgentTime
                    /\ LC(s) = mailbox' =>
                         Turn(s)' + (IF spc' = "peek" THEN MaxSend ELSE SendLeft')
                           - left'[LC(s)] <= UrgentTime
                    /\ LC(s) = pending' /\ CanPut' =>
                         Turn(s)' + MaxSend - left'[LC(s)] <= UrgentTime
                    /\ LC(s) = pending' /\ guarded' /\ spc' \in {"sleep", "send"} =>
                         Turn(s)' + MaxSend
                           + (IF spc' = "send" THEN SendLeft' ELSE timer')
                           - left'[LC(s)] <= UrgentTime
  BY Commands DEF UrgentInv, OnTheirWay
<1> DEFINE c == LC(s)
           Goal == /\ c \in heap' => Turn(s)' + SendLeft' - left'[c] <= UrgentTime
                   /\ c = job' => MaxSend - timer' - left'[c] <= UrgentTime
                   /\ c = mailbox' =>
                        Turn(s)' + (IF spc' = "peek" THEN MaxSend ELSE SendLeft')
                          - left'[c] <= UrgentTime
                   /\ c = pending' /\ CanPut' =>
                        Turn(s)' + MaxSend - left'[c] <= UrgentTime
                   /\ c = pending' /\ guarded' /\ spc' \in {"sleep", "send"} =>
                        Turn(s)' + MaxSend
                          + (IF spc' = "send" THEN SendLeft' ELSE timer')
                          - left'[c] <= UrgentTime
<1> SUFFICES Goal
  OBVIOUS
<1>a. /\ c \in OneShot /\ c \in Command /\ c # NoCommand /\ c.type = "LC"
      /\ ReleaseDelay(c) = 0 /\ NoCommand \notin heap
  BY Commands DEF TypeOK
<1>b. /\ timer \in Nat /\ timer' \in Nat /\ left[c] \in Int /\ left'[c] \in Int
      /\ heap \subseteq Command /\ left \in [Command -> Int]
      /\ StepInv /\ OnePlace /\ HeapInv /\ AgeInv
  BY <1>a, TypeStep DEF TypeOK, IInv
<1>c. /\ MaxSend \in Nat /\ ReRequestDelay \in Nat /\ UrgentTime \in Nat
      /\ ReRequestDelay + 2 * MaxSend <= UrgentTime
      /\ Publishes(N) + 3 * MaxSend <= UrgentTime
  BY TimeAssumption, Bounds
<1>d. /\ Turn(s)' \in Nat /\ MaxSend <= Turn(s)' /\ Turn(s)' <= Publishes(N)
      /\ Publishes(N) \in Nat /\ Turn(s) \in Nat
      /\ c \in OnTheirWay => \/ Turn(s)' <= Turn(s)
                             \/ left[c] = 0 /\ \E d \in OneShot : Trigger(d)
  <2>1. /\ Turn(s)' \in Nat /\ MaxSend <= Turn(s)' /\ Turn(s)' <= Publishes(N)
        /\ Publishes(N) \in Nat
    BY TurnStep
  <2>2. c \in OnTheirWay => \/ Turn(s)' <= Turn(s)
                            \/ left[c] = 0 /\ \E d \in OneShot : Trigger(d)
    BY TurnStep
  <2> QED
    BY <2>1, <2>2, TurnType
<1>e. /\ SendLeft \in Nat /\ SendLeft <= MaxSend
      /\ SendLeft' \in Nat /\ SendLeft' <= MaxSend
  <2>1. /\ spc = "send" => timer <= MaxSend
        /\ spc' = "send" => timer' <= MaxSend
    BY <1>b DEF StepInv
  <2>2. MaxSend \in Nat /\ timer \in Nat /\ timer' \in Nat
    BY <1>b, <1>c
  <2>3. SendLeft \in Nat /\ SendLeft <= MaxSend
    BY <2>1, <2>2 DEF SendLeft
  <2>4. SendLeft' \in Nat /\ SendLeft' <= MaxSend
    <3>1. \A m, t \in Nat : t <= m => m - t \in Nat /\ m - t <= m
      OBVIOUS
    <3>2. spc' = "send" => SendLeft' = MaxSend - timer'
      BY DEF SendLeft
    <3>3. spc' # "send" => SendLeft' = 0
      BY DEF SendLeft
    <3>4. CASE spc' = "send"
      <4>1. MaxSend - timer' \in Nat /\ MaxSend - timer' <= MaxSend
        BY <2>1, <2>2, <3>1, <3>4, Zenon
      <4> QED
        BY <3>2, <3>4, <4>1, Zenon
    <3>5. CASE spc' # "send"
      BY <2>2, <3>3, <3>5
    <3> QED
      BY <3>4, <3>5
  <2> QED
    BY <2>3, <2>4
<1>f. /\ c \in heap => Turn(s) + SendLeft - left[c] <= UrgentTime
      /\ c = job => MaxSend - timer - left[c] <= UrgentTime
      /\ c = mailbox =>
           Turn(s) + (IF spc = "peek" THEN MaxSend ELSE SendLeft) - left[c]
             <= UrgentTime
      /\ c = pending /\ CanPut => Turn(s) + MaxSend - left[c] <= UrgentTime
      /\ c = pending /\ guarded /\ spc \in {"sleep", "send"} =>
           Turn(s) + MaxSend + (IF spc = "send" THEN SendLeft ELSE timer)
             - left[c] <= UrgentTime
  BY DEF IInv, UrgentInv
<1>g. c = pending /\ guarded /\ spc = "peek" => -left[c] <= MaxSend
  <2>1. pending # NoCommand /\ guarded /\ spc = "peek" => Age(pending) <= MaxSend
    BY DEF IInv, PendingInv, WaitsForLock
  <2>2. Age(c) = -left[c]
    BY <1>a, <1>b DEF Age
  <2> QED
    BY <2>1, <2>2, <1>a
<1>h. ASSUME heap' \cap {LC(t) : t \in Sensor} = {}, mailbox' = NoCommand, pending' = c
      PROVE  Turn(s)' = MaxSend
  <2>1. AheadOf(s)' = {}
    BY <1>h, Commands DEF AheadOf
  <2>2. Cardinality(AheadOf(s))' = 0
    BY <2>1, FS_EmptySet
  <2> QED
    BY <2>2, <1>c DEF Turn, Publishes
<1> HIDE DEF c
<1>1. CASE UNCHANGED vars
  <2>1. Turn(s)' = Turn(s) /\ SendLeft' = SendLeft /\ CanPut' = CanPut
    BY <1>1 DEF vars, Turn, AheadOf, SendLeft, CanPut
  <2> QED
    BY <2>1, <1>1, <1>f DEF vars
<1>2. CASE Tick
  <2>1. /\ UNCHANGED <<heap, job, mailbox, guarded, spc, pending>>
        /\ left'[c] = left[c] - 1 /\ c \in OnTheirWay /\ ~CanPut
        /\ \/ spc = "sleep" /\ timer > 0 /\ mailbox = NoCommand /\ timer' = timer - 1
           \/ spc = "send" /\ timer < MaxSend /\ timer' = timer + 1
    BY <1>2, Ticks DEF c
  <2>2. ~CanPut'
    BY <2>1 DEF CanPut
  <2>3. Turn(s)' = Turn(s)
    <3>1. \A t \in Sensor : LC(t) \in heap \cup {mailbox, pending} =>
            left'[LC(t)] = left[LC(t)] - 1 /\ left[LC(t)] \in Int
      BY <1>2, Ticks, Commands DEF OnTheirWay
    <3>2. AheadOf(s)' = AheadOf(s)
      BY <3>1, <2>1, <1>b DEF AheadOf, c
    <3> QED
      BY <3>2 DEF Turn
  <2>4. CASE spc = "send" /\ timer' = timer + 1 /\ timer < MaxSend
    <3>1. SendLeft' = MaxSend - timer' /\ SendLeft = MaxSend - timer
      BY <2>1, <2>4 DEF SendLeft
    <3> QED
      BY <2>1, <2>2, <2>3, <2>4, <3>1, <1>b, <1>c, <1>d, <1>f
  <2>5. CASE spc = "sleep" /\ timer > 0 /\ timer' = timer - 1 /\ mailbox = NoCommand
    <3>1. c \notin heap
      BY <2>5, <1>a, <1>b, SleepFacts DEF IInv
    <3>2. c # job
      BY <2>5, <1>a, <1>b DEF StepInv
    <3> QED
      BY <2>1, <2>2, <2>3, <2>5, <3>1, <3>2, <1>a, <1>b, <1>c, <1>d, <1>f
  <2> QED
    BY <2>1, <2>4, <2>5
<1>3. ASSUME NEW d \in OneShot, Trigger(d), ~Tick PROVE Goal
  <2>1. /\ UNCHANGED <<heap, job, mailbox, guarded, spc, timer>>
        /\ SendLeft' = SendLeft /\ pending = NoCommand
        /\ d \notin OnTheirWay
        /\ pending' \in {d, NoCommand}
    BY <1>3, TriggersOnce DEF Trigger, SendLeft
  <2>2. CASE c \in OnTheirWay
    <3>1. left'[c] = left[c] /\ c # pending'
      BY <2>1, <2>2, <1>3, <1>a, Moves DEF c
    <3>2. left[c] <= 0
      BY <2>2, <1>a, <1>b DEF AgeInv, Age
    <3>3. CASE Turn(s)' <= Turn(s)
      BY <2>1, <3>1, <3>3, <1>b, <1>c, <1>d, <1>e, <1>f
    <3>4. CASE left[c] = 0
      BY <2>1, <3>1, <3>4, <1>b, <1>c, <1>d, <1>e, <1>f
    <3> QED
      BY <2>2, <3>3, <3>4, <1>d
  <2>3. CASE c \notin OnTheirWay
    <3>1. left'[c] = 0 /\ pending' = c
      BY <2>3, <1>3, <1>a, Moves DEF c
    <3>2. c \notin heap /\ c # job /\ c # mailbox
      BY <2>3, <1>a DEF OnTheirWay
    <3>3. CASE spc = "sleep" /\ guarded /\ timer > 0
      <4>1. timer <= ReRequestDelay /\ mailbox = NoCommand
        BY <3>3, <1>b, SleepFacts DEF StepInv
      <4>2. heap \cap {LC(t) : t \in Sensor} = {}
        BY <3>3, <1>b, SleepFacts, Commands
      <4>3. Turn(s)' = MaxSend
        BY <4>1, <4>2, <2>1, <3>1, <1>h
      <4> QED
        BY <4>1, <4>3, <2>1, <3>1, <3>2, <3>3, <1>b, <1>c, <1>d
    <3>4. CASE ~(spc = "sleep" /\ guarded /\ timer > 0)
      <4>1. guarded /\ spc \in {"sleep", "send"} =>
              (IF spc = "send" THEN SendLeft ELSE timer) <= MaxSend
        BY <3>4, <1>b, <1>c, <1>e
      <4> QED
        BY <4>1, <2>1, <3>1, <3>2, <1>b, <1>c, <1>d, <1>e
    <3> QED
      BY <3>3, <3>4
  <2> QED
    BY <2>2, <2>3
<1>4. ASSUME ~Tick, \A d \in OneShot : ~Trigger(d)
      PROVE  /\ c \in OnTheirWay /\ left'[c] = left[c]
             /\ Turn(s)' <= Turn(s)
  <2>1. c \in OnTheirWay /\ left'[c] = left[c]
    BY <1>4, <1>a, Moves DEF c
  <2> QED
    BY <2>1, <1>4, <1>d
<1> SUFFICES ASSUME ~Tick, \A d \in OneShot : ~Trigger(d) PROVE Goal
  BY <1>2, <1>3
<1>5. /\ left'[c] = left[c] /\ Turn(s)' <= Turn(s)
      /\ c \in heap \/ c = job \/ c = mailbox \/ c = pending
  BY <1>4 DEF OnTheirWay
<1>6. CASE Put
  <2>1. /\ mailbox' = pending /\ pending' = NoCommand /\ CanPut
        /\ UNCHANGED <<heap, job, spc, timer>> /\ SendLeft' = SendLeft
    BY <1>6 DEF Put, SendLeft
  <2> QED
    BY <2>1, <1>5, <1>a, <1>b, <1>c, <1>d, <1>e, <1>f
<1>7. CASE ReadNow
  <2>1. /\ UNCHANGED <<heap, job, mailbox, guarded, pending, timer>>
        /\ spc = "loop" /\ spc' = "lock" /\ ~guarded
        /\ SendLeft' = 0 /\ SendLeft = 0 /\ CanPut' = CanPut
    BY <1>7, <1>b DEF ReadNow, SendLeft, CanPut, StepInv
  <2> QED
    BY <2>1, <1>5, <1>a, <1>b, <1>c, <1>d, <1>f
<1>8. CASE CheckMailbox
  <2>1. /\ heap' = heap \cup ({mailbox} \ {NoCommand}) /\ mailbox' = NoCommand
        /\ (guarded' <=> mailbox # NoCommand) /\ UNCHANGED <<job, pending, timer>>
        /\ spc = "lock" /\ spc' = "peek" /\ ~guarded
        /\ SendLeft' = 0 /\ SendLeft = 0 /\ (CanPut' => CanPut)
    BY <1>8, <1>b DEF CheckMailbox, Taken, KeepsGuard, SendLeft, CanPut, StepInv
  <2> QED
    BY <2>1, <1>5, <1>a, <1>b, <1>c, <1>d, <1>f
<1>9. CASE Wake
  <2>1. /\ UNCHANGED <<heap, job, mailbox, pending>> /\ guarded' = FALSE
        /\ spc = "sleep" /\ spc' = "loop"
        /\ SendLeft' = 0 /\ SendLeft = 0 /\ (CanPut' => CanPut \/ guarded)
    BY <1>9 DEF Wake, EndIteration, SendLeft, CanPut
  <2>2. c # job
    BY <2>1, <1>a, <1>b DEF StepInv
  <2> QED
    BY <2>1, <2>2, <1>5, <1>a, <1>b, <1>c, <1>d, <1>f
<1>10. CASE CompleteCommand
  <2>1. /\ heap' \subseteq heap \cup {job} /\ (job \notin Periodic => heap' = heap)
        /\ UNCHANGED <<mailbox, pending>> /\ guarded' = FALSE /\ job' = NoCommand
        /\ spc = "send" /\ spc' = "loop"
        /\ SendLeft' = 0 /\ (CanPut' => CanPut \/ guarded)
    BY <1>10 DEF CompleteCommand, EndIteration, SendLeft, CanPut
  <2>2. c \in heap' => c \in heap
    BY <2>1, <1>a, Commands
  <2> QED
    BY <2>1, <2>2, <1>5, <1>a, <1>b, <1>c, <1>d, <1>e, <1>f
<1>11. ASSUME NEW d \in Command, Release(d) PROVE Goal
  <2>1. /\ IsTop(d) /\ d \in heap /\ heap' = heap \ {d} /\ spc = "peek"
        /\ UNCHANGED <<mailbox, pending>> /\ timer = 0 /\ SendLeft = 0
    BY <1>11, <1>b DEF Release, IsTop, StepInv, SendLeft
  <2>2. c \in heap => d \in OneShot /\ d.type = "LC" /\ left[d] <= left[c]
    BY <2>1, <1>a, <1>b, TopFacts
  <2>3. CASE spc' = "send" /\ job' = d /\ timer' = 0 /\ guarded' = guarded
    <3>1. SendLeft' = MaxSend /\ CanPut' = CanPut
      BY <2>1, <2>3, <1>c DEF SendLeft, CanPut
    <3>2. c \in heap' => Turn(s)' + MaxSend <= Turn(s)
      <4> SUFFICES ASSUME c \in heap' PROVE Turn(s)' + MaxSend <= Turn(s)
        OBVIOUS
      <4>1. d \in OneShot /\ d.type = "LC" /\ left[d] <= left[c] /\ d # c /\ c \in heap
        BY <2>1, <2>2
      <4>2. d.sensor \in Sensor /\ d = LC(d.sensor)
        BY <4>1, Commands
      <4>3. d.sensor \in AheadOf(s)
        BY <4>1, <4>2, <2>1 DEF AheadOf, c
      <4> QED
        BY <4>1, <4>2, <4>3, <1>11, TurnStep DEF c
    <3>3. c = job' => c \in heap
      BY <2>1, <2>3
    <3>4. c = pending' /\ guarded' => -left[c] <= MaxSend
      BY <2>1, <2>3, <1>g
    <3>5. /\ c \in heap' => Turn(s)' + SendLeft' - left'[c] <= UrgentTime
          /\ c = job' => MaxSend - timer' - left'[c] <= UrgentTime
      <4>1. Turn(s) >= MaxSend
        BY TurnType
      <4> QED
        BY <2>1, <2>3, <3>1, <3>2, <3>3, <4>1, <1>5, <1>b, <1>c, <1>d, <1>f
    <3>6. c = mailbox' =>
            Turn(s)' + (IF spc' = "peek" THEN MaxSend ELSE SendLeft') - left'[c]
              <= UrgentTime
      BY <2>1, <2>3, <3>1, <1>5, <1>b, <1>c, <1>d, <1>f
    <3>7. c = pending' /\ CanPut' => Turn(s)' + MaxSend - left'[c] <= UrgentTime
      BY <2>1, <3>1, <1>5, <1>b, <1>c, <1>d, <1>f
    <3> QED
      BY <2>3, <3>1, <3>4, <3>5, <3>6, <3>7, <1>5, <1>b, <1>c, <1>d
  <2>4. CASE spc' = "loop" /\ job' = NoCommand /\ guarded' = FALSE /\ d.type = "RR"
    <3>1. SendLeft' = 0 /\ (CanPut' => CanPut \/ guarded)
      BY <2>1, <2>4 DEF SendLeft, CanPut
    <3>2. c \notin heap
      BY <2>2, <2>4
    <3>3. c = pending' /\ guarded => -left[c] <= MaxSend
      BY <2>1, <1>g
    <3> QED
      BY <2>1, <2>4, <3>1, <3>2, <3>3, <1>5, <1>a, <1>b, <1>c, <1>d, <1>f
  <2> QED
    BY <1>11, <2>1, <2>3, <2>4 DEF Release, EndIteration
<1>12. ASSUME NEW d \in Command, Sleep(d) PROVE Goal
  <2>1. /\ IsTop(d) /\ d \in heap /\ spc = "peek" /\ spc' = "sleep"
        /\ timer' = left[d] /\ left[d] >= 0
        /\ UNCHANGED <<heap, job, mailbox, guarded, pending>>
        /\ SendLeft' = 0 /\ SendLeft = 0 /\ CanPut' = CanPut
    BY <1>12, <1>b DEF Sleep, IsTop, SendLeft, CanPut
  <2>2. c # job
    BY <2>1, <1>a, <1>b DEF StepInv
  <2>3. ASSUME c = pending, guarded
        PROVE  Turn(s)' + MaxSend + timer' - left[c] <= UrgentTime
    <3>1. -left[c] <= MaxSend /\ mailbox = NoCommand
      BY <2>1, <2>3, <1>b, <1>g DEF StepInv
    <3>2. CASE timer' = 0
      BY <3>1, <3>2, <1>b, <1>c, <1>d
    <3>3. CASE timer' # 0
      <4>1. d \notin OneShot \/ d.type # "LC"
        <5> SUFFICES ASSUME d \in OneShot, d.type = "LC" PROVE timer' = 0
          BY <3>3
        <5>1. d \in OnTheirWay /\ ReleaseDelay(d) = 0 /\ left[d] \in Int
          BY <2>1, <1>b, Commands DEF OnTheirWay
        <5> QED
          BY <5>1, <2>1, <1>b DEF AgeInv, Age
      <4>2. heap' \cap {LC(t) : t \in Sensor} = {}
        <5> SUFFICES ASSUME NEW t \in Sensor, LC(t) \in heap PROVE FALSE
          BY <2>1
        <5> QED
          BY <4>1, <2>1, <1>b, TopFacts, Commands
      <4>3. Turn(s)' = MaxSend
        BY <4>2, <3>1, <2>1, <2>3, <1>h
      <4>4. timer' + Age(pending)' <= ReRequestDelay
        BY <2>1, <2>3, <3>3, <1>a DEF PendingInv, WaitsForLock
      <4>5. Age(pending)' = -left[c]
        BY <2>1, <2>3, <1>5, <1>a, <1>b DEF Age
      <4> QED
        BY <4>3, <4>4, <4>5, <1>b, <1>c
    <3> QED
      BY <3>2, <3>3
  <2> QED
    BY <2>1, <2>2, <2>3, <1>5, <1>a, <1>b, <1>c, <1>d, <1>f
<1> QED
  BY <1>1, <1>6, <1>7, <1>8, <1>9, <1>10, <1>11, <1>12 DEF Next, Receiver, Scheduler

(* A default command stays in the heap until it is published, and its      *)
(* release time counts on.                                                 *)
LEMMA DefaultMoves ==
  ASSUME TypeOK, IInv, [Next]_vars, ~Tick, NEW c \in Periodic, c \in heap
  PROVE  /\ left'[c] = left[c]
         /\ c \in heap' \/ (Release(c) /\ job' = c)
<1>a. /\ c \in Command /\ c \notin OneShot /\ c.type # "RR"
      /\ left \in [Command -> Int]
  BY Commands DEF TypeOK
<1>1. CASE UNCHANGED vars
  BY <1>1 DEF vars
<1>2. CASE Put
  BY <1>2 DEF Put
<1>3. ASSUME NEW d \in OneShot, Trigger(d)
      PROVE  left'[c] = left[c] /\ c \in heap'
  BY <1>3, <1>a DEF Trigger
<1>4. CASE ReadNow
  BY <1>4 DEF ReadNow
<1>5. CASE CheckMailbox
  BY <1>5 DEF CheckMailbox
<1>6. CASE Wake
  BY <1>6 DEF Wake
<1>7. CASE CompleteCommand
  <2>1. c # job
    BY DEF IInv, OnePlace
  <2> QED
    BY <1>7, <2>1, <1>a DEF CompleteCommand
<1>8. ASSUME NEW d \in Command, Release(d)
      PROVE  /\ left'[c] = left[c]
             /\ c \in heap' \/ (Release(c) /\ job' = c)
  <2>1. CASE d = c
    BY <2>1, <1>8, <1>a DEF Release
  <2>2. CASE d # c
    BY <2>2, <1>8, <1>a DEF Release
  <2> QED
    BY <2>1, <2>2
<1>9. ASSUME NEW d \in Command, Sleep(d)
      PROVE  left'[c] = left[c] /\ c \in heap'
  BY <1>9 DEF Sleep
<1> QED
  BY <1>1, <1>2, <1>3, <1>4, <1>5, <1>6, <1>7, <1>8, <1>9
     DEF Next, Receiver, Scheduler

(* While a command is due, and its lateness within the cooldowns, what is  *)
(* done with stays so, and what is finished or rejected joins it.          *)
LEMMA DoneStep ==
  ASSUME TypeOK, IInv, [Next]_vars, NEW c \in Command,
         Cooldown - OneShotTime + left[c] > 0,
         left'[c] = IF Tick THEN left[c] - 1 ELSE left[c]
  PROVE  /\ Done(c) \subseteq Done(c)' /\ DoneRequests(c) \subseteq DoneRequests(c)'
         /\ \A d \in OneShot \ {c} :
              left[c] <= 0 /\ d \in OnTheirWay /\ d \notin OnTheirWay' =>
                d \notin Done(c) /\ d \in Done(c)'
<1>a. /\ left[c] \in Int /\ cooldown \in [OneShot -> Nat]
      /\ Cooldown \in Nat /\ OneShotTime \in Nat /\ Cooldown > 2 * OneShotTime
  BY TimeAssumption, Bounds, CooldownAssumption DEF TypeOK
<1>1. CASE Tick
  <2>1. /\ OnTheirWay' = OnTheirWay /\ left'[c] = left[c] - 1
        /\ \A d \in OneShot : cooldown[d] > 0 => cooldown'[d] = cooldown[d] - 1
    BY <1>1, Ticks
  <2>2. Done(c) \subseteq Done(c)'
    <3> SUFFICES ASSUME NEW d \in OneShot, d # c, d \notin OnTheirWay,
                        cooldown[d] >= Cooldown - OneShotTime + left[c]
                 PROVE  /\ d \notin OnTheirWay'
                        /\ cooldown'[d] >= Cooldown - OneShotTime + left'[c]
      BY DEF Done
    <3>1. cooldown[d] \in Nat /\ cooldown[d] > 0
      BY <1>a
    <3>2. cooldown'[d] = cooldown[d] - 1
      BY <2>1, <3>1
    <3> QED
      BY <2>1, <3>1, <3>2, <1>a
  <2>3. DoneRequests(c) \subseteq DoneRequests(c)'
    BY <2>2 DEF DoneRequests
  <2> QED
    BY <2>1, <2>2, <2>3
<1>2. CASE ~Tick
  <2>1. ASSUME NEW d \in OneShot, cooldown[d] > 0
        PROVE  /\ cooldown'[d] = cooldown[d]
               /\ d \in OnTheirWay' => d \in OnTheirWay
    <3>1. ~Trigger(d)
      BY <2>1 DEF Trigger
    <3>2. cooldown'[d] = cooldown[d]
      <4>1. ASSUME NEW e \in OneShot, Trigger(e) PROVE cooldown'[d] = cooldown[d]
        BY <4>1, <3>1, <1>a DEF Trigger, CoolDown
      <4>2. CASE UNCHANGED vars
        BY <4>2 DEF vars
      <4> QED
        BY <1>2, <4>1, <4>2 DEF Next, Receiver, Scheduler, Put, ReadNow, CheckMailbox,
           Wake, CompleteCommand, Release, Sleep
    <3> QED
      BY <3>1, <3>2, <1>2, Moves
  <2>2. left'[c] = left[c]
    BY <1>2
  <2>3. Done(c) \subseteq Done(c)'
    <3> SUFFICES ASSUME NEW d \in OneShot, d # c, d \notin OnTheirWay,
                        cooldown[d] >= Cooldown - OneShotTime + left[c]
                 PROVE  /\ d \notin OnTheirWay'
                        /\ cooldown'[d] >= Cooldown - OneShotTime + left'[c]
      BY DEF Done
    <3>1. cooldown[d] > 0
      BY <1>a
    <3> QED
      BY <2>1, <2>2, <3>1
  <2>4. DoneRequests(c) \subseteq DoneRequests(c)'
    BY <2>3 DEF DoneRequests
  <2>5. ASSUME NEW d \in OneShot, d # c, left[c] <= 0, d \in OnTheirWay,
               d \notin OnTheirWay'
        PROVE  d \notin Done(c) /\ d \in Done(c)'
    <3>1. cooldown[d] >= Cooldown - OneShotTime /\ cooldown[d] \in Nat
      BY <2>5, <1>a, DelaysAreBounded DEF DelaysBounded
    <3>2. cooldown[d] > 0 /\ cooldown[d] >= Cooldown - OneShotTime + left[c]
      BY <3>1, <2>5, <1>a
    <3> QED
      BY <2>1, <2>2, <2>5, <3>2 DEF Done
  <2> QED
    BY <2>3, <2>4, <2>5
<1> QED
  BY <1>1, <1>2

(* Counted in publishes and in re-requests' delays.                        *)
LEMMA DoneTime ==
  ASSUME TypeOK, IInv, [Next]_vars, NEW c \in Command,
         Cooldown - OneShotTime + left[c] > 0,
         left'[c] = IF Tick THEN left[c] - 1 ELSE left[c]
  PROVE  /\ Publishes(Cardinality(Done(c))) \in Nat
         /\ Publishes(Cardinality(Done(c))') \in Nat
         /\ Publishes(Cardinality(Done(c))) <= Publishes(Cardinality(Done(c))')
         /\ Waits(Cardinality(DoneRequests(c))) \in Nat
         /\ Waits(Cardinality(DoneRequests(c))') \in Nat
         /\ Waits(Cardinality(DoneRequests(c))) <= Waits(Cardinality(DoneRequests(c))')
         /\ \A d \in OneShot \ {c} :
              left[c] <= 0 /\ d \in OnTheirWay /\ d \notin OnTheirWay' =>
                /\ Publishes(Cardinality(Done(c))) + MaxSend
                     <= Publishes(Cardinality(Done(c))')
                /\ d.type = "RR" =>
                     Waits(Cardinality(DoneRequests(c))) + ReRequestDelay
                       <= Waits(Cardinality(DoneRequests(c))')
<1>1. /\ Done(c) \subseteq Done(c)' /\ DoneRequests(c) \subseteq DoneRequests(c)'
      /\ \A d \in OneShot \ {c} :
           left[c] <= 0 /\ d \in OnTheirWay /\ d \notin OnTheirWay' =>
             d \notin Done(c) /\ d \in Done(c)'
  BY DoneStep
<1>2. IsFiniteSet(Done(c)') /\ IsFiniteSet(DoneRequests(c)')
  <2>1. Done(c)' \in SUBSET OneShot /\ DoneRequests(c)' \in SUBSET OneShot
    BY DEF Done, DoneRequests
  <2> QED
    BY <2>1, OneShotCount, FS_Subset
<1>3. /\ Cardinality(Done(c)) \in Nat /\ Cardinality(Done(c)') \in Nat
      /\ Cardinality(Done(c)) <= Cardinality(Done(c)')
      /\ Cardinality(DoneRequests(c)) \in Nat /\ Cardinality(DoneRequests(c)') \in Nat
      /\ Cardinality(DoneRequests(c)) <= Cardinality(DoneRequests(c)')
  BY <1>1, <1>2, NoFewer
<1>4. ASSUME NEW d \in OneShot, d # c, left[c] <= 0, d \in OnTheirWay,
             d \notin OnTheirWay'
      PROVE  /\ Cardinality(Done(c)) + 1 <= Cardinality(Done(c)')
             /\ d.type = "RR" =>
                  Cardinality(DoneRequests(c)) + 1 <= Cardinality(DoneRequests(c)')
  <2>1. d \notin Done(c) /\ d \in Done(c)'
    BY <1>1, <1>4
  <2>2. Cardinality(Done(c)) + 1 <= Cardinality(Done(c)')
    BY <2>1, <1>1, <1>2, OneMore
  <2>3. ASSUME d.type = "RR"
        PROVE  Cardinality(DoneRequests(c)) + 1 <= Cardinality(DoneRequests(c)')
    <3>1. d \notin DoneRequests(c) /\ d \in DoneRequests(c)'
      BY <2>1, <2>3 DEF DoneRequests
    <3> QED
      BY <3>1, <1>1, <1>2, OneMore
  <2> QED
    BY <2>2, <2>3
<1>5. \A j, k \in Nat : j + 1 <= k => /\ Publishes(j) + MaxSend <= Publishes(k)
                                      /\ Waits(j) + ReRequestDelay <= Waits(k)
  <2> SUFFICES ASSUME NEW j \in Nat, NEW k \in Nat, j + 1 <= k
               PROVE  /\ Publishes(j) + MaxSend <= Publishes(k)
                      /\ Waits(j) + ReRequestDelay <= Waits(k)
    OBVIOUS
  <2>1. /\ Publishes(j + 1) = Publishes(j) + MaxSend
        /\ Waits(j + 1) = Waits(j) + ReRequestDelay
    BY PublishesTake, WaitsTake
  <2>2. j + 1 \in Nat
    OBVIOUS
  <2>3. Publishes(j + 1) <= Publishes(k) /\ Waits(j + 1) <= Waits(k)
    BY <2>2, PublishesTake, WaitsTake
  <2> QED
    BY <2>1, <2>3
<1>6. \A d \in OneShot \ {c} :
        left[c] <= 0 /\ d \in OnTheirWay /\ d \notin OnTheirWay' =>
          /\ Publishes(Cardinality(Done(c))) + MaxSend
               <= Publishes(Cardinality(Done(c))')
          /\ d.type = "RR" =>
               Waits(Cardinality(DoneRequests(c))) + ReRequestDelay
                 <= Waits(Cardinality(DoneRequests(c))')
  BY <1>3, <1>4, <1>5
<1> QED
  BY <1>3, <1>6, PublishesTake, WaitsTake

(* A re-request that is due is passed by what was triggered before, once.  *)
LEMMA RequestStep ==
  TypeOK /\ IInv /\ [Next]_vars /\ OnePlace' /\ StepInv' => RequestInv'
<1> SUFFICES ASSUME TypeOK, IInv, [Next]_vars, OnePlace', StepInv',
                    NEW c \in OneShot, c.type = "RR", c \in OnTheirWay'
             PROVE  /\ c \in heap' /\ left'[c] <= 0 =>
                         Age(c)' <= PutTime + MaxSend
                                    + Publishes(Cardinality(Done(c))') + Sending'
                    /\ c = job' => Age(c)' <= PutTime + Publishes(2 * N) + timer'
  BY Commands, TypeStep DEF RequestInv, OnTheirWay, TypeOK
<1> DEFINE p == Publishes(Cardinality(Done(c)))
           q == Publishes(Cardinality(Done(c))')
           Goal == /\ c \in heap' /\ left'[c] <= 0 =>
                        Age(c)' <= PutTime + MaxSend + q + Sending'
                   /\ c = job' => Age(c)' <= PutTime + Publishes(2 * N) + timer'
<1> SUFFICES Goal
  OBVIOUS
<1>a. /\ c \in Command /\ c # NoCommand /\ c \notin Periodic
      /\ ReleaseDelay(c) = ReRequestDelay
      /\ left[c] \in Int /\ timer \in Nat /\ timer' \in Nat /\ heap \subseteq Command
      /\ left'[c] \in Int
      /\ StepInv /\ OnePlace /\ HeapInv /\ AgeInv
  BY Commands, TypeStep DEF TypeOK, IInv
<1>b. /\ MaxSend \in Nat /\ ReRequestDelay \in Nat /\ PutTime \in Nat
      /\ ReRequestDelay <= PutTime /\ Publishes(2 * N) \in Nat
  BY TimeAssumption, Bounds, PublishesTake, Counts
<1>c. /\ Age(c) = ReRequestDelay - left[c] /\ Age(c)' = ReRequestDelay - left'[c]
  BY <1>a DEF Age
<1>d. /\ c \in heap /\ left[c] <= 0 => Age(c) <= PutTime + MaxSend + p + Sending
      /\ c = job => Age(c) <= PutTime + Publishes(2 * N) + timer
  BY DEF IInv, RequestInv
<1>e. /\ Cardinality(Done(c))' \in Nat /\ p \in Nat /\ q \in Nat
      /\ p + MaxSend <= Publishes(2 * N)
  <2>1. /\ Cardinality(Done(c)) \in Nat /\ Cardinality(Done(c)) + 1 <= 2 * N
    BY DoneType
  <2>2. Publishes(Cardinality(Done(c)) + 1) <= Publishes(2 * N)
    BY <2>1, PublishesTake, Counts
  <2>3. Done(c)' \in SUBSET OneShot
    BY DEF Done
  <2>4. Cardinality(Done(c)') \in Nat
    BY <2>3, OneShotCount, NoFewer
  <2> QED
    BY <2>1, <2>2, <2>4, PublishesTake
<1>f. ASSUME c \in OnTheirWay, left'[c] = IF Tick THEN left[c] - 1 ELSE left[c]
      PROVE  /\ p <= q
             /\ \A d \in OneShot \ {c} :
                  left[c] <= 0 /\ d \in OnTheirWay /\ d \notin OnTheirWay' =>
                    p + MaxSend <= q
  <2>1. Age(c) <= OneShotTime /\ OneShotTime \in Nat /\ Cooldown \in Nat
        /\ Cooldown > 2 * OneShotTime
    BY <1>f, DelaysAreBounded, Bounds, TimeAssumption, CooldownAssumption
       DEF DelaysBounded
  <2>2. Cooldown - OneShotTime + left[c] > 0
    BY <2>1, <1>a, <1>b, <1>c
  <2> QED
    BY <2>2, <1>a, <1>f, DoneTime
<1> HIDE DEF p, q
<1>1. CASE Tick
  <2>1. /\ UNCHANGED <<heap, job, spc>>
        /\ c \in OnTheirWay /\ left'[c] = left[c] - 1
        /\ \/ spc = "sleep" /\ timer > 0 /\ timer' = timer - 1
           \/ spc = "send" /\ timer < MaxSend /\ timer' = timer + 1
    BY <1>1, Ticks
  <2>2. p <= q
    BY <2>1, <1>1, <1>f
  <2>3. ASSUME left[c] > 0, left'[c] <= 0, c \in heap
        PROVE  Age(c)' <= PutTime + MaxSend + q + Sending'
    <3>1. Sending' \in Nat
      BY <1>a DEF Sending
    <3>2. Age(c)' <= ReRequestDelay
      BY <2>1, <2>3, <1>a, <1>b, <1>c
    <3> QED
      BY <3>1, <3>2, <1>a, <1>b, <1>c, <1>e
  <2>4. CASE spc = "send"
    <3>1. Sending = timer /\ Sending' = timer + 1 /\ timer' = timer + 1
      BY <2>1, <2>4 DEF Sending
    <3>2. c \in heap /\ left[c] <= 0 => Age(c)' <= PutTime + MaxSend + q + Sending'
      BY <2>1, <2>2, <3>1, <1>a, <1>b, <1>c, <1>d, <1>e
    <3>3. c = job => Age(c)' <= PutTime + Publishes(2 * N) + timer'
      BY <2>1, <3>1, <1>a, <1>b, <1>c, <1>d
    <3> QED
      BY <2>1, <2>3, <3>2, <3>3, <1>a
  <2>5. CASE spc = "sleep"
    <3>1. c # job
      BY <2>5, <1>a DEF StepInv
    <3>2. c \in heap => left[c] > 0
      BY <2>1, <2>5, <1>a, SleepFacts DEF IInv
    <3> QED
      BY <2>1, <2>3, <3>1, <3>2
  <2> QED
    BY <2>1, <2>4, <2>5
<1>2. ASSUME ~Tick, c \notin OnTheirWay PROVE c \notin heap' /\ c # job'
  <2>1. pending' = c
    BY <1>2, Moves
  <2> QED
    BY <2>1, <1>a DEF OnePlace
<1> SUFFICES ASSUME ~Tick, c \in OnTheirWay PROVE Goal
  BY <1>1, <1>2
<1>3. left'[c] = left[c] /\ Age(c)' = Age(c)
  BY Moves DEF Age
<1>4. /\ p <= q
      /\ \A d \in OneShot \ {c} :
           left[c] <= 0 /\ d \in OnTheirWay /\ d \notin OnTheirWay' => p + MaxSend <= q
  BY <1>3, <1>f
<1>5. ASSUME UNCHANGED <<heap, job, timer>>, Sending' = Sending PROVE Goal
  BY <1>5, <1>3, <1>4, <1>a, <1>b, <1>c, <1>d, <1>e DEF Sending
<1>6. CASE UNCHANGED vars \/ Put \/ \E d \in OneShot : Trigger(d)
  <2>1. UNCHANGED <<heap, job, spc, timer>>
    BY <1>6 DEF vars, Put, Trigger
  <2> QED
    BY <2>1, <1>5 DEF Sending
<1>7. CASE ReadNow
  <2>1. UNCHANGED <<heap, job, timer>> /\ Sending' = Sending
    BY <1>7 DEF ReadNow, Sending
  <2> QED
    BY <2>1, <1>5
<1>8. CASE CheckMailbox
  <2>1. /\ heap' = heap \cup ({mailbox} \ {NoCommand}) /\ UNCHANGED <<job, timer>>
        /\ spc = "lock" /\ Sending = 0 /\ Sending' = 0
    BY <1>8 DEF CheckMailbox, Taken, Sending
  <2>2. c # job'
    BY <2>1, <1>a DEF StepInv
  <2>3. c = mailbox => Age(c) <= PutTime + MaxSend
    BY <2>1, <1>a DEF IInv, MailboxInv
  <2> QED
    BY <2>1, <2>2, <2>3, <1>3, <1>4, <1>a, <1>b, <1>c, <1>d, <1>e
<1>9. CASE Wake
  <2>1. UNCHANGED <<heap, job>> /\ spc = "sleep" /\ Sending = 0 /\ Sending' = 0
    BY <1>9 DEF Wake, EndIteration, Sending
  <2>2. c # job'
    BY <2>1, <1>a DEF StepInv
  <2> QED
    BY <2>1, <2>2, <1>3, <1>4, <1>a, <1>b, <1>c, <1>d, <1>e
<1>10. CASE CompleteCommand
  <2>1. /\ heap' = IF job \in Periodic THEN heap \cup {job} ELSE heap
        /\ UNCHANGED <<mailbox, pending>> /\ job' = NoCommand
        /\ spc = "send" /\ Sending = timer /\ timer <= MaxSend /\ Sending' = 0
        /\ job # NoCommand
    BY <1>10, <1>a DEF CompleteCommand, EndIteration, Sending, StepInv
  <2>2. c # job' /\ (c \in heap' => c \in heap)
    BY <2>1, <1>a
  <2>3. ASSUME c \in heap, left[c] <= 0 PROVE p + MaxSend <= q
    <3>1. job \notin Periodic /\ job # c
      BY <2>3, <1>a DEF HeapInv, OnePlace
    <3>2. job \in OneShot \ {c} /\ job \in OnTheirWay
      BY <2>1, <3>1 DEF TypeOK, Command, OnTheirWay
    <3>3. job \notin OnTheirWay'
      BY <2>1, <3>1, <1>a DEF OnTheirWay, OnePlace
    <3> QED
      BY <2>3, <3>2, <3>3, <1>4
  <2> QED
    BY <2>1, <2>2, <2>3, <1>3, <1>4, <1>a, <1>b, <1>c, <1>d, <1>e
<1>11. ASSUME NEW d \in Command, Release(d) PROVE Goal
  <2>1. /\ IsTop(d) /\ d \in heap /\ left[d] <= 0 /\ heap' = heap \ {d}
        /\ spc = "peek" /\ Sending = 0 /\ timer = 0
        /\ \/ spc' = "send" /\ job' = d /\ timer' = 0
           \/ spc' = "loop" /\ job' = NoCommand
    BY <1>11, <1>a DEF Release, IsTop, EndIteration, Sending, StepInv
  <2>2. Sending' = 0
    BY <2>1 DEF Sending
  <2>3. c = job' => c \in heap /\ left[c] <= 0 /\ timer' = 0
    BY <2>1, <1>a
  <2>4. c = job' => Age(c)' <= PutTime + Publishes(2 * N) + timer'
    BY <2>1, <2>3, <1>3, <1>a, <1>b, <1>c, <1>d, <1>e
  <2> QED
    BY <2>1, <2>2, <2>4, <1>3, <1>4, <1>a, <1>b, <1>c, <1>d, <1>e
<1>12. ASSUME NEW d \in Command, Sleep(d) PROVE Goal
  <2>1. /\ UNCHANGED <<heap, job>> /\ spc = "peek" /\ Sending = 0 /\ Sending' = 0
    BY <1>12 DEF Sleep, Sending
  <2>2. c # job'
    BY <2>1, <1>a DEF StepInv
  <2> QED
    BY <2>1, <2>2, <1>3, <1>4, <1>a, <1>b, <1>c, <1>d, <1>e
<1> QED
  BY <1>6, <1>7, <1>8, <1>9, <1>10, <1>11, <1>12 DEF Next, Receiver, Scheduler

(* What a default waits for is at most what DefaultTime counts.            *)
LEMMA WaitedBounded ==
  ASSUME TypeOK, NEW c \in Periodic
  PROVE  /\ Waited(c) \in Nat
         /\ spc # "send" => Waited(c) <= DefaultTime - MaxSend
         /\ StepInv => Waited(c) <= DefaultTime
         /\ \A d \in OneShot : d.type = "RR" /\ d \in OnTheirWay /\ StepInv =>
              Waited(c) + ReRequestDelay <= DefaultTime
<1> DEFINE r == Waits(Cardinality(DoneRequests(c)))
           p == Publishes(Cardinality(Done(c)))
           b == Publishes(Cardinality(Behind(c)))
<1>1. /\ Cardinality(Done(c)) \in Nat /\ Cardinality(Done(c)) <= 2 * N
      /\ Cardinality(DoneRequests(c)) \in Nat /\ Cardinality(DoneRequests(c)) <= N
      /\ 2 * N \in Nat /\ N \in Nat
  BY DoneType, Counts
<1>2. r \in Nat /\ r <= Waits(N) /\ p \in Nat /\ p <= Publishes(2 * N)
  BY <1>1, PublishesTake, WaitsTake
<1>3. b \in Nat /\ b + MaxSend <= Publishes(Cardinality(Default))
  <2>1. Behind(c) \in SUBSET (Periodic \ {c})
    BY DEF Behind
  <2>2. /\ Cardinality(Behind(c)) \in Nat
        /\ Cardinality(Behind(c)) + 1 <= Cardinality(Periodic)
        /\ Cardinality(Periodic) \in Nat
    BY <2>1, PeriodicCount, OthersCount
  <2>3. Cardinality(Behind(c)) + 1 <= Cardinality(Default)
        /\ Cardinality(Behind(c)) + 1 \in Nat
    BY <2>2, PeriodicCount, Counts
  <2>4. Publishes(Cardinality(Behind(c)) + 1) <= Publishes(Cardinality(Default))
    BY <2>3, PublishesTake, Counts
  <2> QED
    BY <2>2, <2>4, PublishesTake
<1>4. ASSUME NEW d \in OneShot, d.type = "RR", d \in OnTheirWay
      PROVE  r + ReRequestDelay <= Waits(N)
  <2> DEFINE Requests == {e \in OneShot : e.type = "RR"}
  <2>1. d \in Requests /\ DoneRequests(c) \in SUBSET (Requests \ {d})
    BY <1>4 DEF DoneRequests, Done
  <2>2. IsFiniteSet(Requests) /\ Cardinality(Requests) <= N
    BY OneShotCount
  <2> HIDE DEF Requests
  <2>3. Cardinality(DoneRequests(c)) + 1 <= Cardinality(Requests)
        /\ Cardinality(Requests) \in Nat
    BY <2>1, <2>2, OthersCount
  <2>4. Cardinality(DoneRequests(c)) + 1 <= N
        /\ Cardinality(DoneRequests(c)) + 1 \in Nat
    BY <2>2, <2>3, <1>1
  <2>5. Waits(Cardinality(DoneRequests(c)) + 1) <= Waits(N)
    BY <2>4, <1>1, WaitsTake
  <2> QED
    BY <2>5, <1>1, WaitsTake
<1>5. /\ Sending \in Nat /\ (spc # "send" => Sending = 0)
      /\ StepInv => Sending <= MaxSend
  BY TimeAssumption DEF Sending, TypeOK, StepInv
<1>6. /\ Waits(N) \in Nat /\ Publishes(2 * N) \in Nat
      /\ Publishes(Cardinality(Default)) \in Nat
      /\ DefaultTime = Waits(N) + Publishes(2 * N) + Publishes(Cardinality(Default))
      /\ MaxSend \in Nat /\ ReRequestDelay \in Nat
  BY Bounds, Counts, <1>1, PublishesTake, WaitsTake, TimeAssumption
<1>7. Waited(c) = r + p + b + Sending
  BY DEF Waited
<1> HIDE DEF r, p, b
<1>8. /\ Waited(c) \in Nat
      /\ spc # "send" => Waited(c) <= DefaultTime - MaxSend
      /\ StepInv => Waited(c) <= DefaultTime
  BY <1>2, <1>3, <1>5, <1>6, <1>7
<1>9. ASSUME NEW d \in OneShot, d.type = "RR", d \in OnTheirWay, StepInv
      PROVE  Waited(c) + ReRequestDelay <= DefaultTime
  <2>1. r + ReRequestDelay <= Waits(N)
    BY <1>4, <1>9
  <2> QED
    BY <2>1, <1>2, <1>3, <1>5, <1>6, <1>7, <1>9
<1> QED
  BY <1>8, <1>9

LEMMA DefaultBounded == TypeOK /\ IInv => DefaultsDelayed
<1> SUFFICES ASSUME TypeOK, IInv, NEW c \in Periodic
             PROVE  -left[c] <= DefaultTime
  BY DEF DefaultsDelayed
<1>1. /\ c \in Command /\ left[c] \in Int /\ left \in [Command -> Int] /\ timer \in Nat
      /\ StepInv
  BY Commands DEF TypeOK, IInv
<1>2. MaxSend \in Nat /\ ReRequestDelay \in Nat /\ DefaultTime \in Nat
  BY TimeAssumption, Bounds
<1>3. Waited(c) \in Nat /\ Waited(c) <= DefaultTime
  BY <1>1, WaitedBounded
<1>4. CASE c = job
  <2>1. -left[c] <= DefaultTime - MaxSend + timer
    BY <1>4 DEF IInv, DefaultInv
  <2>2. timer <= MaxSend
    BY <1>1, <1>4, Commands DEF StepInv
  <2> QED
    BY <2>1, <2>2, <1>1, <1>2
<1>5. CASE c \in heap /\ left[c] > 0
  BY <1>1, <1>2, <1>5
<1>6. CASE c \in heap /\ left[c] <= 0
  <2>1. -left[c] <= Waited(c) \/ \E d \in OneShot : HeldUp(c, d)
    BY <1>6 DEF IInv, DefaultInv
  <2>2. ASSUME NEW d \in OneShot, HeldUp(c, d) PROVE -left[c] <= DefaultTime
    <3>1. d.type = "RR" /\ d \in OnTheirWay /\ -left[c] <= Waited(c) + ReRequestDelay
      BY <2>2, Commands DEF HeldUp, OnTheirWay
    <3>2. Waited(c) + ReRequestDelay <= DefaultTime
      BY <3>1, <1>1, WaitedBounded
    <3> QED
      BY <3>1, <3>2, <1>1, <1>2, <1>3
  <2> QED
    BY <2>1, <2>2, <1>1, <1>2, <1>3
<1> QED
  BY <1>1, <1>4, <1>5, <1>6 DEF IInv, HeapInv

(* What a default waited for still counts while it waits on, and what is   *)
(* finished, or rejected, counts from then on.                             *)
LEMMA WaitedStep ==
  ASSUME TypeOK, IInv, [Next]_vars, StepInv', OnePlace', NEW c \in Periodic,
         c \in heap, c \in heap', left[c] <= 0
  PROVE  /\ Waited(c)' \in Nat
         /\ Tick => Waited(c)' >= Waited(c) + (IF spc = "send" THEN 1 ELSE 0)
         /\ ~Tick /\ left[c] < 0 => Waited(c)' >= Waited(c)
         /\ \A d \in OneShot :
              ~Tick /\ left[c] < 0 /\ d.type = "RR"
                /\ d \in OnTheirWay /\ d \notin OnTheirWay' =>
                  Waited(c)' >= Waited(c) + ReRequestDelay
<1> DEFINE r == Waits(Cardinality(DoneRequests(c)))
           rr == Waits(Cardinality(DoneRequests(c))')
           p == Publishes(Cardinality(Done(c)))
           pp == Publishes(Cardinality(Done(c))')
           b == Publishes(Cardinality(Behind(c)))
           bb == Publishes(Cardinality(Behind(c))')
<1>a. /\ c \in Command /\ c # NoCommand /\ c \notin OneShot
      /\ left \in [Command -> Int] /\ left[c] \in Int /\ left' \in [Command -> Int]
      /\ timer \in Nat /\ timer' \in Nat
      /\ heap \subseteq Command /\ StepInv /\ OnePlace /\ HeapInv
  BY Commands, TypeStep DEF TypeOK, IInv
<1>b. left'[c] = IF Tick THEN left[c] - 1 ELSE left[c]
  BY <1>a, Ticks, DefaultMoves DEF OnTheirWay
<1>c. Cooldown - OneShotTime + left[c] > 0
  <2>1. -left[c] <= DefaultTime
    BY DefaultBounded DEF DefaultsDelayed
  <2> QED
    BY <2>1, <1>a, Bounds, TimeAssumption, CooldownAssumption
<1>d. /\ r \in Nat /\ rr \in Nat /\ r <= rr /\ p \in Nat /\ pp \in Nat /\ p <= pp
      /\ \A d \in OneShot :
           d \in OnTheirWay /\ d \notin OnTheirWay' =>
             /\ p + MaxSend <= pp
             /\ d.type = "RR" => r + ReRequestDelay <= rr
  BY <1>a, <1>b, <1>c, DoneTime
<1>e. Behind(c) \subseteq Behind(c)'
  <2> SUFFICES ASSUME NEW d \in Periodic, d # c, d \in heap, left[d] > left[c]
               PROVE  d \in heap' /\ left'[d] > left'[c]
    BY DEF Behind
  <2>1. d \in Command /\ left[d] \in Int /\ d # NoCommand
    BY <1>a, Commands
  <2>2. CASE Tick
    BY <2>1, <2>2, <1>a, <1>b, Ticks DEF OnTheirWay
  <2>3. CASE ~Tick
    <3>1. left'[d] = left[d] /\ (d \in heap' \/ Release(d))
      BY <2>3, DefaultMoves
    <3>2. ~Release(d)
      <4> SUFFICES ASSUME IsTop(d) PROVE FALSE
        BY DEF Release
      <4> QED
        BY <1>a, <2>1, TopFacts
    <3> QED
      BY <3>1, <3>2, <2>3, <1>b
  <2> QED
    BY <2>2, <2>3
<1>f. /\ b \in Nat /\ bb \in Nat /\ b <= bb
      /\ \A d \in Behind(c)' : d \notin Behind(c) => b + MaxSend <= bb
  <2>1. Behind(c)' \in SUBSET Periodic
    BY DEF Behind
  <2>2. IsFiniteSet(Behind(c)')
    BY <2>1, PeriodicCount, FS_Subset
  <2>3. /\ Cardinality(Behind(c)) \in Nat /\ Cardinality(Behind(c)') \in Nat
        /\ Cardinality(Behind(c)) <= Cardinality(Behind(c)')
    BY <2>2, <1>e, NoFewer
  <2>4. ASSUME NEW d \in Behind(c)', d \notin Behind(c) PROVE b + MaxSend <= bb
    <3>1. Cardinality(Behind(c)) + 1 <= Cardinality(Behind(c)')
          /\ Cardinality(Behind(c)) + 1 \in Nat
      BY <2>2, <2>3, <2>4, <1>e, OneMore
    <3>2. Publishes(Cardinality(Behind(c)) + 1) <= bb
      BY <2>3, <3>1, PublishesTake
    <3> QED
      BY <2>3, <3>2, PublishesTake
  <2> QED
    BY <2>3, <2>4, PublishesTake
<1>g. /\ Waited(c) = r + p + b + Sending
      /\ Waited(c)' = rr + pp + bb + Sending'
      /\ Sending \in Nat /\ Sending' \in Nat /\ MaxSend \in Nat /\ ReRequestDelay \in Nat
  BY <1>a, TimeAssumption DEF Waited, Sending
<1> HIDE DEF r, rr, p, pp, b, bb
<1>h. Waited(c)' \in Nat
  <2>1. \A i, j, k, l \in Nat : i + j + k + l \in Nat
    OBVIOUS
  <2>2. rr + pp + bb + Sending' \in Nat
    BY <2>1, <1>d, <1>f, <1>g, Zenon
  <2> QED
    BY <2>2, <1>g, Zenon
<1>1. CASE Tick
  <2>1. Sending' = Sending + (IF spc = "send" THEN 1 ELSE 0)
    BY <1>1, Ticks DEF Sending
  <2> QED
    BY <2>1, <1>1, <1>d, <1>f, <1>g
<1>2. CASE ~Tick /\ ~CompleteCommand
  <2>1. Sending' = Sending
    <3>1. UNCHANGED <<spc, timer>> \/ (spc # "send" /\ (spc' # "send" \/ timer' = 0))
      <4>1. CASE UNCHANGED vars
        BY <4>1 DEF vars
      <4>2. CASE Receiver
        BY <4>2 DEF Receiver, Put, Trigger
      <4>3. CASE ReadNow \/ CheckMailbox \/ Wake
        BY <4>3 DEF ReadNow, CheckMailbox, Wake, EndIteration
      <4>4. ASSUME NEW d \in Command, Release(d) \/ Sleep(d)
            PROVE  spc # "send" /\ (spc' # "send" \/ timer' = 0)
        BY <4>4, <1>a DEF Release, Sleep, EndIteration, StepInv
      <4> QED
        BY <1>2, <4>1, <4>2, <4>3, <4>4 DEF Next, Scheduler
    <3> QED
      BY <3>1 DEF Sending
  <2> QED
    BY <2>1, <1>2, <1>d, <1>f, <1>g
<1>3. CASE ~Tick /\ CompleteCommand
  <2>1. /\ heap' = IF job \in Periodic THEN heap \cup {job} ELSE heap
        /\ UNCHANGED <<mailbox, pending>> /\ job' = NoCommand
        /\ Sending <= MaxSend /\ Sending' = 0
        /\ job # NoCommand /\ job \in Command
    BY <1>3, <1>a DEF CompleteCommand, EndIteration, Sending, StepInv, TypeOK
  <2>2. \A d \in OneShot : d \in OnTheirWay /\ d \notin OnTheirWay' => d = job
    BY <2>1, <1>a, Commands DEF OnTheirWay
  <2>3. CASE job \in OneShot
    <3>1. job \notin Periodic
      BY <2>3, Commands
    <3>2. job \in OnTheirWay /\ job \notin OnTheirWay'
      BY <2>1, <3>1, <1>a DEF OnTheirWay, OnePlace
    <3>3. p + MaxSend <= pp /\ (job.type = "RR" => r + ReRequestDelay <= rr)
      BY <2>3, <3>2, <1>d
    <3>4. /\ Waited(c)' >= Waited(c)
          /\ job.type = "RR" => Waited(c)' >= Waited(c) + ReRequestDelay
      BY <2>1, <3>3, <1>d, <1>f, <1>g
    <3>5. \A d \in OneShot :
            d.type = "RR" /\ d \in OnTheirWay /\ d \notin OnTheirWay' =>
              Waited(c)' >= Waited(c) + ReRequestDelay
      BY <2>2, <3>4
    <3> QED
      BY <3>4, <3>5, <1>3, <1>h
  <2>4. CASE job \in Periodic
    <3>1. \A d \in OneShot : ~(d \in OnTheirWay /\ d \notin OnTheirWay')
      BY <2>2, <2>4, Commands
    <3>2. ASSUME left[c] < 0 PROVE b + MaxSend <= bb
      <4>1. left'[job] = Interval[job.type] /\ Interval[job.type] \in Nat
        BY <2>1, <2>4, <1>3, <1>a, IntervalAssumption
           DEF CompleteCommand, NextRelease, Periodic
      <4>2. job # c /\ job \notin heap /\ job \in heap'
        BY <2>1, <2>4, <1>a DEF OnePlace
      <4>3. job \in Behind(c)' /\ job \notin Behind(c)
        BY <4>1, <4>2, <3>2, <2>4, <1>3, <1>a, <1>b DEF Behind
      <4> QED
        BY <4>3, <1>f
    <3> QED
      BY <2>1, <3>1, <3>2, <1>3, <1>d, <1>f, <1>g
  <2> QED
    BY <2>1, <2>3, <2>4 DEF Command
<1> QED
  BY <1>1, <1>2, <1>3, <1>h

(* A default that is due waits for what it has always waited for, and for  *)
(* one re-request at a time that is not due yet.                           *)
LEMMA DefaultStep ==
  TypeOK /\ IInv /\ [Next]_vars /\ OnePlace' /\ StepInv' => DefaultInv'
<1> SUFFICES ASSUME TypeOK, IInv, [Next]_vars, OnePlace', StepInv', NEW c \in Periodic
             PROVE  /\ c \in heap' /\ left'[c] <= 0 =>
                         \/ -left'[c] <= Waited(c)'
                         \/ \E d \in OneShot : HeldUp(c, d)'
                    /\ c = job' => -left'[c] <= DefaultTime - MaxSend + timer'
  BY DEF DefaultInv
<1>a. /\ c \in Command /\ c # NoCommand /\ c \notin OneShot
      /\ left \in [Command -> Int] /\ left[c] \in Int /\ left'[c] \in Int
      /\ timer \in Nat /\ timer' \in Nat
      /\ heap \subseteq Command /\ StepInv /\ OnePlace /\ HeapInv /\ AgeInv
  BY Commands, TypeStep DEF TypeOK, IInv
<1>b. MaxSend \in Nat /\ ReRequestDelay \in Nat /\ DefaultTime \in Nat
  BY TimeAssumption, Bounds
<1>c. /\ c \in heap /\ left[c] <= 0 =>
           -left[c] <= Waited(c) \/ \E d \in OneShot : HeldUp(c, d)
      /\ c = job => -left[c] <= DefaultTime - MaxSend + timer
  BY DEF IInv, DefaultInv
<1>d. /\ c \in heap \/ c = job
      /\ Waited(c) \in Nat /\ (spc # "send" => Waited(c) <= DefaultTime - MaxSend)
  BY <1>a, WaitedBounded DEF HeapInv
<1>e. Waited(c)' \in Nat
  <2> DEFINE r == Waits(Cardinality(DoneRequests(c))')
             p == Publishes(Cardinality(Done(c))')
             b == Publishes(Cardinality(Behind(c))')
  <2>1. /\ Done(c)' \in SUBSET OneShot /\ DoneRequests(c)' \in SUBSET OneShot
        /\ Behind(c)' \in SUBSET Periodic
    BY DEF Done, DoneRequests, Behind
  <2>2. r \in Nat /\ p \in Nat /\ b \in Nat
    BY <2>1, OneShotCount, PeriodicCount, NoFewer, PublishesTake, WaitsTake
  <2>3. Sending' \in Nat /\ Waited(c)' = r + p + b + Sending'
    BY <1>a DEF Sending, Waited
  <2> HIDE DEF r, p, b
  <2>4. \A i, j, k, l \in Nat : i + j + k + l \in Nat
    OBVIOUS
  <2>5. r + p + b + Sending' \in Nat
    BY <2>2, <2>3, <2>4, Zenon
  <2> QED
    BY <2>3, <2>5, Zenon
<1>1. c \in heap' /\ left'[c] <= 0 =>
        -left'[c] <= Waited(c)' \/ \E d \in OneShot : HeldUp(c, d)'
  <2> SUFFICES ASSUME c \in heap', left'[c] < 0
               PROVE  -left'[c] <= Waited(c)' \/ \E d \in OneShot : HeldUp(c, d)'
    BY <1>a, <1>e
  <2>1. CASE Tick
    <3>1. /\ UNCHANGED <<heap, job>> /\ c \in OnTheirWay /\ left'[c] = left[c] - 1
          /\ \A d \in OnTheirWay : left[d] \in Int /\ left'[d] = left[d] - 1
          /\ \/ spc = "sleep" /\ timer > 0
             \/ spc = "send"
      BY <2>1, <1>a, Ticks DEF OnTheirWay
    <3>2. c \in heap /\ left[c] <= 0
      BY <3>1, <1>a
    <3>3. Waited(c)' >= Waited(c) + (IF spc = "send" THEN 1 ELSE 0)
      BY <2>1, <3>2, WaitedStep
    <3>4. ASSUME NEW d \in OneShot, d \in heap \cup {job}, d.type = "RR",
                 -left'[c] <= Waited(c)' + ReRequestDelay,
                 -left'[c] <= Waited(c)' + ReRequestDelay - left'[d]
          PROVE  HeldUp(c, d)'
      BY <3>1, <3>4 DEF HeldUp
    <3>5. ASSUME NEW d \in OneShot, HeldUp(c, d)
          PROVE  /\ d \in heap \cup {job} /\ d.type = "RR"
                 /\ -left[c] <= Waited(c) + ReRequestDelay
                 /\ -left[c] <= Waited(c) + ReRequestDelay - left[d]
                 /\ left[d] \in Int /\ left'[d] = left[d] - 1
      <4>1. d \in heap \cup {job} /\ d.type = "RR"
            /\ -left[c] <= Waited(c) + ReRequestDelay
            /\ -left[c] <= Waited(c) + ReRequestDelay - left[d]
        BY <3>5 DEF HeldUp
      <4>2. d \in OnTheirWay
        BY <4>1, Commands DEF OnTheirWay
      <4> QED
        BY <4>1, <4>2, <3>1
    <3>6. CASE spc = "send"
      <4>1. CASE -left[c] <= Waited(c)
        BY <4>1, <3>1, <3>3, <3>6, <1>a, <1>d, <1>e
      <4>2. ASSUME NEW d \in OneShot, HeldUp(c, d) PROVE HeldUp(c, d)'
        <5>1. /\ -left'[c] <= Waited(c)' + ReRequestDelay
              /\ -left'[c] <= Waited(c)' + ReRequestDelay - left'[d]
          BY <4>2, <3>1, <3>3, <3>5, <3>6, <1>a, <1>b, <1>d, <1>e
        <5> QED
          BY <4>2, <5>1, <3>4, <3>5
      <4> QED
        BY <4>1, <4>2, <3>2, <1>c
    <3>7. CASE spc = "sleep" /\ timer > 0
      <4>1. CASE -left[c] <= Waited(c)
        <5>1. PICK d \in heap \cap OneShot : d.type = "RR" /\ left[d] = timer
          BY <3>2, <3>7, <1>a, SleepFacts
        <5>2. d \in OnTheirWay /\ ReleaseDelay(d) = ReRequestDelay
          BY <5>1, Commands DEF OnTheirWay
        <5>3. left[d] <= ReRequestDelay /\ left[d] \in Int /\ left'[d] = left[d] - 1
          BY <5>1, <5>2, <3>1, <1>a, <1>b DEF AgeInv, Age
        <5>4. /\ -left'[c] <= Waited(c)' + ReRequestDelay
              /\ -left'[c] <= Waited(c)' + ReRequestDelay - left'[d]
          BY <4>1, <5>1, <5>3, <3>1, <3>3, <3>7, <1>a, <1>b, <1>d, <1>e
        <5> QED
          BY <5>1, <5>4, <3>4
      <4>2. ASSUME NEW d \in OneShot, HeldUp(c, d) PROVE HeldUp(c, d)'
        <5>1. d \in heap
          BY <4>2, <3>5, <3>7, <1>a, Commands DEF StepInv
        <5>2. left[d] >= timer
          BY <5>1, <3>7, <1>a, SleepFacts
        <5>3. /\ -left'[c] <= Waited(c)' + ReRequestDelay
              /\ -left'[c] <= Waited(c)' + ReRequestDelay - left'[d]
          BY <4>2, <5>2, <3>1, <3>3, <3>5, <3>7, <1>a, <1>b, <1>d, <1>e
        <5> QED
          BY <4>2, <5>3, <3>4, <3>5
      <4> QED
        BY <4>1, <4>2, <3>2, <1>c
    <3> QED
      BY <3>1, <3>6, <3>7
  <2>2. CASE ~Tick /\ c \in heap
    <3>1. left'[c] = left[c] /\ left[c] < 0
      BY <2>2, DefaultMoves
    <3>2. /\ Waited(c)' >= Waited(c)
          /\ \A d \in OneShot :
               d.type = "RR" /\ d \in OnTheirWay /\ d \notin OnTheirWay' =>
                 Waited(c)' >= Waited(c) + ReRequestDelay
      BY <2>2, <3>1, <1>a, WaitedStep
    <3>3. CASE -left[c] <= Waited(c)
      BY <3>1, <3>2, <3>3, <1>a, <1>d, <1>e
    <3>4. ASSUME NEW d \in OneShot, HeldUp(c, d)
          PROVE  -left'[c] <= Waited(c)' \/ HeldUp(c, d)'
      <4>1. /\ d \in heap \cup {job} /\ d.type = "RR" /\ d \in OnTheirWay
            /\ -left[c] <= Waited(c) + ReRequestDelay
            /\ -left[c] <= Waited(c) + ReRequestDelay - left[d]
        BY <3>4, Commands DEF HeldUp, OnTheirWay
      <4>2. CASE d \notin OnTheirWay'
        BY <4>1, <4>2, <3>1, <3>2, <1>a, <1>b, <1>d, <1>e
      <4>3. CASE d \in OnTheirWay'
        <5>1. left'[d] = left[d] /\ left[d] \in Int
          <6>1. d \in Command
            BY Commands
          <6> QED
            BY <2>2, <4>1, <4>3, <6>1, <1>a, Moves
        <5>2. d \in heap' \cup {job'}
          <6>1. d # mailbox /\ d # pending /\ d # NoCommand
            BY <4>1, <1>a, Commands DEF OnePlace
          <6>2. /\ mailbox' \in {mailbox, pending, NoCommand}
                /\ pending' \in {pending, NoCommand}
                   \/ \E e \in OneShot : Trigger(e) /\ pending' = e
            <7>1. CASE UNCHANGED vars
              BY <7>1 DEF vars
            <7> QED
              BY <2>2, <7>1 DEF Next, Receiver, Scheduler, Put, Trigger, ReadNow,
                 CheckMailbox, Wake, CompleteCommand, Release, Sleep
          <6>3. \A e \in OneShot : Trigger(e) => e # d
            BY <4>1, TriggersOnce DEF Trigger
          <6> QED
            BY <4>3, <6>1, <6>2, <6>3 DEF OnTheirWay
        <5>3. /\ -left'[c] <= Waited(c)' + ReRequestDelay
              /\ -left'[c] <= Waited(c)' + ReRequestDelay - left'[d]
          BY <4>1, <5>1, <3>1, <3>2, <1>a, <1>b, <1>d, <1>e
        <5> QED
          BY <4>1, <5>2, <5>3 DEF HeldUp
      <4> QED
        BY <4>2, <4>3
    <3> QED
      BY <2>2, <3>1, <3>3, <3>4, <1>a, <1>c
  <2>3. CASE ~Tick /\ c \notin heap
    <3>1. c = job /\ spc = "send" /\ job \in Periodic
      BY <2>3, <1>a, <1>d DEF StepInv
    <3>2. CompleteCommand
      <4> SUFFICES ASSUME ~CompleteCommand PROVE FALSE
        OBVIOUS
      <4>1. UNCHANGED <<heap, job>>
        <5>1. CASE UNCHANGED vars
          BY <5>1 DEF vars
        <5> QED
          BY <2>3, <3>1, <5>1 DEF Next, Receiver, Scheduler, Put, Trigger, ReadNow,
             CheckMailbox, Wake, Release, Sleep
      <4> QED
        BY <2>3, <4>1
    <3>3. left'[c] = Interval[c.type] /\ Interval[c.type] \in Nat
      BY <3>1, <3>2, <1>a, IntervalAssumption
         DEF CompleteCommand, NextRelease, Periodic
    <3> QED
      BY <3>3
  <2> QED
    BY <2>1, <2>2, <2>3
<1>2. c = job' => -left'[c] <= DefaultTime - MaxSend + timer'
  <2> SUFFICES ASSUME c = job' PROVE -left'[c] <= DefaultTime - MaxSend + timer'
    OBVIOUS
  <2>1. CASE Tick
    <3>1. job = c /\ c \in OnTheirWay
      BY <2>1, <1>a, Ticks DEF OnTheirWay
    <3>2. spc = "send"
      BY <3>1, <1>a DEF StepInv
    <3> QED
      BY <2>1, <3>1, <3>2, <1>a, <1>b, <1>c, Ticks
  <2>2. CASE ~Tick /\ c = job
    <3>1. spc = "send"
      BY <2>2, <1>a DEF StepInv
    <3>2. ~CompleteCommand
      BY <1>a DEF CompleteCommand
    <3>3. left'[c] = left[c] /\ timer' = timer
      <4>1. CASE UNCHANGED vars
        BY <4>1 DEF vars
      <4>2. CASE Put
        BY <4>2 DEF Put
      <4>3. ASSUME NEW d \in OneShot, Trigger(d)
            PROVE  left'[c] = left[c] /\ timer' = timer
        BY <4>3, <1>a DEF Trigger
      <4>4. ~ReadNow /\ ~CheckMailbox /\ ~Wake
            /\ \A d \in Command : ~Release(d) /\ ~Sleep(d)
        BY <3>1 DEF ReadNow, CheckMailbox, Wake, Release, Sleep
      <4> QED
        BY <2>2, <3>2, <4>1, <4>2, <4>3, <4>4 DEF Next, Receiver, Scheduler
    <3> QED
      BY <2>2, <3>3, <1>a, <1>c
  <2>3. CASE ~Tick /\ c # job
    <3>1. Release(c)
      <4>1. CASE UNCHANGED vars
        BY <4>1, <2>3 DEF vars
      <4>2. \A d \in Command : Release(d) => Release(c)
        BY <1>a DEF Release
      <4> QED
        BY <2>3, <4>1, <4>2, <1>a DEF Next, Receiver, Scheduler, Put, Trigger, ReadNow,
           CheckMailbox, Wake, CompleteCommand, Sleep
    <3>2. IsTop(c) /\ c \in heap /\ left[c] <= 0 /\ spc = "peek" /\ timer = 0
      BY <3>1, <1>a DEF Release, IsTop, StepInv
    <3>3. left'[c] = left[c]
      BY <2>3, <3>2, DefaultMoves
    <3>4. \A d \in OneShot : d \notin heap /\ d # job
      BY <3>2, <1>a, TopFacts, Commands DEF StepInv
    <3>5. -left[c] <= Waited(c)
      BY <3>2, <3>4, <1>c DEF HeldUp
    <3> QED
      BY <3>2, <3>3, <3>5, <1>a, <1>b, <1>d
  <2> QED
    BY <2>1, <2>2, <2>3
<1> QED
  BY <1>1, <1>2

----------------------------------------------------------------------------
(* At the start the defaults are in the heap, and nothing is due before    *)
(* now.                                                                    *)
LEMMA DelayInit == Init => IInv
<1> SUFFICES ASSUME Init PROVE IInv
  OBVIOUS
<1> USE DEF Init
<1>a. /\ TypeOK /\ OnTheirWay = Periodic /\ NoCommand \notin Periodic
      /\ Periodic \cap OneShot = {}
  <2>1. NoCommand \notin Periodic /\ Periodic \cap OneShot = {}
    BY Commands
  <2>2. OnTheirWay = Periodic
    BY <2>1 DEF OnTheirWay
  <2>3. left \in [Command -> Int]
    BY KindsDiffer
  <2>4. TypeOK
    BY <2>3 DEF TypeOK, Command
  <2> QED
    BY <2>1, <2>2, <2>4
<1>1. OnePlace /\ StepInv /\ HeapInv /\ AgeInv
  BY <1>a, TimeAssumption DEF OnePlace, StepInv, HeapInv, AgeInv
<1>2. MailboxInv /\ PendingInv
  BY DEF MailboxInv, PendingInv, WaitsForRoom, WaitsForLock, CanPut
<1>3. UrgentInv
  <2>1. \A s \in Sensor : LC(s) \notin heap /\ LC(s) # NoCommand
    BY <1>a, Commands
  <2> QED
    BY <2>1 DEF UrgentInv
<1>4. RequestInv
  BY <1>a, Commands DEF RequestInv
<1>5. DefaultInv
  <2> SUFFICES ASSUME NEW c \in Periodic
               PROVE  -left[c] <= Waited(c) /\ c # job
    BY DEF DefaultInv
  <2>1. left[c] \in Nat
    BY Commands, IntervalAssumption DEF Periodic
  <2>2. Waited(c) \in Nat
    BY <1>a, WaitedBounded
  <2> QED
    BY <2>1, <2>2, <1>a
<1> QED
  BY <1>1, <1>2, <1>3, <1>4, <1>5 DEF IInv

(* Each bound is kept because the others hold.                             *)
LEMMA DelayStep == TypeOK /\ IInv /\ [Next]_vars => IInv'
<1> SUFFICES ASSUME TypeOK, IInv, [Next]_vars PROVE IInv'
  OBVIOUS
<1>1. OnePlace' /\ StepInv' /\ PendingInv'
  BY OnePlaceStep, StepInvStep, PendingStep
<1>2. HeapInv' /\ AgeInv' /\ MailboxInv'
  BY HeapInvStep, AgeStep, MailboxStep
<1>3. UrgentInv'
  BY <1>1, UrgentStep
<1>4. RequestInv' /\ DefaultInv'
  BY <1>1, RequestStep, DefaultStep
<1> QED
  BY <1>1, <1>2, <1>3, <1>4 DEF IInv

(* The invariant that all the bounds are taken from.                       *)
THEOREM DelayInvariant == Spec => []IInv
  BY DelayInit, DelayStep, TimingTypeCorrect, PTL DEF Spec

(* The receiver never waits for the mailbox longer than a sleep for a      *)
(* re-request, or two publishes, take.                                     *)
THEOREM ReceiverWaitsBounded == Spec => []ReceiverDelayed
<1>1. TypeOK /\ IInv => ReceiverDelayed
  BY PendingBounded DEF IInv
<1> QED
  BY <1>1, DelayInvariant, TimingTypeCorrect, PTL

(* A loss of contact is uplinked at most UrgentTime late, however many     *)
(* commands there are.                                                     *)
THEOREM UrgentInTime == Spec => []UrgentDelayed
<1>1. TypeOK /\ IInv => UrgentDelayed
  BY UrgentBounded DEF IInv
<1> QED
  BY <1>1, DelayInvariant, TimingTypeCorrect, PTL

(* A triggered command is done with before its situation can trigger       *)
(* again, so there are never two of them.                                  *)
THEOREM CooldownOutlivesCommand == Spec => []CooldownOutlives
<1>1. TypeOK /\ IInv => CooldownOutlives
  <2> SUFFICES ASSUME TypeOK, IInv, NEW c \in OneShot, c \in OnTheirWay
               PROVE  cooldown[c] > 0
    BY DEF CooldownOutlives
  <2>1. cooldown[c] \in Nat /\ cooldown[c] # 0
    BY TriggersOnce DEF TypeOK
  <2> QED
    BY <2>1
<1> QED
  BY <1>1, DelayInvariant, TimingTypeCorrect, PTL

(* A default command is at most DefaultTime late: re-requests and losses   *)
(* of contact do not starve it.                                            *)
THEOREM DefaultsNeverStarve == Spec => []DefaultsDelayed
  BY DefaultBounded, DelayInvariant, TimingTypeCorrect, PTL

============================================================================
