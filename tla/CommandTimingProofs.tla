------------------------ MODULE CommandTimingProofs ------------------------
(***************************************************************************)
(* Proofs about CommandTiming: its types, and that no default command is   *)
(* dispatched before its interval is over, whatever is scheduled with it   *)
(* and however long its publishes take.                                    *)
(***************************************************************************)
EXTENDS CommandTiming, TLAPS

(* A default command in the heap is not due before its interval is over;   *)
(* left counts down as since counts up.                                    *)
SpacedInHeap ==
  \A c \in Periodic : c \in heap => since[c] + left[c] >= Interval[c.type]

SpacedInv == SpacedInHeap /\ DefaultsSpaced

----------------------------------------------------------------------------
LEMMA KindsDiffer ==
  /\ Periodic \cap OneShot = {}
  /\ NoCommand \notin Command
  /\ \A c \in Periodic : c.type # "RR" /\ Interval[c.type] \in Nat
  BY DefaultAssumption, IntervalAssumption
     DEF Periodic, OneShot, Command, NoCommand

LEMMA DelayIsNat == \A c \in OneShot : ReleaseDelay(c) \in Nat
  BY TimeAssumption DEF ReleaseDelay

(* Every variable keeps its type.                                          *)
LEMMA TypeStep == TypeOK /\ [Next]_vars => TypeOK'
<1> SUFFICES ASSUME TypeOK, [Next]_vars PROVE TypeOK'
  OBVIOUS
<1> USE DEF TypeOK
<1>1. CASE UNCHANGED vars
  BY <1>1 DEF vars
<1>2. CASE Put
  BY <1>2 DEF Put, CanPut, Command
<1>3. ASSUME NEW c \in OneShot, Trigger(c) PROVE TypeOK'
  <2>1. cooldown' \in [OneShot -> Nat]
    BY <1>3, TimeAssumption DEF Trigger, CoolDown
  <2>2. left' \in [Command -> Int] /\ pending' \in OneShot \cup {NoCommand}
    BY <1>3, DelayIsNat DEF Trigger
  <2> QED
    BY <1>3, <2>1, <2>2 DEF Trigger
<1>4. CASE ReadNow
  BY <1>4 DEF ReadNow
<1>5. CASE CheckMailbox
  BY <1>5 DEF CheckMailbox, Taken, KeepsGuard, Command
<1>6. CASE Wake
  BY <1>6 DEF Wake, EndIteration
<1>7. CASE CompleteCommand
  <2>1. left' \in [Command -> Int] /\ since' \in [Periodic -> Nat]
    BY <1>7, KindsDiffer DEF CompleteCommand, NextRelease
  <2>2. heap' \subseteq Command /\ job' \in Command \cup {NoCommand}
    BY <1>7 DEF CompleteCommand, Command
  <2> QED
    BY <1>7, <2>1, <2>2 DEF CompleteCommand, EndIteration
<1>8. ASSUME NEW c \in Command, Release(c) PROVE TypeOK'
  <2>1. heap' \subseteq Command /\ job' \in Command \cup {NoCommand}
    BY <1>8 DEF Release
  <2>2. spc' \in {"loop", "send"} /\ timer' \in Nat
    BY <1>8 DEF Release, EndIteration
  <2>3. guarded' \in BOOLEAN
    BY <1>8, Zenon DEF Release, EndIteration
  <2>4. left' \in [Command -> Int]
    BY <1>8 DEF Release
  <2> QED
    BY <1>8, <2>1, <2>2, <2>3, <2>4 DEF Release
<1>9. ASSUME NEW c \in Command, Sleep(c) PROVE TypeOK'
  <2>1. timer' \in Nat
    BY <1>9 DEF Sleep
  <2> QED
    BY <1>9, <2>1 DEF Sleep
<1>10. CASE Tick
  <2>1. timer' \in Nat
    BY <1>10, TimeAssumption DEF Tick
  <2>2. cooldown' \in [OneShot -> Nat] /\ since' \in [Periodic -> Nat]
    BY <1>10 DEF Tick
  <2>3. left' \in [Command -> Int]
    BY <1>10 DEF Tick
  <2> QED
    BY <1>10, <2>1, <2>2, <2>3 DEF Tick
<1> QED
  BY <1>1, <1>2, <1>3, <1>4, <1>5, <1>6, <1>7, <1>8, <1>9, <1>10
     DEF Next, Receiver, Scheduler

(* All variables keep their types, for any defaults, sensors and times.    *)
THEOREM TimingTypeCorrect == Spec => []TypeOK
<1>1. Init => TypeOK
  <2> SUFFICES ASSUME Init PROVE TypeOK
    OBVIOUS
  <2>1. left \in [Command -> Int]
    BY KindsDiffer DEF Init
  <2> QED
    BY <2>1 DEF Init, TypeOK, Command
<1> QED
  BY <1>1, TypeStep, PTL DEF Spec

----------------------------------------------------------------------------
(* Each step keeps the invariant: a release finds the interval over, an    *)
(* uplink starts it anew, time moves both sides.                           *)
LEMMA SpacedStep == TypeOK /\ SpacedInv /\ [Next]_vars => SpacedInv'
<1> SUFFICES ASSUME TypeOK, SpacedInv, [Next]_vars,
                    NEW c \in Periodic
             PROVE  /\ c \in heap' => since'[c] + left'[c] >= Interval[c.type]
                    /\ job' = c => since'[c] >= Interval[c.type]
  BY DEF SpacedInv, SpacedInHeap, DefaultsSpaced
<1>a. /\ c \in heap => since[c] + left[c] >= Interval[c.type]
      /\ job = c => since[c] >= Interval[c.type]
  BY DEF SpacedInv, SpacedInHeap, DefaultsSpaced
<1>b. c \in Command /\ c \notin OneShot /\ c # NoCommand /\ c.type # "RR"
  BY KindsDiffer DEF Command
<1>c. since[c] \in Nat /\ left[c] \in Int /\ Interval[c.type] \in Nat
  BY <1>b, KindsDiffer DEF TypeOK
<1>1. CASE UNCHANGED vars
  BY <1>1, <1>a DEF vars
<1>2. CASE Put
  BY <1>2, <1>a DEF Put
<1>3. ASSUME NEW d \in OneShot, Trigger(d)
      PROVE  UNCHANGED <<heap, job, since>> /\ left'[c] = left[c]
  BY <1>3, <1>b DEF Trigger, TypeOK
<1>4. CASE ReadNow
  BY <1>4, <1>a DEF ReadNow
<1>5. CASE CheckMailbox
  <2>1. c \in heap' => c \in heap
    BY <1>5, <1>b DEF CheckMailbox, Taken, TypeOK
  <2> QED
    BY <1>5, <2>1, <1>a DEF CheckMailbox
<1>6. CASE Wake
  BY <1>6, <1>a DEF Wake
<1>7. CASE CompleteCommand
  <2>1. job' # c
    BY <1>7, <1>b DEF CompleteCommand
  <2>2. CASE job = c
    BY <1>7, <1>b, <1>c, <2>1, <2>2 DEF CompleteCommand, NextRelease, TypeOK
  <2>3. CASE job # c
    BY <1>7, <1>a, <1>b, <2>1, <2>3 DEF CompleteCommand, TypeOK
  <2> QED
    BY <2>2, <2>3
<1>8. ASSUME NEW d \in Command, Release(d)
      PROVE  /\ c \in heap' => since'[c] + left'[c] >= Interval[c.type]
             /\ job' = c => since'[c] >= Interval[c.type]
  <2>1. UNCHANGED since /\ d \in heap /\ left[d] <= 0 /\ heap' = heap \ {d}
    BY <1>8 DEF Release, IsTop
  <2>2. left'[c] = left[c]
    BY <1>8, <1>b DEF Release, TypeOK
  <2>3. job' = c => d = c
    BY <1>8, <1>b DEF Release
  <2> QED
    BY <2>1, <2>2, <2>3, <1>a, <1>c
<1>9. ASSUME NEW d \in Command, Sleep(d) PROVE UNCHANGED <<heap, job, left, since>>
  BY <1>9 DEF Sleep
<1>10. CASE Tick
  <2>1. since'[c] = since[c] + 1 /\ UNCHANGED <<heap, job>>
    BY <1>10 DEF Tick
  <2>2. c \in heap => left'[c] = left[c] - 1
    BY <1>10, <1>b DEF Tick, OnTheirWay
  <2> QED
    BY <2>1, <2>2, <1>a, <1>c
<1> QED
  BY <1>1, <1>2, <1>3, <1>4, <1>5, <1>6, <1>7, <1>8, <1>9, <1>10, <1>a
     DEF Next, Receiver, Scheduler

(* No default command is dispatched before its interval is over.           *)
THEOREM DefaultsKeepInterval == Spec => []DefaultsSpaced
<1>1. Init => SpacedInv
  BY KindsDiffer DEF Init, SpacedInv, SpacedInHeap, DefaultsSpaced, Command
<1>2. SpacedInv => DefaultsSpaced
  BY DEF SpacedInv
<1> QED
  BY <1>1, <1>2, SpacedStep, TimingTypeCorrect, PTL DEF Spec

=============================================================================
