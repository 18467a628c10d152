-------------------------- MODULE MCCommandTiming --------------------------
EXTENDS CommandTiming, TLC

CONSTANTS s1, s2   \* model values

(* In units of 200 ms (scheduler.rs:39-56).                                *)
MCInterval == [c \in Default |-> IF c = "SC" THEN 4 ELSE 3]

Symmetry == Permutations(Sensor)
=============================================================================
