------------------------------ MODULE MCRunner ------------------------------
(* Small instances of Runner for TLC.                                       *)
EXTENDS Runner

CONSTANTS a1, a2, a3

NoFaults        == [f \in FaultKinds |-> 0]
OneCrash        == [NoFaults EXCEPT !["crash"] = 1]
CrashAndRestart == [OneCrash EXCEPT !["restart"] = 1]

(* Everything once, and two crashes: at worst both runners stay down.       *)
Unreliable == [f \in FaultKinds |-> IF f = "crash" THEN 2 ELSE 1]

FlatTiers   == [i \in Roots |-> 0]
EqualAgents == [a \in Agents |-> 1]

(* Only a1 may decompose, into a leaf and a combiner.                       *)
NoSpawn     == [a \in Agents |-> 0]
PlannerA1   == [a \in Agents |-> IF a = a1 THEN 3 ELSE 0]
NoPlan      == [a \in Agents |-> {}]
LeafCombine == [a \in Agents |-> IF a = a1 THEN {<<"leaf", "combine">>} ELSE {}]
=============================================================================
