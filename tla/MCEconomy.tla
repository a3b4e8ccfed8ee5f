------------------------------ MODULE MCEconomy ------------------------------
(***************************************************************************)
(* Small instances of the subcontract coordinator and the bonded market    *)
(* for TLC.  The two share no state, so one behaviour explores one of them *)
(* and leaves the other as it begins.                                      *)
(***************************************************************************)
EXTENDS Subcontract, Market

Only(fs) == [f \in FaultKinds |-> IF f \in fs THEN 1 ELSE 0]
Unlucky == Only({"elsewhere", "raise", "escape", "crash"})

(* Calls t1 and t2 are for one subtask, one a retry.                         *)
Tasks == [c \in Calls |-> IF c # "u1" THEN "t" ELSE "u"]
Bounties == [c \in Calls |-> IF c # "u1" THEN 2 ELSE 3]
Amounts == [i \in Incomes |-> IF i = "i" THEN 4 ELSE 2]

Cap(ro, network, mem, rate) ==
    [ro |-> ro, rw |-> {}, network |-> network, mem_cap |-> mem, rate_cap |-> rate]
Mine == Cap({"p", "q"}, TRUE, 2, 0)
Needed == [c \in Calls |-> IF c # "u1" THEN Cap({"p"}, FALSE, 1, 0) ELSE Cap({"p"}, TRUE, 2, 0)]

Ran(ro, network, mem) == [ro |-> ro, rw |-> {}, network |-> network, max_memory |-> mem]
Result(agent, manifest, enforcement, ok) ==
    [agent |-> agent, manifest |-> manifest, enforcement |-> enforcement,
     chain_ok |-> ok, manifest_hash_ok |-> TRUE]
Small == Cap({"p"}, FALSE, 1, 0)

(* Honest work; honest work of the agent itself; a manifest wider than the  *)
(* grant; a sandbox wider than its manifest; a broken chain.                *)
Results ==
    {Result("k", Small, Ran({"p"}, FALSE, 1), TRUE),
     Result("me", Small, Ran({"p"}, FALSE, 1), TRUE),
     Result("k", Cap({"p", "q"}, FALSE, 1, 0), Ran({"p", "q"}, FALSE, 1), TRUE),
     Result("k", Small, Ran({"p"}, FALSE, 0), TRUE),
     Result("k", Small, Ran({"p"}, FALSE, 1), FALSE)}

(* Stakes in units of 12, so that up to three winners share a pot exactly.  *)
Capital == [a \in Traders |-> IF a = "c" THEN 12 ELSE 24]

-----------------------------------------------------------------------------
VARIABLE part

allVars == <<part, vars, marketVars>>

EconomyInit ==
    /\ part \in {"subcontracts", "market"}
    /\ Init /\ MarketInit
    /\ part # "market" => \A t \in MarketTasks : truth[t] = "x"

SubcontractPart == part = "subcontracts" /\ Next /\ UNCHANGED <<part, marketVars>>
MarketPart == part = "market" /\ MarketNext /\ UNCHANGED <<part, vars>>

EconomyNext == SubcontractPart \/ MarketPart

EconomySpec == EconomyInit /\ [][EconomyNext]_allVars /\ Fairness
=============================================================================
