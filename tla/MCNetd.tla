------------------------------- MODULE MCNetd -------------------------------
(***************************************************************************)
(* Small instances of the daemon's parts for TLC.  The gossip bus, the     *)
(* Tier-3 cache, the attestation session and the agent directory share no  *)
(* state, so one behaviour explores one of them and leaves the others as   *)
(* they begin, with nothing due.                                           *)
(***************************************************************************)
EXTENDS DeltaBus, TierCache, Attestation, AgentDirectory

(* One budget of one fault at a time.                                       *)
Single(kinds) == {[f \in kinds |-> IF f = g THEN 1 ELSE 0] : g \in kinds}

Publishers == [c \in Calls |-> "m"]
Readers == [s \in Streams |-> "n"]
Mishaps == Single(BusFaultKinds)
Lossy == CHOOSE f \in Mishaps : f["lose"] = 1

Asked == [c \in Callers |-> IF c = 3 THEN "j" ELSE "k"]

(* One agent on each of two daemons.                                        *)
Homes == [a \in DirAgents |-> IF a = "a" THEN "m" ELSE "n"]
Troubles == Single(DirFaultKinds)

(* Two peer ids of one validator, and one of another.                       *)
Discovered == <<"p", "p2", "q">>
PeerKeys == [x \in {"p", "p2", "q"} |-> IF x = "q" THEN "w" ELSE "v"]
Skews == {f \in [{"v", "w", "applicant"} -> -1..1] : f["v"] = 0 /\ f["w"] >= 0}

-----------------------------------------------------------------------------
VARIABLE part

AllVars == <<part, busVars, tierVars, attVars, dirVars>>

Init ==
    /\ part \in {"bus", "tiers", "attestation", "directory"}
    /\ BusInit /\ TierInit /\ AttInit /\ DirInit
    /\ IF part = "directory" THEN record = DirAgents ELSE record = {} /\ trouble["get"] = 1
    /\ part # "bus" => luck = Lossy
    /\ part # "attestation" => breaks = 0 /\ \A m \in DOMAIN off : off[m] = 0

BusPart == part = "bus" /\ BusNext /\ UNCHANGED <<part, tierVars, attVars, dirVars>>
TiersPart == part = "tiers" /\ TierNext /\ UNCHANGED <<part, busVars, attVars, dirVars>>
AttestationPart ==
    part = "attestation" /\ AttNext /\ UNCHANGED <<part, busVars, tierVars, dirVars>>
DirectoryPart == part = "directory" /\ DirNext /\ UNCHANGED <<part, busVars, tierVars, attVars>>

Next == BusPart \/ TiersPart \/ AttestationPart \/ DirectoryPart

Spec == Init /\ [][Next]_AllVars /\ BusFairness /\ TierFairness /\ AttFairness
             /\ DirFairness

=============================================================================
