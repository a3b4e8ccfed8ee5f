------------------------------ MODULE MCNetwork ------------------------------
(***************************************************************************)
(* GossipBoard, the LAN connections that carry its messages on a local     *)
(* network, and the formation of a Raft cluster over such connections.     *)
(* GossipBoard and Formation already assume a network that loses and       *)
(* delays messages, which is all they learn of a connection, and a board   *)
(* gossips or is in a cluster; so one behaviour explores one of the three  *)
(* and leaves the others as they begin.                                    *)
(***************************************************************************)
EXTENDS MCGossipBoard, LanTransport, Formation

VARIABLE part

AllInit ==
    /\ part \in {"boards", "lan", "formation"}
    /\ Init /\ LanInit /\ FormationInit
    /\ part # "lan" => mishaps["drop"] = 1
    /\ part # "formation" => woes["lose"] = 1

BoardsPart ==
    part = "boards" /\ Next /\ UNCHANGED <<part, lanVars, joinVars>>
LanPart ==
    part = "lan" /\ LanNext /\ UNCHANGED <<part, vars, joinVars>>
FormationPart ==
    part = "formation" /\ FormationNext /\ UNCHANGED <<part, vars, lanVars>>

AllNext == BoardsPart \/ LanPart \/ FormationPart

(* Nothing is due in the initial state of any of them.                      *)
AllSpec ==
    /\ AllInit /\ [][AllNext]_<<part, vars, lanVars, joinVars>>
    /\ Fairness /\ LanFairness /\ FormationFairness

-----------------------------------------------------------------------------
OneMishap == {[f \in LanFaultKinds |-> IF f = g THEN 1 ELSE 0] : g \in LanFaultKinds}
OneWoe == {[f \in JoinKinds |-> IF f = g THEN 1 ELSE 0] : g \in JoinKinds}
=============================================================================
