---------------------------- MODULE MCGossipBoard ----------------------------
(* Small instances of GossipBoard for TLC.                                  *)
EXTENDS GossipBoard

NoFaults == [f \in FaultKinds |-> 0]
With(fs) == [f \in FaultKinds |-> IF f \in fs THEN 1 ELSE 0]

(* Nodes 1 and 2; agents 11 and 12 work on board 1, 21 on board 2.          *)
HomeOf == [a \in Agents |-> IF a < 20 THEN 1 ELSE 2]

(* Every item belongs to the one intent "r".                                *)
OneIntent == [i \in Items |-> "r"]

ClocksStep == With({"step"})
Lossy      == With({"lose", "twice", "early", "race", "contend", "release",
                    "restart"})
Duplicated == With({"twice"})
Raced      == With({"race"})
=============================================================================
