------------------------------ MODULE WorkBoard ------------------------------
(***************************************************************************)
(* What the blackboard promises about one node's work items, whatever its  *)
(* runners, their leases and their crashes do: an item has at most one     *)
(* owner, only the owner delivers, an item is delivered at most once, and  *)
(* a delivered item keeps its owner and its outcome for ever.              *)
(***************************************************************************)
CONSTANTS Items, Owners, NoOwner, Outcomes, NoOutcome,
          SignedBy(_, _, _)   \* SignedBy(o, i, e): e is o's outcome for i

VARIABLES owner, outcome

Init == /\ owner = [i \in Items |-> NoOwner]
        /\ outcome = [i \in Items |-> NoOutcome]

Open(i) == outcome[i] = NoOutcome

Take(i, o) ==
    /\ Open(i) /\ owner[i] = NoOwner
    /\ owner' = [owner EXCEPT ![i] = o]
    /\ UNCHANGED outcome

(* The owner gives the item up or is evicted.                               *)
Lose(i) ==
    /\ Open(i) /\ owner[i] # NoOwner
    /\ owner' = [owner EXCEPT ![i] = NoOwner]
    /\ UNCHANGED outcome

Deliver(i) ==
    /\ Open(i) /\ owner[i] # NoOwner
    /\ outcome'[i] \in Outcomes
    /\ SignedBy(owner[i], i, outcome'[i])
    /\ outcome' = [outcome EXCEPT ![i] = outcome'[i]]
    /\ UNCHANGED owner

Next == \E i \in Items :
           \/ \E o \in Owners : Take(i, o)
           \/ Lose(i)
           \/ Deliver(i)

Spec == Init /\ [][Next]_<<owner, outcome>>
=============================================================================
