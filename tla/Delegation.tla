----------------------------- MODULE Delegation -----------------------------
(***************************************************************************)
(* Compositional boundedness of delegated authority                        *)
(* (gyza/economy/delegation.py).  A manifest, an enforcement record and a  *)
(* delegated authority are all projected to one shape, a CapabilitySpec,   *)
(* and one predicate compares any two of them.                             *)
(***************************************************************************)
EXTENDS Integers, Sequences

CONSTANTS
    Paths,      \* file system paths
    Keys,       \* agent public keys
    MaxCap,     \* bound on memory and rate caps
    MaxDepth    \* MAX_DELEGATION_DEPTH

ASSUME DelegationAssumption == MaxCap \in Nat /\ MaxDepth \in Nat

(* No cap declared.                                                         *)
NoCap == 0

CapabilitySpec == [ro : SUBSET Paths, rw : SUBSET Paths, network : BOOLEAN,
         mem_cap : 0 .. MaxCap, rate_cap : 0 .. MaxCap]

(* What a sandbox enforced, as the result reports it.  It has no field for  *)
(* the action rate.                                                         *)
Enforcement == [ro : SUBSET Paths, rw : SUBSET Paths, network : BOOLEAN,
                max_memory : 0 .. MaxCap]

spec_from_enforcement(e) ==
    [ro |-> e.ro, rw |-> e.rw, network |-> e.network,
     mem_cap |-> e.max_memory, rate_cap |-> NoCap]

(* A cap declared outside must be declared inside as well, and be no wider. *)
CapWithin(inner, outer) == outer # NoCap => inner # NoCap /\ inner <= outer

capability_subset(inner, outer) ==
    /\ inner.ro \subseteq outer.ro
    /\ inner.rw \subseteq outer.rw
    /\ inner.network => outer.network
    /\ CapWithin(inner.mem_cap, outer.mem_cap)
    /\ CapWithin(inner.rate_cap, outer.rate_cap)

(* One node of a delegation chain, root first.  grants is what the hop      *)
(* above delegated to it: nothing for the root, one spec for every other.   *)
Hop == [agent : Keys, manifest : CapabilitySpec, enforcement : CapabilitySpec,
        grants : SUBSET CapabilitySpec]

(* Fault: a hop's manifest is not compared with what was delegated to it.   *)
VerifyGrantsOnly(chain) ==
    /\ chain # <<>> /\ Len(chain) <= MaxDepth
    /\ \A i, j \in DOMAIN chain : chain[i].agent = chain[j].agent => i = j
    /\ \A i \in DOMAIN chain :
           /\ capability_subset(chain[i].enforcement, chain[i].manifest)
           /\ i > 1 => \E g \in chain[i].grants : capability_subset(g, chain[i - 1].manifest)

verify_delegation(chain) ==
    /\ chain # <<>>
    /\ Len(chain) <= MaxDepth
    /\ \A i, j \in DOMAIN chain : chain[i].agent = chain[j].agent => i = j
    /\ \A i \in DOMAIN chain :
           /\ capability_subset(chain[i].enforcement, chain[i].manifest)
           /\ i = 1 => chain[i].grants = {}
           /\ i > 1 => \E g \in chain[i].grants :
                  /\ capability_subset(chain[i].manifest, g)
                  /\ capability_subset(g, chain[i - 1].manifest)
=============================================================================
