---------------------------- MODULE MCContainment ----------------------------
(***************************************************************************)
(* What bounds a node, in small instances for TLC: the guard configuration *)
(* and its history, the gate of staged actions, the cap of the artifact    *)
(* store, and the daily caps on paid calls with the submits that spend     *)
(* them.  In the code the four share no state, so one behaviour explores   *)
(* one of them and leaves the others as they begin.                        *)
(***************************************************************************)
EXTENDS GuardConfig, Gate, ArtifactStore, Submit, TLC

VARIABLE part

AllVars == <<part, guardVars, gateVars, artVars, submitVars>>

Init ==
    /\ part \in {"config", "gate", "artifacts", "submit"}
    /\ GuardInit /\ GateInit /\ ArtInit /\ SubmitInit
    /\ part # "config" => history = <<>>
    /\ part # "artifacts" => evicting /\ artFaults["rot"] = 1
    /\ part # "submit" => troubles["crash"] = 1 /\ setup.global = 1

GuardPart ==
    part = "config" /\ GuardNext /\ UNCHANGED <<part, gateVars, artVars, submitVars>>
GatePart ==
    part = "gate" /\ GateNext /\ UNCHANGED <<part, guardVars, artVars, submitVars>>
ArtifactsPart ==
    part = "artifacts" /\ ArtNext /\ UNCHANGED <<part, guardVars, gateVars, submitVars>>
SubmitPart ==
    part = "submit" /\ SubmitNext /\ UNCHANGED <<part, guardVars, gateVars, artVars>>

Next == GuardPart \/ GatePart \/ ArtifactsPart \/ SubmitPart

Spec == Init /\ [][Next]_AllVars

-----------------------------------------------------------------------------
Cfg(v, h1, h2, key) ==
    [version |-> v, bounds |-> [b \in Classes |-> IF b = "h1" THEN h1 ELSE h2], by |-> key]

(* Tightened, with a class removed and put back, with the first bounds      *)
(* again under a higher number, and signed by a successor.                  *)
Circulating ==
    {Cfg(1, 2, 1, "k0"), Cfg(2, 1, 1, "k0"), Cfg(2, 2, Unset, "k0"),
     Cfg(3, 2, 1, "k0"), Cfg(3, 1, 0, "k1"), Cfg(4, 2, 2, "k1")}

(* The processes of a host differ in nothing but their state.               *)
Interchangeable == Permutations(Stores)

Unlucky == [f \in GuardFaultKinds |-> IF f = "unrecorded" THEN 1 ELSE 0]
(* One artifact fills the store alone, one leaves room and one never fits.  *)
Sizes == [h \in Hashes |-> CASE h = "x" -> 2 [] h = "big" -> 3 [] OTHER -> 1]
OneOf == {[f \in ArtFaultKinds |-> IF f = g THEN 1 ELSE 0] : g \in ArtFaultKinds}

(* Two submits of one node, or of two nodes that share the daily total; or  *)
(* a spend cap that the second call exceeds.                                *)
Settings ==
    {[by |-> [t \in Tasks |-> "n"], per_submitter |-> 1, global |-> 2, spend |-> 9],
     [by |-> [t \in Tasks |-> IF t = "t1" THEN "n" ELSE "m"],
      per_submitter |-> 2, global |-> 1, spend |-> 9],
     [by |-> [t \in Tasks |-> "n"], per_submitter |-> 2, global |-> 2, spend |-> 3]}
Costs == [t \in Tasks |-> IF t = "t1" THEN 2 ELSE 3]
OneTrouble == {[f \in TroubleKinds |-> IF f = g THEN 1 ELSE 0] : g \in TroubleKinds}
ThreeSetups == {[by |-> s.by, per_submitter |-> s.per_submitter, global |-> s.global,
               spend |-> s.spend, faults |-> f] :
                  s \in Settings, f \in OneTrouble}
=============================================================================
