-------------------------------- MODULE Gate --------------------------------
(***************************************************************************)
(* Staging, promotion and rollback (gyza/containment/staging.py) over the  *)
(* append-only log (log.py) and the guard engine (engine.py): reversible   *)
(* actions are appended to the interior, others wait for the gate, and a   *)
(* promotion admits or abandons the whole batch.                           *)
(***************************************************************************)
EXTENDS Integers, Sequences, FiniteSets, Functions

CONSTANTS
    Amounts,     \* what one action adds to the measured harm
    Bound,       \* of the harm class; -1: none declared, or no invariant registered
    MaxEvents,   \* bound on the length of the log
    MaxGated,    \* bound on the actions that wait for the gate
    MaxRacing    \* actions staged while a promotion is being decided

ASSUME GateAssumption ==
    /\ Amounts \subseteq Nat
    /\ Bound \in Nat \cup {-1}
    /\ MaxEvents \in Nat /\ MaxGated \in Nat /\ MaxRacing \in Nat

VARIABLES
    log,        \* the events, with sequence numbers from 1
    watermark,  \* the last promoted sequence number
    abandoned,  \* sequence numbers that were rolled back
    gated,      \* _pending_gate
    verdict,    \* the decision promote() has made and not yet carried out
    racing,     \* how many unlocked calls may still meet a promotion
    unmeasured  \* some promotion was asked to leave the class out

gateVars == <<log, watermark, abandoned, gated, verdict, racing, unmeasured>>

Control == {"promote", "rollback", "window"}
Event == [kind : {"staged", "gated"}, amount : Nat, victims : {{}}]
         \cup [kind : Control, amount : {0}, victims : SUBSET Nat]
Ev(kind, amount) == [kind |-> kind, amount |-> amount, victims |-> {}]

_live(upto) == {i \in 1 .. upto : log[i].kind \notin Control /\ i \notin abandoned}
staged_events == {i \in _live(Len(log)) : i > watermark}
Total(events) == SumFunction([i \in events |-> log[i].amount])

-----------------------------------------------------------------------------
(* The engine: a class without an invariant or a bound is refused;          *)
(* otherwise the harm that the state shows over the origin is compared with *)
(* the bound.  A class the caller does not name is not looked at.           *)

(* Fault: the harm is measured from the last promotion.                     *)
MeasureFromBaseline == Total(_live(Len(log))) - Total(_live(watermark))

Measure == Total(_live(Len(log)))
evaluate(named) == named => Bound # -1 /\ Measure <= Bound

-----------------------------------------------------------------------------
(* The interior.  stage, submit, open_window and rollback take no lock.     *)
Unlocked ==
    IF verdict = "none" THEN UNCHANGED racing
    ELSE racing > 0 /\ racing' = racing - 1

Room(n) == Len(log) + n <= MaxEvents

stage(a) ==
    /\ Room(1) /\ Unlocked
    /\ log' = Append(log, Ev("staged", a))
    /\ UNCHANGED <<watermark, abandoned, gated, verdict, unmeasured>>

submit(a) ==
    /\ Len(gated) < MaxGated /\ Unlocked
    /\ gated' = Append(gated, a)
    /\ UNCHANGED <<log, watermark, abandoned, verdict, unmeasured>>

open_window ==
    /\ Room(1) /\ Unlocked
    /\ log' = Append(log, Ev("window", 0))
    /\ UNCHANGED <<watermark, abandoned, gated, verdict, unmeasured>>

(* Fault: the events of a rollback stay live.                               *)
RollBackUnmarked ==
    LET victims == staged_events
    IN  /\ IF victims = {} /\ gated = <<>> THEN UNCHANGED log
           ELSE /\ Room(1)
                /\ log' = Append(log, [Ev("rollback", 0) EXCEPT !.victims = victims])
        /\ gated' = <<>>
        /\ UNCHANGED <<watermark, abandoned>>

RollBack ==
    LET victims == staged_events
    IN  /\ IF victims = {} /\ gated = <<>> THEN UNCHANGED log
           ELSE /\ Room(1)
                /\ log' = Append(log, [Ev("rollback", 0) EXCEPT !.victims = victims])
        /\ abandoned' = abandoned \cup victims
        /\ gated' = <<>>
        /\ UNCHANGED watermark

rollback == Unlocked /\ RollBack /\ UNCHANGED <<verdict, unmeasured>>

-----------------------------------------------------------------------------
(* promote(), serialized by its lock: the decision, then its effect on      *)
(* whatever is staged by then.  The caller names the harm classes.          *)
promote(named) ==
    /\ verdict = "none"
    /\ staged_events # {} \/ gated # <<>>
    /\ unmeasured' = (unmeasured \/ ~named)
    /\ verdict' = IF evaluate(named) THEN "admit" ELSE "refuse"
    /\ UNCHANGED <<log, watermark, abandoned, gated, racing>>

admitted ==
    /\ verdict = "admit"
    /\ Room(Len(gated) + 1)
    /\ log' = log \o [i \in DOMAIN gated |-> Ev("gated", gated[i])]
                  \o <<Ev("promote", 0)>>
    /\ watermark' = Len(log')
    /\ gated' = <<>>
    /\ verdict' = "none"
    /\ UNCHANGED <<abandoned, racing, unmeasured>>

refused ==
    /\ verdict = "refuse"
    /\ RollBack
    /\ verdict' = "none"
    /\ UNCHANGED <<racing, unmeasured>>

-----------------------------------------------------------------------------
GateInit ==
    /\ log = <<>> /\ watermark = 0 /\ abandoned = {} /\ gated = <<>>
    /\ verdict = "none" /\ racing = MaxRacing /\ unmeasured = FALSE

GateNext ==
    \/ \E a \in Amounts : stage(a) \/ submit(a)
    \/ \E named \in BOOLEAN : promote(named)
    \/ open_window \/ rollback \/ admitted \/ refused

GateSpec == GateInit /\ [][GateNext]_gateVars

-----------------------------------------------------------------------------
(* Properties.                                                              *)

(* The state has its types.                                                 *)
GateTypeOK ==
    /\ log \in Seq(Event)
    /\ watermark \in Nat
    /\ abandoned \subseteq 1 .. Len(log)
    /\ gated \in Seq(Amounts)
    /\ verdict \in {"none", "admit", "refuse"}
    /\ racing \in Nat
    /\ unmeasured \in BOOLEAN

(* However often promote() is called and windows are opened, the interior   *)
(* that has been promoted stays within the cumulative bound, as long as     *)
(* every promotion names the class and no unlocked call meets one.          *)
InteriorWithinBound ==
    racing = MaxRacing /\ ~unmeasured =>
        LET kept == {i \in _live(watermark) : log[i].kind = "staged"}
        IN  kept # {} => Total(kept) <= Bound

(* What was rolled back never comes back with a later promotion, although   *)
(* it stays in the log.                                                     *)
AbandonedStaysOut ==
    \A i \in DOMAIN log : log[i].kind = "rollback" => log[i].victims \cap _live(Len(log)) = {}

(* staging.py:313: every action queued for the gate is evaluated.  It is    *)
(* evaluated on a state that does not contain it, so what the batch makes   *)
(* real can exceed the bound.                                               *)
PromotedWithinBound == Total(_live(watermark)) <= Bound

(* What has been promoted stays within the cumulative bound                 *)
(* (_promote_locked) while every promotion names the class and no unlocked  *)
(* call meets one, and what was rolled back stays out.                      *)
InteriorContained == GateTypeOK /\ InteriorWithinBound /\ AbandonedStaysOut
=============================================================================
