---------------------------- MODULE MCSettlement ----------------------------
(* Small instances of Settlement for TLC.                                   *)
EXTENDS Settlement

With(fs) == [f \in FaultKinds |-> IF f \in fs THEN 1 ELSE 0]
NoFaults == With({})

(* Envelopes are named by number: 1 and 3 were executed by "b" for works    *)
(* posted by "a", 2 and 4 by "a" for works posted by "b".                   *)
Odd(v) == v % 2 = 1
WorkNamed == [v \in Envelopes |-> <<"w", "x", "y", "z">>[v]]
EarnerNamed == [v \in Envelopes |-> IF Odd(v) THEN "b" ELSE "a"]
PayerNamed == [w \in Works |-> IF w \in {"w", "y"} THEN "a" ELSE "b"]

(* Costs that differ, so that no two sums of them agree by accident.        *)
Costs == [v \in Envelopes |-> 10 * v]
Fair == Costs

(* Each envelope is billed at the tolerated fifth above its cost, 4 above   *)
(* that.                                                                    *)
Padded == [v \in Envelopes |-> IF v = 4 THEN 49 ELSE 12 * v]

Everything == {[evidence |-> TRUE, envelope |-> TRUE]}
Anything == [evidence : BOOLEAN, envelope : BOOLEAN]

(* Where nothing is reconciled the time of an entry means nothing: every    *)
(* entry may tie with the first.                                            *)
Timeless(fs) == With(fs \cup {"tie"})

Unreliable ==
    [Timeless({"lose", "misroute"}) EXCEPT !["twice"] = 2, !["crash"] = 2]
Impatient  == With({"timeout"})
Retried    == With({"retry"})
Restarted  == With({"crash"})
=============================================================================
