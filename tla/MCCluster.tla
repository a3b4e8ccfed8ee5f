------------------------------ MODULE MCCluster ------------------------------
(***************************************************************************)
(* Small instances of RaftBoard, Supervisor, Roster, DaemonLife and Review *)
(* for TLC.  The replicated board, the runner processes, the runner        *)
(* threads, the daemon and the review table share no state, so one         *)
(* behaviour explores one of them and leaves the others as they begin,     *)
(* with nothing due.                                                       *)
(***************************************************************************)
EXTENDS RaftBoard, Supervisor, Roster, DaemonLife, Review, FiniteSetsExt

VARIABLE part

AllVars == <<part, raftVars, supVars, rosterVars, daemonVars, reviewVars>>

Init ==
    /\ part \in {"board", "runners", "threads", "daemon", "review"}
    /\ RaftInit /\ SupInit /\ RosterInit /\ DaemonInit /\ ReviewInit

BoardPart ==
    part = "board" /\ RaftNext /\ UNCHANGED <<part, supVars, rosterVars, daemonVars, reviewVars>>
RunnersPart ==
    part = "runners" /\ SupNext /\ UNCHANGED <<part, raftVars, rosterVars, daemonVars, reviewVars>>
ThreadsPart ==
    part = "threads" /\ RosterNext /\ UNCHANGED <<part, raftVars, supVars, daemonVars, reviewVars>>
DaemonPart ==
    part = "daemon" /\ DaemonNext /\ UNCHANGED <<part, raftVars, supVars, rosterVars, reviewVars>>
ReviewPart ==
    part = "review" /\ ReviewNext /\ UNCHANGED <<part, raftVars, supVars, rosterVars, daemonVars>>

Next == BoardPart \/ RunnersPart \/ ThreadsPart \/ DaemonPart \/ ReviewPart

Spec ==
    /\ Init /\ [][Next]_AllVars
    /\ RaftFairness /\ SupFairness /\ RosterFairness /\ DaemonFairness /\ ReviewFairness

-----------------------------------------------------------------------------
(* One agent on each node; "a" posts.                                       *)
Place == [a \in Agents |-> IF a = "a" THEN "m" ELSE "n"]
Posts == [i \in RaftItems |-> "a"]
Open == [i \in RaftItems |-> 0]
Tiered == [i \in RaftItems |-> 1]
Qualified == [a \in Agents |-> 1]

AtMost(k) ==
    {f \in [RaftFaultKinds -> 0..1] : MapThenSumSet(LAMBDA x : f[x], RaftFaultKinds) <= k}
One == AtMost(1)
Never == AtMost(0)

Mishaps == [f \in NetdFaultKinds |-> IF f \in {"crash", "flake"} THEN 2 ELSE 1]
=============================================================================
