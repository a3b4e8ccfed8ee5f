------------------------------- MODULE Submit -------------------------------
(***************************************************************************)
(* gyza submit (cli.py, cmd_submit) against a hosted agent (demo_agent.py) *)
(* whose envelope hook pushes results back (global_cluster.py,             *)
(* result_delivery.py): one short-lived process per task, which listens on *)
(* its node's daemon, posts and waits, and an agent that meters its calls  *)
(* of a paid model by day.  The board between them is module GossipBoard;  *)
(* here an item is open, claimed or done, and it reaches the agent through *)
(* the mesh, whether or not the two nodes are connected.  The deadline of  *)
(* a submit is longer than everything that is under way for it, unless it  *)
(* is a fault.  Frames come from the hosted agent.                         *)
(***************************************************************************)
EXTENDS Naturals, FiniteSets, Functions

CONSTANTS
    Tasks,
    Submitting,      \* the compositor keys of the submitting nodes
    Setups,          \* who submits which task, the agent's daily caps, the fault budgets
    CostOf,          \* [Tasks -> Nat]: what a paid call for the task turns out to cost
    Dearest,         \* the most a call can cost
    MaxDay           \* bound on the days

TroubleKinds == {"crash", "lost", "slow", "late"}

ASSUME SubmitAssumption ==
    /\ Setups \subseteq [by : [Tasks -> Submitting], per_submitter : Nat, global : Nat,
                        spend : Nat, faults : [TroubleKinds -> Nat]]
    /\ CostOf \in [Tasks -> Nat] /\ Dearest \in Nat \ {0} /\ \A t \in Tasks : CostOf[t] <= Dearest
    /\ MaxDay \in Nat \ {0} /\ IsFiniteSet(Submitting)

VARIABLES
    setup,      \* one of Setups, for the whole behaviour
    cli,        \* [Tasks -> CliStates]
    stream,     \* [Tasks -> BOOLEAN]: the daemon has registered the subscription
    inbox,      \* [Tasks -> SUBSET Tasks]: frames on their way through the stream
    got,        \* [Tasks -> SUBSET Tasks]: the frame _sub_loop accepted
    work,       \* [Tasks -> "none", "open", "claimed", "done"]
    agent,      \* the hosted agent: what it does and for which task
    creators,   \* tasks whose _intent_creator entry it holds
    connected,  \* nodes its daemon is connected to
    routes,     \* nodes in its PeerRegistry
    polled,     \* the registry asked the daemon within the last second
    day, quota, \* [1..MaxDay -> [Submitting -> Nat]]: queries, by day and submitter
    bill,       \* [1..MaxDay -> Nat]: the cost of the recorded tokens, by day
    troubles,   \* faults still allowed
    spent,      \* history [1..MaxDay -> [Submitting -> Nat]]: successful calls
    unrecorded, \* history [1..MaxDay -> Nat]: calls a crash kept from the record
    paid,       \* history [1..MaxDay -> Nat]: what the successful calls cost
    unbilled,   \* history [1..MaxDay -> Nat]: what the unrecorded ones cost
    unrouted    \* history: tasks whose push was skipped, for the submitting node was
                \* not connected or the registry's rate limit kept it from being looked up

submitVars == <<setup, cli, stream, inbox, got, work, agent, creators, connected, routes, polled,
                day, quota, bill, troubles, spent, unrecorded, paid, unbilled, unrouted>>
cliVars == <<cli, stream, inbox, got>>
routeVars == <<creators, connected, routes, polled, unrouted>>
meterVars == <<day, quota, bill, spent, unrecorded, paid, unbilled>>

(* The submitter is read from the intent the item descends from, which has  *)
(* arrived with it.  (An error while it is read charges "anonymous", whom   *)
(* the totals bind and no cap of its own; that is left out.)                *)
By(t) == setup.by[t]

CliStates == {"new", "listening", "waiting", "shown", "timeout"}
Resting == [at |-> "idle"]
Down == [at |-> "down"]
Doing(stage, t) == [at |-> stage, task |-> t]
Busy(stage) == agent.at = stage
Working(t) == agent.at \notin {"idle", "down"} /\ agent.task = t
Trouble(k) == troubles[k] > 0 /\ troubles' = [troubles EXCEPT ![k] = @ - 1]

-----------------------------------------------------------------------------
(* One gyza submit process.                                                 *)
cmd_submit(t) ==
    /\ cli[t] = "new"
    /\ cli' = [cli EXCEPT ![t] = "listening"]
    /\ UNCHANGED <<setup, stream, inbox, got, work, agent, routeVars, meterVars, troubles>>

(* The daemon registers the stream of the thread that subscribes.           *)
register(t) ==
    /\ cli[t] \in {"listening", "waiting"} /\ ~stream[t]
    /\ stream' = [stream EXCEPT ![t] = TRUE]
    /\ UNCHANGED <<setup, cli, inbox, got, work, agent, routeVars, meterVars, troubles>>

Posted(t) ==
    /\ cli' = [cli EXCEPT ![t] = "waiting"]
    /\ work' = [work EXCEPT ![t] = "open"]
    /\ creators' = IF agent.at = "down" THEN creators ELSE creators \cup {t}
    /\ UNCHANGED <<setup, stream, inbox, got, agent, connected, routes, polled, unrouted, meterVars>>

(* Fault: the item goes out before the subscription is asked for.           *)
PostFirst(t) == cli[t] = "listening" /\ Posted(t) /\ UNCHANGED troubles

(* Intent and item are posted and reach the agent, half a second after the  *)
(* subscription was asked for, which is enough unless the daemon is slow.   *)
post(t) ==
    /\ cli[t] = "listening"
    /\ IF stream[t] THEN UNCHANGED troubles ELSE Trouble("slow")
    /\ Posted(t)

(* Fault: any frame of the type is taken for the answer.                    *)
TakeAny(t, f) == TRUE

(* The frame is for the item this process waits for.                        *)
Wanted(t, f) == cli[t] = "waiting" /\ f = t

(* _sub_loop: one frame; the wanted one ends the thread.                    *)
_sub_loop(t) ==
    /\ got[t] = {}
    /\ \E f \in inbox[t] :
          /\ inbox' = [inbox EXCEPT ![t] = @ \ {f}]
          /\ got' = [got EXCEPT ![t] = IF Wanted(t, f) THEN {f} ELSE {}]
    /\ UNCHANGED <<setup, cli, stream, work, agent, routeVars, meterVars, troubles>>

Leaves(t, exit) ==
    /\ cli' = [cli EXCEPT ![t] = exit]
    /\ stream' = [stream EXCEPT ![t] = FALSE]
    /\ inbox' = [inbox EXCEPT ![t] = {}]
    /\ UNCHANGED <<setup, got, work, agent, routeVars, meterVars>>

(* The result is shown with the verdict on it, and the stream closed.       *)
show(t) ==
    /\ cli[t] = "waiting" /\ got[t] # {}
    /\ Leaves(t, "shown") /\ UNCHANGED troubles

(* Something is under way that would still reach the process.               *)
Coming(t) ==
    \/ got[t] # {}
    \/ stream[t] /\ \/ t \in inbox[t] \/ work[t] = "open"
                    \/ Working(t) /\ ~Busy("pushed")

times_out(t) ==
    /\ cli[t] = "waiting"
    /\ IF Coming(t) THEN Trouble("late") ELSE UNCHANGED troubles
    /\ Leaves(t, "timeout")

-----------------------------------------------------------------------------
(* The hosted agent, one item at a time.                                    *)
agent_claims(t) ==
    /\ Busy("idle") /\ work[t] = "open"
    /\ work' = [work EXCEPT ![t] = "claimed"]
    /\ agent' = Doing("check", t)
    /\ UNCHANGED <<setup, cliVars, routeVars, meterVars, troubles>>

Used(k) == quota[day][k]
UsedByAll == SumFunction(quota[day])

(* Fault: the cap itself is still allowed.                                  *)
AllowsCap(k) ==
    Used(k) <= setup.per_submitter /\ UsedByAll <= setup.global /\ bill[day] <= setup.spend

(* QuotaTracker.check: the queries of the submitter and of all, and what    *)
(* the recorded calls have cost.  What the next one costs is not known yet. *)
Allows(k) ==
    Used(k) < setup.per_submitter /\ UsedByAll < setup.global /\ bill[day] < setup.spend

(* A gated task is answered with a placeholder, which is signed like any    *)
(* other result.                                                            *)
check_quota ==
    /\ Busy("check")
    /\ agent' = Doing(IF Allows(By(agent.task)) THEN "call" ELSE "sign", agent.task)
    /\ UNCHANGED <<setup, cliVars, work, routeVars, meterVars, troubles>>

(* The paid call: it succeeds, or it raises and is answered for.            *)
call_model ==
    /\ Busy("call")
    /\ agent' = Doing("record", agent.task)
    /\ spent' = [spent EXCEPT ![day][By(agent.task)] = @ + 1]
    /\ paid' = [paid EXCEPT ![day] = @ + CostOf[agent.task]]
    /\ UNCHANGED <<setup, cliVars, work, routeVars, day, quota, bill, unrecorded, unbilled, troubles>>

call_raises ==
    /\ Busy("call")
    /\ agent' = Doing("sign", agent.task)
    /\ UNCHANGED <<setup, cliVars, work, routeVars, meterVars, troubles>>

(* QuotaTracker.record, on the day it is by then.                           *)
record ==
    /\ Busy("record")
    /\ quota' = [quota EXCEPT ![day][By(agent.task)] = @ + 1]
    /\ bill' = [bill EXCEPT ![day] = @ + CostOf[agent.task]]
    /\ agent' = Doing("sign", agent.task)
    /\ UNCHANGED <<setup, cliVars, work, routeVars, day, spent, unrecorded, paid, unbilled, troubles>>

-----------------------------------------------------------------------------
(* The hook, after signing and before the completion: the creator of the    *)
(* intent, the route to it, the push.                                       *)
Pushes(t) ==
    inbox' = [u \in Tasks |-> IF stream[u] /\ By(u) = By(t)
                              THEN inbox[u] \cup {t} ELSE inbox[u]]

(* resolve_peer_id: from the cache, or from the daemon's peers unless those *)
(* were asked for within the last second.                                   *)
Refreshed == IF polled THEN routes ELSE routes \cup connected

_hook ==
    /\ Busy("sign")
    /\ agent' = Doing("pushed", agent.task)
    /\ LET t == agent.task
           k == By(t)
       IN  IF t \notin creators
           THEN UNCHANGED <<inbox, routes, polled, unrouted>>
           ELSE IF k \in routes
           THEN Pushes(t) /\ UNCHANGED <<routes, polled, unrouted>>
           ELSE /\ routes' = Refreshed /\ polled' = TRUE
                /\ unrouted' = IF k \in Refreshed THEN unrouted ELSE unrouted \cup {t}
                /\ IF k \in Refreshed THEN Pushes(t) ELSE UNCHANGED inbox
    /\ UNCHANGED <<setup, cli, stream, got, work, creators, connected, meterVars, troubles>>

(* The lookup or the send fails, which is logged; nothing sends again.      *)
push_fails ==
    /\ Busy("sign") /\ Trouble("lost")
    /\ agent' = Doing("pushed", agent.task)
    /\ UNCHANGED <<setup, cliVars, work, routeVars, meterVars>>

agent_completes ==
    /\ Busy("pushed")
    /\ work' = [work EXCEPT ![agent.task] = "done"]
    /\ agent' = Resting
    /\ UNCHANGED <<setup, cliVars, routeVars, meterVars, troubles>>

-----------------------------------------------------------------------------
(* The agent dies and comes back without what it kept in memory; the lease  *)
(* on its item runs out.                                                    *)
agent_dies ==
    /\ agent.at # "down" /\ Trouble("crash")
    /\ agent' = Down
    /\ creators' = {} /\ routes' = {} /\ polled' = FALSE
    /\ unrecorded' = [unrecorded EXCEPT ![day] = @ + (IF Busy("record") THEN 1 ELSE 0)]
    /\ unbilled' = [unbilled EXCEPT ![day] =
                       @ + (IF Busy("record") THEN CostOf[agent.task] ELSE 0)]
    /\ UNCHANGED <<setup, cliVars, work, connected, unrouted, day, quota, bill, spent, paid>>

agent_restarts ==
    /\ Busy("down")
    /\ agent' = Resting
    /\ UNCHANGED <<setup, cliVars, work, routeVars, meterVars, troubles>>

item_reopens(t) ==
    /\ work[t] = "claimed" /\ ~Working(t)
    /\ work' = [work EXCEPT ![t] = "open"]
    /\ UNCHANGED <<setup, cliVars, agent, routeVars, meterVars, troubles>>

connects(k) ==
    /\ k \notin connected
    /\ connected' = connected \cup {k}
    /\ UNCHANGED <<setup, cliVars, work, agent, creators, routes, polled, unrouted, meterVars,
                   troubles>>

second_passes ==
    /\ polled
    /\ polled' = FALSE
    /\ UNCHANGED <<setup, cliVars, work, agent, creators, connected, routes, unrouted, meterVars,
                   troubles>>

midnight ==
    /\ day < MaxDay
    /\ day' = day + 1
    /\ UNCHANGED <<setup, cliVars, work, agent, routeVars, quota, bill, spent, unrecorded,
                   paid, unbilled, troubles>>

-----------------------------------------------------------------------------
NoCalls == [d \in 1..MaxDay |-> [k \in Submitting |-> 0]]
Nothing == [d \in 1..MaxDay |-> 0]

SubmitInit ==
    /\ setup \in Setups
    /\ cli = [t \in Tasks |-> "new"] /\ stream = [t \in Tasks |-> FALSE]
    /\ inbox = [t \in Tasks |-> {}] /\ got = [t \in Tasks |-> {}]
    /\ work = [t \in Tasks |-> "none"] /\ agent = Resting
    /\ creators = {} /\ connected = {} /\ routes = {} /\ polled = FALSE
    /\ day = 1 /\ quota = NoCalls /\ bill = Nothing /\ troubles = setup.faults
    /\ spent = NoCalls /\ unrecorded = Nothing /\ paid = Nothing /\ unbilled = Nothing
    /\ unrouted = {}

AgentStep ==
    \/ check_quota \/ call_model \/ call_raises \/ record
    \/ _hook \/ push_fails \/ agent_completes \/ agent_restarts

SubmitStep(t) == register(t) \/ post(t) \/ _sub_loop(t) \/ show(t) \/ times_out(t)

SubmitNext ==
    \/ AgentStep \/ agent_dies \/ second_passes \/ midnight
    \/ \E t \in Tasks : cmd_submit(t) \/ SubmitStep(t) \/ agent_claims(t) \/ item_reopens(t)
    \/ \E t \in Tasks : connects(By(t))

SubmitSpec == SubmitInit /\ [][SubmitNext]_submitVars

(* Every process that runs keeps running.                                   *)
SubmitFairness ==
    /\ WF_submitVars(AgentStep)
    /\ \A t \in Tasks : /\ WF_submitVars(SubmitStep(t))
                        /\ WF_submitVars(agent_claims(t)) /\ WF_submitVars(item_reopens(t))

-----------------------------------------------------------------------------
(* Properties.                                                              *)

Stages == {"check", "call", "record", "sign", "pushed"}
AgentStates == {Resting, Down} \cup {Doing(stage, t) : stage \in Stages, t \in Tasks}

(* The state has its types.                                                 *)
SubmitTypeOK ==
    /\ setup \in Setups
    /\ cli \in [Tasks -> CliStates] /\ stream \in [Tasks -> BOOLEAN]
    /\ inbox \in [Tasks -> SUBSET Tasks] /\ got \in [Tasks -> SUBSET Tasks]
    /\ work \in [Tasks -> {"none", "open", "claimed", "done"}]
    /\ agent \in AgentStates
    /\ creators \subseteq Tasks /\ connected \subseteq Submitting
    /\ routes \subseteq Submitting /\ polled \in BOOLEAN
    /\ day \in 1 .. MaxDay
    /\ quota \in [1 .. MaxDay -> [Submitting -> Nat]]
    /\ spent \in [1 .. MaxDay -> [Submitting -> Nat]]
    /\ unrecorded \in [1 .. MaxDay -> Nat] /\ bill \in [1 .. MaxDay -> Nat]
    /\ paid \in [1 .. MaxDay -> Nat] /\ unbilled \in [1 .. MaxDay -> Nat]
    /\ troubles \in [TroubleKinds -> Nat] /\ unrouted \subseteq Tasks

(* What a submit shows is the result of its own task, whoever else on the   *)
(* node is waiting for one.                                                 *)
OwnResultOnly == \A t \in Tasks : got[t] \subseteq {t}

(* The paid calls of a day stay within the daily numbers of queries, across *)
(* midnight and restarts, but for those whose record a crash prevented.     *)
QueriesBounded == \A d \in 1..MaxDay :
    /\ \A k \in Submitting : spent[d][k] <= setup.per_submitter + unrecorded[d]
    /\ SumFunction(spent[d]) <= setup.global + unrecorded[d]

(* They cost less than the daily spend cap and one call more ("approximately *)
(* bounded spend", demo_agent.py:139).                                      *)
CostBounded == \A d \in 1..MaxDay : paid[d] < setup.spend + Dearest + unbilled[d]

SpendBounded == QueriesBounded /\ CostBounded

Calm == troubles = setup.faults

(* "Started before we post the work item so a fast executor can't deliver   *)
(* into a void" (cli.py:2570): without a fault a submit times out only when *)
(* the agent had no route to its node: not connected, or not looked up for  *)
(* the registry's rate limit.                                               *)
ResultComesBack == \A t \in Tasks :
    cli[t] = "timeout" => t \in unrouted \/ ~Calm

(* Every submit that is started comes to an end.                            *)
SubmitEnds == \A t \in Tasks : cli[t] = "listening" ~> cli[t] \in {"shown", "timeout"}

(* The same whatever the routes are.                                        *)
AlwaysRouted == \A t \in Tasks : cli[t] = "timeout" => ~Calm

(* Finished work whose submitter still waits for it has been pushed to it.  *)
DoneIsDelivered == \A t \in Tasks :
    work[t] = "done" /\ cli[t] = "waiting" => t \in got[t] \cup inbox[t]

(* A submit shows its own result only, misses it only when the agent has no *)
(* route to its node or for a fault (cli.py:2570), and the paid calls made  *)
(* stay within the daily numbers and overspend the daily cap by less than   *)
(* one call (QuotaTracker.check).                                           *)
SubmitServed == SubmitTypeOK /\ OwnResultOnly /\ SpendBounded /\ ResultComesBack
=============================================================================
