------------------------------ MODULE RaftBoard ------------------------------
(***************************************************************************)
(* The work board in Raft mode (gyza/network/raft.py and the branches of   *)
(* gyza/blackboard.py that go through it).  Posts, claims and completions  *)
(* are entries of one log that every node applies in order to its own      *)
(* table; releases and lease expiries change the table of one node only.   *)
(* The log itself is pysyncobj: entries commit in one order or are lost,   *)
(* it is kept in memory, and a node that restarts applies it again to the  *)
(* table it has on disk.                                                   *)
(***************************************************************************)
EXTENDS Integers, Sequences, FiniteSets

CONSTANTS
    Nodes,
    Agents,
    At,          \* [Agents -> Nodes]: the node each agent runs on
    RaftItems,   \* work items
    Poster,      \* [RaftItems -> Agents]: who makes and posts each item
    Tier,        \* [RaftItems -> Nat]: required_tier
    AgentTier,   \* [Agents -> Nat]: what the manifest of each agent attests
    Nobody,
    MaxLog,      \* bound on the length of the log
    RaftFaults   \* the combinations of faults a behaviour may meet, as counts per kind

(* lose: an entry dies with its leader; timeout: a call gives up although   *)
(* its entry may still commit; overrun: a lease ends under a live holder;   *)
(* fail: the executor fails; restart: a node starts again.                  *)
RaftFaultKinds == {"lose", "timeout", "overrun", "fail", "restart"}

ASSUME RaftAssumption ==
    /\ At \in [Agents -> Nodes]
    /\ Poster \in [RaftItems -> Agents]
    /\ Tier \in [RaftItems -> Nat] /\ AgentTier \in [Agents -> Nat]
    /\ Nobody \notin Agents
    /\ MaxLog \in Nat
    /\ RaftFaults \subseteq [RaftFaultKinds -> Nat]

VARIABLES
    entries,    \* the committed log
    inflight,   \* proposed and not committed
    applied,    \* [Nodes -> Nat]
    table,      \* [Nodes -> [RaftItems -> RaftRow]]
    agent,      \* [Agents -> AgentState]: what each agent is waiting for
    raftFaults, \* faults so far
    freed       \* history: the items a node freed in its own table

raftVars == <<entries, inflight, applied, table, agent, raftFaults, freed>>

(* A row without an item, and one with its holder and whose output it has.  *)
NoRow == [posted |-> FALSE, by |-> Nobody, out |-> Nobody]
RaftRow == [posted : BOOLEAN, by : Agents \cup {Nobody}, out : Agents \cup {Nobody}]
Ops == {"post", "claim", "complete"}
LogEntry == [op : Ops, item : RaftItems, by : Agents]
Ready == [step |-> "ready"]
AgentState == {Ready} \cup [step : {"posting", "claiming", "working", "completing"},
                            item : RaftItems]

Entry(op, a, i) == [op |-> op, item |-> i, by |-> a]
Row(n, i) == table[n][i]
Become(a, s) == agent' = [agent EXCEPT ![a] = s]
Befalls(f) ==
    LET met == [raftFaults EXCEPT ![f] = @ + 1]
    IN  met \in RaftFaults /\ raftFaults' = met

-----------------------------------------------------------------------------
(* Applying an entry to a row.                                              *)

(* Fault: a later claim replaces an earlier one.                            *)
ClaimLastWins(row, i, a) == IF row.posted THEN [row EXCEPT !.by = a] ELSE row

(* Fault: the tier of the claimant has to exceed the required one.          *)
ClaimTierStrict(row, i, a) ==
    IF row.posted /\ row.by = Nobody /\ 0 > Tier[i] THEN [row EXCEPT !.by = a] ELSE row

(* try_claim_direct as the apply step calls it, without the tier of the     *)
(* claimant, which therefore counts as 0.                                   *)
try_claim_direct(row, i, a) ==
    IF row.posted /\ row.by = Nobody /\ Tier[i] = 0 THEN [row EXCEPT !.by = a] ELSE row

(* Fault: a replica checks the holder it has.                               *)
CompleteOwned(row, a) == IF row.by = a THEN [row EXCEPT !.out = a] ELSE row

(* complete_work_item_direct without an expected owner.                     *)
complete_work_item_direct(row, a) == IF row.posted THEN [row EXCEPT !.out = a] ELSE row

post_work_item_direct(row) == [row EXCEPT !.posted = TRUE]

Applied(row, e) ==
    CASE e.op = "post" -> post_work_item_direct(row)
      [] e.op = "claim" -> try_claim_direct(row, e.item, e.by)
      [] e.op = "complete" -> complete_work_item_direct(row, e.by)

(* What the caller, on the node that applies its entry, does next.          *)
Answer(e, before, after) ==
    IF e.op = "claim" /\ after # before
    THEN [step |-> "working", item |-> e.item] ELSE Ready

Step(op) == CASE op = "post" -> "posting" [] op = "claim" -> "claiming"
              [] op = "complete" -> "completing"

apply(n) ==
    /\ applied[n] < Len(entries)
    /\ LET e == entries[applied[n] + 1]
           after == Applied(Row(n, e.item), e)
       IN  /\ table' = [table EXCEPT ![n][e.item] = after]
           /\ IF At[e.by] = n /\ agent[e.by] = [step |-> Step(e.op), item |-> e.item]
              THEN Become(e.by, Answer(e, Row(n, e.item), after))
              ELSE UNCHANGED agent
    /\ applied' = [applied EXCEPT ![n] = @ + 1]
    /\ UNCHANGED <<entries, inflight, raftFaults, freed>>

-----------------------------------------------------------------------------
(* Calls of an agent on the board of its node.                              *)
Propose(op, a, i) ==
    /\ Len(entries) + Cardinality(inflight) < MaxLog
    /\ Entry(op, a, i) \notin inflight
    /\ inflight' = inflight \cup {Entry(op, a, i)}
    /\ Become(a, [step |-> Step(op), item |-> i])
    /\ UNCHANGED <<entries, applied, table, raftFaults, freed>>

post_work_item(i) ==
    LET a == Poster[i] IN
    agent[a] = Ready /\ ~Row(At[a], i).posted /\ Propose("post", a, i)

(* get_unclaimed and the local tier check.                                  *)
try_claim(a, i) ==
    /\ agent[a] = Ready
    /\ LET row == Row(At[a], i) IN row.posted /\ row.by = Nobody
    /\ Tier[i] <= AgentTier[a]
    /\ Propose("claim", a, i)

complete_work_item(a) ==
    agent[a].step = "working" /\ Propose("complete", a, agent[a].item)

(* Fault: the claim is cleared to an empty text, which is not NULL.         *)
FreeToEmpty(n, i) ==
    /\ Row(n, i).by # Nobody /\ Row(n, i).out = Nobody
    /\ table' = [table EXCEPT ![n][i].by = ""]
    /\ freed' = freed \cup {i}

(* Freeing a row clears the claim in the local table.                       *)
Free(n, i) ==
    /\ Row(n, i).by # Nobody /\ Row(n, i).out = Nobody
    /\ table' = [table EXCEPT ![n][i].by = Nobody]
    /\ freed' = freed \cup {i}

(* release_claim, where the executor failed.                                *)
release_claim(a) ==
    /\ agent[a].step = "working"
    /\ Befalls("fail")
    /\ IF Row(At[a], agent[a].item).by # Nobody /\ Row(At[a], agent[a].item).out = Nobody
       THEN Free(At[a], agent[a].item) ELSE UNCHANGED <<table, freed>>
    /\ Become(a, Ready)
    /\ UNCHANGED <<entries, inflight, applied>>

(* reclaim_expired_claims: of a holder that no longer works, or of one      *)
(* slower than its lease.                                                   *)
Working(a, i) == agent[a] \in {[step |-> s, item |-> i] : s \in {"claiming", "working", "completing"}}

reclaim_expired_claims(n, i) ==
    /\ Free(n, i)
    /\ IF Working(Row(n, i).by, i) THEN Befalls("overrun") ELSE UNCHANGED raftFaults
    /\ UNCHANGED <<entries, inflight, applied, agent>>

-----------------------------------------------------------------------------
(* The log, and what can befall a call.                                     *)
commit(e) ==
    /\ entries' = Append(entries, e)
    /\ inflight' = inflight \ {e}
    /\ UNCHANGED <<applied, table, agent, raftFaults, freed>>

lose_entry(e) ==
    /\ Befalls("lose")
    /\ inflight' = inflight \ {e}
    /\ UNCHANGED <<entries, applied, table, agent, freed>>

(* sync=True, timeout=10.0: the call raises and the runner goes on.         *)
Overdue(a) ==
    /\ agent[a].step \in {"posting", "claiming", "completing"}
    /\ \A e \in inflight : e.by # a

call_times_out(a) ==
    /\ agent[a].step \in {"posting", "claiming", "completing"}
    /\ IF Overdue(a) /\ \A n \in Nodes : applied[n] = Len(entries)
       THEN UNCHANGED raftFaults ELSE Befalls("timeout")
    /\ Become(a, Ready)
    /\ UNCHANGED <<entries, inflight, applied, table, freed>>

restart_node(n) ==
    /\ Befalls("restart")
    /\ applied' = [applied EXCEPT ![n] = 0]
    /\ agent' = [a \in Agents |-> IF At[a] = n THEN Ready ELSE agent[a]]
    /\ UNCHANGED <<entries, inflight, table, freed>>

-----------------------------------------------------------------------------
RaftInit ==
    /\ entries = <<>> /\ inflight = {}
    /\ applied = [n \in Nodes |-> 0]
    /\ table = [n \in Nodes |-> [i \in RaftItems |-> NoRow]]
    /\ agent = [a \in Agents |-> Ready]
    /\ raftFaults = [f \in RaftFaultKinds |-> 0]
    /\ freed = {}

RaftNext ==
    \/ \E n \in Nodes : apply(n) \/ restart_node(n)
    \/ \E n \in Nodes, i \in RaftItems : reclaim_expired_claims(n, i)
    \/ \E a \in Agents : complete_work_item(a) \/ release_claim(a) \/ call_times_out(a)
    \/ \E i \in RaftItems : post_work_item(i) \/ \E a \in Agents : try_claim(a, i)
    \/ \E e \in inflight : commit(e) \/ lose_entry(e)

RaftSpec == RaftInit /\ [][RaftNext]_raftVars

(* A live cluster commits and applies, and runners keep polling.            *)
RaftFairness ==
    /\ \A n \in Nodes : WF_raftVars(apply(n))
    /\ \A n \in Nodes, i \in RaftItems : WF_raftVars(reclaim_expired_claims(n, i))
    /\ \A a \in Agents : WF_raftVars(complete_work_item(a)) /\ WF_raftVars(call_times_out(a))
    /\ \A a \in Agents, i \in RaftItems : SF_raftVars(try_claim(a, i))
    /\ \A a \in Agents, i \in RaftItems, op \in Ops :
           WF_raftVars(Entry(op, a, i) \in inflight /\ commit(Entry(op, a, i)))

-----------------------------------------------------------------------------
(* Properties.                                                              *)

(* The state has its types.                                                 *)
RaftTypeOK ==
    /\ entries \in Seq(LogEntry)
    /\ inflight \subseteq LogEntry
    /\ applied \in [Nodes -> Nat]
    /\ table \in [Nodes -> [RaftItems -> RaftRow]]
    /\ agent \in [Agents -> AgentState]
    /\ raftFaults \in [RaftFaultKinds -> Nat]
    /\ freed \subseteq RaftItems

(* An item is claimed once across the cluster, whatever is lost, timed out  *)
(* or restarted, until a node frees it in its own table: of the agents that *)
(* were told they hold it one at most is at work on it, and its node says   *)
(* so (raft_claim_work_item, raft.py:185).                                  *)
AtWork(a) == agent[a].step \in {"working", "completing"}

ClaimedOnce ==
    \A a \in Agents : AtWork(a) /\ agent[a].item \notin freed =>
        /\ Row(At[a], agent[a].item).by = a
        /\ \A b \in Agents \ {a} : AtWork(b) => agent[b].item # agent[a].item

(* Whatever leases, failures, timeouts and restarts do to the tables, the   *)
(* nodes that have applied the whole log have the same outputs.             *)
OutputsAgree ==
    \A m, n \in Nodes : applied[m] = Len(entries) /\ applied[n] = Len(entries) =>
        \A i \in RaftItems : Row(m, i).out = Row(n, i).out

(* Every posted item that some agent may claim is completed on every node,  *)
(* or a node has freed it: no loss, timeout or restart leaves it to nobody. *)
ItemsComplete == \A i \in RaftItems :
    (\E n \in Nodes, a \in Agents : Row(n, i).posted /\ Tier[i] <= AgentTier[a])
        ~> (i \in freed \/ \A n \in Nodes : Row(n, i).out # Nobody)

(* "The tier is checked LOCALLY, before proposing ... a replica cannot      *)
(* re-derive this" (blackboard.py:363): a claim that passed that check and  *)
(* finds the row unclaimed where it is applied is granted.                  *)
TierCheckedLocally ==
    [][\A n \in Nodes : applied'[n] = applied[n] + 1 =>
           LET e == entries[applied'[n]]
           IN  e.op = "claim" /\ Row(n, e.item).posted => table'[n][e.item].by # Nobody]_raftVars

(* The replicated table is one table: an item has one holder until some node*)
(* frees it by itself, and nodes that applied the same log have the same    *)
(* outputs.                                                                 *)
ReplicasAgree == RaftTypeOK /\ ClaimedOnce /\ OutputsAgree
=============================================================================
