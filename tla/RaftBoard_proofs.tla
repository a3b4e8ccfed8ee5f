-------------------------- MODULE RaftBoard_proofs --------------------------
(***************************************************************************)
(* Proofs about RaftBoard, for every number of nodes, agents and items,    *)
(* every tier, every log bound and any combination of faults.              *)
(***************************************************************************)
EXTENDS RaftBoard, FiniteFacts, TLAPS

IsOp(j, op, i) == entries[j].op = op /\ entries[j].item = i
PostLogged(i) == \E j \in DOMAIN entries : IsOp(j, "post", i)

(* No node has applied more than was committed.                             *)
AppliedBounded == \A n \in Nodes : applied[n] <= Len(entries)

(* Whatever is known or said about an item comes after its post in the log: *)
(* a claim or a completion is proposed where the row has been seen.         *)
PostsFirst ==
    /\ \A n \in Nodes, i \in RaftItems : Row(n, i).posted => PostLogged(i)
    /\ \A e \in inflight : e.op \in {"claim", "complete"} => PostLogged(e.item)
    /\ \A a \in Agents : agent[a].step = "working" => PostLogged(agent[a].item)
    /\ \A j \in DOMAIN entries : entries[j].op \in {"claim", "complete"} =>
           \E k \in 1 .. j - 1 : IsOp(k, "post", entries[j].item)

(* An applied post has its row, also after a restart.                       *)
PostsApplied ==
    \A n \in Nodes : \A j \in 1 .. applied[n] :
        entries[j].op = "post" => Row(n, entries[j].item).posted

(* The output of a row is that of the last completion applied; a table that *)
(* is behind its log, after a restart, may be ahead of what it has applied. *)
LastCompletion(j, upto) ==
    /\ entries[j].op = "complete"
    /\ \A k \in j + 1 .. upto : ~IsOp(k, "complete", entries[j].item)

OutputFollowsLog ==
    /\ \A n \in Nodes, i \in RaftItems : Row(n, i).out # Nobody =>
           \E j \in DOMAIN entries : IsOp(j, "complete", i)
    /\ \A n \in Nodes : \A j \in 1 .. applied[n] :
           LastCompletion(j, applied[n]) => Row(n, entries[j].item).out = entries[j].by

(* The holder of a row nobody freed is whoever comes first in the log.      *)
FirstClaim(j, i) ==
    IsOp(j, "claim", i) /\ \A k \in 1 .. j - 1 : ~IsOp(k, "claim", i)

HolderIsFirst ==
    /\ \A n \in Nodes, i \in RaftItems \ freed : Row(n, i).by # Nobody =>
           \E j \in DOMAIN entries : FirstClaim(j, i) /\ entries[j].by = Row(n, i).by
    /\ \A n \in Nodes : \A j \in 1 .. applied[n] :
           /\ entries[j].op = "claim"
           /\ entries[j].item \notin freed
           /\ Tier[entries[j].item] = 0
           => Row(n, entries[j].item).by # Nobody

(* Who was told that it holds an item holds the row of its node.            *)
WorkersHold ==
    \A a \in Agents : AtWork(a) /\ agent[a].item \notin freed =>
        Row(At[a], agent[a].item).by = a

IInv ==
    /\ RaftTypeOK
    /\ AppliedBounded
    /\ PostsFirst
    /\ PostsApplied
    /\ OutputFollowsLog
    /\ HolderIsFirst
    /\ WorkersHold

USE RaftAssumption

-----------------------------------------------------------------------------
(* What the invariant says of the properties.                               *)

(* Nodes that have applied the whole log have the output of its last        *)
(* completion, or none.                                                     *)
LEMMA OutputsFromInv == IInv => OutputsAgree
<1> SUFFICES ASSUME IInv, NEW m \in Nodes, NEW n \in Nodes,
                    applied[m] = Len(entries), applied[n] = Len(entries),
                    NEW i \in RaftItems
             PROVE  Row(m, i).out = Row(n, i).out
    BY DEF OutputsAgree
<1> DEFINE T == {j \in 1 .. Len(entries) : IsOp(j, "complete", i)}
<1>0. Len(entries) \in Nat /\ DOMAIN entries = 1 .. Len(entries)
    BY DEF IInv, RaftTypeOK
<1>1. CASE T = {}
    BY <1>0, <1>1 DEF IInv, OutputFollowsLog
<1>2. CASE T # {}
    <2>0. T \in SUBSET (1 .. Len(entries))
        OBVIOUS
    <2> HIDE DEF T
    <2>1. PICK j \in T : \A k \in T : k <= j
        BY <1>0, <1>2, <2>0, HasLast
    <2> USE DEF T
    <2>2. \A k \in j + 1 .. Len(entries) : ~IsOp(k, "complete", i)
        BY <1>0, <2>1
    <2>3. entries[j].op = "complete" /\ entries[j].item = i /\ j \in 1 .. Len(entries)
        BY <2>1 DEF IsOp
    <2>4. \A p \in {m, n} : Row(p, i).out = entries[j].by
        BY <2>2, <2>3 DEF IInv, OutputFollowsLog, LastCompletion
    <2> QED
        BY <2>4
<1> QED
    BY <1>1, <1>2

(* Two agents at work on an item would both be first in the log.            *)
LEMMA ClaimedOnceFromInv == IInv => ClaimedOnce
<1> SUFFICES ASSUME IInv, NEW a \in Agents, AtWork(a), agent[a].item \notin freed
             PROVE  /\ Row(At[a], agent[a].item).by = a
                    /\ \A b \in Agents \ {a} : AtWork(b) => agent[b].item # agent[a].item
    BY DEF ClaimedOnce
<1>1. Row(At[a], agent[a].item).by = a
    BY DEF IInv, WorkersHold
<1>2. ASSUME NEW b \in Agents \ {a}, AtWork(b), agent[b].item = agent[a].item
      PROVE  FALSE
    <2> DEFINE i == agent[a].item
    <2>0. i \in RaftItems /\ At[a] \in Nodes /\ At[b] \in Nodes
        BY DEF IInv, RaftTypeOK, AgentState, Ready, AtWork
    <2>1. Row(At[b], i).by = b
        BY <1>2 DEF IInv, WorkersHold
    <2>2. PICK j \in DOMAIN entries : FirstClaim(j, i) /\ entries[j].by = a
        BY <1>1, <2>0 DEF IInv, HolderIsFirst
    <2>3. PICK k \in DOMAIN entries : FirstClaim(k, i) /\ entries[k].by = b
        BY <2>1, <2>0 DEF IInv, HolderIsFirst
    <2>4. j \in Nat /\ k \in Nat /\ j >= 1 /\ k >= 1
        BY DEF IInv, RaftTypeOK
    <2>5. j = k
        BY <2>2, <2>3, <2>4 DEF FirstClaim
    <2> QED
        BY <2>2, <2>3, <2>5
<1> QED
    BY <1>1, <1>2

-----------------------------------------------------------------------------
LEMMA InitHolds == RaftInit => IInv
<1> SUFFICES ASSUME RaftInit PROVE IInv
    OBVIOUS
<1> USE DEF RaftInit
<1>1. RaftTypeOK
    BY DEF RaftTypeOK, NoRow, RaftRow, AgentState, Ready
<1> QED
    BY <1>1 DEF IInv, AppliedBounded, PostsFirst, PostsApplied, OutputFollowsLog,
       HolderIsFirst, WorkersHold, AtWork, Ready, NoRow, Row

(* A step that leaves log and tables alone and adds to the proposals only   *)
(* what was posted.                                                         *)
LEMMA CallStep ==
    ASSUME IInv, UNCHANGED <<entries, applied, table, freed>>,
           agent' \in [Agents -> AgentState], inflight' \subseteq LogEntry,
           raftFaults' \in [RaftFaultKinds -> Nat],
           \A e \in inflight' : e \in inflight \/ (e.op # "post" => PostLogged(e.item)),
           \A a \in Agents : /\ agent'[a].step = "working" => agent'[a] = agent[a]
                             /\ AtWork(a)' => AtWork(a) /\ agent'[a].item = agent[a].item
    PROVE  IInv'
<1>0. entries' = entries /\ applied' = applied /\ table' = table /\ freed' = freed
    OBVIOUS
<1>1. RaftTypeOK'
    BY <1>0 DEF IInv, RaftTypeOK
<1>2. \A i : PostLogged(i)' = PostLogged(i)
    BY <1>0 DEF PostLogged, IsOp
<1>3. PostsFirst'
    <2>1. \A n \in Nodes, i \in RaftItems : Row(n, i)'.posted => PostLogged(i)'
        BY <1>0, <1>2 DEF IInv, PostsFirst, Row
    <2>2. \A e \in inflight' : e.op \in {"claim", "complete"} => PostLogged(e.item)'
        BY <1>2 DEF IInv, PostsFirst
    <2>3. (\A a \in Agents : agent[a].step = "working" => PostLogged(agent[a].item))'
        BY <1>0 DEF IInv, PostsFirst, PostLogged, IsOp
    <2>4. \A j \in DOMAIN entries' : entries'[j].op \in {"claim", "complete"} =>
              \E k \in 1 .. j - 1 : IsOp(k, "post", entries[j].item)'
        BY <1>0 DEF IInv, PostsFirst, IsOp
    <2> QED
        BY <1>0, <2>1, <2>2, <2>3, <2>4 DEF PostsFirst
<1>4. AppliedBounded' /\ PostsApplied'
    BY <1>0 DEF IInv, AppliedBounded, PostsApplied, Row
<1>5. OutputFollowsLog'
    BY <1>0 DEF IInv, OutputFollowsLog, LastCompletion, Row, IsOp
<1>6. HolderIsFirst'
    BY <1>0 DEF IInv, HolderIsFirst, Row, IsOp, FirstClaim
<1>7. WorkersHold'
    BY <1>0 DEF IInv, WorkersHold, Row
<1> QED
    BY <1>1, <1>3, <1>4, <1>5, <1>6, <1>7 DEF IInv

LEMMA ProposeStep ==
    ASSUME IInv, NEW op \in Ops, NEW a \in Agents, NEW i \in RaftItems,
           Propose(op, a, i),
           op # "post" => PostLogged(i),
           op = "complete" => agent[a].step = "working" /\ agent[a].item = i
    PROVE  IInv'
<1> DEFINE s == [step |-> Step(op), item |-> i]
<1>1. s \in AgentState /\ s.step = Step(op) /\ s.item = i
    BY DEF Step, Ops, AgentState
<1>2. agent' = [agent EXCEPT ![a] = s] /\ agent \in [Agents -> AgentState]
    BY DEF Propose, Become, IInv, RaftTypeOK
<1>3. Step(op) # "working" /\ (Step(op) = "completing" => op = "complete")
    BY DEF Step, Ops
<1>4. Entry(op, a, i) \in LogEntry /\ Entry(op, a, i).op = op /\ Entry(op, a, i).item = i
    BY DEF Entry, LogEntry, Ops
<1>5. inflight' = inflight \cup {Entry(op, a, i)}
    BY DEF Propose
<1> HIDE DEF s
<1>6. \A b \in Agents : /\ agent'[b].step = "working" => agent'[b] = agent[b]
                        /\ AtWork(b)' => AtWork(b) /\ agent'[b].item = agent[b].item
    BY <1>1, <1>2, <1>3 DEF AtWork
<1>7. agent' \in [Agents -> AgentState]
    BY <1>1, <1>2
<1>8. \A e \in inflight' : e \in inflight \/ (e.op # "post" => PostLogged(e.item))
    BY <1>4, <1>5
<1>9. inflight' \subseteq LogEntry /\ raftFaults' \in [RaftFaultKinds -> Nat]
    BY <1>4, <1>5 DEF Propose, IInv, RaftTypeOK
<1>10. UNCHANGED <<entries, applied, table, freed>>
    BY DEF Propose
<1> QED
    BY <1>6, <1>7, <1>8, <1>9, <1>10, CallStep

LEMMA BefallsTyped ==
    ASSUME NEW f, Befalls(f)
    PROVE  raftFaults' \in [RaftFaultKinds -> Nat]
BY DEF Befalls

LEMMA LoseStep ==
    ASSUME IInv, NEW e \in inflight, lose_entry(e)
    PROVE  IInv'
<1>1. raftFaults' \in [RaftFaultKinds -> Nat]
    BY BefallsTyped DEF lose_entry
<1>2. /\ inflight' \subseteq LogEntry
      /\ \A x \in inflight' : x \in inflight
    BY DEF lose_entry, IInv, RaftTypeOK
<1>3. agent' = agent /\ agent' \in [Agents -> AgentState]
    BY DEF lose_entry, IInv, RaftTypeOK
<1>4. UNCHANGED <<entries, applied, table, freed>>
    BY DEF lose_entry
<1> QED
    BY <1>1, <1>2, <1>3, <1>4, CallStep DEF AtWork

LEMMA TimeoutStep ==
    ASSUME IInv, NEW a \in Agents, call_times_out(a)
    PROVE  IInv'
<1>1. raftFaults' \in [RaftFaultKinds -> Nat]
    BY BefallsTyped DEF call_times_out, IInv, RaftTypeOK
<1>2. agent' = [agent EXCEPT ![a] = Ready] /\ agent \in [Agents -> AgentState]
    BY DEF call_times_out, Become, IInv, RaftTypeOK
<1>3. /\ agent' \in [Agents -> AgentState]
      /\ \A b \in Agents : b # a => agent'[b] = agent[b]
      /\ agent'[a].step = "ready"
    BY <1>2 DEF AgentState, Ready
<1>4. /\ inflight' = inflight /\ inflight' \subseteq LogEntry
      /\ UNCHANGED <<entries, applied, table, freed>>
    BY DEF call_times_out, IInv, RaftTypeOK
<1>5. \A b \in Agents : /\ agent'[b].step = "working" => agent'[b] = agent[b]
                        /\ AtWork(b)' => AtWork(b) /\ agent'[b].item = agent[b].item
    BY <1>3 DEF AtWork
<1> QED
    BY <1>1, <1>3, <1>4, <1>5, CallStep

(* Committing puts an entry behind every other.                             *)
LEMMA CommitStep ==
    ASSUME IInv, NEW e \in inflight, commit(e)
    PROVE  IInv'
<1> DEFINE L == Len(entries)
<1>0. /\ entries' = Append(entries, e)
      /\ inflight' = inflight \ {e}
      /\ applied' = applied /\ table' = table /\ agent' = agent
      /\ raftFaults' = raftFaults /\ freed' = freed
    BY DEF commit
<1>1. /\ L \in Nat /\ DOMAIN entries = 1 .. L
      /\ e \in LogEntry /\ entries \in Seq(LogEntry)
    BY DEF IInv, RaftTypeOK
<1>2. /\ entries' \in Seq(LogEntry) /\ Len(entries') = L + 1
      /\ DOMAIN entries' = 1 .. L + 1
      /\ \A j \in 1 .. L : entries'[j] = entries[j]
      /\ entries'[L + 1] = e
    BY <1>0, <1>1
<1> HIDE DEF L
<1>3. \A j \in 1 .. L : \A op, i : IsOp(j, op, i)' = IsOp(j, op, i)
    BY <1>2 DEF IsOp
<1>4. \A i : PostLogged(i) => PostLogged(i)'
    BY <1>1, <1>2, <1>3 DEF PostLogged
<1>5. \A n \in Nodes : applied[n] \in Nat /\ applied[n] <= L
    BY DEF IInv, RaftTypeOK, AppliedBounded, L
<1>6. RaftTypeOK'
    BY <1>0, <1>2 DEF IInv, RaftTypeOK
<1>7. AppliedBounded'
    BY <1>0, <1>1, <1>2, <1>5 DEF AppliedBounded
<1>8. PostsFirst'
    <2>1. (\A n \in Nodes, i \in RaftItems : Row(n, i).posted => PostLogged(i))'
        BY <1>0, <1>4 DEF IInv, PostsFirst, Row
    <2>2. (\A x \in inflight : x.op \in {"claim", "complete"} => PostLogged(x.item))'
        BY <1>0, <1>4 DEF IInv, PostsFirst
    <2>3. (\A a \in Agents : agent[a].step = "working" => PostLogged(agent[a].item))'
        <3> SUFFICES ASSUME NEW a \in Agents, agent[a].step = "working"
                     PROVE  PostLogged(agent[a].item)'
            BY <1>0
        <3>1. PICK j \in DOMAIN entries : IsOp(j, "post", agent[a].item)
            BY DEF IInv, PostsFirst, PostLogged
        <3> QED
            BY <1>0, <1>1, <1>2, <3>1 DEF PostLogged, IsOp
    <2>4. ASSUME NEW j \in 1 .. L + 1, entries'[j].op \in {"claim", "complete"}
          PROVE  \E k \in 1 .. j - 1 : IsOp(k, "post", entries[j].item)'
        <3>1. CASE j \in 1 .. L
            <4>1. PICK k \in 1 .. j - 1 : IsOp(k, "post", entries[j].item)
                BY <1>1, <1>2, <2>4, <3>1 DEF IInv, PostsFirst
            <4> QED
                BY <1>1, <1>2, <3>1, <4>1 DEF IsOp
        <3>2. CASE j = L + 1
            <4>1. PostLogged(e.item)
                BY <1>2, <2>4, <3>2 DEF IInv, PostsFirst
            <4>2. PICK k \in 1 .. L : IsOp(k, "post", e.item)
                BY <1>1, <4>1 DEF PostLogged
            <4> QED
                BY <1>1, <1>2, <3>2, <4>2 DEF IsOp
        <3> QED
            BY <1>1, <3>1, <3>2
    <2> QED
        BY <1>2, <2>1, <2>2, <2>3, <2>4 DEF PostsFirst
<1>9. PostsApplied'
    BY <1>0, <1>1, <1>2, <1>5 DEF IInv, PostsApplied, Row
<1>10. OutputFollowsLog'
    <2>1. (\A n \in Nodes, i \in RaftItems : Row(n, i).out # Nobody =>
               \E j \in DOMAIN entries : IsOp(j, "complete", i))'
        BY <1>0, <1>1, <1>2, <1>3 DEF IInv, OutputFollowsLog, Row
    <2>2. ASSUME NEW n \in Nodes, NEW j \in 1 .. applied[n], LastCompletion(j, applied[n])'
          PROVE  table[n][entries'[j].item].out = entries'[j].by
        <3>1. \A k \in 1 .. applied[n] : entries'[k] = entries[k]
            BY <1>1, <1>2, <1>5
        <3>a. \A k \in j + 1 .. applied[n] : k \in 1 .. applied[n]
            BY <1>5
        <3>b. entries[j].op = "complete" /\ entries'[j] = entries[j]
            BY <2>2, <3>1 DEF LastCompletion
        <3>c. \A k \in j + 1 .. applied[n] : ~IsOp(k, "complete", entries[j].item)'
            BY <1>0, <2>2 DEF LastCompletion
        <3>d. \A k \in j + 1 .. applied[n] : ~IsOp(k, "complete", entries[j].item)
            BY <3>1, <3>a, <3>b, <3>c DEF IsOp
        <3>2. LastCompletion(j, applied[n])
            BY <3>b, <3>d DEF LastCompletion
        <3> QED
            BY <3>1, <3>2 DEF IInv, OutputFollowsLog, Row
    <2>3. (\A n \in Nodes : \A j \in 1 .. applied[n] :
               LastCompletion(j, applied[n]) => Row(n, entries[j].item).out = entries[j].by)'
        BY <1>0, <2>2 DEF Row
    <2> QED
        BY <2>1, <2>3 DEF OutputFollowsLog
<1>11. HolderIsFirst'
    <2>1. ASSUME NEW n \in Nodes, NEW i \in RaftItems \ freed, Row(n, i).by # Nobody
          PROVE  \E j \in DOMAIN entries' : FirstClaim(j, i)' /\ entries'[j].by = Row(n, i).by
        <3>1. PICK j \in DOMAIN entries : FirstClaim(j, i) /\ entries[j].by = Row(n, i).by
            BY <2>1 DEF IInv, HolderIsFirst
        <3>2. j \in 1 .. L /\ entries'[j] = entries[j]
            BY <1>1, <1>2
        <3>3. \A k \in 1 .. j - 1 : k \in 1 .. L
            BY <1>1, <3>2
        <3>4. IsOp(j, "claim", i)'
            BY <3>1, <3>2, <1>3 DEF FirstClaim
        <3>5. \A k \in 1 .. j - 1 : ~IsOp(k, "claim", i)'
            BY <3>1, <3>3, <1>3 DEF FirstClaim
        <3>6. FirstClaim(j, i)'
            BY <3>4, <3>5 DEF FirstClaim
        <3> QED
            BY <1>1, <1>2, <3>1, <3>2, <3>6
    <2>2. \A n \in Nodes : \A j \in 1 .. applied[n] : entries'[j] = entries[j]
        BY <1>1, <1>2, <1>5
    <2>3. \A n \in Nodes : \A j \in 1 .. applied[n] :
              /\ entries'[j].op = "claim"
              /\ entries'[j].item \notin freed
              /\ Tier[entries'[j].item] = 0
              => Row(n, entries'[j].item).by # Nobody
        BY <2>2 DEF IInv, HolderIsFirst
    <2>4. \A n \in Nodes, i \in RaftItems : Row(n, i)' = Row(n, i)
        BY <1>0 DEF Row
    <2>5. (\A n \in Nodes, i \in RaftItems \ freed : Row(n, i).by # Nobody =>
               \E j \in DOMAIN entries : FirstClaim(j, i) /\ entries[j].by = Row(n, i).by)'
        BY <1>0, <2>1, <2>4
    <2>6. (\A n \in Nodes : \A j \in 1 .. applied[n] :
               /\ entries[j].op = "claim"
               /\ entries[j].item \notin freed
               /\ Tier[entries[j].item] = 0
               => Row(n, entries[j].item).by # Nobody)'
        BY <1>0, <2>3 DEF Row
    <2> QED
        BY <2>5, <2>6 DEF HolderIsFirst
<1>12. WorkersHold'
    BY <1>0 DEF IInv, WorkersHold, AtWork, Row
<1> QED
    BY <1>6, <1>7, <1>8, <1>9, <1>10, <1>11, <1>12 DEF IInv

(* A step off the log: tables keep posts and outputs and lose a holder only *)
(* where the item is then freed, a node may have to apply the log again and *)
(* agents may be sent back.                                                 *)
LEMMA LocalStep ==
    ASSUME IInv, UNCHANGED <<entries, inflight>>,
           freed \subseteq freed', freed' \subseteq RaftItems,
           raftFaults' \in [RaftFaultKinds -> Nat],
           table' \in [Nodes -> [RaftItems -> RaftRow]],
           applied' \in [Nodes -> Nat],
           \A n \in Nodes : applied'[n] = applied[n] \/ applied'[n] = 0,
           \A n \in Nodes, i \in RaftItems :
               /\ Row(n, i)'.posted = Row(n, i).posted
               /\ Row(n, i)'.out = Row(n, i).out
               /\ i \notin freed' => Row(n, i)'.by = Row(n, i).by,
           agent' \in [Agents -> AgentState],
           \A a \in Agents : agent'[a] = agent[a] \/ agent'[a] = Ready
    PROVE  IInv'
<1>0. /\ entries' = entries /\ inflight' = inflight
      /\ \A j, op, i : IsOp(j, op, i)' = IsOp(j, op, i)
      /\ \A i : PostLogged(i)' = PostLogged(i)
      /\ \A j, i : FirstClaim(j, i)' = FirstClaim(j, i)
    BY DEF IsOp, PostLogged, FirstClaim
<1>1. RaftTypeOK'
    BY <1>0 DEF IInv, RaftTypeOK
<1>a. Len(entries) \in Nat /\ DOMAIN entries = 1 .. Len(entries)
    BY DEF IInv, RaftTypeOK
<1>b. \A n \in Nodes : /\ applied[n] \in Nat /\ applied'[n] \in Nat
                       /\ applied[n] <= Len(entries)
    BY DEF IInv, RaftTypeOK, AppliedBounded
<1>2. AppliedBounded'
    <2> SUFFICES ASSUME NEW n \in Nodes PROVE applied'[n] <= Len(entries)
        BY <1>0 DEF AppliedBounded
    <2>1. applied'[n] = applied[n] \/ applied'[n] = 0
        OBVIOUS
    <2> QED
        BY <1>a, <1>b, <2>1
<1>3. PostsFirst'
    <2>1. (\A n \in Nodes, i \in RaftItems : Row(n, i).posted => PostLogged(i))'
        BY <1>0 DEF IInv, PostsFirst
    <2>2. (\A e \in inflight : e.op \in {"claim", "complete"} => PostLogged(e.item))'
        BY <1>0 DEF IInv, PostsFirst
    <2>3. (\A a \in Agents : agent[a].step = "working" => PostLogged(agent[a].item))'
        <3> SUFFICES ASSUME NEW a \in Agents, agent'[a].step = "working"
                     PROVE  PostLogged(agent[a].item)'
            OBVIOUS
        <3>1. agent'[a] = agent[a]
            BY DEF Ready
        <3>2. PostLogged(agent[a].item)
            BY <3>1 DEF IInv, PostsFirst
        <3> QED
            BY <1>0, <3>1, <3>2 DEF PostLogged, IsOp
    <2>4. (\A j \in DOMAIN entries : entries[j].op \in {"claim", "complete"} =>
               \E k \in 1 .. j - 1 : IsOp(k, "post", entries[j].item))'
        <3>1. \A j \in DOMAIN entries : entries[j].op \in {"claim", "complete"} =>
                  \E k \in 1 .. j - 1 : IsOp(k, "post", entries[j].item)
            BY DEF IInv, PostsFirst
        <3>2. entries' = entries
            BY <1>0
        <3> QED
            BY ONLY <3>1, <3>2 DEF IsOp
    <2> QED
        BY <2>1, <2>2, <2>3, <2>4 DEF PostsFirst
<1>4. ASSUME NEW n \in Nodes, NEW j \in 1 .. applied'[n]
      PROVE  /\ applied'[n] = applied[n] /\ j \in 1 .. applied[n]
             /\ entries[j].item \in RaftItems
             /\ Row(n, entries[j].item)' = table'[n][entries[j].item]
    <2>1. applied'[n] = applied[n] /\ j \in 1 .. Len(entries)
        BY <1>a, <1>b
    <2>2. entries[j] \in LogEntry
        BY <2>1 DEF IInv, RaftTypeOK
    <2> QED
        BY <1>0, <2>1, <2>2 DEF LogEntry, Row
<1>5. PostsApplied'
    <2> SUFFICES ASSUME NEW n \in Nodes, NEW j \in 1 .. applied'[n], entries[j].op = "post"
                 PROVE  Row(n, entries[j].item)'.posted
        BY <1>0 DEF PostsApplied
    <2>1. Row(n, entries[j].item).posted
        BY <1>4 DEF IInv, PostsApplied
    <2> QED
        BY <1>0, <1>4, <2>1 DEF Row
<1>6. OutputFollowsLog'
    <2>1. (\A n \in Nodes, i \in RaftItems : Row(n, i).out # Nobody =>
               \E j \in DOMAIN entries : IsOp(j, "complete", i))'
        BY <1>0 DEF IInv, OutputFollowsLog
    <2>2. ASSUME NEW n \in Nodes, NEW j \in 1 .. applied'[n], LastCompletion(j, applied'[n])
          PROVE  table'[n][entries[j].item].out = entries[j].by
        <3>1. Row(n, entries[j].item).out = entries[j].by
            <4>1. applied'[n] = applied[n] /\ j \in 1 .. applied[n]
                BY <1>4
            <4>2. LastCompletion(j, applied[n])
                BY <2>2, <4>1
            <4> QED
                BY <4>1, <4>2 DEF IInv, OutputFollowsLog
        <3> QED
            BY <1>0, <1>4, <3>1 DEF Row
    <2>3. (\A n \in Nodes : \A j \in 1 .. applied[n] :
               LastCompletion(j, applied[n]) => Row(n, entries[j].item).out = entries[j].by)'
        <3> SUFFICES ASSUME NEW n \in Nodes, NEW j \in 1 .. applied'[n],
                            LastCompletion(j, applied[n])'
                     PROVE  table'[n][entries[j].item].out = entries[j].by
            BY <1>0 DEF Row
        <3>1. LastCompletion(j, applied'[n])
            BY <1>0 DEF LastCompletion, IsOp
        <3> QED
            BY <2>2, <3>1
    <2> QED
        BY <2>1, <2>3 DEF OutputFollowsLog
<1>7. HolderIsFirst'
    <2>1. (\A n \in Nodes, i \in RaftItems \ freed : Row(n, i).by # Nobody =>
               \E j \in DOMAIN entries : FirstClaim(j, i) /\ entries[j].by = Row(n, i).by)'
        <3> SUFFICES ASSUME NEW n \in Nodes, NEW i \in RaftItems \ freed', Row(n, i)'.by # Nobody
                     PROVE  \E j \in DOMAIN entries :
                                FirstClaim(j, i) /\ entries[j].by = Row(n, i)'.by
            BY <1>0
        <3>1. Row(n, i)'.by = Row(n, i).by /\ i \in RaftItems \ freed
            OBVIOUS
        <3> QED
            BY <3>1 DEF IInv, HolderIsFirst
    <2>2. ASSUME NEW n \in Nodes, NEW j \in 1 .. applied'[n],
                 entries[j].op = "claim", entries[j].item \notin freed',
                 Tier[entries[j].item] = 0
          PROVE  table'[n][entries[j].item].by # Nobody
        <3>1. Row(n, entries[j].item).by # Nobody
            BY <1>4, <2>2 DEF IInv, HolderIsFirst
        <3> QED
            BY <1>0, <1>4, <2>2, <3>1 DEF Row
    <2>3. (\A n \in Nodes : \A j \in 1 .. applied[n] :
               /\ entries[j].op = "claim"
               /\ entries[j].item \notin freed
               /\ Tier[entries[j].item] = 0
               => Row(n, entries[j].item).by # Nobody)'
        BY <1>0, <2>2 DEF Row
    <2> QED
        BY <2>1, <2>3 DEF HolderIsFirst
<1>8. WorkersHold'
    <2> SUFFICES ASSUME NEW a \in Agents, AtWork(a)', agent'[a].item \notin freed'
                 PROVE  table'[At[a]][agent'[a].item].by = a
        BY DEF WorkersHold, Row
    <2>1. agent'[a] = agent[a]
        BY DEF AtWork, Ready
    <2>2. agent[a].item \in RaftItems /\ At[a] \in Nodes
        BY <2>1 DEF AtWork, IInv, RaftTypeOK, AgentState, Ready
    <2>3. Row(At[a], agent[a].item).by = a
        BY <2>1 DEF IInv, WorkersHold, AtWork
    <2> QED
        BY <2>1, <2>2, <2>3 DEF Row
<1> QED
    BY <1>1, <1>2, <1>3, <1>5, <1>6, <1>7, <1>8 DEF IInv

(* Freeing a row in one table.                                              *)
LEMMA FreeRows ==
    ASSUME IInv, NEW n \in Nodes, NEW i \in RaftItems, Free(n, i)
    PROVE  /\ table' \in [Nodes -> [RaftItems -> RaftRow]]
           /\ freed \subseteq freed' /\ freed' \subseteq RaftItems
           /\ \A m \in Nodes, j \in RaftItems :
                  /\ Row(m, j)'.posted = Row(m, j).posted
                  /\ Row(m, j)'.out = Row(m, j).out
                  /\ j \notin freed' => Row(m, j)'.by = Row(m, j).by
<1>1. /\ table \in [Nodes -> [RaftItems -> RaftRow]]
      /\ table' = [table EXCEPT ![n][i].by = Nobody]
      /\ freed' = freed \cup {i}
    BY DEF Free, IInv, RaftTypeOK
<1>2. table[n][i] \in RaftRow
    BY <1>1
<1>2a. [table[n][i] EXCEPT !.by = Nobody] \in RaftRow
    BY <1>2 DEF RaftRow
<1>3. \A m \in Nodes, j \in RaftItems :
          table'[m][j] = IF m = n /\ j = i THEN [table[n][i] EXCEPT !.by = Nobody]
                         ELSE table[m][j]
    BY <1>1
<1>4. table' \in [Nodes -> [RaftItems -> RaftRow]]
    BY <1>1, <1>2a
<1>5. freed \subseteq freed' /\ freed' \subseteq RaftItems
    BY <1>1 DEF IInv, RaftTypeOK
<1>6. \A m \in Nodes, j \in RaftItems :
          /\ Row(m, j)'.posted = Row(m, j).posted
          /\ Row(m, j)'.out = Row(m, j).out
          /\ j \notin freed' => Row(m, j)'.by = Row(m, j).by
    BY <1>1, <1>2, <1>3 DEF Row, RaftRow
<1> QED
    BY <1>4, <1>5, <1>6

LEMMA ReclaimStep ==
    ASSUME IInv, NEW n \in Nodes, NEW i \in RaftItems, reclaim_expired_claims(n, i)
    PROVE  IInv'
<1>1. Free(n, i) /\ UNCHANGED <<entries, inflight, applied, agent>>
    BY DEF reclaim_expired_claims
<1>2. raftFaults' \in [RaftFaultKinds -> Nat]
    BY BefallsTyped DEF reclaim_expired_claims, IInv, RaftTypeOK
<1>3. applied' \in [Nodes -> Nat] /\ agent' \in [Agents -> AgentState]
    BY <1>1 DEF IInv, RaftTypeOK
<1> QED
    BY <1>1, <1>2, <1>3, FreeRows, LocalStep

LEMMA ReleaseStep ==
    ASSUME IInv, NEW a \in Agents, release_claim(a)
    PROVE  IInv'
<1> DEFINE i == agent[a].item
<1>1. i \in RaftItems /\ At[a] \in Nodes
    BY DEF release_claim, IInv, RaftTypeOK, AgentState, Ready
<1>2. /\ agent' = [agent EXCEPT ![a] = Ready] /\ agent \in [Agents -> AgentState]
      /\ UNCHANGED <<entries, inflight, applied>>
      /\ applied' \in [Nodes -> Nat]
    BY DEF release_claim, Become, IInv, RaftTypeOK
<1>3. /\ agent' \in [Agents -> AgentState]
      /\ \A b \in Agents : agent'[b] = agent[b] \/ agent'[b] = Ready
    BY <1>2 DEF AgentState
<1>4. raftFaults' \in [RaftFaultKinds -> Nat]
    BY BefallsTyped DEF release_claim
<1>5. CASE Free(At[a], i)
    BY <1>1, <1>2, <1>3, <1>4, <1>5, FreeRows, LocalStep
<1>6. CASE UNCHANGED <<table, freed>>
    <2>1. /\ table' \in [Nodes -> [RaftItems -> RaftRow]]
          /\ freed' = freed /\ freed' \subseteq RaftItems
          /\ \A m \in Nodes, j \in RaftItems : Row(m, j)' = Row(m, j)
        BY <1>6 DEF IInv, RaftTypeOK, Row
    <2> QED
        BY <1>2, <1>3, <1>4, <2>1, LocalStep
<1> QED
    BY <1>5, <1>6 DEF release_claim

LEMMA RestartStep ==
    ASSUME IInv, NEW n \in Nodes, restart_node(n)
    PROVE  IInv'
<1>1. raftFaults' \in [RaftFaultKinds -> Nat]
    BY BefallsTyped DEF restart_node
<1>2. /\ UNCHANGED <<entries, inflight, table, freed>>
      /\ table' \in [Nodes -> [RaftItems -> RaftRow]] /\ freed' \subseteq RaftItems
      /\ \A m \in Nodes, j \in RaftItems : Row(m, j)' = Row(m, j)
    BY DEF restart_node, IInv, RaftTypeOK, Row
<1>3. /\ applied' \in [Nodes -> Nat]
      /\ \A m \in Nodes : applied'[m] = applied[m] \/ applied'[m] = 0
    BY DEF restart_node, IInv, RaftTypeOK
<1>4. /\ agent' \in [Agents -> AgentState]
      /\ \A a \in Agents : agent'[a] = agent[a] \/ agent'[a] = Ready
    BY DEF restart_node, IInv, RaftTypeOK, AgentState
<1> QED
    BY <1>1, <1>2, <1>3, <1>4, LocalStep

(* Applying the next entry of the log.                                      *)
LEMMA ApplyStep ==
    ASSUME IInv, NEW n \in Nodes, apply(n)
    PROVE  IInv'
<1> DEFINE p == applied[n] + 1
           e == entries[p]
           i == e.item
           before == table[n][i]
           after == Applied(before, e)
           answered == At[e.by] = n /\ agent[e.by] = [step |-> Step(e.op), item |-> i]
<1>1. /\ entries \in Seq(LogEntry) /\ Len(entries) \in Nat
      /\ applied \in [Nodes -> Nat] /\ applied[n] \in Nat
      /\ table \in [Nodes -> [RaftItems -> RaftRow]]
      /\ agent \in [Agents -> AgentState]
    BY DEF IInv, RaftTypeOK
<1>2. /\ p \in 1 .. Len(entries) /\ DOMAIN entries = 1 .. Len(entries)
      /\ e \in LogEntry /\ e.op \in Ops /\ i \in RaftItems /\ e.by \in Agents
      /\ before \in RaftRow
    <2>1. p \in 1 .. Len(entries) /\ DOMAIN entries = 1 .. Len(entries)
        BY <1>1 DEF apply
    <2>2. e \in LogEntry
        BY <1>1, <2>1
    <2>3. e.op \in Ops /\ i \in RaftItems /\ e.by \in Agents
        <3> HIDE DEF e
        <3> QED BY <2>2 DEF LogEntry
    <2>4. before \in RaftRow
        <3> HIDE DEF i
        <3> QED BY <1>1, <2>3
    <2> QED
        BY <2>1, <2>2, <2>3, <2>4
<1>3. /\ entries' = entries /\ inflight' = inflight /\ freed' = freed
      /\ raftFaults' = raftFaults
      /\ applied' = [applied EXCEPT ![n] = p]
      /\ table' = [table EXCEPT ![n][i] = after]
      /\ IF answered THEN agent' = [agent EXCEPT ![e.by] = Answer(e, before, after)]
         ELSE agent' = agent
    BY DEF apply, Row, Become
<1>4. /\ after \in RaftRow
      /\ before.posted => after.posted
      /\ e.op = "post" => after.posted
      /\ after.out # before.out => e.op = "complete"
      /\ e.op = "complete" /\ before.posted => after.out = e.by
      /\ after.posted /\ ~before.posted => e.op = "post"
      /\ before.by # Nobody => after.by = before.by
      /\ after.by # before.by => e.op = "claim" /\ after.by = e.by /\ Tier[i] = 0
      /\ e.op = "claim" /\ after # before => after.by = e.by /\ before.posted
      /\ e.op = "claim" /\ before.posted /\ Tier[i] = 0 => after.by # Nobody
    BY <1>2 DEF Applied, post_work_item_direct, try_claim_direct,
       complete_work_item_direct, RaftRow, Ops
<1> HIDE DEF after
<1>5. \A m \in Nodes, j \in RaftItems :
          table'[m][j] = IF m = n /\ j = i THEN after ELSE table[m][j]
    BY <1>1, <1>2, <1>3
<1>6. /\ \A m \in Nodes : applied'[m] = IF m = n THEN p ELSE applied[m]
      /\ \A m \in Nodes : applied[m] \in Nat /\ applied[m] <= Len(entries)
      /\ p = applied[n] + 1 /\ e = entries[p] /\ i = entries[p].item
      /\ before = table[n][i]
      /\ \A j, op, k : IsOp(j, op, k)' = IsOp(j, op, k)
      /\ \A k : PostLogged(k)' = PostLogged(k)
      /\ \A j, k : FirstClaim(j, k)' = FirstClaim(j, k)
    BY <1>1, <1>3 DEF IInv, AppliedBounded, IsOp, PostLogged, FirstClaim
<1>7. \A j \in 1 .. Len(entries) : entries[j].item \in RaftItems
    <2> SUFFICES ASSUME NEW j \in 1 .. Len(entries) PROVE entries[j].item \in RaftItems
        OBVIOUS
    <2>1. entries[j] \in LogEntry
        BY <1>1
    <2> QED
        BY <2>1 DEF LogEntry
<1>71. i = e.item
    OBVIOUS
<1> HIDE DEF p, e, i, before
<1>72. \A m \in Nodes : /\ applied'[m] \in Nat /\ applied[m] \in Nat
                        /\ applied'[m] <= Len(entries) /\ applied[m] <= applied'[m]
    <2>1. p \in Nat /\ p <= Len(entries) /\ p = applied[n] + 1
        BY <1>1, <1>2, <1>6
    <2>2. \A m \in Nodes : applied[m] \in Nat /\ applied[m] <= Len(entries)
        BY <1>6
    <2>3. \A m \in Nodes : applied'[m] = IF m = n THEN p ELSE applied[m]
        BY <1>6
    <2> QED
        BY <1>1, <2>1, <2>2, <2>3
<1>8. /\ \/ Answer(e, before, after) = Ready
         \/ /\ e.op = "claim" /\ after # before
            /\ Answer(e, before, after) = [step |-> "working", item |-> i]
      /\ Answer(e, before, after) \in AgentState
    <2>1. CASE e.op = "claim" /\ after # before
        BY <1>2, <1>71, <2>1 DEF Answer, AgentState
    <2>2. CASE ~(e.op = "claim" /\ after # before)
        BY <2>2 DEF Answer, AgentState
    <2> QED
        BY <2>1, <2>2
<1>9. \A a \in Agents :
          \/ agent'[a] = agent[a]
          \/ a = e.by /\ agent'[a] = Answer(e, before, after) /\ At[a] = n
    BY <1>1, <1>2, <1>3
<1>10. RaftTypeOK'
    <2>1. table' \in [Nodes -> [RaftItems -> RaftRow]]
        BY <1>1, <1>2, <1>3, <1>4
    <2>2. agent' \in [Agents -> AgentState]
        BY <1>1, <1>2, <1>3, <1>8
    <2>3. applied' \in [Nodes -> Nat]
        BY <1>1, <1>3, <1>6
    <2> QED
        BY <1>1, <1>3, <2>1, <2>2, <2>3 DEF IInv, RaftTypeOK
<1>11. AppliedBounded'
    BY <1>2, <1>3, <1>6 DEF AppliedBounded
<1>12. PostsFirst'
    <2>1. (\A m \in Nodes, j \in RaftItems : Row(m, j).posted => PostLogged(j))'
        <3> SUFFICES ASSUME NEW m \in Nodes, NEW j \in RaftItems, table'[m][j].posted
                     PROVE  PostLogged(j)
            BY <1>6 DEF Row
        <3>1. table[m][j].posted \/ (j = i /\ e.op = "post")
            BY <1>4, <1>5, <1>6
        <3> QED
            BY <1>2, <1>6, <3>1 DEF IInv, PostsFirst, Row, PostLogged, IsOp
    <2>2. (\A x \in inflight : x.op \in {"claim", "complete"} => PostLogged(x.item))'
        BY <1>3, <1>6 DEF IInv, PostsFirst
    <2>3. (\A a \in Agents : agent[a].step = "working" => PostLogged(agent[a].item))'
        <3> SUFFICES ASSUME NEW a \in Agents, agent'[a].step = "working"
                     PROVE  PostLogged(agent[a].item)'
            OBVIOUS
        <3>1. CASE agent'[a] = agent[a]
            BY <1>3, <3>1 DEF IInv, PostsFirst, PostLogged, IsOp
        <3>2. CASE agent'[a] = Answer(e, before, after)
            <4>1. agent'[a].item = i /\ before.posted
                BY <1>4, <1>8, <3>2 DEF Ready
            <4>2. PostLogged(i)
                BY <1>2, <1>6, <4>1 DEF IInv, PostsFirst, Row
            <4> QED
                BY <1>3, <4>1, <4>2 DEF PostLogged, IsOp
        <3> QED
            BY <1>9, <3>1, <3>2
    <2>4. (\A j \in DOMAIN entries : entries[j].op \in {"claim", "complete"} =>
               \E k \in 1 .. j - 1 : IsOp(k, "post", entries[j].item))'
        <3>1. \A j \in DOMAIN entries : entries[j].op \in {"claim", "complete"} =>
                  \E k \in 1 .. j - 1 : IsOp(k, "post", entries[j].item)
            BY DEF IInv, PostsFirst
        <3>2. entries' = entries
            BY <1>3
        <3> QED
            BY ONLY <3>1, <3>2 DEF IsOp
    <2> QED
        BY <2>1, <2>2, <2>3, <2>4 DEF PostsFirst
(* The post of what the entry is about has been applied before it.          *)
<1>13. e.op \in {"claim", "complete"} => before.posted
    <2> SUFFICES ASSUME e.op \in {"claim", "complete"} PROVE before.posted
        OBVIOUS
    <2>1. PICK k \in 1 .. p - 1 : IsOp(k, "post", i)
        BY <1>2, <1>6 DEF IInv, PostsFirst
    <2>2. k \in 1 .. applied[n] /\ entries[k].op = "post" /\ entries[k].item = i
        BY <1>1, <1>6, <2>1 DEF IsOp
    <2> QED
        BY <1>6, <2>2 DEF IInv, PostsApplied, Row
<1>14. PostsApplied'
    <2> SUFFICES ASSUME NEW m \in Nodes, NEW j \in 1 .. applied'[m], entries[j].op = "post"
                 PROVE  table'[m][entries[j].item].posted
        BY <1>3 DEF PostsApplied, Row
    <2>0. j \in 1 .. Len(entries) /\ entries[j].item \in RaftItems
        BY <1>1, <1>7, <1>72
    <2>1. CASE m = n /\ j = p
        BY <1>2, <1>4, <1>5, <1>6, <2>1
    <2>2. CASE j \in 1 .. applied[m]
        <3>1. table[m][entries[j].item].posted
            BY <2>2 DEF IInv, PostsApplied, Row
        <3> QED
            BY <1>4, <1>5, <1>6, <2>0, <3>1
    <2> QED
        BY <1>6, <2>1, <2>2
<1>15. OutputFollowsLog'
    <2>1. (\A m \in Nodes, j \in RaftItems : Row(m, j).out # Nobody =>
               \E k \in DOMAIN entries : IsOp(k, "complete", j))'
        <3> SUFFICES ASSUME NEW m \in Nodes, NEW j \in RaftItems, table'[m][j].out # Nobody
                     PROVE  \E k \in DOMAIN entries : IsOp(k, "complete", j)
            BY <1>3, <1>6 DEF Row
        <3>1. table[m][j].out # Nobody \/ (j = i /\ e.op = "complete")
            BY <1>4, <1>5, <1>6
        <3> QED
            BY <1>2, <1>6, <3>1 DEF IInv, OutputFollowsLog, Row, IsOp
    <2>2. ASSUME NEW m \in Nodes, NEW j \in 1 .. applied'[m], LastCompletion(j, applied'[m])
          PROVE  table'[m][entries[j].item].out = entries[j].by
        <3>0. j \in 1 .. Len(entries) /\ entries[j].item \in RaftItems
            BY <1>1, <1>7, <1>72
        <3>1. CASE m = n /\ j = p
            <4>1. e.op = "complete"
                BY <1>6, <2>2, <3>1 DEF LastCompletion
            <4> QED
                BY <1>2, <1>4, <1>5, <1>6, <1>13, <3>1, <4>1
        <3>2. CASE j \in 1 .. applied[m]
            <4>1. LastCompletion(j, applied[m])
                BY <1>1, <1>6, <2>2, <1>72, <3>2 DEF LastCompletion
            <4>2. table[m][entries[j].item].out = entries[j].by
                BY <3>2, <4>1 DEF IInv, OutputFollowsLog, Row
            <4>3. m = n => ~IsOp(p, "complete", entries[j].item)
                BY <1>6, <2>2, <3>2 DEF LastCompletion
            <4>4. m = n /\ entries[j].item = i => after.out = before.out
                BY <1>4, <1>6, <4>3 DEF IsOp
            <4> QED
                BY <1>5, <1>6, <3>0, <4>2, <4>4
        <3> QED
            BY <1>6, <3>1, <3>2
    <2>3. (\A m \in Nodes : \A j \in 1 .. applied[m] :
               LastCompletion(j, applied[m]) => Row(m, entries[j].item).out = entries[j].by)'
        <3> SUFFICES ASSUME NEW m \in Nodes, NEW j \in 1 .. applied'[m],
                            LastCompletion(j, applied[m])'
                     PROVE  table'[m][entries[j].item].out = entries[j].by
            BY <1>3 DEF Row
        <3>1. LastCompletion(j, applied'[m])
            BY <1>3 DEF LastCompletion, IsOp
        <3> QED
            BY <2>2, <3>1
    <2> QED
        BY <2>1, <2>3 DEF OutputFollowsLog
<1>16. HolderIsFirst'
    <2>1. (\A m \in Nodes, j \in RaftItems \ freed : Row(m, j).by # Nobody =>
               \E k \in DOMAIN entries : FirstClaim(k, j) /\ entries[k].by = Row(m, j).by)'
        <3> SUFFICES ASSUME NEW m \in Nodes, NEW j \in RaftItems \ freed, table'[m][j].by # Nobody
                     PROVE  \E k \in DOMAIN entries :
                                FirstClaim(k, j) /\ entries[k].by = table'[m][j].by
            BY <1>3, <1>6 DEF Row
        <3>1. CASE table'[m][j].by = table[m][j].by
            BY <3>1 DEF IInv, HolderIsFirst, Row
        <3>2. CASE table'[m][j].by # table[m][j].by
            <4>1. /\ m = n /\ j = i /\ e.op = "claim" /\ Tier[i] = 0
                  /\ table'[m][j].by = e.by /\ before.by = Nobody
                BY <1>4, <1>5, <1>6, <3>2
            <4>2. \A k \in 1 .. p - 1 : ~IsOp(k, "claim", i)
                BY <1>6, <4>1 DEF IInv, HolderIsFirst, Row, IsOp
            <4> QED
                BY <1>2, <1>6, <4>1, <4>2 DEF FirstClaim, IsOp
        <3> QED
            BY <3>1, <3>2
    <2>2. ASSUME NEW m \in Nodes, NEW j \in 1 .. applied'[m],
                 entries[j].op = "claim", entries[j].item \notin freed,
                 Tier[entries[j].item] = 0
          PROVE  table'[m][entries[j].item].by # Nobody
        <3>0. j \in 1 .. Len(entries) /\ entries[j].item \in RaftItems
            BY <1>1, <1>7, <1>72
        <3>1. CASE m = n /\ j = p
            BY <1>4, <1>5, <1>6, <1>13, <2>2, <3>0, <3>1
        <3>2. CASE j \in 1 .. applied[m]
            <4>1. table[m][entries[j].item].by # Nobody
                BY <2>2, <3>2 DEF IInv, HolderIsFirst, Row
            <4> QED
                BY <1>4, <1>5, <1>6, <3>0, <4>1
        <3> QED
            BY <1>6, <3>1, <3>2
    <2>3. (\A m \in Nodes : \A j \in 1 .. applied[m] :
               /\ entries[j].op = "claim"
               /\ entries[j].item \notin freed
               /\ Tier[entries[j].item] = 0
               => Row(m, entries[j].item).by # Nobody)'
        BY <1>3, <2>2 DEF Row
    <2> QED
        BY <2>1, <2>3 DEF HolderIsFirst
<1>17. WorkersHold'
    <2> SUFFICES ASSUME NEW a \in Agents, AtWork(a)', agent'[a].item \notin freed
                 PROVE  table'[At[a]][agent'[a].item].by = a
        BY <1>3 DEF WorkersHold, Row
    <2>1. CASE agent'[a] = agent[a]
        <3>1. agent[a].item \in RaftItems /\ At[a] \in Nodes
            BY <1>1, <2>1, RaftAssumption DEF AtWork, AgentState, Ready
        <3>2. table[At[a]][agent[a].item].by = a
            BY <2>1 DEF IInv, WorkersHold, AtWork, Row
        <3>3. a # Nobody
            BY RaftAssumption
        <3>4. table'[At[a]][agent[a].item].by = table[At[a]][agent[a].item].by
            <4>1. CASE At[a] = n /\ agent[a].item = i
                <5>1. before.by = a
                    BY <1>6, <3>2, <4>1
                <5>2. after.by = before.by
                    BY <1>4, <3>3, <5>1
                <5> QED
                    BY <1>5, <1>6, <3>1, <4>1, <5>2
            <4>2. CASE ~(At[a] = n /\ agent[a].item = i)
                BY <1>5, <3>1, <4>2
            <4> QED
                BY <4>1, <4>2
        <3> QED
            BY <2>1, <3>2, <3>4
    <2>2. CASE a = e.by /\ agent'[a] = Answer(e, before, after) /\ At[a] = n
        <3>1. agent'[a].item = i /\ e.op = "claim" /\ after # before
            BY <1>8, <2>2 DEF AtWork, Ready
        <3> QED
            BY <1>2, <1>4, <1>5, <2>2, <3>1
    <2> QED
        BY <1>9, <2>1, <2>2
<1> QED
    BY <1>10, <1>11, <1>12, <1>14, <1>15, <1>16, <1>17 DEF IInv

-----------------------------------------------------------------------------
(* Every step of the cluster keeps the invariant.                           *)
LEMMA StepHolds == IInv /\ [RaftNext]_raftVars => IInv'
<1> SUFFICES ASSUME IInv, [RaftNext]_raftVars PROVE IInv'
    OBVIOUS
<1>1. ASSUME NEW n \in Nodes, apply(n) PROVE IInv'
    BY <1>1, ApplyStep
<1>2. ASSUME NEW n \in Nodes, restart_node(n) PROVE IInv'
    BY <1>2, RestartStep
<1>3. ASSUME NEW n \in Nodes, NEW i \in RaftItems, reclaim_expired_claims(n, i) PROVE IInv'
    BY <1>3, ReclaimStep
<1>4. ASSUME NEW a \in Agents, complete_work_item(a) PROVE IInv'
    <2>1. agent[a].item \in RaftItems
        BY <1>4 DEF complete_work_item, IInv, RaftTypeOK, AgentState, Ready
    <2>2. PostLogged(agent[a].item)
        BY <1>4 DEF complete_work_item, IInv, PostsFirst
    <2> QED
        BY <1>4, <2>1, <2>2, ProposeStep DEF complete_work_item, Ops
<1>5. ASSUME NEW a \in Agents, release_claim(a) PROVE IInv'
    BY <1>5, ReleaseStep
<1>6. ASSUME NEW a \in Agents, call_times_out(a) PROVE IInv'
    BY <1>6, TimeoutStep
<1>7. ASSUME NEW i \in RaftItems, post_work_item(i) PROVE IInv'
    BY <1>7, ProposeStep DEF post_work_item, Ops
<1>8. ASSUME NEW i \in RaftItems, NEW a \in Agents, try_claim(a, i) PROVE IInv'
    <2>1. PostLogged(i)
        BY <1>8 DEF try_claim, IInv, PostsFirst
    <2> QED
        BY <1>8, <2>1, ProposeStep DEF try_claim, Ops
<1>9. ASSUME NEW e \in inflight, commit(e) PROVE IInv'
    BY <1>9, CommitStep
<1>10. ASSUME NEW e \in inflight, lose_entry(e) PROVE IInv'
    BY <1>10, LoseStep
<1>11. CASE UNCHANGED raftVars
    <2>1. /\ UNCHANGED <<entries, applied, table, freed>>
          /\ inflight' = inflight /\ agent' = agent /\ raftFaults' = raftFaults
        BY <1>11 DEF raftVars
    <2>2. /\ agent' \in [Agents -> AgentState] /\ inflight' \subseteq LogEntry
          /\ raftFaults' \in [RaftFaultKinds -> Nat]
        BY <2>1 DEF IInv, RaftTypeOK
    <2> QED
        BY <2>1, <2>2, CallStep DEF AtWork
<1> QED
    BY <1>1, <1>2, <1>3, <1>4, <1>5, <1>6, <1>7, <1>8, <1>9, <1>10, <1>11 DEF RaftNext

(* The replicated board keeps one table: whatever is lost, times out, fails *)
(* or restarts, an item that no node has freed is worked on by one agent,   *)
(* and nodes that have applied the log have the same outputs                *)
(* (raft_claim_work_item, raft_complete_work_item).                         *)
THEOREM ReplicasStayTogether == RaftSpec => []ReplicasAgree
<1>1. RaftInit => IInv
    BY InitHolds
<1>2. IInv /\ [RaftNext]_raftVars => IInv'
    BY StepHolds
<1>3. IInv => ReplicasAgree
    BY OutputsFromInv, ClaimedOnceFromInv DEF ReplicasAgree, IInv
<1> QED
    BY <1>1, <1>2, <1>3, PTL DEF RaftSpec
=============================================================================
