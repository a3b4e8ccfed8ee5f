----------------------------- MODULE GossipBoard -----------------------------
(***************************************************************************)
(* The boards of several nodes kept in step by gossip                      *)
(* (gyza/network/network_blackboard.py over gyza/blackboard.py).           *)
(*                                                                         *)
(* Every local write publishes a delta on the project topic; the receive   *)
(* thread of every other node merges it: rows are inserted once, claims    *)
(* are last-writer-wins on the hybrid logical clock (gyza/schema.py), the  *)
(* first completion to arrive stands.  Releases and reclaims are local and *)
(* publish nothing.  Deltas may be lost, delivered twice and out of order: *)
(* gossip neither retries nor orders.                                      *)
(*                                                                         *)
(* The runner is reduced to what it does to the board: claim, complete,    *)
(* release; module Runner has the rest.                                    *)
(***************************************************************************)
EXTENDS Integers

CONSTANTS
    Nodes,        \* node ids (compositor public keys, ordered)
    Agents,       \* agent ids, ordered with the node ids
    Home,         \* [Agents -> Nodes]: the board each agent works on
    Items, Intents,
    Lineage,      \* [Items -> Intents]: lineage_root of each item
    NoAgent, NoItem,
    SharedClock,  \* runners get hlc=gossip_hlc(), not a clock of their own
    Lease,        \* CLAIM_LEASE_NS, in ticks of the wall clock
    MaxWall,      \* bound on every node's wall clock
    Faults        \* [FaultKinds -> Nat]: how often each may happen

(* lose: a copy of a delta never arrives; twice: it arrives again; early: a *)
(* claim or completion arrives before the row it is about; race: the clock  *)
(* moves between a claim and its publication; contend: a claim is lost to   *)
(* another runner; release: an execution fails; step: a wall clock is set   *)
(* back; restart: a node's process starts again.                            *)
FaultKinds == {"lose", "twice", "early", "race", "contend", "release",
               "step", "restart"}

ASSUME GossipAssumption ==
    /\ Nodes \subseteq Nat \ {0}
    /\ Agents \subseteq Nat \ {0}
    /\ Nodes \cap Agents = {}
    /\ Home \in [Agents -> Nodes]
    /\ Lineage \in [Items -> Intents]
    /\ NoAgent \notin Agents
    /\ NoItem \notin Items
    /\ SharedClock \in BOOLEAN
    /\ Lease \in Nat
    /\ MaxWall \in Nat
    /\ Faults \in [FaultKinds -> Nat]

VARIABLES
    wall,     \* [Nodes -> Nat]: time.time_ns() in milliseconds
    clock,    \* [Nodes \cup Agents -> HLC]: (l, c) of each clock
    intents,  \* [Nodes -> SUBSET Intents]: human_intents of each board
    posted,   \* [Nodes -> SUBSET Items]: rows of each board
    claim,    \* claimed_by and claim_hlc of each row of each board
    done,     \* whose completion each row records, NoAgent if none
    pc, item, \* what each agent does, and on which item
    mine,     \* the stamp an agent's try_claim wrote
    net,      \* deltas on their way: <<delta, receiver>>
    budget    \* faults still allowed

boardVars == <<intents, posted, claim, done>>
agentVars == <<pc, item, mine>>
vars == <<wall, clock, boardVars, agentVars, net, budget>>

Clock == [l : Nat, c : Nat]
Stamp == [l : Nat, c : Nat, node : Nat]
Claims == [by : Agents \cup {NoAgent}, at : Stamp]

NoStamp == [l |-> 0, c |-> 0, node |-> 0]
Unclaimed == [by |-> NoAgent, at |-> NoStamp]

(* A delta carries one mutation; that of a work item also carries the       *)
(* item's intent.                                                           *)
Delta ==
    [type : {"intent"}, from : Nodes, intents : SUBSET Intents]
    \cup [type : {"item"}, from : Nodes, intents : SUBSET Intents, item : Items]
    \cup [type : {"claim"}, from : Nodes, item : Items, by : Agents, at : Stamp]
    \cup [type : {"done"}, from : Nodes, item : Items, by : Agents]

TypeOK ==
    /\ wall \in [Nodes -> Nat]
    /\ clock \in [Nodes \cup Agents -> Clock]
    /\ intents \in [Nodes -> SUBSET Intents]
    /\ posted \in [Nodes -> SUBSET Items]
    /\ claim \in [Nodes -> [Items -> Claims]]
    /\ done \in [Nodes -> [Items -> Agents \cup {NoAgent}]]
    /\ pc \in [Agents -> {"idle", "publish", "work"}]
    /\ item \in [Agents -> Items \cup {NoItem}]
    /\ mine \in [Agents -> Stamp]
    /\ net \subseteq Delta \X Nodes
    /\ budget \in [FaultKinds -> Nat]

Init ==
    /\ wall = [n \in Nodes |-> 1]
    /\ clock = [k \in Nodes \cup Agents |-> [l |-> 0, c |-> 0]]
    /\ intents = [n \in Nodes |-> {}]
    /\ posted = [n \in Nodes |-> {}]
    /\ claim = [n \in Nodes |-> [i \in Items |-> Unclaimed]]
    /\ done = [n \in Nodes |-> [i \in Items |-> NoAgent]]
    /\ pc = [a \in Agents |-> "idle"]
    /\ item = [a \in Agents |-> NoItem]
    /\ mine = [a \in Agents |-> NoStamp]
    /\ net = {}
    /\ budget = Faults

----------------------------------------------------------------------------
(* The hybrid logical clock.                                                *)

Later(x, y) == IF x > y THEN x ELSE y

(* Variant of now: the counter of a new millisecond starts below zero.      *)
now_below_zero(h, pt) ==
    LET l == Later(h.l, pt)
    IN  [l |-> l, c |-> IF l = h.l THEN h.c + 1 ELSE -1]

(* HLC.now() at wall time pt.                                               *)
now(h, pt) == LET l == Later(h.l, pt)
              IN  [l |-> l, c |-> IF l = h.l THEN h.c + 1 ELSE 0]

(* Variant of recv: the received stamp is ignored.                          *)
recv_deaf(h, s, pt) == now(h, pt)

(* HLC.recv(l, c, node) at wall time pt.                                    *)
recv(h, s, pt) ==
    LET l == Later(Later(h.l, s.l), pt)
    IN  [l |-> l, c |-> IF l = h.l /\ l = s.l THEN Later(h.c, s.c) + 1
                        ELSE IF l = h.l THEN h.c + 1
                        ELSE IF l = s.l THEN s.c + 1
                        ELSE 0]

(* The total order of stamps, (l, c, node) lexicographically.               *)
Before(s, t) ==
    \/ s.l < t.l
    \/ s.l = t.l /\ s.c < t.c
    \/ s.l = t.l /\ s.c = t.c /\ s.node < t.node

(* The clock agent a claims with; its node_id breaks ties.                  *)
ClockOf(a) == IF SharedClock THEN Home[a] ELSE a

(* Variant of StampAt: without the node id.                                 *)
StampAtAnonymous(k, h) == [l |-> h.l, c |-> h.c, node |-> 0]

StampAt(k, h) == [l |-> h.l, c |-> h.c, node |-> k]

----------------------------------------------------------------------------
(* Helpers.                                                                 *)

Spend(f) == budget[f] > 0 /\ budget' = [budget EXCEPT ![f] = @ - 1]

(* publish_delta: a copy for every other node of the project.               *)
Publish(d) == net' = net \cup ({d} \X (Nodes \ {d.from}))

Completed(n, i) == done[n][i] # NoAgent

SetClaim(n, i, c) == claim' = [claim EXCEPT ![n][i] = c]

ToIdle(a) ==
    /\ pc' = [pc EXCEPT ![a] = "idle"]
    /\ item' = [item EXCEPT ![a] = NoItem]
    /\ mine' = [mine EXCEPT ![a] = NoStamp]

----------------------------------------------------------------------------
(* Local writes.                                                            *)

post_intent(n, r) ==
    /\ \A m \in Nodes : r \notin intents[m]
    /\ intents' = [intents EXCEPT ![n] = @ \cup {r}]
    /\ Publish([type |-> "intent", from |-> n, intents |-> {r}])
    /\ UNCHANGED <<wall, clock, posted, claim, done, agentVars, budget>>

(* Variant of post_work_item: the item's delta without its intent.          *)
post_work_item_bare(n, i) ==
    /\ \A m \in Nodes : i \notin posted[m]
    /\ Lineage[i] \in intents[n]
    /\ posted' = [posted EXCEPT ![n] = @ \cup {i}]
    /\ Publish([type |-> "item", from |-> n, intents |-> {}, item |-> i])
    /\ UNCHANGED <<wall, clock, intents, claim, done, agentVars, budget>>

(* An unknown lineage_root raises; the delta carries the intent again.      *)
post_work_item(n, i) ==
    /\ \A m \in Nodes : i \notin posted[m]
    /\ Lineage[i] \in intents[n]
    /\ posted' = [posted EXCEPT ![n] = @ \cup {i}]
    /\ Publish([type |-> "item", from |-> n, intents |-> {Lineage[i]},
                item |-> i])
    /\ UNCHANGED <<wall, clock, intents, claim, done, agentVars, budget>>

(* get_unclaimed offers any row without a claimant and try_claim takes it,  *)
(* completed or not, whatever stamp an earlier claim has left on it.        *)
try_claim(a, i) ==
    LET n == Home[a]
        k == ClockOf(a)
        h == now(clock[k], wall[n])
    IN  /\ pc[a] = "idle"
        /\ i \in posted[n]
        /\ claim[n][i].by = NoAgent
        /\ clock' = [clock EXCEPT ![k] = h]
        /\ SetClaim(n, i, [by |-> a, at |-> StampAt(k, h)])
        /\ pc' = [pc EXCEPT ![a] = "publish"]
        /\ item' = [item EXCEPT ![a] = i]
        /\ mine' = [mine EXCEPT ![a] = StampAt(k, h)]
        /\ UNCHANGED <<wall, intents, posted, done, net, budget>>

(* A runner of the same node was faster: only the clock has moved.          *)
lose_claim(a) ==
    LET k == ClockOf(a)
    IN  /\ pc[a] = "idle"
        /\ \E i \in posted[Home[a]] : claim[Home[a]][i].by # NoAgent
        /\ Spend("contend")
        /\ clock' = [clock EXCEPT ![k] = now(@, wall[Home[a]])]
        /\ UNCHANGED <<wall, boardVars, agentVars, net>>

(* The rest of NetworkBlackboard.try_claim: the delta carries hlc.l and     *)
(* hlc.c as they are NOW, not the stamp the row was claimed with.           *)
publish_claim(a) ==
    LET k == ClockOf(a)
        s == StampAt(k, clock[k])
    IN  /\ pc[a] = "publish"
        /\ IF s # mine[a] THEN Spend("race") ELSE UNCHANGED budget
        /\ Publish([type |-> "claim", from |-> Home[a], item |-> item[a],
                    by |-> a, at |-> s])
        /\ pc' = [pc EXCEPT ![a] = "work"]
        /\ UNCHANGED <<wall, clock, boardVars, item, mine>>

(* complete_work_item with expected_owner: WHERE id=? AND claimed_by=?.     *)
(* Otherwise ClaimLostError, and nothing is published.                      *)
complete_work_item(a) ==
    LET n == Home[a]
        k == ClockOf(a)
        i == item[a]
    IN  /\ pc[a] = "work"
        /\ clock' = [clock EXCEPT ![k] = now(@, wall[n])]
        /\ IF claim[n][i].by = a
           THEN /\ done' = [done EXCEPT ![n][i] = a]
                /\ Publish([type |-> "done", from |-> n, item |-> i, by |-> a])
           ELSE UNCHANGED <<done, net>>
        /\ ToIdle(a)
        /\ UNCHANGED <<wall, intents, posted, claim, budget>>

(* release_claim after a failed execution: whoever holds the row, and the   *)
(* stamp goes with the claim.                                               *)
release_claim(a) ==
    LET n == Home[a]
        i == item[a]
    IN  /\ pc[a] = "work"
        /\ Spend("release")
        /\ IF claim[n][i].by # NoAgent /\ ~Completed(n, i)
           THEN SetClaim(n, i, Unclaimed)
           ELSE UNCHANGED claim
        /\ ToIdle(a)
        /\ UNCHANGED <<wall, clock, intents, posted, done, net>>

(* reclaim_expired_claims by some runner of node n.  claimed_at_ns is the l *)
(* of the claim's stamp, whichever node's clock that came from, and the     *)
(* stamp stays on the row.                                                  *)
reclaim(n, i) ==
    /\ claim[n][i].by # NoAgent
    /\ ~Completed(n, i)
    /\ claim[n][i].at.l < wall[n] - Lease
    /\ SetClaim(n, i, [claim[n][i] EXCEPT !.by = NoAgent])
    /\ UNCHANGED <<wall, clock, intents, posted, done, agentVars, net, budget>>

----------------------------------------------------------------------------
(* The receive thread: _apply_delta.                                        *)

(* The copy is consumed, or stays to be delivered once more; one that finds *)
(* no row counts as early.                                                  *)
Consume(d, n) ==
    /\ <<d, n>> \in net
    /\ IF d.type \in {"claim", "done"} /\ d.item \notin posted[n]
       THEN Spend("early") /\ net' = net \ {<<d, n>>}
       ELSE \/ net' = net \ {<<d, n>>} /\ UNCHANGED budget
            \/ Spend("twice") /\ UNCHANGED net

(* post_intent_direct: INSERT OR IGNORE.                                    *)
apply_intents(d, n) == intents' = [intents EXCEPT ![n] = @ \cup d.intents]

apply_intent(d, n) ==
    /\ d.type = "intent"
    /\ Consume(d, n)
    /\ apply_intents(d, n)
    /\ UNCHANGED <<wall, clock, posted, claim, done, agentVars>>

(* post_work_item_direct: refused by the foreign key while the intent is    *)
(* unknown, otherwise INSERT OR IGNORE of an unclaimed row.                 *)
apply_item(d, n) ==
    /\ d.type = "item"
    /\ Consume(d, n)
    /\ apply_intents(d, n)
    /\ posted' = [posted EXCEPT ![n] =
                    IF Lineage[d.item] \in intents[n] \cup d.intents
                    THEN @ \cup {d.item} ELSE @]
    /\ UNCHANGED <<wall, clock, claim, done, agentVars>>

(* Variant of MergeClaimGuard: any claim that arrives wins.                 *)
MergeClaimGuardArrival(d, n) == d.item \in posted[n] /\ ~Completed(n, d.item)

(* merge_claim_direct: last writer wins, except on a completed row.         *)
MergeClaimGuard(d, n) ==
    /\ d.item \in posted[n]
    /\ ~Completed(n, d.item)
    /\ Before(claim[n][d.item].at, d.at)

(* The receive thread advances the clock right after the row is committed;  *)
(* here both are one step: no claim of the node falls between the two.      *)
apply_claim(d, n) ==
    /\ d.type = "claim"
    /\ Consume(d, n)
    /\ IF MergeClaimGuard(d, n)
       THEN /\ SetClaim(n, d.item, [by |-> d.by, at |-> d.at])
            /\ clock' = [clock EXCEPT ![n] = recv(@, d.at, wall[n])]
       ELSE UNCHANGED <<claim, clock>>
    /\ UNCHANGED <<wall, intents, posted, done, agentVars>>

(* Variant of MergeDoneGuard: only a row that is claimed can complete.      *)
MergeDoneGuardClaimed(d, n) ==
    d.item \in posted[n] /\ ~Completed(n, d.item)
    /\ claim[n][d.item].by # NoAgent

(* merge_completion_direct: the first completion to arrive stands.          *)
MergeDoneGuard(d, n) == d.item \in posted[n] /\ ~Completed(n, d.item)

apply_done(d, n) ==
    /\ d.type = "done"
    /\ Consume(d, n)
    /\ IF MergeDoneGuard(d, n)
       THEN done' = [done EXCEPT ![n][d.item] = d.by]
       ELSE UNCHANGED done
    /\ UNCHANGED <<wall, clock, intents, posted, claim, agentVars>>

----------------------------------------------------------------------------
(* Environment.                                                             *)

lose(d, n) ==
    /\ <<d, n>> \in net
    /\ Spend("lose")
    /\ net' = net \ {<<d, n>>}
    /\ UNCHANGED <<wall, clock, boardVars, agentVars>>

(* Clocks of different nodes drift apart.                                   *)
tick(n) ==
    /\ wall[n] < MaxWall
    /\ wall' = [wall EXCEPT ![n] = @ + 1]
    /\ UNCHANGED <<clock, boardVars, agentVars, net, budget>>

(* A wall clock is set back.                                                *)
step_back(n) ==
    /\ Spend("step")
    /\ \E t \in 0 .. wall[n] - 1 : wall' = [wall EXCEPT ![n] = t]
    /\ UNCHANGED <<clock, boardVars, agentVars, net>>

(* The node's process starts again: the board is on disk, the clocks and    *)
(* what its agents were doing are not.                                      *)
restart(n) ==
    LET gone == {a \in Agents : Home[a] = n}
    IN  /\ Spend("restart")
        /\ clock' = [k \in Nodes \cup Agents |->
                       IF k = n \/ k \in gone THEN [l |-> 0, c |-> 0]
                       ELSE clock[k]]
        /\ pc' = [a \in Agents |-> IF a \in gone THEN "idle" ELSE pc[a]]
        /\ item' = [a \in Agents |-> IF a \in gone THEN NoItem ELSE item[a]]
        /\ mine' = [a \in Agents |-> IF a \in gone THEN NoStamp ELSE mine[a]]
        /\ UNCHANGED <<wall, boardVars, net>>

apply_delta(d, n) ==
    apply_intent(d, n) \/ apply_item(d, n) \/ apply_claim(d, n)
    \/ apply_done(d, n)

Post(n) == \/ \E r \in Intents : post_intent(n, r)
           \/ \E i \in Items : post_work_item(n, i)

Work(a) == \/ \E i \in Items : try_claim(a, i)
           \/ publish_claim(a)
           \/ complete_work_item(a)

Receive(n) == \E p \in net : p[2] = n /\ apply_delta(p[1], n)

Next ==
    \/ \E n \in Nodes : \/ Post(n) \/ Receive(n) \/ tick(n) \/ step_back(n)
                        \/ restart(n)
                        \/ \E i \in Items : reclaim(n, i)
    \/ \E a \in Agents : Work(a) \/ lose_claim(a) \/ release_claim(a)
    \/ \E p \in net : lose(p[1], p[2])

Spec == Init /\ [][Next]_vars

(* Runners keep polling and executions end; receive threads keep applying.  *)
Fairness ==
    /\ \A a \in Agents : WF_vars(Work(a))
    /\ \A n \in Nodes : WF_vars(Receive(n))

FairSpec == Spec /\ Fairness

----------------------------------------------------------------------------
(* Properties.                                                              *)

(* Nothing is on its way and no claim waits to be published.                *)
Quiet == net = {} /\ \A a \in Agents : pc[a] # "publish"

(* Once everything published has arrived, two boards that both list an item *)
(* as unfinished carry the same claim stamp for it and, where neither has   *)
(* reclaimed it, the same holder (merge_claim_direct).                      *)
ClaimsConverge ==
    Quiet => \A n, m \in Nodes, i \in Items :
        i \in posted[n] \cap posted[m] /\ ~Completed(n, i) /\ ~Completed(m, i)
        => LET x == claim[n][i]
               y == claim[m][i]
           IN  x.at = y.at /\ (NoAgent \in {x.by, y.by} \/ x.by = y.by)

(* The stamp of a claimed row only ever moves forward: a claim made after a *)
(* remote one was merged outranks it everywhere (HLC.recv in _apply_delta). *)
StampsAdvance ==
    [][\A n \in Nodes, i \in Items :
          LET x == claim[n][i].at
              y == claim'[n][i].at
          IN  y = x \/ y = NoStamp \/ Before(x, y)]_vars

(* An item delta that arrives is never dropped: it carries what its foreign *)
(* key needs (post_work_item, _apply_delta).                                *)
ArrivedItemHasRow ==
    [][\A p \in net : p[1].type = "item" /\ p \notin net' /\ budget' = budget
                      => p[1].item \in posted'[p[2]]]_vars

(* No two claims of one item carry the same stamp: last-writer-wins has a   *)
(* single winner.                                                           *)
OneWinner ==
    \A n, m \in Nodes, i \in Items :
        claim[n][i].at = claim[m][i].at /\ claim[n][i].at # NoStamp
        => NoAgent \in {claim[n][i].by, claim[m][i].by}
           \/ claim[n][i].by = claim[m][i].by

(* A completion a board has accepted is the one it keeps.                   *)
CompletionStable ==
    [][\A n \in Nodes, i \in Items :
          Completed(n, i) => done'[n][i] = done[n][i]]_vars

(* A finished row keeps its claimant: nobody claims finished work.          *)
FinishedRowKeepsClaim ==
    [][\A n \in Nodes, i \in Items :
          Completed(n, i) => claim'[n][i] = claim[n][i]]_vars

(* Every item posted anywhere is in the end recorded complete everywhere.   *)
CompletesEverywhere ==
    \A n \in Nodes, i \in Items :
        i \in posted[n] ~> \A m \in Nodes : Completed(m, i)

(* Claims are sound on every board: the rows have their types, boards that  *)
(* have exchanged everything agree on the holder (merge_claim_direct), and  *)
(* no two claims carry the same stamp (HLC.now).                            *)
ClaimsAreSound == TypeOK /\ ClaimsConverge /\ OneWinner
=============================================================================
