------------------------- MODULE GossipBoard_proofs -------------------------
(***************************************************************************)
(* What gossip guarantees about the claims on the boards, for any number   *)
(* of nodes, agents and items and clocks of any size.                      *)
(***************************************************************************)
EXTENDS GossipBoard, TLAPS

----------------------------------------------------------------------------
(* The order of stamps and the clock.                                       *)

(* A clock has reached stamp s.                                             *)
Reached(s, h) == s.l < h.l \/ (s.l = h.l /\ s.c <= h.c)

LEMMA BeforeTransitive ==
    ASSUME NEW r \in Stamp, NEW s \in Stamp, NEW t \in Stamp, Before(r, s), Before(s, t)
    PROVE  Before(r, t)
BY DEF Before, Stamp

LEMMA BeforeTotal ==
    ASSUME NEW s \in Stamp, NEW t \in Stamp
    PROVE  /\ ~Before(s, s)
           /\ ~Before(s, t) /\ ~Before(t, s) => s = t
           /\ Before(s, t) => ~Before(t, s)
BY DEF Before, Stamp

(* HLC.now is ahead of everything the clock has reached.                    *)
LEMMA NowAdvances ==
    ASSUME NEW h \in Clock, NEW pt \in Nat, NEW k \in Nat
    PROVE  /\ now(h, pt) \in Clock
           /\ StampAt(k, now(h, pt)) \in Stamp
           /\ Reached(StampAt(k, now(h, pt)), now(h, pt))
           /\ \A s \in Stamp : Reached(s, h) =>
                 /\ Reached(s, now(h, pt))
                 /\ Before(s, StampAt(k, now(h, pt)))
                 /\ s # StampAt(k, now(h, pt))
BY DEF now, Later, Clock, Stamp, StampAt, Reached, Before

(* HLC.recv is ahead of the clock and of the stamp received.                *)
LEMMA RecvAdvances ==
    ASSUME NEW h \in Clock, NEW r \in Stamp, NEW pt \in Nat
    PROVE  /\ recv(h, r, pt) \in Clock
           /\ Reached(r, recv(h, r, pt))
           /\ \A s \in Stamp : Reached(s, h) => Reached(s, recv(h, r, pt))
BY DEF recv, Later, Clock, Stamp, Reached

LEMMA DeltaTypes ==
    ASSUME NEW d \in Delta
    PROVE  /\ d.type \in {"intent", "item", "claim", "done"}
           /\ d.type \in {"intent", "item"} => d.intents \in SUBSET Intents
           /\ d.type \in {"item", "claim", "done"} => d.item \in Items
           /\ d.type \in {"claim", "done"} => d.by \in Agents
           /\ d.type = "claim" => d.at \in Stamp
BY DEF Delta

----------------------------------------------------------------------------
(* Types.                                                                   *)

(* An agent that is publishing or working has an item.                      *)
AgentOK == \A a \in Agents : pc[a] # "idle" => item[a] \in Items

TInv == TypeOK /\ AgentOK

LEMMA StampTypes ==
    ASSUME TypeOK, NEW a \in Agents
    PROVE  /\ Home[a] \in Nodes /\ Home[a] \in Nat
           /\ ClockOf(a) \in Nodes \cup Agents /\ ClockOf(a) \in Nat
           /\ clock[ClockOf(a)] \in Clock /\ wall[Home[a]] \in Nat
           /\ StampAt(ClockOf(a), clock[ClockOf(a)]) \in Stamp
BY GossipAssumption DEF TypeOK, ClockOf, StampAt, Clock, Stamp

LEMMA NoStampType == NoStamp \in Stamp /\ Unclaimed \in Claims
BY DEF NoStamp, Stamp, Unclaimed, Claims

LEMMA SpendType ==
    ASSUME TypeOK, NEW f \in FaultKinds, Spend(f)
    PROVE  budget' \in [FaultKinds -> Nat] /\ budget' # budget
BY DEF TypeOK, Spend

LEMMA PublishType ==
    ASSUME TypeOK, NEW d \in Delta, Publish(d)
    PROVE  net' \subseteq Delta \X Nodes
BY DEF TypeOK, Publish

LEMMA ConsumeType ==
    ASSUME TypeOK, NEW d, NEW n \in Nodes, Consume(d, n)
    PROVE  /\ d \in Delta /\ net' \subseteq net /\ net' \subseteq Delta \X Nodes
           /\ budget' \in [FaultKinds -> Nat]
<1>1. <<d, n>> \in net /\ net' \subseteq net /\ (UNCHANGED budget \/ Spend("early") \/ Spend("twice"))
    BY DEF Consume
<1>2. budget' \in [FaultKinds -> Nat]
    BY <1>1, SpendType DEF TypeOK, FaultKinds
<1> QED
    BY <1>1, <1>2 DEF TypeOK

LEMMA InitTInv == Init => TInv
<1> SUFFICES ASSUME Init PROVE TInv
    OBVIOUS
<1>1. /\ wall \in [Nodes -> Nat] /\ clock \in [Nodes \cup Agents -> Clock]
      /\ intents \in [Nodes -> SUBSET Intents] /\ posted \in [Nodes -> SUBSET Items]
    BY DEF Init, Clock
<1>2. claim \in [Nodes -> [Items -> Claims]] /\ mine \in [Agents -> Stamp]
    BY NoStampType DEF Init
<1>3. /\ done \in [Nodes -> [Items -> Agents \cup {NoAgent}]]
      /\ pc \in [Agents -> {"idle", "publish", "work"}]
      /\ item \in [Agents -> Items \cup {NoItem}]
      /\ net \subseteq Delta \X Nodes
      /\ budget \in [FaultKinds -> Nat]
    BY GossipAssumption DEF Init
<1>4. AgentOK
    BY DEF AgentOK, Init
<1> QED
    BY <1>1, <1>2, <1>3, <1>4 DEF TInv, TypeOK
LEMMA ClaimedRowType ==
    ASSUME TypeOK, NEW n \in Nodes, NEW i \in Items, NEW c \in Claims, SetClaim(n, i, c)
    PROVE  /\ claim' \in [Nodes -> [Items -> Claims]]
           /\ \A m \in Nodes, j \in Items :
                 claim'[m][j] = IF m = n /\ j = i THEN c ELSE claim[m][j]
BY DEF TypeOK, SetClaim

LEMMA DoneRowType ==
    ASSUME TypeOK, NEW n \in Nodes, NEW i \in Items, NEW b \in Agents,
           done' = [done EXCEPT ![n][i] = b]
    PROVE  /\ done' \in [Nodes -> [Items -> Agents \cup {NoAgent}]]
           /\ \A m \in Nodes, j \in Items :
                 done'[m][j] = IF m = n /\ j = i THEN b ELSE done[m][j]
BY DEF TypeOK

LEMMA IdleType ==
    ASSUME TInv, NEW a \in Agents, ToIdle(a)
    PROVE  /\ pc' \in [Agents -> {"idle", "publish", "work"}]
           /\ item' \in [Agents -> Items \cup {NoItem}]
           /\ mine' \in [Agents -> Stamp]
           /\ AgentOK'
           /\ \A b \in Agents : pc'[b] = "publish" =>
                 b # a /\ pc[b] = "publish" /\ item'[b] = item[b] /\ mine'[b] = mine[b]
BY NoStampType DEF TInv, TypeOK, AgentOK, ToIdle

LEMMA PostType ==
    ASSUME TInv, NEW n \in Nodes, Post(n)
    PROVE  TInv'
<1>1. ASSUME NEW r \in Intents, post_intent(n, r) PROVE TInv'
    <2> DEFINE d == [type |-> "intent", from |-> n, intents |-> {r}]
    <2>1. d \in Delta
        BY DEF Delta
    <2>2. net' \subseteq Delta \X Nodes
        BY <1>1, <2>1, PublishType DEF post_intent, TInv
    <2> QED
        BY <1>1, <2>2 DEF post_intent, TInv, TypeOK, AgentOK, agentVars
<1>2. ASSUME NEW i \in Items, post_work_item(n, i) PROVE TInv'
    <2> DEFINE d == [type |-> "item", from |-> n, intents |-> {Lineage[i]}, item |-> i]
    <2>1. d \in Delta
        BY GossipAssumption DEF Delta
    <2>2. net' \subseteq Delta \X Nodes
        BY <1>2, <2>1, PublishType DEF post_work_item, TInv
    <2> QED
        BY <1>2, <2>2 DEF post_work_item, TInv, TypeOK, AgentOK, agentVars
<1> QED
    BY <1>1, <1>2 DEF Post

LEMMA WorkType ==
    ASSUME TInv, NEW a \in Agents, Work(a) \/ lose_claim(a) \/ release_claim(a)
    PROVE  TInv'
<1> DEFINE n == Home[a]
           k == ClockOf(a)
           h == now(clock[k], wall[n])
<1>t. /\ TypeOK /\ AgentOK
      /\ n \in Nodes /\ k \in Nodes \cup Agents /\ h \in Clock /\ StampAt(k, h) \in Stamp
    BY StampTypes, NowAdvances DEF TInv
<1>1. ASSUME NEW i \in Items, try_claim(a, i) PROVE TInv'
    <2>1. [by |-> a, at |-> StampAt(k, h)] \in Claims
        BY <1>t DEF Claims
    <2>2. /\ SetClaim(n, i, [by |-> a, at |-> StampAt(k, h)])
          /\ clock' = [clock EXCEPT ![k] = h]
          /\ pc' = [pc EXCEPT ![a] = "publish"]
          /\ item' = [item EXCEPT ![a] = i]
          /\ mine' = [mine EXCEPT ![a] = StampAt(k, h)]
          /\ UNCHANGED <<wall, intents, posted, done, net, budget>>
        BY <1>1 DEF try_claim
    <2>3. claim' \in [Nodes -> [Items -> Claims]]
        BY <1>t, <2>1, <2>2, ClaimedRowType
    <2> HIDE DEF n, k, h
    <2> QED
        BY <1>t, <2>2, <2>3 DEF TInv, TypeOK, AgentOK
<1>2. ASSUME publish_claim(a) PROVE TInv'
    <2> DEFINE d == [type |-> "claim", from |-> n, item |-> item[a], by |-> a,
                     at |-> StampAt(k, clock[k])]
    <2>1. d \in Delta
        BY <1>t, <1>2, StampTypes DEF Delta, AgentOK, publish_claim
    <2>2. net' \subseteq Delta \X Nodes
        BY <1>t, <1>2, <2>1, PublishType DEF publish_claim
    <2>3. budget' \in [FaultKinds -> Nat]
        BY <1>t, <1>2, SpendType DEF publish_claim, FaultKinds, TypeOK
    <2> QED
        BY <1>t, <1>2, <2>2, <2>3 DEF publish_claim, TInv, TypeOK, AgentOK, boardVars
<1>3. ASSUME complete_work_item(a) PROVE TInv'
    <2>1. /\ clock' = [clock EXCEPT ![k] = h] /\ ToIdle(a) /\ pc[a] = "work"
          /\ UNCHANGED <<wall, intents, posted, claim, budget>>
        BY <1>3 DEF complete_work_item
    <2>2. item[a] \in Items
        BY <1>t, <2>1 DEF AgentOK
    <2>3. net' \subseteq Delta \X Nodes /\ done' \in [Nodes -> [Items -> Agents \cup {NoAgent}]]
        <3>1. CASE claim[n][item[a]].by = a
            <4> DEFINE d == [type |-> "done", from |-> n, item |-> item[a], by |-> a]
            <4>1. d \in Delta
                BY <1>t, <2>2 DEF Delta
            <4>2. net' \subseteq Delta \X Nodes
                BY <1>t, <1>3, <3>1, <4>1, PublishType DEF complete_work_item
            <4>3. done' = [done EXCEPT ![n][item[a]] = a]
                BY <1>3, <3>1 DEF complete_work_item
            <4> QED
                BY <1>t, <2>2, <4>2, <4>3, DoneRowType
        <3>2. CASE claim[n][item[a]].by # a
            BY <1>t, <1>3, <3>2 DEF complete_work_item, TypeOK
        <3> QED
            BY <3>1, <3>2
    <2>4. clock' \in [Nodes \cup Agents -> Clock]
        <3> HIDE DEF h, k
        <3> QED BY <1>t, <2>1 DEF TypeOK
    <2> QED
        BY <1>t, <2>1, <2>3, <2>4, IdleType DEF TInv, TypeOK
<1>4. ASSUME lose_claim(a) PROVE TInv'
    <2>1. budget' \in [FaultKinds -> Nat] /\ clock' = [clock EXCEPT ![k] = h]
          /\ UNCHANGED <<wall, boardVars, agentVars, net>>
        BY <1>t, <1>4, SpendType DEF lose_claim, FaultKinds
    <2> HIDE DEF n, k, h
    <2> QED
        BY <1>t, <2>1 DEF TInv, TypeOK, AgentOK, boardVars, agentVars
<1>5. ASSUME release_claim(a) PROVE TInv'
    <2>1. /\ budget' \in [FaultKinds -> Nat] /\ item[a] \in Items /\ ToIdle(a)
          /\ UNCHANGED <<wall, clock, intents, posted, done, net>>
          /\ UNCHANGED claim \/ SetClaim(n, item[a], Unclaimed)
        BY <1>t, <1>5, SpendType DEF release_claim, FaultKinds, AgentOK
    <2>2. claim' \in [Nodes -> [Items -> Claims]]
        BY <1>t, <2>1, ClaimedRowType, NoStampType DEF TypeOK
    <2> QED
        BY <1>t, <2>1, <2>2, IdleType DEF TInv, TypeOK
<1> QED
    BY <1>1, <1>2, <1>3, <1>4, <1>5 DEF Work

LEMMA ReceiveType ==
    ASSUME TInv, NEW n \in Nodes, NEW d, apply_delta(d, n)
    PROVE  TInv' /\ d \in Delta
<1>t. TypeOK /\ AgentOK
    BY DEF TInv
<1>c. /\ Consume(d, n)
      /\ UNCHANGED <<wall, pc, item, mine>>
    BY DEF apply_delta, apply_intent, apply_item, apply_claim, apply_done, agentVars
<1>d. /\ d \in Delta /\ net' \subseteq Delta \X Nodes /\ budget' \in [FaultKinds -> Nat]
    BY <1>t, <1>c, ConsumeType
<1>1. CASE apply_intent(d, n)
    <2>1. d.intents \in SUBSET Intents
        BY <1>1, <1>d, DeltaTypes DEF apply_intent
    <2> QED
        BY <1>t, <1>c, <1>d, <1>1, <2>1 DEF apply_intent, apply_intents, TInv, TypeOK, AgentOK
<1>2. CASE apply_item(d, n)
    <2>1. d.intents \in SUBSET Intents /\ d.item \in Items
        BY <1>2, <1>d, DeltaTypes DEF apply_item
    <2>2. intents' \in [Nodes -> SUBSET Intents]
        BY <1>t, <1>2, <2>1 DEF apply_item, apply_intents, TypeOK
    <2>3. posted' \in [Nodes -> SUBSET Items]
        BY <1>t, <1>2, <2>1 DEF apply_item, TypeOK
    <2> QED
        BY <1>t, <1>c, <1>d, <1>2, <2>2, <2>3 DEF apply_item, TInv, TypeOK, AgentOK
<1>3. CASE apply_claim(d, n)
    <2>1. d.item \in Items /\ d.by \in Agents /\ d.at \in Stamp
        BY <1>3, <1>d, DeltaTypes DEF apply_claim
    <2>2. [by |-> d.by, at |-> d.at] \in Claims
        BY <2>1 DEF Claims
    <2>3. claim' \in [Nodes -> [Items -> Claims]]
        BY <1>t, <1>3, <2>1, <2>2, ClaimedRowType DEF apply_claim, TypeOK
    <2>4. clock' \in [Nodes \cup Agents -> Clock]
        <3>1. clock[n] \in Clock /\ wall[n] \in Nat
            BY <1>t DEF TypeOK
        <3>2. recv(clock[n], d.at, wall[n]) \in Clock
            BY <2>1, <3>1, RecvAdvances
        <3>3. clock' = clock \/ clock' = [clock EXCEPT ![n] = recv(clock[n], d.at, wall[n])]
            BY <1>3 DEF apply_claim
        <3> QED
            BY <1>t, <3>2, <3>3 DEF TypeOK
    <2> QED
        BY <1>t, <1>c, <1>d, <1>3, <2>3, <2>4 DEF apply_claim, TInv, TypeOK, AgentOK
<1>4. CASE apply_done(d, n)
    <2>1. d.item \in Items /\ d.by \in Agents
        BY <1>4, <1>d, DeltaTypes DEF apply_done
    <2>2. done' \in [Nodes -> [Items -> Agents \cup {NoAgent}]]
        BY <1>t, <1>4, <2>1, DoneRowType DEF apply_done, TypeOK
    <2> QED
        BY <1>t, <1>c, <1>d, <1>4, <2>2 DEF apply_done, TInv, TypeOK, AgentOK
<1> QED
    BY <1>d, <1>1, <1>2, <1>3, <1>4 DEF apply_delta

LEMMA NodeType ==
    ASSUME TInv, NEW n \in Nodes,
           \/ tick(n) \/ step_back(n) \/ restart(n) \/ \E i \in Items : reclaim(n, i)
           \/ \E d : lose(d, n)
    PROVE  TInv'
<1>t. TypeOK /\ AgentOK
    BY DEF TInv
<1>1. CASE tick(n)
    BY <1>t, <1>1 DEF tick, TInv, TypeOK, AgentOK, boardVars, agentVars
<1>2. CASE step_back(n)
    <2>1. budget' \in [FaultKinds -> Nat]
        BY <1>t, <1>2, SpendType DEF step_back, FaultKinds
    <2>2. PICK t \in 0 .. wall[n] - 1 : wall' = [wall EXCEPT ![n] = t]
        BY <1>2 DEF step_back
    <2>3. wall' \in [Nodes -> Nat]
        BY <1>t, <2>2 DEF TypeOK
    <2> QED
        BY <1>t, <1>2, <2>1, <2>3 DEF step_back, TInv, TypeOK, AgentOK, boardVars, agentVars
<1>3. CASE restart(n)
    <2>1. budget' \in [FaultKinds -> Nat]
        BY <1>t, <1>3, SpendType DEF restart, FaultKinds
    <2>2. clock' \in [Nodes \cup Agents -> Clock]
        BY <1>t, <1>3 DEF restart, TypeOK, Clock
    <2>3. mine' \in [Agents -> Stamp]
        BY <1>t, <1>3, NoStampType DEF restart, TypeOK
    <2>4. /\ pc' \in [Agents -> {"idle", "publish", "work"}]
          /\ item' \in [Agents -> Items \cup {NoItem}]
          /\ AgentOK'
        BY <1>t, <1>3 DEF restart, TypeOK, AgentOK
    <2> QED
        BY <1>t, <1>3, <2>1, <2>2, <2>3, <2>4 DEF restart, TInv, TypeOK, boardVars
<1>4. ASSUME NEW i \in Items, reclaim(n, i) PROVE TInv'
    <2>0. claim[n][i] \in Claims /\ \A c \in Claims : [c EXCEPT !.by = NoAgent] \in Claims
        BY <1>t DEF TypeOK, Claims
    <2>1. [claim[n][i] EXCEPT !.by = NoAgent] \in Claims
        BY <2>0
    <2>2. claim' \in [Nodes -> [Items -> Claims]]
        BY <1>t, <1>4, <2>1, ClaimedRowType DEF reclaim
    <2> QED
        BY <1>t, <1>4, <2>2 DEF reclaim, TInv, TypeOK, AgentOK, agentVars
<1>5. ASSUME NEW d, lose(d, n) PROVE TInv'
    <2>1. budget' \in [FaultKinds -> Nat]
        BY <1>t, <1>5, SpendType DEF lose, FaultKinds
    <2> QED
        BY <1>t, <1>5, <2>1 DEF lose, TInv, TypeOK, AgentOK, boardVars, agentVars
<1> QED
    BY <1>1, <1>2, <1>3, <1>4, <1>5

(* A step is one of these.                                                  *)
LEMMA StepCases ==
    ASSUME TInv, [Next]_vars
    PROVE  \/ \E n \in Nodes : \/ Post(n) \/ tick(n) \/ step_back(n) \/ restart(n)
                               \/ \E i \in Items : reclaim(n, i)
                               \/ \E d : <<d, n>> \in net /\ (apply_delta(d, n) \/ lose(d, n))
           \/ \E a \in Agents : Work(a) \/ lose_claim(a) \/ release_claim(a)
           \/ UNCHANGED vars
<1>1. \A p \in net : p[2] \in Nodes /\ p = <<p[1], p[2]>>
    BY DEF TInv, TypeOK
<1>2. ASSUME NEW n \in Nodes, Receive(n)
      PROVE  \E d : <<d, n>> \in net /\ apply_delta(d, n)
    BY <1>1, <1>2 DEF Receive
<1>3. ASSUME NEW p \in net, lose(p[1], p[2])
      PROVE  \E n \in Nodes : \E d : <<d, n>> \in net /\ lose(d, n)
    BY <1>1, <1>3
<1> QED
    BY <1>2, <1>3, Zenon DEF Next

LEMMA NextTInv == TInv /\ [Next]_vars => TInv'
<1> SUFFICES ASSUME TInv, [Next]_vars PROVE TInv'
    OBVIOUS
<1>1. CASE UNCHANGED vars
    BY <1>1 DEF TInv, TypeOK, AgentOK, vars, boardVars, agentVars
<1> QED
    BY <1>1, StepCases, PostType, WorkType, ReceiveType, NodeType, Zenon
----------------------------------------------------------------------------
(* Items that arrive.                                                       *)

(* Every item delta carries the intent its foreign key needs.               *)
CarriesIntent == \A p \in net : p[1].type = "item" => Lineage[p[1].item] \in p[1].intents

LEMMA PublishedOnly ==
    ASSUME NEW d, Publish(d), NEW p \in net'
    PROVE  p \in net \/ p[1] = d
BY DEF Publish

LEMMA NextCarriesIntent ==
    ASSUME TInv, CarriesIntent, [Next]_vars
    PROVE  CarriesIntent'
<1>1. ASSUME net' \subseteq net PROVE CarriesIntent'
    BY <1>1 DEF CarriesIntent
<1>2. ASSUME NEW d, Publish(d), d.type = "item" => Lineage[d.item] \in d.intents
      PROVE  CarriesIntent'
    BY <1>2, PublishedOnly DEF CarriesIntent
<1>3. ASSUME NEW n \in Nodes, Post(n) PROVE CarriesIntent'
    <2>1. ASSUME NEW r \in Intents, post_intent(n, r) PROVE CarriesIntent'
        BY <1>2, <2>1 DEF post_intent
    <2>2. ASSUME NEW i \in Items, post_work_item(n, i) PROVE CarriesIntent'
        BY <1>2, <2>2 DEF post_work_item
    <2> QED
        BY <1>3, <2>1, <2>2 DEF Post
<1>4. ASSUME NEW a \in Agents, Work(a) PROVE CarriesIntent'
    <2>1. ASSUME NEW i \in Items, try_claim(a, i) PROVE CarriesIntent'
        BY <1>1, <2>1 DEF try_claim
    <2>2. ASSUME publish_claim(a) PROVE CarriesIntent'
        BY <1>2, <2>2 DEF publish_claim
    <2>3. ASSUME complete_work_item(a) PROVE CarriesIntent'
        BY <1>1, <1>2, <2>3 DEF complete_work_item
    <2> QED
        BY <1>4, <2>1, <2>2, <2>3 DEF Work
<1>5. ASSUME NEW n \in Nodes, NEW d, apply_delta(d, n) PROVE net' \subseteq net
    BY <1>5, ConsumeType
       DEF TInv, apply_delta, apply_intent, apply_item, apply_claim, apply_done
<1>6. ASSUME NEW n \in Nodes,
             \/ tick(n) \/ step_back(n) \/ restart(n) \/ \E i \in Items : reclaim(n, i)
             \/ \E d : lose(d, n)
      PROVE  net' \subseteq net
    BY <1>6 DEF tick, step_back, restart, reclaim, lose
<1>7. ASSUME NEW a \in Agents, lose_claim(a) \/ release_claim(a) PROVE net' \subseteq net
    BY <1>7 DEF lose_claim, release_claim
<1>8. ASSUME UNCHANGED vars PROVE net' \subseteq net
    BY <1>8 DEF vars
<1> QED
    BY <1>1, <1>3, <1>4, <1>5, <1>6, <1>7, <1>8, StepCases, Zenon

(* Only its own delivery, or a loss, takes a delta off the network.         *)
LEMMA GoneFromNet ==
    ASSUME TInv, [Next]_vars, NEW p \in net, p \notin net', budget' = budget
    PROVE  /\ p[2] \in Nodes
           /\ Consume(p[1], p[2]) /\ apply_delta(p[1], p[2])
<1>t. /\ TypeOK /\ p[2] \in Nodes /\ p[1] \in Delta /\ p = <<p[1], p[2]>>
    BY DEF TInv, TypeOK
<1>1. ASSUME NEW n \in Nodes, Post(n) PROVE FALSE
    BY <1>1 DEF Post, post_intent, post_work_item, Publish
<1>2. ASSUME NEW a \in Agents, Work(a) \/ lose_claim(a) \/ release_claim(a) PROVE FALSE
    BY <1>2 DEF Work, try_claim, publish_claim, complete_work_item, lose_claim, release_claim,
                Publish
<1>3. ASSUME NEW n \in Nodes,
             tick(n) \/ step_back(n) \/ restart(n) \/ \E i \in Items : reclaim(n, i)
      PROVE  FALSE
    BY <1>3 DEF tick, step_back, restart, reclaim
<1>4. ASSUME NEW n \in Nodes, NEW d, lose(d, n) PROVE FALSE
    BY <1>t, <1>4, SpendType DEF lose, FaultKinds
<1>5. ASSUME NEW n \in Nodes, NEW d, apply_delta(d, n)
      PROVE  Consume(p[1], p[2]) /\ apply_delta(p[1], p[2])
    <2>1. Consume(d, n)
        BY <1>5 DEF apply_delta, apply_intent, apply_item, apply_claim, apply_done
    <2>2. p = <<d, n>>
        BY <2>1 DEF Consume
    <2>3. p[1] = d /\ p[2] = n
        BY <2>2
    <2> QED
        BY <1>5, <2>1, <2>3
<1>6. ASSUME UNCHANGED vars PROVE FALSE
    BY <1>6 DEF vars
<1> QED
    BY <1>t, <1>1, <1>2, <1>3, <1>4, <1>5, <1>6, StepCases, Zenon

LEMMA ArrivalStep ==
    ASSUME TInv, CarriesIntent, [Next]_vars, NEW p \in net, p[1].type = "item",
           p \notin net', budget' = budget
    PROVE  p[1].item \in posted'[p[2]]
<1>1. p[2] \in Nodes /\ apply_delta(p[1], p[2])
    BY GoneFromNet
<1>2. apply_item(p[1], p[2])
    BY <1>1 DEF apply_delta, apply_intent, apply_item, apply_claim, apply_done
<1>3. Lineage[p[1].item] \in p[1].intents
    BY DEF CarriesIntent
<1> QED
    BY <1>1, <1>2, <1>3 DEF apply_item, TInv, TypeOK

(* An item delta that a node receives leaves a row on its board, whatever   *)
(* is lost, repeated, reordered or restarted: the foreign key never drops   *)
(* it, because the delta brings the intent it refers to (post_work_item,    *)
(* _apply_delta).                                                           *)
THEOREM ArrivedItemsHaveRows == Spec => ArrivedItemHasRow
<1>1. Init => TInv /\ CarriesIntent
    BY InitTInv DEF Init, CarriesIntent
<1>2. TInv /\ CarriesIntent /\ [Next]_vars => (TInv /\ CarriesIntent)'
    BY NextTInv, NextCarriesIntent
<1> DEFINE A == \A p \in net : p[1].type = "item" /\ p \notin net' /\ budget' = budget
                               => p[1].item \in posted'[p[2]]
<1>3. TInv /\ CarriesIntent /\ [Next]_vars => [A]_vars
    BY ArrivalStep
<1> QED
    BY <1>1, <1>2, <1>3, PTL DEF Spec, ArrivedItemHasRow

----------------------------------------------------------------------------
(* Claim stamps move forward.                                               *)

(* Faults that cannot happen do not happen.                                 *)
Spared == \A f \in FaultKinds : Faults[f] = 0 => budget[f] = 0

LEMMA NextSpared ==
    ASSUME TInv, Spared, [Next]_vars
    PROVE  Spared'
<1>1. ASSUME NEW f \in FaultKinds, Spend(f) PROVE Spared'
    BY <1>1 DEF TInv, TypeOK, Spared, Spend
<1>2. ASSUME UNCHANGED budget PROVE Spared'
    BY <1>2 DEF Spared
<1>3. ASSUME NEW n \in Nodes, NEW d, apply_delta(d, n) PROVE Spared'
    <2>1. Consume(d, n)
        BY <1>3 DEF apply_delta, apply_intent, apply_item, apply_claim, apply_done
    <2> QED
        BY <1>1, <1>2, <2>1 DEF Consume, FaultKinds
<1>4. ASSUME NEW n \in Nodes,
             \/ Post(n) \/ tick(n) \/ step_back(n) \/ restart(n)
             \/ \E i \in Items : reclaim(n, i)
             \/ \E d : lose(d, n)
      PROVE  Spared'
    BY <1>1, <1>2, <1>4
       DEF Post, post_intent, post_work_item, tick, step_back, restart, reclaim, lose, FaultKinds
<1>5. ASSUME NEW a \in Agents, Work(a) \/ lose_claim(a) \/ release_claim(a) PROVE Spared'
    BY <1>1, <1>2, <1>5
       DEF Work, try_claim, publish_claim, complete_work_item, lose_claim, release_claim,
           FaultKinds
<1> QED
    BY <1>2, <1>3, <1>4, <1>5, StepCases, Zenon DEF vars

LEMMA NeverSpent ==
    ASSUME Spared, NEW f \in FaultKinds, Faults[f] = 0
    PROVE  ~Spend(f)
BY DEF Spared, Spend
(* A clock never falls behind a stamp it has reached.                       *)
LEMMA ClockGrows ==
    ASSUME SharedClock, TInv, [Next]_vars, ~Spend("restart"),
           NEW n \in Nodes, NEW s \in Stamp, Reached(s, clock[n])
    PROVE  Reached(s, clock'[n])
<1>t. TypeOK /\ clock[n] \in Clock /\ wall[n] \in Nat
    BY DEF TInv, TypeOK
<1>1. ASSUME clock'[n] = clock[n] PROVE Reached(s, clock'[n])
    BY <1>1
<1>2. ASSUME NEW a \in Agents,
             clock' = [clock EXCEPT ![ClockOf(a)] = now(clock[ClockOf(a)], wall[Home[a]])]
      PROVE  Reached(s, clock'[n])
    <2>1. ClockOf(a) = Home[a]
        BY DEF ClockOf
    <2>2. clock'[n] = clock[n] \/ clock'[n] = now(clock[n], wall[n])
        BY <1>t, <1>2, <2>1 DEF TypeOK
    <2>3. n \in Nat
        BY GossipAssumption
    <2> QED
        BY <1>t, <2>2, <2>3, NowAdvances
<1>3. ASSUME NEW a \in Agents, Work(a) \/ lose_claim(a) \/ release_claim(a)
      PROVE  Reached(s, clock'[n])
    BY <1>1, <1>2, <1>3
       DEF Work, try_claim, publish_claim, complete_work_item, lose_claim, release_claim
<1>4. ASSUME NEW m \in Nodes, NEW d, apply_delta(d, m) PROVE Reached(s, clock'[n])
    <2>1. CASE UNCHANGED clock
        BY <1>1, <2>1
    <2>2. CASE ~UNCHANGED clock
        <3>1. /\ d.type = "claim"
              /\ clock' = [clock EXCEPT ![m] = recv(clock[m], d.at, wall[m])]
            BY <1>4, <2>2 DEF apply_delta, apply_intent, apply_item, apply_claim, apply_done
        <3>2. d.at \in Stamp
            BY <1>4, <3>1, ReceiveType, DeltaTypes
        <3>3. clock'[n] = clock[n] \/ clock'[n] = recv(clock[n], d.at, wall[n])
            BY <1>t, <3>1 DEF TypeOK
        <3> QED
            BY <1>t, <3>2, <3>3, RecvAdvances
    <2> QED
        BY <2>1, <2>2
<1>5. ASSUME NEW m \in Nodes,
             \/ Post(m) \/ tick(m) \/ step_back(m) \/ restart(m)
             \/ \E i \in Items : reclaim(m, i)
             \/ \E d : lose(d, m)
      PROVE  Reached(s, clock'[n])
    BY <1>1, <1>5
       DEF Post, post_intent, post_work_item, tick, step_back, restart, reclaim, lose
<1>6. ASSUME UNCHANGED vars PROVE Reached(s, clock'[n])
    BY <1>1, <1>6 DEF vars
<1> QED
    BY <1>3, <1>4, <1>5, <1>6, StepCases, Zenon

(* What a step can do to the claim on a row.                                *)
Minted(n, i) ==
    \E a \in Agents :
        /\ Home[a] = n
        /\ try_claim(a, i)
        /\ clock'[n] = now(clock[n], wall[n])
        /\ claim'[n][i] = [by |-> a, at |-> StampAt(n, clock'[n])]

Merged(n, i) ==
    \E d \in Delta :
        /\ apply_claim(d, n) /\ d.type = "claim" /\ d.item = i
        /\ Before(claim[n][i].at, d.at)
        /\ claim'[n][i] = [by |-> d.by, at |-> d.at]
        /\ Reached(d.at, clock'[n])

LEMMA RowCases ==
    ASSUME SharedClock, TInv, [Next]_vars, NEW n \in Nodes, NEW i \in Items
    PROVE  \/ claim'[n][i] = claim[n][i]
           \/ claim'[n][i] = Unclaimed /\ Spend("release")
           \/ claim'[n][i].at = claim[n][i].at /\ claim'[n][i].by = NoAgent
           \/ Minted(n, i)
           \/ Merged(n, i)
<1> DEFINE Goal == \/ claim'[n][i] = claim[n][i]
                   \/ claim'[n][i] = Unclaimed /\ Spend("release")
                   \/ claim'[n][i].at = claim[n][i].at /\ claim'[n][i].by = NoAgent
                   \/ Minted(n, i)
                   \/ Merged(n, i)
<1>t. TypeOK
    BY DEF TInv
<1>1. ASSUME UNCHANGED claim PROVE Goal
    BY <1>1
<1>2. ASSUME NEW a \in Agents, NEW j \in Items, try_claim(a, j) PROVE Goal
    <2> DEFINE k == Home[a]
               h == now(clock[k], wall[k])
    <2>1. ClockOf(a) = k /\ k \in Nodes /\ h \in Clock /\ StampAt(k, h) \in Stamp
        BY <1>t, StampTypes, NowAdvances DEF ClockOf
    <2>2. /\ SetClaim(k, j, [by |-> a, at |-> StampAt(k, h)])
          /\ clock' = [clock EXCEPT ![k] = h]
        BY <1>2, <2>1 DEF try_claim
    <2>3. [by |-> a, at |-> StampAt(k, h)] \in Claims
        BY <2>1 DEF Claims
    <2>4. \A m \in Nodes, l \in Items : claim'[m][l] =
              IF m = k /\ l = j THEN [by |-> a, at |-> StampAt(k, h)] ELSE claim[m][l]
        BY <1>t, <2>1, <2>2, <2>3, ClaimedRowType
    <2>5. clock'[k] = h
        BY <1>t, <2>1, <2>2 DEF TypeOK
    <2>6. CASE k = n /\ j = i
        BY <1>2, <2>4, <2>5, <2>6 DEF Minted
    <2>7. CASE ~(k = n /\ j = i)
        BY <2>4, <2>7
    <2> QED
        BY <2>6, <2>7
<1>3. ASSUME NEW a \in Agents, release_claim(a) PROVE Goal
    <2>1. /\ Home[a] \in Nodes /\ item[a] \in Items /\ Spend("release")
          /\ UNCHANGED claim \/ SetClaim(Home[a], item[a], Unclaimed)
        BY <1>t, <1>3, StampTypes DEF release_claim, TInv, AgentOK
    <2> QED
        BY <1>t, <2>1, NoStampType, ClaimedRowType
<1>4. ASSUME NEW m \in Nodes, NEW j \in Items, reclaim(m, j) PROVE Goal
    <2>1. claim[m][j] \in Claims /\ SetClaim(m, j, [claim[m][j] EXCEPT !.by = NoAgent])
        BY <1>t, <1>4 DEF reclaim, TypeOK
    <2>2. \A c \in Claims : /\ [c EXCEPT !.by = NoAgent] \in Claims
                            /\ [c EXCEPT !.by = NoAgent].at = c.at
                            /\ [c EXCEPT !.by = NoAgent].by = NoAgent
        BY DEF Claims
    <2>3. claim'[n][i] = IF n = m /\ i = j THEN [claim[m][j] EXCEPT !.by = NoAgent]
                         ELSE claim[n][i]
        BY <1>t, <2>1, <2>2, ClaimedRowType
    <2> QED
        BY <2>1, <2>2, <2>3
<1>5. ASSUME NEW m \in Nodes, NEW d, apply_delta(d, m), ~UNCHANGED claim PROVE Goal
    <2>1. /\ apply_claim(d, m) /\ d.type = "claim"
          /\ Before(claim[m][d.item].at, d.at)
          /\ SetClaim(m, d.item, [by |-> d.by, at |-> d.at])
          /\ clock' = [clock EXCEPT ![m] = recv(clock[m], d.at, wall[m])]
        BY <1>5 DEF apply_delta, apply_intent, apply_item, apply_claim, apply_done,
                    MergeClaimGuard
    <2>2. d \in Delta /\ d.item \in Items /\ d.by \in Agents /\ d.at \in Stamp
        BY <1>5, <2>1, ReceiveType, DeltaTypes
    <2>3. [by |-> d.by, at |-> d.at] \in Claims
        BY <2>2 DEF Claims
    <2>4. claim'[n][i] = IF n = m /\ i = d.item THEN [by |-> d.by, at |-> d.at]
                         ELSE claim[n][i]
        BY <1>t, <2>1, <2>2, <2>3, ClaimedRowType
    <2>5. Reached(d.at, clock'[m])
        <3>1. clock[m] \in Clock /\ wall[m] \in Nat /\ clock'[m] = recv(clock[m], d.at, wall[m])
            BY <1>t, <2>1 DEF TypeOK
        <3> QED
            BY <2>2, <3>1, RecvAdvances
    <2> QED
        BY <2>1, <2>2, <2>4, <2>5 DEF Merged
<1>6. ASSUME NEW a \in Agents, publish_claim(a) \/ complete_work_item(a) \/ lose_claim(a)
      PROVE  UNCHANGED claim
    BY <1>6 DEF publish_claim, complete_work_item, lose_claim, boardVars
<1>7. ASSUME NEW m \in Nodes,
             \/ Post(m) \/ tick(m) \/ step_back(m) \/ restart(m)
             \/ \E d : lose(d, m)
      PROVE  UNCHANGED claim
    BY <1>7 DEF Post, post_intent, post_work_item, tick, step_back, restart, lose, boardVars
<1>8. ASSUME UNCHANGED vars PROVE UNCHANGED claim
    BY <1>8 DEF vars, boardVars
<1>9. ASSUME NEW a \in Agents, Work(a) \/ lose_claim(a) \/ release_claim(a) PROVE Goal
    BY <1>1, <1>2, <1>3, <1>6, <1>9, Zenon DEF Work
<1> HIDE DEF Goal
<1>10. Goal
    BY <1>1, <1>4, <1>5, <1>7, <1>8, <1>9, StepCases, Zenon
<1> QED
    BY <1>10 DEF Goal

(* Every node's clock has reached the stamps on its rows.                   *)
RowsReached == \A n \in Nodes, i \in Items : Reached(claim[n][i].at, clock[n])

LEMMA RowAdvances ==
    ASSUME SharedClock, TInv, RowsReached, [Next]_vars, NEW n \in Nodes, NEW i \in Items
    PROVE  LET x == claim[n][i].at
               y == claim'[n][i].at
           IN  y = x \/ (y = NoStamp /\ Spend("release")) \/ Before(x, y)
<1>t. claim[n][i].at \in Stamp /\ clock[n] \in Clock /\ wall[n] \in Nat /\ n \in Nat
    BY GossipAssumption DEF TInv, TypeOK, Claims
<1>1. CASE Minted(n, i)
    <2>1. claim'[n][i].at = StampAt(n, now(clock[n], wall[n]))
        BY <1>1 DEF Minted
    <2>2. Reached(claim[n][i].at, clock[n])
        BY DEF RowsReached
    <2> QED
        BY <1>t, <2>1, <2>2, NowAdvances
<1>2. CASE Merged(n, i)
    BY <1>2 DEF Merged
<1> QED
    BY <1>1, <1>2, RowCases DEF Unclaimed

LEMMA NextRowsReached ==
    ASSUME SharedClock, TInv, RowsReached, [Next]_vars, ~Spend("restart")
    PROVE  RowsReached'
<1> SUFFICES ASSUME NEW n \in Nodes, NEW i \in Items PROVE Reached(claim'[n][i].at, clock'[n])
    BY DEF RowsReached
<1>t. /\ claim[n][i].at \in Stamp /\ clock[n] \in Clock /\ wall[n] \in Nat /\ n \in Nat
      /\ clock'[n] \in Clock
    BY GossipAssumption, NextTInv DEF TInv, TypeOK, Claims
<1>1. CASE claim'[n][i].at = claim[n][i].at
    BY <1>t, <1>1, ClockGrows DEF RowsReached
<1>2. CASE claim'[n][i] = Unclaimed
    BY <1>t, <1>2 DEF Unclaimed, NoStamp, Reached, Clock
<1>3. CASE Minted(n, i)
    BY <1>t, <1>3, NowAdvances DEF Minted
<1>4. CASE Merged(n, i)
    BY <1>4 DEF Merged
<1> QED
    BY <1>1, <1>2, <1>3, <1>4, RowCases

LEMMA InitAdvance == Init => TInv /\ Spared /\ RowsReached
BY InitTInv DEF Init, Spared, RowsReached, Unclaimed, NoStamp, Reached

(* The stamp on a row only moves forward or is cleared by a release,        *)
(* however clocks drift or are set back and whatever gossip loses, repeats  *)
(* or reorders, when agents claim with their node's clock and no process    *)
(* starts again with its clock at zero (HLC.now, HLC.recv, try_claim,       *)
(* merge_claim_direct).                                                     *)
THEOREM StampsMoveForward ==
    SharedClock /\ Faults["restart"] = 0 => (Spec => StampsAdvance)
<1> SUFFICES ASSUME SharedClock, Faults["restart"] = 0 PROVE Spec => StampsAdvance
    OBVIOUS
<1> DEFINE J == TInv /\ Spared /\ RowsReached
<1>1. J /\ [Next]_vars => J'
    BY NextTInv, NextSpared, NextRowsReached, NeverSpent DEF FaultKinds
<1> DEFINE A == \A n \in Nodes, i \in Items :
                    LET x == claim[n][i].at
                        y == claim'[n][i].at
                    IN  y = x \/ y = NoStamp \/ Before(x, y)
<1>2. J /\ [Next]_vars => [A]_vars
    BY RowAdvances
<1> QED
    BY <1>1, <1>2, InitAdvance, PTL DEF Spec, StampsAdvance
----------------------------------------------------------------------------
(* Boards agree on who holds an item.                                       *)

(* Agents use their node's clock, deltas all arrive and after the row they  *)
(* are about, nothing moves a clock between a claim and its publication,    *)
(* and no claim is given up or forgotten: the faults each of which lets     *)
(* boards disagree for good.  Clocks may drift and be set back, deltas may  *)
(* be repeated and reordered, claims expire and are contended.              *)
Undisturbed ==
    /\ SharedClock
    /\ \A f \in {"lose", "early", "race", "release", "restart"} : Faults[f] = 0

(* A claim delta for item i on its way to node m with stamp s.              *)
InFlight(m, i, s) ==
    \E p \in net : p[2] = m /\ p[1].type = "claim" /\ p[1].item = i /\ p[1].at = s

(* Agent a has claimed i with stamp s and not yet published it.             *)
Publishing(a, i, s) == pc[a] = "publish" /\ item[a] = i /\ mine[a] = s

(* Steps that neither make, publish, merge nor expire a claim.              *)
Plain ==
    /\ UNCHANGED claim
    /\ \A p \in net : p[1].type = "claim" => p \in net'
    /\ \A p \in net' : p[1].type = "claim" => p \in net
    /\ \A a \in Agents : pc'[a] = "publish" <=> pc[a] = "publish"
    /\ \A a \in Agents : pc[a] = "publish" => item'[a] = item[a] /\ mine'[a] = mine[a]
    /\ \A n \in Nodes, i \in Items : Completed(n, i) => Completed(n, i)'

LEMMA PlainPublish ==
    ASSUME NEW d, d.type # "claim", Publish(d)
    PROVE  /\ \A p \in net : p \in net'
           /\ \A p \in net' : p[1].type = "claim" => p \in net
BY DEF Publish

LEMMA ClaimCases ==
    ASSUME Undisturbed, TInv, Spared, [Next]_vars
    PROVE  \/ Plain
           \/ \E a \in Agents : \E i \in Items : try_claim(a, i)
           \/ \E a \in Agents :
                 publish_claim(a) /\ mine[a] = StampAt(Home[a], clock[Home[a]])
           \/ \E n \in Nodes : \E d \in Delta :
                 /\ <<d, n>> \in net /\ apply_claim(d, n) /\ d.item \in posted[n]
           \/ \E n \in Nodes : \E i \in Items : reclaim(n, i)
<1>t. TypeOK /\ AgentOK /\ \A a \in Agents : ClockOf(a) = Home[a]
    BY DEF TInv, Undisturbed, ClockOf
<1>s. \A f \in {"lose", "early", "race", "release", "restart"} : ~Spend(f)
    BY NeverSpent DEF Undisturbed, FaultKinds
<1>1. ASSUME NEW n \in Nodes, Post(n) PROVE Plain
    <2>1. ASSUME NEW r \in Intents, post_intent(n, r) PROVE Plain
        BY <2>1, PlainPublish DEF post_intent, Plain, agentVars, Completed
    <2>2. ASSUME NEW i \in Items, post_work_item(n, i) PROVE Plain
        BY <2>2, PlainPublish DEF post_work_item, Plain, agentVars, Completed
    <2> QED
        BY <1>1, <2>1, <2>2 DEF Post
<1>2. ASSUME NEW a \in Agents, publish_claim(a)
      PROVE  mine[a] = StampAt(Home[a], clock[Home[a]])
    BY <1>t, <1>s, <1>2 DEF publish_claim
<1>3. ASSUME NEW a \in Agents, complete_work_item(a) PROVE Plain
    <2>1. ToIdle(a) /\ pc[a] = "work" /\ UNCHANGED claim
        BY <1>3 DEF complete_work_item
    <2>2. \A b \in Agents : /\ pc'[b] = "publish" <=> pc[b] = "publish"
                            /\ pc[b] = "publish" => item'[b] = item[b] /\ mine'[b] = mine[b]
        BY <1>t, <2>1 DEF ToIdle, TypeOK
    <2>3. CASE claim[Home[a]][item[a]].by = a
        <3> DEFINE d == [type |-> "done", from |-> Home[a], item |-> item[a], by |-> a]
        <3>1. Publish(d) /\ d.type # "claim" /\ done' = [done EXCEPT ![Home[a]][item[a]] = a]
            BY <1>3, <2>3 DEF complete_work_item
        <3>2. Home[a] \in Nodes /\ item[a] \in Items
            BY <1>t, <2>1, StampTypes DEF AgentOK
        <3>3. \A n \in Nodes, i \in Items : Completed(n, i) => Completed(n, i)'
            BY <1>t, <3>1, <3>2, DoneRowType, GossipAssumption DEF Completed
        <3> QED
            BY <2>1, <2>2, <3>1, <3>3, PlainPublish DEF Plain
    <2>4. CASE claim[Home[a]][item[a]].by # a
        BY <1>3, <2>1, <2>2, <2>4 DEF complete_work_item, Plain, Completed
    <2> QED
        BY <2>3, <2>4
<1>4. ASSUME NEW a \in Agents, lose_claim(a) PROVE Plain
    BY <1>4 DEF lose_claim, Plain, boardVars, agentVars, Completed
<1>5. ASSUME NEW a \in Agents, release_claim(a) PROVE FALSE
    BY <1>s, <1>5 DEF release_claim
<1>6. ASSUME NEW n \in Nodes, NEW d, <<d, n>> \in net, apply_delta(d, n)
      PROVE  Plain \/ (d \in Delta /\ apply_claim(d, n) /\ d.item \in posted[n])
    <2>1. d \in Delta /\ d.type \in {"intent", "item", "claim", "done"}
        BY <1>6, ReceiveType, DeltaTypes
    <2>2. CASE d.type = "claim"
        BY <1>s, <1>6, <2>1, <2>2
           DEF apply_delta, apply_intent, apply_item, apply_claim, apply_done, Consume
    <2>3. CASE d.type # "claim"
        <3>1. /\ Consume(d, n) /\ UNCHANGED <<claim, pc, item, mine>>
              /\ UNCHANGED done \/ (apply_done(d, n) /\ d.type = "done")
            BY <1>6, <2>3
               DEF apply_delta, apply_intent, apply_item, apply_claim, apply_done, agentVars
        <3>2. /\ \A p \in net : p[1].type = "claim" => p \in net'
              /\ \A p \in net' : p \in net
            BY <2>3, <3>1 DEF Consume
        <3>3. \A m \in Nodes, i \in Items : Completed(m, i) => Completed(m, i)'
            <4>1. CASE UNCHANGED done
                BY <4>1 DEF Completed
            <4>2. CASE apply_done(d, n) /\ d.type = "done" /\ ~UNCHANGED done
                <5>1. /\ done' = [done EXCEPT ![n][d.item] = d.by]
                      /\ d.item \in Items /\ d.by \in Agents
                    BY <2>1, <4>2, DeltaTypes DEF apply_done
                <5> QED
                    BY <1>t, <5>1, DoneRowType, GossipAssumption DEF Completed
            <4> QED
                BY <3>1, <4>1, <4>2
        <3> QED
            BY <3>1, <3>2, <3>3 DEF Plain
    <2> QED
        BY <2>2, <2>3
<1>7. ASSUME NEW n \in Nodes, NEW d, lose(d, n) PROVE FALSE
    BY <1>s, <1>7 DEF lose
<1>8. ASSUME NEW n \in Nodes, tick(n) \/ step_back(n) PROVE Plain
    BY <1>8 DEF tick, step_back, Plain, boardVars, agentVars, Completed
<1>9. ASSUME NEW n \in Nodes, restart(n) PROVE FALSE
    BY <1>s, <1>9 DEF restart
<1>10. ASSUME UNCHANGED vars PROVE Plain
    BY <1>10 DEF vars, Plain, boardVars, agentVars, Completed
<1>11. ASSUME NEW a \in Agents, Work(a)
       PROVE  \/ Plain
              \/ \E i \in Items : try_claim(a, i)
              \/ publish_claim(a) /\ mine[a] = StampAt(Home[a], clock[Home[a]])
    BY <1>2, <1>3, <1>11 DEF Work
<1>c. \/ \E n \in Nodes : \/ Post(n) \/ tick(n) \/ step_back(n) \/ restart(n)
                          \/ \E i \in Items : reclaim(n, i)
                          \/ \E d : <<d, n>> \in net /\ (apply_delta(d, n) \/ lose(d, n))
      \/ \E a \in Agents : Work(a) \/ lose_claim(a) \/ release_claim(a)
      \/ UNCHANGED vars
    BY StepCases
<1> QED
    BY <1>1, <1>4, <1>5, <1>6, <1>7, <1>8, <1>9, <1>10, <1>11, <1>c, Zenon
(* The claims in sight: on a row, on the network or about to be published.  *)
InSight(x) ==
    \/ \E n \in Nodes, i \in Items : claim[n][i] = x /\ x.by # NoAgent
    \/ \E p \in net : p[1].type = "claim" /\ x = [by |-> p[1].by, at |-> p[1].at]
    \/ \E a \in Agents : pc[a] = "publish" /\ x = [by |-> a, at |-> mine[a]]

(* A clock has reached every stamp taken from it, so no stamp is taken      *)
(* twice: a stamp names its claimant.                                       *)
StampNamesClaimant ==
    /\ \A x \in Claims : InSight(x) =>
          x.at.node \in Nodes /\ Reached(x.at, clock[x.at.node])
    /\ \A x, y \in Claims : InSight(x) /\ InSight(y) /\ x.at = y.at => x.by = y.by

(* The claim a try_claim of agent a makes.                                  *)
NewClaim(a) ==
    [by |-> a, at |-> StampAt(Home[a], now(clock[Home[a]], wall[Home[a]]))]

LEMMA TryClaimEffect ==
    ASSUME SharedClock, TInv, NEW a \in Agents, NEW i \in Items, try_claim(a, i)
    PROVE  /\ NewClaim(a) \in Claims
           /\ \A n \in Nodes, j \in Items : claim'[n][j] =
                 IF n = Home[a] /\ j = i THEN NewClaim(a) ELSE claim[n][j]
           /\ \A b \in Agents : /\ pc'[b] = IF b = a THEN "publish" ELSE pc[b]
                                /\ item'[b] = IF b = a THEN i ELSE item[b]
                                /\ mine'[b] = IF b = a THEN NewClaim(a).at ELSE mine[b]
           /\ clock'[Home[a]] = now(clock[Home[a]], wall[Home[a]])
           /\ pc[a] = "idle" /\ UNCHANGED <<net, done, posted>>
<1> DEFINE k == Home[a]
           h == now(clock[k], wall[k])
<1>t. /\ TypeOK /\ ClockOf(a) = k /\ k \in Nodes /\ h \in Clock /\ StampAt(k, h) \in Stamp
    BY StampTypes, NowAdvances DEF TInv, ClockOf
<1>1. NewClaim(a) \in Claims /\ NewClaim(a).at = StampAt(k, h)
      /\ NewClaim(a) = [by |-> a, at |-> StampAt(k, h)]
    BY <1>t DEF Claims, NewClaim
<1>2. /\ SetClaim(k, i, NewClaim(a))
      /\ clock' = [clock EXCEPT ![k] = h]
      /\ pc' = [pc EXCEPT ![a] = "publish"]
      /\ item' = [item EXCEPT ![a] = i]
      /\ mine' = [mine EXCEPT ![a] = NewClaim(a).at]
      /\ pc[a] = "idle" /\ UNCHANGED <<net, done, posted>>
    BY <1>t, <1>1 DEF try_claim
<1>3. \A n \in Nodes, j \in Items : claim'[n][j] =
                 IF n = k /\ j = i THEN NewClaim(a) ELSE claim[n][j]
    BY <1>t, <1>1, <1>2, ClaimedRowType
<1>4. clock'[k] = h
    BY <1>t, <1>2 DEF TypeOK
<1>5. \A b \in Agents : /\ pc'[b] = IF b = a THEN "publish" ELSE pc[b]
                        /\ item'[b] = IF b = a THEN i ELSE item[b]
                        /\ mine'[b] = IF b = a THEN NewClaim(a).at ELSE mine[b]
    BY <1>t, <1>2 DEF TypeOK
<1> QED
    BY <1>1, <1>2, <1>3, <1>4, <1>5

LEMMA PublishEffect ==
    ASSUME SharedClock, TInv, NEW a \in Agents, publish_claim(a),
           mine[a] = StampAt(Home[a], clock[Home[a]])
    PROVE  LET d == [type |-> "claim", from |-> Home[a], item |-> item[a], by |-> a,
                     at |-> mine[a]]
           IN  /\ pc[a] = "publish" /\ item[a] \in Items
               /\ net \subseteq net'
               /\ \A m \in Nodes \ {Home[a]} : <<d, m>> \in net'
               /\ \A p \in net' : p \in net \/ p[1] = d
               /\ \A b \in Agents : pc'[b] = IF b = a THEN "work" ELSE pc[b]
               /\ UNCHANGED <<claim, done, item, mine>>
<1> DEFINE d == [type |-> "claim", from |-> Home[a], item |-> item[a], by |-> a, at |-> mine[a]]
<1>1. /\ Publish(d) /\ pc[a] = "publish" /\ pc' = [pc EXCEPT ![a] = "work"]
      /\ UNCHANGED <<claim, done, item, mine>>
    BY DEF publish_claim, ClockOf, boardVars
<1>2. d.from = Home[a] /\ item[a] \in Items
    BY <1>1 DEF TInv, AgentOK
<1> QED
    BY <1>1, <1>2 DEF Publish, TInv, TypeOK

LEMMA MergeEffect ==
    ASSUME TInv, NEW n \in Nodes, NEW d \in Delta, apply_claim(d, n), d.item \in posted[n]
    PROVE  /\ d.type = "claim" /\ d.item \in Items /\ d.by \in Agents /\ d.at \in Stamp
           /\ <<d, n>> \in net /\ net' \subseteq net
           /\ \A p \in net : p # <<d, n>> => p \in net'
           /\ UNCHANGED <<done, pc, item, mine>>
           /\ \/ /\ Before(claim[n][d.item].at, d.at)
                 /\ \A m \in Nodes, j \in Items : claim'[m][j] =
                       IF m = n /\ j = d.item THEN [by |-> d.by, at |-> d.at]
                       ELSE claim[m][j]
              \/ /\ UNCHANGED claim
                 /\ Completed(n, d.item) \/ ~Before(claim[n][d.item].at, d.at)
<1>1. d.type = "claim" /\ Consume(d, n)
    BY DEF apply_claim
<1>2. d.item \in Items /\ d.by \in Agents /\ d.at \in Stamp
    BY <1>1, DeltaTypes
<1>3. [by |-> d.by, at |-> d.at] \in Claims
    BY <1>2 DEF Claims
<1>4. /\ <<d, n>> \in net /\ net' \subseteq net
      /\ \A p \in net : p # <<d, n>> => p \in net'
    BY <1>1 DEF Consume
<1>5. UNCHANGED <<done, pc, item, mine>>
    BY DEF apply_claim, agentVars
<1>6. CASE MergeClaimGuard(d, n)
    <2>1. SetClaim(n, d.item, [by |-> d.by, at |-> d.at])
          /\ Before(claim[n][d.item].at, d.at)
        BY <1>6 DEF apply_claim, MergeClaimGuard
    <2> QED
        BY <1>1, <1>2, <1>3, <1>4, <1>5, <2>1, ClaimedRowType DEF TInv
<1>7. CASE ~MergeClaimGuard(d, n)
    BY <1>1, <1>2, <1>4, <1>5, <1>7 DEF apply_claim, MergeClaimGuard
<1> QED
    BY <1>6, <1>7

LEMMA ReclaimEffect ==
    ASSUME TInv, NEW n \in Nodes, NEW i \in Items, reclaim(n, i)
    PROVE  /\ UNCHANGED <<done, pc, item, mine, net>>
           /\ \A m \in Nodes, j \in Items :
                 /\ claim'[m][j].at = claim[m][j].at
                 /\ claim'[m][j] = claim[m][j] \/ claim'[m][j].by = NoAgent
<1>1. claim[n][i] \in Claims /\ SetClaim(n, i, [claim[n][i] EXCEPT !.by = NoAgent])
      /\ UNCHANGED <<done, pc, item, mine, net>>
    BY DEF reclaim, TInv, TypeOK, agentVars
<1>2. \A c \in Claims : /\ [c EXCEPT !.by = NoAgent] \in Claims
                        /\ [c EXCEPT !.by = NoAgent].at = c.at
                        /\ [c EXCEPT !.by = NoAgent].by = NoAgent
    BY DEF Claims
<1>3. \A m \in Nodes, j \in Items : claim'[m][j] =
         IF m = n /\ j = i THEN [claim[n][i] EXCEPT !.by = NoAgent] ELSE claim[m][j]
    BY <1>1, <1>2, ClaimedRowType DEF TInv
<1> QED
    BY <1>1, <1>2, <1>3

(* Only try_claim puts a new claim in sight.                                *)
LEMMA SightSteps ==
    ASSUME Undisturbed, TInv, Spared, [Next]_vars
    PROVE  \/ \A x \in Claims : InSight(x)' => InSight(x)
           \/ \E a \in Agents :
                 /\ clock'[Home[a]] = now(clock[Home[a]], wall[Home[a]])
                 /\ \A x \in Claims : InSight(x)' => InSight(x) \/ x = NewClaim(a)
<1>s. SharedClock
    BY DEF Undisturbed
<1> DEFINE Same == \A x \in Claims : InSight(x)' => InSight(x)
<1>1. CASE Plain
    BY <1>1 DEF Plain, InSight
<1>2. ASSUME NEW a \in Agents, NEW i \in Items, try_claim(a, i)
      PROVE  /\ clock'[Home[a]] = now(clock[Home[a]], wall[Home[a]])
             /\ \A x \in Claims : InSight(x)' => InSight(x) \/ x = NewClaim(a)
    <2>e. /\ \A n \in Nodes, j \in Items : claim'[n][j] = NewClaim(a) \/ claim'[n][j] = claim[n][j]
          /\ \A b \in Agents : /\ b # a => pc'[b] = pc[b] /\ mine'[b] = mine[b]
                               /\ b = a => mine'[b] = NewClaim(a).at
          /\ clock'[Home[a]] = now(clock[Home[a]], wall[Home[a]])
          /\ net' = net
        BY <1>s, <1>2, TryClaimEffect
    <2>n. NewClaim(a) = [by |-> a, at |-> NewClaim(a).at]
        BY DEF NewClaim
    <2> SUFFICES ASSUME NEW x \in Claims, InSight(x)', x # NewClaim(a) PROVE InSight(x)
        BY <2>e
    <2>1. CASE \E n \in Nodes, j \in Items : claim'[n][j] = x /\ x.by # NoAgent
        BY <2>e, <2>1 DEF InSight
    <2>2. CASE \E p \in net' : p[1].type = "claim" /\ x = [by |-> p[1].by, at |-> p[1].at]
        BY <2>e, <2>2 DEF InSight
    <2>3. CASE \E b \in Agents : pc'[b] = "publish" /\ x = [by |-> b, at |-> mine'[b]]
        BY <2>e, <2>n, <2>3 DEF InSight
    <2> QED
        BY <2>1, <2>2, <2>3 DEF InSight
<1>3. ASSUME NEW a \in Agents, publish_claim(a), mine[a] = StampAt(Home[a], clock[Home[a]])
      PROVE  Same
    <2> DEFINE d == [type |-> "claim", from |-> Home[a], item |-> item[a], by |-> a,
                     at |-> mine[a]]
    <2>e. /\ pc[a] = "publish" /\ \A p \in net' : p \in net \/ p[1] = d
          /\ \A b \in Agents : pc'[b] = "publish" => pc[b] = "publish"
          /\ UNCHANGED <<claim, mine>>
        BY <1>s, <1>3, PublishEffect
    <2>d. d.by = a /\ d.at = mine[a]
        OBVIOUS
    <2> HIDE DEF d
    <2> SUFFICES ASSUME NEW x \in Claims, InSight(x)' PROVE InSight(x)
        OBVIOUS
    <2>1. CASE \E n \in Nodes, j \in Items : claim'[n][j] = x /\ x.by # NoAgent
        BY <2>e, <2>1 DEF InSight
    <2>2. CASE \E p \in net' : p[1].type = "claim" /\ x = [by |-> p[1].by, at |-> p[1].at]
        BY <2>e, <2>d, <2>2 DEF InSight
    <2>3. CASE \E b \in Agents : pc'[b] = "publish" /\ x = [by |-> b, at |-> mine'[b]]
        BY <2>e, <2>3 DEF InSight
    <2> QED
        BY <2>1, <2>2, <2>3 DEF InSight
<1>4. ASSUME NEW n \in Nodes, NEW d \in Delta, apply_claim(d, n), d.item \in posted[n]
      PROVE  Same
    <2>e. /\ d.type = "claim" /\ <<d, n>> \in net /\ net' \subseteq net
          /\ UNCHANGED <<pc, mine>>
          /\ \A m \in Nodes, j \in Items :
                claim'[m][j] = [by |-> d.by, at |-> d.at] \/ claim'[m][j] = claim[m][j]
        BY <1>4, MergeEffect
    <2>d. <<d, n>>[1] = d
        OBVIOUS
    <2>p. \E p \in net : p[1] = d
        BY <2>e, <2>d
    <2> SUFFICES ASSUME NEW x \in Claims, InSight(x)' PROVE InSight(x)
        OBVIOUS
    <2>1. CASE \E m \in Nodes, j \in Items : claim'[m][j] = x /\ x.by # NoAgent
        BY <2>e, <2>p, <2>1 DEF InSight
    <2>2. CASE \E p \in net' : p[1].type = "claim" /\ x = [by |-> p[1].by, at |-> p[1].at]
        BY <2>e, <2>2 DEF InSight
    <2>3. CASE \E b \in Agents : pc'[b] = "publish" /\ x = [by |-> b, at |-> mine'[b]]
        BY <2>e, <2>3 DEF InSight
    <2> QED
        BY <2>1, <2>2, <2>3 DEF InSight
<1>5. ASSUME NEW n \in Nodes, NEW i \in Items, reclaim(n, i) PROVE Same
    BY <1>5, ReclaimEffect DEF InSight
<1> QED
    BY <1>1, <1>2, <1>3, <1>4, <1>5, ClaimCases

LEMMA NextStampNamesClaimant ==
    ASSUME Undisturbed, TInv, Spared, StampNamesClaimant, [Next]_vars
    PROVE  StampNamesClaimant'
<1>s. SharedClock /\ ~Spend("restart")
    BY NeverSpent DEF Undisturbed, FaultKinds
<1>t. \A x \in Claims : x.at \in Stamp
    BY DEF Claims
<1>g. \A n \in Nodes, s \in Stamp : Reached(s, clock[n]) => Reached(s, clock'[n])
    BY <1>s, ClockGrows
<1>o. \A x \in Claims : InSight(x) => x.at.node \in Nodes /\ Reached(x.at, clock'[x.at.node])
    BY <1>t, <1>g DEF StampNamesClaimant
<1>1. CASE \A x \in Claims : InSight(x)' => InSight(x)
    BY <1>1, <1>o DEF StampNamesClaimant
<1>2. ASSUME NEW a \in Agents, clock'[Home[a]] = now(clock[Home[a]], wall[Home[a]]),
             \A x \in Claims : InSight(x)' => InSight(x) \/ x = NewClaim(a)
      PROVE  StampNamesClaimant'
    <2> DEFINE k == Home[a]
               s == NewClaim(a).at
    <2>0. /\ k \in Nodes /\ k \in Nat /\ clock[k] \in Clock /\ wall[k] \in Nat
          /\ s = StampAt(k, now(clock[k], wall[k])) /\ NewClaim(a).by = a
        BY GossipAssumption DEF TInv, TypeOK, NewClaim
    <2>1. s.node = k /\ Reached(s, clock'[k])
        BY <1>2, <2>0, NowAdvances DEF StampAt
    <2>2. \A x \in Claims : InSight(x) => x.at # s
        <3> SUFFICES ASSUME NEW x \in Claims, InSight(x), x.at = s PROVE FALSE
            OBVIOUS
        <3>1. Reached(s, clock[k]) /\ s \in Stamp
            BY <1>t, <2>1 DEF StampNamesClaimant
        <3> QED
            BY <2>0, <3>1, NowAdvances
    <2>3. ASSUME NEW x \in Claims, InSight(x)'
          PROVE  x.at.node \in Nodes /\ Reached(x.at, clock'[x.at.node])
        BY <1>2, <1>o, <2>0, <2>1, <2>3
    <2>4. ASSUME NEW x \in Claims, NEW y \in Claims, InSight(x)', InSight(y)', x.at = y.at
          PROVE  x.by = y.by
        <3>1. (InSight(x) \/ x = NewClaim(a)) /\ (InSight(y) \/ y = NewClaim(a))
            BY <1>2, <2>4
        <3> QED
            BY <2>2, <2>4, <3>1 DEF StampNamesClaimant
    <2> QED
        BY <2>3, <2>4 DEF StampNamesClaimant
<1> QED
    BY <1>1, <1>2, SightSteps
(* Node m has a claim of item i at least as late as s, no longer needs one, *)
(* or is going to be told of s.                                             *)
Heard(m, i, s) ==
    \/ Completed(m, i)
    \/ ~Before(claim[m][i].at, s)
    \/ InFlight(m, i, s)
    \/ \E a \in Agents : Publishing(a, i, s) /\ Home[a] # m

(* The stamps anyone can still learn of for item i.                         *)
Told(i, s) ==
    \/ \E n \in Nodes : claim[n][i].at = s
    \/ \E m \in Nodes : InFlight(m, i, s)
    \/ \E a \in Agents : Publishing(a, i, s)

(* Every node has heard, or will, of every claim that another acts upon.    *)
EveryoneHears == \A i \in Items, s \in Stamp : Told(i, s) => \A m \in Nodes : Heard(m, i, s)

LEMMA HeardStable ==
    ASSUME Undisturbed, TInv, Spared, RowsReached, [Next]_vars,
           NEW m \in Nodes, NEW i \in Items, NEW s \in Stamp, Heard(m, i, s)
    PROVE  Heard(m, i, s)'
<1>s. SharedClock /\ ~Spend("release")
    BY NeverSpent DEF Undisturbed, FaultKinds
<1>t. claim[m][i].at \in Stamp /\ claim'[m][i].at \in Stamp
    BY NextTInv DEF TInv, TypeOK, Claims
<1>r. claim'[m][i].at = claim[m][i].at \/ Before(claim[m][i].at, claim'[m][i].at)
    BY <1>s, RowAdvances
<1>1. ASSUME ~Before(claim[m][i].at, s) PROVE ~Before(claim'[m][i].at, s)
    BY <1>t, <1>r, <1>1, BeforeTransitive, BeforeTotal
<1>2. CASE Plain
    BY <1>1, <1>2 DEF Plain, Heard, InFlight, Publishing
<1>3. ASSUME NEW a \in Agents, NEW j \in Items, try_claim(a, j) PROVE Heard(m, i, s)'
    <2>1. /\ UNCHANGED <<net, done>> /\ pc[a] = "idle"
          /\ \A b \in Agents : b # a =>
                pc'[b] = pc[b] /\ item'[b] = item[b] /\ mine'[b] = mine[b]
        BY <1>s, <1>3, TryClaimEffect
    <2> QED
        BY <1>1, <2>1 DEF Heard, InFlight, Publishing, Completed
<1>4. ASSUME NEW a \in Agents, publish_claim(a), mine[a] = StampAt(Home[a], clock[Home[a]])
      PROVE  Heard(m, i, s)'
    <2> DEFINE d == [type |-> "claim", from |-> Home[a], item |-> item[a], by |-> a,
                     at |-> mine[a]]
    <2>1. /\ net \subseteq net' /\ UNCHANGED <<claim, done, item, mine>>
          /\ \A b \in Agents : b # a => pc'[b] = pc[b]
          /\ m # Home[a] => <<d, m>> \in net'
        BY <1>s, <1>4, PublishEffect
    <2>2. ASSUME Publishing(a, i, s), Home[a] # m PROVE InFlight(m, i, s)'
        <3>1. /\ <<d, m>>[1] = d /\ <<d, m>>[2] = m
              /\ d.type = "claim" /\ d.item = i /\ d.at = s
            BY <2>2 DEF Publishing
        <3> HIDE DEF d
        <3> QED
            BY <2>1, <2>2, <3>1 DEF InFlight
    <2>3. ASSUME NEW b \in Agents, b # a, Publishing(b, i, s) PROVE Publishing(b, i, s)'
        BY <2>1, <2>3 DEF Publishing
    <2>4. InFlight(m, i, s) => InFlight(m, i, s)'
        BY <2>1 DEF InFlight
    <2>5. Completed(m, i) => Completed(m, i)'
        BY <2>1 DEF Completed
    <2> QED
        BY <1>1, <2>2, <2>3, <2>4, <2>5 DEF Heard
<1>5. ASSUME NEW n \in Nodes, NEW d \in Delta, apply_claim(d, n), d.item \in posted[n]
      PROVE  Heard(m, i, s)'
    <2>e. /\ d.type = "claim" /\ d.item \in Items /\ d.at \in Stamp
          /\ \A p \in net : p # <<d, n>> => p \in net'
          /\ UNCHANGED <<done, pc, item, mine>>
          /\ \/ claim'[n][d.item] = [by |-> d.by, at |-> d.at]
             \/ /\ UNCHANGED claim
                /\ Completed(n, d.item) \/ ~Before(claim[n][d.item].at, d.at)
        BY <1>5, MergeEffect
    <2>1. CASE \E p \in net : p[2] = m /\ p[1].type = "claim" /\ p[1].item = i /\ p[1].at = s
                              /\ p # <<d, n>>
        BY <2>e, <2>1 DEF Heard, InFlight
    <2>2. CASE m = n /\ d.item = i /\ d.at = s
        <3>1. CASE claim'[n][d.item] = [by |-> d.by, at |-> d.at]
            BY <2>2, <2>e, <3>1, BeforeTotal DEF Heard
        <3>2. CASE UNCHANGED claim /\ (Completed(n, d.item) \/ ~Before(claim[n][d.item].at, d.at))
            BY <2>2, <2>e, <3>2 DEF Heard, Completed
        <3> QED
            BY <2>e, <3>1, <3>2
    <2>3. CASE ~InFlight(m, i, s)
        BY <1>1, <2>e, <2>3 DEF Heard, Publishing, Completed
    <2>4. InFlight(m, i, s) =>
              \/ m = n /\ d.item = i /\ d.at = s
              \/ \E p \in net : p[2] = m /\ p[1].type = "claim" /\ p[1].item = i /\ p[1].at = s
                                /\ p # <<d, n>>
        <3>1. <<d, n>>[1] = d /\ <<d, n>>[2] = n
            OBVIOUS
        <3> QED
            BY <3>1 DEF InFlight
    <2> QED
        BY <2>1, <2>2, <2>3, <2>4
<1>6. ASSUME NEW n \in Nodes, NEW j \in Items, reclaim(n, j) PROVE Heard(m, i, s)'
    BY <1>1, <1>6, ReclaimEffect DEF Heard, InFlight, Publishing, Completed
<1> QED
    BY <1>2, <1>3, <1>4, <1>5, <1>6, ClaimCases

(* Only try_claim makes a new stamp, and the claimant will publish it.      *)
LEMMA ToldSteps ==
    ASSUME Undisturbed, TInv, Spared, [Next]_vars, NEW i \in Items, NEW s \in Stamp, Told(i, s)'
    PROVE  Told(i, s) \/ \A m \in Nodes : Heard(m, i, s)'
<1>s. SharedClock
    BY DEF Undisturbed
<1>1. CASE Plain
    BY <1>1 DEF Plain, Told, InFlight, Publishing
<1>2. ASSUME NEW a \in Agents, NEW j \in Items, try_claim(a, j)
      PROVE  Told(i, s) \/ \A m \in Nodes : Heard(m, i, s)'
    <2>e. /\ NewClaim(a) \in Claims /\ Home[a] \in Nodes
          /\ \A n \in Nodes, l \in Items : claim'[n][l] =
                IF n = Home[a] /\ l = j THEN NewClaim(a) ELSE claim[n][l]
          /\ \A b \in Agents : b # a =>
                pc'[b] = pc[b] /\ item'[b] = item[b] /\ mine'[b] = mine[b]
          /\ pc'[a] = "publish" /\ item'[a] = j /\ mine'[a] = NewClaim(a).at
          /\ net' = net
        BY <1>s, <1>2, TryClaimEffect, GossipAssumption
    <2>1. CASE i = j /\ s = NewClaim(a).at
        <3> SUFFICES ASSUME NEW m \in Nodes PROVE Heard(m, i, s)'
            OBVIOUS
        <3>1. CASE m = Home[a]
            BY <2>e, <2>1, <3>1, BeforeTotal DEF Heard
        <3>2. CASE m # Home[a]
            BY <2>e, <2>1, <3>2 DEF Heard, Publishing
        <3> QED
            BY <3>1, <3>2
    <2>2. CASE ~(i = j /\ s = NewClaim(a).at)
        BY <2>e, <2>2 DEF Told, InFlight, Publishing
    <2> QED
        BY <2>1, <2>2
<1>3. ASSUME NEW a \in Agents, publish_claim(a), mine[a] = StampAt(Home[a], clock[Home[a]])
      PROVE  Told(i, s)
    <2> DEFINE d == [type |-> "claim", from |-> Home[a], item |-> item[a], by |-> a,
                     at |-> mine[a]]
    <2>e. /\ pc[a] = "publish" /\ \A p \in net' : p \in net \/ p[1] = d
          /\ \A b \in Agents : pc'[b] = "publish" => pc[b] = "publish"
          /\ UNCHANGED <<claim, item, mine>>
        BY <1>s, <1>3, PublishEffect
    <2>d. d.item = item[a] /\ d.at = mine[a]
        OBVIOUS
    <2> HIDE DEF d
    <2> QED
        BY <2>e, <2>d DEF Told, InFlight, Publishing
<1>4. ASSUME NEW n \in Nodes, NEW d \in Delta, apply_claim(d, n), d.item \in posted[n]
      PROVE  Told(i, s)
    <2>e. /\ d.type = "claim" /\ <<d, n>> \in net /\ net' \subseteq net
          /\ UNCHANGED <<pc, item, mine>>
          /\ \A m \in Nodes, j \in Items :
                \/ claim'[m][j] = [by |-> d.by, at |-> d.at] /\ j = d.item
                \/ claim'[m][j] = claim[m][j]
        BY <1>4, MergeEffect
    <2>1. d.item = i /\ d.at = s => InFlight(n, i, s)
        <3>1. <<d, n>>[1] = d /\ <<d, n>>[2] = n
            OBVIOUS
        <3> QED
            BY <2>e, <3>1 DEF InFlight
    <2>2. ASSUME NEW m \in Nodes, InFlight(m, i, s)' PROVE InFlight(m, i, s)
        BY <2>e, <2>2 DEF InFlight
    <2>3. ASSUME NEW m \in Nodes, claim'[m][i].at = s
          PROVE  claim[m][i].at = s \/ (d.item = i /\ d.at = s)
        BY <2>e, <2>3
    <2>4. ASSUME NEW a \in Agents, Publishing(a, i, s)' PROVE Publishing(a, i, s)
        BY <2>e, <2>4 DEF Publishing
    <2> QED
        BY <2>1, <2>2, <2>3, <2>4 DEF Told
<1>5. ASSUME NEW n \in Nodes, NEW j \in Items, reclaim(n, j) PROVE Told(i, s)
    BY <1>5, ReclaimEffect DEF Told, InFlight, Publishing
<1> QED
    BY <1>1, <1>2, <1>3, <1>4, <1>5, ClaimCases

LEMMA NextEveryoneHears ==
    ASSUME Undisturbed, TInv, Spared, RowsReached, EveryoneHears, [Next]_vars
    PROVE  EveryoneHears'
<1> SUFFICES ASSUME NEW i \in Items, NEW s \in Stamp, Told(i, s)', NEW m \in Nodes
             PROVE  Heard(m, i, s)'
    BY DEF EveryoneHears
<1>1. CASE Told(i, s)
    BY <1>1, HeardStable DEF EveryoneHears
<1> QED
    BY <1>1, ToldSteps

----------------------------------------------------------------------------
GInv == TInv /\ Spared /\ RowsReached /\ StampNamesClaimant /\ EveryoneHears

LEMMA InitGInv == Init => GInv
<1> SUFFICES ASSUME Init PROVE GInv
    OBVIOUS
<1>1. TInv /\ Spared /\ RowsReached
    BY InitAdvance
<1>2. StampNamesClaimant
    BY DEF Init, StampNamesClaimant, InSight, Unclaimed
<1>3. EveryoneHears
    BY NoStampType, BeforeTotal
       DEF Init, EveryoneHears, Told, Heard, InFlight, Publishing, Unclaimed
<1> QED
    BY <1>1, <1>2, <1>3 DEF GInv

(* Two claims with one stamp have one claimant.                             *)
LEMMA WinnerFromInv == GInv => OneWinner
<1> SUFFICES ASSUME GInv, NEW n \in Nodes, NEW m \in Nodes, NEW i \in Items,
                    claim[n][i].at = claim[m][i].at,
                    claim[n][i].by # NoAgent, claim[m][i].by # NoAgent
             PROVE  claim[n][i].by = claim[m][i].by
    BY DEF OneWinner
<1>1. claim[n][i] \in Claims /\ claim[m][i] \in Claims
    BY DEF GInv, TInv, TypeOK
<1>2. InSight(claim[n][i]) /\ InSight(claim[m][i])
    BY DEF InSight
<1> QED
    BY <1>1, <1>2 DEF GInv, StampNamesClaimant

LEMMA ConvergeFromInv == GInv => ClaimsConverge
<1> SUFFICES ASSUME GInv, Quiet, NEW n \in Nodes, NEW m \in Nodes, NEW i \in Items,
                    ~Completed(n, i), ~Completed(m, i)
             PROVE  /\ claim[n][i].at = claim[m][i].at
                    /\ \/ NoAgent \in {claim[n][i].by, claim[m][i].by}
                       \/ claim[n][i].by = claim[m][i].by
    BY DEF ClaimsConverge
<1>t. claim[n][i] \in Claims /\ claim[m][i] \in Claims
      /\ claim[n][i].at \in Stamp /\ claim[m][i].at \in Stamp
    BY DEF GInv, TInv, TypeOK, Claims
<1>1. ASSUME NEW k \in Nodes, NEW j \in Nodes, claim[k][i].at \in Stamp, ~Completed(j, i)
      PROVE  ~Before(claim[j][i].at, claim[k][i].at)
    <2>1. Heard(j, i, claim[k][i].at)
        BY <1>1 DEF GInv, EveryoneHears, Told
    <2> QED
        BY <1>1, <2>1 DEF Heard, Quiet, InFlight, Publishing
<1>2. claim[n][i].at = claim[m][i].at
    BY <1>t, <1>1, BeforeTotal
<1>3. ASSUME claim[n][i].by # NoAgent, claim[m][i].by # NoAgent
      PROVE  claim[n][i].by = claim[m][i].by
    <2>1. InSight(claim[n][i]) /\ InSight(claim[m][i])
        BY <1>3 DEF InSight
    <2> QED
        BY <1>t, <1>2, <2>1 DEF GInv, StampNamesClaimant
<1> QED
    BY <1>2, <1>3

(* Boards that have exchanged everything agree on every unfinished item's   *)
(* claim, and no two claims tie: for any number of nodes and agents,        *)
(* however far their clocks drift or are set back, whatever is repeated or  *)
(* reordered, and however often claims expire and are taken again           *)
(* (merge_claim_direct, HLC.now, HLC.recv, reclaim_expired_claims).         *)
THEOREM BoardsAgree == Undisturbed => (Spec => []ClaimsAreSound)
<1> SUFFICES ASSUME Undisturbed PROVE Spec => []ClaimsAreSound
    OBVIOUS
<1>1. GInv /\ [Next]_vars => GInv'
    <2>1. SharedClock /\ (Spared => ~Spend("restart"))
        BY NeverSpent DEF Undisturbed, FaultKinds
    <2> QED
        BY <2>1, NextTInv, NextSpared, NextRowsReached, NextStampNamesClaimant,
           NextEveryoneHears DEF GInv
<1>2. GInv => ClaimsAreSound
    BY WinnerFromInv, ConvergeFromInv DEF ClaimsAreSound, GInv, TInv
<1> QED
    BY <1>1, <1>2, InitGInv, PTL DEF Spec
=============================================================================
