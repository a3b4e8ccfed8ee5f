---------------------------- MODULE Runner_proofs ----------------------------
(***************************************************************************)
(* The blackboard's rows keep the promise of WorkBoard for any number of   *)
(* runners, items, leases and faults.                                      *)
(***************************************************************************)
EXTENDS Runner, SequenceTheorems, TLAPS

(* The locals of a round: a runner past its fetch has an item, one that is  *)
(* posting children has some left to post, and one about to complete has    *)
(* signed for its item.                                                     *)
RoundOK(a) ==
    /\ pc[a] \in WorkLabels \cup {"claim"} => cur[a] \in Items
    /\ pc[a] = "spawn" => todo[a] # <<>>
    /\ pc[a] = "finish" => /\ env[a] \in Envelope
                           /\ SignedFor(a, cur[a], env[a])

RoundInv == \A a \in Agents : RoundOK(a)

IInv == TypeOK /\ RoundInv /\ CompletionByHolder /\ HolderWorksOnOpenItem

(* A completed row has a claimant: it can be claimed by nobody else.        *)
LEMMA CompletedIsClaimed ==
    ASSUME TypeOK, CompletionByHolder, NEW i \in Items, Completed(i)
    PROVE  claimed_by[i] # NoAgent
BY BoardAssumption, EnvelopeAssumption
   DEF TypeOK, BoardTypeOK, CompletionByHolder, SignedFor, Completed, Envelope

----------------------------------------------------------------------------
(* Type correctness of the parts of a step.                                 *)

LEMMA AgedType == BoardTypeOK => Aged \in [Items -> 0 .. Lease + 1]
BY BoardAssumption DEF BoardTypeOK, Aged

LEMMA BoardStutter == BoardTypeOK /\ UNCHANGED boardVars => BoardTypeOK'
BY DEF BoardTypeOK, boardVars

LEMMA RoundStutter == RoundTypeOK /\ UNCHANGED roundVars => RoundTypeOK'
BY DEF RoundTypeOK, roundVars

LEMMA ChainStutter == ChainTypeOK /\ UNCHANGED chainVars => ChainTypeOK'
BY DEF ChainTypeOK, chainVars

LEMMA ClaimType ==
    ASSUME BoardTypeOK, NEW i \in Items, NEW a \in Agents, try_claim(i, a)
    PROVE  BoardTypeOK'
BY BoardAssumption DEF BoardTypeOK, try_claim

LEMMA ClearType ==
    ASSUME BoardTypeOK, NEW i \in Items, ClearClaim(i)
    PROVE  BoardTypeOK'
BY BoardAssumption DEF BoardTypeOK, ClearClaim

LEMMA PostType ==
    ASSUME BoardTypeOK, NEW i \in Items, NEW p \in Items \cup {NoItem},
           NEW k \in Kinds, NEW t \in Nat, post_work_item(i, p, k, t)
    PROVE  BoardTypeOK'
BY DEF BoardTypeOK, post_work_item

LEMMA CompleteType ==
    ASSUME BoardTypeOK, NEW i \in Items, NEW a \in Agents, NEW e \in Envelope,
           complete_work_item(i, a, e)
    PROVE  BoardTypeOK'
<1>1. CASE UNCHANGED boardVars
  BY <1>1, BoardStutter
<1>2. CASE CompleteGuard(i, a)
  BY <1>2 DEF BoardTypeOK, complete_work_item
<1> QED
  BY <1>1, <1>2 DEF complete_work_item

LEMMA GotoType ==
    ASSUME pc \in [Agents -> Labels], NEW a \in Agents, NEW l \in Labels,
           Goto(a, l)
    PROVE  pc' \in [Agents -> Labels]
BY DEF Goto

LEMMA NextRoundType ==
    ASSUME pc \in [Agents -> Labels], RoundTypeOK, NEW a \in Agents,
           NextRound(a)
    PROVE  pc' \in [Agents -> Labels] /\ RoundTypeOK'
<1>1. pc' \in [Agents -> Labels]
  BY GotoType DEF NextRound, Labels
<1>2. <<>> \in Seq(Kinds)
  OBVIOUS
<1>3. RoundTypeOK'
  BY <1>2 DEF NextRound, RoundTypeOK
<1> QED
  BY <1>1, <1>3

LEMMA SpendType ==
    ASSUME budget \in [FaultKinds -> Nat], NEW f \in FaultKinds, Spend(f)
    PROVE  budget' \in [FaultKinds -> Nat]
BY DEF Spend

(* Initially nothing is posted, claimed or completed.                       *)
LEMMA InitIInv == Init => IInv
<1> SUFFICES ASSUME Init PROVE IInv
  OBVIOUS
<1> USE BoardAssumption, EnvelopeAssumption, RunnerAssumption DEF Init, BoardInit
<1>1. BoardTypeOK
  BY DEF BoardTypeOK, Kinds
<1>2. TypeOK
  BY <1>1 DEF TypeOK, RoundTypeOK, ChainTypeOK, Labels, NoParent
<1>3. RoundInv
  BY DEF RoundInv, RoundOK, WorkLabels
<1>4. CompletionByHolder /\ HolderWorksOnOpenItem
  BY DEF CompletionByHolder, HolderWorksOnOpenItem, Completed
<1> QED
  BY <1>2, <1>3, <1>4 DEF IInv

(* What a runner signs is an envelope.                                      *)
LEMMA SignedType ==
    ASSUME RoundTypeOK, ChainTypeOK, RoundInv,
           NEW a \in Agents, pc[a] = "sign"
    PROVE  NextEnvelope(a) \in Envelope
BY DEF NextEnvelope, Envelope, RoundTypeOK, ChainTypeOK, RoundInv, RoundOK,
       WorkLabels

(* Type correctness, one step per action.                                   *)
LEMMA NextTypeOK == IInv /\ [Next]_vars => TypeOK'
<1> SUFFICES ASSUME IInv, [Next]_vars PROVE TypeOK'
  OBVIOUS
<1>t. /\ TypeOK /\ BoardTypeOK /\ RoundTypeOK /\ ChainTypeOK
      /\ pc \in [Agents -> Labels]
  BY DEF IInv, TypeOK
<1>r. RoundInv
  BY DEF IInv
<1> USE BoardStutter, RoundStutter, ChainStutter DEF Labels, FaultKinds
<1>1. ASSUME NEW a \in Agents, ReapSelect(a) PROVE TypeOK'
  <2>1. expired_claims \in SUBSET (Items \X Agents)
    BY <1>t DEF expired_claims, BoardTypeOK
  <2> QED
    BY <1>t, <1>1, <2>1, GotoType DEF ReapSelect, TypeOK
<1>2. ASSUME NEW a \in Agents, ReapRow(a) PROVE TypeOK'
  <2>1. PICK r \in seen[a] : /\ reclaim(r[1], r[2])
                             /\ seen' = [seen EXCEPT ![a] = @ \ {r}]
    BY <1>2 DEF ReapRow
  <2>2. r[1] \in Items
    BY <1>t, <2>1 DEF TypeOK
  <2>3. BoardTypeOK'
    BY <1>t, <2>1, <2>2, ClearType DEF reclaim
  <2>4. seen' \in [Agents -> SUBSET (Items \X Agents)]
    BY <1>t, <2>1 DEF TypeOK
  <2> QED
    BY <1>t, <1>2, <2>3, <2>4 DEF ReapRow, TypeOK
<1>3. ASSUME NEW a \in Agents, Fetch(a) PROVE TypeOK'
  <2>1. PICK i \in get_unclaimed(Tier[a]) \ failed[a] :
           \/ /\ cur' = [cur EXCEPT ![a] = i]
              /\ Goto(a, "claim")
              /\ UNCHANGED failed
           \/ /\ failed' = [failed EXCEPT ![a] = @ \cup {i}]
              /\ Goto(a, "poll")
              /\ UNCHANGED cur
    BY <1>3 DEF Fetch
  <2>2. i \in Items
    BY <1>t DEF get_unclaimed, BoardTypeOK
  <2>3. pc' \in [Agents -> Labels]
    BY <1>t, <2>1, GotoType
  <2>a. failed \in [Agents -> SUBSET Items] /\ cur \in [Agents -> Items \cup {NoItem}]
    BY <1>t DEF TypeOK, RoundTypeOK
  <2>b. failed' \in [Agents -> SUBSET Items]
    <3>1. CASE failed' = [failed EXCEPT ![a] = @ \cup {i}]
      <4>1. failed[a] \cup {i} \in SUBSET Items
        BY <2>a, <2>2
      <4> QED
        BY <2>a, <3>1, <4>1
    <3> QED
      BY <2>a, <2>1, <3>1
  <2>4. failed' \in [Agents -> SUBSET Items] /\ cur' \in [Agents -> Items \cup {NoItem}]
    BY <2>a, <2>b, <2>1, <2>2
  <2>5. RoundTypeOK'
    BY <1>t, <1>3, <2>4 DEF Fetch, RoundTypeOK
  <2> QED
    BY <1>t, <1>3, <2>3, <2>4, <2>5 DEF Fetch, TypeOK
<1>4. ASSUME NEW a \in Agents, NothingToDo(a) PROVE TypeOK'
  BY <1>t, <1>4, GotoType DEF NothingToDo, TypeOK
<1>5. ASSUME NEW a \in Agents, Claim(a) PROVE TypeOK'
  <2>1. cur[a] \in Items
    BY <1>r, <1>5 DEF Claim, RoundInv, RoundOK
  <2> QED
    BY <1>t, <1>5, <2>1, ClaimType, GotoType DEF Claim, TypeOK
<1>6. ASSUME NEW a \in Agents, LoseRace(a) PROVE TypeOK'
  BY <1>t, <1>6, NextRoundType DEF LoseRace, TypeOK
<1>7. ASSUME NEW a \in Agents, GatherInputs(a) PROVE TypeOK'
  <2>1. pc' \in [Agents -> Labels]
    BY <1>t, <1>7, GotoType DEF GatherInputs
  <2>a. inputs \in [Agents -> SUBSET Items] /\ posted \subseteq Items
    BY <1>t DEF RoundTypeOK, BoardTypeOK
  <2> DEFINE siblings == {c \in children_of(parent_id[cur[a]]) :
                            c # cur[a] /\ Completed(c)}
             found == IF kind[cur[a]] = "combine" /\ parent_id[cur[a]] # NoItem
                      THEN siblings ELSE {}
  <2>b. found \in SUBSET Items
    BY <2>a DEF children_of
  <2>c. inputs' = inputs \/ inputs' = [inputs EXCEPT ![a] = found]
    BY <1>7 DEF GatherInputs
  <2>2. inputs' \in [Agents -> SUBSET Items]
    <3> HIDE DEF found
    <3> QED
      BY <2>a, <2>b, <2>c
  <2>3. RoundTypeOK'
    BY <1>t, <1>7, <2>2 DEF GatherInputs, RoundTypeOK
  <2> QED
    BY <1>t, <1>7, <2>1, <2>3 DEF GatherInputs, TypeOK
<1>8. ASSUME NEW a \in Agents, ExecutorReturns(a) PROVE TypeOK'
  BY <1>t, <1>8, GotoType DEF ExecutorReturns, TypeOK
<1>9. ASSUME NEW a \in Agents, ExecutorRefused(a) PROVE TypeOK'
  BY <1>t, <1>9, GotoType DEF ExecutorRefused, TypeOK
<1>10. ASSUME NEW a \in Agents, ExecutorPlans(a) PROVE TypeOK'
  <2>1. pc' \in [Agents -> Labels]
    BY <1>t, <1>10, GotoType DEF ExecutorPlans
  <2>2. todo' \in [Agents -> Seq(Kinds)]
    BY <1>t, <1>10, RunnerAssumption DEF ExecutorPlans, RoundTypeOK
  <2>3. RoundTypeOK'
    BY <1>t, <1>10, <2>2 DEF ExecutorPlans, RoundTypeOK
  <2> QED
    BY <1>t, <1>10, <2>1, <2>3 DEF ExecutorPlans, TypeOK
<1>11. ASSUME NEW a \in Agents, SpawnSubtask(a) PROVE TypeOK'
  <2>1. PICK c \in Fresh, t \in SubtaskTiers :
           /\ post_work_item(c, cur[a], Head(todo[a]),
                             IF t < required_tier[cur[a]] THEN t
                             ELSE required_tier[cur[a]])
           /\ made' = [made EXCEPT ![a] = @ \cup {c}]
    BY <1>11 DEF SpawnSubtask
  <2>2. /\ c \in Items /\ cur[a] \in Items
        /\ todo[a] \in Seq(Kinds) /\ todo[a] # <<>>
    BY <1>t, <1>r, <1>11 DEF SpawnSubtask, Fresh, RoundInv, RoundOK, RoundTypeOK, WorkLabels
  <2>3. Head(todo[a]) \in Kinds /\ Tail(todo[a]) \in Seq(Kinds)
    BY <2>2
  <2>4. (IF t < required_tier[cur[a]] THEN t ELSE required_tier[cur[a]]) \in Nat
    BY <1>t, <2>2, RunnerAssumption DEF BoardTypeOK
  <2>5. BoardTypeOK'
    BY <1>t, <2>1, <2>2, <2>3, <2>4, PostType
  <2>6. pc' \in [Agents -> Labels]
    BY <1>t, <1>11, GotoType DEF SpawnSubtask
  <2>7. RoundTypeOK'
    BY <1>t, <1>11, <2>1, <2>2, <2>3 DEF SpawnSubtask, RoundTypeOK
  <2> QED
    BY <1>t, <1>11, <2>5, <2>6, <2>7 DEF SpawnSubtask, TypeOK
<1>12. ASSUME NEW a \in Agents, SignEnvelope(a) PROVE TypeOK'
  <2>1. NextEnvelope(a) \in Envelope
    BY <1>t, <1>r, <1>12, SignedType DEF SignEnvelope
  <2>2. RoundTypeOK'
    BY <1>t, <1>12, <2>1 DEF SignEnvelope, RoundTypeOK
  <2>3. ChainTypeOK'
    BY <1>t, <1>12, <2>1 DEF SignEnvelope, ChainTypeOK
  <2>4. budget' \in [FaultKinds -> Nat]
    BY <1>t, <1>12, SpendType DEF SignEnvelope, TypeOK
  <2> QED
    BY <1>t, <1>12, <2>2, <2>3, <2>4, GotoType DEF SignEnvelope, TypeOK
<1>13. ASSUME NEW a \in Agents, Finish(a) PROVE TypeOK'
  <2>1. cur[a] \in Items /\ env[a] \in Envelope
    BY <1>r, <1>13 DEF Finish, RoundInv, RoundOK, WorkLabels
  <2>2. BoardTypeOK'
    BY <1>t, <1>13, <2>1, CompleteType DEF Finish
  <2> QED
    BY <1>t, <1>13, <2>2, NextRoundType DEF Finish, TypeOK
<1>14. ASSUME NEW a \in Agents, Release(a) PROVE TypeOK'
  <2>1. cur[a] \in Items
    BY <1>r, <1>14 DEF Release, RoundInv, RoundOK, WorkLabels
  <2>2. BoardTypeOK'
    BY <1>t, <1>14, <2>1, ClearType DEF Release, release_claim
  <2> QED
    BY <1>t, <1>14, <2>1, <2>2, NextRoundType DEF Release, TypeOK
<1>15. ASSUME NEW a \in Agents, StorageFault(a) PROVE TypeOK'
  <2>1. budget' \in [FaultKinds -> Nat]
    BY <1>t, <1>15, SpendType DEF StorageFault, TypeOK
  <2>2. BoardTypeOK' /\ ChainTypeOK'
    BY <1>t, <1>15 DEF StorageFault
  <2>3. pc' \in [Agents -> Labels] /\ RoundTypeOK'
    <3>1. CASE NextRound(a)
      BY <1>t, <3>1, NextRoundType
    <3>2. CASE /\ Goto(a, "release")
               /\ todo' = [todo EXCEPT ![a] = <<>>]
               /\ UNCHANGED <<cur, inputs, made, env>>
      BY <1>t, <3>2, GotoType DEF RoundTypeOK
    <3> QED
      BY <1>15, <3>1, <3>2 DEF StorageFault
  <2>4. seen' \in [Agents -> SUBSET (Items \X Agents)]
    BY <1>t, <1>15 DEF StorageFault, TypeOK
  <2>5. failed' \in [Agents -> SUBSET Items]
    BY <1>t, <1>r, <1>15 DEF StorageFault, TypeOK, RoundInv, RoundOK, WorkLabels
  <2> QED
    BY <2>1, <2>2, <2>3, <2>4, <2>5 DEF TypeOK
<1>16. ASSUME NEW a \in Agents, Crash(a) PROVE TypeOK'
  <2>1. budget' \in [FaultKinds -> Nat]
    BY <1>t, <1>16, SpendType DEF Crash, TypeOK
  <2>2. RoundTypeOK'
    BY <1>t, <1>16 DEF Crash, RoundTypeOK
  <2>3. ChainTypeOK'
    BY <1>t, <1>16 DEF Crash, ChainTypeOK
  <2> QED
    BY <1>t, <1>16, <2>1, <2>2, <2>3 DEF Crash, TypeOK
<1>17. ASSUME NEW a \in Agents, Restart(a) PROVE TypeOK'
  BY <1>t, <1>17, SpendType, GotoType DEF Restart, TypeOK
<1>18. ASSUME NEW i \in Items, PostRoot(i) PROVE TypeOK'
  <2>1. BoardTypeOK'
    BY <1>t, <1>18, PostType, BoardAssumption DEF PostRoot, Kinds
  <2> QED
    BY <1>t, <1>18, <2>1 DEF PostRoot, runnerVars, TypeOK
<1>19. ASSUME NEW i \in Items, Expire(i) PROVE TypeOK'
  <2>1. BoardTypeOK'
    BY <1>t, <1>19 DEF Expire, ttl_elapses, BoardTypeOK
  <2> QED
    BY <1>t, <1>19, <2>1, SpendType DEF Expire, TypeOK
<1>20. ASSUME Tick PROVE TypeOK'
  <2>1. BoardTypeOK'
    BY <1>t, <1>20, AgedType DEF Tick, BoardTypeOK
  <2>2. budget' \in [FaultKinds -> Nat]
    BY <1>t, <1>20, SpendType DEF Tick, TypeOK
  <2> QED
    BY <1>t, <1>20, <2>1, <2>2 DEF Tick, TypeOK
<1>21. ASSUME UNCHANGED vars PROVE TypeOK'
  BY <1>t, <1>21 DEF TypeOK, vars, runnerVars
<1> QED
  BY <1>1, <1>2, <1>3, <1>4, <1>5, <1>6, <1>7, <1>8, <1>9, <1>10, <1>11,
     <1>12, <1>13, <1>14, <1>15, <1>16, <1>17, <1>18, <1>19, <1>20, <1>21
     DEF Next, Loop

----------------------------------------------------------------------------
(* The locals of the round, one step per action.  A runner's step touches    *)
(* its own locals only.                                                     *)
LEMMA NextRoundInv == IInv /\ [Next]_vars => RoundInv'
<1> SUFFICES ASSUME IInv, [Next]_vars, NEW b \in Agents PROVE RoundOK(b)'
  BY DEF RoundInv
<1>t. /\ pc \in [Agents -> Labels] /\ seen \in [Agents -> SUBSET (Items \X Agents)]
      /\ cur \in [Agents -> Items \cup {NoItem}]
      /\ todo \in [Agents -> Seq(Kinds)]
      /\ env \in [Agents -> Envelope \cup {NoEnvelope}]
  BY DEF IInv, TypeOK, RoundTypeOK
<1>r. RoundOK(b)
  BY DEF IInv, RoundInv
<1>b. posted \subseteq Items
  BY DEF IInv, TypeOK, BoardTypeOK
<1> USE DEF RoundOK, WorkLabels, Goto, NextRound, roundVars
<1>1. ASSUME NEW a \in Agents, ReapSelect(a) PROVE RoundOK(b)'
  BY <1>t, <1>r, <1>b, <1>1 DEF ReapSelect
<1>2. ASSUME NEW a \in Agents, ReapRow(a) PROVE RoundOK(b)'
  BY <1>t, <1>r, <1>b, <1>2 DEF ReapRow
<1>3. ASSUME NEW a \in Agents, Fetch(a) PROVE RoundOK(b)'
  BY <1>t, <1>r, <1>b, <1>3 DEF Fetch, get_unclaimed
<1>4. ASSUME NEW a \in Agents, NothingToDo(a) PROVE RoundOK(b)'
  BY <1>t, <1>r, <1>b, <1>4 DEF NothingToDo
<1>5. ASSUME NEW a \in Agents, Claim(a) PROVE RoundOK(b)'
  BY <1>t, <1>r, <1>b, <1>5 DEF Claim
<1>6. ASSUME NEW a \in Agents, LoseRace(a) PROVE RoundOK(b)'
  BY <1>t, <1>r, <1>b, <1>6 DEF LoseRace
<1>7. ASSUME NEW a \in Agents, GatherInputs(a) PROVE RoundOK(b)'
  BY <1>t, <1>r, <1>b, <1>7 DEF GatherInputs
<1>8. ASSUME NEW a \in Agents, ExecutorReturns(a) PROVE RoundOK(b)'
  BY <1>t, <1>r, <1>b, <1>8 DEF ExecutorReturns
<1>9. ASSUME NEW a \in Agents, ExecutorRefused(a) PROVE RoundOK(b)'
  BY <1>t, <1>r, <1>b, <1>9 DEF ExecutorRefused
<1>10. ASSUME NEW a \in Agents, ExecutorPlans(a) PROVE RoundOK(b)'
  <2>1. \A plan \in Plans[a] : plan # <<>>
    BY RunnerAssumption
  <2> QED
    BY <1>t, <1>r, <1>10, <2>1 DEF ExecutorPlans
<1>11. ASSUME NEW a \in Agents, SpawnSubtask(a) PROVE RoundOK(b)'
  <2>1. ASSUME NEW s \in Seq(Kinds), s # <<>>, Len(s) # 1 PROVE Tail(s) # <<>>
    <3>1. Len(s) \in Nat \ {0} /\ Len(Tail(s)) = Len(s) - 1
      BY <2>1, EmptySeq, HeadTailProperties, Zenon
    <3>2. Len(Tail(s)) # 0
      BY <2>1, <3>1
    <3>3. Len(<<>>) = 0
      BY EmptySeq, Zenon
    <3> QED
      BY <3>2, <3>3, Zenon
  <2> QED
    BY <1>t, <1>r, <1>11, <2>1 DEF SpawnSubtask
<1>12. ASSUME NEW a \in Agents, SignEnvelope(a) PROVE RoundOK(b)'
  <2>1. NextEnvelope(a) \in Envelope
    BY <1>12, SignedType DEF IInv, TypeOK, SignEnvelope
  <2>2. SignedFor(a, cur[a], NextEnvelope(a))
    BY DEF NextEnvelope, SignedFor
  <2> QED
    BY <1>t, <1>r, <1>12, <2>1, <2>2 DEF SignEnvelope
<1>13. ASSUME NEW a \in Agents, Finish(a) PROVE RoundOK(b)'
  BY <1>t, <1>r, <1>b, <1>13 DEF Finish
<1>14. ASSUME NEW a \in Agents, Release(a) PROVE RoundOK(b)'
  BY <1>t, <1>r, <1>b, <1>14 DEF Release
<1>15. ASSUME NEW a \in Agents, StorageFault(a) PROVE RoundOK(b)'
  BY <1>t, <1>r, <1>b, <1>15 DEF StorageFault
<1>16. ASSUME NEW a \in Agents, Crash(a) PROVE RoundOK(b)'
  BY <1>t, <1>r, <1>b, <1>16 DEF Crash
<1>17. ASSUME NEW a \in Agents, Restart(a) PROVE RoundOK(b)'
  BY <1>t, <1>r, <1>b, <1>17 DEF Restart
<1>18. ASSUME NEW i \in Items, PostRoot(i) PROVE RoundOK(b)'
  BY <1>r, <1>18 DEF PostRoot, runnerVars
<1>19. ASSUME NEW i \in Items, Expire(i) PROVE RoundOK(b)'
  BY <1>r, <1>19 DEF Expire
<1>20. ASSUME Tick PROVE RoundOK(b)'
  BY <1>r, <1>20 DEF Tick
<1>21. ASSUME UNCHANGED vars PROVE RoundOK(b)'
  BY <1>r, <1>21 DEF vars, runnerVars
<1> QED
  BY <1>1, <1>2, <1>3, <1>4, <1>5, <1>6, <1>7, <1>8, <1>9, <1>10, <1>11, <1>12, <1>13, <1>14, <1>15, <1>16, <1>17, <1>18, <1>19, <1>20, <1>21
     DEF Next, Loop

----------------------------------------------------------------------------
(* Refinement.  The three ways a row's owner or outcome can change.         *)

LEMMA ClaimTakes ==
    ASSUME IInv, NEW a \in Agents, Claim(a)
    PROVE  WB!Next
<1>1. cur[a] \in Items /\ claimed_by[cur[a]] = NoAgent
  BY DEF IInv, RoundInv, RoundOK, Claim, Claimable
<1>2. ~Completed(cur[a])
  BY <1>1, CompletedIsClaimed DEF IInv
<1>3. WB!Take(cur[a], a)
  BY <1>1, <1>2 DEF WB!Take, WB!Open, Completed, Claim, try_claim
<1> QED
  BY <1>1, <1>3 DEF WB!Next

LEMMA ClearLoses ==
    ASSUME IInv, NEW i \in Items, claimed_by[i] # NoAgent, ~Completed(i),
           ClearClaim(i)
    PROVE  WB!Next
<1>1. WB!Lose(i)
  BY DEF WB!Lose, WB!Open, Completed, ClearClaim
<1> QED
  BY <1>1 DEF WB!Next

(* The owner check of complete_work_item, with the fact that a holder works *)
(* on an open item, makes a completion a delivery.                          *)
LEMMA FinishDelivers ==
    ASSUME IInv, NEW a \in Agents, Finish(a), claimed_by[cur[a]] = a
    PROVE  WB!Next
<1> DEFINE i == cur[a]
<1>1. i \in Items /\ env[a] \in Envelope /\ SignedFor(a, i, env[a])
  BY DEF IInv, RoundInv, RoundOK, Finish, WorkLabels
<1>2. ~Completed(i)
  BY <1>1 DEF IInv, HolderWorksOnOpenItem, Working, WorkLabels, Finish
<1>3. a # NoAgent
  BY BoardAssumption
<1>4. result' = [result EXCEPT ![i] = env[a]] /\ UNCHANGED claimed_by
  BY DEF Finish, complete_work_item, CompleteGuard
<1>5. result'[i] = env[a]
  BY <1>1, <1>4 DEF IInv, TypeOK, BoardTypeOK
<1>6. WB!Deliver(i)
  BY <1>1, <1>2, <1>3, <1>4, <1>5 DEF WB!Deliver, WB!Open, Completed
<1> QED
  BY <1>1, <1>6 DEF WB!Next

LEMMA StepRefines ==
    IInv /\ [Next]_vars => [WB!Next]_<<claimed_by, result>>
<1> SUFFICES ASSUME IInv, [Next]_vars, ~UNCHANGED <<claimed_by, result>>
             PROVE  WB!Next
  OBVIOUS
<1>1. ASSUME NEW a \in Agents, ReapRow(a) PROVE WB!Next
  <2>1. PICK r \in seen[a] : reclaim(r[1], r[2])
    BY <1>1 DEF ReapRow
  <2>2. r[1] \in Items /\ r[2] \in Agents /\ r[2] # NoAgent
    BY <2>1, BoardAssumption DEF IInv, TypeOK
  <2>3. ReclaimGuard(r[1], r[2]) /\ ClearClaim(r[1])
    BY <2>1 DEF reclaim, boardVars
  <2> QED
    BY <2>2, <2>3, ClearLoses DEF ReclaimGuard
<1>2. ASSUME NEW a \in Agents, Claim(a) PROVE WB!Next
  BY <1>2, ClaimTakes
<1>3. ASSUME NEW a \in Agents, Finish(a) PROVE WB!Next
  <2>1. claimed_by[cur[a]] = a
    BY <1>3 DEF Finish, complete_work_item, CompleteGuard, boardVars
  <2> QED
    BY <1>3, <2>1, FinishDelivers
<1>4. ASSUME NEW a \in Agents, Release(a) PROVE WB!Next
  <2>1. cur[a] \in Items
    BY <1>4 DEF IInv, RoundInv, RoundOK, Release, WorkLabels
  <2>2. ReleaseGuard(cur[a]) /\ ClearClaim(cur[a])
    BY <1>4 DEF Release, release_claim, boardVars
  <2> QED
    BY <2>1, <2>2, ClearLoses DEF ReleaseGuard
<1>5. ASSUME NEW a \in Agents,
             \/ ReapSelect(a) \/ Fetch(a) \/ NothingToDo(a) \/ LoseRace(a)
             \/ GatherInputs(a) \/ ExecutorReturns(a) \/ ExecutorRefused(a)
             \/ ExecutorPlans(a) \/ SpawnSubtask(a) \/ SignEnvelope(a)
             \/ StorageFault(a) \/ Crash(a) \/ Restart(a)
      PROVE FALSE
  BY <1>5 DEF ReapSelect, Fetch, NothingToDo, LoseRace, GatherInputs,
     ExecutorReturns, ExecutorRefused, ExecutorPlans, SpawnSubtask,
     post_work_item, SignEnvelope, StorageFault, Crash, Restart, boardVars
<1>6. ASSUME NEW i \in Items, PostRoot(i) \/ Expire(i) PROVE FALSE
  BY <1>6 DEF PostRoot, Expire, post_work_item, ttl_elapses
<1>7. ASSUME Tick \/ UNCHANGED vars PROVE FALSE
  BY <1>7 DEF Tick, vars, boardVars
<1> QED
  BY <1>1, <1>2, <1>3, <1>4, <1>5, <1>6, <1>7 DEF Next, Loop

----------------------------------------------------------------------------
(* A step of WorkBoard keeps every completion with its holder.              *)
LEMMA NextCompletionByHolder == IInv /\ [Next]_vars => CompletionByHolder'
<1> SUFFICES ASSUME IInv, [Next]_vars, NEW i \in Items, Completed(i)'
             PROVE  SignedFor(claimed_by'[i], i, result'[i])
  BY DEF CompletionByHolder, SignedFor
<1>t. /\ claimed_by \in [Items -> Agents \cup {NoAgent}]
      /\ result \in [Items -> Envelope \cup {NoEnvelope}]
  BY DEF IInv, TypeOK, BoardTypeOK
<1>h. Completed(i) => SignedFor(claimed_by[i], i, result[i])
  BY DEF IInv, CompletionByHolder
<1>1. CASE UNCHANGED <<claimed_by, result>>
  BY <1>1, <1>h DEF Completed
<1>2. ASSUME NEW j \in Items, NEW o \in Agents, WB!Take(j, o)
      PROVE  SignedFor(claimed_by'[i], i, result'[i])
  BY <1>2, <1>t, <1>h DEF WB!Take, WB!Open, Completed
<1>3. ASSUME NEW j \in Items, WB!Lose(j)
      PROVE  SignedFor(claimed_by'[i], i, result'[i])
  BY <1>3, <1>t, <1>h DEF WB!Lose, WB!Open, Completed
<1>4. ASSUME NEW j \in Items, WB!Deliver(j)
      PROVE  SignedFor(claimed_by'[i], i, result'[i])
  <2>1. CASE i = j
    BY <1>4, <2>1 DEF WB!Deliver
  <2>2. CASE i # j
    BY <1>4, <2>2, <1>t, <1>h DEF WB!Deliver, Completed
  <2> QED
    BY <2>1, <2>2
<1> QED
  BY <1>1, <1>2, <1>3, <1>4, StepRefines DEF WB!Next

(* A holder's item stays open while it works on it: a claim is only taken   *)
(* on an open row, and only the holder itself completes it.                 *)
LEMMA NextHolderWorksOnOpenItem ==
    IInv /\ [Next]_vars => HolderWorksOnOpenItem'
<1> SUFFICES ASSUME IInv, [Next]_vars, NEW b \in Agents, NEW i \in Items,
                    Working(b, i)', claimed_by'[i] = b
             PROVE  ~Completed(i)'
  BY DEF HolderWorksOnOpenItem, Working
<1>t. /\ pc \in [Agents -> Labels]
      /\ cur \in [Agents -> Items \cup {NoItem}]
      /\ claimed_by \in [Items -> Agents \cup {NoAgent}]
      /\ result \in [Items -> Envelope \cup {NoEnvelope}]
  BY DEF IInv, TypeOK, BoardTypeOK, RoundTypeOK
<1>h. Working(b, i) /\ claimed_by[i] = b => ~Completed(i)
  BY DEF IInv, HolderWorksOnOpenItem
<1>u. b # NoAgent
  BY BoardAssumption
<1> USE DEF Working, WorkLabels, Goto, NextRound, roundVars, boardVars, Completed
<1>1. ASSUME NEW a \in Agents, ReapRow(a) PROVE ~Completed(i)'
  <2>1. PICK r \in seen[a] : reclaim(r[1], r[2])
    BY <1>1 DEF ReapRow
  <2>2. r[1] \in Items
    BY <2>1 DEF IInv, TypeOK
  <2>3. UNCHANGED result /\ claimed_by[i] = b
    BY <1>t, <1>u, <2>1, <2>2 DEF reclaim, ClearClaim
  <2> QED
    BY <1>1, <1>h, <2>3 DEF ReapRow
<1>2. ASSUME NEW a \in Agents, Claim(a) PROVE ~Completed(i)'
  <2>1. cur[a] \in Items /\ claimed_by[cur[a]] = NoAgent
    BY <1>2 DEF IInv, RoundInv, RoundOK, Claim, Claimable
  <2>2. ~Completed(cur[a])
    BY <2>1, CompletedIsClaimed DEF IInv
  <2> QED
    BY <1>2, <1>t, <1>h, <2>1, <2>2 DEF Claim, try_claim
<1>3. ASSUME NEW a \in Agents, Finish(a) PROVE ~Completed(i)'
  <2>1. a # b
    BY <1>3, <1>t DEF Finish
  <2> QED
    BY <1>3, <1>t, <1>h, <2>1
       DEF Finish, complete_work_item, CompleteGuard
<1>4. ASSUME NEW a \in Agents, Release(a) PROVE ~Completed(i)'
  <2>1. a # b /\ cur[a] \in Items
    BY <1>4, <1>t DEF Release, IInv, RoundInv, RoundOK
  <2>2. UNCHANGED result /\ claimed_by[i] = b
    BY <1>4, <1>t, <1>u, <2>1 DEF Release, release_claim, ClearClaim
  <2> QED
    BY <1>4, <1>h, <1>t, <2>1, <2>2 DEF Release
<1>5. ASSUME NEW a \in Agents, ReapSelect(a) PROVE ~Completed(i)'
  BY <1>5, <1>t, <1>h DEF ReapSelect
<1>6. ASSUME NEW a \in Agents, Fetch(a) PROVE ~Completed(i)'
  BY <1>6, <1>t, <1>h DEF Fetch
<1>7. ASSUME NEW a \in Agents, NothingToDo(a) PROVE ~Completed(i)'
  BY <1>7, <1>t, <1>h DEF NothingToDo
<1>8. ASSUME NEW a \in Agents, LoseRace(a) PROVE ~Completed(i)'
  BY <1>8, <1>t, <1>h DEF LoseRace
<1>9. ASSUME NEW a \in Agents, GatherInputs(a) PROVE ~Completed(i)'
  BY <1>9, <1>t, <1>h DEF GatherInputs
<1>10. ASSUME NEW a \in Agents, ExecutorReturns(a) PROVE ~Completed(i)'
  BY <1>10, <1>t, <1>h DEF ExecutorReturns
<1>11. ASSUME NEW a \in Agents, ExecutorRefused(a) PROVE ~Completed(i)'
  BY <1>11, <1>t, <1>h DEF ExecutorRefused
<1>12. ASSUME NEW a \in Agents, ExecutorPlans(a) PROVE ~Completed(i)'
  BY <1>12, <1>t, <1>h DEF ExecutorPlans
<1>13. ASSUME NEW a \in Agents, SpawnSubtask(a) PROVE ~Completed(i)'
  BY <1>13, <1>t, <1>h DEF SpawnSubtask, post_work_item
<1>14. ASSUME NEW a \in Agents, SignEnvelope(a) PROVE ~Completed(i)'
  BY <1>14, <1>t, <1>h DEF SignEnvelope
<1>15. ASSUME NEW a \in Agents, StorageFault(a) PROVE ~Completed(i)'
  BY <1>15, <1>t, <1>h DEF StorageFault
<1>16. ASSUME NEW a \in Agents, Crash(a) PROVE ~Completed(i)'
  BY <1>16, <1>t, <1>h DEF Crash
<1>17. ASSUME NEW a \in Agents, Restart(a) PROVE ~Completed(i)'
  BY <1>17, <1>t, <1>h DEF Restart
<1>18. ASSUME NEW j \in Items, PostRoot(j) \/ Expire(j) PROVE ~Completed(i)'
  BY <1>18, <1>h DEF PostRoot, Expire, post_work_item, ttl_elapses, runnerVars
<1>19. ASSUME Tick \/ UNCHANGED vars PROVE ~Completed(i)'
  BY <1>19, <1>h DEF Tick, vars, runnerVars
<1> QED
  BY <1>1, <1>2, <1>3, <1>4, <1>5, <1>6, <1>7, <1>8, <1>9, <1>10, <1>11, <1>12, <1>13, <1>14, <1>15, <1>16, <1>17, <1>18, <1>19 DEF Next, Loop

----------------------------------------------------------------------------
(* The theorems.                                                            *)

(* The inductive invariant holds throughout.                                *)
THEOREM Inductive == Spec => []IInv
<1>1. IInv /\ [Next]_vars => IInv'
  BY NextTypeOK, NextRoundInv, NextCompletionByHolder,
     NextHolderWorksOnOpenItem DEF IInv
<1> QED
  BY InitIInv, <1>1, PTL DEF Spec

(* Rows, runner locals, envelope chains and fault budgets keep their types,  *)
(* and no runner stands at a step without what the step needs: past its     *)
(* fetch it has an item, while it spawns it has a child left to post, and   *)
(* when it is about to complete it has an envelope it signed for that very  *)
(* item (gyza/blackboard.py, gyza/runner.py).                               *)
THEOREM TypeCorrect == Spec => [](TypeOK /\ RoundInv)
BY Inductive, PTL DEF IInv

(* A completed row carries the envelope its holder signed for it: the owner *)
(* check of complete_work_item suffices, whatever leases, crashes, storage  *)
(* errors and foreign releases do.                                          *)
THEOREM CompletionStaysWithHolder == Spec => []CompletionByHolder
BY Inductive, PTL DEF IInv

(* No completion overwrites another: who still holds the claim on its item  *)
(* finds the row open.                                                      *)
THEOREM HoldersItemIsOpen == Spec => []HolderWorksOnOpenItem
BY Inductive, PTL DEF IInv

(* The runners and the board implement WorkBoard.                           *)
THEOREM Refinement == Spec => ImplementsWorkBoard
<1>1. Init => WB!Init
  BY DEF Init, BoardInit, WB!Init
<1> QED
  BY <1>1, Inductive, StepRefines, PTL DEF Spec, ImplementsWorkBoard, WB!Spec

----------------------------------------------------------------------------
(* Claims and leases while no runner is restarted, no lease ends under its  *)
(* holder and no database call fails.  Runners may crash: a holder that is  *)
(* down stays down, so the UPDATE of a reaper, which looks at the holder    *)
(* and not at the age of the claim again, never meets a new claim of it.    *)
Calm == \A f \in {"restart", "overrun", "storage"} : budget[f] = Faults[f]

HoldOK(a, i) ==
    /\ Working(a, i) => claimed_by[i] = a /\ claim_age[i] <= Lease
    /\ claimed_by[i] = a /\ ~Completed(i) => Working(a, i) \/ pc[a] = "down"

SeenOK(a, i, b) ==
    <<i, b>> \in seen[a] => /\ pc[b] = "down"
                            /\ claimed_by[i] = b => claim_age[i] > Lease

HoldInv ==
    /\ \A a \in Agents, i \in Items : HoldOK(a, i)
    /\ \A a, b \in Agents, i \in Items : SeenOK(a, i, b)

WithinBudget == \A f \in FaultKinds : budget[f] <= Faults[f]

CInv == IInv /\ WithinBudget /\ (Calm => HoldInv)

(* Faults are only spent.                                                   *)
LEMMA BudgetShrinks ==
    ASSUME TypeOK, WithinBudget, NEW f \in FaultKinds, Spend(f)
    PROVE  WithinBudget' /\ (Calm' => Calm /\ f \notin {"restart", "overrun", "storage"})
<1>1. /\ budget \in [FaultKinds -> Nat] /\ budget[f] \in Nat /\ budget[f] > 0
      /\ budget' = [budget EXCEPT ![f] = budget[f] - 1]
    BY DEF TypeOK, Spend
<1>0. \A g \in FaultKinds : Faults[g] \in Nat /\ budget[g] \in Nat /\ budget[g] <= Faults[g]
    BY <1>1, RunnerAssumption DEF WithinBudget
<1>2. budget'[f] = budget[f] - 1 /\ budget'[f] < Faults[f]
    <2>1. budget'[f] = budget[f] - 1
        BY <1>1
    <2>2. Faults[f] \in Nat /\ budget[f] \in Nat /\ budget[f] <= Faults[f]
        BY <1>0
    <2> QED
        BY <2>1, <2>2
<1>3. \A g \in FaultKinds : g # f => budget'[g] = budget[g]
    BY <1>1
<1>4. WithinBudget'
    <2> SUFFICES ASSUME NEW g \in FaultKinds PROVE budget'[g] <= Faults[g]
        BY DEF WithinBudget
    <2>1. CASE g = f
        BY <1>0, <1>2, <2>1
    <2>2. CASE g # f
        BY <1>0, <1>3, <2>2
    <2> QED
        BY <2>1, <2>2
<1>5. f \in {"restart", "overrun", "storage"} => ~Calm'
    BY <1>1, <1>2, RunnerAssumption DEF Calm
<1>6. f \notin {"restart", "overrun", "storage"} => (Calm' => Calm)
    BY <1>3 DEF Calm, FaultKinds
<1> QED
    BY <1>4, <1>5, <1>6

(* A step that leaves the claims alone, in which a runner gives up a claim  *)
(* only by going down.                                                      *)
LEMMA HoldQuiet ==
    ASSUME HoldInv, UNCHANGED <<claimed_by, claim_age, result>>,
           \A b \in Agents, i \in Items :
               /\ Working(b, i)' => Working(b, i)
               /\ Working(b, i) => Working(b, i)' \/ pc'[b] = "down",
           \A b \in Agents : pc[b] = "down" => pc'[b] = "down",
           \A b \in Agents : seen'[b] \subseteq seen[b]
    PROVE  HoldInv'
<1>1. ASSUME NEW b \in Agents, NEW i \in Items PROVE HoldOK(b, i)'
    <2>1. HoldOK(b, i)
        BY DEF HoldInv
    <2> QED
        BY <2>1 DEF HoldOK, Completed
<1>2. ASSUME NEW b \in Agents, NEW c \in Agents, NEW i \in Items PROVE SeenOK(b, i, c)'
    <2>1. SeenOK(b, i, c)
        BY DEF HoldInv
    <2> QED
        BY <2>1 DEF SeenOK
<1> QED
    BY <1>1, <1>2 DEF HoldInv

(* The SELECT of a reaper sees only the dead.                               *)
LEMMA HoldSelect ==
    ASSUME IInv, HoldInv, NEW a \in Agents, ReapSelect(a)
    PROVE  HoldInv'
<1>1. /\ pc \in [Agents -> Labels] /\ seen \in [Agents -> SUBSET (Items \X Agents)]
      /\ pc[a] = "poll" /\ pc' = [pc EXCEPT ![a] = "reap"]
      /\ seen' = [seen EXCEPT ![a] = expired_claims]
      /\ UNCHANGED <<claimed_by, claim_age, result, cur>>
      /\ claim_age \in [Items -> 0 .. Lease + 1]
    BY DEF IInv, TypeOK, BoardTypeOK, ReapSelect, Goto, boardVars, roundVars
<1>2. ASSUME NEW b \in Agents, NEW i \in Items PROVE HoldOK(b, i)'
    <2>1. HoldOK(b, i)
        BY DEF HoldInv
    <2> QED
        BY <1>1, <2>1 DEF HoldOK, Completed, Working, WorkLabels
<1>3. ASSUME NEW b \in Agents, NEW c \in Agents, NEW i \in Items, <<i, c>> \in seen'[b]
      PROVE  pc'[c] = "down" /\ (claimed_by'[i] = c => claim_age'[i] > Lease)
    <2>1. SeenOK(b, i, c) /\ HoldOK(c, i)
        BY DEF HoldInv
    <2>2. CASE b # a
        BY <1>1, <1>3, <2>1, <2>2 DEF SeenOK
    <2>3. CASE b = a
        <3>1. claimed_by[i] = c /\ ~Completed(i) /\ claim_age[i] > Lease
            BY <1>1, <1>3, <2>3 DEF expired_claims
        <3>2. claim_age[i] \in Int /\ Lease \in Int
            BY <1>1, BoardAssumption
        <3>3. pc[c] = "down"
            BY <2>1, <3>1, <3>2 DEF HoldOK
        <3> QED
            BY <1>1, <3>1, <3>3
    <2> QED
        BY <2>2, <2>3
<1> QED
    BY <1>2, <1>3 DEF HoldInv, SeenOK

LEMMA HoldReap ==
    ASSUME IInv, HoldInv, NEW a \in Agents, ReapRow(a)
    PROVE  HoldInv'
<1>1. PICK r \in seen[a] : reclaim(r[1], r[2]) /\ seen' = [seen EXCEPT ![a] = @ \ {r}]
    BY DEF ReapRow
<1>2. /\ r \in Items \X Agents /\ r = <<r[1], r[2]>> /\ r[1] \in Items /\ r[2] \in Agents
      /\ seen \in [Agents -> SUBSET (Items \X Agents)]
      /\ claimed_by \in [Items -> Agents \cup {NoAgent}]
      /\ claim_age \in [Items -> 0 .. Lease + 1]
      /\ pc' = pc /\ cur' = cur
      /\ \A b \in Agents : seen'[b] \subseteq seen[b]
    BY <1>1 DEF IInv, TypeOK, BoardTypeOK, ReapRow, roundVars
<1>3. CASE ~ReclaimGuard(r[1], r[2])
    BY <1>1, <1>2, <1>3, HoldQuiet DEF reclaim, boardVars, Working
<1>4. CASE ReclaimGuard(r[1], r[2])
    <2>1. /\ claimed_by' = [claimed_by EXCEPT ![r[1]] = NoAgent]
          /\ claim_age' = [claim_age EXCEPT ![r[1]] = 0] /\ result' = result
          /\ claimed_by[r[1]] = r[2] /\ pc[r[2]] = "down"
        <3>1. SeenOK(a, r[1], r[2])
            BY <1>2 DEF HoldInv
        <3> QED
            BY <1>1, <1>2, <1>4, <3>1 DEF reclaim, ClearClaim, ReclaimGuard, SeenOK
    <2>2. ASSUME NEW b \in Agents, NEW i \in Items PROVE HoldOK(b, i)'
        <3>1. HoldOK(b, i) /\ b # NoAgent
            BY BoardAssumption DEF HoldInv
        <3>2. CASE i # r[1]
            BY <1>2, <2>1, <3>1, <3>2 DEF HoldOK, Completed, Working
        <3>3. CASE i = r[1]
            <4>1. ~Working(b, i)
                BY <1>2, <2>1, <3>1, <3>3 DEF HoldOK, Working, WorkLabels
            <4> QED
                BY <1>2, <2>1, <3>1, <3>3, <4>1 DEF HoldOK, Working
        <3> QED
            BY <3>2, <3>3
    <2>3. ASSUME NEW b \in Agents, NEW c \in Agents, NEW i \in Items PROVE SeenOK(b, i, c)'
        <3>1. SeenOK(b, i, c) /\ c # NoAgent
            BY BoardAssumption DEF HoldInv
        <3>2. CASE i # r[1]
            BY <1>2, <2>1, <3>1, <3>2 DEF SeenOK
        <3>3. CASE i = r[1]
            BY <1>2, <2>1, <3>1, <3>3 DEF SeenOK
        <3> QED
            BY <3>2, <3>3
    <2> QED
        BY <2>2, <2>3 DEF HoldInv
<1> QED
    BY <1>3, <1>4

LEMMA HoldClaim ==
    ASSUME IInv, HoldInv, NEW a \in Agents, Claim(a)
    PROVE  HoldInv'
<1> DEFINE j == cur[a]
<1>1. /\ pc[a] = "claim" /\ j \in Items /\ claimed_by[j] = NoAgent
      /\ pc \in [Agents -> Labels] /\ cur \in [Agents -> Items \cup {NoItem}]
      /\ claimed_by \in [Items -> Agents \cup {NoAgent}]
      /\ claim_age \in [Items -> 0 .. Lease + 1]
    BY DEF IInv, TypeOK, BoardTypeOK, RoundTypeOK, RoundInv, RoundOK, Claim, Claimable
<1>2. /\ claimed_by' = [claimed_by EXCEPT ![j] = a] /\ claim_age' = [claim_age EXCEPT ![j] = 0]
      /\ pc' = [pc EXCEPT ![a] = "gather"]
      /\ UNCHANGED <<seen, cur, result>>
    BY DEF Claim, try_claim, Goto, roundVars
<1>3. \A b \in Agents : b # NoAgent
    BY BoardAssumption
<1>4. 0 <= Lease
    BY BoardAssumption
<1>5. ASSUME NEW b \in Agents, NEW i \in Items PROVE HoldOK(b, i)'
    <2>1. HoldOK(b, i)
        BY DEF HoldInv
    <2>2. CASE b = a
        BY <1>1, <1>2, <1>4, <2>1, <2>2 DEF HoldOK, Completed, Working, WorkLabels
    <2>3. CASE b # a /\ i # j
        BY <1>1, <1>2, <2>1, <2>3 DEF HoldOK, Completed, Working
    <2>4. CASE b # a /\ i = j
        BY <1>1, <1>2, <1>3, <2>1, <2>4 DEF HoldOK, Working
    <2> QED
        BY <2>2, <2>3, <2>4
<1>6. ASSUME NEW b \in Agents, NEW c \in Agents, NEW i \in Items PROVE SeenOK(b, i, c)'
    <2>1. SeenOK(b, i, c)
        BY DEF HoldInv
    <2>2. CASE c = a
        BY <1>1, <1>2, <2>1, <2>2 DEF SeenOK
    <2>3. CASE c # a
        BY <1>1, <1>2, <1>3, <2>1, <2>3 DEF SeenOK
    <2> QED
        BY <2>2, <2>3
<1> QED
    BY <1>5, <1>6 DEF HoldInv

LEMMA HoldFinish ==
    ASSUME IInv, HoldInv, NEW a \in Agents, Finish(a)
    PROVE  HoldInv'
<1> DEFINE j == cur[a]
<1>1. /\ pc[a] = "finish" /\ j \in Items /\ Working(a, j)
      /\ env[a] \in Envelope
      /\ pc \in [Agents -> Labels] /\ cur \in [Agents -> Items \cup {NoItem}]
      /\ result \in [Items -> Envelope \cup {NoEnvelope}]
    BY DEF IInv, TypeOK, BoardTypeOK, RoundTypeOK, RoundInv, RoundOK, Finish, Working, WorkLabels
<1>2. claimed_by[j] = a
    BY <1>1 DEF HoldInv, HoldOK
<1>3. /\ result' = [result EXCEPT ![j] = env[a]] /\ pc' = [pc EXCEPT ![a] = "poll"]
      /\ cur' = [cur EXCEPT ![a] = NoItem]
      /\ UNCHANGED <<seen, claimed_by, claim_age>>
    BY <1>2 DEF Finish, complete_work_item, CompleteGuard, NextRound, Goto
<1>4. env[a] # NoEnvelope
    BY <1>1, EnvelopeAssumption
<1>5. ASSUME NEW b \in Agents, NEW i \in Items PROVE HoldOK(b, i)'
    <2>1. HoldOK(b, i)
        BY DEF HoldInv
    <2>2. CASE i = j
        <3>1. Completed(i)'
            BY <1>1, <1>3, <1>4, <2>2 DEF Completed
        <3> QED
            BY <1>1, <1>2, <1>3, <2>1, <2>2, <3>1 DEF HoldOK, Working, WorkLabels
    <2>3. CASE i # j
        BY <1>1, <1>3, <2>1, <2>3 DEF HoldOK, Completed, Working, WorkLabels
    <2> QED
        BY <2>2, <2>3
<1>6. ASSUME NEW b \in Agents, NEW c \in Agents, NEW i \in Items PROVE SeenOK(b, i, c)'
    <2>1. SeenOK(b, i, c)
        BY DEF HoldInv
    <2> QED
        BY <1>1, <1>3, <2>1 DEF SeenOK
<1> QED
    BY <1>5, <1>6 DEF HoldInv

LEMMA HoldRelease ==
    ASSUME IInv, HoldInv, NEW a \in Agents, Release(a)
    PROVE  HoldInv'
<1> DEFINE j == cur[a]
<1>1. /\ pc[a] = "release" /\ j \in Items /\ Working(a, j)
      /\ pc \in [Agents -> Labels] /\ cur \in [Agents -> Items \cup {NoItem}]
      /\ claimed_by \in [Items -> Agents \cup {NoAgent}]
      /\ claim_age \in [Items -> 0 .. Lease + 1]
    BY DEF IInv, TypeOK, BoardTypeOK, RoundTypeOK, RoundInv, RoundOK, Release, Working, WorkLabels
<1>2. claimed_by[j] = a /\ ~Completed(j) /\ a # NoAgent
    BY <1>1, BoardAssumption DEF HoldInv, HoldOK, IInv, HolderWorksOnOpenItem
<1>3. /\ claimed_by' = [claimed_by EXCEPT ![j] = NoAgent]
      /\ claim_age' = [claim_age EXCEPT ![j] = 0]
      /\ pc' = [pc EXCEPT ![a] = "poll"] /\ cur' = [cur EXCEPT ![a] = NoItem]
      /\ UNCHANGED <<seen, result>>
    BY <1>2 DEF Release, release_claim, ReleaseGuard, ClearClaim, NextRound, Goto
<1>4. \A b \in Agents : b # NoAgent
    BY BoardAssumption
<1>5. ASSUME NEW b \in Agents, NEW i \in Items PROVE HoldOK(b, i)'
    <2>1. HoldOK(b, i)
        BY DEF HoldInv
    <2>2. CASE i = j
        BY <1>1, <1>2, <1>3, <1>4, <2>1, <2>2 DEF HoldOK, Working, WorkLabels
    <2>3. CASE i # j
        BY <1>1, <1>3, <2>1, <2>3 DEF HoldOK, Completed, Working, WorkLabels
    <2> QED
        BY <2>2, <2>3
<1>6. ASSUME NEW b \in Agents, NEW c \in Agents, NEW i \in Items PROVE SeenOK(b, i, c)'
    <2>1. SeenOK(b, i, c)
        BY DEF HoldInv
    <2>2. CASE i = j
        BY <1>1, <1>3, <1>4, <2>1, <2>2 DEF SeenOK
    <2>3. CASE i # j
        BY <1>1, <1>3, <2>1, <2>3 DEF SeenOK
    <2> QED
        BY <2>2, <2>3
<1> QED
    BY <1>5, <1>6 DEF HoldInv

LEMMA HoldTick ==
    ASSUME IInv, HoldInv, Tick, ~Overruns
    PROVE  HoldInv'
<1>1. /\ claim_age' = Aged /\ UNCHANGED <<claimed_by, result, pc, seen, cur>>
      /\ claim_age \in [Items -> 0 .. Lease + 1] /\ Lease \in Nat
    BY BoardAssumption DEF Tick, roundVars, IInv, TypeOK, BoardTypeOK
<1>2. \A i \in Items : claim_age[i] \in Nat /\ claim_age'[i] \in Nat
                       /\ claim_age[i] <= claim_age'[i] /\ claim_age'[i] <= claim_age[i] + 1
    BY <1>1 DEF Aged
<1>3. ASSUME NEW b \in Agents, NEW i \in Items PROVE HoldOK(b, i)'
    <2>1. HoldOK(b, i)
        BY DEF HoldInv
    <2>2. ASSUME Working(b, i) PROVE claim_age'[i] <= Lease
        <3>1. claimed_by[i] = b /\ claim_age[i] <= Lease
            BY <2>1, <2>2 DEF HoldOK
        <3>2. claim_age[i] # Lease
            BY <2>2, <3>1 DEF Overruns
        <3> QED
            BY <1>1, <1>2, <3>1, <3>2
    <2> QED
        BY <1>1, <2>1, <2>2 DEF HoldOK, Completed, Working
<1>4. ASSUME NEW b \in Agents, NEW c \in Agents, NEW i \in Items PROVE SeenOK(b, i, c)'
    <2>1. SeenOK(b, i, c)
        BY DEF HoldInv
    <2> QED
        BY <1>1, <1>2, <2>1 DEF SeenOK
<1> QED
    BY <1>3, <1>4 DEF HoldInv

(* The steps of a runner between its calls of the board.                    *)
LEMMA HoldLocal ==
    ASSUME IInv, HoldInv, NEW a \in Agents,
           \/ Fetch(a) \/ NothingToDo(a) \/ LoseRace(a) \/ GatherInputs(a)
           \/ ExecutorReturns(a) \/ ExecutorRefused(a) \/ ExecutorPlans(a)
           \/ SpawnSubtask(a) \/ SignEnvelope(a) \/ Crash(a)
    PROVE  HoldInv'
<1>t. /\ pc \in [Agents -> Labels] /\ cur \in [Agents -> Items \cup {NoItem}]
      /\ seen \in [Agents -> SUBSET (Items \X Agents)]
    BY DEF IInv, TypeOK, RoundTypeOK
<1>1. UNCHANGED <<claimed_by, claim_age, result>>
    BY DEF Fetch, NothingToDo, LoseRace, GatherInputs, ExecutorReturns, ExecutorRefused,
           ExecutorPlans, SpawnSubtask, post_work_item, SignEnvelope, Crash, boardVars
<1>2. /\ \A b \in Agents : b # a => pc'[b] = pc[b] /\ cur'[b] = cur[b]
      /\ \A b \in Agents : seen'[b] \subseteq seen[b]
    BY <1>t DEF Fetch, NothingToDo, LoseRace, GatherInputs, ExecutorReturns, ExecutorRefused,
           ExecutorPlans, SpawnSubtask, SignEnvelope, Crash, roundVars, Goto, NextRound
<1>3. \/ pc[a] \notin WorkLabels \cup {"down"} /\ pc'[a] \notin WorkLabels
      \/ pc[a] \in WorkLabels /\ pc'[a] \in WorkLabels /\ cur'[a] = cur[a]
      \/ pc[a] # "down" /\ pc'[a] = "down"
    <2>1. CASE Fetch(a) \/ NothingToDo(a) \/ LoseRace(a)
        BY <1>t, <2>1 DEF Fetch, NothingToDo, LoseRace, Goto, NextRound, WorkLabels
    <2>2. CASE Crash(a)
        BY <1>t, <2>2 DEF Crash
    <2>3. CASE GatherInputs(a) \/ ExecutorReturns(a) \/ ExecutorRefused(a)
        BY <1>t, <2>3 DEF GatherInputs, ExecutorReturns, ExecutorRefused, Goto, roundVars,
                          WorkLabels
    <2>4. CASE ExecutorPlans(a) \/ SpawnSubtask(a) \/ SignEnvelope(a)
        BY <1>t, <2>4 DEF ExecutorPlans, SpawnSubtask, SignEnvelope, Goto, WorkLabels
    <2> QED
        BY <2>1, <2>2, <2>3, <2>4
<1>4. \A b \in Agents, i \in Items :
          /\ Working(b, i)' => Working(b, i)
          /\ Working(b, i) => Working(b, i)' \/ pc'[b] = "down"
    BY <1>2, <1>3 DEF Working, WorkLabels
<1>5. \A b \in Agents : pc[b] = "down" => pc'[b] = "down"
    BY <1>2, <1>3 DEF WorkLabels
<1> QED
    BY <1>1, <1>2, <1>4, <1>5, HoldQuiet

LEMMA NextHold == CInv /\ [Next]_vars => CInv'
<1> SUFFICES ASSUME CInv, [Next]_vars PROVE CInv'
    OBVIOUS
<1>i. IInv'
    BY NextTypeOK, NextRoundInv, NextCompletionByHolder, NextHolderWorksOnOpenItem
       DEF IInv, CInv
<1>t. TypeOK /\ WithinBudget /\ IInv
    BY DEF CInv, IInv
<1>s. ASSUME budget' = budget, HoldInv => HoldInv' PROVE CInv'
    BY <1>i, <1>s DEF CInv, Calm, WithinBudget
<1>1. ASSUME NEW a \in Agents, Loop(a) PROVE CInv'
    <2>1. CASE budget' = budget
        BY <1>t, <1>s, <1>1, <2>1, HoldSelect, HoldReap, HoldClaim, HoldFinish, HoldRelease,
           HoldLocal DEF Loop
    <2>2. CASE budget' # budget
        <3>1. Spend("storage")
            BY <1>1, <2>2 DEF Loop, ReapSelect, ReapRow, Fetch, NothingToDo, Claim, LoseRace,
               GatherInputs, ExecutorReturns, ExecutorRefused, ExecutorPlans, SpawnSubtask,
               SignEnvelope, Finish, Release
        <3> QED
            BY <1>i, <1>t, <3>1, BudgetShrinks DEF CInv, FaultKinds
    <2> QED
        BY <2>1, <2>2
<1>2. ASSUME NEW a \in Agents, StorageFault(a) \/ Restart(a) PROVE CInv'
    <2>1. Spend("storage") \/ Spend("restart")
        BY <1>2 DEF StorageFault, Restart
    <2> QED
        BY <1>i, <1>t, <2>1, BudgetShrinks DEF CInv, FaultKinds
<1>3. ASSUME NEW a \in Agents, Crash(a) PROVE CInv'
    <2>1. Spend("crash")
        BY <1>3 DEF Crash
    <2>2. WithinBudget' /\ (Calm' => Calm)
        BY <1>t, <2>1, BudgetShrinks DEF FaultKinds
    <2> QED
        BY <1>i, <1>t, <1>3, <2>2, HoldLocal DEF CInv
<1>4. ASSUME NEW i \in Items, PostRoot(i) PROVE CInv'
    <2>1. /\ budget' = budget
          /\ HoldInv => HoldInv'
        BY <1>4, HoldQuiet DEF PostRoot, post_work_item, runnerVars, roundVars, Working
    <2> QED
        BY <1>s, <2>1
<1>5. ASSUME NEW i \in Items, Expire(i) PROVE CInv'
    <2>1. Spend("ttl") /\ (HoldInv => HoldInv')
        BY <1>5, HoldQuiet DEF Expire, ttl_elapses, roundVars, Working
    <2>2. WithinBudget' /\ (Calm' => Calm)
        BY <1>t, <2>1, BudgetShrinks DEF FaultKinds
    <2> QED
        BY <1>i, <2>1, <2>2 DEF CInv
<1>6. ASSUME Tick PROVE CInv'
    <2>1. CASE Overruns
        <3>1. Spend("overrun")
            BY <1>6, <2>1 DEF Tick
        <3> QED
            BY <1>i, <1>t, <3>1, BudgetShrinks DEF CInv, FaultKinds
    <2>2. CASE ~Overruns
        <3>1. budget' = budget
            BY <1>6, <2>2 DEF Tick
        <3> QED
            BY <1>s, <1>t, <1>6, <2>2, <3>1, HoldTick
    <2> QED
        BY <2>1, <2>2
<1>7. ASSUME UNCHANGED vars PROVE CInv'
    <2>1. /\ budget' = budget
          /\ HoldInv => HoldInv'
        BY <1>7, HoldQuiet DEF vars, boardVars, runnerVars, roundVars, Working
    <2> QED
        BY <1>s, <2>1
<1> QED
    BY <1>1, <1>2, <1>3, <1>4, <1>5, <1>6, <1>7 DEF Next

LEMMA InitHold == Init => CInv
<1> SUFFICES ASSUME Init PROVE CInv
    OBVIOUS
<1>1. HoldInv
    BY BoardAssumption DEF Init, BoardInit, HoldInv, HoldOK, SeenOK, Working, WorkLabels
<1>2. WithinBudget
    BY RunnerAssumption DEF Init, WithinBudget
<1> QED
    BY <1>1, <1>2, InitIInv DEF CInv

(* The invariant of claims and leases holds throughout.                     *)
THEOREM HoldInductive == Spec => []CInv
BY InitHold, NextHold, PTL DEF Spec

(* Two runners never work on one item, whatever crashes, as long as none is *)
(* restarted, overruns its lease or meets a failing database call           *)
(* (try_claim, reclaim_expired_claims).                                     *)
THEOREM OneRunnerPerItem == Spec => [](Calm => MutualExclusion)
<1>1. CInv => (Calm => MutualExclusion)
    BY DEF CInv, HoldInv, HoldOK, MutualExclusion
<1> QED
    BY <1>1, HoldInductive, PTL

(* And a claim inside its lease is given up by its holder or not at all:    *)
(* the reaper's UPDATE needs no second look at the age.                     *)
LEMMA LeaseStep ==
    ASSUME CInv, Calm, [Next]_vars, NEW a \in Agents, NEW i \in Items,
           claimed_by[i] = a, claimed_by'[i] # a
    PROVE  claim_age[i] > Lease \/ (pc[a] = "release" /\ cur[a] = i)
<1>t. /\ claimed_by \in [Items -> Agents \cup {NoAgent}] /\ a # NoAgent /\ HoldInv
    BY BoardAssumption DEF CInv, IInv, TypeOK, BoardTypeOK
<1>1. ASSUME NEW b \in Agents, ReapRow(b) PROVE claim_age[i] > Lease
    <2>1. PICK r \in seen[b] : reclaim(r[1], r[2])
        BY <1>1 DEF ReapRow
    <2>2. r = <<r[1], r[2]>> /\ r[1] \in Items /\ r[2] \in Agents
        BY <2>1 DEF CInv, IInv, TypeOK
    <2>3. r[1] = i /\ r[2] = a
        BY <1>t, <2>1, <2>2 DEF reclaim, ReclaimGuard, ClearClaim, boardVars
    <2> QED
        BY <1>t, <2>1, <2>2, <2>3 DEF HoldInv, SeenOK
<1>2. ASSUME NEW b \in Agents, Release(b) PROVE pc[a] = "release" /\ cur[a] = i
    <2>1. /\ pc[b] = "release" /\ cur[b] \in Items /\ Working(b, cur[b])
        BY <1>2 DEF CInv, IInv, RoundInv, RoundOK, Release, Working, WorkLabels
    <2>2. claimed_by[cur[b]] = b
        BY <1>t, <2>1 DEF HoldInv, HoldOK
    <2>3. cur[b] = i
        BY <1>t, <1>2, <2>1 DEF Release, release_claim, ClearClaim, boardVars
    <2> QED
        BY <2>1, <2>2, <2>3
<1>3. ASSUME NEW b \in Agents, Claim(b) PROVE FALSE
    <2>1. cur[b] \in Items /\ claimed_by[cur[b]] = NoAgent
        BY <1>3 DEF CInv, IInv, RoundInv, RoundOK, Claim, Claimable
    <2> QED
        BY <1>t, <1>3, <2>1 DEF Claim, try_claim
<1>4. ASSUME NEW b \in Agents,
             \/ ReapSelect(b) \/ Fetch(b) \/ NothingToDo(b) \/ LoseRace(b)
             \/ GatherInputs(b) \/ ExecutorReturns(b) \/ ExecutorRefused(b)
             \/ ExecutorPlans(b) \/ SpawnSubtask(b) \/ SignEnvelope(b) \/ Finish(b)
             \/ StorageFault(b) \/ Crash(b) \/ Restart(b)
      PROVE FALSE
    BY <1>4 DEF ReapSelect, Fetch, NothingToDo, LoseRace, GatherInputs,
       ExecutorReturns, ExecutorRefused, ExecutorPlans, SpawnSubtask, post_work_item,
       SignEnvelope, Finish, complete_work_item, StorageFault, Crash, Restart, boardVars
<1>5. ASSUME NEW j \in Items, PostRoot(j) \/ Expire(j) PROVE FALSE
    BY <1>5 DEF PostRoot, Expire, post_work_item, ttl_elapses
<1>6. ASSUME Tick \/ UNCHANGED vars PROVE FALSE
    BY <1>6 DEF Tick, vars, boardVars
<1> QED
    BY <1>1, <1>2, <1>3, <1>4, <1>5, <1>6 DEF Next, Loop

(* Without restarts, overruns and failing database calls, whatever crashes, *)
(* a claim inside its lease is given up by its holder or not at all         *)
(* (reclaim_expired_claims, release_claim).                                 *)
THEOREM LeasesAreHonoured ==
    (\A f \in {"restart", "overrun", "storage"} : Faults[f] = 0) => (Spec => LeaseHonoured)
<1> SUFFICES ASSUME \A f \in {"restart", "overrun", "storage"} : Faults[f] = 0
             PROVE  Spec => LeaseHonoured
    OBVIOUS
<1>1. CInv => Calm
    BY RunnerAssumption DEF CInv, IInv, TypeOK, WithinBudget, Calm, FaultKinds
<1>2. CInv /\ [Next]_vars =>
          [\A a \in Agents, i \in Items :
              /\ claimed_by[i] = a
              /\ claimed_by'[i] # a
              => \/ claim_age[i] > Lease
                 \/ pc[a] = "release" /\ cur[a] = i]_vars
    BY <1>1, LeaseStep
<1> QED
    BY <1>2, HoldInductive, PTL DEF Spec, LeaseHonoured

----------------------------------------------------------------------------
(* The combine gate.  It holds with every fault for plans that name their   *)
(* combiner last, as executors.py:69 makes them.  By the time the combiner  *)
(* has a row the list of its siblings is complete and all of them have one, *)
(* so the gate waits for every sibling that will ever be signed with it.    *)
CombinerLast(plan) == \A k \in 1 .. Len(plan) - 1 : plan[k] # "combine"
PlansCombineLast == \A a \in Agents : \A plan \in Plans[a] : CombinerLast(plan)

(* The sets of children that are signed together, or may yet be.            *)
Siblings == {made[a] : a \in Agents} \cup {e.children : e \in log}
Combiner(c, S) == c \in S /\ kind[c] = "combine"

PastGather == {"run", "spawn", "sign", "finish"}

PlanOK(a) ==
    /\ CombinerLast(todo[a])
    /\ pc[a] \notin {"spawn", "sign", "finish", "release"} => made[a] = {}
    /\ pc[a] \in WorkLabels \cup {"claim"} => cur[a] \in posted
    /\ \A x \in made[a] : x \in posted /\ parent_id[x] = cur[a]
    /\ made[a] # {} => cur[a] \in Items
    /\ (\E x \in made[a] : kind[x] = "combine") => todo[a] = <<>>

FamilyOK ==
    /\ \A S \in Siblings : S \subseteq posted
    /\ \A S \in Siblings, c \in Items : Combiner(c, S) =>
           parent_id[c] # NoItem /\ \A x \in S : parent_id[x] = parent_id[c]

GatheredOK ==
    \A S \in Siblings, c \in Items : Combiner(c, S) =>
        /\ \A a \in Agents : pc[a] \in PastGather /\ cur[a] = c => S \ {c} \subseteq inputs[a]
        /\ \A e \in log : e.action = c => S \ {c} \subseteq e.inputs

KInv ==
    /\ IInv
    /\ \A a \in Agents : PlanOK(a)
    /\ \A e \in log : e.action \in posted
    /\ FamilyOK
    /\ GatheredOK

LEMMA InitGate == Init => KInv
<1> SUFFICES ASSUME Init PROVE KInv
    OBVIOUS
<1>1. \A a \in Agents : PlanOK(a)
    <2>1. Len(<<>>) = 0
        OBVIOUS
    <2>2. CombinerLast(<<>>)
        BY <2>1 DEF CombinerLast
    <2> QED
        BY <2>2 DEF Init, PlanOK, WorkLabels
<1>2. \A S \in Siblings : S = {}
    BY DEF Init, Siblings
<1> QED
    BY <1>1, <1>2, InitIInv DEF Init, KInv, FamilyOK, GatheredOK, Combiner

LEMMA GateFromInv == KInv => NoPartialCombine
<1> SUFFICES ASSUME KInv, NEW e \in log, NEW p \in log,
                    e.action \in p.children, kind[e.action] = "combine"
             PROVE  p.children \ {e.action} \subseteq e.inputs
    BY DEF NoPartialCombine
<1>1. p.children \in Siblings /\ Combiner(e.action, p.children)
    BY DEF Siblings, Combiner
<1>2. e.action \in Items
    BY DEF KInv, IInv, TypeOK, ChainTypeOK, Envelope
<1> QED
    BY <1>1, <1>2 DEF KInv, GatheredOK

(* A step that posts nothing and adds no set of children.                   *)
LEMMA GateQuiet ==
    ASSUME KInv, IInv', UNCHANGED <<posted, parent_id, kind>>,
           \A a \in Agents : PlanOK(a)',
           Siblings' \subseteq Siblings \cup {{}},
           \A e \in log' : e \in log \/ /\ e.action \in posted
                                        /\ \E a \in Agents : /\ pc[a] \in PastGather
                                                             /\ cur[a] = e.action
                                                             /\ inputs[a] = e.inputs,
           \A a \in Agents : pc'[a] \in PastGather =>
               pc[a] \in PastGather /\ cur'[a] = cur[a] /\ inputs'[a] = inputs[a]
    PROVE  KInv'
<1>1. FamilyOK'
    <2> SUFFICES ASSUME NEW S \in Siblings', NEW c \in Items, Combiner(c, S)'
                 PROVE  parent_id[c] # NoItem /\ \A x \in S : parent_id[x] = parent_id[c]
        BY DEF FamilyOK, KInv
    <2>1. Combiner(c, S) /\ S \in Siblings
        BY DEF Combiner
    <2> QED
        BY <2>1 DEF KInv, FamilyOK
<1>2. GatheredOK'
    <2> SUFFICES ASSUME NEW S \in Siblings', NEW c \in Items, Combiner(c, S)'
                 PROVE  /\ \A a \in Agents : pc'[a] \in PastGather /\ cur'[a] = c =>
                               S \ {c} \subseteq inputs'[a]
                        /\ \A e \in log' : e.action = c => S \ {c} \subseteq e.inputs
        BY DEF GatheredOK
    <2>1. Combiner(c, S) /\ S \in Siblings
        BY DEF Combiner
    <2>2. /\ \A a \in Agents : pc[a] \in PastGather /\ cur[a] = c => S \ {c} \subseteq inputs[a]
          /\ \A e \in log : e.action = c => S \ {c} \subseteq e.inputs
        BY <2>1 DEF KInv, GatheredOK
    <2>3. ASSUME NEW e \in log', e.action = c PROVE S \ {c} \subseteq e.inputs
        BY <2>2, <2>3
    <2> QED
        BY <2>2, <2>3
<1>3. \A e \in log' : e.action \in posted'
    BY DEF KInv
<1> QED
    BY <1>1, <1>2, <1>3 DEF KInv

(* Plans and the rest of the round concern the runner that takes the step.  *)
LEMMA PlanLocal ==
    ASSUME KInv, NEW a \in Agents, UNCHANGED <<posted, parent_id, kind>>,
           \A b \in Agents : b # a =>
               pc'[b] = pc[b] /\ cur'[b] = cur[b] /\ todo'[b] = todo[b] /\ made'[b] = made[b],
           PlanOK(a)'
    PROVE  \A b \in Agents : PlanOK(b)'
<1> SUFFICES ASSUME NEW b \in Agents, b # a PROVE PlanOK(b)'
    OBVIOUS
<1>1. PlanOK(b)
    BY DEF KInv
<1> QED
    BY <1>1 DEF PlanOK

LEMMA EmptyPlan == CombinerLast(<<>>)
<1>1. Len(<<>>) = 0
    OBVIOUS
<1> QED
    BY <1>1 DEF CombinerLast

(* The end of a round, or of the runner.                                    *)
LEMMA GateEnd ==
    ASSUME KInv, IInv', NEW a \in Agents, UNCHANGED <<posted, parent_id, kind, log>>,
           \A b \in Agents : b # a =>
               /\ pc'[b] = pc[b] /\ cur'[b] = cur[b] /\ todo'[b] = todo[b]
               /\ made'[b] = made[b] /\ inputs'[b] = inputs[b],
           pc'[a] \in {"poll", "down"}, todo'[a] = <<>>, made'[a] = {}
    PROVE  KInv'
<1>1. PlanOK(a)'
    BY EmptyPlan DEF PlanOK, WorkLabels
<1>2. \A b \in Agents : PlanOK(b)'
    BY <1>1, PlanLocal
<1>3. Siblings' \subseteq Siblings \cup {{}}
    BY DEF Siblings
<1>4. \A b \in Agents : pc'[b] \in PastGather =>
          pc[b] \in PastGather /\ cur'[b] = cur[b] /\ inputs'[b] = inputs[b]
    BY DEF PastGather
<1> QED
    BY <1>2, <1>3, <1>4, GateQuiet

(* A step of the round that posts nothing and keeps what was gathered.      *)
LEMMA GateLocal ==
    ASSUME KInv, IInv', NEW a \in Agents, UNCHANGED <<posted, parent_id, kind, log, made>>,
           \A b \in Agents : b # a =>
               /\ pc'[b] = pc[b] /\ cur'[b] = cur[b] /\ todo'[b] = todo[b]
               /\ inputs'[b] = inputs[b],
           PlanOK(a)',
           pc'[a] \in PastGather =>
               pc[a] \in PastGather /\ cur'[a] = cur[a] /\ inputs'[a] = inputs[a]
    PROVE  KInv'
<1>1. \A b \in Agents : PlanOK(b)'
    BY PlanLocal
<1>2. Siblings' \subseteq Siblings \cup {{}}
    BY DEF Siblings
<1> QED
    BY <1>1, <1>2, GateQuiet

LEMMA GateSteps ==
    ASSUME PlansCombineLast, KInv, IInv', NEW a \in Agents,
           \/ ReapSelect(a) \/ ReapRow(a) \/ Fetch(a) \/ NothingToDo(a) \/ Claim(a)
           \/ LoseRace(a) \/ ExecutorReturns(a) \/ ExecutorRefused(a) \/ ExecutorPlans(a)
           \/ Finish(a) \/ Release(a) \/ StorageFault(a) \/ Crash(a) \/ Restart(a)
    PROVE  KInv'
<1>t. /\ pc \in [Agents -> Labels] /\ cur \in [Agents -> Items \cup {NoItem}]
      /\ todo \in [Agents -> Seq(Kinds)] /\ made \in [Agents -> SUBSET Items]
      /\ inputs \in [Agents -> SUBSET Items]
    BY DEF KInv, IInv, TypeOK, RoundTypeOK
<1>p. PlanOK(a)
    BY DEF KInv
<1>u. UNCHANGED <<posted, parent_id, kind, log>>
    BY DEF ReapSelect, ReapRow, Fetch, NothingToDo, Claim, LoseRace, ExecutorReturns,
       ExecutorRefused, ExecutorPlans, Finish, Release, StorageFault, Crash, Restart,
       boardVars, chainVars, reclaim, ClearClaim, try_claim, complete_work_item, release_claim
<1>1. CASE LoseRace(a) \/ Finish(a) \/ Release(a)
    BY <1>t, <1>u, <1>1, GateEnd DEF LoseRace, Finish, Release, NextRound, Goto
<1>2. CASE Crash(a)
    BY <1>t, <1>u, <1>2, GateEnd DEF Crash
<1>3. CASE Restart(a)
    <2>1. PlanOK(a)'
        BY <1>t, <1>u, <1>p, <1>3 DEF Restart, Goto, roundVars, PlanOK, WorkLabels
    <2> QED
        BY <1>t, <1>u, <1>3, <2>1, GateLocal DEF Restart, Goto, roundVars, PastGather
<1>4. CASE ReapSelect(a) \/ NothingToDo(a)
    <2>1. PlanOK(a)'
        BY <1>t, <1>u, <1>p, <1>4 DEF ReapSelect, NothingToDo, Goto, roundVars, PlanOK, WorkLabels
    <2> QED
        BY <1>t, <1>u, <1>4, <2>1, GateLocal
           DEF ReapSelect, NothingToDo, Goto, roundVars, PastGather
<1>5. CASE ReapRow(a)
    <2>1. PlanOK(a)'
        BY <1>u, <1>p, <1>5 DEF ReapRow, roundVars, PlanOK
    <2> QED
        BY <1>u, <1>5, <2>1, GateLocal DEF ReapRow, roundVars
<1>6. CASE Fetch(a)
    <2>1. PICK i \in posted :
              \/ cur' = [cur EXCEPT ![a] = i] /\ Goto(a, "claim")
              \/ Goto(a, "poll") /\ UNCHANGED cur
        BY <1>6 DEF Fetch, get_unclaimed
    <2>2. made[a] = {} /\ todo' = todo /\ made' = made /\ inputs' = inputs
        BY <1>p, <1>6 DEF Fetch, PlanOK
    <2>3. PlanOK(a)'
        BY <1>t, <1>u, <1>p, <2>1, <2>2 DEF Goto, PlanOK, WorkLabels
    <2> QED
        BY <1>t, <1>u, <2>1, <2>2, <2>3, GateLocal DEF Goto, PastGather
<1>7. CASE Claim(a)
    <2>1. PlanOK(a)'
        BY <1>t, <1>u, <1>p, <1>7 DEF Claim, Goto, roundVars, PlanOK, WorkLabels
    <2> QED
        BY <1>t, <1>u, <1>7, <2>1, GateLocal DEF Claim, Goto, roundVars, PastGather
<1>8. CASE ExecutorReturns(a) \/ ExecutorRefused(a)
    <2>1. PlanOK(a)'
        BY <1>t, <1>u, <1>p, <1>8
           DEF ExecutorReturns, ExecutorRefused, Goto, roundVars, PlanOK, WorkLabels
    <2> QED
        BY <1>t, <1>u, <1>8, <2>1, GateLocal
           DEF ExecutorReturns, ExecutorRefused, Goto, roundVars, PastGather
<1>9. CASE ExecutorPlans(a)
    <2>1. PICK plan \in Plans[a] :
              \/ todo' = [todo EXCEPT ![a] = plan] /\ Goto(a, "spawn")
              \/ Goto(a, "release") /\ UNCHANGED todo
        BY <1>9 DEF ExecutorPlans
    <2>2. CombinerLast(plan)
        BY DEF PlansCombineLast
    <2>3. /\ made[a] = {} /\ pc[a] = "run" /\ cur' = cur /\ made' = made /\ inputs' = inputs
          /\ cur[a] \in posted
        BY <1>p, <1>9 DEF ExecutorPlans, PlanOK, WorkLabels
    <2>4. PlanOK(a)'
        BY <1>t, <1>u, <1>p, <2>1, <2>2, <2>3 DEF Goto, PlanOK
    <2> QED
        BY <1>t, <1>u, <2>1, <2>3, <2>4, GateLocal DEF Goto, PastGather
<1>10. CASE StorageFault(a)
    <2>1. CASE NextRound(a)
        BY <1>t, <1>u, <2>1, GateEnd DEF NextRound, Goto
    <2>2. CASE /\ pc[a] \in {"spawn", "sign"}
               /\ Goto(a, "release")
               /\ todo' = [todo EXCEPT ![a] = <<>>]
               /\ UNCHANGED <<cur, inputs, made>>
        <3>1. PlanOK(a)'
            BY <1>t, <1>u, <1>p, <2>2, EmptyPlan DEF Goto, PlanOK, WorkLabels
        <3> QED
            BY <1>t, <1>u, <2>2, <3>1, GateLocal DEF Goto, PastGather
    <2> QED
        BY <1>10, <2>1, <2>2 DEF StorageFault
<1> QED
    BY <1>1, <1>2, <1>3, <1>4, <1>5, <1>6, <1>7, <1>8, <1>9, <1>10

(* What is signed was gathered, and the children it names were posted.      *)
LEMMA GateSign ==
    ASSUME KInv, IInv', NEW a \in Agents, SignEnvelope(a)
    PROVE  KInv'
<1>t. /\ pc \in [Agents -> Labels] /\ PlanOK(a)
    BY DEF KInv, IInv, TypeOK
<1>1. /\ UNCHANGED <<posted, parent_id, kind, cur, inputs, todo, made>>
      /\ pc[a] = "sign" /\ pc' = [pc EXCEPT ![a] = "finish"]
      /\ log' \subseteq log \cup {NextEnvelope(a)}
    BY DEF SignEnvelope, Goto, boardVars
<1>2. /\ NextEnvelope(a).action = cur[a] /\ NextEnvelope(a).inputs = inputs[a]
      /\ NextEnvelope(a).children = made[a]
    BY DEF NextEnvelope
<1>3. PlanOK(a)'
    BY <1>t, <1>1 DEF PlanOK, WorkLabels
<1>4. \A b \in Agents : PlanOK(b)'
    BY <1>t, <1>1, <1>3, PlanLocal
<1>5. Siblings' \subseteq Siblings \cup {{}}
    BY <1>1, <1>2 DEF Siblings
<1>6. cur[a] \in posted
    BY <1>t, <1>1 DEF PlanOK, WorkLabels
<1>7. \A b \in Agents : pc'[b] \in PastGather =>
          pc[b] \in PastGather /\ cur'[b] = cur[b] /\ inputs'[b] = inputs[b]
    BY <1>t, <1>1 DEF PastGather
<1>8. \A e \in log' : e \in log \/ /\ e.action \in posted
                                   /\ \E b \in Agents : /\ pc[b] \in PastGather
                                                        /\ cur[b] = e.action
                                                        /\ inputs[b] = e.inputs
    BY <1>1, <1>2, <1>6 DEF PastGather
<1> QED
    BY <1>1, <1>4, <1>5, <1>7, <1>8, GateQuiet

(* The gate itself: every sibling has a row by now, and has completed.      *)
LEMMA GateGather ==
    ASSUME KInv, IInv', NEW a \in Agents, GatherInputs(a)
    PROVE  KInv'
<1> DEFINE i == cur[a]
<1>t. /\ pc \in [Agents -> Labels] /\ inputs \in [Agents -> SUBSET Items]
      /\ PlanOK(a) /\ pc[a] = "gather" /\ i \in posted
      /\ UNCHANGED <<posted, parent_id, kind, log, cur, todo, made>>
    BY DEF KInv, IInv, TypeOK, RoundTypeOK, GatherInputs, boardVars, chainVars, PlanOK, WorkLabels
<1>1. CASE Goto(a, "release") /\ UNCHANGED inputs
    <2>1. PlanOK(a)'
        BY <1>t, <1>1 DEF Goto, PlanOK, WorkLabels
    <2> QED
        BY <1>t, <1>1, <2>1, GateLocal DEF Goto, PastGather
<1>2. CASE /\ ~(kind[i] = "combine" /\ pending_siblings(i) # {})
           /\ inputs' = [inputs EXCEPT ![a] =
                 IF kind[i] = "combine" /\ parent_id[i] # NoItem
                 THEN {c \in children_of(parent_id[i]) : c # i /\ Completed(c)}
                 ELSE {}]
           /\ pc' = [pc EXCEPT ![a] = "run"]
    <2>1. PlanOK(a)'
        BY <1>t, <1>2 DEF PlanOK, WorkLabels
    <2>2. \A b \in Agents : PlanOK(b)'
        BY <1>t, <1>2, <2>1, PlanLocal
    <2>3. Siblings' = Siblings
        BY <1>t DEF Siblings
    <2>4. FamilyOK'
        BY <1>t, <2>3 DEF KInv, FamilyOK, Combiner
    <2>5. ASSUME NEW S \in Siblings, Combiner(i, S) PROVE S \ {i} \subseteq inputs'[a]
        <3>1. /\ i \in Items /\ parent_id[i] # NoItem /\ kind[i] = "combine"
              /\ S \subseteq posted /\ \A x \in S : parent_id[x] = parent_id[i]
            BY <1>t, <2>5 DEF KInv, FamilyOK, IInv, TypeOK, BoardTypeOK, Combiner
        <3>2. pending_siblings(i) = {}
            BY <1>2, <3>1
        <3>3. \A c \in children_of(parent_id[i]) : c # i => Completed(c)
            BY <3>1, <3>2 DEF pending_siblings
        <3>4. inputs'[a] = {c \in children_of(parent_id[i]) : c # i /\ Completed(c)}
            BY <1>t, <1>2, <3>1
        <3> QED
            BY <3>1, <3>3, <3>4 DEF children_of
    <2>6. GatheredOK'
        <3> SUFFICES ASSUME NEW S \in Siblings, NEW c \in Items, Combiner(c, S)
                     PROVE  /\ \A b \in Agents : pc'[b] \in PastGather /\ cur[b] = c =>
                                   S \ {c} \subseteq inputs'[b]
                            /\ \A e \in log : e.action = c => S \ {c} \subseteq e.inputs
            BY <1>t, <2>3 DEF GatheredOK, Combiner
        <3>1. /\ \A b \in Agents : pc[b] \in PastGather /\ cur[b] = c =>
                     S \ {c} \subseteq inputs[b]
              /\ \A e \in log : e.action = c => S \ {c} \subseteq e.inputs
            BY DEF KInv, GatheredOK
        <3>2. ASSUME NEW b \in Agents, pc'[b] \in PastGather, cur[b] = c
              PROVE  S \ {c} \subseteq inputs'[b]
            <4>1. CASE b = a
                BY <2>5, <3>2, <4>1
            <4>2. CASE b # a
                BY <1>t, <1>2, <3>1, <3>2, <4>2
            <4> QED
                BY <4>1, <4>2
        <3> QED
            BY <3>1, <3>2
    <2> QED
        BY <1>t, <2>2, <2>4, <2>6 DEF KInv
<1> QED
    BY <1>1, <1>2 DEF GatherInputs, Goto

(* Posting a child, or a root.  A new row joins no signed set, and a        *)
(* combiner is the last row of the set it joins.                            *)
LEMMA GatePost ==
    ASSUME KInv, IInv', NEW i \in Items, NEW p \in Items \cup {NoItem}, NEW k \in Kinds, NEW t,
           post_work_item(i, p, k, t), log' = log,
           \A b \in Agents : PlanOK(b)',
           Siblings' \subseteq Siblings \cup {T \in SUBSET Items :
               /\ T \subseteq posted \cup {i} /\ i \in T /\ p # NoItem
               /\ \A x \in T \ {i} : parent_id[x] = p /\ kind[x] # "combine"},
           \A b \in Agents : pc'[b] \in PastGather =>
               pc[b] \in PastGather /\ cur'[b] = cur[b] /\ inputs'[b] = inputs[b]
    PROVE  KInv'
<1>t. /\ kind \in [Items -> Kinds] /\ parent_id \in [Items -> Items \cup {NoItem}]
      /\ posted \subseteq Items
      /\ i \notin posted /\ posted' = posted \cup {i}
      /\ parent_id' = [parent_id EXCEPT ![i] = p] /\ kind' = [kind EXCEPT ![i] = k]
    BY DEF KInv, IInv, TypeOK, BoardTypeOK, post_work_item
<1>o. \A x \in posted : kind'[x] = kind[x] /\ parent_id'[x] = parent_id[x] /\ x # i
    BY <1>t
<1>1. ASSUME NEW S \in Siblings', S \notin Siblings
      PROVE  /\ S \subseteq posted \cup {i} /\ i \in S /\ p # NoItem
             /\ \A x \in S \ {i} : /\ parent_id[x] = p /\ kind[x] # "combine" /\ x \in posted
                                   /\ parent_id'[x] = p /\ kind'[x] # "combine"
    BY <1>o, <1>1
<1>2. ASSUME NEW S \in Siblings PROVE S \subseteq posted
    BY <1>2 DEF KInv, FamilyOK
<1>3. FamilyOK'
    <2>1. \A S \in Siblings' : S \subseteq posted'
        BY <1>t, <1>1, <1>2
    <2>2. ASSUME NEW S \in Siblings', NEW c \in Items, Combiner(c, S)'
          PROVE  parent_id'[c] # NoItem /\ \A x \in S : parent_id'[x] = parent_id'[c]
        <3>1. CASE S \in Siblings
            <4>1. c \in posted /\ Combiner(c, S)
                BY <1>o, <1>2, <2>2, <3>1 DEF Combiner
            <4>2. parent_id[c] # NoItem /\ \A x \in S : parent_id[x] = parent_id[c]
                BY <3>1, <4>1 DEF KInv, FamilyOK
            <4> QED
                BY <1>o, <1>2, <3>1, <4>1, <4>2
        <3>2. CASE S \notin Siblings
            <4>1. c = i
                BY <1>1, <2>2, <3>2 DEF Combiner
            <4>2. parent_id'[i] = p
                BY <1>t
            <4> QED
                BY <1>1, <3>2, <4>1, <4>2
        <3> QED
            BY <3>1, <3>2
    <2> QED
        BY <2>1, <2>2 DEF FamilyOK
<1>4. GatheredOK'
    <2> SUFFICES ASSUME NEW S \in Siblings', NEW c \in Items, Combiner(c, S)'
                 PROVE  /\ \A b \in Agents : pc'[b] \in PastGather /\ cur'[b] = c =>
                               S \ {c} \subseteq inputs'[b]
                        /\ \A e \in log : e.action = c => S \ {c} \subseteq e.inputs
        BY DEF GatheredOK
    <2>1. CASE S \in Siblings
        <3>1. Combiner(c, S)
            BY <1>o, <1>2, <2>1 DEF Combiner
        <3>2. /\ \A b \in Agents : pc[b] \in PastGather /\ cur[b] = c => S \ {c} \subseteq inputs[b]
              /\ \A e \in log : e.action = c => S \ {c} \subseteq e.inputs
            BY <2>1, <3>1 DEF KInv, GatheredOK
        <3> QED
            BY <3>2
    <2>2. CASE S \notin Siblings
        <3>1. c = i
            BY <1>1, <2>2 DEF Combiner
        <3>2. \A b \in Agents : pc[b] \in PastGather => cur[b] # i
            BY <1>t DEF KInv, PlanOK, PastGather, WorkLabels
        <3>3. \A e \in log : e.action # i
            BY <1>t DEF KInv
        <3> QED
            BY <3>1, <3>2, <3>3
    <2> QED
        BY <2>1, <2>2
<1>5. \A e \in log' : e.action \in posted'
    BY <1>t DEF KInv
<1> QED
    BY <1>3, <1>4, <1>5 DEF KInv

(* The plan of a runner does not see the rows of others.                    *)
LEMMA PlanUnderPost ==
    ASSUME KInv, NEW i \in Items, NEW p, NEW k, NEW t, post_work_item(i, p, k, t),
           NEW b \in Agents,
           pc'[b] = pc[b], cur'[b] = cur[b], todo'[b] = todo[b], made'[b] = made[b]
    PROVE  PlanOK(b)'
<1>1. /\ PlanOK(b) /\ i \notin posted /\ posted' = posted \cup {i}
      /\ \A x \in posted : kind'[x] = kind[x] /\ parent_id'[x] = parent_id[x]
    BY DEF KInv, IInv, TypeOK, BoardTypeOK, post_work_item
<1> QED
    BY <1>1 DEF PlanOK

LEMMA GateRoot ==
    ASSUME KInv, IInv', NEW i \in Items, PostRoot(i)
    PROVE  KInv'
<1>1. /\ post_work_item(i, NoItem, "leaf", RootTier[i]) /\ "leaf" \in Kinds
      /\ UNCHANGED <<pc, cur, todo, made, inputs, log>>
    BY DEF PostRoot, runnerVars, roundVars, chainVars, Kinds
<1>2. \A b \in Agents : PlanOK(b)'
    BY <1>1, PlanUnderPost
<1>3. Siblings' = Siblings
    BY <1>1 DEF Siblings
<1> QED
    BY <1>1, <1>2, <1>3, GatePost

LEMMA GateSpawn ==
    ASSUME KInv, IInv', NEW a \in Agents, SpawnSubtask(a)
    PROVE  KInv'
<1> DEFINE plan == todo[a]
<1>t. /\ pc \in [Agents -> Labels] /\ todo \in [Agents -> Seq(Kinds)]
      /\ made \in [Agents -> SUBSET Items]
      /\ PlanOK(a) /\ RoundOK(a) /\ pc[a] = "spawn" /\ posted \subseteq Items
      /\ plan \in Seq(Kinds) /\ plan # <<>> /\ cur[a] \in Items
    BY DEF KInv, IInv, TypeOK, BoardTypeOK, RoundTypeOK, RoundInv, RoundOK, SpawnSubtask,
           WorkLabels
<1>1. PICK c \in Fresh, t \in SubtaskTiers :
          /\ post_work_item(c, cur[a], Head(plan),
                            IF t < required_tier[cur[a]] THEN t ELSE required_tier[cur[a]])
          /\ made' = [made EXCEPT ![a] = @ \cup {c}]
    BY DEF SpawnSubtask
<1>2. /\ todo' = [todo EXCEPT ![a] = Tail(plan)]
      /\ \E l \in {"sign", "spawn"} : pc' = [pc EXCEPT ![a] = l]
      /\ UNCHANGED <<cur, inputs, log>>
    BY DEF SpawnSubtask, Goto, chainVars
<1>3. /\ c \in Items /\ c \notin posted /\ posted' = posted \cup {c}
      /\ kind'[c] = Head(plan) /\ parent_id'[c] = cur[a]
      /\ \A x \in posted : kind'[x] = kind[x] /\ parent_id'[x] = parent_id[x]
    BY <1>1 DEF Fresh, post_work_item, KInv, IInv, TypeOK, BoardTypeOK
<1>4. /\ Head(plan) \in Kinds /\ Head(plan) = plan[1] /\ Len(plan) \in Nat \ {0}
      /\ Tail(plan) \in Seq(Kinds) /\ Len(Tail(plan)) = Len(plan) - 1
      /\ \A n \in 1 .. Len(plan) - 1 : Tail(plan)[n] = plan[n + 1]
    BY <1>t
<1>5. CombinerLast(Tail(plan))
    <2> SUFFICES ASSUME NEW n \in 1 .. Len(Tail(plan)) - 1 PROVE Tail(plan)[n] # "combine"
        BY DEF CombinerLast
    <2>1. n \in 1 .. Len(plan) - 1 /\ n + 1 \in 1 .. Len(plan) - 1
        BY <1>4
    <2> QED
        BY <1>t, <1>4, <2>1 DEF PlanOK, CombinerLast
<1>6. Head(plan) = "combine" => Tail(plan) = <<>>
    <2> SUFFICES ASSUME Head(plan) = "combine" PROVE Tail(plan) = <<>>
        OBVIOUS
    <2>1. 1 \notin 1 .. Len(plan) - 1
        BY <1>t, <1>4 DEF PlanOK, CombinerLast
    <2>2. \A l \in Nat \ {0} : 1 \notin 1 .. l - 1 => l - 1 = 0
        OBVIOUS
    <2>3. Len(Tail(plan)) = 0
        BY ONLY <1>4, <2>1, <2>2, Zenon
    <2> QED
        BY <1>4, <2>3, EmptySeq, Zenon
<1>7. \A x \in made[a] : x \in posted /\ parent_id[x] = cur[a] /\ kind[x] # "combine"
    BY <1>t DEF PlanOK
<1> HIDE DEF plan
<1>8. PlanOK(a)'
    <2>1. made'[a] = made[a] \cup {c} /\ todo'[a] = Tail(plan) /\ cur'[a] = cur[a]
          /\ pc'[a] \in {"sign", "spawn"}
        BY <1>t, <1>1, <1>2
    <2>2. \A x \in made'[a] : x \in posted' /\ parent_id'[x] = cur'[a]
        BY <1>3, <1>7, <2>1
    <2>3. (\E x \in made'[a] : kind'[x] = "combine") => todo'[a] = <<>>
        BY <1>3, <1>6, <1>7, <2>1
    <2>4. cur'[a] \in posted'
        BY <1>t, <1>3, <2>1 DEF PlanOK, WorkLabels
    <2> QED
        BY <1>t, <1>5, <2>1, <2>2, <2>3, <2>4 DEF PlanOK
<1>9. \A b \in Agents : PlanOK(b)'
    <2> SUFFICES ASSUME NEW b \in Agents, b # a PROVE PlanOK(b)'
        BY <1>8
    <2>1. pc'[b] = pc[b] /\ cur'[b] = cur[b] /\ todo'[b] = todo[b] /\ made'[b] = made[b]
        BY <1>t, <1>1, <1>2
    <2> QED
        BY <1>1, <1>3, <2>1, PlanUnderPost
<1>10. Siblings' \subseteq Siblings \cup {T \in SUBSET Items :
           /\ T \subseteq posted \cup {c} /\ c \in T /\ cur[a] # NoItem
           /\ \A x \in T \ {c} : parent_id[x] = cur[a] /\ kind[x] # "combine"}
    <2>1. cur[a] # NoItem
        BY <1>t, BoardAssumption
    <2>2. \A b \in Agents : made'[b] = IF b = a THEN made[a] \cup {c} ELSE made[b]
        BY <1>t, <1>1
    <2>3. made[a] \cup {c} \in SUBSET Items
        BY <1>t, <1>3
    <2>4. made[a] \cup {c} \subseteq posted \cup {c}
        BY <1>7
    <2> QED
        BY <1>2, <1>7, <2>1, <2>2, <2>3, <2>4 DEF Siblings
<1>11. \A b \in Agents : pc'[b] \in PastGather =>
           pc[b] \in PastGather /\ cur'[b] = cur[b] /\ inputs'[b] = inputs[b]
    BY <1>t, <1>2 DEF PastGather
<1> DEFINE tier == IF t < required_tier[cur[a]] THEN t ELSE required_tier[cur[a]]
<1>12. post_work_item(c, cur[a], Head(plan), tier)
    BY <1>1
<1>13. c \in Items /\ cur[a] \in Items \cup {NoItem} /\ Head(plan) \in Kinds /\ log' = log
    BY <1>t, <1>2, <1>3, <1>4
<1> HIDE DEF tier
<1> QED
    BY <1>9, <1>10, <1>11, <1>12, <1>13, GatePost, Zenon

LEMMA NextGate == PlansCombineLast /\ KInv /\ [Next]_vars => KInv'
<1> SUFFICES ASSUME PlansCombineLast, KInv, [Next]_vars PROVE KInv'
    OBVIOUS
<1>i. IInv'
    BY NextTypeOK, NextRoundInv, NextCompletionByHolder, NextHolderWorksOnOpenItem
       DEF IInv, KInv
<1>1. ASSUME NEW a \in Agents, Loop(a) PROVE KInv'
    BY <1>i, <1>1, GateSteps, GateGather, GateSpawn, GateSign DEF Loop
<1>2. ASSUME NEW a \in Agents, StorageFault(a) \/ Crash(a) \/ Restart(a) PROVE KInv'
    BY <1>i, <1>2, GateSteps
<1>3. ASSUME NEW i \in Items, PostRoot(i) PROVE KInv'
    BY <1>i, <1>3, GateRoot
<1>q. ASSUME UNCHANGED <<posted, parent_id, kind, log, made, pc, cur, todo, inputs>> PROVE KInv'
    <2>1. ASSUME NEW b \in Agents PROVE PlanOK(b)'
        <3>1. PlanOK(b)
            BY DEF KInv
        <3> QED
            BY <1>q, <3>1 DEF PlanOK
    <2>2. Siblings' = Siblings
        BY <1>q DEF Siblings
    <2> QED
        BY <1>i, <1>q, <2>1, <2>2, GateQuiet
<1>4. ASSUME NEW i \in Items, Expire(i) PROVE KInv'
    BY <1>q, <1>4 DEF Expire, ttl_elapses, roundVars, chainVars
<1>5. ASSUME Tick \/ UNCHANGED vars PROVE KInv'
    BY <1>q, <1>5 DEF Tick, vars, boardVars, runnerVars, roundVars, chainVars
<1> QED
    BY <1>1, <1>2, <1>3, <1>4, <1>5 DEF Next

(* No combiner is signed over part of its siblings, whatever crashes,       *)
(* restarts, overruns, fails or runs out of time, as long as executors name *)
(* it last in their plans: its envelope commits to the output of every      *)
(* other child that a signed decomposition names with it                    *)
(* (pending_siblings, _gather_inputs, _spawn_subtasks).                     *)
THEOREM CombineGateHolds == PlansCombineLast => (Spec => []NoPartialCombine)
<1> SUFFICES ASSUME PlansCombineLast PROVE Spec => []NoPartialCombine
    OBVIOUS
<1>1. KInv /\ [Next]_vars => KInv'
    BY NextGate
<1> QED
    BY <1>1, InitGate, GateFromInv, PTL DEF Spec
=============================================================================
