------------------------------- MODULE Runner -------------------------------
(***************************************************************************)
(* The runners of one node (gyza/runner.py) working off its blackboard:    *)
(* poll, reap, fetch, claim, execute, decompose, sign, complete, release.  *)
(* Every runner is a process of its own (gyza/supervisor.py restarts it    *)
(* after a crash), so the board may change between any two of its calls;   *)
(* an action below is what one runner does between two such points.        *)
(*                                                                         *)
(* What an executor returns is nondeterministic: a result, an exception or *)
(* a refused gate (enforcement record, rate cap, malformed result), or a   *)
(* request to decompose the task.                                          *)
(***************************************************************************)
EXTENDS Blackboard, Sequences

CONSTANTS
    Tier,          \* [Agents -> Nat]: attestation_tier of each manifest
    MaxChildren,   \* [Agents -> Nat]: spawn.resource_budget.max_children
    Plans,         \* per agent, the lists of child kinds its executor may
                   \* ask for in __subtasks__
    SubtaskTiers,  \* the required_tier values a plan may ask for
    MaxTaskDepth,  \* MAX_TASK_DEPTH
    Verify,        \* "off": no verify_chain_before_claim; "open", "strict":
                   \* strict_chain_verification off or on
    MayRefuse,     \* executors may fail, gates may refuse
    Picky,         \* agents that may find every item below min_similarity
    Faults         \* [FaultKinds -> Nat]: how often each fault may happen

FaultKinds == {"crash", "restart", "overrun", "storage", "ttl"}

ASSUME RunnerAssumption ==
    /\ Tier \in [Agents -> Nat]
    /\ MaxChildren \in [Agents -> Nat]
    /\ \A a \in Agents : Plans[a] \subseteq Seq(Kinds) \ {<<>>}
    /\ SubtaskTiers \subseteq Nat
    /\ MaxTaskDepth \in Nat
    /\ Verify \in {"off", "open", "strict"}
    /\ MayRefuse \in BOOLEAN
    /\ Picky \subseteq Agents
    /\ Faults \in [FaultKinds -> Nat]

VARIABLES
    pc,        \* where each runner is in _run_loop
    seen,      \* rows of the reaper's SELECT not yet updated
    cur,       \* best_item
    failed,    \* _recently_failed (memory only)
    inputs,    \* the siblings whose outputs _gather_inputs resolved
    todo,      \* subtasks still to be posted by _spawn_subtasks
    made,      \* subtasks it has posted
    env,       \* the envelope _complete has just signed
    last,      \* _last_envelope, the head of the process's own chain
    nsigned,   \* how many envelopes were signed (orders their timestamps)
    log,       \* the icp_envelopes table
    budget     \* faults still allowed

roundVars == <<cur, inputs, todo, made, env>>
chainVars == <<last, nsigned, log>>
runnerVars == <<pc, seen, failed, roundVars, chainVars, budget>>
vars == <<boardVars, runnerVars>>

Labels == {"poll", "reap", "claim", "gather", "run", "spawn", "sign",
           "finish", "release", "down"}

(* The points at which a runner believes it holds the claim on cur.         *)
WorkLabels == {"gather", "run", "spawn", "sign", "finish", "release"}

Working(a, i) == pc[a] \in WorkLabels /\ cur[a] = i

RoundTypeOK ==
    /\ cur \in [Agents -> Items \cup {NoItem}]
    /\ inputs \in [Agents -> SUBSET Items]
    /\ todo \in [Agents -> Seq(Kinds)]
    /\ made \in [Agents -> SUBSET Items]
    /\ env \in [Agents -> Envelope \cup {NoEnvelope}]

ChainTypeOK ==
    /\ last \in [Agents -> Nat \cup {NoParent}]
    /\ nsigned \in Nat
    /\ log \subseteq Envelope

TypeOK ==
    /\ BoardTypeOK
    /\ pc \in [Agents -> Labels]
    /\ seen \in [Agents -> SUBSET (Items \X Agents)]
    /\ failed \in [Agents -> SUBSET Items]
    /\ RoundTypeOK
    /\ ChainTypeOK
    /\ budget \in [FaultKinds -> Nat]

Init ==
    /\ BoardInit
    /\ pc = [a \in Agents |-> "poll"]
    /\ seen = [a \in Agents |-> {}]
    /\ cur = [a \in Agents |-> NoItem]
    /\ failed = [a \in Agents |-> {}]
    /\ inputs = [a \in Agents |-> {}]
    /\ todo = [a \in Agents |-> <<>>]
    /\ made = [a \in Agents |-> {}]
    /\ env = [a \in Agents |-> NoEnvelope]
    /\ last = [a \in Agents |-> NoParent]
    /\ nsigned = 0
    /\ log = {}
    /\ budget = Faults

----------------------------------------------------------------------------
(* Helpers.                                                                 *)

Goto(a, label) == pc' = [pc EXCEPT ![a] = label]

(* Back to the top of the loop; the locals of this round are dropped.       *)
NextRound(a) ==
    /\ Goto(a, "poll")
    /\ cur' = [cur EXCEPT ![a] = NoItem]
    /\ inputs' = [inputs EXCEPT ![a] = {}]
    /\ todo' = [todo EXCEPT ![a] = <<>>]
    /\ made' = [made EXCEPT ![a] = {}]
    /\ env' = [env EXCEPT ![a] = NoEnvelope]

Spend(f) == budget[f] > 0 /\ budget' = [budget EXCEPT ![f] = @ - 1]

(* The n-th parent of i, NoItem above a root.                               *)
Hop(i) == LET h[n \in 0 .. MaxTaskDepth + 1] ==
                  IF n = 0 THEN i
                  ELSE IF h[n - 1] = NoItem THEN NoItem
                  ELSE parent_id[h[n - 1]]
          IN  h

Ancestors(i) == {Hop(i)[n] : n \in 1 .. MaxTaskDepth + 1} \ {NoItem}

lineage_depth(i) == Cardinality(Ancestors(i))

(* get_envelope_for_action: the most recent envelope logged for an action.  *)
EnvelopesFor(j) == {e \in log : e.action = j}

get_envelope_for_action(j) ==
    CHOOSE e \in EnvelopesFor(j) : \A f \in EnvelopesFor(j) : f.seq <= e.seq

(* verify_chain on the envelopes of i's ancestors, root first: the root's   *)
(* envelope has no parent, every other one names its predecessor's hash.    *)
(* Signatures are honest and input_hashes is never empty here.              *)
chain_valid(i) ==
    \A n \in 1 .. lineage_depth(i) :
       LET e == get_envelope_for_action(Hop(i)[n])
       IN  e.parent = IF n = lineage_depth(i) THEN NoParent
                      ELSE get_envelope_for_action(Hop(i)[n + 1]).seq

chain_complete(i) == \A j \in Ancestors(i) : EnvelopesFor(j) # {}

(* _verify_lineage: an incomplete chain is refused by strict runners only,  *)
(* a complete one must verify.                                              *)
verify_lineage(i) ==
    \/ Verify = "off"
    \/ IF chain_complete(i) THEN chain_valid(i) ELSE Verify = "open"

Fresh == Items \ (Roots \cup posted)

(* Children other runners have yet to post: ids set aside for them, so that *)
(* the finite id pool bounds plans when they are made, never half-way.      *)
Reserved == {r \in Agents \X (1 .. Cardinality(Items)) :
               r[2] <= Len(todo[r[1]])}

----------------------------------------------------------------------------
(* The loop.                                                                *)

(* reclaim_expired_claims, its SELECT.                                      *)
ReapSelect(a) ==
    /\ pc[a] = "poll"
    /\ seen' = [seen EXCEPT ![a] = expired_claims]
    /\ Goto(a, "reap")
    /\ UNCHANGED <<boardVars, roundVars, failed, chainVars, budget>>

(* reclaim_expired_claims, the UPDATE of one of the selected rows.          *)
ReapRow(a) ==
    /\ pc[a] = "reap"
    /\ \E r \in seen[a] : /\ reclaim(r[1], r[2])
                          /\ seen' = [seen EXCEPT ![a] = @ \ {r}]
    /\ UNCHANGED <<pc, roundVars, failed, chainVars, budget>>

(* get_unclaimed, scoring, and the check of the item's parent chain.  An    *)
(* item whose chain does not verify is skipped for good by this runner.     *)
Fetch(a) ==
    /\ pc[a] = "reap"
    /\ seen[a] = {}
    /\ \E i \in get_unclaimed(Tier[a]) \ failed[a] :
          IF verify_lineage(i)
          THEN /\ cur' = [cur EXCEPT ![a] = i]
               /\ Goto(a, "claim")
               /\ UNCHANGED failed
          ELSE /\ failed' = [failed EXCEPT ![a] = @ \cup {i}]
               /\ Goto(a, "poll")
               /\ UNCHANGED cur
    /\ UNCHANGED <<boardVars, seen, inputs, todo, made, env, chainVars, budget>>

(* Nothing servable, or nothing similar enough to this agent's work.        *)
NothingToDo(a) ==
    /\ pc[a] = "reap"
    /\ seen[a] = {}
    /\ a \in Picky \/ get_unclaimed(Tier[a]) \subseteq failed[a]
    /\ Goto(a, "poll")
    /\ UNCHANGED <<boardVars, seen, roundVars, failed, chainVars, budget>>

Claim(a) ==
    /\ pc[a] = "claim"
    /\ Claimable(cur[a], Tier[a])
    /\ try_claim(cur[a], a)
    /\ Goto(a, "gather")
    /\ UNCHANGED <<seen, roundVars, failed, chainVars, budget>>

LoseRace(a) ==
    /\ pc[a] = "claim"
    /\ ~Claimable(cur[a], Tier[a])
    /\ NextRound(a)
    /\ UNCHANGED <<boardVars, seen, failed, chainVars, budget>>

(* The attested tier, then _gather_inputs: a combiner re-checks its         *)
(* siblings and resolves their outputs.                                     *)
GatherInputs(a) ==
    /\ pc[a] = "gather"
    /\ LET i == cur[a] IN
       IF \/ required_tier[i] > Tier[a]
          \/ kind[i] = "combine" /\ pending_siblings(i) # {}
       THEN Goto(a, "release") /\ UNCHANGED inputs
       ELSE /\ inputs' = [inputs EXCEPT ![a] =
                 IF kind[i] = "combine" /\ parent_id[i] # NoItem
                 THEN {c \in children_of(parent_id[i]) : c # i /\ Completed(c)}
                 ELSE {}]
            /\ Goto(a, "run")
    /\ UNCHANGED <<boardVars, seen, cur, failed, todo, made, env,
                   chainVars, budget>>

(* The executor returns a result that passes every gate.                    *)
ExecutorReturns(a) ==
    /\ pc[a] = "run"
    /\ Goto(a, "sign")
    /\ UNCHANGED <<boardVars, seen, roundVars, failed, chainVars, budget>>

(* The executor raises, or a gate before signing refuses.                   *)
ExecutorRefused(a) ==
    /\ pc[a] = "run"
    /\ MayRefuse
    /\ Goto(a, "release")
    /\ UNCHANGED <<boardVars, seen, roundVars, failed, chainVars, budget>>

(* The bounds of _spawn_subtasks, read from the signed manifest.            *)
SpawnPermitted(a, i, plan) ==
    /\ Len(plan) <= MaxChildren[a]
    /\ lineage_depth(i) + 1 <= MaxTaskDepth

(* The executor asks for a decomposition.                                   *)
ExecutorPlans(a) ==
    /\ pc[a] = "run"
    /\ \E plan \in Plans[a] :
          IF SpawnPermitted(a, cur[a], plan)
          THEN /\ Cardinality(Fresh) >= Cardinality(Reserved) + Len(plan)
               /\ todo' = [todo EXCEPT ![a] = plan]
               /\ Goto(a, "spawn")
          ELSE Goto(a, "release") /\ UNCHANGED todo
    /\ UNCHANGED <<boardVars, seen, cur, failed, inputs, made, env,
                   chainVars, budget>>

(* One child is posted: ids are uuid7, so a new one is the least unused.    *)
(* Its tier is clamped to its parent's.                                     *)
SpawnSubtask(a) ==
    /\ pc[a] = "spawn"
    /\ \E c \in Fresh, t \in SubtaskTiers :
          /\ \A d \in Fresh : c <= d
          /\ post_work_item(c, cur[a], Head(todo[a]),
                            IF t < required_tier[cur[a]] THEN t
                            ELSE required_tier[cur[a]])
          /\ made' = [made EXCEPT ![a] = @ \cup {c}]
    /\ todo' = [todo EXCEPT ![a] = Tail(@)]
    /\ Goto(a, IF Len(todo[a]) = 1 THEN "sign" ELSE "spawn")
    /\ UNCHANGED <<seen, cur, failed, inputs, env, chainVars, budget>>

NextEnvelope(a) == [agent |-> a, action |-> cur[a], seq |-> nsigned,
                    inputs |-> inputs[a], children |-> made[a],
                    parent |-> last[a]]

(* _complete, first half: sign, store in the envelope log (best effort).    *)
SignEnvelope(a) ==
    /\ pc[a] = "sign"
    /\ env' = [env EXCEPT ![a] = NextEnvelope(a)]
    /\ last' = [last EXCEPT ![a] = nsigned]
    /\ nsigned' = nsigned + 1
    /\ \/ log' = log \cup {NextEnvelope(a)} /\ UNCHANGED budget
       \/ UNCHANGED log /\ Spend("storage")
    /\ Goto(a, "finish")
    /\ UNCHANGED <<boardVars, seen, cur, failed, inputs, todo, made>>

(* _complete, second half: complete_work_item as the owner.  When the claim *)
(* was lost the envelope stands, the row does not, and the round ends as if *)
(* it had succeeded.                                                        *)
Finish(a) ==
    /\ pc[a] = "finish"
    /\ complete_work_item(cur[a], a, env[a])
    /\ NextRound(a)
    /\ UNCHANGED <<seen, failed, chainVars, budget>>

(* _release.                                                                *)
Release(a) ==
    /\ pc[a] = "release"
    /\ release_claim(cur[a])
    /\ failed' = [failed EXCEPT ![a] = @ \cup {cur[a]}]
    /\ NextRound(a)
    /\ UNCHANGED <<seen, chainVars, budget>>

----------------------------------------------------------------------------
(* Faults.                                                                  *)

(* A database call raises.  Reaping, fetching and claiming are retried in   *)
(* the next round; posting a child or storing the artifact sends the runner *)
(* to _release; a lost completion and a lost release are swallowed.         *)
StorageFault(a) ==
    /\ Spend("storage")
    /\ \/ /\ pc[a] \in {"reap", "claim", "finish"}
          /\ NextRound(a)
          /\ seen' = [seen EXCEPT ![a] = {}]
          /\ UNCHANGED failed
       \/ /\ pc[a] = "release"
          /\ failed' = [failed EXCEPT ![a] = @ \cup {cur[a]}]
          /\ NextRound(a)
          /\ UNCHANGED seen
       \/ /\ pc[a] \in {"spawn", "sign"}
          /\ Goto(a, "release")
          /\ todo' = [todo EXCEPT ![a] = <<>>]
          /\ UNCHANGED <<cur, inputs, made, env, seen, failed>>
    /\ UNCHANGED <<boardVars, chainVars>>

(* The process dies, or the supervisor kills it for making no progress; its *)
(* memory is gone, its claim stays on the board.                            *)
Crash(a) ==
    /\ pc[a] # "down"
    /\ Spend("crash")
    /\ pc' = [pc EXCEPT ![a] = "down"]
    /\ seen' = [seen EXCEPT ![a] = {}]
    /\ cur' = [cur EXCEPT ![a] = NoItem]
    /\ failed' = [failed EXCEPT ![a] = {}]
    /\ inputs' = [inputs EXCEPT ![a] = {}]
    /\ todo' = [todo EXCEPT ![a] = <<>>]
    /\ made' = [made EXCEPT ![a] = {}]
    /\ env' = [env EXCEPT ![a] = NoEnvelope]
    /\ last' = [last EXCEPT ![a] = NoParent]
    /\ UNCHANGED <<boardVars, nsigned, log>>

(* Variant of Restart: no ceiling on restarts.                              *)
RestartUncapped(a) ==
    /\ pc[a] = "down"
    /\ budget' = [budget EXCEPT !["restart"] = @ - 1]
    /\ Goto(a, "poll")
    /\ UNCHANGED <<boardVars, seen, roundVars, failed, chainVars>>

(* The supervisor starts the same agent again.                              *)
Restart(a) ==
    /\ pc[a] = "down"
    /\ Spend("restart")
    /\ Goto(a, "poll")
    /\ UNCHANGED <<boardVars, seen, roundVars, failed, chainVars>>

----------------------------------------------------------------------------
(* Environment.                                                             *)

PostRoot(i) ==
    /\ i \in Roots
    /\ post_work_item(i, NoItem, "leaf", RootTier[i])
    /\ UNCHANGED runnerVars

(* Some runner would still be at work on a claim when its lease runs out.   *)
(* The lease is three times the longest action, so this too is a fault.     *)
Overruns == \E a \in Agents, i \in Items :
               Working(a, i) /\ claimed_by[i] = a /\ claim_age[i] = Lease

Tick ==
    /\ Aged # claim_age
    /\ claim_age' = Aged
    /\ IF Overruns THEN Spend("overrun") ELSE UNCHANGED budget
    /\ UNCHANGED <<posted, parent_id, kind, required_tier,
                   claimed_by, result, expired, pc, seen, roundVars, failed,
                   chainVars>>

Expire(i) ==
    /\ ttl_elapses(i)
    /\ Spend("ttl")
    /\ UNCHANGED <<pc, seen, roundVars, failed, chainVars>>

Loop(a) ==
    \/ ReapSelect(a) \/ ReapRow(a) \/ Fetch(a) \/ NothingToDo(a)
    \/ Claim(a) \/ LoseRace(a)
    \/ GatherInputs(a)
    \/ ExecutorReturns(a) \/ ExecutorRefused(a) \/ ExecutorPlans(a)
    \/ SpawnSubtask(a)
    \/ SignEnvelope(a) \/ Finish(a) \/ Release(a)

Next ==
    \/ \E a \in Agents : Loop(a) \/ StorageFault(a) \/ Crash(a) \/ Restart(a)
    \/ \E i \in Items : PostRoot(i) \/ Expire(i)
    \/ Tick

Spec == Init /\ [][Next]_vars

(* A live runner keeps looping, time passes, and the supervisor restarts a  *)
(* dead runner while its restart budget lasts.                              *)
Fairness ==
    /\ \A a \in Agents : WF_vars(Loop(a)) /\ WF_vars(Restart(a))
    /\ WF_vars(Tick)

FairSpec == Spec /\ Fairness

----------------------------------------------------------------------------
(* Properties.                                                              *)

(* e is the envelope agent a signed for item i.                             *)
SignedFor(a, i, e) == e.agent = a /\ e.action = i

(* A completed row records the envelope of the agent that still holds it,   *)
(* signed for that very item: a runner whose lease was lost never leaves    *)
(* its result on somebody else's row (complete_work_item, expected_owner).  *)
CompletionByHolder ==
    \A i \in Items : Completed(i) => SignedFor(claimed_by[i], i, result[i])

(* A runner that still holds the claim on the item it works on works on an  *)
(* item that has not completed: its completion cannot overwrite another.    *)
HolderWorksOnOpenItem ==
    \A a \in Agents, i \in Items :
        Working(a, i) /\ claimed_by[i] = a => ~Completed(i)

(* The rows keep the promise of WorkBoard: one owner at a time, one         *)
(* delivery, by the owner, with an envelope it signed for that item.        *)
WB == INSTANCE WorkBoard WITH
        Owners <- Agents, NoOwner <- NoAgent,
        Outcomes <- Envelope, NoOutcome <- NoEnvelope,
        SignedBy <- SignedFor, owner <- claimed_by, outcome <- result

(* Reaping, releasing, claiming and completing, in any order and with every *)
(* fault, are steps of WorkBoard: a completion is never overwritten and its *)
(* attribution never taken away.                                            *)
ImplementsWorkBoard == WB!Spec

(* Two runners never work on one item at the same time.                     *)
MutualExclusion ==
    \A a, b \in Agents, i \in Items :
        Working(a, i) /\ Working(b, i) => a = b

(* A claim inside its lease is given up by its holder or not at all.        *)
LeaseHonoured ==
    [][\A a \in Agents, i \in Items :
          /\ claimed_by[i] = a
          /\ claimed_by'[i] # a
          => \/ claim_age[i] > Lease
             \/ pc[a] = "release" /\ cur[a] = i]_vars

(* What a runner releases after a failed execution is its own claim.        *)
ReleasesOwnClaim ==
    [][\A a \in Agents, i \in Items :
          /\ pc[a] = "release" /\ cur[a] = i /\ pc'[a] = "poll"
          /\ claimed_by'[i] # claimed_by[i]
          => claimed_by[i] = a]_vars

(* An honest agent signs one envelope per action (the premise under which   *)
(* detect_equivocation convicts an agent that signed two).                  *)
OneEnvelopePerAction ==
    \A e, f \in log : e.agent = f.agent /\ e.action = f.action => e = f

(* The combine gate: a logged combiner envelope commits to the output of    *)
(* every other child its parent's signed decomposition names.               *)
NoPartialCombine ==
    \A e, p \in log :
        e.action \in p.children /\ kind[e.action] = "combine"
        => p.children \ {e.action} \subseteq e.inputs

(* No item ever has more children than some agent's manifest allows one     *)
(* agent to create (spawn.resource_budget.max_children).                    *)
SpawnBudget ==
    \A p \in posted : \E a \in Agents :
        Cardinality(children_of(p)) <= MaxChildren[a]

(* Whatever honest runners signed verifies as the lineage of a later item.  *)
HonestLineageVerifies ==
    \A i \in posted : chain_complete(i) => chain_valid(i)

(* A claim does not outlive its holder: while some runner is left it ends   *)
(* in a completion or the item goes back to the pool.                       *)
ClaimReturns ==
    \A i \in Items :
        claimed_by[i] # NoAgent
        ~> \/ claimed_by[i] = NoAgent \/ Completed(i)
           \/ \A a \in Agents : pc[a] = "down"

(* Every posted item is eventually completed.                               *)
AllComplete == \A i \in Items : (i \in posted) ~> Completed(i)
=============================================================================
