--------------------------- MODULE AgentDirectory ---------------------------
(***************************************************************************)
(* Agent advertisements in the DHT (netd/internal/dht/dht.go), for agents  *)
(* that hash to one bucket.  Every publication reads the bucket, merges    *)
(* one advertisement and writes it back under the time of the merge; the   *)
(* DHT, a library, keeps the value with the latest time.  A daemon runs    *)
(* its client's calls and its republish loop side by side.  An             *)
(* advertisement is its agent, and times are kept as the order of the      *)
(* writes under way: clocks agree.                                         *)
(***************************************************************************)
EXTENDS Naturals, Sequences, SequencesExt

CONSTANTS
    DirNodes, DirAgents,
    Home,           \* [DirAgents -> DirNodes]: whose client publishes it
    Leaving,        \* agents whose client may withdraw them
    DirFaults       \* the allowed budgets: a set of functions on DirFaultKinds

DirFaultKinds == {"get", "put", "expire", "crash"}

ASSUME DirAssumption ==
    /\ Home \in [DirAgents -> DirNodes] /\ Leaving \subseteq DirAgents
    /\ DirFaults \subseteq [DirFaultKinds -> Nat]

VARIABLES
    local,      \* [DirNodes -> SUBSET DirAgents]: d.local
    record,     \* the bucket in the DHT
    rpc, loop,  \* [DirNodes -> the call, and the republish loop, under way]
    stamped,    \* writes not yet overtaken, oldest first: Seq(<<node, thread>>)
    wanted,     \* history: [DirNodes -> agents published and not unpublished]
    trouble     \* fault budgets left

dirVars == <<local, record, rpc, loop, stamped, wanted, trouble>>

Threads == DirNodes \X {"rpc", "loop"}
NoOp == [op |-> "none", agent |-> {}, stage |-> "idle", val |-> {}, todo |-> {}]
Op(t) == IF t[2] = "rpc" THEN rpc[t[1]] ELSE loop[t[1]]
SetOp(t, r) ==
    IF t[2] = "rpc" THEN rpc' = [rpc EXCEPT ![t[1]] = r] /\ UNCHANGED loop
                    ELSE loop' = [loop EXCEPT ![t[1]] = r] /\ UNCHANGED rpc
Suffer(f) == trouble[f] > 0 /\ trouble' = [trouble EXCEPT ![f] = @ - 1]

-----------------------------------------------------------------------------
(* A client's calls, up to their first request to the DHT.  A client        *)
(* publishes an agent once, and again after it withdrew it.                 *)
PublishAgent(a) ==
    LET n == Home[a] IN
    /\ rpc[n].stage = "idle" /\ a \notin wanted[n]
    /\ local' = [local EXCEPT ![n] = @ \cup {a}]
    /\ wanted' = [wanted EXCEPT ![n] = @ \cup {a}]
    /\ rpc' = [rpc EXCEPT ![n] = [NoOp EXCEPT !.op = "publish", !.agent = {a}, !.stage = "get"]]
    /\ UNCHANGED <<record, loop, stamped, trouble>>

UnpublishAgent(a) ==
    LET n == Home[a] IN
    /\ rpc[n].stage = "idle" /\ a \in local[n]
    /\ local' = [local EXCEPT ![n] = @ \ {a}]
    /\ wanted' = [wanted EXCEPT ![n] = @ \ {a}]
    /\ rpc' = [rpc EXCEPT ![n] = [NoOp EXCEPT !.op = "unpublish", !.agent = {a}, !.stage = "get"]]
    /\ UNCHANGED <<record, loop, stamped, trouble>>

(* republishAll takes a snapshot and publishes each advertisement of it,    *)
(* which enters it in the local map again.                                  *)
RefreshOnly(n) ==
    /\ loop[n].stage = "idle" /\ loop[n].todo = {} /\ local[n] # {}
    /\ loop' = [loop EXCEPT ![n].todo = local[n] \cap record]
    /\ UNCHANGED <<local, record, rpc, stamped, wanted, trouble>>

republishAll(n) ==
    /\ loop[n].stage = "idle" /\ loop[n].todo = {} /\ local[n] # {}
    /\ loop' = [loop EXCEPT ![n].todo = local[n]]
    /\ UNCHANGED <<local, record, rpc, stamped, wanted, trouble>>

republish(n) ==
    /\ loop[n].stage = "idle" /\ loop[n].todo # {}
    /\ \E a \in loop[n].todo :
         /\ local' = [local EXCEPT ![n] = @ \cup {a}]
         /\ loop' = [loop EXCEPT ![n] = [op |-> "publish", agent |-> {a}, stage |-> "get",
                                         val |-> {}, todo |-> @.todo \ {a}]]
    /\ UNCHANGED <<record, rpc, stamped, wanted, trouble>>

-----------------------------------------------------------------------------
(* mergeBucket, and UnpublishAgent's filter.                                *)
mergeBucket(t, existing) ==
    IF Op(t).op = "publish" THEN existing \cup Op(t).agent ELSE existing \ Op(t).agent

(* The merge is dated as it is made.                                        *)
Merged(t, existing) ==
    /\ Op(t).stage = "get"
    /\ SetOp(t, [Op(t) EXCEPT !.stage = "put", !.val = mergeBucket(t, existing)])
    /\ stamped' = Append(stamped, t)
    /\ UNCHANGED <<local, record, wanted>>

GetValue(t) == Merged(t, record) /\ UNCHANGED trouble

(* A failed read counts as an empty bucket.                                 *)
GetValue_fails(t) == Merged(t, {}) /\ Suffer("get")

Ended(t) == SetOp(t, [Op(t) EXCEPT !.stage = "idle", !.op = "none", !.agent = {}, !.val = {}])
Pending(t) == \E i \in 1..Len(stamped) : stamped[i] = t
Later(t) == LET i == CHOOSE j \in 1..Len(stamped) : stamped[j] = t
            IN SubSeq(stamped, i + 1, Len(stamped))

(* Select keeps the latest: a write overtakes the ones dated before it.     *)
PutValue(t) ==
    /\ Op(t).stage = "put" /\ Pending(t)
    /\ record' = Op(t).val
    /\ stamped' = Later(t)
    /\ Ended(t)
    /\ UNCHANGED <<local, wanted, trouble>>

(* Overtaken, and so refused: recorded, and otherwise ignored.              *)
PutValue_refused(t) ==
    /\ Op(t).stage = "put" /\ ~Pending(t)
    /\ Ended(t)
    /\ UNCHANGED <<local, record, stamped, wanted, trouble>>

PutValue_fails(t) ==
    /\ Op(t).stage = "put" /\ Pending(t)
    /\ Suffer("put")
    /\ stamped' = Remove(stamped, t)
    /\ Ended(t)
    /\ UNCHANGED <<local, record, wanted>>

(* The DHT drops the bucket; a daemon loses its local map and its calls.    *)
expire_record ==
    /\ Suffer("expire")
    /\ record' = {}
    /\ UNCHANGED <<local, rpc, loop, stamped, wanted>>

CrashKeepsWrites(n) ==
    /\ Suffer("crash")
    /\ local' = [local EXCEPT ![n] = {}] /\ wanted' = [wanted EXCEPT ![n] = {}]
    /\ rpc' = [rpc EXCEPT ![n] = NoOp] /\ loop' = [loop EXCEPT ![n] = NoOp]
    /\ UNCHANGED <<record, stamped>>

crash(n) ==
    /\ Suffer("crash")
    /\ local' = [local EXCEPT ![n] = {}] /\ wanted' = [wanted EXCEPT ![n] = {}]
    /\ rpc' = [rpc EXCEPT ![n] = NoOp] /\ loop' = [loop EXCEPT ![n] = NoOp]
    /\ stamped' = SelectSeq(stamped, LAMBDA t : t[1] # n)
    /\ UNCHANGED record

-----------------------------------------------------------------------------
(* Some agents have been published.                                         *)
DirInit ==
    /\ record \in SUBSET DirAgents /\ stamped = <<>>
    /\ wanted = [n \in DirNodes |-> {a \in record : Home[a] = n}] /\ local = wanted
    /\ rpc = [n \in DirNodes |-> NoOp] /\ loop = [n \in DirNodes |-> NoOp]
    /\ trouble \in DirFaults

DirNext ==
    \/ \E a \in DirAgents : PublishAgent(a)
    \/ \E a \in Leaving : UnpublishAgent(a)
    \/ \E n \in DirNodes : republishAll(n) \/ republish(n) \/ crash(n)
    \/ \E t \in Threads : \/ GetValue(t) \/ GetValue_fails(t)
                          \/ PutValue(t) \/ PutValue_refused(t) \/ PutValue_fails(t)
    \/ expire_record

(* Requests to the DHT end and the loop's ticker ticks.  A publication      *)
(* takes seconds and the ticker half an hour, so a loop is not overtaken in *)
(* every round: strong fairness of its accepted write.                      *)
DirFairness ==
    /\ \A n \in DirNodes : /\ WF_dirVars(republishAll(n) \/ republish(n))
                           /\ SF_dirVars(PutValue(<<n, "loop">>))
    /\ \A t \in Threads : WF_dirVars(GetValue(t) \/ PutValue(t) \/ PutValue_refused(t))

-----------------------------------------------------------------------------
DirTypeOK ==
    /\ local \in [DirNodes -> SUBSET DirAgents] /\ record \subseteq DirAgents
    /\ \A t \in Threads : Op(t).stage \in {"idle", "get", "put"}
    /\ IsInjective(stamped)
    /\ \A i \in 1..Len(stamped) : stamped[i] \in Threads /\ Op(stamped[i]).stage = "put"

(* What FindAgents can return at n.                                         *)
FindAgents(n) == local[n] \cup record

(* An agent its daemon still advertises is found from every node again and  *)
(* again, whatever concurrent merges, failed reads that empty the bucket,   *)
(* lost writes and expiry did to the record: the republish loop heals it.   *)
RepublishHeals ==
    \A a \in DirAgents : \A n \in DirNodes \ {Home[a]} :
        a \in wanted[Home[a]] ~> (a \in FindAgents(n) \/ a \notin wanted[Home[a]])

(* What the comment at dht.go:449 says of UnpublishAgent: it removes the    *)
(* agent from local state.                                                  *)
UnpublishedIsForgotten == \A n \in DirNodes : local[n] \subseteq wanted[n]

(* And dht.go:495: after a failed write peers see the unpublication by      *)
(* expiry.                                                                  *)
GoneEventually ==
    \A a \in DirAgents : a \notin wanted[Home[a]] ~> (a \notin record \/ a \in wanted[Home[a]])

(* The write queue is consistent, and an advertised agent is found again    *)
(* from every node after any loss (republishAll).                           *)
DirectoryHeals ==
    /\ []DirTypeOK
    /\ RepublishHeals
=============================================================================
