# Gyza in TLA+

TLA+ modules for the parts of Gyza that run concurrently: the blackboard that
the runners of one node share, the loop that claims, executes, signs and
completes work, the processes and threads that keep runners and daemons alive,
the channels, clusters and directories that join nodes, the economy that pays
for work, and the containment that bounds it. TLC checks small instances; TLAPS
proves the central results about boards, ledgers, payments, the guard
and the artifact store for every size.

## The system

Gyza runs agents that take work items from a shared board, execute them in a
sandbox, sign an ICP envelope for what they did and record the completion.
Nodes gossip their boards to each other, or replicate them by Raft on a LAN,
and settle what they owe one another with entries both sides sign. A Go daemon,
`gyza-netd`, carries messages, gossip and advertisements between nodes.

| Part | Source | State it keeps | Operations | What makes it correct |
|---|---|---|---|---|
| Blackboard | `gyza/blackboard.py` | SQLite rows: claim, completion, parent, tier, TTL; envelope log | post, try_claim, complete, release, reclaim, get_unclaimed, merges | one owner at a time, one completion, by the owner, never overwritten |
| Runner | `gyza/runner.py` | loop position, `_recently_failed`, `_last_envelope` | poll, reap, score, verify lineage, claim, gather, execute, spawn, sign, complete, release | a failed or crashed round loses no work and corrupts nobody else's |
| Process supervisor, thread roster | `gyza/supervisor.py`, `gyza/roster.py` | children, restarts, progress marks | start, watch, stall detection, restart, give up, stop | the stuck are replaced, the working spared, crash loops end, stop is final |
| ICP envelopes | `gyza/icp.py`, `gyza/resilience.py` | signed, hash-linked records | sign, verify, verify_chain, verify_dag, equivocation detection | honest history verifies |
| Network blackboard | `gyza/network/network_blackboard.py`, `gyza/schema.py` | a local board, an HLC, the gossip channel | publish and apply deltas | replicas agree on claims and completions |
| Raft mode | `gyza/network/raft.py`, `cluster.py` | replicated log, partner lists, trust | form, claim, complete, leave | one claimant per item in the cluster |
| Ledger and settlement | `gyza/economy/ledger.py`, `settlement.py` | signed entries, balances, reconciliations under way | submit, co-sign, decline, reconcile | both ledgers agree, nothing is paid twice |
| Subcontracting, wallet, delegation | `gyza/economy/coordinator.py`, `subcontract.py`, `wallet.py`, `delegation.py` | holds, budget, the fold of entries, grants | reserve, post, verify, pay, release | no credit is spent twice, authority only shrinks along a chain |
| Market | `gyza/economy/market.py`, `resolution.py` | bonds, escrow, capital | assert, select, settle, refund | capital is conserved and follows the truth |
| Containment | `gyza/containment/*.py` | signed configuration and its history, review table, staged actions | load, tighten, loosen, rotate; escalate, resolve; stage, promote, roll back | a guard never loosens unseen, a review happens, the interior stays in bounds |
| Submitting work | `gyza/cli.py` (`submit`), `network/demo_agent.py`, `result_delivery.py` | one waiting process, daily quotas | post, wait, serve, push | a submit gets its own result or ends |
| LAN transport | `gyza/network/transport.py`, `discovery.py` | QUIC connections and the record of peers | dial, hello, disconnect | records name live connections |
| Artifacts | `gyza/network/artifact_store.py`, `artifact_client.py` | files by hash, tombstones | store, evict, get, fetch | what is gone is accounted for |
| Daemon supervision | `gyza/network/daemon_supervisor.py`, `global_cluster.py` | the daemon process, failures, topics, streams | launch, heartbeat, respawn, recover, stop | a dead daemon comes back as its owner knew it |
| netd | `netd/internal/**` (Go) | topics, marks, subscriber channels; DHT buckets; certificate cache | publish, dedup, fan out; put, merge, republish; verify | deltas in order and once, nobody stalls, advertisements heal |
| Attestation | `gyza/network/attestation_adapter.py`, `netd/internal/capability*` | a session, challenges, co-signatures | ask, challenge, answer, assemble | a certificate means a quorum |
| Verification layer, coordination scheduler | `gyza/verification/`, `gyza/coordination/` | tables, a queue in one thread | route, look up, schedule | sequential |
| Memory, embeddings, drift, demand, audit, other commands, demos | `gyza/*.py` | local files | local, sequential | out of scope for a model checker |

How the parts interact. Runners are separate processes that share one SQLite
file and nothing else; the board's statements are their only synchronisation.
A completed item triggers the envelope hook, which calls `submit_earned` for
the work's creator and pushes the result to the submit that waits for it. A
`NetworkBlackboard` publishes every local write to a gossip topic and a receive
thread merges what other nodes publish; in Raft mode claims and completions go
through the log instead, while releases and lease expiry stay local. The
settlement service of a node has one receive thread fed by netd; the operator
calls `request_reconciliation` on another thread. Supervisor, roster and
daemon supervisor are each a watch thread beside the threads and processes
they watch, and are stopped from a third.

What is hard here: claims are leases, so two runners can believe they own an
item; a process can die between any two statements; gossip is neither ordered
nor reliable, and an HLC that two threads share decides who wins; the payer
commits before it echoes; pages of a reconciliation see a ledger that moves;
holds, budget and wallet are three records of the same credits; several
processes append to one hash chain, and evict from one directory; a watch
thread cannot tell slow from stuck and races the stop; caches outlive what
they were read from; two read-merge-write loops share a DHT bucket. The
hazards in `PROJECT.json` give the forty that matter most at their lines, with
the properties that cover them.

## Modules

| Module | What it models |
|---|---|
| `Blackboard` | the rows of one node's board and its SQL operations, no runner |
| `WorkBoard` | abstract: one owner, one delivery, by the owner, final |
| `Runner` | the runners of one node and their faults, on the board |
| `GossipBoard` | boards of several nodes, their clocks and the deltas between them |
| `RaftBoard` | the board in Raft mode: one log, a table per node, local releases |
| `Formation`, `LanTransport` | how LAN nodes become a cluster; the connections below |
| `Supervisor`, `Roster` | runner processes and runner threads under their watch loops |
| `DaemonLife` | the daemon under its supervisor, and the cluster that owns it |
| `DeltaBus`, `AgentDirectory`, `TierCache` | netd: gossip topics, DHT buckets, the Tier-3 verifier |
| `Attestation` | asking peers for co-signatures, each machine with its own clock |
| `Settlement` | two or more ledgers, the settlement messages and reconciliation |
| `Submit` | `gyza submit` against a metered agent, and the way back of the result |
| `Delegation`, `Subcontract` | bounds along a chain; holds, budget, wallet and coordinator |
| `Market` | bonds, rounds and capital |
| `GuardConfig`, `Review`, `Gate` | signed configuration, review path, staging and promotion |
| `ArtifactStore` | files under a cap, shared by writers without a lock, and the fetch |
| `Runner_proofs`, `GossipBoard_proofs`, `RaftBoard_proofs`, `Settlement_proofs`, `Subcontract_proofs` | theorems about the module of that name |
| `Guard_proofs`, `Service_proofs` | theorems about `GuardConfig` and `Gate`, about `Submit` and `ArtifactStore` |
| `FiniteFacts` | least and last numbers, induction and finite sums, for the provers |
| `MCRunner`, `MCGossipBoard`, `MCSettlement` | instances of one module for TLC |
| `MCNetwork`, `MCEconomy`, `MCContainment`, `MCCluster`, `MCNetd` | instances that put components side by side |

Components that share no state in the code are checked side by side in one run:
a variable `part` chooses at the start which of them the behaviour explores,
and the others keep their initial state. Their product would have more states
and no more behaviours of any of them. Where two components do share state
(board and runners, coordinator and wallet and delegation, ledger and
reputation, daemon and cluster), one module has both.

### Blackboard and Runner

`posted`, `parent_id`, `kind`, `required_tier`, `claimed_by`, `claim_age`,
`result`, `expired` are columns of `work_items`; `log` is the `icp_envelopes`
table. An operation of the board is one SQLite statement or transaction, and
each step of a runner contains one of them, so every interleaving the database
allows is explored. `pc` is the place in `_run_loop`; `cur`, `inputs`, `todo`,
`made`, `env` are the locals of `_execute`, `_spawn_subtasks` and `_complete`;
`failed` is `_recently_failed` and `last` is `_last_envelope`.

Choices. Time is the age of a claim in ticks, up to one more than `Lease`. The
score that picks one of several items is left open; what an executor returns is
left open (result, plan, refusal), and so is which items a `Picky` agent
declines. A combiner is an item of kind `"combine"`. An envelope is its signer,
its action, its link and a number that keeps two signings apart. Faults are
budgeted: `crash`, `restart` (the supervisor's ceiling), `overrun` (an
execution outlasting its lease, three times the longest permitted action),
`storage` (an SQLite error inside the round) and `ttl`.

### GossipBoard

`claim[n][i]` holds `claimed_by` and the `claim_hlc` triple of the row on node
`n`, `done[n][i]` the accepted completion, `clock` the `(l, c)` of each HLC and
`wall` the physical time. Publishing puts one copy of the delta on the way to
every other node; a copy is applied once, unless the `twice` fault keeps it.
Releases and lease expiry change a local row and publish nothing, as in the
code. A claim is two steps, the write and the publication, since the stamp is
read again in between. When the clock has moved between the two steps, the
publication belongs to the `race` fault; a run without that budget covers the
behaviours in which the receive thread does not come between, and such an agent
stays where it is. Merging a delta and `HLC.recv` are one step: both happen on
the receive thread, and the row is committed first. A release of that row and a
new claim between the two would be stamped by a clock that has not received the
merged stamp yet; these behaviours are left out.

### RaftBoard, Formation, LanTransport

The log of `RaftBoard` is pysyncobj's: an entry commits in one order or is
lost, a call may time out although its entry commits, and a node that restarts
applies the log again to the table it has on disk. `freed` remembers the items
that some node released or reclaimed in its own table; exclusion is promised
only outside it. `Formation` keeps the two sleeps of `start_lan` as clock
times, so requests and answers cross them in every way. A `LanTransport`
connection has two ends with their own events; identities are authentic, and
connection slots are reused once both ends have closed.

### Supervisor, Roster, DaemonLife

One step of a watch loop is one child, slot or daemon call, since `stop` can
come between any two. `idleFor`, `unsigned` and `unanswered` are history
variables: what really happened, against which the watcher's own marks are
judged. Time in `Supervisor` moves in restart windows, and every pass that is
due is over before the next. A thread in `Roster` cannot be killed, so a
replaced one stays as a stray that may still act. `DaemonLife` has the
heartbeat thread, the owner that starts, publishes, joins and stops, and the
daemon as three actors; `missed` are projects whose rejoin raised.

### DeltaBus, AgentDirectory, TierCache, Attestation

Numbering a delta and publishing it are two steps, and the channel of a stream
is a bounded queue whose reader may be stuck. Buckets of `AgentDirectory` are
read, merged and written back in separate steps by every daemon's client calls
and its republish loop; the DHT keeps the value with the latest merge time. A
call of `TierCache` goes through lookup, waiting on another's fetch, the
semaphore, the fetch, the judgement and the teardown as separate steps. In
`Attestation` a certificate is what was signed and by whom, and clocks differ
by `ClockErrors`.

### Settlement and Submit

An entry's content is immutable, so `entry` is shared and `ledger[n][id]` says
which signatures node `n` has stored. `cache` is `balance_cache`, `good` and
`bad` count `record_success` and `record_dispute`. `completion`, `held` and
`evidence` are what the payer can consult: the board's completion, stored
envelopes, and artifacts with manifests. `sending` is the entry the receive
thread has committed and not finished: the write of `balance_cache`, then the
success and, on the payer's side, the echo are steps of their own, and a
restart may come before each; `behind` names the cache rows that lack a
committed entry. `rec` is a reconciliation under way with its cursor, and
`result` what it returned.

Choices. Signatures are honest and cannot be forged. The resolver's three
seconds of polling are the order in which the completion and the entry arrive.
Entry ids are ordered as uuid7 values of one process are. Rows with equal
`created_at_ns` come in any order, since the query does not say. A send that
fails and a page that times out end the call alike. The optional harm guard is
left out (`GlobalCluster` passes `None`). The price check is
`_within_tolerance` in integers. In `Submit` the board between the two ends is
open, claimed or done; the deadline of a submit outlasts everything under way
for it, unless a fault shortens it. Nothing makes a submit wait for a
connection to the agent, so it may post before there is one, or without ever
having one; `unrouted` are the tasks whose push was skipped for want of a
route. The daily caps are those on calls and the one on cost, and what a call
costs is known when it is recorded. The name `anonymous`, under which a call is
counted when the intent of its item is missing or cannot be read, and the
verdicts on signature and artifact that are printed with a result (exit 0 or 5)
are left out: envelopes are honest here.

### Subcontract, Delegation, Market

`book` is the state of each reservation, `allocated` the budget counter, `rows`
and `copies` the entries the wallet folds (stored and replayed). A call of
`subcontract()` is cut where it waits: for its result and for its payment; at
both ends of the first wait the fault `escape` is an exception that nobody
catches. The wallet view of the book is read as a live one: a `Wallet` folds its
entries once, when it is made, so a book over one such object would not see what
is settled later, and nothing outside the tests makes a book. A
book shared with other threads is a specification of its own
(`SharedBookSpec`), because the code does not lock it. Shares of a pot in
`Market` are exact, with stakes that divide; the code has floats.

### GuardConfig, Review, Gate, ArtifactStore

Installing a configuration and recording it are two steps; the fault `shared`
lets another process come between and is switched off in the run, since the
code does not lock against it. A process that has a configuration installs over
it whatever others have recorded since; `stale` remembers that one did.
`Review` cuts each process between reading the last hash, reading the next
number and inserting; `overtaken` remembers that a row came between the two
reads. `Gate` keeps the log with its watermark and the victims of rollbacks,
and the amount an action adds to the measured harm. `promote` is asked with or
without the class (`unmeasured` remembers the latter), and `rollback`, `stage`
and `submit` take no lock, so they may come between its decision and its
effect. In `ArtifactStore` a walk of the directory is one step and every other
file operation is its own, also those of the `get` with which a fetch begins;
`landed`, `deleted` and `unlogged` are history variables.

## Runs

Every `pass` run explores its instance completely. Runs of `Runner` check
deadlock: a live runner always polls again. The other runs switch that check
off because those systems come to rest once everything has been posted,
delivered, settled or stopped; the liveness properties show that the rest is
reached with the work done.

A component's properties are named one by one in its module. Where a run lists
a conjunction, its parts are the definitions before it, and each part was
broken on its own by at least one change of the code's logic.

| Run | Instance | What it shows |
|---|---|---|
| `runner_faults` | 2 runners, 1 item; 2 crashes, a restart, an overrun, a storage error, TTL expiry | `TypeOK`, `CompletionByHolder`, every step is a step of `WorkBoard`, and `ClaimReturns` |
| `runner_live` | a planner and 2 workers, a leaf and a combiner, one runner may die for good | `MutualExclusion`, `LeaseHonoured`, `NoPartialCombine`, `AllComplete` |
| `gossip_converge` | 2 boards with a runner each, wall clocks 1 to 3 and one set back, leases expiring at once | `ClaimsAreSound` (types, `ClaimsConverge`, `OneWinner`), `StampsAdvance` |
| `gossip_lossy` | 2 boards: lost, repeated, early and raced deltas, releases, a restart | `ArrivedItemHasRow` |
| `gossip_live` | boards: 3 runners, a repeated delta. LAN: 2 nodes, one with manual peers, 2 connections at once, a slow dial, a drop or a restart. Formation: 2 nodes that start at any time, a lost message, a peer that goes or a leave | `CompletesEverywhere`; `ConnectionsSettle`; `FormationAgrees` |
| `settle_books` | any 2 of 4 claims (honest in either direction, tampered, overpriced), a loss, two repetitions, two restarts between any two writes, a misrouted entry, evidence that may ride along or not. | `EarnerNeverAhead`, `BooksAgree` (types, `BalancesAgree`, `CacheCatchesUp`), `SuccessCountedOnce`, `HonestNotDisputed`, `PaidWorkIsAudited` |
| `settle_pages` | 2 claims, pages of one entry, a timeout and its late answer | `ReconcileSeesAll`, `SubmittedSettles` |
| `economy` | subcontracts: 3 calls of 2 subtasks, one a retry, from a wallet and a budget too small for all; five kinds of result; a replay, an outside release, a payment reported as failed, an escaping exception, a crash. Market: 3 traders, 2 tasks, 2 claims and a truth nobody claims, rounds of one task | `MoneyExact`, `PaidRightly`, `HoldsEnd`; `CapitalFollowsTruth` |
| `containment` | configuration: 2 processes (symmetric), 6 configurations, 2 keys, a lost record, stale installs. Gate: bound 3, amounts 1 and 2, 6 events, one racing action, promotions with and without the class. Store: 2 writers, one of them a client of an honest and a lying peer, a reader, files of sizes 1, 2 and 3 under a cap of 2, a crash, rot or lost tombstone. Submit: 2 tasks of one node or of two, caps of 1 and 2 calls or on their cost, 2 days, one fault | `GuardOnlyTightens`; `InteriorContained`; `ArtifactsAccounted`, `CapacityKept`; `SubmitServed` |
| `cluster` | Raft: 2 nodes, 1 item, one fault of five kinds. Processes: 1 child, 2 restarts, stall after 3 windows. Threads: 1 slot, 1 restart, 2 stops. Daemon: 2 projects, 2 crashes, 2 blips, a hang, a failed launch, a failed step. Review: 2 runners, 2 reviewers, a review due with every action, 3 actions, 3 rows, a death half way | `ReplicasAgree`, `ItemsComplete`; `SupervisionHolds`; `RosterHolds`; `DaemonServes`; `ReviewsHappen` |
| `netd` | bus: 2 publications, a stuck reader with one slot, one fault of five kinds. Tiers: 3 calls on 2 keys and one slot. Attestation: 3 peers of 2 validators, clocks off by -1 to 1. Directory: 2 daemons, one agent each in one bucket, one fault of four kinds | `BusDelivers`; `TierAnswers`; `QuorumCertified`; `DirectoryHeals` |
| `raft_tier` (violation) | an item of tier 1, two agents attested at tier 1, no fault | the claim passes the local check and every replica refuses it |

Distinct states: `runner_faults` 518,690, `runner_live` 113,474,
`gossip_converge` 2,746,587, `gossip_lossy` 304,532, `gossip_live` 64,822,
`settle_books` 395,035, `settle_pages` 198,571, `economy` 318,897,
`containment` 1,788,216, `cluster` 165,332, `netd` 176,764.

Why the bounds are enough. On one board an item interacts with another only
through decomposition, and a claim conflict needs two runners; a third shows
that a bystander changes nothing. One crash, one overrun and one return of the
same agent are what each known conflict needs, and the budgets allow all of
them together. In `runner_live` nobody overruns or comes back, which is where
exclusion is promised; two workers are needed because the planner hands back
what it may not decompose, so that one worker's death leaves another. Merging
compares two claims at a time, so two boards show every order of a local and a
remote claim; a stamp below one that was merged needs a third clock value
(claim, expire, set back), hence `MaxWall` 3. Settlement is per entry, and what
couples entries is the balance (opposite directions) and the page (a boundary
between two entries). The prices sit on the edge of the tolerance and one
credit above it.

Holds meet when two calls want the same credits, and a third distinguishes a
retry from a stranger; the wallet cannot pay all three and the budget not even
two of the dearer ones. A pot needs a winner, a loser and a bystander, and a
round of one task makes the other wait. A chain forks with two writers; a bound
can be removed, put back and replayed within three recorded installs, and three
are what a stale install needs (one process, the other, the first again). The
watchers treat each child, slot and project alike and keep separate marks for
each, so one of each (two projects, since a failed rejoin must not stop the
next) reaches every rule; the ceilings are crossed. A replica differs from
another with two nodes. One slot and one stuck reader fill a channel; three
calls are a leader, a follower and a caller of another key that competes for
the slot; two validators behind three peers are a duplicate and a quorum. Two
evictors that scanned the same directory are two writers; one file that fills
the store, one that leaves room and one that never fits are an eviction, a file
beside another and the refusal. Each fault occurs alone in these instances
where its budget is a set (`Mishaps`, `OneOf`, `Troubles`...): the recovery
from each fault is what is asked, not of their coincidence.

### Where the code and its documentation disagree

`raft_tier` states a comment of the repository and shows a behaviour of the
code that breaks it; the finding in `PROJECT.json` quotes it. `GyzaCluster`,
which attaches a board to Raft, has no caller in the repository, which may be
why it was not met.

The following were found with the same modules. They have no run of their own:
each names the property and the change of the instance that reproduces it. The
passing run on the same component has the fault switched off, or states the
weaker property, and so delimits what can be relied on. First, where the change
is a fault that a run leaves out:

| Property | Instance | What happens | Where |
|---|---|---|---|
| `Runner!MutualExclusion` | a crash and a restart | a reaper clears the fresh claim of a restarted agent (`README.md:151`) | `blackboard.py:689` |
| `Runner!AllComplete` | the same, with a plan | two combiners of a re-executed parent wait for each other (`tests/test_claim_lease.py:1`) | `blackboard.py:755` |
| `Runner!ReleasesOwnClaim` | 2 runners, 1 item, one overrun | a late failure releases the successor's claim, inside its lease | `blackboard.py:770` |
| `Runner!OneEnvelopePerAction` | the same | one honest agent signs an action twice and looks like an equivocator (`resilience.py:83`) | `runner.py:1134` |
| `Runner!NoPartialCombine` | plan `<<"leaf", "combine", "leaf">>`, 4 ids | a combiner runs before a later sibling is posted (`README.md:160`) | `runner.py:514` |
| `Runner!SpawnBudget` | crash and restart, 5 ids | a re-executed parent exceeds its child budget (`runner.py:481`) | `runner.py:495` |
| `Runner!HonestLineageVerifies` | 2 roots, plan `<<"leaf">>`, `Verify = "open"` | a decomposer that had signed before has a lineage that fails `verify_chain` | `runner.py:1049` |
| `GossipBoard!ClaimsConverge` | `race` once | the published stamp is read after the claim; boards swap holders (`tests/test_network_blackboard_gossip.py:233`) | `network_blackboard.py:215` |
| `GossipBoard!ClaimsConverge` | `early` once | a claim that overtakes its item is dropped and never sent again | `blackboard.py:472` |
| `GossipBoard!CompletionStable` | no fault | the local holder overwrites a merged completion (`blackboard.py:525`) | `blackboard.py:623` |
| `GossipBoard!FinishedRowKeepsClaim` | no fault | a row completed before its claim arrived is claimed again (`blackboard.py:451`) | `blackboard.py:406` |
| `GossipBoard!StampsAdvance` | `step` and `restart`, `MaxWall` 3 | a restarted clock stamps below the row's stamp (`network_blackboard.py:506`) | `network_blackboard.py:446` |
| `Settlement!HonestNotDisputed` | a reconciliation while an echo is under way | the missing signature is reported as a dispute (`settlement.py:1219`) | `settlement.py:1322` |
| `Settlement!PaidOnce` | `Retried` | a retry under a fresh `entry_id` is paid again | `settlement.py:628` |
| `Settlement!ReconcileSeesAll` | `tie` once, 2 requests | the second of two tied entries is skipped at a page boundary | `settlement.py:1094` |
| `Settlement!DeferredIsRetried` | entry sent alone, `Audit = FALSE` | an entry deferred for want of a completion is never tried again | `settlement.py:883` |
| `Settlement!PaidIsCompletion` | a third node that executed the same work | an earner is paid whose work is not the completion the board records | `settlement.py:828` |
| `Settlement!CacheIsBalance` | `Restarted` | a restart between the commit of an entry and the write of `balance_cache` leaves the cache behind, and a redelivery returns early; only the next entry with that peer corrects it (`ledger.py:503`: "kept consistent with the truth"; `get_balance` is not affected) | `ledger.py:361`, `:379` |
| `GuardConfig!HistoryChained` | `shared` once | two processes that install at once break the chain, and later starts are refused | `guardconfig.py:518` |
| `Subcontract!NeverInDebt` | `SharedBookSpec`, `preempt` | `reserve` is not locked: two threads hold the same credits | `subcontract.py:201` |

Second, properties that fail on the instance of the component's own run:

| Property | What happens | Where |
|---|---|---|
| `Subcontract!PaidOncePerTask` | a retry draws a fresh child id, so the book does not dedupe it | `coordinator.py:168` |
| `Subcontract!FailureReleases` | an exception of `await_result` or `sign_grant` is caught by nobody and leaves the hold active (`coordinator.py:42`: "Any failure path releases the reservation") | `coordinator.py:190`, `:209` |
| `Subcontract!HoldOrDebit` | hold and debit are both counted between co-signature and settle | `subcontract.py:31` |
| `GuardConfig!VersionsNeverDrop`, `LooseningDeclared` | one process installs version 1, another one version 3, the first then version 2: the floor and the recorded bounds are read only by a process that has no configuration yet (`guardconfig.py:357`: "refuses anything below it") | `guardconfig.py:556`, `:568` |
| `GuardConfig!RetiredKeyStays` | successions live in memory; a restart trusts the retired key again | `guardconfig.py:283`, `:404` |
| `GuardConfig!RegistryIsConfig` | `apply_to` keeps the level of a class whose bound was removed | `guardconfig.py:57`, `harm.py:177` |
| `Review!VerifyChain` | an insert of another process between the read of the last hash and that of the next number gives a row with a fresh number and a stale hash, which the unique `seq` does not stop | `review.py:116`, `:120` |
| `Review!OnePending` | the check is idempotent within one process only | `review.py:244` |
| `Review!ResumeBuysInterval` | the new origin of a RESUME is stored and never read | `review.py:140` |
| `Gate!PromotedWithinBound` | a gated action is evaluated on a state that does not contain it | `staging.py:313` |
| `Supervisor!StallCeiling` | a stalled child older than the window resets the count, so the ceiling is never reached | `supervisor.py:712` |
| `Roster!StopIsClean`, `OneThreadPerAgent`, `IdleSpared` | a pass under way restarts a stopped slot; a stray acts beside its successor; an idle thread is replaced for what an earlier claim did | `roster.py:179`, `:272`, `:240` |
| `DaemonLife!StopTerminates`, `HungReplaced`, `StreamsSurvive` | a launch around the stop survives it; a daemon that hangs but accepts counts as running; message streams end with their daemon | `daemon_supervisor.py:181`, `:258`, `netd_client.py:650` |
| `DeltaBus!OnlyDuplicatesDropped` | numbers are drawn before publishing, so a first copy can arrive below the mark and be dropped | `gossip.go:32` |
| `TierCache!CachedUntilSlack` | a positive verdict outlives the slack it was given for | `verifier.go:265` |
| `AgentDirectory!UnpublishedIsForgotten`, `GoneEventually` | a republish pass under way brings a withdrawn agent back | `dht.go:449`, `:495` |
| `Attestation!SkewTolerated` | an applicant whose clock is behind is refused within the documented skew | `capability.go:76`, `:207` |
| `Formation!PartnersServe`, `LeftIsAlone` | a late joiner counts nodes that do not count it; a start goes on after `leave` and attaches a Raft node | `cluster.py:147`, `network_blackboard.py:111` |
| `ArtifactStore!FittingIsAlwaysStored`, `WithinCapacity`, `GetAnswers` | an artifact that fits is refused, the cap is overrun, a read raises, in `get` and at the head of `fetch`, each under a race with another process | `artifact_store.py:92`, `:81`, `:137` |
| `Submit!AlwaysRouted`, `DoneIsDelivered` | the agent is not connected to the submitting node, or has looked nodes up within the last second, and skips the push, which nobody repeats; neither is a push that fails | `global_cluster.py:1002`, `peer_registry.py:80` |

Third, seen while reading, beside the models: `spec_from_enforcement` drops the
rate cap, so work under a rate-capped grant can never be paid
(`delegation.py:179`); a market agent may bond again on a task that was
resolved (`market.py:345`), and `select_targeted` passes over a task nobody
contests for as long as others are contested anew, so its bonds may stay in
escrow (`resolution.py:135`); `promote` evaluates the classes it is given, so
one that is left out is not bounded by it (`staging.py:297`,
`Gate!InteriorWithinBound` asks for it by `~unmeasured`); the last paid call of
a day may overspend the spend cap by what it costs, since that is known
afterwards (`demo_agent.py:259`); `gyza review` passes a registry in which the
cadence bound is retired (`cli.py:981`); `saw_attempt` is not reset on
completion (`supervisor.py:683`); `Subscribe` and `JoinProject` after `Close`
write to a nil map, and leaving and rejoining a project forgets its marks
(`gossip.go`); a failed read is taken for an empty bucket (`dht.go:411`); the
end of a superseded connection pops the record of the surviving one
(`transport.py:594`), the manual dialler replaces a healthy connection
(`discovery.py:353`), and the heartbeat timeout cannot fire
(`transport.py:637`); storing over a rotten file reports success, and a crash
leaves `.tmp` files nobody counts (`artifact_store.py`).

### Fairness

Weak fairness of a loop means that its thread is scheduled and has no unbounded
wait; each case was read off the code.

- `Runner!FairSpec`: a live runner's loop takes its next step (executors have a
  time limit), time passes, and the supervisor restarts a dead runner while its
  ceiling allows. Posting, expiry and faults are not fair.
- `GossipBoard!Fairness`: runners keep polling and finish, receive threads keep
  applying what has arrived. `Settlement!FairSpec`: the receive thread of each
  node goes on: the balance of an entry it saved, then its echo, then the next
  message.
- `RaftFairness`: committed entries are applied, calls time out, leases are
  reclaimed. Strong fairness of `try_claim`: a poller keeps asking, while the
  row it wants may be taken and freed again between two polls.
- `SupFairness`, `RosterFairness`, `DaemonFairness`: the watch loops run. Strong
  fairness of `tick` and `roster_tick`: time passes although passes of the loop
  keep interrupting it. What a child does is not fair: it may wedge.
- `BusFairness`: receive loops and readers other than `Stuck` run.
  `TierFairness`: a call goes on, fetches end by their timeout. `AttFairness`:
  both ends of a stream run until its deadline. `DirFairness`: DHT requests end
  and the ticker ticks; strong fairness of the loop's accepted write, since a
  publication takes seconds and the ticker half an hour, so the loop is not
  overtaken every time.
- `LanFairness`, `FormationFairness`, `SubmitFairness`: event loops deliver
  frames or end the connection, clocks advance, the hosted agent polls.
- `Subcontract!Fairness`: each call goes on, its wait bounded by a timeout.
  `Market` has none: nothing under `src/` holds rounds again and again, so no
  bond is said to be released.  `ReviewFairness`:
  a process that began an append finishes or dies.

## Proofs

Theorems hold for every value of the constants that satisfies the `ASSUME` of
the module: any number of agents, nodes, items, entries or calls, clocks and
amounts of any size, every fault budget unless a hypothesis names one. A
hypothesis is a set of faults the code does not survive (the tables above show
the counterexamples) or a fact about a constant that the code fixes.

| Theorem | Run property | Hypothesis |
|---|---|---|
| `Runner_proofs!TypeCorrect` | `TypeOK` | none |
| `Runner_proofs!CompletionStaysWithHolder` | `CompletionByHolder` | none |
| `Runner_proofs!HoldersItemIsOpen` | | none |
| `Runner_proofs!Refinement` | `ImplementsWorkBoard` | none |
| `Runner_proofs!OneRunnerPerItem` | `MutualExclusion` | as long as nobody has restarted, overrun its lease or met a storage error (`Calm`) |
| `Runner_proofs!LeasesAreHonoured` | `LeaseHonoured` | the same faults have no budget |
| `Runner_proofs!CombineGateHolds` | `NoPartialCombine` | plans name the combiner last (`PlansCombineLast`) |
| `GossipBoard_proofs!ArrivedItemsHaveRows` | `ArrivedItemHasRow` | none |
| `GossipBoard_proofs!StampsMoveForward` | `StampsAdvance` | one clock per node, no restart |
| `GossipBoard_proofs!BoardsAgree` | `ClaimsAreSound` | one clock per node; nothing lost, early, raced, released or restarted (`Undisturbed`) |
| `RaftBoard_proofs!ReplicasStayTogether` | `ReplicasAgree` | none |
| `Settlement_proofs!EarnerFollowsPayer` | `EarnerNeverAhead` | none |
| `Settlement_proofs!OnlyAuditedWorkIsPaid` | `PaidWorkIsAudited` | none |
| `Settlement_proofs!TheBooksAgree` | `BooksAgree` | none |
| `Settlement_proofs!SuccessesCountOnce` | `SuccessCountedOnce` | none |
| `Settlement_proofs!HonestPeersUndisputed` | `HonestNotDisputed` | work is executed once (`ExecutedOnce`) and nobody reconciles (`NobodyReconciles`) |
| `Settlement_proofs!PagesHideNothing` | `ReconcileSeesAll` | no two entries share a `created_at_ns` (`Faults["tie"] = 0`) |
| `Subcontract_proofs!PaymentsAreDue` | `PaidRightly` | none |
| `Subcontract_proofs!MoneyStaysExact` | `MoneyExact` | none |
| `Subcontract_proofs!AuthorityOnlyShrinks` | | none |
| `Guard_proofs!GuardHolds` | `GuardOnlyTightens` | as long as no install has overlapped another's recording (`NoOverlap`); versions, loosening and reloading, in the property itself, until a stale install |
| `Guard_proofs!InteriorHolds` | `InteriorContained` | none |
| `Service_proofs!SubmitsAreServed` | `SubmitServed` | none |
| `Service_proofs!ArtifactsStayAccounted` | `ArtifactsAccounted` | none |
| `Service_proofs!StoreKeepsCapacity` | `CapacityKept` | none |

**Runners.** `IInv` is the conjunction of `TypeOK`; `RoundInv`, which says that
a runner past its fetch has an item, while it spawns a child left to post and,
when it is about to complete, an envelope it signed for that item (`TypeCorrect`
states the two together); `CompletionByHolder`; and
`HolderWorksOnOpenItem`. The last two need each other: a completion could
overwrite a result only if a runner still held an item that was completed, and
a holder's item stays open because only its holder completes it. `Refinement`
maps every board operation to `Take`, `Lose`, `Deliver` or a stutter of
`WorkBoard`. `OneRunnerPerItem` adds (`CInv`) that a runner inside
a round holds its row within its lease, that whoever holds an open row works
on it or is down, and that what a reaper has seen as expired belongs to a
runner that is down. Exclusion is then the fact that a row has one
`claimed_by`, and `LeasesAreHonoured` follows from the same invariant step by
step. `CombineGateHolds` needs to know
who the siblings of a combiner are before its parent has posted them all, so
`KInv` follows the plan: what a runner has posted and not yet signed is its
own family (`PlanOK`, `FamilyOK`), the combiner is the last of it, and a runner
past the gather of a combiner has the output of every other member. Executors
append the combiner to the leaves (`executors.py:69`); with another order the
gate is open, as the table above says.

**Gossip.** `StampsMoveForward` rests on one fact: a node's clock has reached
the stamp of every row of its board (`RowsReached`), because `recv` runs on
what is merged. `BoardsAgree` needs two more. `StampNamesClaimant`: every claim
in sight, on a row, on its way or about to be published, has a stamp that its
clock of origin has reached, hence a fresh `now` is new, and two equal stamps
have one claimant. `EveryoneHears`: for every stamp anyone has for an item and
every node, the node has finished the item, has that stamp or a later one, or
will be told, by a delta on its way to it or by an agent elsewhere that has yet
to publish. When nothing is on its way each of two nodes has a stamp at least
as late as the other's, and the order is total.

**Raft.** `ReplicasStayTogether`: an item nobody freed is worked on by one
agent, and nodes that have applied the whole log have the same outputs. The
invariant ties every table to the log: the output of a row is that of the last
completion applied (`OutputFollowsLog`), the holder of a row nobody freed is
whoever comes first in the log (`HolderIsFirst`), and both have to survive a
restart, after which a table on disk is ahead of what the node has applied.
First and last entries of the log come from `FiniteFacts`.

**Settlement.** `IInv` adds to the two results what they need: the books are
typed, a ledger row or a message refers to a created entry, and an echo, in
flight or about to be sent, refers to an entry the payer has settled
(`EchoesAreSettled`). No step takes a signature away (`SettledStays`), so an
echo stays truthful however long it is delayed. `JInv` adds what the other
results need: as long as nothing was lost and nobody restarted, what the payer
has settled and the earner has not is on its way (`EchoesArePending`); the
successes recorded for a peer are the settled entries with it, without the one
that is not finished (`SuccessesMatch`); and a row of `balance_cache` is the
sum over the settled entries unless it is `behind`, which the entry at hand or
a restart explains (`CacheCatchesUp`). `TheBooksAgree` is then a statement
about two sums over the same set of entries. `HonestPeersUndisputed` gives
every dispute its cause (`DisputesHaveCause`): an entry that is not honest, or
one that went to a node that does not owe it. `PagesHideNothing` says where the
rest of a reconciliation is (`PagesReach`): what the peer held at the start has
been received, lies on the page at hand, or comes after the cursor, and the
same holds of every request and response in flight that belongs to the call.
What is received ends in `agreed`, `disputed` or, if the caller has no row of
it, `missing_ours`. Cursors are ordered by time alone, so the argument needs
times that differ (`TimesDiffer`); with a tie the property fails, as the table
above says.

**Subcontracts.** `PaymentsAreDue`: what is paid is paid once, by one path,
never after its release, to another agent, and for work inside what was
delegated. The invariant says for each step of a call what its reservation, its
result and its entries may be. `AuthorityOnlyShrinks`: along a chain of any
length that `verify_delegation` accepts, the manifest and the sandbox of each
hop stay inside the manifest of every hop above it (`capability_subset` is a
preorder, and the induction over the chain is the choice of its first failure).
`MoneyStaysExact` needs `MInv`. Copies that arrive are what a row is or was
(`RowsInv`), so no two of them conflict and the wallet's fold, in any order,
keeps exactly the final one of each id, which are the rows. What the rows say
was received and sent are the sums over incomes and over paid calls
(`SumsInv`). And `Covered`: income covers what was paid together with what is
held and not yet paid, which is what `can_reserve` establishes and what keeps
the balance above zero when several holds are paid one after the other.

**Guard configuration.** `GuardHolds`: the history verifies, versions never
drop, bounds loosen only by a signed record, and what was recorded last loads
again. The first needs only that one process at a time is between install and
record and has read the last link (`Linked`). The others (`Following`) hold
until a process installs over a configuration that is not the last recorded: up
to then what is installed may follow the last entry whether it is recorded or
not (`CurrentMayFollow`), which is what lets a lost record do no harm.

**Gate.** `InteriorHolds`: until an unlocked call meets a promotion (`racing =
MaxRacing`) or one leaves the class out (`unmeasured`), the harm of the staged
events that promotions have let through stays within the bound; and, without
that condition, no event that a rollback abandoned is live. The decision of
`promote` and its effect are two steps, so the invariant says what a decision
to admit stands on (`AdmissionStands`: the harm of the whole log is within the
bound), and that what a rollback lists as its victims is abandoned
(`VictimsAbandoned`).

**Submits.** `SubmitsAreServed`: whatever is lost, late or crashes, a submit
gets no result but its own; before any fault it times out only when the agent
had no route to its node (`unrouted`); and but for calls that a crash left
unrecorded the numbers of calls keep their caps and the cost of a day stays
below the spend cap and one call more. The invariant `SInv` follows a task from
the board to the inbox (`WorkFollows`: the agent works on what it has claimed;
`ResultsAreComing`: before any fault, a claimed task is at hand and what a
process waits for is on its way to it) and the calls of one day: everything
spent is in the quota but the call at hand and the unrecorded ones
(`CallsAreRecorded`), and the call at hand was allowed when it was checked, or
the day has changed since (`CallsAreAllowed`, with `FutureIsEmpty`). `Billed`
says the same of the cost, which the check bounds before the call and not after
it.

**Artifacts.** `AInv` says of every call what it knows about a directory that
others change (`CallFine`): a writer that evicts has every file on its list and
reckons with no fewer bytes than there are, unless another file landed since
its scan, hence when it is done its artifact fits; a fetch has yet to ask every
honest peer, unless its own store has raised or answered. `StoreKeepsCapacity`
adds up what is on disk and what every writer past the check is about to write
(`StoreBounded`): a writer passes the check only when its own artifact fits, so
all but one of them are in excess. `ArtifactsStayAccounted` counts, for each
artifact, the calls between the unlink and its record; two evictors of one scan
unlink a file once because the second finds it gone.

**Sums and induction.** The provers cannot instantiate an induction theorem
with an operator, so `FiniteFacts` derives what is needed from the least member
of a set of naturals: `NatSetInduction` takes the set of numbers for which a
statement holds as a set, and induction over a finite set is induction over its
cardinality. From it: `SumFunction` of the community modules is defined on
every finite domain (`SumDefined`), depends only on its domain (`SumLocal`),
and splits, shrinks and stays natural as sums do (`SumRemove`, `SumSplit`,
`SumInside`, `SumIsNat`, `SumOfPart`, `SumOfChange`, `SumIsBounded`). The fold
of the wallet is treated alike.

Only model-checked, and why:

- everything temporal: `AllComplete`, `ClaimReturns`, `CompletesEverywhere`,
  `SubmittedSettles`, `HoldsEnd`, and the conjunctions with a leads-to in them
  (`SupervisionHolds`, `RosterHolds`, `DaemonServes`, `ReviewsHappen`,
  `ItemsComplete`, `ConnectionsSettle`, `FormationAgrees`, `BusDelivers`,
  `TierAnswers`, `QuorumCertified`, `DirectoryHeals`): fairness and `ENABLED`
  are out of this prover's reach;
- `CapitalFollowsTruth`, an invariant: shares of a pot are quotients of sums
  over the winners, with which the SMT backend does not reckon.

## Not modelled, and the plan

By choice of abstraction, inside modelled components: SQL text, formats,
signatures, file paths, logging, metrics and status reports; the scores that
rank items and peers; directory walks of the artifact store as one step; the
gRPC handlers and client wrappers, which pass one call on.

Not modelled at all, with the reason:

- the verification layer and the coordination scheduler: tables and a queue in
  one thread, the latter not adopted by production code;
- scoring, embeddings, memory, drift, demand, reward, audit: real-valued and
  sequential;
- identity and keys: taken as honest constants;
- the other commands of the command line, executors, demonstrations, release;
- research experiments, the generated gRPC code and the Rust implementation of
  the same formats. These, with the command line and demonstrations, are well
  over half of the lines of the repository, so most of its lines stay outside
  any model of its concurrency;
- bubblewrap, libp2p, QUIC, pysyncobj: libraries, modelled by how they are used.

Every invariant that a run checks has a theorem but `CapitalFollowsTruth`.
Next, in this order: the safety parts of the temporal conjunctions, which are
invariants or step properties by themselves (the review chain, what a stop
leaves behind, versions that never drop, capital that follows resolution). Then
`verify_chain`, `verify_dag` and equivocation detection as operators over
bounded histories, with strict lineage in `Runner`.
