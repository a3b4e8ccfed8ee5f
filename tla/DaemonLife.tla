----------------------------- MODULE DaemonLife -----------------------------
(***************************************************************************)
(* The life of gyza-netd under DaemonSupervisor (network/                  *)
(* daemon_supervisor.py) and what GlobalCluster (network/global_cluster.py)*)
(* keeps in it: the advertisements, the gossip topics of its projects and  *)
(* the two subscription streams, of settlement messages and of deltas.     *)
(* The caller starts once and stops once; the heartbeat thread runs beside *)
(* it.                                                                     *)
(***************************************************************************)
EXTENDS Integers

CONSTANTS
    Projects,
    FailThreshold,   \* fail_threshold
    NetdFaults       \* [NetdFaultKinds -> Nat]: how often each may happen

(* crash: the daemon dies; hang: it stops answering; flake: a health check  *)
(* fails though it is well; launch: a launch fails; step: a step of the     *)
(* recovery or of a publication fails.                                      *)
NetdFaultKinds == {"crash", "hang", "flake", "launch", "step"}

ASSUME DaemonAssumption ==
    FailThreshold \in Nat \ {0} /\ NetdFaults \in [NetdFaultKinds -> Nat]

VARIABLES
    daemon,      \* the process on the port: "none", "starting", "up", "hung"
    handle,      \* _proc refers to a process
    fails,       \* _consec_failures
    stopEvt,     \* _stop_evt
    heart,       \* what the heartbeat thread is at
    caller,      \* what the owner is at
    projects,    \* _projects
    topics,      \* the topics the daemon has joined
    attached,    \* attach_gossip was called
    streams,     \* the receive threads that still run
    ads,         \* the daemon's advertisements are out
    missed,      \* history: projects whose last join raised
    unanswered,  \* history: checks since one was answered
    late,        \* history: stop went on without the thread
    netdFaults   \* faults still allowed

cluster == <<projects, topics, attached, streams, ads, missed>>
supervision == <<daemon, handle, fails, stopEvt, heart, caller, unanswered, late>>
daemonVars == <<cluster, supervision, netdFaults>>

Hearts == {"none", "wait", "blocked", "kill", "launch", "launching", "backoff", "recover", "ended"}
Callers == {"new", "in", "joining", "closing", "out"}

Strikes(f) == netdFaults[f] > 0 /\ netdFaults' = [netdFaults EXCEPT ![f] = @ - 1]

(* A process that goes takes its topics, its advertisements and the streams *)
(* with it: both receive loops take UNAVAILABLE for the end.                *)
Gone ==
    /\ daemon' = "none"
    /\ topics' = {} /\ ads' = FALSE /\ streams' = {}

-----------------------------------------------------------------------------
(* The daemon.                                                              *)
crash ==
    /\ daemon \in {"up", "hung"} /\ Strikes("crash")
    /\ Gone
    /\ UNCHANGED <<handle, fails, stopEvt, heart, caller, projects, attached, missed, unanswered, late>>

hang ==
    /\ daemon = "up" /\ Strikes("hang")
    /\ daemon' = "hung"
    /\ UNCHANGED <<cluster, handle, fails, stopEvt, heart, caller, unanswered, late>>

-----------------------------------------------------------------------------
(* The heartbeat thread.                                                    *)

(* Fault: the count is not reset by a respawn.                              *)
TallyUnreset(healthy) ==
    IF healthy THEN heart' = "wait" /\ fails' = 0
    ELSE /\ fails' = fails + 1
         /\ heart' = IF fails + 1 < FailThreshold THEN "wait" ELSE "kill"

(* Fault: an answer does not end the run of failures.                       *)
TallyKept(healthy) ==
    IF healthy THEN heart' = "wait" /\ UNCHANGED fails
    ELSE /\ fails' = IF fails + 1 < FailThreshold THEN fails + 1 ELSE 0
         /\ heart' = IF fails + 1 < FailThreshold THEN "wait" ELSE "kill"

(* _heartbeat_loop after a check; the count is reset when a respawn ends,   *)
(* which nothing can see before.                                            *)
Tally(healthy) ==
    IF healthy THEN heart' = "wait" /\ fails' = 0
    ELSE /\ fails' = IF fails + 1 < FailThreshold THEN fails + 1 ELSE 0
         /\ heart' = IF fails + 1 < FailThreshold THEN "wait" ELSE "kill"

Counted(healthy) ==
    /\ Tally(healthy)
    /\ unanswered' = IF healthy THEN 0
                     ELSE IF unanswered < FailThreshold THEN unanswered + 1 ELSE unanswered

(* _check_health: a dead process is a failure, a live one is asked, without *)
(* a deadline.                                                              *)
check ==
    /\ heart = "wait" /\ ~stopEvt
    /\ \/ daemon # "hung" /\ Counted(daemon = "up") /\ UNCHANGED netdFaults
       \/ daemon = "up" /\ Strikes("flake") /\ Counted(FALSE)
       \/ daemon = "hung" /\ heart' = "blocked" /\ UNCHANGED <<fails, unanswered, netdFaults>>
    /\ UNCHANGED <<cluster, daemon, handle, stopEvt, caller, late>>

(* The process that was asked dies and the call fails.                      *)
check_fails ==
    /\ heart = "blocked" /\ daemon = "none"
    /\ Counted(FALSE)
    /\ UNCHANGED <<cluster, daemon, handle, stopEvt, caller, late, netdFaults>>

(* _do_respawn: the old process first.                                      *)
respawn_kill ==
    /\ heart = "kill"
    /\ heart' = "launch" /\ handle' = FALSE
    /\ IF handle THEN Gone ELSE UNCHANGED <<daemon, topics, ads, streams>>
    /\ UNCHANGED <<fails, stopEvt, caller, projects, attached, missed, unanswered, late, netdFaults>>

launch_begin ==
    /\ heart = "launch" /\ ~stopEvt /\ daemon = "none"
    /\ heart' = "launching" /\ daemon' = "starting"
    /\ UNCHANGED <<cluster, handle, fails, stopEvt, caller, unanswered, late, netdFaults>>

launch_fails ==
    /\ heart = "launching" /\ Strikes("launch")
    /\ heart' = "backoff" /\ daemon' = "none"
    /\ UNCHANGED <<cluster, handle, fails, stopEvt, caller, unanswered, late>>

launch_ok ==
    /\ heart = "launching"
    /\ heart' = "recover" /\ daemon' = "up" /\ handle' = TRUE
    /\ UNCHANGED <<cluster, fails, stopEvt, caller, unanswered, late, netdFaults>>

(* Fault: a launch that fails ends the thread.                              *)
BackoffEnds ==
    /\ heart = "backoff"
    /\ heart' = "ended"
    /\ UNCHANGED <<cluster, daemon, handle, fails, stopEvt, caller, unanswered, late, netdFaults>>

backoff ==
    /\ heart = "backoff" /\ ~stopEvt
    /\ heart' = "launch"
    /\ UNCHANGED <<cluster, daemon, handle, fails, stopEvt, caller, unanswered, late, netdFaults>>

(* The loop, the backoff and the respawn look at the event.                 *)
heart_ends ==
    /\ heart \in {"wait", "launch", "backoff"} /\ stopEvt
    /\ heart' = "ended"
    /\ UNCHANGED <<cluster, daemon, handle, fails, stopEvt, caller, unanswered, late, netdFaults>>

(* Fault: recovery ends with the first step that fails.                     *)
RecoverAborts ==
    /\ heart = "recover" /\ daemon # "hung"
    /\ heart' = "wait"
    /\ \/ /\ daemon = "up" /\ topics' = projects /\ missed' = {} /\ ads' = TRUE
          /\ UNCHANGED netdFaults
       \/ /\ Strikes("step")
          /\ UNCHANGED <<topics, missed, ads>>
       \/ /\ daemon # "up"
          /\ UNCHANGED <<topics, ads, netdFaults>> /\ missed' = projects
    /\ UNCHANGED <<daemon, handle, fails, stopEvt, caller, projects, attached, streams, unanswered, late>>

(* _on_daemon_respawn: each step on its own, and none of them fatal.  At    *)
(* most one fails while the daemon lives; all do when it has gone again.    *)
recover ==
    /\ heart = "recover" /\ daemon # "hung"
    /\ heart' = "wait"
    /\ \/ /\ daemon = "up" /\ topics' = projects /\ missed' = {} /\ ads' = TRUE
          /\ UNCHANGED netdFaults
       \/ /\ daemon = "up" /\ Strikes("step")
          /\ topics' = projects /\ missed' = {} /\ UNCHANGED ads
       \/ /\ daemon = "up" /\ Strikes("step")
          /\ \E p \in projects : topics' = projects \ {p} /\ missed' = {p}
          /\ ads' = TRUE
       \/ /\ daemon # "up"
          /\ UNCHANGED <<topics, ads, netdFaults>> /\ missed' = projects
    /\ UNCHANGED <<daemon, handle, fails, stopEvt, caller, projects, attached, streams, unanswered, late>>

-----------------------------------------------------------------------------
(* The owner.                                                               *)

(* GlobalCluster.start: the supervisor's first launch, which raises when it *)
(* fails, then the settlement thread and its stream.                        *)
cluster_start ==
    /\ caller = "new"
    /\ caller' = "in" /\ heart' = "wait" /\ daemon' = "up" /\ handle' = TRUE
    /\ streams' = {"messages"}
    /\ UNCHANGED <<fails, stopEvt, projects, topics, attached, ads, missed, unanswered, late, netdFaults>>

cluster_start_fails ==
    /\ caller = "new" /\ Strikes("launch")
    /\ UNCHANGED <<cluster, supervision>>

(* find_and_collaborate once the members are known: join, attach, track.    *)
(* The three calls are far shorter than the heartbeats a respawn waits for. *)
find_and_collaborate(p) ==
    /\ caller = "in" /\ p \notin projects /\ daemon # "hung"
    /\ projects' = projects \cup {p}
    /\ IF daemon = "up" THEN topics' = topics \cup {p} /\ UNCHANGED missed
       ELSE missed' = missed \cup {p} /\ UNCHANGED topics
    /\ attached' = TRUE
    /\ streams' = IF ~attached /\ daemon = "up" THEN streams \cup {"deltas"} ELSE streams
    /\ UNCHANGED <<ads, supervision, netdFaults>>

(* Fault: a publication that raises ends the loop.                          *)
PublishOnce ==
    /\ caller = "in" /\ daemon = "up" /\ ~ads
    /\ netdFaults["step"] = NetdFaults["step"]
    /\ \/ ads' = TRUE /\ UNCHANGED netdFaults
       \/ Strikes("step") /\ UNCHANGED ads
    /\ UNCHANGED <<projects, topics, attached, streams, missed, supervision>>

(* _republish_loop: one publication of every agent.                         *)
publish_agents ==
    /\ caller = "in" /\ daemon = "up" /\ ~ads
    /\ \/ ads' = TRUE /\ UNCHANGED netdFaults
       \/ Strikes("step") /\ UNCHANGED ads
    /\ UNCHANGED <<projects, topics, attached, streams, missed, supervision>>

(* GlobalCluster.stop ends the loop and the streams, then the supervisor.   *)
cluster_stop ==
    /\ caller = "in"
    /\ caller' = "joining" /\ stopEvt' = TRUE
    /\ attached' = FALSE /\ streams' = {}
    /\ UNCHANGED <<daemon, handle, fails, heart, projects, topics, ads, missed, unanswered, late, netdFaults>>

(* Fault: the process is taken before the thread has ended.                 *)
JoinNothing ==
    /\ caller = "joining"
    /\ caller' = "closing"
    /\ UNCHANGED <<cluster, daemon, handle, fails, stopEvt, heart, unanswered, late, netdFaults>>

(* The join ends, or gives up after five seconds on a thread that is at     *)
(* something it does not interrupt.                                         *)
join ==
    /\ caller = "joining"
    /\ heart \in {"ended", "blocked", "kill", "launching", "recover"}
    /\ caller' = "closing"
    /\ late' = (heart # "ended")
    /\ UNCHANGED <<cluster, daemon, handle, fails, stopEvt, heart, unanswered, netdFaults>>

close ==
    /\ caller = "closing"
    /\ caller' = "out" /\ handle' = FALSE
    /\ IF handle THEN Gone ELSE UNCHANGED <<daemon, topics, ads, streams>>
    /\ UNCHANGED <<fails, stopEvt, heart, projects, attached, missed, unanswered, late, netdFaults>>

-----------------------------------------------------------------------------
DaemonInit ==
    /\ daemon = "none" /\ handle = FALSE /\ fails = 0 /\ stopEvt = FALSE
    /\ heart = "none" /\ caller = "new" /\ unanswered = 0 /\ late = FALSE
    /\ projects = {} /\ topics = {} /\ attached = FALSE /\ streams = {}
    /\ ads = FALSE /\ missed = {}
    /\ netdFaults = NetdFaults

DaemonNext ==
    \/ crash \/ hang
    \/ check \/ check_fails \/ respawn_kill \/ launch_begin \/ launch_fails \/ launch_ok
    \/ backoff \/ heart_ends \/ recover
    \/ cluster_start \/ cluster_start_fails \/ publish_agents \/ cluster_stop \/ join \/ close
    \/ \E p \in Projects : find_and_collaborate(p)

DaemonSpec == DaemonInit /\ [][DaemonNext]_daemonVars

(* The thread keeps going, launches end, and the republish loop comes round.*)
DaemonFairness ==
    /\ WF_daemonVars(check \/ check_fails \/ respawn_kill \/ launch_begin \/ launch_ok
                     \/ backoff \/ heart_ends \/ recover)
    /\ WF_daemonVars(publish_agents)
    /\ WF_daemonVars(join \/ close)

-----------------------------------------------------------------------------
(* Properties.                                                              *)

(* The state has its types.                                                 *)
DaemonTypeOK ==
    /\ daemon \in {"none", "starting", "up", "hung"}
    /\ handle \in BOOLEAN /\ stopEvt \in BOOLEAN /\ late \in BOOLEAN
    /\ fails \in 0..(FailThreshold - 1) /\ unanswered \in 0..FailThreshold
    /\ heart \in Hearts /\ caller \in Callers
    /\ projects \subseteq Projects /\ topics \subseteq Projects /\ missed \subseteq Projects
    /\ attached \in BOOLEAN /\ ads \in BOOLEAN
    /\ streams \subseteq {"messages", "deltas"}
    /\ netdFaults \in [NetdFaultKinds -> Nat]

(* A stop that waited for its thread leaves no daemon behind, whatever the  *)
(* thread was at when it was called.                                        *)
OrderlyStop == caller = "out" /\ ~late => daemon = "none"

(* While the thread waits, every project of the cluster is a topic of the   *)
(* daemon it talks to, however often that was replaced, unless the call     *)
(* that should have joined it raised.                                       *)
TopicsRejoined ==
    caller = "in" /\ heart = "wait" /\ daemon = "up" => projects \subseteq topics \cup missed

(* A daemon is replaced only after FailThreshold checks without an answer   *)
(* in a row: blips between answers never add up.                            *)
BlipsTolerated ==
    [][heart = "kill" /\ heart' = "launch" => unanswered >= FailThreshold]_daemonVars

(* A daemon that died is replaced while the owner stays: it is down for     *)
(* good only if it hangs.                                                   *)
DaemonComesBack ==
    [](daemon = "none" /\ caller = "in" => <>(daemon \in {"up", "hung"} \/ caller # "in"))

(* The node does not stay unadvertised on a daemon that is well.            *)
Advertised == []<>(ads \/ daemon # "up" \/ caller # "in")

(* "reusing the same client object means callers (PeerRegistry,             *)
(* LedgerSettlementService, the gossip thread) don't have to be aware that  *)
(* respawns happen at all" (daemon_supervisor.py:27): while the thread      *)
(* waits on a daemon that is well, settlement messages are received.        *)
StreamsSurvive ==
    caller = "in" /\ heart = "wait" /\ daemon = "up" => "messages" \in streams

(* "Stop the heartbeat thread and terminate the daemon"                     *)
(* (daemon_supervisor.py:176).                                              *)
StopTerminates == caller = "out" /\ heart = "ended" => daemon = "none"

(* "count False as failure" (daemon_supervisor.py:258): a daemon that does  *)
(* not answer is replaced.                                                  *)
HungReplaced == [](daemon = "hung" => <>(daemon # "hung" \/ caller # "in"))

(* A daemon that died comes back with the projects and the advertisement of *)
(* its owner (_on_daemon_respawn), blips are tolerated, and an orderly stop *)
(* leaves no daemon.                                                        *)
DaemonServes ==
    /\ [](DaemonTypeOK /\ OrderlyStop /\ TopicsRejoined)
    /\ BlipsTolerated
    /\ DaemonComesBack
    /\ Advertised
=============================================================================
