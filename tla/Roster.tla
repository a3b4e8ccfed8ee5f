------------------------------- MODULE Roster -------------------------------
(***************************************************************************)
(* RunnerThreadRoster (gyza/roster.py): a fixed roster of agents as        *)
(* threads of one process.  A thread cannot be killed: the runner whose    *)
(* join ran out is forgotten with its thread still executing, under the    *)
(* same identity as the thread that replaces it.  stop does not take the   *)
(* lock of the watch pass.  Time passes in steps as in Supervisor.         *)
(***************************************************************************)
EXTENDS Integers

CONSTANTS
    Slots,
    RosterRestarts,   \* max_restarts
    StallSteps,       \* stall_timeout_s, in steps
    RosterStops       \* bound on the calls of stop

ASSUME RosterAssumption ==
    RosterRestarts \in Nat /\ StallSteps \in Nat \ {0} /\ RosterStops \in Nat

VARIABLES
    thread,   \* [Slots -> ThreadStates]: slot.runner._thread
    strays,   \* [Slots -> Nat]: threads of forgotten runners, each in an execution
    leaked,   \* [Slots -> BOOLEAN]: a dead thread left a claim behind
    tries,    \* [Slots -> Nat]: restarts
    out,      \* [Slots -> BOOLEAN]: gave_up
    still,    \* [Slots -> 0..StallSteps]: since last_progress_ns
    signed,   \* [Slots -> BOOLEAN]: an envelope since last_progress_ns
    tried,    \* [Slots -> BOOLEAN]: saw_attempt
    todo,     \* the slots the watch pass has still to look at
    passed,   \* a pass ended since time last passed
    mode,     \* "new", "up", "stopping", "stopped"
    toStop,   \* the slots stop has still to stop
    stops,    \* calls of stop so far
    crossed,  \* history: a pass was under way when stop was last called
    unsigned  \* history [Slots -> 0..StallSteps]: since the last envelope

slotVars == <<thread, strays, leaked, tries, out, still, signed, tried, unsigned>>
rosterVars == <<slotVars, todo, passed, mode, toStop, stops, crossed>>
control == <<todo, passed, mode, toStop, stops, crossed>>

ThreadStates == {"none", "idle", "busy", "dead"}
_alive(s) == thread[s] \in {"idle", "busy"}

-----------------------------------------------------------------------------
(* The threads, each a runner of module Runner.                             *)
thread_claims(s) ==
    /\ thread[s] = "idle"
    /\ thread' = [thread EXCEPT ![s] = "busy"]
    /\ UNCHANGED <<strays, leaked, tries, out, still, signed, tried, unsigned, control>>

Signs(s) ==
    /\ signed' = [signed EXCEPT ![s] = TRUE]
    /\ unsigned' = [unsigned EXCEPT ![s] = 0]

thread_signs(s) ==
    /\ thread[s] = "busy"
    /\ thread' = [thread EXCEPT ![s] = "idle"]
    /\ Signs(s)
    /\ UNCHANGED <<strays, leaked, tries, out, still, tried, control>>

thread_releases(s) ==
    /\ thread[s] = "busy"
    /\ thread' = [thread EXCEPT ![s] = "idle"]
    /\ UNCHANGED <<strays, leaked, tries, out, still, signed, tried, unsigned, control>>

thread_dies(s) ==
    /\ _alive(s)
    /\ thread' = [thread EXCEPT ![s] = "dead"]
    /\ leaked' = [leaked EXCEPT ![s] = @ \/ thread[s] = "busy"]
    /\ UNCHANGED <<strays, tries, out, still, signed, tried, unsigned, control>>

(* A forgotten thread ends with its execution, completed or failed.         *)
stray_signs(s) ==
    /\ strays[s] > 0
    /\ strays' = [strays EXCEPT ![s] = @ - 1]
    /\ Signs(s)
    /\ UNCHANGED <<thread, leaked, tries, out, still, tried, control>>

stray_releases(s) ==
    /\ strays[s] > 0
    /\ strays' = [strays EXCEPT ![s] = @ - 1]
    /\ UNCHANGED <<thread, leaked, tries, out, still, signed, tried, unsigned, control>>

leaked_lease_expires(s) ==
    /\ leaked[s]
    /\ leaked' = [leaked EXCEPT ![s] = FALSE]
    /\ UNCHANGED <<thread, strays, tries, out, still, signed, tried, unsigned, control>>

-----------------------------------------------------------------------------
(* AgentRunner.stop: the join of an execution under way times out; one that *)
(* ends in time is a stray that ends at once.                               *)
runner_stop(s) ==
    /\ strays' = [strays EXCEPT ![s] = @ + (IF thread[s] = "busy" THEN 1 ELSE 0)]
    /\ thread' = [thread EXCEPT ![s] = "none"]

_holds_claim(s) == thread[s] = "busy" \/ strays[s] > 0 \/ leaked[s]

(* Fault: an envelope does not count.                                       *)
StalledUnread(s) == still[s] >= StallSteps /\ (tried[s] \/ _holds_claim(s))

Stuck(s) == ~signed[s] /\ still[s] >= StallSteps /\ (tried[s] \/ _holds_claim(s))

(* Fault: holding a claim counts as progress.                               *)
NoteClaimProgress(s) ==
    /\ still' = [still EXCEPT ![s] = IF signed[s] \/ _holds_claim(s) THEN 0 ELSE @]
    /\ signed' = [signed EXCEPT ![s] = FALSE]
    /\ tried' = [tried EXCEPT ![s] = @ \/ _holds_claim(s)]

(* What _check_progress records of a slot it leaves alone.                  *)
Note(s) ==
    /\ still' = [still EXCEPT ![s] = IF signed[s] \/ @ >= StallSteps THEN 0 ELSE @]
    /\ signed' = [signed EXCEPT ![s] = FALSE]
    /\ tried' = [tried EXCEPT ![s] = @ \/ (~signed[s] /\ _holds_claim(s))]

(* _start_slot: the thread starts and the mark moves, or the build fails    *)
(* and only this slot is given up.                                          *)
_start_slot(s) ==
    \/ /\ thread' = [thread EXCEPT ![s] = "idle"]
       /\ still' = [still EXCEPT ![s] = 0] /\ signed' = [signed EXCEPT ![s] = FALSE]
       /\ tried' = [tried EXCEPT ![s] = FALSE]
       /\ UNCHANGED out
    \/ /\ thread' = [thread EXCEPT ![s] = IF thread[s] = "dead" THEN "dead" ELSE "none"]
       /\ out' = [out EXCEPT ![s] = TRUE]
       /\ tried' = [tried EXCEPT ![s] = @ /\ ~_alive(s)]
       /\ UNCHANGED <<still, signed>>

(* Fault: the ceiling stops the restarts and is recorded nowhere.           *)
RestartSilently(s) ==
    IF tries[s] >= RosterRestarts
    THEN /\ thread' = [thread EXCEPT ![s] = IF _alive(s) THEN "none" ELSE @]
         /\ UNCHANGED <<tries, out, still, signed, tried>>
    ELSE tries' = [tries EXCEPT ![s] = @ + 1] /\ _start_slot(s)

(* Fault: no ceiling.                                                       *)
RestartForever(s) == tries' = [tries EXCEPT ![s] = @ + 1] /\ _start_slot(s)

(* The restarts are counted over the life of the roster.                    *)
Restart(s) ==
    /\ tries' = [tries EXCEPT ![s] = @ + 1]
    /\ IF tries[s] + 1 > RosterRestarts
       THEN /\ out' = [out EXCEPT ![s] = TRUE]
            /\ thread' = [thread EXCEPT ![s] = IF _alive(s) THEN "none" ELSE @]
            /\ tried' = [tried EXCEPT ![s] = @ /\ ~_alive(s)]
            /\ UNCHANGED <<still, signed>>
       ELSE _start_slot(s)

-----------------------------------------------------------------------------
(* _watch_loop, slot by slot, with the lock held.                           *)
Visits(s) ==
    /\ s \in todo
    /\ todo' = todo \ {s}
    /\ passed' = (passed \/ todo' = {})
    /\ UNCHANGED <<mode, toStop, stops, crossed>>

visit_out(s) ==
    /\ Visits(s)
    /\ out[s]
    /\ UNCHANGED slotVars

visit_fit(s) ==
    /\ Visits(s)
    /\ ~out[s] /\ _alive(s) /\ ~Stuck(s)
    /\ Note(s)
    /\ UNCHANGED <<thread, strays, leaked, tries, out, unsigned>>

(* The runner is told to stop, then replaced.                               *)
visit_stuck(s) ==
    /\ Visits(s)
    /\ ~out[s] /\ _alive(s) /\ Stuck(s)
    /\ strays' = [strays EXCEPT ![s] = @ + (IF thread[s] = "busy" THEN 1 ELSE 0)]
    /\ Restart(s)
    /\ UNCHANGED <<leaked, unsigned>>

visit_dead(s) ==
    /\ Visits(s)
    /\ ~out[s] /\ ~_alive(s)
    /\ Restart(s)
    /\ UNCHANGED <<strays, leaked, unsigned>>

visit(s) == visit_out(s) \/ visit_fit(s) \/ visit_stuck(s) \/ visit_dead(s)

(* Fault: the pass begins without a look at the stop event.                 *)
PassAnyway ==
    /\ mode # "new" /\ todo = {}
    /\ todo' = Slots
    /\ UNCHANGED <<slotVars, passed, mode, toStop, stops, crossed>>

watch_pass ==
    /\ mode = "up" /\ todo = {}
    /\ todo' = Slots
    /\ UNCHANGED <<slotVars, passed, mode, toStop, stops, crossed>>

-----------------------------------------------------------------------------
(* start builds every slot; stop sets the event, then stops the runners one *)
(* by one beside the pass that is under way, and returns whether or not the *)
(* pass has ended.                                                          *)
roster_start ==
    /\ mode = "new"
    /\ mode' = "up"
    /\ \E built \in SUBSET Slots :
          /\ thread' = [s \in Slots |-> IF s \in built THEN "idle" ELSE "none"]
          /\ out' = [s \in Slots |-> s \notin built]
    /\ UNCHANGED <<strays, leaked, tries, still, signed, tried, unsigned,
                   todo, passed, toStop, stops, crossed>>

roster_stop ==
    /\ mode \in {"up", "stopped"} /\ stops < RosterStops
    /\ mode' = "stopping" /\ stops' = stops + 1
    /\ toStop' = Slots
    /\ crossed' = (todo # {})
    /\ UNCHANGED <<slotVars, todo, passed>>

stop_runner(s) ==
    /\ mode = "stopping" /\ s \in toStop
    /\ toStop' = toStop \ {s}
    /\ runner_stop(s)
    /\ UNCHANGED <<leaked, tries, out, still, signed, tried, unsigned,
                   todo, passed, mode, stops, crossed>>

stop_returns ==
    /\ mode = "stopping" /\ toStop = {}
    /\ mode' = "stopped"
    /\ UNCHANGED <<slotVars, todo, passed, toStop, stops, crossed>>

Later(age) == [s \in Slots |-> IF age[s] < StallSteps THEN age[s] + 1 ELSE age[s]]

roster_tick ==
    /\ mode = "up" /\ todo = {} /\ passed
    /\ passed' = FALSE
    /\ still' = Later(still) /\ unsigned' = Later(unsigned)
    /\ UNCHANGED <<thread, strays, leaked, tries, out, signed, tried,
                   todo, mode, toStop, stops, crossed>>

-----------------------------------------------------------------------------
RosterInit ==
    /\ thread = [s \in Slots |-> "none"] /\ strays = [s \in Slots |-> 0]
    /\ leaked = [s \in Slots |-> FALSE] /\ tries = [s \in Slots |-> 0]
    /\ out = [s \in Slots |-> FALSE] /\ still = [s \in Slots |-> 0]
    /\ signed = [s \in Slots |-> FALSE] /\ tried = [s \in Slots |-> FALSE]
    /\ todo = {} /\ passed = FALSE /\ mode = "new" /\ toStop = {}
    /\ stops = 0 /\ crossed = FALSE /\ unsigned = [s \in Slots |-> 0]

RosterNext ==
    \/ roster_start \/ roster_stop \/ stop_returns \/ watch_pass \/ roster_tick
    \/ \E s \in Slots :
          \/ visit(s) \/ stop_runner(s)
          \/ thread_claims(s) \/ thread_signs(s) \/ thread_releases(s) \/ thread_dies(s)
          \/ stray_signs(s) \/ stray_releases(s) \/ leaked_lease_expires(s)

RosterSpec == RosterInit /\ [][RosterNext]_rosterVars

(* The watch thread keeps passing, and the clock runs whatever it does.     *)
RosterFairness ==
    /\ WF_rosterVars(watch_pass) /\ SF_rosterVars(roster_tick)
    /\ \A s \in Slots : WF_rosterVars(visit(s))

-----------------------------------------------------------------------------
(* Properties.                                                              *)

(* The state has its types; the restarts stop one past the ceiling.         *)
RosterTypeOK ==
    /\ thread \in [Slots -> ThreadStates] /\ strays \in [Slots -> Nat]
    /\ leaked \in [Slots -> BOOLEAN] /\ tries \in [Slots -> 0..(RosterRestarts + 1)]
    /\ out \in [Slots -> BOOLEAN] /\ still \in [Slots -> 0..StallSteps]
    /\ signed \in [Slots -> BOOLEAN] /\ tried \in [Slots -> BOOLEAN]
    /\ todo \subseteq Slots /\ toStop \subseteq Slots /\ passed \in BOOLEAN
    /\ mode \in {"new", "up", "stopping", "stopped"}
    /\ stops \in 0..RosterStops /\ crossed \in BOOLEAN
    /\ unsigned \in [Slots -> 0..StallSteps]

(* "stop them all cleanly" (roster.py:68): a stop that found no pass under  *)
(* way leaves no runner with a live thread, and none comes back later.      *)
QuietStopIsClean == mode = "stopped" /\ ~crossed => \A s \in Slots : ~_alive(s)

(* A thread that died, which leaves no other trace, is replaced or its slot *)
(* is given up.                                                             *)
DeadIsReplaced == \A s \in Slots :
    thread[s] = "dead" ~> (thread[s] # "dead" \/ out[s] \/ mode # "up")

(* An execution that never ends does not hold its slot for good.            *)
StuckIsReplaced == \A s \in Slots : []<>(thread[s] # "busy" \/ out[s] \/ mode # "up")

(* A live thread is replaced only after a stall timeout without an envelope *)
(* under its identity.                                                      *)
SignersSpared == [][\A s \in Slots :
    _alive(s) /\ tries'[s] > tries[s] => unsigned[s] >= StallSteps]_rosterVars

(* "stop them all cleanly" (roster.py:68), whatever the watch thread does.  *)
StopIsClean == mode = "stopped" => \A s \in Slots : ~_alive(s)

(* One thread at a time acts under an identity.                             *)
OneThreadPerAgent == \A s \in Slots : strays[s] > 0 => ~_alive(s)

(* A slot is given up only for what its own executions did: a thread that   *)
(* holds no claim is not replaced as stalled.                               *)
IdleSpared == [][\A s \in Slots :
    thread[s] = "idle" /\ mode = "up" => tries'[s] = tries[s]]_rosterVars

(* A thread that died or is stuck is replaced or its slot given up          *)
(* (_check_progress), one that signs is spared, and a stop that meets no    *)
(* pass leaves no live thread.                                              *)
RosterHolds ==
    /\ [](RosterTypeOK /\ QuietStopIsClean)
    /\ DeadIsReplaced
    /\ StuckIsReplaced
    /\ SignersSpared
=============================================================================
