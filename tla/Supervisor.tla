----------------------------- MODULE Supervisor -----------------------------
(***************************************************************************)
(* RunnerProcessSupervisor (gyza/supervisor.py): a fixed roster of runner  *)
(* processes, restarted when they die or make no progress, up to a ceiling *)
(* inside a window.  Time passes in steps of the restart window, far       *)
(* longer than a pass of the watch loop, so every pass that is due is over *)
(* before the next step.  An age counts steps and stops at Old.            *)
(***************************************************************************)
EXTENDS Integers

CONSTANTS
    Children,
    MaxRestarts,   \* max_restarts
    Window,        \* restart_window_s, in steps
    Stall,         \* stall_timeout_s, in steps
    MaxStarts      \* bound on the calls of start

ASSUME SupervisorAssumption ==
    /\ MaxRestarts \in Nat /\ Window \in Nat /\ Stall \in Nat \ {0}
    /\ MaxStarts \in Nat \ {0}

VARIABLES
    proc,      \* [Children -> ProcStates]
    left,      \* [Children -> BOOLEAN]: a dead process left a claim behind
    restarts,  \* [Children -> Nat]
    gaveUp,    \* [Children -> BOOLEAN]
    upFor,     \* [Children -> Ages]: since last_start_ns
    quiet,     \* [Children -> Ages]: since last_progress_ns
    fresh,     \* [Children -> BOOLEAN]: an envelope since last_progress_ns
    attempt,   \* [Children -> BOOLEAN]: saw_attempt
    lap,       \* the children this pass, which holds the lock, has still to look at
    swept,     \* a pass ended since time last passed
    phase,     \* "new", "watching", "stopping", "stopped"
    starts,    \* calls of start so far
    idleFor,   \* history [Children -> Ages]: since the last envelope
    futile     \* history [Children -> Nat]: stall restarts since the last envelope

childVars == <<proc, left, restarts, gaveUp, upFor, quiet, fresh, attempt, idleFor, futile>>
supVars == <<childVars, lap, swept, phase, starts>>

(* A process that polls, one that holds a claim, one that died and one that *)
(* returned 0.                                                              *)
ProcStates == {"none", "idle", "busy", "dead", "returned"}
Alive(c) == proc[c] \in {"idle", "busy"}
Old == IF Window < Stall THEN Stall + 1 ELSE Window + 2
Ages == 0..Old
Older(age) == [c \in Children |-> IF age[c] < Old THEN age[c] + 1 ELSE Old]

-----------------------------------------------------------------------------
(* The processes, each a runner of module Runner.                           *)
claim(c) ==
    /\ proc[c] = "idle"
    /\ proc' = [proc EXCEPT ![c] = "busy"]
    /\ UNCHANGED <<left, restarts, gaveUp, upFor, quiet, fresh, attempt, idleFor, futile,
                   lap, swept, phase, starts>>

complete(c) ==
    /\ proc[c] = "busy"
    /\ proc' = [proc EXCEPT ![c] = "idle"]
    /\ fresh' = [fresh EXCEPT ![c] = TRUE]
    /\ idleFor' = [idleFor EXCEPT ![c] = 0]
    /\ futile' = [futile EXCEPT ![c] = 0]
    /\ UNCHANGED <<left, restarts, gaveUp, upFor, quiet, attempt, lap, swept, phase, starts>>

(* The execution fails, the claim is released, the loop goes on.            *)
fail(c) ==
    /\ proc[c] = "busy"
    /\ proc' = [proc EXCEPT ![c] = "idle"]
    /\ UNCHANGED <<left, restarts, gaveUp, upFor, quiet, fresh, attempt, idleFor, futile,
                   lap, swept, phase, starts>>

die(c) ==
    /\ Alive(c)
    /\ proc' = [proc EXCEPT ![c] = "dead"]
    /\ left' = [left EXCEPT ![c] = @ \/ proc[c] = "busy"]
    /\ UNCHANGED <<restarts, gaveUp, upFor, quiet, fresh, attempt, idleFor, futile,
                   lap, swept, phase, starts>>

(* run_runner_process returns on an interrupt.                              *)
return(c) ==
    /\ proc[c] = "idle"
    /\ proc' = [proc EXCEPT ![c] = "returned"]
    /\ UNCHANGED <<left, restarts, gaveUp, upFor, quiet, fresh, attempt, idleFor, futile,
                   lap, swept, phase, starts>>

(* The lease on what a dead process held runs out.                          *)
lease_expires(c) ==
    /\ left[c]
    /\ left' = [left EXCEPT ![c] = FALSE]
    /\ UNCHANGED <<proc, restarts, gaveUp, upFor, quiet, fresh, attempt, idleFor, futile,
                   lap, swept, phase, starts>>

-----------------------------------------------------------------------------
(* The watch loop.                                                          *)
_holds_a_claim(c) == proc[c] = "busy" \/ left[c]

(* Fault: the window is counted from the start of the process.              *)
StalledSinceStart(c) ==
    ~fresh[c] /\ upFor[c] >= Stall /\ (attempt[c] \/ _holds_a_claim(c))

(* _check_progress: no envelope since the mark, the timeout past, and a     *)
(* claim seen on some poll meanwhile.                                       *)
Stalled(c) == ~fresh[c] /\ quiet[c] >= Stall /\ (attempt[c] \/ _holds_a_claim(c))

(* Fault: holding a claim counts as progress.                               *)
LookClaimProgress(c) ==
    /\ quiet' = [quiet EXCEPT ![c] = IF fresh[c] \/ _holds_a_claim(c) THEN 0 ELSE @]
    /\ fresh' = [fresh EXCEPT ![c] = FALSE]
    /\ attempt' = [attempt EXCEPT ![c] = @ \/ _holds_a_claim(c)]

(* What _check_progress records of a child it leaves alone: an envelope     *)
(* moves the mark, and so does a timeout without an attempt.                *)
Look(c) ==
    /\ quiet' = [quiet EXCEPT ![c] = IF fresh[c] \/ @ >= Stall THEN 0 ELSE @]
    /\ fresh' = [fresh EXCEPT ![c] = FALSE]
    /\ attempt' = [attempt EXCEPT ![c] = @ \/ (~fresh[c] /\ _holds_a_claim(c))]

Spawned(c) ==
    /\ proc' = [proc EXCEPT ![c] = "idle"]
    /\ upFor' = [upFor EXCEPT ![c] = 0]

(* Restarts inside the window; outside it the budget is a fresh one.        *)
Spent(c) == IF upFor[c] > Window THEN 0 ELSE restarts[c]

(* Fault: the ceiling is crossed before it is seen.                         *)
ReviveLate(c) ==
    IF Spent(c) > MaxRestarts
    THEN /\ gaveUp' = [gaveUp EXCEPT ![c] = TRUE]
         /\ proc' = [proc EXCEPT ![c] = "dead"]
         /\ restarts' = [restarts EXCEPT ![c] = Spent(c)]
         /\ UNCHANGED upFor
    ELSE /\ restarts' = [restarts EXCEPT ![c] = Spent(c) + 1]
         /\ Spawned(c)
         /\ UNCHANGED gaveUp

(* Fault: a restart is not counted.                                         *)
ReviveUncounted(c) ==
    /\ Spawned(c)
    /\ UNCHANGED <<restarts, gaveUp>>

(* A dead child: given up on, or started again after a backoff that is      *)
(* slept with the lock held.                                                *)
Revive(c) ==
    IF Spent(c) >= MaxRestarts
    THEN /\ gaveUp' = [gaveUp EXCEPT ![c] = TRUE]
         /\ proc' = [proc EXCEPT ![c] = "dead"]
         /\ restarts' = [restarts EXCEPT ![c] = Spent(c)]
         /\ UNCHANGED upFor
    ELSE /\ restarts' = [restarts EXCEPT ![c] = Spent(c) + 1]
         /\ Spawned(c)
         /\ UNCHANGED gaveUp

(* One child of a pass.                                                     *)
Seen(c) ==
    /\ c \in lap
    /\ lap' = lap \ {c}
    /\ swept' = (lap' = {} \/ swept)
    /\ UNCHANGED <<phase, starts>>

pass_over(c) ==
    /\ Seen(c)
    /\ gaveUp[c] \/ proc[c] = "none"
    /\ UNCHANGED childVars

leave_alone(c) ==
    /\ Seen(c)
    /\ ~gaveUp[c] /\ Alive(c) /\ ~Stalled(c)
    /\ Look(c)
    /\ UNCHANGED <<proc, left, restarts, gaveUp, upFor, idleFor, futile>>

(* Killed alive: the process goes with its claim, the mark moves.           *)
restart_stalled(c) ==
    /\ Seen(c)
    /\ ~gaveUp[c] /\ Alive(c) /\ Stalled(c)
    /\ left' = [left EXCEPT ![c] = @ \/ proc[c] = "busy"]
    /\ quiet' = [quiet EXCEPT ![c] = 0]
    /\ attempt' = [attempt EXCEPT ![c] = FALSE]
    /\ futile' = [futile EXCEPT ![c] = IF @ > MaxRestarts THEN @ ELSE @ + 1]
    /\ Revive(c)
    /\ UNCHANGED <<fresh, idleFor>>

restart_dead(c) ==
    /\ Seen(c)
    /\ ~gaveUp[c] /\ proc[c] = "dead"
    /\ Revive(c)
    /\ UNCHANGED <<left, quiet, fresh, attempt, idleFor, futile>>

note_return(c) ==
    /\ Seen(c)
    /\ ~gaveUp[c] /\ proc[c] = "returned"
    /\ gaveUp' = [gaveUp EXCEPT ![c] = TRUE]
    /\ UNCHANGED <<proc, left, restarts, upFor, quiet, fresh, attempt, idleFor, futile>>

watch(c) ==
    pass_over(c) \/ leave_alone(c) \/ restart_stalled(c) \/ restart_dead(c) \/ note_return(c)

begin_pass ==
    /\ phase = "watching" /\ lap = {}
    /\ lap' = Children
    /\ UNCHANGED <<childVars, swept, phase, starts>>

-----------------------------------------------------------------------------
(* start, and the two halves of stop: the flag, then the kill, which takes  *)
(* the lock and so waits for the pass.                                      *)
start ==
    /\ phase \in {"new", "stopped"} /\ starts < MaxStarts
    /\ phase' = "watching" /\ starts' = starts + 1
    /\ proc' = [c \in Children |-> "idle"]
    /\ upFor' = [c \in Children |-> 0]
    /\ quiet' = [c \in Children |-> 0]
    /\ fresh' = [c \in Children |-> FALSE]
    /\ attempt' = [c \in Children |-> FALSE]
    /\ swept' = FALSE
    /\ UNCHANGED <<left, restarts, gaveUp, idleFor, futile, lap>>

stop ==
    /\ phase = "watching"
    /\ phase' = "stopping"
    /\ UNCHANGED <<childVars, lap, swept, starts>>

(* Fault: the kill does not wait for the lock.                              *)
StopAtOnce ==
    /\ phase = "stopping"
    /\ phase' = "stopped"
    /\ proc' = [c \in Children |-> IF Alive(c) THEN "dead" ELSE proc[c]]
    /\ left' = [c \in Children |-> left[c] \/ proc[c] = "busy"]
    /\ UNCHANGED <<restarts, gaveUp, upFor, quiet, fresh, attempt, idleFor, futile,
                   lap, swept, starts>>

stop_kill ==
    /\ phase = "stopping" /\ lap = {}
    /\ phase' = "stopped"
    /\ proc' = [c \in Children |-> IF Alive(c) THEN "dead" ELSE proc[c]]
    /\ left' = [c \in Children |-> left[c] \/ proc[c] = "busy"]
    /\ UNCHANGED <<restarts, gaveUp, upFor, quiet, fresh, attempt, idleFor, futile,
                   lap, swept, starts>>

(* Time passes, once every pass that is due is over.                        *)
tick ==
    /\ phase = "watching" /\ lap = {} /\ swept
    /\ swept' = FALSE
    /\ upFor' = Older(upFor) /\ quiet' = Older(quiet) /\ idleFor' = Older(idleFor)
    /\ UNCHANGED <<proc, left, restarts, gaveUp, fresh, attempt, futile, lap, phase, starts>>

-----------------------------------------------------------------------------
SupInit ==
    /\ proc = [c \in Children |-> "none"]
    /\ left = [c \in Children |-> FALSE]
    /\ restarts = [c \in Children |-> 0]
    /\ gaveUp = [c \in Children |-> FALSE]
    /\ upFor = [c \in Children |-> 0]
    /\ quiet = [c \in Children |-> 0]
    /\ fresh = [c \in Children |-> FALSE]
    /\ attempt = [c \in Children |-> FALSE]
    /\ lap = {} /\ swept = FALSE /\ phase = "new" /\ starts = 0
    /\ idleFor = [c \in Children |-> Old]
    /\ futile = [c \in Children |-> 0]

SupNext ==
    \/ start \/ stop \/ stop_kill \/ begin_pass \/ tick
    \/ \E c \in Children :
          \/ watch(c)
          \/ claim(c) \/ complete(c) \/ fail(c) \/ die(c) \/ return(c) \/ lease_expires(c)

SupSpec == SupInit /\ [][SupNext]_supVars

(* The watch thread keeps passing, and the clock runs whatever it does.     *)
SupFairness ==
    /\ WF_supVars(begin_pass) /\ SF_supVars(tick) /\ WF_supVars(stop_kill)
    /\ \A c \in Children : WF_supVars(watch(c))

-----------------------------------------------------------------------------
(* Properties.                                                              *)

(* The state has its types.                                                 *)
SupTypeOK ==
    /\ proc \in [Children -> ProcStates]
    /\ left \in [Children -> BOOLEAN]
    /\ restarts \in [Children -> 0..MaxRestarts]
    /\ gaveUp \in [Children -> BOOLEAN]
    /\ upFor \in [Children -> Ages] /\ quiet \in [Children -> Ages]
    /\ fresh \in [Children -> BOOLEAN] /\ attempt \in [Children -> BOOLEAN]
    /\ lap \subseteq Children /\ swept \in BOOLEAN
    /\ phase \in {"new", "watching", "stopping", "stopped"}
    /\ starts \in 0..MaxStarts
    /\ idleFor \in [Children -> Ages] /\ futile \in [Children -> Nat]

(* No process outlives stop, wherever the watch loop was when it was        *)
(* called: a child that was about to be started again is killed as well.    *)
StopLeavesNobody == phase = "stopped" => \A c \in Children : ~Alive(c)

(* A runner is killed for want of progress only when it has signed nothing  *)
(* for the whole stall timeout, whatever it did before.                     *)
WorkersSpared ==
    [][\A c \in Children : futile'[c] > futile[c] => idleFor[c] >= Stall]_supVars

(* A child that from some point on only ever dies inside the window is      *)
(* given up on (the crash-loop ceiling).                                    *)
CrashLoopEnds == \A c \in Children :
    ([]<>(proc[c] = "dead") /\ <>[](upFor[c] <= Window))
        => <>(gaveUp[c] \/ phase \in {"stopping", "stopped"})

(* A runner that claims and never lets go again does not stay so under a    *)
(* supervisor that watches it.                                              *)
WedgedIsRestarted == \A c \in Children :
    []<>(proc[c] # "busy" \/ gaveUp[c] \/ phase # "watching")

(* "Treated exactly like a crash from here down, including the crash-loop   *)
(* ceiling" (supervisor.py:712): no more than MaxRestarts stall restarts in *)
(* a row without an envelope.                                               *)
StallCeiling == \A c \in Children : futile[c] <= MaxRestarts

(* A wedged runner is restarted and a working one is spared                 *)
(* (_check_progress), a crash loop ends at the ceiling, and no process      *)
(* outlives stop.                                                           *)
SupervisionHolds ==
    /\ [](SupTypeOK /\ StopLeavesNobody)
    /\ WorkersSpared
    /\ CrashLoopEnds
    /\ WedgedIsRestarted
=============================================================================
