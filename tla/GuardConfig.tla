----------------------------- MODULE GuardConfig -----------------------------
(***************************************************************************)
(* The signed guard configuration (gyza/containment/guardconfig.py) of one *)
(* host: every process holds a GuardConfigStore, pinned to the genesis     *)
(* authority, and all of them share one append-only install history, from  *)
(* which a fresh store learns the version floor and the last bounds.       *)
(***************************************************************************)
EXTENDS Integers, Sequences, FiniteSets

CONSTANTS
    Stores,       \* processes of the host
    Classes,      \* harm classes
    Levels,       \* bound levels that occur
    Authorities,  \* authority keys
    Genesis,      \* the key every store is pinned to
    Configs,      \* signed configurations that are in circulation
    NoConfig,
    MaxHistory,   \* bound on the length of the history
    GuardFaults   \* [GuardFaultKinds -> Nat]: how often each may happen

(* unrecorded: the history cannot be written; shared: a store installs      *)
(* while another one is between its install and its record.                 *)
GuardFaultKinds == {"unrecorded", "shared"}

(* A class without a bound admits nothing, so Unset is below every level.   *)
Unset == -1
Bounds == [Classes -> Levels \cup {Unset}]

ASSUME GuardConfigAssumption ==
    /\ Levels \subseteq Nat
    /\ Genesis \in Authorities
    /\ Configs \subseteq [version : Nat, bounds : Bounds, by : Authorities]
    /\ NoConfig \notin Configs
    /\ MaxHistory \in Nat
    /\ GuardFaults \in [GuardFaultKinds -> Nat]

VARIABLES
    config,      \* [Stores -> Configs or NoConfig]: _cfg
    authority,   \* [Stores -> Authorities]: _authority
    linking,     \* [Stores -> Nat \cup {-1}]: the predecessor _record_install
                 \* has read and not used yet
    seen,        \* [Stores -> Nat]: length of the history at the last install
    history,     \* the install history, of all processes
    registry,    \* [Stores -> Bounds]: the bounds in force (HarmModelRegistry)
    declared,    \* what signed loosening records have named so far
    stale,       \* some store with a configuration has installed another one
                 \* after a different store recorded one (history variable)
    guardFaults  \* faults still allowed

guardVars == <<config, authority, linking, seen, history, registry, declared,
               stale, guardFaults>>

(* prev is the place of the predecessor whose hash the entry carries; an    *)
(* entry from before bounds were recorded has none.                         *)
NoBounds == <<>>
HistoryEntry == [version : Nat, bounds : Bounds \cup {NoBounds}, prev : Nat]

-----------------------------------------------------------------------------
(* Comparing bounds.                                                        *)

(* Fault: read off the numbers, adding a bound looks like a restriction.    *)
LoosenedByNumber(old, new) ==
    {b \in Classes : old[b] # Unset /\ (new[b] = Unset \/ new[b] > old[b])}

(* diff_bounds, the classes it calls LOOSENED.                              *)
Loosened(old, new) == {b \in Classes : new[b] > old[b]}

-----------------------------------------------------------------------------
(* The history.                                                             *)

chain_verifies == \A i \in DOMAIN history : history[i].prev = i - 1

(* Fault: only the memory of the process counts.                            *)
NoFloor == 0

_version_floor ==
    CHOOSE v \in {0} \cup {history[i].version : i \in DOMAIN history} :
        \A i \in DOMAIN history : history[i].version <= v

LastBounds == IF history = <<>> THEN NoBounds ELSE history[Len(history)].bounds

(* Fault: entries are counted from zero.                                    *)
RecordZeroBased(s) ==
    /\ linking[s] # -1
    /\ Len(history) < MaxHistory
    /\ history' = Append(history, [version |-> config[s].version,
                                   bounds |-> config[s].bounds, prev |-> linking[s] - 1])
    /\ linking' = [linking EXCEPT ![s] = -1]
    /\ seen' = [seen EXCEPT ![s] = Len(history')]
    /\ UNCHANGED <<config, authority, registry, declared, stale, guardFaults>>

(* The second half of an install: the entry is appended after the link that *)
(* was read, whatever has been appended since.                              *)
_record_install(s) ==
    /\ linking[s] # -1
    /\ Len(history) < MaxHistory
    /\ history' = Append(history, [version |-> config[s].version,
                                   bounds |-> config[s].bounds, prev |-> linking[s]])
    /\ linking' = [linking EXCEPT ![s] = -1]
    /\ seen' = [seen EXCEPT ![s] = Len(history')]
    /\ UNCHANGED <<config, authority, registry, declared, stale, guardFaults>>

Suffer(f) == guardFaults[f] > 0 /\ guardFaults' = [guardFaults EXCEPT ![f] = @ - 1]

record_fails(s) ==
    /\ linking[s] # -1
    /\ Suffer("unrecorded")
    /\ linking' = [linking EXCEPT ![s] = -1]
    /\ UNCHANGED <<config, authority, seen, history, registry, declared, stale>>

-----------------------------------------------------------------------------
(* Installing.                                                              *)

(* Fault: the version that is already recorded is refused too.              *)
ColdRefusesEqual(c) ==
    /\ history # <<>> => c.version > _version_floor
    /\ LastBounds # NoBounds => Loosened(LastBounds, c.bounds) = {}

(* A store without a configuration measures against the history.            *)
ColdAccepts(c) ==
    /\ c.version >= _version_floor
    /\ LastBounds # NoBounds => Loosened(LastBounds, c.bounds) = {}

(* A store with one measures against that one.                              *)
WarmAccepts(s, c, allow) ==
    /\ c.version > config[s].version
    /\ allow \/ Loosened(config[s].bounds, c.bounds) = {}

Alone(s) == \A t \in Stores \ {s} : linking[t] = -1

(* The configuration of s is not the last one recorded.  Its next install   *)
(* is measured against it all the same.                                     *)
Stale(s) == config[s] # NoConfig /\ seen[s] # Len(history)

(* Fault: the link is the last entry this process knows of.                *)
InstallLinkOwn(s, c, allow) ==
    /\ linking[s] = -1
    /\ c.by = authority[s]
    /\ chain_verifies
    /\ IF config[s] = NoConfig THEN ColdAccepts(c) ELSE WarmAccepts(s, c, allow)
    /\ IF Alone(s) THEN UNCHANGED guardFaults ELSE Suffer("shared")
    /\ stale' = (stale \/ Stale(s))
    /\ config' = [config EXCEPT ![s] = c]
    /\ linking' = [linking EXCEPT ![s] = seen[s]]
    /\ seen' = [seen EXCEPT ![s] = Len(history)]
    /\ UNCHANGED <<authority, history, registry>>

_install(s, c, allow) ==
    /\ linking[s] = -1
    /\ c.by = authority[s]
    /\ chain_verifies
    /\ IF config[s] = NoConfig THEN ColdAccepts(c) ELSE WarmAccepts(s, c, allow)
    /\ IF Alone(s) THEN UNCHANGED guardFaults ELSE Suffer("shared")
    /\ stale' = (stale \/ Stale(s))
    /\ config' = [config EXCEPT ![s] = c]
    /\ linking' = [linking EXCEPT ![s] = Len(history)]
    /\ seen' = [seen EXCEPT ![s] = Len(history)]
    /\ UNCHANGED <<authority, history, registry>>

(* load, load_file and attempt_update.                                      *)
load(s, c) == _install(s, c, FALSE) /\ UNCHANGED declared

(* A record that verifies, names the classes that move with their values    *)
(* and gives a reason.                                                      *)
install_loosening(s, c) ==
    /\ config[s] # NoConfig
    /\ Loosened(config[s].bounds, c.bounds) # {}
    /\ _install(s, c, TRUE)
    /\ declared' = declared \cup
           {<<b, c.bounds[b]>> : b \in Loosened(config[s].bounds, c.bounds)}

(* A succession signed by the key it replaces.  The configuration stays.    *)
rotate_authority(s, key) ==
    /\ key # authority[s]
    /\ authority' = [authority EXCEPT ![s] = key]
    /\ UNCHANGED <<config, linking, seen, history, registry, declared, stale, guardFaults>>

(* load_bounds sets the levels it is given and leaves the others.           *)
apply_to(s) ==
    /\ config[s] # NoConfig
    /\ registry' = [registry EXCEPT ![s] =
           [b \in Classes |-> IF config[s].bounds[b] = Unset THEN @[b] ELSE config[s].bounds[b]]]
    /\ UNCHANGED <<config, authority, linking, seen, history, declared, stale, guardFaults>>

(* A new process has the genesis key again, and only the history.           *)
restart(s) ==
    /\ config' = [config EXCEPT ![s] = NoConfig]
    /\ authority' = [authority EXCEPT ![s] = Genesis]
    /\ linking' = [linking EXCEPT ![s] = -1]
    /\ seen' = [seen EXCEPT ![s] = 0]
    /\ registry' = [registry EXCEPT ![s] = [b \in Classes |-> Unset]]
    /\ UNCHANGED <<history, declared, stale, guardFaults>>

-----------------------------------------------------------------------------
GuardInit ==
    /\ config = [s \in Stores |-> NoConfig]
    /\ authority = [s \in Stores |-> Genesis]
    /\ linking = [s \in Stores |-> -1]
    /\ seen = [s \in Stores |-> 0]
    /\ history \in {<<>>, <<[version |-> 1, bounds |-> NoBounds, prev |-> 0]>>}
    /\ registry = [s \in Stores |-> [b \in Classes |-> Unset]]
    /\ declared = {}
    /\ stale = FALSE
    /\ guardFaults = GuardFaults

GuardNext == \E s \in Stores :
    \/ \E c \in Configs : load(s, c) \/ install_loosening(s, c)
    \/ _record_install(s) \/ record_fails(s)
    \/ \E key \in Authorities : rotate_authority(s, key)
    \/ apply_to(s)
    \/ restart(s)

GuardSpec == GuardInit /\ [][GuardNext]_guardVars

-----------------------------------------------------------------------------
(* Properties.                                                              *)

(* The state has its types.                                                 *)
GuardTypeOK ==
    /\ config \in [Stores -> Configs \cup {NoConfig}]
    /\ authority \in [Stores -> Authorities]
    /\ linking \in [Stores -> Nat \cup {-1}]
    /\ seen \in [Stores -> Nat]
    /\ history \in Seq(HistoryEntry)
    /\ registry \in [Stores -> Bounds]
    /\ stale \in BOOLEAN
    /\ guardFaults \in [GuardFaultKinds -> Nat]

(* The history that the stores write verifies: a chain check that fails     *)
(* refuses every later start.                                               *)
HistoryChained == chain_verifies

(* guardconfig.py:357: "It remembers the highest version ever installed     *)
(* and refuses anything below it".  A store that has a configuration        *)
(* compares with that one only (guardconfig.py:556), so it holds as long as *)
(* no install is stale; then also over restarts, rotations and installs     *)
(* that were not recorded.                                                  *)
VersionsNeverDrop ==
    \A i, j \in DOMAIN history : i < j => history[i].version <= history[j].version

(* No bound is recorded above the level recorded before it unless a signed  *)
(* loosening record named that class with at least this level: neither a    *)
(* restart, nor a rotation, nor a lost record, nor a higher version number  *)
(* buys a looser guard.  A stale install does (guardconfig.py:568).         *)
LooseningDeclared ==
    \A i \in 2 .. Len(history) :
        history[i - 1].bounds # NoBounds =>
            \A b \in Loosened(history[i - 1].bounds, history[i].bounds) :
                \E level \in Levels : /\ <<b, level>> \in declared
                                      /\ level >= history[i].bounds[b]

(* A process that starts again with the configuration recorded last gets    *)
(* it: the floor and the bounds never lock out what is in force.            *)
LastReloads ==
    \A c \in Configs :
        /\ history # <<>>
        /\ c.version = history[Len(history)].version
        /\ c.bounds = LastBounds
        => chain_verifies /\ ColdAccepts(c)

(* guardconfig.py:283: a succession is an act of the current authority.     *)
(* The code keeps successions in memory only, so a restart brings the       *)
(* retired key back: it holds only while no store restarts after one.       *)
RetiredKeyStays == [][\A s \in Stores :
    authority[s] # Genesis => authority'[s] # Genesis]_guardVars

(* guardconfig.py:57: removing a bound admits nothing.  apply_to on a       *)
(* registry that already has a level for the class keeps that level.        *)
RegistryIsConfig == [][\A s \in Stores :
    registry'[s] # registry[s] /\ config[s] # NoConfig /\ config'[s] = config[s]
        => registry'[s] = config[s].bounds]_guardVars

(* Across restarts, rotations and lost records, and as long as no install   *)
(* overlaps the recording of another one, the recorded history verifies     *)
(* (_version_floor).  As long as, besides, no process installs over a       *)
(* configuration that another process has superseded, versions never drop,  *)
(* a bound loosens only by a signed record (diff_bounds), and what is in    *)
(* force can be loaded again.                                               *)
GuardOnlyTightens ==
    /\ GuardTypeOK
    /\ HistoryChained
    /\ ~stale => VersionsNeverDrop /\ LooseningDeclared /\ LastReloads
=============================================================================
