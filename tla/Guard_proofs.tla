----------------------------- MODULE Guard_proofs -----------------------------
(***************************************************************************)
(* Proofs about the guard: GuardConfig, for every set of stores, harm      *)
(* classes, levels, authorities and configurations in circulation, and any *)
(* number of installs that could not be recorded; Gate, for every bound,   *)
(* all amounts of harm, logs of any length and any number of actions that  *)
(* meet a promotion.                                                       *)
(***************************************************************************)
EXTENDS GuardConfig, Gate, FiniteFacts, SequenceTheorems, TLAPS

-----------------------------------------------------------------------------
(* The configuration and its history.                                       *)

(* No store has installed while another one was between its install and the *)
(* record of it.  The code holds no lock over the two, so nothing is        *)
(* promised once that has happened.                                         *)
NoOverlap == guardFaults["shared"] = GuardFaults["shared"]

(* A signed record has named class b with at least this level.              *)
Declared(b, level) == \E l \in Levels : <<b, l>> \in declared /\ l >= level

(* What may follow the last entry of the history.                           *)
MayFollow(c) ==
    /\ \A i \in DOMAIN history : history[i].version <= c.version
    /\ LastBounds # NoBounds =>
           \A b \in Loosened(LastBounds, c.bounds) : Declared(b, c.bounds[b])

Typed ==
    /\ GuardTypeOK
    /\ guardFaults["shared"] <= GuardFaults["shared"]
    /\ \A s \in Stores : linking[s] # -1 => config[s] # NoConfig

(* One store at a time is between its install and its record, and has read  *)
(* the last link.                                                           *)
OneLinks ==
    /\ \A s, t \in Stores : linking[s] # -1 /\ linking[t] # -1 => s = t
    /\ \A s \in Stores : linking[s] # -1 =>
           linking[s] = Len(history) /\ seen[s] = Len(history)
    /\ \A s \in Stores : seen[s] <= Len(history)

(* A configuration that is installed over the last entry, recorded or not,  *)
(* may follow it.                                                           *)
CurrentMayFollow ==
    \A s \in Stores : config[s] # NoConfig /\ seen[s] = Len(history) => MayFollow(config[s])

Linked == chain_verifies /\ OneLinks

(* What holds besides while no install was stale.                           *)
Following ==
    /\ VersionsNeverDrop
    /\ LooseningDeclared
    /\ CurrentMayFollow

IInv == Typed /\ (NoOverlap => Linked /\ (~stale => Following))

USE GuardConfigAssumption

-----------------------------------------------------------------------------
(* Bounds are integers, and comparing them with themselves loosens nothing. *)
LEMMA BoundsAreIntegers ==
    ASSUME NEW o \in Bounds, NEW b \in Classes
    PROVE  o[b] \in Int /\ o[b] >= Unset /\ (o[b] # Unset => o[b] \in Levels)
<1>1. o[b] \in Levels \cup {Unset}
    BY DEF Bounds
<1>2. CASE o[b] \in Levels
    <2>1. o[b] \in Nat
        BY <1>2
    <2> QED
        BY <1>2, <2>1 DEF Unset
<1>3. CASE o[b] = Unset
    BY <1>3 DEF Unset
<1> QED
    BY <1>1, <1>2, <1>3

LEMMA SameLoosensNothing ==
    ASSUME NEW o \in Bounds
    PROVE  Loosened(o, o) = {}
BY BoundsAreIntegers DEF Loosened

LEMMA ConfigFields ==
    ASSUME NEW c \in Configs
    PROVE  c.version \in Nat /\ c.bounds \in Bounds /\ c.by \in Authorities
OBVIOUS

LEMMA HistoryFields ==
    ASSUME GuardTypeOK
    PROVE  /\ Len(history) \in Nat /\ DOMAIN history = 1 .. Len(history)
           /\ \A i \in 1 .. Len(history) : history[i] \in HistoryEntry
           /\ \A i \in 1 .. Len(history) :
                  history[i].version \in Nat /\ history[i].bounds \in Bounds \cup {NoBounds}
           /\ history # <<>> => Len(history) \in 1 .. Len(history)
<1>1. /\ history \in Seq(HistoryEntry)
      /\ Len(history) \in Nat /\ DOMAIN history = 1 .. Len(history)
      /\ \A i \in 1 .. Len(history) : history[i] \in HistoryEntry
    BY DEF GuardTypeOK
<1>2. \A i \in 1 .. Len(history) :
          history[i].version \in Nat /\ history[i].bounds \in Bounds \cup {NoBounds}
    BY <1>1 DEF HistoryEntry
<1> QED
    BY <1>1, <1>2

(* While versions do not drop, the floor is the version recorded last.      *)
LEMMA FloorIsLast ==
    ASSUME GuardTypeOK, VersionsNeverDrop
    PROVE  /\ _version_floor \in Nat
           /\ \A i \in DOMAIN history : history[i].version <= _version_floor
           /\ history # <<>> => _version_floor = history[Len(history)].version
<1> DEFINE V == {0} \cup {history[i].version : i \in DOMAIN history}
           OK(v) == \A i \in DOMAIN history : history[i].version <= v
<1>1. \E v \in V : OK(v)
    <2>1. CASE history = <<>>
        <3>1. DOMAIN history = {}
            BY <2>1
        <3> QED
            BY <3>1
    <2>2. CASE history # <<>>
        <3>1. \A i \in 1 .. Len(history) : history[i].version <= history[Len(history)].version
            BY <2>2, HistoryFields DEF VersionsNeverDrop
        <3> QED
            BY <2>2, <3>1, HistoryFields
    <2> QED
        BY <2>1, <2>2
<1>2. _version_floor \in V /\ OK(_version_floor)
    BY <1>1 DEF _version_floor
<1>3. ASSUME history # <<>>
      PROVE  _version_floor = history[Len(history)].version
    <2>1. \A i \in 1 .. Len(history) : history[i].version <= history[Len(history)].version
        BY <1>3, HistoryFields DEF VersionsNeverDrop
    <2>2. history[Len(history)].version <= _version_floor
        BY <1>2, <1>3, HistoryFields
    <2>3. _version_floor <= history[Len(history)].version
        BY <1>2, <1>3, <2>1, HistoryFields
    <2>4. _version_floor \in Nat /\ history[Len(history)].version \in Nat
        BY <1>2, <1>3, HistoryFields
    <2> QED
        BY <2>2, <2>3, <2>4
<1> QED
    BY <1>2, <1>3, HistoryFields

-----------------------------------------------------------------------------
(* The invariant at the start, and what it says of the properties.          *)
LEMMA InitHolds == GuardInit => IInv
<1> SUFFICES ASSUME GuardInit PROVE IInv
    OBVIOUS
<1> DEFINE old == [version |-> 1, bounds |-> NoBounds, prev |-> 0]
<1>1. old \in HistoryEntry
    BY DEF HistoryEntry
<1>2. history \in Seq(HistoryEntry) /\ (history = <<>> \/ history = <<old>>)
    <2>1. <<>> \in Seq(HistoryEntry) /\ <<old>> \in Seq(HistoryEntry)
        BY <1>1
    <2>2. history \in {<<>>, <<old>>}
        BY DEF GuardInit
    <2> QED
        BY <2>1, <2>2
<1>3. [b \in Classes |-> Unset] \in Bounds
    BY DEF Bounds
<1>4. Typed
    <2>1. stale \in BOOLEAN
        BY Zenon DEF GuardInit
    <2>2. GuardTypeOK
        BY <1>2, <1>3, <2>1 DEF GuardInit, GuardTypeOK
    <2>3. GuardFaults["shared"] \in Nat /\ guardFaults = GuardFaults
        BY DEF GuardInit, GuardFaultKinds
    <2> QED
        BY <2>2, <2>3 DEF GuardInit, Typed
<1>5. /\ Len(history) \in {0, 1} /\ DOMAIN history = 1 .. Len(history)
      /\ Len(history) = 1 => history[1] = old
    BY <1>2
<1>6. chain_verifies /\ VersionsNeverDrop /\ LooseningDeclared
    BY <1>5 DEF chain_verifies, VersionsNeverDrop, LooseningDeclared
<1>7. OneLinks /\ CurrentMayFollow
    BY <1>5 DEF GuardInit, OneLinks, CurrentMayFollow
<1> QED
    BY <1>4, <1>6, <1>7 DEF IInv, Linked, Following

LEMMA ReloadsFromInv ==
    ASSUME GuardTypeOK, chain_verifies, VersionsNeverDrop
    PROVE  LastReloads
<1> SUFFICES ASSUME NEW c \in Configs, history # <<>>,
                    c.version = history[Len(history)].version, c.bounds = LastBounds
             PROVE  ColdAccepts(c)
    BY DEF LastReloads
<1>1. c.version >= _version_floor
    BY FloorIsLast
<1>2. Loosened(LastBounds, c.bounds) = {}
    BY ConfigFields, SameLoosensNothing
<1> QED
    BY <1>1, <1>2 DEF ColdAccepts

LEMMA PropertyFromInv == IInv => (NoOverlap => GuardOnlyTightens)
BY ReloadsFromInv DEF IInv, Typed, Linked, Following, GuardOnlyTightens, HistoryChained

-----------------------------------------------------------------------------
(* The steps.                                                               *)

(* Faults are only spent, so an overlap is not forgotten.                   *)
LEMMA NoOverlapBefore ==
    ASSUME Typed,
           \/ guardFaults' = guardFaults
           \/ \E f \in GuardFaultKinds : Suffer(f)
    PROVE  /\ guardFaults' \in [GuardFaultKinds -> Nat]
           /\ guardFaults'["shared"] <= guardFaults["shared"]
           /\ guardFaults'["shared"] <= GuardFaults["shared"]
           /\ NoOverlap' => NoOverlap
<1>1. /\ guardFaults \in [GuardFaultKinds -> Nat] /\ "shared" \in GuardFaultKinds
      /\ guardFaults["shared"] \in Nat /\ GuardFaults["shared"] \in Nat
      /\ guardFaults["shared"] <= GuardFaults["shared"]
    BY DEF Typed, GuardTypeOK, GuardFaultKinds
<1>2. CASE guardFaults' = guardFaults
    BY <1>1, <1>2 DEF NoOverlap
<1>3. CASE \E f \in GuardFaultKinds : Suffer(f)
    <2>1. PICK f \in GuardFaultKinds : Suffer(f)
        BY <1>3
    <2>2. guardFaults[f] \in Nat /\ guardFaults[f] > 0
        BY <1>1, <2>1 DEF Suffer
    <2>3. guardFaults' = [guardFaults EXCEPT ![f] = guardFaults[f] - 1]
        BY <2>1 DEF Suffer
    <2>4. guardFaults' \in [GuardFaultKinds -> Nat]
        BY <1>1, <2>2, <2>3
    <2>5. guardFaults'["shared"] <= guardFaults["shared"] /\ guardFaults'["shared"] \in Nat
        BY <1>1, <2>2, <2>3, <2>4
    <2> QED
        BY <1>1, <2>4, <2>5 DEF NoOverlap
<1> QED
    BY <1>2, <1>3

(* A step that writes neither the history nor what was declared, and at     *)
(* most withdraws configurations and pending records.                       *)
LEMMA QuietStep ==
    ASSUME IInv, GuardTypeOK', history' = history, declared' = declared, stale' = stale,
           guardFaults' = guardFaults \/ \E f \in GuardFaultKinds : Suffer(f),
           \A s \in Stores : linking'[s] = linking[s] \/ linking'[s] = -1,
           \A s \in Stores :
               \/ config'[s] = config[s] /\ seen'[s] = seen[s]
               \/ config'[s] = NoConfig /\ linking'[s] = -1 /\ seen'[s] = 0
    PROVE  IInv'
<1>1. /\ guardFaults'["shared"] <= GuardFaults["shared"]
      /\ NoOverlap' => NoOverlap
    BY NoOverlapBefore DEF IInv
<1>2. Typed'
    BY <1>1 DEF IInv, Typed
<1>3. ASSUME Linked PROVE Linked'
    <2>1. chain_verifies'
        BY <1>3 DEF Linked, chain_verifies
    <2>2. OneLinks'
        BY <1>3, HistoryFields DEF Linked, OneLinks, IInv, Typed
    <2> QED
        BY <2>1, <2>2 DEF Linked
<1>4. ASSUME Linked, Following PROVE Following'
    <2>1. VersionsNeverDrop' /\ LooseningDeclared'
        BY <1>4 DEF Following, VersionsNeverDrop, LooseningDeclared
    <2>2. CurrentMayFollow'
        BY <1>4 DEF Following, CurrentMayFollow, MayFollow, LastBounds, Declared
    <2> QED
        BY <2>1, <2>2 DEF Following
<1> QED
    BY <1>1, <1>2, <1>3, <1>4 DEF IInv

LEMMA FailsStep ==
    ASSUME IInv, NEW s \in Stores, record_fails(s)
    PROVE  IInv'
<1>1. GuardTypeOK'
    BY NoOverlapBefore DEF IInv, Typed, record_fails, GuardTypeOK, GuardFaultKinds
<1> QED
    BY <1>1, QuietStep DEF record_fails, GuardFaultKinds, IInv, Typed, GuardTypeOK

LEMMA RotateStep ==
    ASSUME IInv, NEW s \in Stores, NEW key \in Authorities, rotate_authority(s, key)
    PROVE  IInv'
<1>1. GuardTypeOK'
    BY DEF IInv, Typed, rotate_authority, GuardTypeOK
<1> QED
    BY <1>1, QuietStep DEF rotate_authority, IInv, Typed, GuardTypeOK

LEMMA ApplyStep ==
    ASSUME IInv, NEW s \in Stores, apply_to(s)
    PROVE  IInv'
<1> DEFINE set == [b \in Classes |-> IF config[s].bounds[b] = Unset
                                     THEN registry[s][b] ELSE config[s].bounds[b]]
<1>1. set \in Bounds
    <2>1. config[s].bounds \in Bounds /\ registry[s] \in Bounds
        BY ConfigFields DEF IInv, Typed, GuardTypeOK, apply_to
    <2> QED
        BY <2>1 DEF Bounds
<1>2. registry' = [registry EXCEPT ![s] = set]
    BY DEF apply_to
<1>3. GuardTypeOK'
    BY <1>1, <1>2 DEF IInv, Typed, apply_to, GuardTypeOK
<1> QED
    BY <1>3, QuietStep DEF apply_to, IInv, Typed, GuardTypeOK

LEMMA RestartStep ==
    ASSUME IInv, NEW s \in Stores, restart(s)
    PROVE  IInv'
<1>1. [b \in Classes |-> Unset] \in Bounds
    BY DEF Bounds
<1>2. GuardTypeOK'
    BY <1>1 DEF IInv, Typed, restart, GuardTypeOK
<1> QED
    BY <1>2, QuietStep DEF restart, IInv, Typed, GuardTypeOK

(* Recording: the configuration that may follow does, and the entry it is   *)
(* linked to is the last one.                                               *)
LEMMA RecordStep ==
    ASSUME IInv, NEW s \in Stores, _record_install(s)
    PROVE  IInv'
<1> DEFINE c == config[s]
           n == Len(history)
           e == [version |-> c.version, bounds |-> c.bounds, prev |-> linking[s]]
<1>1. /\ c \in Configs /\ c.version \in Nat /\ c.bounds \in Bounds
      /\ linking[s] # -1 /\ linking[s] \in Nat
      /\ history \in Seq(HistoryEntry) /\ n \in Nat
      /\ linking \in [Stores -> Nat \cup {-1}] /\ seen \in [Stores -> Nat]
    BY ConfigFields DEF IInv, Typed, GuardTypeOK, _record_install
<1>2. e \in HistoryEntry
    BY <1>1 DEF HistoryEntry
<1>3. /\ history' = Append(history, e)
      /\ linking' = [linking EXCEPT ![s] = -1]
      /\ seen' = [seen EXCEPT ![s] = Len(history')]
      /\ UNCHANGED <<config, authority, registry, declared, stale, guardFaults>>
    BY DEF _record_install
<1>4. /\ history' \in Seq(HistoryEntry) /\ Len(history') = n + 1
      /\ DOMAIN history' = 1 .. n + 1 /\ DOMAIN history = 1 .. n
      /\ history'[n + 1] = e
      /\ \A i \in 1 .. n : history'[i] = history[i]
    BY <1>1, <1>2, <1>3
<1> HIDE DEF n, e
<1>5. Typed'
    BY <1>1, <1>3, <1>4 DEF IInv, Typed, GuardTypeOK
<1>6. ASSUME Linked PROVE Linked'
    <2>1. linking[s] = n
        BY <1>1, <1>6 DEF Linked, OneLinks, n
    <2>2. chain_verifies'
        BY <1>1, <1>4, <1>6, <2>1 DEF Linked, chain_verifies, e
    <2>3. \A t \in Stores : t # s => linking'[t] = -1 /\ seen'[t] = seen[t] /\ seen[t] <= n
        BY <1>1, <1>3, <1>6 DEF Linked, OneLinks, n
    <2>4. linking'[s] = -1 /\ seen'[s] = n + 1
        BY <1>1, <1>3, <1>4
    <2>5. OneLinks'
        <3>1. \A t \in Stores : linking'[t] = -1
            BY <2>3, <2>4
        <3>2. \A t \in Stores : seen[t] \in Nat /\ n \in Nat
            BY <1>1 DEF n
        <3>3. \A t \in Stores : seen'[t] <= n + 1
            BY <2>3, <2>4, <3>2
        <3> QED
            BY <1>4, <3>1, <3>3 DEF OneLinks
    <2> QED
        BY <2>2, <2>5 DEF Linked
<1>7. ASSUME Linked, Following PROVE Following'
    <2>1. MayFollow(c)
        BY <1>1, <1>7 DEF Linked, Following, OneLinks, CurrentMayFollow, n
    <2>2. VersionsNeverDrop'
        <3> SUFFICES ASSUME NEW i \in 1 .. n + 1, NEW j \in 1 .. n + 1, i < j
                     PROVE  history'[i].version <= history'[j].version
            BY <1>4 DEF VersionsNeverDrop
        <3>1. CASE j = n + 1
            <4>1. i \in 1 .. n /\ history'[i] = history[i]
                BY <1>1, <1>4, <3>1
            <4>2. history[i].version <= c.version
                BY <1>4, <2>1, <4>1 DEF MayFollow
            <4>3. history'[j].version = c.version
                BY <1>4, <3>1 DEF e
            <4> QED
                BY <4>1, <4>2, <4>3
        <3>2. CASE j # n + 1
            <4>1. /\ i \in 1 .. n /\ history'[i] = history[i]
                  /\ j \in 1 .. n /\ history'[j] = history[j]
                BY <1>1, <1>4, <3>2
            <4> QED
                BY <1>4, <1>7, <4>1 DEF Following, VersionsNeverDrop
        <3> QED
            BY <3>1, <3>2
    <2>3. LooseningDeclared'
        <3> SUFFICES ASSUME NEW i \in 2 .. n + 1, history'[i - 1].bounds # NoBounds,
                            NEW b \in Loosened(history'[i - 1].bounds, history'[i].bounds)
                     PROVE  Declared(b, history'[i].bounds[b])
            BY <1>3, <1>4 DEF LooseningDeclared, Declared, Loosened
        <3>1. CASE i = n + 1
            <4>1. n \in 1 .. n /\ history'[i - 1] = history[n] /\ history'[i] = e
                BY <1>1, <1>4, <3>1
            <4>2. history # <<>> /\ LastBounds = history[n].bounds
                BY <1>4, <4>1 DEF LastBounds, n
            <4>3. LastBounds # NoBounds /\ b \in Loosened(LastBounds, c.bounds)
                BY <4>1, <4>2 DEF e
            <4> QED
                BY <2>1, <4>1, <4>3 DEF MayFollow, e
        <3>2. CASE i # n + 1
            <4>1. /\ i \in 2 .. n /\ history'[i - 1] = history[i - 1] /\ history'[i] = history[i]
                BY <1>1, <1>4, <3>2
            <4>2. i \in 2 .. Len(history)
                BY <4>1 DEF n
            <4> QED
                BY <1>7, <4>1, <4>2 DEF Following, LooseningDeclared, Declared
        <3> QED
            BY <3>1, <3>2
    <2>4. \A t \in Stores : t # s => seen'[t] = seen[t] /\ seen[t] <= n
        BY <1>1, <1>3, <1>7 DEF Linked, OneLinks, n
    <2>5. MayFollow(c)'
        <3>1. LastBounds' = c.bounds
            BY <1>1, <1>4 DEF LastBounds, e
        <3>2. Loosened(LastBounds', c.bounds) = {}
            BY <1>1, <3>1, SameLoosensNothing
        <3>3. \A i \in 1 .. n + 1 : history'[i].version <= c.version
            <4>1. \A i \in 1 .. n : history'[i].version <= c.version
                BY <1>4, <2>1 DEF MayFollow
            <4>2. history'[n + 1].version = c.version /\ c.version <= c.version
                BY <1>1, <1>4 DEF e
            <4>3. n \in Nat
                BY <1>1 DEF n
            <4>4. \A i \in 1 .. n + 1 : i \in 1 .. n \/ i = n + 1
                BY <4>3
            <4> QED
                BY <4>1, <4>2, <4>4
        <3> QED
            BY <1>3, <1>4, <3>2, <3>3 DEF MayFollow
    <2>6. CurrentMayFollow'
        <3> SUFFICES ASSUME NEW t \in Stores, seen'[t] = n + 1
                     PROVE  MayFollow(config[t])'
            BY <1>4 DEF CurrentMayFollow
        <3>1. t = s
            BY <1>1, <2>4
        <3> QED
            BY <2>5, <3>1
    <2> QED
        BY <2>2, <2>3, <2>6 DEF Following
<1> QED
    BY <1>3, <1>5, <1>6, <1>7 DEF IInv, NoOverlap

(* Installing: what is accepted over the last entry may follow it, and what *)
(* it loosens beyond the configuration before it has been declared.         *)
LEMMA AcceptedMayFollow ==
    ASSUME IInv, Following, NEW s \in Stores, NEW c \in Configs, ~Stale(s),
           IF config[s] = NoConfig THEN ColdAccepts(c)
           ELSE /\ c.version > config[s].version
                /\ \A b \in Loosened(config[s].bounds, c.bounds) : <<b, c.bounds[b]>> \in declared',
           declared \subseteq declared'
    PROVE  /\ \A i \in DOMAIN history : history[i].version <= c.version
           /\ LastBounds # NoBounds =>
                  \A b \in Loosened(LastBounds, c.bounds) :
                      \E l \in Levels : <<b, l>> \in declared' /\ l >= c.bounds[b]
<1>1. /\ GuardTypeOK /\ VersionsNeverDrop
      /\ c.version \in Nat /\ c.bounds \in Bounds
    BY ConfigFields DEF IInv, Typed, Following
<1>2. CASE config[s] = NoConfig
    <2>1. ColdAccepts(c)
        BY <1>2
    <2>2. \A i \in DOMAIN history : history[i].version <= c.version
        BY <1>1, <2>1, FloorIsLast, HistoryFields DEF ColdAccepts
    <2> QED
        BY <2>1, <2>2 DEF ColdAccepts
<1>3. CASE config[s] # NoConfig
    <2> DEFINE old == config[s]
    <2>1. /\ old \in Configs /\ old.version \in Nat /\ old.bounds \in Bounds
          /\ MayFollow(old) /\ c.version > old.version
        BY <1>1, <1>3, ConfigFields DEF GuardTypeOK, Following, Stale, CurrentMayFollow
    <2>2. \A i \in DOMAIN history : history[i].version <= c.version
        BY <1>1, <2>1, HistoryFields DEF MayFollow
    <2>3. ASSUME LastBounds # NoBounds, NEW b \in Loosened(LastBounds, c.bounds)
          PROVE  \E l \in Levels : <<b, l>> \in declared' /\ l >= c.bounds[b]
        <3>1. /\ b \in Classes /\ c.bounds[b] > LastBounds[b]
              /\ c.bounds[b] \in Int /\ old.bounds[b] \in Int
              /\ old.bounds[b] >= Unset /\ (c.bounds[b] # Unset => c.bounds[b] \in Levels)
            BY <1>1, <2>1, <2>3, BoundsAreIntegers DEF Loosened
        <3>2. LastBounds[b] \in Int
            <4>1. LastBounds \in Bounds
                BY <1>1, <2>3, HistoryFields DEF LastBounds
            <4> QED
                BY <3>1, <4>1, BoundsAreIntegers
        <3>3. CASE c.bounds[b] > old.bounds[b]
            <4>1. <<b, c.bounds[b]>> \in declared'
                BY <1>3, <3>1, <3>3 DEF Loosened
            <4>2. c.bounds[b] \in Levels
                BY <3>1, <3>3 DEF Unset
            <4> QED
                BY <3>1, <4>1, <4>2
        <3>4. CASE ~(c.bounds[b] > old.bounds[b])
            <4>1. b \in Loosened(LastBounds, old.bounds)
                BY <3>1, <3>2, <3>4 DEF Loosened
            <4>2. PICK l \in Levels : <<b, l>> \in declared /\ l >= old.bounds[b]
                BY <2>1, <2>3, <4>1 DEF MayFollow, Declared
            <4> QED
                BY <3>1, <3>4, <4>2
        <3> QED
            BY <3>3, <3>4
    <2> QED
        BY <2>2, <2>3
<1> QED
    BY <1>2, <1>3

LEMMA InstallStep ==
    ASSUME IInv, NEW s \in Stores, NEW c \in Configs, NEW allow \in BOOLEAN,
           _install(s, c, allow),
           declared \subseteq declared',
           config[s] # NoConfig =>
               \A b \in Loosened(config[s].bounds, c.bounds) : <<b, c.bounds[b]>> \in declared'
    PROVE  IInv'
<1>1. /\ GuardTypeOK /\ linking[s] = -1 /\ chain_verifies
      /\ config' = [config EXCEPT ![s] = c]
      /\ linking' = [linking EXCEPT ![s] = Len(history)]
      /\ seen' = [seen EXCEPT ![s] = Len(history)]
      /\ authority' = authority /\ history' = history /\ registry' = registry
      /\ stale' = (stale \/ Stale(s))
      /\ IF Alone(s) THEN guardFaults' = guardFaults ELSE Suffer("shared")
    BY DEF _install, IInv, Typed
<1>2. /\ Len(history) \in Nat /\ c # NoConfig
    BY <1>1, HistoryFields
<1>3. /\ guardFaults' \in [GuardFaultKinds -> Nat]
      /\ guardFaults'["shared"] <= GuardFaults["shared"]
      /\ NoOverlap' => NoOverlap
    BY <1>1, NoOverlapBefore DEF IInv, GuardFaultKinds
<1>4. NoOverlap' => Alone(s)
    <2> SUFFICES ASSUME ~Alone(s) PROVE ~NoOverlap'
        OBVIOUS
    <2>1. /\ guardFaults["shared"] \in Nat /\ GuardFaults["shared"] \in Nat
          /\ guardFaults["shared"] <= GuardFaults["shared"]
          /\ guardFaults \in [GuardFaultKinds -> Nat] /\ "shared" \in GuardFaultKinds
        BY DEF IInv, Typed, GuardTypeOK, GuardFaultKinds
    <2>2. guardFaults'["shared"] = guardFaults["shared"] - 1
        BY <1>1, <2>1 DEF Suffer
    <2> QED
        BY <2>1, <2>2 DEF NoOverlap
<1>5. Typed'
    <2>1. GuardTypeOK'
        BY <1>1, <1>2, <1>3 DEF GuardTypeOK
    <2>2. \A t \in Stores : linking'[t] # -1 => config'[t] # NoConfig
        BY <1>1, <1>2 DEF IInv, Typed, GuardTypeOK
    <2> QED
        BY <1>3, <2>1, <2>2 DEF Typed
<1>6. ASSUME Linked, Alone(s) PROVE Linked'
    <2>1. chain_verifies'
        BY <1>1 DEF chain_verifies
    <2>2. OneLinks'
        BY <1>1, <1>2, <1>6 DEF Linked, OneLinks, Alone, GuardTypeOK
    <2> QED
        BY <2>1, <2>2 DEF Linked
<1>7. ASSUME Following, ~Stale(s) PROVE Following'
    <2>1. VersionsNeverDrop'
        BY <1>1, <1>7 DEF Following, VersionsNeverDrop
    <2>2. LooseningDeclared'
        BY <1>1, <1>7 DEF Following, LooseningDeclared
    <2>3. LastBounds' = LastBounds
        BY <1>1 DEF LastBounds
    <2>4. MayFollow(c)'
        <3>1. IF config[s] = NoConfig THEN ColdAccepts(c)
              ELSE /\ c.version > config[s].version
                   /\ \A b \in Loosened(config[s].bounds, c.bounds) :
                          <<b, c.bounds[b]>> \in declared'
            BY DEF _install, WarmAccepts
        <3>2. /\ \A i \in DOMAIN history : history[i].version <= c.version
              /\ LastBounds # NoBounds =>
                     \A b \in Loosened(LastBounds, c.bounds) :
                         \E l \in Levels : <<b, l>> \in declared' /\ l >= c.bounds[b]
            BY <1>7, <3>1, AcceptedMayFollow
        <3> QED
            BY <1>1, <2>3, <3>2 DEF MayFollow, Declared
    <2>5. CurrentMayFollow'
        <3> SUFFICES ASSUME NEW t \in Stores, config'[t] # NoConfig, seen'[t] = Len(history)
                     PROVE  MayFollow(config[t])'
            BY <1>1 DEF CurrentMayFollow
        <3>1. CASE t = s
            BY <1>1, <2>4, <3>1 DEF GuardTypeOK
        <3>2. CASE t # s
            <4>1. config'[t] = config[t] /\ seen'[t] = seen[t]
                BY <1>1, <3>2 DEF GuardTypeOK
            <4>2. MayFollow(config[t])
                BY <1>7, <4>1 DEF Following, CurrentMayFollow
            <4> QED
                BY <1>1, <2>3, <4>1, <4>2 DEF MayFollow, Declared
        <3> QED
            BY <3>1, <3>2
    <2> QED
        BY <2>1, <2>2, <2>5 DEF Following
<1>8. ~stale' => ~stale /\ ~Stale(s)
    BY <1>1
<1> QED
    BY <1>3, <1>4, <1>5, <1>6, <1>7, <1>8 DEF IInv

LEMMA StepHolds == IInv /\ [GuardNext]_guardVars => IInv'
<1> SUFFICES ASSUME IInv, [GuardNext]_guardVars PROVE IInv'
    OBVIOUS
<1>1. ASSUME NEW s \in Stores, NEW c \in Configs, load(s, c) PROVE IInv'
    <2>1. /\ _install(s, c, FALSE) /\ declared' = declared
          /\ config[s] # NoConfig => Loosened(config[s].bounds, c.bounds) = {}
        BY <1>1 DEF load, _install, WarmAccepts
    <2> QED
        BY <2>1, InstallStep
<1>2. ASSUME NEW s \in Stores, NEW c \in Configs, install_loosening(s, c) PROVE IInv'
    BY <1>2, InstallStep DEF install_loosening
<1>3. ASSUME NEW s \in Stores, _record_install(s) PROVE IInv'
    BY <1>3, RecordStep
<1>4. ASSUME NEW s \in Stores, record_fails(s) PROVE IInv'
    BY <1>4, FailsStep
<1>5. ASSUME NEW s \in Stores, NEW key \in Authorities, rotate_authority(s, key) PROVE IInv'
    BY <1>5, RotateStep
<1>6. ASSUME NEW s \in Stores, apply_to(s) PROVE IInv'
    BY <1>6, ApplyStep
<1>7. ASSUME NEW s \in Stores, restart(s) PROVE IInv'
    BY <1>7, RestartStep
<1>8. CASE UNCHANGED guardVars
    <2>1. GuardTypeOK'
        BY <1>8 DEF guardVars, IInv, Typed, GuardTypeOK
    <2> QED
        BY <1>8, <2>1, QuietStep DEF guardVars
<1> QED
    BY <1>1, <1>2, <1>3, <1>4, <1>5, <1>6, <1>7, <1>8 DEF GuardNext

(* Over restarts, rotations, lost records and any number of processes, as   *)
(* long as no install has overlapped the recording of another one: the      *)
(* install history verifies, and until some process installs over a         *)
(* configuration that another one has superseded, versions never drop,      *)
(* bounds loosen only by a signed record, and what was recorded last loads  *)
(* again (GuardConfigStore._install, _record_install).                      *)
THEOREM GuardHolds == GuardSpec => [](NoOverlap => GuardOnlyTightens)
<1>1. GuardInit => IInv
    BY InitHolds
<1>2. IInv /\ [GuardNext]_guardVars => IInv'
    BY StepHolds
<1>3. IInv => (NoOverlap => GuardOnlyTightens)
    BY PropertyFromInv
<1> QED
    BY <1>1, <1>2, <1>3, PTL DEF GuardSpec

-----------------------------------------------------------------------------
(* The gate between the interior and the exterior.                          *)

HIDE GuardConfigAssumption
USE GateAssumption

(* What has been decided still describes the log when it is carried out,    *)
(* unless an unlocked call came between or the class was left out.          *)
AdmissionStands ==
    verdict = "admit" /\ racing = MaxRacing /\ ~unmeasured => Bound # -1 /\ Measure <= Bound

VictimsAbandoned ==
    \A i \in DOMAIN log : log[i].kind = "rollback" => log[i].victims \subseteq abandoned

GInv ==
    /\ GateTypeOK
    /\ watermark <= Len(log)
    /\ racing <= MaxRacing
    /\ VictimsAbandoned
    /\ InteriorWithinBound
    /\ AdmissionStands

Kept == {i \in _live(watermark) : log[i].kind = "staged"}

LEMMA EventsAreSummed ==
    ASSUME GateTypeOK, NEW T \in SUBSET (1 .. Len(log))
    PROVE  /\ IsFiniteSet(T)
           /\ [i \in T |-> log[i].amount] \in [T -> Nat]
           /\ Total(T) = SumFunctionOnSet([i \in T |-> log[i].amount], T)
           /\ Total(T) \in Nat
<1> DEFINE f == [i \in T |-> log[i].amount]
<1>1. IsFiniteSet(T)
    <2>1. Len(log) \in Nat
        BY DEF GateTypeOK
    <2>2. IsFiniteSet(1 .. Len(log))
        BY <2>1, FS_Interval
    <2> QED BY <2>2, FS_Subset
<1>2. f \in [T -> Nat] /\ DOMAIN f = T
    BY DEF GateTypeOK, Event
<1>3. Total(T) = SumFunctionOnSet(f, T)
    BY <1>2 DEF Total, SumFunction
<1> HIDE DEF f
<1>4. SumFunctionOnSet(f, T) \in Nat
    BY <1>1, <1>2, SumIsNat
<1> QED
    BY <1>1, <1>2, <1>3, <1>4 DEF f

(* A part of the events weighs no more than all of them.                    *)
LEMMA PartWeighsLess ==
    ASSUME GateTypeOK, NEW S \in SUBSET (1 .. Len(log)), NEW T \in SUBSET S
    PROVE  Total(T) <= Total(S)
<1> DEFINE f == [i \in S |-> log[i].amount]
           g == [i \in T |-> log[i].amount]
<1>1. IsFiniteSet(S) /\ f \in [S -> Nat] /\ Total(S) = SumFunctionOnSet(f, S)
    BY EventsAreSummed
<1>2. T \in SUBSET (1 .. Len(log)) /\ Total(T) = SumFunctionOnSet(g, T)
    BY EventsAreSummed
<1>3. Restrict(f, T) = g
    BY DEF Restrict
<1> HIDE DEF f, g
<1> QED
    BY <1>1, <1>2, <1>3, SumOfPart

LEMMA LiveAreEvents ==
    ASSUME GateTypeOK, NEW k \in Nat, k <= Len(log)
    PROVE  _live(k) \in SUBSET (1 .. Len(log))
BY DEF GateTypeOK, _live

(* A step that keeps the events that were there and the ones promoted.      *)
LEMMA LogGrows ==
    ASSUME GInv, GateTypeOK', Len(log) <= Len(log'),
           \A i \in 1 .. Len(log) : log'[i] = log[i],
           watermark' = watermark, racing' \in Nat, racing' <= racing,
           unmeasured => unmeasured',
           abandoned \subseteq abandoned',
           \A i \in abandoned' \ abandoned : i > watermark,
           \A i \in 1 .. Len(log') : i > Len(log) /\ log'[i].kind = "rollback"
                => log'[i].victims \subseteq abandoned',
           AdmissionStands'
    PROVE  GInv'
<1>1. Len(log) \in Nat /\ Len(log') \in Nat /\ watermark \in Nat
    BY DEF GInv, GateTypeOK
<1>2. DOMAIN log = 1 .. Len(log) /\ DOMAIN log' = 1 .. Len(log')
    BY DEF GInv, GateTypeOK
<1>3. Kept' = Kept
    <2>1. \A i \in 1 .. watermark : i \in 1 .. Len(log) /\ log'[i] = log[i]
        BY <1>1 DEF GInv
    <2>2. \A i \in 1 .. watermark : i \in abandoned' <=> i \in abandoned
        BY <1>1
    <2> QED
        BY <2>1, <2>2 DEF Kept, _live
<1>4. Total(Kept)' = Total(Kept)
    <2>1. \A i \in Kept : log'[i] = log[i]
        BY <1>1 DEF Kept, _live, GInv
    <2>2. [i \in Kept |-> log'[i].amount] = [i \in Kept |-> log[i].amount]
        BY <2>1
    <2> QED
        BY <1>3, <2>2 DEF Total
<1>5. InteriorWithinBound'
    <2>1. racing' = MaxRacing => racing = MaxRacing
        BY DEF GInv, GateTypeOK
    <2> QED
        BY <2>1, <1>3, <1>4 DEF GInv, InteriorWithinBound, Kept
<1>6. VictimsAbandoned'
    <2> SUFFICES ASSUME NEW i \in DOMAIN log', log'[i].kind = "rollback"
                 PROVE  log'[i].victims \subseteq abandoned'
        BY DEF VictimsAbandoned
    <2>1. CASE i \in 1 .. Len(log)
        BY <2>1, <1>2 DEF GInv, VictimsAbandoned
    <2>2. CASE i > Len(log)
        BY <2>2, <1>2
    <2> QED
        BY <1>1, <1>2, <2>1, <2>2
<1>7. racing' <= MaxRacing
    BY DEF GInv, GateTypeOK
<1> QED
    BY <1>1, <1>5, <1>6, <1>7 DEF GInv

(* An unlocked call that meets a promotion ends the run of calm promotions. *)
LEMMA UnlockedSpends ==
    ASSUME GInv, Unlocked
    PROVE  /\ racing' \in Nat /\ racing' <= racing
           /\ verdict # "none" => racing' # MaxRacing
BY DEF GInv, GateTypeOK, Unlocked

(* One more event that is none of a rollback.                               *)
LEMMA AppendStep ==
    ASSUME GInv, NEW kind \in {"staged", "window"}, NEW a \in Nat,
           kind = "window" => a = 0,
           Unlocked, log' = Append(log, Ev(kind, a)),
           UNCHANGED <<watermark, abandoned, gated, verdict, unmeasured>>
    PROVE  GInv'
<1>1. /\ log \in Seq(Event) /\ Len(log) \in Nat /\ abandoned \subseteq 1 .. Len(log)
    BY DEF GInv, GateTypeOK
<1>2. Ev(kind, a) \in Event /\ Ev(kind, a).kind = kind
    BY DEF Event, Ev, Control
<1>3. /\ log' \in Seq(Event) /\ Len(log') = Len(log) + 1
      /\ \A i \in 1 .. Len(log) : log'[i] = log[i]
      /\ log'[Len(log) + 1] = Ev(kind, a)
    BY <1>1, <1>2, AppendProperties
<1>4. racing' \in Nat /\ racing' <= racing /\ (verdict # "none" => racing' # MaxRacing)
    BY UnlockedSpends
<1>5. GateTypeOK'
    BY <1>1, <1>3, <1>4 DEF GInv, GateTypeOK
<1>6. \A i \in 1 .. Len(log') : i > Len(log) => log'[i].kind # "rollback"
    BY <1>1, <1>2, <1>3
<1>7. AdmissionStands'
    BY <1>4 DEF AdmissionStands
<1>8. Len(log) <= Len(log')
    BY <1>1, <1>3
<1> QED
    BY <1>3, <1>4, <1>5, <1>6, <1>7, <1>8, LogGrows

LEMMA SubmitGated ==
    ASSUME GInv, NEW a \in Amounts, submit(a)
    PROVE  GInv'
<1>1. racing' \in Nat /\ racing' <= racing /\ (verdict # "none" => racing' # MaxRacing)
    BY UnlockedSpends DEF submit
<1>2. gated' \in Seq(Amounts) /\ UNCHANGED <<log, watermark, abandoned, verdict, unmeasured>>
    BY DEF GInv, GateTypeOK, submit
<1>3. GateTypeOK'
    BY <1>1, <1>2 DEF GInv, GateTypeOK
<1>4. AdmissionStands'
    BY <1>1, <1>2 DEF AdmissionStands
<1>5. Len(log) \in Nat /\ DOMAIN log = 1 .. Len(log)
    BY DEF GInv, GateTypeOK
<1> QED
    BY <1>1, <1>2, <1>3, <1>4, <1>5, LogGrows

(* A rollback abandons only what lies after the watermark.                  *)
LEMMA RollBackStep ==
    ASSUME GInv, RollBack, verdict' \in {"none", verdict},
           racing' \in Nat, racing' <= racing, unmeasured' = unmeasured,
           verdict' # "none" => racing' # MaxRacing
    PROVE  GInv'
<1> DEFINE victims == staged_events
           e == [Ev("rollback", 0) EXCEPT !.victims = victims]
<1>1. /\ log \in Seq(Event) /\ Len(log) \in Nat /\ abandoned \subseteq 1 .. Len(log)
      /\ racing \in Nat /\ watermark \in Nat
    BY DEF GInv, GateTypeOK
<1>2. victims \subseteq 1 .. Len(log) /\ \A i \in victims : i > watermark
    BY <1>1 DEF staged_events, _live
<1>3. /\ watermark' = watermark /\ abandoned' = abandoned \cup victims /\ gated' = <<>>
      /\ log' = log \/ log' = Append(log, e)
    BY DEF RollBack
<1>4. e \in Event /\ e.kind = "rollback" /\ e.victims = victims
    <2>1. e = [kind |-> "rollback", amount |-> 0, victims |-> victims]
        BY DEF Ev
    <2>2. victims \in SUBSET Nat
        BY <1>1, <1>2
    <2> HIDE DEF e, victims
    <2> QED
        BY <2>1, <2>2 DEF Event, Control
<1> HIDE DEF victims, e
<1>5. /\ log' \in Seq(Event) /\ Len(log') \in Nat /\ Len(log) <= Len(log')
      /\ \A i \in 1 .. Len(log) : log'[i] = log[i]
      /\ \A i \in 1 .. Len(log') : i > Len(log) => log'[i] = e
    <2>1. CASE log' = log
        BY <2>1, <1>1
    <2>2. CASE log' = Append(log, e)
        <3>1. /\ log' \in Seq(Event) /\ Len(log') = Len(log) + 1
              /\ \A i \in 1 .. Len(log) : log'[i] = log[i]
              /\ log'[Len(log) + 1] = e
            BY <2>2, <1>1, <1>4, AppendProperties
        <3> QED BY <3>1, <1>1
    <2> QED BY <1>3, <2>1, <2>2
<1>6. gated' \in Seq(Amounts)
    BY <1>3
<1>7. abandoned' \subseteq 1 .. Len(log')
    BY <1>1, <1>2, <1>3, <1>5
<1>8. GateTypeOK'
    BY <1>1, <1>3, <1>5, <1>6, <1>7 DEF GInv, GateTypeOK
<1>9. AdmissionStands'
    BY DEF AdmissionStands
<1>10. \A i \in 1 .. Len(log') : i > Len(log) /\ log'[i].kind = "rollback"
                => log'[i].victims \subseteq abandoned'
    BY <1>3, <1>4, <1>5
<1>11. \A i \in abandoned' \ abandoned : i > watermark
    BY <1>2, <1>3
<1> QED
    BY <1>3, <1>5, <1>8, <1>9, <1>10, <1>11, LogGrows

LEMMA PromoteStep ==
    ASSUME GInv, NEW named \in BOOLEAN, promote(named)
    PROVE  GInv'
<1>0. /\ unmeasured' \in BOOLEAN /\ (unmeasured => unmeasured')
      /\ ~unmeasured' => named /\ ~unmeasured
    BY Zenon DEF promote
<1>1. /\ verdict' \in {"admit", "refuse"} /\ (verdict' = "admit" => evaluate(named))
      /\ UNCHANGED <<log, watermark, abandoned, gated, racing>>
    BY DEF promote
<1>2. GateTypeOK'
    BY <1>0, <1>1 DEF GInv, GateTypeOK
<1>3. Measure' = Measure
    BY <1>1 DEF Measure, Total, _live
<1>4. AdmissionStands'
    BY <1>0, <1>1, <1>3 DEF AdmissionStands, evaluate
<1>5. Len(log) \in Nat /\ DOMAIN log = 1 .. Len(log) /\ racing \in Nat
    BY DEF GInv, GateTypeOK
<1> QED
    BY <1>0, <1>1, <1>2, <1>4, <1>5, LogGrows

(* What a promotion keeps of the interior is part of what was measured.     *)
LEMMA AdmittedStep ==
    ASSUME GInv, admitted
    PROVE  GInv'
<1> DEFINE batch == [i \in DOMAIN gated |-> Ev("gated", gated[i])]
           last == <<Ev("promote", 0)>>
<1>1. /\ log \in Seq(Event) /\ Len(log) \in Nat /\ abandoned \subseteq 1 .. Len(log)
      /\ racing \in Nat /\ watermark \in Nat /\ gated \in Seq(Amounts) /\ Len(gated) \in Nat
      /\ watermark <= Len(log)
    BY DEF GInv, GateTypeOK
<1>2. /\ verdict = "admit" /\ verdict' = "none" /\ log' = (log \o batch) \o last
      /\ watermark' = Len(log') /\ gated' = <<>> /\ abandoned' = abandoned
      /\ racing' = racing /\ unmeasured' = unmeasured
    BY DEF admitted
<1>3. /\ batch \in Seq(Event) /\ Len(batch) = Len(gated)
      /\ \A i \in 1 .. Len(batch) : batch[i].kind = "gated"
    <2>0. DOMAIN gated = 1 .. Len(gated) /\ \A i \in 1 .. Len(gated) : gated[i] \in Amounts
        BY <1>1
    <2>1. DOMAIN gated = 1 .. Len(gated) /\ \A i \in 1 .. Len(gated) : gated[i] \in Nat
        BY <2>0
    <2>2. \A i \in 1 .. Len(gated) : Ev("gated", gated[i]) \in Event
        BY <2>1 DEF Ev, Event
    <2>3. batch \in [1 .. Len(gated) -> Event]
        BY <2>1, <2>2
    <2>4. batch \in Seq(Event) /\ Len(batch) = Len(gated)
        BY <2>3, <1>1
    <2> QED
        BY <2>1, <2>4 DEF Ev
<1>4. last \in Seq(Event) /\ Len(last) = 1 /\ last[1].kind = "promote"
    BY DEF Ev, Event, Control
<1> HIDE DEF batch, last
<1>5. /\ log \o batch \in Seq(Event) /\ Len(log \o batch) = Len(log) + Len(batch)
      /\ \A i \in 1 .. Len(log) + Len(batch) :
            (log \o batch)[i] = IF i <= Len(log) THEN log[i] ELSE batch[i - Len(log)]
    BY <1>1, <1>3, ConcatProperties
<1>6. /\ log' \in Seq(Event) /\ Len(log') = Len(log) + Len(batch) + 1
      /\ \A i \in 1 .. Len(log) + Len(batch) : log'[i] = (log \o batch)[i]
      /\ log'[Len(log) + Len(batch) + 1] = last[1]
    <2> DEFINE front == log \o batch
    <2>1. front \in Seq(Event) /\ Len(front) \in Nat /\ log' = front \o last
        BY <1>2, <1>5
    <2> HIDE DEF front
    <2>2. /\ front \o last \in Seq(Event) /\ Len(front \o last) = Len(front) + 1
          /\ \A i \in 1 .. Len(front) + 1 :
                (front \o last)[i] = IF i <= Len(front) THEN front[i] ELSE last[i - Len(front)]
        <3>1. /\ front \o last \in Seq(Event)
              /\ Len(front \o last) = Len(front) + Len(last)
              /\ \A i \in 1 .. Len(front) + Len(last) :
                    (front \o last)[i] = IF i <= Len(front) THEN front[i]
                                         ELSE last[i - Len(front)]
            BY <2>1, <1>4, ConcatProperties
        <3> QED BY <3>1, <1>4
    <2>3. /\ \A i \in 1 .. Len(front) : log'[i] = front[i]
          /\ log'[Len(front) + 1] = last[1]
        BY <2>1, <2>2
    <2>4. Len(front) = Len(log) + Len(batch)
        BY <1>5 DEF front
    <2> QED BY <2>1, <2>2, <2>3, <2>4 DEF front
<1>7. /\ Len(log') \in Nat /\ Len(log) < Len(log')
      /\ \A i \in 1 .. Len(log) : log'[i] = log[i]
      /\ \A i \in 1 .. Len(log') : i > Len(log) => log'[i].kind \in {"gated", "promote"}
    <2>1. Len(batch) \in Nat
        BY <1>1, <1>3
    <2>2. \A i \in 1 .. Len(log) : log'[i] = log[i]
        <3> TAKE i \in 1 .. Len(log)
        <3>1. i \in 1 .. Len(log) + Len(batch) /\ i <= Len(log)
            BY <2>1, <1>1
        <3> QED BY <3>1, <1>5, <1>6
    <2>3. ASSUME NEW i \in 1 .. Len(log'), i > Len(log)
          PROVE  log'[i].kind \in {"gated", "promote"}
        <3>1. CASE i = Len(log) + Len(batch) + 1
            BY <3>1, <1>4, <1>6
        <3>2. CASE i # Len(log) + Len(batch) + 1
            <4>1. i \in 1 .. Len(log) + Len(batch) /\ i - Len(log) \in 1 .. Len(batch)
                <5> DEFINE n == Len(log)
                           m == Len(batch)
                <5>1. n \in Nat /\ m \in Nat /\ i \in 1 .. n + m + 1 /\ i > n /\ i # n + m + 1
                    BY <2>1, <2>3, <3>2, <1>1, <1>6
                <5> HIDE DEF n, m
                <5>2. i \in 1 .. n + m /\ i - n \in 1 .. m
                    BY <5>1
                <5> QED BY <5>2 DEF n, m
            <4>2. log'[i] = batch[i - Len(log)]
                BY <4>1, <2>3, <1>1, <1>5, <1>6
            <4> QED BY <4>1, <4>2, <1>3
        <3> QED BY <3>1, <3>2
    <2> QED
        BY <2>1, <2>2, <2>3, <1>1, <1>6
<1>8. GateTypeOK'
    <2>1. gated' \in Seq(Amounts)
        BY <1>2
    <2>2. abandoned' \subseteq 1 .. Len(log')
        BY <1>1, <1>2, <1>7
    <2> QED
        BY <2>1, <2>2, <1>1, <1>2, <1>6, <1>7 DEF GInv, GateTypeOK
<1>9. VictimsAbandoned'
    <2>1. DOMAIN log' = 1 .. Len(log') /\ DOMAIN log = 1 .. Len(log)
        BY <1>1, <1>6
    <2> SUFFICES ASSUME NEW i \in 1 .. Len(log'), log'[i].kind = "rollback"
                 PROVE  log'[i].victims \subseteq abandoned'
        BY <2>1 DEF VictimsAbandoned
    <2>2. i \in 1 .. Len(log)
        BY <1>1, <1>7
    <2> QED
        BY <2>1, <2>2, <1>2, <1>7 DEF GInv, VictimsAbandoned
<1>10. InteriorWithinBound'
    <2> SUFFICES ASSUME racing' = MaxRacing, ~unmeasured'
                 PROVE  Total(Kept)' <= Bound
        BY DEF InteriorWithinBound, Kept
    <2>1. Bound # -1 /\ Total(_live(Len(log))) <= Bound
        BY <1>2 DEF GInv, AdmissionStands, Measure
    <2>2. _live(Len(log)) \in SUBSET (1 .. Len(log))
        BY DEF _live
    <2>3. Kept' \in SUBSET _live(Len(log))
        <3> SUFFICES ASSUME NEW i \in Kept' PROVE i \in _live(Len(log))
            OBVIOUS
        <3>1. i \in 1 .. Len(log') /\ i \notin abandoned /\ log'[i].kind = "staged"
            BY <1>2 DEF Kept, _live
        <3>2. i \in 1 .. Len(log) /\ log'[i] = log[i]
            BY <3>1, <1>1, <1>7
        <3> QED
            BY <3>1, <3>2 DEF _live, Control
    <2>4. PICK K : K = Kept'
        OBVIOUS
    <2>5. Total(K)' = Total(K)
        <3>1. \A i \in K : log'[i] = log[i]
            BY <2>2, <2>3, <2>4, <1>7
        <3>2. [i \in K |-> log'[i].amount] = [i \in K |-> log[i].amount]
            BY <3>1
        <3> QED BY <3>2 DEF Total
    <2>6. GateTypeOK
        BY DEF GInv
    <2>7. Total(K) <= Total(_live(Len(log)))
        BY <2>2, <2>3, <2>4, <2>6, PartWeighsLess
    <2>8. Total(K) \in Nat /\ Total(_live(Len(log))) \in Nat
        BY <2>2, <2>3, <2>4, <2>6, EventsAreSummed
    <2>9. Total(K) <= Bound
        BY <2>1, <2>7, <2>8
    <2> QED
        BY <2>4, <2>5, <2>9 DEF Total
<1>11. AdmissionStands'
    BY <1>2 DEF AdmissionStands
<1>12. watermark' <= Len(log') /\ racing' <= MaxRacing
    BY <1>2, <1>7 DEF GInv
<1> QED
    BY <1>8, <1>9, <1>10, <1>11, <1>12 DEF GInv

LEMMA GateStart == GateInit => GInv
<1> SUFFICES ASSUME GateInit PROVE GInv
    OBVIOUS
<1>1. log = <<>> /\ Len(log) = 0 /\ DOMAIN log = {} /\ log \in Seq(Event)
    BY DEF GateInit
<1>2. GateTypeOK
    <2>1. unmeasured \in BOOLEAN
        BY Zenon DEF GateInit
    <2> QED
        BY <1>1, <2>1 DEF GateInit, GateTypeOK
<1>3. InteriorWithinBound
    BY DEF GateInit, InteriorWithinBound, _live
<1>4. AdmissionStands /\ VictimsAbandoned
    BY <1>1 DEF GateInit, AdmissionStands, VictimsAbandoned
<1> QED
    BY <1>1, <1>2, <1>3, <1>4 DEF GateInit, GInv

LEMMA GateStep == GInv /\ [GateNext]_gateVars => GInv'
<1> SUFFICES ASSUME GInv, [GateNext]_gateVars PROVE GInv'
    OBVIOUS
<1>1. ASSUME NEW a \in Amounts, stage(a) PROVE GInv'
    BY <1>1, AppendStep DEF stage
<1>2. ASSUME NEW a \in Amounts, submit(a) PROVE GInv'
    BY <1>2, SubmitGated
<1>3. CASE open_window
    BY <1>3, AppendStep DEF open_window
<1>4. CASE rollback
    <2>1. /\ RollBack /\ verdict' = verdict /\ unmeasured' = unmeasured
          /\ racing' \in Nat /\ racing' <= racing /\ (verdict # "none" => racing' # MaxRacing)
        BY <1>4, UnlockedSpends DEF rollback
    <2> QED
        BY <2>1, RollBackStep
<1>5. ASSUME NEW named \in BOOLEAN, promote(named) PROVE GInv'
    BY <1>5, PromoteStep
<1>6. CASE admitted
    BY <1>6, AdmittedStep
<1>7. CASE refused
    <2>1. /\ RollBack /\ verdict' = "none" /\ unmeasured' = unmeasured
          /\ racing' \in Nat /\ racing' <= racing
        BY <1>7 DEF refused, GInv, GateTypeOK
    <2> QED
        BY <2>1, RollBackStep
<1>8. CASE UNCHANGED gateVars
    BY <1>8 DEF gateVars, GInv, GateTypeOK, VictimsAbandoned, InteriorWithinBound,
                AdmissionStands, Measure, Total, _live
<1> QED
    BY <1>1, <1>2, <1>3, <1>4, <1>5, <1>6, <1>7, <1>8 DEF GateNext

(* Whatever is staged, submitted, promoted, refused and rolled back, the    *)
(* interior that promote() has let through stays within the cumulative      *)
(* bound while every promotion names the harm class and no unlocked call    *)
(* meets a decision, and no event that a rollback abandoned is live again   *)
(* (StagingArea._promote_locked, rollback).                                 *)
THEOREM InteriorHolds == GateSpec => []InteriorContained
<1>1. GInv => InteriorContained
    BY DEF GInv, InteriorContained, VictimsAbandoned, AbandonedStaysOut, _live
<1> QED
    BY <1>1, GateStart, GateStep, PTL DEF GateSpec
=============================================================================
