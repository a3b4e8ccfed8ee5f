---------------------------- MODULE ArtifactStore ----------------------------
(***************************************************************************)
(* The content-addressed store (gyza/network/artifact_store.py), shared by *)
(* threads and processes without a lock, and the client that fills it from *)
(* its peers (artifact_client.py, artifact_server.py).  A walk of the      *)
(* directory is one step; between two file operations of a call anything   *)
(* may happen.                                                             *)
(***************************************************************************)
EXTENDS Integers, Sequences, FiniteSets, FiniteSetsExt, Functions

CONSTANTS
    Writers,     \* threads that store, runners or clients
    Fetchers,    \* the clients among them, which store what they fetch
    Getters,     \* threads that read
    Hashes,
    SizeOf,      \* [Hashes -> Nat]
    Capacity,    \* max_bytes
    Peers, Honest,   \* artifact servers, and the ones that hold and serve everything
    MaxOps,      \* bound on the calls of a writer
    ArtFaults    \* the faults allowed: crashes, lost tombstones, rot

ASSUME ArtifactAssumption ==
    /\ SizeOf \in [Hashes -> Nat]
    /\ Capacity \in Nat /\ MaxOps \in Nat /\ Honest \subseteq Peers /\ Fetchers \subseteq Writers
    /\ IsFiniteSet(Writers) /\ Writers # {}

VARIABLES
    evicting,  \* evict_when_full
    files,     \* the artifacts on disk, oldest first
    rotten,    \* those whose bytes have changed
    toms,      \* [Hashes -> Nat]: records of the tombstone log
    writing,   \* [Writers -> call states]
    reading,   \* [Getters -> call states]
    ops,       \* [Writers -> Nat]: calls so far
    artFaults, \* faults still allowed
    landed,    \* history [Hashes -> Nat]: appearances on disk
    deleted,   \* history [Hashes -> Nat]: files removed as corrupt
    unlogged   \* history [Hashes -> Nat]: evictions whose record was lost

artVars == <<evicting, files, rotten, toms, writing, reading, ops, artFaults,
             landed, deleted, unlogged>>
ledger == <<landed, deleted, unlogged>>

ArtFaultKinds == {"crash", "lost", "rot"}

(* A call: its step, its artifact, the files evict_to_fit still has to try, *)
(* the total it reckons with, the tombstone due, the peers not yet asked,   *)
(* and, history, whether another file landed since the scan.                *)
Call(at, h, peers) ==
    [at |-> at, h |-> h, plan |-> <<>>, total |-> 0, due |-> {}, ask |-> peers, raced |-> FALSE]
Done(answer) == [at |-> answer]
Ended == {"idle", "ok", "full", "none", "raised", "crashed"}

CallStates ==
    {Done(answer) : answer \in {"idle", "ok", "none", "raised", "crashed"}}
    \cup [at : {"cached", "mismatch", "ask", "measure", "scan", "evict", "record", "remeasure", "write", "full"},
          h : Hashes, plan : Seq(Hashes), total : Int, due : SUBSET Hashes,
          ask : SUBSET Peers, raced : BOOLEAN]
ReadStates ==
    {Done(answer) : answer \in {"idle", "none", "read", "raised"}}
    \cup [at : {"found", "mismatch"}, h : Hashes]

exists(h) == h \in Range(files)
Bytes(hs) == SumFunction([h \in hs |-> SizeOf[h]])
total_size_bytes == Bytes(Range(files))
Without(h) ==
    IF ~exists(h) THEN files
    ELSE LET i == CHOOSE i \in DOMAIN files : files[i] = h
         IN  [j \in 1 .. Len(files) - 1 |-> files[IF j < i THEN j ELSE j + 1]]

(* The file goes as corrupt, if it is there.                                *)
Drop(h) ==
    /\ files' = Without(h) /\ rotten' = rotten \ {h}
    /\ deleted' = [deleted EXCEPT ![h] = @ + (IF exists(h) THEN 1 ELSE 0)]

Go(w, c) == writing' = [writing EXCEPT ![w] = c]
Befalls(f) == artFaults[f] > 0 /\ artFaults' = [artFaults EXCEPT ![f] = @ - 1]

-----------------------------------------------------------------------------
(* store and fetch are called; fetch gets from its own store first, file    *)
(* operation by file operation, and then asks the peers in turn.            *)
store(w, h) ==
    /\ writing[w].at \in Ended \ {"crashed"} /\ ops[w] < MaxOps
    /\ ops' = [ops EXCEPT ![w] = @ + 1]
    /\ Go(w, IF exists(h) THEN Done("ok") ELSE Call("measure", h, {}))
    /\ UNCHANGED <<evicting, files, rotten, toms, reading, artFaults, ledger>>

fetch(w, h) ==
    /\ writing[w].at \in Ended \ {"crashed"} /\ ops[w] < MaxOps
    /\ ops' = [ops EXCEPT ![w] = @ + 1]
    /\ Go(w, Call(IF exists(h) THEN "cached" ELSE "ask", h, Peers))
    /\ UNCHANGED <<evicting, files, rotten, toms, reading, artFaults, ledger>>

read_cached(w) ==
    /\ writing[w].at = "cached"
    /\ LET h == writing[w].h
       IN  Go(w, IF ~exists(h) THEN Done("raised")
                 ELSE IF h \in rotten THEN [writing[w] EXCEPT !.at = "mismatch"] ELSE Done("ok"))
    /\ UNCHANGED <<evicting, files, rotten, toms, reading, ops, artFaults, ledger>>

drop_cached(w) ==
    /\ writing[w].at = "mismatch"
    /\ Drop(writing[w].h)
    /\ Go(w, [writing[w] EXCEPT !.at = "ask"])
    /\ UNCHANGED <<evicting, toms, reading, ops, artFaults, landed, unlogged>>

(* Fault: bytes that do not match end the fetch.                            *)
PeerFailsTheFetch(w, p) ==
    /\ writing[w].at = "ask" /\ p \in writing[w].ask
    /\ p \notin Honest
    /\ Go(w, Done("none"))

(* The peer has nothing, cannot be reached, refuses the request, lost the   *)
(* file since it said it had it, or serves other bytes: the next is asked.  *)
peer_fails(w, p) ==
    /\ writing[w].at = "ask" /\ p \in writing[w].ask
    /\ p \notin Honest
    /\ Go(w, [writing[w] EXCEPT !.ask = @ \ {p}])

ask_next(w, p) ==
    /\ peer_fails(w, p)
    /\ UNCHANGED <<evicting, files, rotten, toms, reading, ops, artFaults, ledger>>

peer_serves(w, p) ==
    /\ writing[w].at = "ask" /\ p \in writing[w].ask \cap Honest
    /\ Go(w, IF exists(writing[w].h) THEN Done("ok") ELSE Call("measure", writing[w].h, {}))
    /\ UNCHANGED <<evicting, files, rotten, toms, reading, ops, artFaults, ledger>>

nobody_has_it(w) ==
    /\ writing[w].at = "ask" /\ writing[w].ask = {}
    /\ Go(w, Done("none"))
    /\ UNCHANGED <<evicting, files, rotten, toms, reading, ops, artFaults, ledger>>

-----------------------------------------------------------------------------
(* store: the capacity check, the eviction, the second check, the write.    *)

(* Fault: the incoming bytes are left out.                                  *)
FitsBefore(h) == total_size_bytes <= Capacity

Fits(h) == total_size_bytes + SizeOf[h] <= Capacity

measure(w) ==
    /\ writing[w].at = "measure"
    /\ Go(w, [writing[w] EXCEPT !.at = IF Fits(writing[w].h) THEN "write"
                                       ELSE IF evicting THEN "scan" ELSE "full"])
    /\ UNCHANGED <<evicting, files, rotten, toms, reading, ops, artFaults, ledger>>

(* Fault: the room made is the room the cap leaves.                         *)
TargetIsCap(h) == Capacity

(* What may stay on disk beside the artifact h.                             *)
Target(h) == Capacity - SizeOf[h]

(* evict_to_fit, its scan; an artifact above the cap evicts nothing.        *)
evict_scan(w) ==
    /\ writing[w].at = "scan"
    /\ Go(w, IF SizeOf[writing[w].h] > Capacity
             THEN [writing[w] EXCEPT !.at = "remeasure"]
             ELSE [writing[w] EXCEPT !.at = "evict", !.plan = files,
                                     !.total = total_size_bytes, !.raced = FALSE])
    /\ UNCHANGED <<evicting, files, rotten, toms, reading, ops, artFaults, ledger>>

(* Fault: a file that is already gone counts as evicted.                    *)
EvictMissingOk(w) ==
    LET c == writing[w]
        h == Head(c.plan)
    IN  /\ files' = Without(h)
        /\ Go(w, [c EXCEPT !.plan = Tail(@), !.total = @ - SizeOf[h],
                           !.at = "record", !.due = {h}])

(* The oldest file of the scan: unlinked, or gone already and skipped.      *)
evict_oldest(w) ==
    LET c == writing[w]
        h == Head(c.plan)
    IN  /\ files' = Without(h)
        /\ Go(w, IF exists(h)
                 THEN [c EXCEPT !.plan = Tail(@), !.total = @ - SizeOf[h],
                                !.at = "record", !.due = {h}]
                 ELSE [c EXCEPT !.plan = Tail(@)])

evict(w) ==
    /\ writing[w].at = "evict"
    /\ writing[w].plan # <<>> /\ writing[w].total > Target(writing[w].h)
    /\ evict_oldest(w)
    /\ rotten' = rotten \ {Head(writing[w].plan)}
    /\ UNCHANGED <<evicting, toms, reading, ops, artFaults, ledger>>

_record_tombstone(w) ==
    /\ writing[w].at = "record"
    /\ toms' = [h \in Hashes |-> toms[h] + (IF h \in writing[w].due THEN 1 ELSE 0)]
    /\ Go(w, [writing[w] EXCEPT !.at = "evict", !.due = {}])
    /\ UNCHANGED <<evicting, files, rotten, reading, ops, artFaults, ledger>>

(* The log cannot be appended to: a warning, and the eviction goes on.      *)
tombstone_lost(w) ==
    /\ writing[w].at = "record" /\ Befalls("lost")
    /\ unlogged' = [h \in Hashes |-> unlogged[h] + (IF h \in writing[w].due THEN 1 ELSE 0)]
    /\ Go(w, [writing[w] EXCEPT !.at = "evict", !.due = {}])
    /\ UNCHANGED <<evicting, files, rotten, toms, reading, ops, landed, deleted>>

evicted(w) ==
    /\ writing[w].at = "evict"
    /\ writing[w].plan = <<>> \/ writing[w].total <= Target(writing[w].h)
    /\ Go(w, [writing[w] EXCEPT !.at = "remeasure", !.plan = <<>>, !.total = 0])
    /\ UNCHANGED <<evicting, files, rotten, toms, reading, ops, artFaults, ledger>>

remeasure(w) ==
    /\ writing[w].at = "remeasure"
    /\ Go(w, [writing[w] EXCEPT !.at = IF Fits(writing[w].h) THEN "write" ELSE "full"])
    /\ UNCHANGED <<evicting, files, rotten, toms, reading, ops, artFaults, ledger>>

(* Fault: the rename is taken for a second file beside the first.           *)
ReplaceKept(w) ==
    /\ writing[w].at = "write"
    /\ files' = Append(files, writing[w].h)
    /\ landed' = [landed EXCEPT ![writing[w].h] = @ + (IF exists(writing[w].h) THEN 0 ELSE 1)]
    /\ writing' = [writing EXCEPT ![w] = Done("ok")]
    /\ UNCHANGED <<evicting, rotten, toms, reading, ops, artFaults, deleted, unlogged>>

(* The rename: a new file, or one in the place of another, newest of all.   *)
replace(w) ==
    /\ writing[w].at = "write"
    /\ LET h == writing[w].h
       IN  /\ files' = Append(Without(h), h)
           /\ rotten' = rotten \ {h}
           /\ landed' = [landed EXCEPT ![h] = @ + (IF exists(h) THEN 0 ELSE 1)]
           /\ writing' = [v \in Writers |->
                 IF v = w THEN Done("ok")
                 ELSE IF writing[v].at \in {"evict", "record", "remeasure"}
                 THEN [writing[v] EXCEPT !.raced = TRUE] ELSE writing[v]]
    /\ UNCHANGED <<evicting, toms, reading, ops, artFaults, deleted, unlogged>>

(* The process dies; what it had unlinked and not recorded stays unrecorded. *)
crash_writer(w) ==
    /\ writing[w].at \notin Ended /\ Befalls("crash")
    /\ unlogged' = [h \in Hashes |-> unlogged[h] + (IF h \in writing[w].due THEN 1 ELSE 0)]
    /\ Go(w, Done("crashed"))
    /\ UNCHANGED <<evicting, files, rotten, toms, reading, ops, landed, deleted>>

-----------------------------------------------------------------------------
(* get: exists, read and verify, unlink.                                    *)
get(r, h) ==
    /\ reading[r].at \in {"idle", "none", "read", "raised"}
    /\ reading' = [reading EXCEPT ![r] =
                     IF exists(h) THEN [at |-> "found", h |-> h] ELSE Done("none")]
    /\ UNCHANGED <<evicting, files, rotten, toms, writing, ops, artFaults, ledger>>

(* read_bytes raises when the file went away meanwhile.                     *)
read_bytes(r) ==
    /\ reading[r].at = "found"
    /\ LET h == reading[r].h
       IN  reading' = [reading EXCEPT ![r] = IF ~exists(h) THEN Done("raised")
                                             ELSE IF h \in rotten
                                             THEN [at |-> "mismatch", h |-> h] ELSE Done("read")]
    /\ UNCHANGED <<evicting, files, rotten, toms, writing, ops, artFaults, ledger>>

delete_corrupt(r) ==
    /\ reading[r].at = "mismatch"
    /\ Drop(reading[r].h)
    /\ reading' = [reading EXCEPT ![r] = Done("none")]
    /\ UNCHANGED <<evicting, toms, writing, ops, artFaults, landed, unlogged>>

(* The bytes of a file change on disk.                                      *)
rot(h) ==
    /\ exists(h) /\ h \notin rotten /\ Befalls("rot")
    /\ rotten' = rotten \cup {h}
    /\ UNCHANGED <<evicting, files, toms, writing, reading, ops, ledger>>

-----------------------------------------------------------------------------
ArtInit ==
    /\ evicting \in BOOLEAN
    /\ files = <<>> /\ rotten = {} /\ toms = [h \in Hashes |-> 0]
    /\ writing = [w \in Writers |-> Done("idle")] /\ reading = [r \in Getters |-> Done("idle")]
    /\ ops = [w \in Writers |-> 0] /\ artFaults \in ArtFaults
    /\ landed = [h \in Hashes |-> 0] /\ deleted = [h \in Hashes |-> 0]
    /\ unlogged = [h \in Hashes |-> 0]

StoreStep(w) ==
    \/ measure(w) \/ evict_scan(w) \/ evict(w) \/ _record_tombstone(w) \/ tombstone_lost(w)
    \/ evicted(w) \/ remeasure(w) \/ replace(w)
    \/ read_cached(w) \/ drop_cached(w) \/ nobody_has_it(w)
    \/ \E p \in Peers : ask_next(w, p) \/ peer_serves(w, p)

ArtNext ==
    \/ \E w \in Writers : StoreStep(w) \/ crash_writer(w)
    \/ \E w \in Writers \ Fetchers, h \in Hashes : store(w, h)
    \/ \E w \in Fetchers, h \in Hashes : fetch(w, h)
    \/ \E r \in Getters : read_bytes(r) \/ delete_corrupt(r)
    \/ \E r \in Getters, h \in Hashes : get(r, h)
    \/ \E h \in Hashes : rot(h)

ArtSpec == ArtInit /\ [][ArtNext]_artVars

-----------------------------------------------------------------------------
(* Properties.                                                              *)

(* The state has its types; a file is on disk once.                         *)
ArtTypeOK ==
    /\ evicting \in BOOLEAN /\ files \in Seq(Hashes) /\ IsInjective(files)
    /\ rotten \subseteq Range(files)
    /\ \A v \in {toms, landed, deleted, unlogged} : v \in [Hashes -> Nat]
    /\ ops \in [Writers -> 0..MaxOps]
    /\ writing \in [Writers -> CallStates] /\ reading \in [Getters -> ReadStates]

(* The calls that have unlinked the file and not recorded it yet.           *)
Unrecorded(h) == {w \in Writers : writing[w].at = "record" /\ h \in writing[w].due}

(* "The deletion is an appended fact, not an absence" (artifact_store.py:   *)
(* 171): every file that came and is gone has one tombstone, was deleted as *)
(* corrupt, or is one of the evictions whose record a fault swallowed,      *)
(* however many evictors worked from the same scan.                         *)
AbsencesAttributed == \A h \in Hashes :
    landed[h] = (IF exists(h) THEN 1 ELSE 0) + toms[h] + deleted[h] + unlogged[h]
                + Cardinality(Unrecorded(h))

Largest == Max({0} \cup {n \in 0 .. Capacity : \E h \in Hashes : SizeOf[h] = n})

(* The cap is overrun by at most the artifacts of the other writers that    *)
(* had passed the check, however many stores went before.                   *)
OverrunBounded ==
    total_size_bytes <= Capacity + (Cardinality(Writers) - 1) * Largest

(* "A single artifact larger than the whole cap cannot be stored at any     *)
(* eviction rate" (artifact_store.py:92): with eviction on, one that fits   *)
(* the cap is refused only when another file landed since the scan.         *)
FittingIsStored == \A w \in Writers :
    writing[w].at = "full" /\ evicting /\ SizeOf[writing[w].h] <= Capacity => writing[w].raced

(* A fetch that returns comes back empty only when no server it was given   *)
(* would serve it, whatever the others answered before.                     *)
HonestPeerFound == Honest # {} => \A w \in Writers : writing[w].at # "none"

(* The same without the race: what the message says.                        *)
FittingIsAlwaysStored == \A w \in Writers :
    writing[w].at = "full" /\ evicting => SizeOf[writing[w].h] > Capacity

(* The cap is a cap.                                                        *)
WithinCapacity == total_size_bytes <= Capacity

(* get answers bytes or None, also to fetch.                                *)
GetAnswers ==
    /\ \A r \in Getters : reading[r].at # "raised"
    /\ \A w \in Writers : writing[w].at # "raised"

(* Every absence has its record, and a fetch that returns comes back empty  *)
(* only when nobody serves the artifact: what store, evict, get and         *)
(* ArtifactClient.fetch do to the same files never loses one silently.      *)
ArtifactsAccounted == ArtTypeOK /\ AbsencesAttributed /\ HonestPeerFound

(* The cap is kept as far as the code keeps it: racing writers overrun it   *)
(* by no more than their own artifacts (evict_to_fit), and none that fits   *)
(* is refused but for such a race.                                          *)
CapacityKept == OverrunBounded /\ FittingIsStored
=============================================================================
