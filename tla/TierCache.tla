------------------------------ MODULE TierCache ------------------------------
(***************************************************************************)
(* DHTAttestationVerifier (netd/internal/dht/verifier.go): concurrent      *)
(* Verify calls share a cache, one fetch per compositor and a semaphore of *)
(* fetches.  Each element of Callers is one call; the DHT that holds the   *)
(* certificates is external, and a certificate is its expiry time.  Code   *)
(* between two waits takes no time, a fetch at most FetchTimeout.          *)
(***************************************************************************)
EXTENDS Integers, FiniteSets

CONSTANTS
    Callers,
    Keys,           \* compositor public keys
    KeyOf,          \* [Callers -> Keys]
    Holders,        \* compositors that obtain certificates
    PosTTL, NegTTL, FetchTimeout, ExpirySlack, MaxInflight,
    Life,           \* lifetime of a certificate that is published
    MaxClock        \* bound on the clock

ASSUME TierAssumption ==
    /\ KeyOf \in [Callers -> Keys] /\ Holders \subseteq Keys
    /\ {PosTTL, NegTTL, FetchTimeout, ExpirySlack, MaxInflight, Life} \subseteq Nat \ {0}
    /\ MaxClock \in Nat

VARIABLES
    clock,
    cert,       \* [Keys -> [exp, since]]: the DHT's record; exp 0 for none
    cache,      \* [Keys -> entry]; ok FALSE for no entry
    inflight,   \* [Keys -> SUBSET Callers]: at most the one that registered
    v           \* [Callers -> the call's locals; began > 0 while it holds a slot]

tierVars == <<clock, cert, cache, inflight, v>>

NoCache == [ok |-> FALSE, valid |-> FALSE, expiresAt |-> 0, exp |-> 0]
Idle == [pc |-> "new", now |-> 0, on |-> {}, began |-> 0, got |-> 0,
         ans |-> FALSE, expired |-> FALSE, excuse |-> FALSE]

At(c, p) == v[c].pc = p
(* The call's answer is a, because of a certificate that lasts until e.     *)
Answer(c, p, a, e) ==
    [Idle EXCEPT !.pc = p, !.ans = a, !.expired = a /\ clock >= e, !.began = v[c].began]
Slots == Cardinality({c \in Callers : v[c].began > 0})

-----------------------------------------------------------------------------
(* The first critical section: a fresh entry answers, an old one goes, a    *)
(* fetch under way is joined, otherwise this call becomes the fetcher.      *)
Verify(c) ==
    LET k == KeyOf[c]
        e == cache[k]
        fresh == e.ok /\ clock < e.expiresAt
    IN
    /\ At(c, "new")
    /\ cache' = [cache EXCEPT ![k] = IF fresh THEN @ ELSE NoCache]
    /\ IF fresh
       THEN v' = [v EXCEPT ![c] = Answer(c, "done", e.valid, e.exp)] /\ UNCHANGED inflight
       ELSE IF inflight[k] # {}
       THEN v' = [v EXCEPT ![c].pc = "wait", ![c].on = inflight[k]] /\ UNCHANGED inflight
       ELSE /\ v' = [v EXCEPT ![c].pc = "sem", ![c].now = clock]
            /\ inflight' = [inflight EXCEPT ![k] = {c}]
    /\ UNCHANGED <<clock, cert>>

(* A waiter reads whatever the cache then holds, and does not fetch again.  *)
wake(c) ==
    LET e == cache[KeyOf[c]] IN
    /\ At(c, "wait") /\ \A d \in v[c].on : At(d, "done")
    /\ v' = [v EXCEPT ![c] = [Answer(c, "done", e.ok /\ e.valid, e.exp) EXCEPT
                                !.excuse = \E d \in v[c].on : v[d].excuse]]
    /\ UNCHANGED <<clock, cert, cache, inflight>>

AcquireUnbounded(c) ==
    /\ At(c, "sem")
    /\ v' = [v EXCEPT ![c].pc = "fetch", ![c].began = clock + 1]
    /\ UNCHANGED <<clock, cert, cache, inflight>>

acquire(c) ==
    /\ At(c, "sem") /\ Slots < MaxInflight
    /\ v' = [v EXCEPT ![c].pc = "fetch", ![c].began = clock + 1]
    /\ UNCHANGED <<clock, cert, cache, inflight>>

(* ctx.Done at either wait.                                                 *)
cancelled(c) ==
    /\ v[c].pc \in {"wait", "sem"}
    /\ v' = [v EXCEPT ![c] = [Answer(c, IF At(c, "sem") THEN "tear" ELSE "done", FALSE, 0) EXCEPT
                                !.excuse = TRUE]]
    /\ UNCHANGED <<clock, cert, cache, inflight>>

(* The DHT's answer, which takes its time to arrive.                        *)
fetch(c) ==
    /\ At(c, "fetch")
    /\ v' = [v EXCEPT ![c].pc = "judge", ![c].got = cert[KeyOf[c]].exp]
    /\ UNCHANGED <<clock, cert, cache, inflight>>

(* An error or the deadline: transient, nothing is cached.                  *)
fetch_fails(c) ==
    /\ v[c].pc \in {"fetch", "judge"}
    /\ v' = [v EXCEPT ![c] = [Answer(c, "tear", FALSE, 0) EXCEPT !.excuse = TRUE]]
    /\ UNCHANGED <<clock, cert, cache, inflight>>

cacheSet(k, ok, ttl, exp) ==
    cache' = IF ttl <= 0 THEN cache
             ELSE [cache EXCEPT ![k] = [ok |-> TRUE, valid |-> ok, expiresAt |-> clock + ttl,
                                        exp |-> exp]]

(* The slack test and the entry's lifetime use the time the call began.     *)
Useful(c) == /\ v[c].got > clock
             /\ v[c].now + ExpirySlack < v[c].got

(* The near-expiry test left out, and an entry bounded by posTTL alone.     *)
JudgeNoSlack(c) ==
    /\ At(c, "judge")
    /\ v' = [v EXCEPT ![c] = Answer(c, "tear", v[c].got > clock, v[c].got)]
    /\ cacheSet(KeyOf[c], v[c].got > clock, IF v[c].got > clock THEN PosTTL ELSE NegTTL, v[c].got)
    /\ UNCHANGED <<clock, cert, inflight>>

JudgeLongNo(c) ==
    LET k == KeyOf[c]
        remaining == v[c].got - v[c].now - ExpirySlack
        posTTL == IF remaining < PosTTL THEN remaining ELSE PosTTL
    IN
    /\ At(c, "judge")
    /\ v' = [v EXCEPT ![c] = Answer(c, "tear", Useful(c), v[c].got)]
    /\ cacheSet(k, Useful(c), IF Useful(c) THEN posTTL ELSE NegTTL + PosTTL, v[c].got)
    /\ UNCHANGED <<clock, cert, inflight>>

judge(c) ==
    LET k == KeyOf[c]
        remaining == v[c].got - v[c].now - ExpirySlack
        posTTL == IF remaining < PosTTL THEN remaining ELSE PosTTL
    IN
    /\ At(c, "judge")
    /\ v' = [v EXCEPT ![c] = Answer(c, "tear", Useful(c), v[c].got)]
    /\ cacheSet(k, Useful(c), IF Useful(c) THEN posTTL ELSE NegTTL, v[c].got)
    /\ UNCHANGED <<clock, cert, inflight>>

(* The deferred calls: the slot, the registration, then the channel.        *)
TeardownForgets(c) ==
    /\ At(c, "tear")
    /\ UNCHANGED inflight
    /\ v' = [v EXCEPT ![c].pc = "closing", ![c].began = 0]
    /\ UNCHANGED <<clock, cert, cache>>

teardown(c) ==
    /\ At(c, "tear")
    /\ inflight' = [inflight EXCEPT ![KeyOf[c]] = {}]
    /\ v' = [v EXCEPT ![c].pc = "closing", ![c].began = 0]
    /\ UNCHANGED <<clock, cert, cache>>

CloseForgotten(c) ==
    /\ At(c, "closing")
    /\ v' = [v EXCEPT ![c].on = {c}]
    /\ UNCHANGED <<clock, cert, cache, inflight>>

close_done(c) ==
    /\ At(c, "closing")
    /\ v' = [v EXCEPT ![c].pc = "done"]
    /\ UNCHANGED <<clock, cert, cache, inflight>>

-----------------------------------------------------------------------------
(* A certificate is published, or its successor.                            *)
publish_cert(k) ==
    /\ cert[k].exp = 0 \/ cert[k].exp - ExpirySlack <= clock
    /\ cert' = [cert EXCEPT ![k] = [exp |-> clock + Life, since |-> clock]]
    /\ UNCHANGED <<clock, cache, inflight, v>>

Busy(c) ==
    \/ v[c].pc \in {"tear", "closing"}
    \/ At(c, "wait") /\ \A d \in v[c].on : At(d, "done")
    \/ At(c, "sem") /\ Slots < MaxInflight
    \/ v[c].pc \in {"fetch", "judge"} /\ clock + 1 - v[c].began >= FetchTimeout

pass_time ==
    /\ clock < MaxClock /\ \A c \in Callers : ~Busy(c)
    /\ clock' = clock + 1
    /\ UNCHANGED <<cert, cache, inflight, v>>

TierInit ==
    /\ clock = 0
    /\ cert = [k \in Keys |-> [exp |-> 0, since |-> 0]]
    /\ cache = [k \in Keys |-> NoCache]
    /\ inflight = [k \in Keys |-> {}]
    /\ v = [c \in Callers |-> Idle]

Step(c) == wake(c) \/ acquire(c) \/ fetch(c) \/ fetch_fails(c) \/ judge(c) \/ teardown(c)
              \/ close_done(c)

TierNext ==
    \/ \E c \in Callers : \/ Verify(c) \/ wake(c) \/ acquire(c) \/ cancelled(c) \/ fetch(c)
                          \/ fetch_fails(c) \/ judge(c) \/ teardown(c) \/ close_done(c)
    \/ \E k \in Holders : publish_cert(k)
    \/ pass_time

(* Every started call keeps running and every fetch ends; nothing obliges a *)
(* caller to give up.                                                       *)
TierFairness == \A c \in Callers : WF_tierVars(Step(c))

-----------------------------------------------------------------------------
TierTypeOK ==
    /\ clock \in 0..MaxClock
    /\ \A c \in Callers : /\ v[c].pc \in {"new", "wait", "sem", "fetch", "judge", "tear", "closing", "done"}
                          /\ v[c].on \subseteq Callers
    /\ \A k \in Keys : \A c \in inflight[k] : v[c].pc \in {"sem", "fetch", "judge", "tear"}

Answered(c) == v[c].pc \in {"tear", "closing", "done"}

(* A compositor found to be Tier-3, from the cache or from a fetch, holds a *)
(* certificate that is still valid when the answer is given, though the     *)
(* entry was dated before the wait for a slot and for the DHT.              *)
TrustedCertAlive == \A c \in Callers : Answered(c) => ~v[c].expired

(* However many calls arrive together, a compositor is fetched once at a    *)
(* time and at most MaxInflight fetches run.                                *)
FetchesBounded ==
    /\ Slots <= MaxInflight
    /\ \A c, d \in Callers : At(c, "fetch") /\ At(d, "fetch") /\ KeyOf[c] = KeyOf[d] => c = d

(* A holder of a good certificate is turned away only for a while: an       *)
(* answer of FALSE that no failed fetch and no impatient caller explains    *)
(* comes less than NegTTL and one fetch after its publication.              *)
TurnedAwayBriefly ==
    [][\A c \in Callers :
         LET k == KeyOf[c] IN
         ~Answered(c) /\ Answered(c)' /\ ~v'[c].ans /\ ~v'[c].excuse
           /\ cert[k].exp > clock + ExpirySlack
             => clock - cert[k].since < NegTTL + FetchTimeout]_tierVars

(* Every call of Verify ends, whoever it waits for: in the end none is      *)
(* under way.                                                               *)
AllAnswered == <>[](\A c \in Callers : v[c].pc \in {"new", "done"})

(* The comment at verifier.go:264: a positive entry is kept only until      *)
(* expires_at - slack.                                                      *)
CachedUntilSlack ==
    \A k \in Keys : cache[k].ok /\ cache[k].valid => cache[k].expiresAt <= cache[k].exp - ExpirySlack

(* Every call is answered, a tier is granted only on a certificate that is  *)
(* still alive, the fetches stay within their slots, and a newly attested   *)
(* peer is turned away for a short while only.                              *)
TierAnswers ==
    /\ [](TierTypeOK /\ TrustedCertAlive /\ FetchesBounded)
    /\ TurnedAwayBriefly
    /\ AllAnswered
=============================================================================
