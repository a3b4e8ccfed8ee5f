----------------------------- MODULE Attestation -----------------------------
(***************************************************************************)
(* Tier-3 attestation across the network: request_tier3_attestation        *)
(* (gyza/network/attestation_adapter.py) asks the candidates in turn, the  *)
(* daemons run one challenge stream per candidate (capability_stream.go),  *)
(* and capability.go checks what each side is shown.  Every machine reads  *)
(* its own clock.  Signatures hold, so a cosignature is who signed which   *)
(* body; a body is the time it says it was issued at.                      *)
(***************************************************************************)
EXTENDS Integers, Sequences, FiniteSets

CONSTANTS
    Validators,
    Candidates,     \* a sequence of peer ids, as discovered or given
    KeyOfPeer,      \* [peers -> Validators]: two peers may share a key
    ClockErrors,    \* a set of functions: how far off each machine's clock is
    ChallengeTTL, StreamTimeout, MaxSkew, Lifetime,
    QuorumK, MinCoSignatures,
    MaxTicks,       \* bound on the clock
    AttFaults       \* the allowed budgets of broken streams

ASSUME AttAssumption ==
    /\ Candidates \in Seq(DOMAIN KeyOfPeer)
    /\ \A p \in DOMAIN KeyOfPeer : KeyOfPeer[p] \in Validators
    /\ ClockErrors \subseteq [Validators \cup {"applicant"} -> Int] /\ AttFaults \subseteq Nat
    /\ {ChallengeTTL, StreamTimeout, MaxSkew, Lifetime, QuorumK, MinCoSignatures} \subseteq Nat \ {0}
    /\ MaxTicks \in Nat

VARIABLES
    ticks,      \* true time
    off,        \* the error of each machine's clock
    ses,        \* the applicant's session
    ch,         \* the open stream's challenge: [issued, expires], the validator's clock
    signed,     \* history: <<validator, body, completed, challenge>>
    breaks      \* broken streams left

attVars == <<ticks, off, ses, ch, signed, breaks>>

NoChallenge == [issued |-> 0, expires |-> 0]
LocalTime(p) == ticks + off[p]
Peer == Candidates[ses.i]
Validator == KeyOfPeer[Peer]
Set(r) == ses' = r
InState(pc) == ses.pc = pc

-----------------------------------------------------------------------------
(* The orchestrator proposes one body for all validators to sign.           *)
request_tier3_attestation ==
    /\ InState("start")
    /\ Set([ses EXCEPT !.pc = "next", !.body = LocalTime("applicant")])
    /\ UNCHANGED <<ticks, off, ch, signed, breaks>>

(* The next candidate, unless the quorum is met or none is left.            *)
next_candidate ==
    /\ InState("next")
    /\ Len(ses.cosigs) < QuorumK /\ ses.i < Len(Candidates)
    /\ Set([ses EXCEPT !.pc = "open", !.i = @ + 1, !.began = ticks])
    /\ UNCHANGED <<ticks, off, ch, signed, breaks>>

(* A candidate that fails is noted, and the loop goes on.                   *)
Back(r) == [r EXCEPT !.pc = "next", !.began = 0, !.completed = 0]

RetrySame == Set([Back(ses) EXCEPT !.i = @ - 1]) /\ ch' = NoChallenge

GiveUp == Set(Back(ses)) /\ ch' = NoChallenge

(* handleIncoming: the challenge is dated by the validator.                 *)
IssueChallenge ==
    /\ InState("open")
    /\ LET t == LocalTime(Validator) IN
       ch' = [issued |-> t, expires |-> t + ChallengeTTL]
    /\ Set([ses EXCEPT !.pc = "challenged"])
    /\ UNCHANGED <<ticks, off, signed, breaks>>

FreshStrict(t) == t > ch.issued /\ t < ch.expires

(* VerifyChallenge, by the applicant's clock and with no allowance.         *)
Fresh(t) == t >= ch.issued /\ t < ch.expires

RequestAttestation ==
    /\ InState("challenged")
    /\ IF Fresh(LocalTime("applicant"))
       THEN Set([ses EXCEPT !.pc = "eval"]) /\ UNCHANGED ch
       ELSE GiveUp
    /\ UNCHANGED <<ticks, off, signed, breaks>>

build_response_for_challenge ==
    /\ InState("eval")
    /\ Set([ses EXCEPT !.pc = "responded", !.completed = LocalTime("applicant")])
    /\ UNCHANGED <<ticks, off, ch, signed, breaks>>

(* What a validator accepts: a completion inside its window and a body that *)
(* its own clock finds plausible.                                           *)
Distance(a, b) == IF a < b THEN b - a ELSE a - b

VerifyResponse(t) ==
    /\ ses.completed >= ch.issued /\ ses.completed <= ch.expires
    /\ Distance(ses.body, t) <= MaxSkew
    /\ ses.body + Lifetime > t

handleIncoming ==
    LET t == LocalTime(Validator) IN
    /\ InState("responded")
    /\ IF VerifyResponse(t)
       THEN /\ signed' = signed \cup {<<Validator, ses.body, ses.completed, ch>>}
            /\ Set([ses EXCEPT !.pc = "outcome"]) /\ UNCHANGED ch
       ELSE GiveUp /\ UNCHANGED signed
    /\ UNCHANGED <<ticks, off, breaks>>

(* The outcome comes back; a validator counts once however many peers it    *)
(* answers as.                                                              *)
CollectLeavesOpen ==
    /\ InState("outcome")
    /\ Set([Back(ses) EXCEPT !.cosigs = Append(@, Validator)])
    /\ UNCHANGED <<ticks, off, ch, signed, breaks>>

collect ==
    /\ InState("outcome")
    /\ Set([Back(ses) EXCEPT
                       !.cosigs = IF \E j \in 1..Len(@) : @[j] = Validator THEN @
                                  ELSE Append(@, Validator)])
    /\ ch' = NoChallenge
    /\ UNCHANGED <<ticks, off, signed, breaks>>

Streaming == ses.pc \in {"open", "challenged", "eval", "responded", "outcome"}

(* Either side's deadline for the whole exchange, or a broken stream: the   *)
(* validator may have signed already.                                       *)
timed_out ==
    /\ Streaming /\ ticks - ses.began >= StreamTimeout
    /\ Set([Back(ses) EXCEPT !.lost = TRUE]) /\ ch' = NoChallenge
    /\ UNCHANGED <<ticks, off, signed, breaks>>

broken ==
    /\ Streaming /\ breaks > 0
    /\ Set([Back(ses) EXCEPT !.lost = TRUE]) /\ ch' = NoChallenge
    /\ breaks' = breaks - 1
    /\ UNCHANGED <<ticks, off, signed>>

-----------------------------------------------------------------------------
(* VerifyAttestation of the assembled certificate at local time t.          *)
VerifyAttestation(t, body, cosigs) ==
    /\ t >= body /\ t < body + Lifetime
    /\ Cardinality({v \in {cosigs[j] : j \in 1..Len(cosigs)} :
                      \E s \in signed : s[1] = v /\ s[2] = body}) >= MinCoSignatures

AssembleAny ==
    /\ InState("next")
    /\ Len(ses.cosigs) >= QuorumK \/ ses.i = Len(Candidates)
    /\ Set([ses EXCEPT !.pc = "done", !.cert = Len(ses.cosigs) > 0])
    /\ UNCHANGED <<ticks, off, ch, signed, breaks>>

assemble ==
    /\ InState("next")
    /\ Len(ses.cosigs) >= QuorumK \/ ses.i = Len(Candidates)
    /\ Set([ses EXCEPT !.pc = "done",
                       !.cert = /\ Len(ses.cosigs) >= QuorumK
                                /\ VerifyAttestation(LocalTime("applicant"), ses.body, ses.cosigs)])
    /\ UNCHANGED <<ticks, off, ch, signed, breaks>>

(* No side waits beyond the deadline.                                       *)
ticking ==
    /\ ticks < MaxTicks /\ ses.pc # "done"
    /\ Streaming => ticks - ses.began < StreamTimeout
    /\ ticks' = ticks + 1
    /\ UNCHANGED <<off, ses, ch, signed, breaks>>

-----------------------------------------------------------------------------
AttInit ==
    /\ ticks = 0
    /\ off \in ClockErrors
    /\ ses = [pc |-> "start", i |-> 0, body |-> 0, began |-> 0, completed |-> 0,
              cosigs |-> <<>>, cert |-> FALSE, lost |-> FALSE]
    /\ ch = NoChallenge /\ signed = {} /\ breaks \in AttFaults

AttNext ==
    \/ request_tier3_attestation \/ next_candidate \/ assemble
    \/ IssueChallenge \/ RequestAttestation \/ build_response_for_challenge
    \/ handleIncoming \/ collect
    \/ timed_out \/ broken
    \/ ticking

(* Once begun, the loop and both ends of a stream keep running until its    *)
(* deadline.                                                                *)
Running ==
    \/ next_candidate \/ assemble
    \/ IssueChallenge \/ RequestAttestation \/ build_response_for_challenge
    \/ handleIncoming \/ collect \/ timed_out

AttFairness == WF_attVars(Running)

-----------------------------------------------------------------------------
AttTypeOK ==
    /\ ticks \in 0..MaxTicks /\ ses.i \in 0..Len(Candidates)
    /\ Streaming <=> ses.i > 0 /\ ses.pc \notin {"start", "next", "done"}
    /\ ~Streaming => ch = NoChallenge
    /\ ses.cosigs \in Seq(Validators)

(* A certificate that is handed out rests on enough different validators,   *)
(* each of which signed the one body it carries after an exchange of its    *)
(* own that the applicant completed inside that validator's window.         *)
CertMeansQuorum ==
    ses.cert => \E Q \in SUBSET {s[1] : s \in signed} :
        /\ Cardinality(Q) >= QuorumK
        /\ \A v \in Q : \E s \in signed :
              /\ s[1] = v /\ s[2] = ses.body
              /\ s[3] \in s[4].issued..s[4].expires

Keyring == {KeyOfPeer[Candidates[j]] : j \in 1..Len(Candidates)}
Ahead(v) == off["applicant"] - off[v]

(* An applicant whose clock is level with its validators', or ahead by less *)
(* than the challenge outlasts the stream, obtains its certificate if  *)
(* the candidates hold a quorum of different keys and no stream is lost:    *)
(* no check of one side refuses what the other side's clock produced.       *)
GoodClockSucceeds ==
    /\ ses.pc = "done" /\ ~ses.lost /\ Cardinality(Keyring) >= QuorumK
    /\ \A v \in Validators : Ahead(v) \in 0..(ChallengeTTL - StreamTimeout - 1)
    => ses.cert

(* The session ends, whatever the candidates and the streams do.            *)
AttestationEnds == ses.pc = "next" ~> ses.pc = "done"

(* capability.go:76 on the skew that is tolerated: poorly synchronised      *)
(* nodes, up to MaxSkew.                                                    *)
SkewTolerated ==
    /\ ses.pc = "done" /\ ~ses.lost /\ Cardinality(Keyring) >= QuorumK
    /\ \A v \in Validators : Distance(Ahead(v), 0) + MaxTicks <= MaxSkew
    => ses.cert

(* A certificate means a quorum of validators, a level clock obtains one,   *)
(* and every session ends (request_tier3_attestation).                      *)
QuorumCertified ==
    /\ [](AttTypeOK /\ CertMeansQuorum /\ GoodClockSucceeds)
    /\ AttestationEnds
=============================================================================
