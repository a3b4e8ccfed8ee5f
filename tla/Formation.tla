----------------------------- MODULE Formation -----------------------------
(***************************************************************************)
(* How LAN nodes become one Raft cluster (cluster.py, GyzaCluster): a node *)
(* looks for peers for a while, asks all it found to join, collects their  *)
(* answers for a while, and takes whoever it has heard of by then as the   *)
(* partners of its Raft node, once.  Every node answers every request,     *)
(* whatever it is doing.  A unit of time is five seconds, longer than any  *)
(* message travels, unless it is a fault.  RaftBoard begins where this     *)
(* ends.                                                                   *)
(***************************************************************************)
EXTENDS Naturals

CONSTANTS
    Members,
    FormationTimeout,  \* start_lan's formation_timeout_s
    CollectTime,       \* how long _form_cluster waits for answers
    MaxClock,          \* bound on the time
    JoinFaults         \* the fault budgets to start from

ASSUME FormationAssumption ==
    FormationTimeout \in Nat \ {0} /\ CollectTime \in Nat \ {0} /\ MaxClock \in Nat

VARIABLES
    elapsed,    \* time since the first node started
    phase,      \* [Members -> Phases]
    begun,      \* [Members -> Nat]: when the node started
    pending,    \* [Members -> SUBSET Members]: _pending_members
    partners,   \* [Members -> SUBSET Members]: those of its Raft node
    greeted,    \* [Members -> SUBSET Members]: done by the loop that trusts
    trusted,    \* [Members -> SUBSET Members]: its TrustRegistry
    gone,       \* nodes that have left
    mail,       \* {[kind, from, to]}: on its way
    woes        \* faults still allowed

joinVars == <<elapsed, phase, begun, pending, partners, greeted, trusted, gone, mail, woes>>

JoinKinds == {"lose", "delay", "leave"}
Phases == {"off", "looking", "collecting", "trusting", "formed", "solo", "raised"}
Up(n) == phase[n] # "off" /\ n \notin gone
Letter(kind, n, m) == [kind |-> kind, from |-> n, to |-> m]
Mails == [kind : {"request", "response", "exchange"}, from : Members, to : Members]
Woe(k) == woes[k] > 0 /\ woes' = [woes EXCEPT ![k] = @ - 1]

(* Fault: a message is left for a peer that is gone.                        *)
SentAnyway(kind, n, S) == {Letter(kind, n, m) : m \in S}

(* What transport.send delivers: nothing to a peer without a connection.    *)
Sent(kind, n, S) == {Letter(kind, n, m) : m \in {k \in S : Up(k)}}
SleepOver(n, span) == elapsed = begun[n] + span
-----------------------------------------------------------------------------
start_lan(n) ==
    /\ phase[n] = "off"
    /\ phase' = [phase EXCEPT ![n] = "looking"]
    /\ begun' = [begun EXCEPT ![n] = elapsed]
    /\ UNCHANGED <<gone, elapsed, pending, partners, greeted, trusted, mail, woes>>

live_peers(n) == {m \in Members \ {n} : Up(m)}

(* The look-out ends: everybody found is asked, or the node stays alone; a  *)
(* node that has left has nobody to ask for peers.                          *)
ask(n) ==
    /\ phase[n] = "looking" /\ SleepOver(n, FormationTimeout)
    /\ phase' = [phase EXCEPT ![n] = IF n \in gone THEN "raised"
                                     ELSE IF live_peers(n) = {} THEN "solo" ELSE "collecting"]
    /\ mail' = IF n \in gone THEN mail ELSE mail \cup Sent("request", n, live_peers(n))
    /\ UNCHANGED <<gone, elapsed, begun, pending, partners, greeted, trusted, woes>>

(* Fault: the wait goes on until somebody has answered.                     *)
WaitForAnswers(n) ==
    /\ phase[n] = "collecting" /\ elapsed >= begun[n] + FormationTimeout + CollectTime
    /\ pending[n] # {}
    /\ phase' = [phase EXCEPT ![n] = "trusting"]
    /\ partners' = [partners EXCEPT ![n] = pending[n]]
    /\ UNCHANGED <<gone, elapsed, begun, pending, greeted, trusted, mail, woes>>

(* The wait for answers ends: the Raft node is built from what is known.    *)
_form_cluster(n) ==
    /\ phase[n] = "collecting" /\ SleepOver(n, FormationTimeout + CollectTime)
    /\ phase' = [phase EXCEPT ![n] = IF pending[n] = {} THEN "solo" ELSE "trusting"]
    /\ partners' = [partners EXCEPT ![n] = pending[n]]
    /\ UNCHANGED <<gone, elapsed, begun, pending, greeted, trusted, mail, woes>>

(* Fault: the member is trusted and not told.                               *)
TrustSilently(n, m) ==
    /\ phase[n] = "trusting" /\ m \in pending[n] \ greeted[n]
    /\ trusted' = [trusted EXCEPT ![n] = @ \cup {m}]
    /\ greeted' = [greeted EXCEPT ![n] = @ \cup {m}]
    /\ UNCHANGED <<gone, elapsed, phase, begun, pending, partners, mail, woes>>

(* One round of the loop over the members, which grows while it runs.       *)
trust_member(n, m) ==
    /\ phase[n] = "trusting" /\ m \in pending[n] \ greeted[n]
    /\ trusted' = [trusted EXCEPT ![n] = @ \cup {m}]
    /\ greeted' = [greeted EXCEPT ![n] = @ \cup {m}]
    /\ mail' = IF n \in gone THEN mail ELSE mail \cup Sent("exchange", n, {m})
    /\ UNCHANGED <<gone, elapsed, phase, begun, pending, partners, woes>>

all_trusted(n) ==
    /\ phase[n] = "trusting" /\ pending[n] \subseteq greeted[n]
    /\ phase' = [phase EXCEPT ![n] = "formed"]
    /\ UNCHANGED <<gone, elapsed, begun, pending, partners, greeted, trusted, mail, woes>>

(* The start that may still be under way goes on.                           *)
leave(n) ==
    /\ Up(n) /\ Woe("leave")
    /\ gone' = gone \cup {n}
    /\ partners' = [partners EXCEPT ![n] = {}]
    /\ mail' = {l \in mail : l.to # n}
    /\ UNCHANGED <<elapsed, phase, begun, pending, greeted, trusted>>
-----------------------------------------------------------------------------
(* The handlers.                                                            *)
_handle_join_request(n) == \E l \in mail :
    /\ l.to = n /\ l.kind = "request"
    /\ mail' = (mail \ {l}) \cup Sent("response", n, {l.from})
    /\ pending' = [pending EXCEPT ![n] = @ \cup {l.from}]
    /\ UNCHANGED <<gone, elapsed, phase, begun, partners, greeted, trusted, woes>>

(* Fault: the answer is checked the wrong way round and dropped.            *)
IgnoreAnswer(n) == \E l \in mail :
    /\ l.to = n /\ l.kind = "response"
    /\ mail' = mail \ {l}
    /\ UNCHANGED <<gone, elapsed, phase, begun, pending, partners, greeted, trusted, woes>>

_handle_join_response(n) == \E l \in mail :
    /\ l.to = n /\ l.kind = "response"
    /\ mail' = mail \ {l}
    /\ pending' = [pending EXCEPT ![n] = @ \cup {l.from}]
    /\ UNCHANGED <<gone, elapsed, phase, begun, partners, greeted, trusted, woes>>

_handle_compositor_pubkey_exchange(n) == \E l \in mail :
    /\ l.to = n /\ l.kind = "exchange"
    /\ mail' = mail \ {l}
    /\ trusted' = [trusted EXCEPT ![n] = @ \cup {l.from}]
    /\ UNCHANGED <<gone, elapsed, phase, begun, pending, partners, greeted, woes>>

lost ==
    /\ Woe("lose")
    /\ \E l \in mail : mail' = mail \ {l}
    /\ UNCHANGED <<gone, elapsed, phase, begun, pending, partners, greeted, trusted>>

(* Sleeps end on time; messages are faster than the clock.                  *)
Waking(n) ==
    \/ phase[n] = "looking" /\ SleepOver(n, FormationTimeout)
    \/ phase[n] = "collecting" /\ SleepOver(n, FormationTimeout + CollectTime)
    \/ phase[n] = "trusting"

pass ==
    /\ elapsed < MaxClock /\ \E n \in Members : phase[n] # "off"
    /\ \A n \in Members : ~Waking(n)
    /\ IF mail = {} THEN UNCHANGED woes ELSE Woe("delay")
    /\ elapsed' = elapsed + 1
    /\ UNCHANGED <<gone, phase, begun, pending, partners, greeted, trusted, mail>>
-----------------------------------------------------------------------------
FormationInit ==
    /\ elapsed = 0 /\ mail = {} /\ gone = {} /\ woes \in JoinFaults
    /\ phase = [n \in Members |-> "off"] /\ begun = [n \in Members |-> 0]
    /\ pending = [n \in Members |-> {}] /\ partners = [n \in Members |-> {}]
    /\ greeted = [n \in Members |-> {}] /\ trusted = [n \in Members |-> {}]

MemberStep(n) ==
    \/ ask(n) \/ _form_cluster(n) \/ all_trusted(n)
    \/ _handle_join_request(n) \/ _handle_join_response(n)
    \/ _handle_compositor_pubkey_exchange(n)
    \/ \E m \in Members : trust_member(n, m)

FormationNext ==
    \/ pass \/ lost
    \/ \E n \in Members : start_lan(n) \/ MemberStep(n) \/ leave(n)

(* Time passes and every event loop runs.                                   *)
FormationFairness ==
    /\ WF_joinVars(pass)
    /\ \A n \in Members : WF_joinVars(MemberStep(n))
-----------------------------------------------------------------------------
(* Properties.                                                              *)

(* Types; a node's partners have asked it or answered it, and nothing       *)
(* travels to a node that is not up.                                        *)
FormationTypeOK ==
    /\ phase \in [Members -> Phases] /\ mail \subseteq Mails
    /\ \A n \in Members : /\ partners[n] \subseteq pending[n] /\ n \notin pending[n]
                          /\ greeted[n] \subseteq trusted[n]
    /\ \A l \in mail : Up(l.to)

Undisturbed == woes \in JoinFaults
Near(i, j) == i < j + FormationTimeout /\ j < i + FormationTimeout
Settled(n) == phase[n] \in {"formed", "solo"}

(* Nodes that start within the look-out of one another and are not          *)
(* disturbed end with each other among their partners, however the requests *)
(* and the answers of the two sleeps cross.                                 *)
TogetherAgree == \A n, m \in Members :
    Undisturbed /\ n # m /\ Settled(n) /\ Settled(m) /\ Near(begun[n], begun[m])
      => m \in partners[n]

(* Trust is mutual once nothing is on its way: also the node that was asked *)
(* long after its own formation trusts the one that took it as a partner.   *)
TrustIsMutual == \A n \in Members :
    Undisturbed /\ mail = {} /\ phase[n] = "formed"
      => \A m \in partners[n] : m \in trusted[n] /\ n \in trusted[m]

(* Every start comes to an end, alone or in a cluster, while time goes on.  *)
FormationEnds == \A n \in Members :
    phase[n] = "looking" /\ begun[n] + FormationTimeout + CollectTime <= MaxClock
      ~> Settled(n) \/ phase[n] = "raised"

(* The partners a node counts for its quorum have a Raft node that counts   *)
(* it in turn.                                                              *)
PartnersServe == \A n, m \in Members :
    Undisturbed /\ Settled(n) /\ Settled(m) /\ m \in partners[n] => n \in partners[m]

(* "Drop back to local-only mode" (network_blackboard.py:111): whoever left *)
(* has no Raft node.                                                        *)
LeftIsAlone == \A n \in gone : partners[n] = {}

(* Nodes that start together count each other as partners and trust each    *)
(* other (_form_cluster), and every start comes to an end.                  *)
FormationAgrees ==
    /\ [](FormationTypeOK /\ TogetherAgree /\ TrustIsMutual)
    /\ FormationEnds
=============================================================================
