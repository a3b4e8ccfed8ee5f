---------------------------- MODULE LanTransport ----------------------------
(***************************************************************************)
(* The LAN transport (gyza/network/transport.py) and the discovery that    *)
(* dials with it (gyza/network/discovery.py).  A connection has two ends,  *)
(* each on its node's event loop; the three frames of the handshake, the   *)
(* resumption of connect() after it and ConnectionTerminated at each end   *)
(* are separate events.  QUIC is a library: an end terminates once it or   *)
(* its other end closed, and a connection that carries nothing times out.  *)
(* Every heartbeat is sent on the recorded connection and refreshes        *)
(* last_seen as it is sent, so the heartbeat loop's own test never drops a *)
(* record and has no action here.                                          *)
(***************************************************************************)
EXTENDS Naturals, FiniteSets

CONSTANTS
    LanNodes,
    Manual,         \* nodes configured with the others as manual peers
    ConnIds,        \* a set of positive numbers: connections open at once
    LanFaults       \* the allowed budgets: a set of functions on LanFaultKinds

LanFaultKinds == {"slow", "drop", "restart"}

ASSUME LanAssumption ==
    /\ Manual \subseteq LanNodes /\ ConnIds \subseteq Nat \ {0}
    /\ LanFaults \subseteq [LanFaultKinds -> Nat]

VARIABLES
    running,    \* [LanNodes -> BOOLEAN]
    conn,       \* [ConnIds -> connections]
    peers,      \* [LanNodes -> [LanNodes -> id of the recorded _protocol, 0 for none]]
    outbound,   \* [LanNodes -> [LanNodes -> id of the holder, 0 for none]]
    dial,       \* [LanNodes -> [{"mdns", "manual"} -> id connect() waits for, or 0]]
    mishaps     \* fault budgets left

lanVars == <<running, conn, peers, outbound, dial, mishaps>>

Dialers == {"mdns", "manual"}
(* open: ends that have not terminated; closing: ends closed locally.       *)
NoConn == [stage |-> "free", ends |-> <<>>, open |-> {}, closing |-> {}]
From(k) == conn[k].ends[1]
To(k) == conn[k].ends[2]
Far(n, k) == IF n = From(k) THEN To(k) ELSE From(k)
EndAlive(n, k) == n \in conn[k].open /\ n \notin conn[k].closing
Authenticated(n, k) ==
    \/ n = From(k) /\ conn[k].stage \in {"ack", "up"}
    \/ n = To(k) /\ conn[k].stage = "up"

Mishap(f) == mishaps[f] > 0 /\ mishaps' = [mishaps EXCEPT ![f] = @ - 1]

Unused(k) ==
    /\ conn[k].open = {}
    /\ \A n \in LanNodes : /\ \A d \in Dialers : dial[n][d] # k
                           /\ \A m \in LanNodes : k \notin {peers[n][m], outbound[n][m]}

-----------------------------------------------------------------------------
(* connect() up to its first wait.                                          *)
Connect(n, m, d) ==
    /\ running[n] /\ dial[n][d] = 0
    /\ \E k \in ConnIds :
         /\ Unused(k) /\ \A j \in ConnIds : j < k => ~Unused(j)
         /\ conn' = [conn EXCEPT ![k] = [stage |-> "dialing", ends |-> <<n, m>>,
                                         open |-> {n}, closing |-> {}]]
         /\ dial' = [dial EXCEPT ![n][d] = k]
    /\ UNCHANGED <<running, peers, outbound, mishaps>>

(* An announcement of m is seen by n; connect attempts are serialized.      *)
_on_service_added(n, m) ==
    /\ running[m] /\ peers[n][m] = 0
    /\ Connect(n, m, "mdns")

_manual_dial_loop(n, m) == n \in Manual /\ Connect(n, m, "manual")

-----------------------------------------------------------------------------
(* The handshake: a frame arrives at an end that is still alive.            *)
Advance(k, from, to) ==
    /\ conn[k].stage = from
    /\ conn' = [conn EXCEPT ![k].stage = to]

HandshakeCompleted(k) ==
    /\ conn[k].stage = "dialing" /\ EndAlive(From(k), k) /\ running[To(k)]
    /\ conn' = [conn EXCEPT ![k].stage = "hello", ![k].open = @ \cup {To(k)}]
    /\ UNCHANGED <<running, peers, outbound, dial, mishaps>>

_handle_hello(k) ==
    /\ Advance(k, "hello", "reply") /\ EndAlive(To(k), k)
    /\ UNCHANGED <<running, peers, outbound, dial, mishaps>>

(* The latest connection to authenticate becomes the recorded one.          *)
_on_peer_authenticated(n, k) == peers' = [peers EXCEPT ![n][Far(n, k)] = k]

_handle_hello_reply(k) ==
    /\ Advance(k, "reply", "ack") /\ EndAlive(From(k), k)
    /\ _on_peer_authenticated(From(k), k)
    /\ UNCHANGED <<running, outbound, dial, mishaps>>

_handle_hello_ack(k) ==
    /\ Advance(k, "ack", "up") /\ EndAlive(To(k), k)
    /\ _on_peer_authenticated(To(k), k)
    /\ UNCHANGED <<running, outbound, dial, mishaps>>

-----------------------------------------------------------------------------
Closing(c, n, k) == [c EXCEPT ![k].closing = @ \cup ({n} \cap c[k].open)]

(* connect() resumes.  A duplicate, by then not the recorded connection, is *)
(* dropped; otherwise the holder is kept, whatever holder was there.        *)
connect_returns(n, d) ==
    LET k == dial[n][d] IN
    /\ k # 0 /\ Authenticated(n, k)
    /\ dial' = [dial EXCEPT ![n][d] = 0]
    /\ IF peers[n][To(k)] \notin {0, k}
       THEN conn' = Closing(conn, n, k) /\ UNCHANGED outbound
       ELSE outbound' = [outbound EXCEPT ![n][To(k)] = k] /\ UNCHANGED conn
    /\ UNCHANGED <<running, peers, mishaps>>

GiveUpDial(n, d) ==
    LET k == dial[n][d] IN
    /\ k # 0 /\ ~Authenticated(n, k)
    /\ dial' = [dial EXCEPT ![n][d] = 0]
    /\ conn' = Closing(conn, n, k)
    /\ UNCHANGED <<running, peers, outbound>>

NeverGivesUp(n, d) ==
    /\ dial[n][d] # 0 /\ n \notin conn[dial[n][d]].open
    /\ GiveUpDial(n, d) /\ UNCHANGED mishaps

(* The connection ended first, or nobody answers.                           *)
connect_fails(n, d) ==
    /\ dial[n][d] # 0
    /\ LET k == dial[n][d] IN
         \/ n \notin conn[k].open
         \/ To(k) \notin conn[k].open /\ ~running[To(k)]
    /\ GiveUpDial(n, d) /\ UNCHANGED mishaps

connect_times_out(n, d) == GiveUpDial(n, d) /\ Mishap("slow")

-----------------------------------------------------------------------------
(* Fault: the holder is forgotten and the record kept.                      *)
ForgetHolder(n, k) ==
    /\ peers' = peers
    /\ outbound' = [outbound EXCEPT ![n][Far(n, k)] = 0]
    /\ conn' = [conn EXCEPT ![k].open = @ \ {n}]

(* The record of the peer goes, whichever connection it holds, and so does  *)
(* the holder, which closes its own.                                        *)
_on_peer_disconnected(n, k) ==
    LET m == Far(n, k)
        h == outbound[n][m]
        c == [conn EXCEPT ![k].open = @ \ {n}]
    IN
    /\ peers' = [peers EXCEPT ![n][m] = 0]
    /\ outbound' = [outbound EXCEPT ![n][m] = 0]
    /\ conn' = IF h = 0 THEN c ELSE Closing(c, n, h)

(* Fault: the close of the other end goes unnoticed.                        *)
OwnCloseOnly(n, k) ==
    /\ n \in conn[k].open /\ n \in conn[k].closing
    /\ IF Authenticated(n, k)
       THEN _on_peer_disconnected(n, k)
       ELSE conn' = [conn EXCEPT ![k].open = @ \ {n}] /\ UNCHANGED <<peers, outbound>>
    /\ UNCHANGED <<running, dial, mishaps>>

ConnectionTerminated(n, k) ==
    /\ n \in conn[k].open
    /\ \/ n \in conn[k].closing
       \/ conn[k].stage # "dialing" /\ Far(n, k) \notin conn[k].open
    /\ IF Authenticated(n, k)
       THEN _on_peer_disconnected(n, k)
       ELSE conn' = [conn EXCEPT ![k].open = @ \ {n}] /\ UNCHANGED <<peers, outbound>>
    /\ UNCHANGED <<running, dial, mishaps>>

(* Both ends of a connection that neither side records, or of one the       *)
(* network drops.                                                           *)
Expire(k) ==
    /\ conn[k].open # {} /\ conn[k].open \cap conn[k].closing = {}
    /\ conn' = [conn EXCEPT ![k].closing = @ \cup conn[k].open]
    /\ UNCHANGED <<running, peers, outbound, dial>>

idle_timeout(k) ==
    /\ conn[k].stage = "up" /\ \A n \in conn[k].open : peers[n][Far(n, k)] # k
    /\ Expire(k) /\ UNCHANGED mishaps

drop(k) == conn[k].stage # "dialing" /\ Expire(k) /\ Mishap("drop")

(* A node dies, and comes back with empty tables.                           *)
crash_node(n) ==
    /\ running[n] /\ Mishap("restart")
    /\ running' = [running EXCEPT ![n] = FALSE]
    /\ conn' = [k \in ConnIds |-> [conn[k] EXCEPT !.open = @ \ {n}, !.closing = @ \ {n}]]
    /\ peers' = [peers EXCEPT ![n] = [m \in LanNodes |-> 0]]
    /\ outbound' = [outbound EXCEPT ![n] = [m \in LanNodes |-> 0]]
    /\ dial' = [dial EXCEPT ![n] = [d \in Dialers |-> 0]]

start_node(n) ==
    /\ ~running[n]
    /\ running' = [running EXCEPT ![n] = TRUE]
    /\ UNCHANGED <<conn, peers, outbound, dial, mishaps>>

-----------------------------------------------------------------------------
LanInit ==
    /\ running = [n \in LanNodes |-> TRUE]
    /\ conn = [k \in ConnIds |-> NoConn]
    /\ peers = [n \in LanNodes |-> [m \in LanNodes |-> 0]] /\ outbound = peers
    /\ dial = [n \in LanNodes |-> [d \in Dialers |-> 0]]
    /\ mishaps \in LanFaults

Frame(k) ==
    HandshakeCompleted(k) \/ _handle_hello(k) \/ _handle_hello_reply(k) \/ _handle_hello_ack(k)
Others(n) == LanNodes \ {n}

LanNext ==
    \/ \E n \in LanNodes :
         \/ \E m \in Others(n) : _on_service_added(n, m) \/ _manual_dial_loop(n, m)
         \/ \E d \in Dialers : connect_returns(n, d) \/ connect_fails(n, d) \/ connect_times_out(n, d)
         \/ \E k \in ConnIds : ConnectionTerminated(n, k)
         \/ crash_node(n) \/ start_node(n)
    \/ \E k \in ConnIds :
         \/ HandshakeCompleted(k) \/ _handle_hello(k) \/ _handle_hello_reply(k) \/ _handle_hello_ack(k)
         \/ idle_timeout(k) \/ drop(k)

(* The event loops run, and QUIC delivers on a connection or ends it.       *)
ResumeOn(k) ==
    \E n \in LanNodes, d \in Dialers :
        dial[n][d] = k /\ (connect_returns(n, d) \/ connect_fails(n, d))
LanFairness ==
    \A k \in ConnIds :
        /\ WF_lanVars(Frame(k))
        /\ WF_lanVars(ResumeOn(k))
        /\ WF_lanVars(\E n \in LanNodes : ConnectionTerminated(n, k))

-----------------------------------------------------------------------------
(* A record names a connection whose end here is open and authenticated.    *)
LanTypeOK ==
    /\ \A k \in ConnIds :
         /\ conn[k].stage \in {"free", "dialing", "hello", "reply", "ack", "up"}
         /\ conn[k].closing \subseteq LanNodes
    /\ \A n, m \in LanNodes :
         /\ outbound[n][m] \in ConnIds \cup {0}
         /\ peers[n][m] # 0 => LET k == peers[n][m] IN
              n \in conn[k].open /\ Far(n, k) = m /\ Authenticated(n, k)

(* A record whose other end is gone does not stay, after a crash, a drop or *)
(* the loss of a race between two dials (_on_peer_disconnected).            *)
Stale(n, m) == peers[n][m] # 0 /\ m \notin conn[peers[n][m]].open
DeadRecordDropped ==
    \A n \in LanNodes : \A m \in Others(n) : Stale(n, m) ~> ~Stale(n, m)

(* No call of connect() waits for ever: the handshake completes, the        *)
(* connection ends under it, or nobody answers.                             *)
Awaited(k) == \E n \in LanNodes, d \in Dialers : dial[n][d] = k
ConnectReturns == \A k \in ConnIds : Awaited(k) ~> ~Awaited(k)

(* Records name authenticated connections (_on_peer_authenticated), a record*)
(* whose other end is gone is dropped, and no connect() waits for ever.     *)
ConnectionsSettle ==
    /\ []LanTypeOK
    /\ DeadRecordDropped
    /\ ConnectReturns
=============================================================================
