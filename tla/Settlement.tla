----------------------------- MODULE Settlement -----------------------------
(***************************************************************************)
(* Bilateral settlement of completed work (gyza/economy/settlement.py over *)
(* gyza/economy/ledger.py): the earner signs an entry and sends it, the    *)
(* payer checks and cosigns it, which settles it, and echoes it back; the  *)
(* two ledgers are compared page by page on request.                       *)
(*                                                                         *)
(* An entry is immutable once signed, so both ledgers share its content    *)
(* and each keeps only its signatures: none, the earner's, or both, which  *)
(* is settled.  Every signature is honest.  Messages travel on streams of  *)
(* their own: unordered, possibly lost, possibly delivered twice.  Each    *)
(* node handles its messages on one thread; request_reconciliation runs on *)
(* its caller's.                                                           *)
(***************************************************************************)
EXTENDS Integers, FiniteSets, FiniteSetsExt, Functions

CONSTANTS
    Nodes,        \* compositors
    Works,        \* work item ids
    Envelopes,    \* signed envelopes, by hash
    WorkOf,       \* [Envelopes -> Works]: action_id
    EarnerOf,     \* [Envelopes -> Nodes]: the compositor that executed it
    PayerOf,      \* [Works -> Nodes]: creator of the work's intent
    CostOf,       \* [Envelopes -> Nat]: compute_task_cost of the envelope
    Asked,        \* [Envelopes -> Nat]: the amount the earner claims
    Tampered,     \* envelopes whose audit fails
    Shipments,    \* what may ride along with an entry
    Audit,        \* an AuditAcceptancePolicy is installed
    Callers,      \* nodes whose operator calls request_reconciliation
    MaxEntries, MaxTime, MaxRequests, MaxPages, PageSize,
    NoEnvelope, NoNode,
    Faults        \* [FaultKinds -> Nat]: how often each may happen

(* lose: a message never arrives; twice: it arrives again; misroute: an     *)
(* entry is sent to a peer that does not owe it; retry: the caller submits  *)
(* an envelope again; timeout: a page is given up; crash: a node's process  *)
(* starts again; tie: an entry has the created_at_ns of an earlier one.     *)
FaultKinds == {"lose", "twice", "misroute", "retry", "timeout", "crash", "tie"}

ASSUME SettlementAssumption ==
    /\ WorkOf \in [Envelopes -> Works]
    /\ EarnerOf \in [Envelopes -> Nodes]
    /\ PayerOf \in [Works -> Nodes]
    /\ \A v \in Envelopes : EarnerOf[v] # PayerOf[WorkOf[v]]
    /\ CostOf \in [Envelopes -> Nat]
    /\ Asked \in [Envelopes -> Nat]
    /\ Tampered \subseteq Envelopes
    /\ Shipments \subseteq [evidence : BOOLEAN, envelope : BOOLEAN]
    /\ Audit \in BOOLEAN
    /\ Callers \subseteq Nodes
    /\ MaxEntries \in Nat /\ MaxTime \in Nat /\ MaxRequests \in Nat
    /\ MaxPages \in Nat \ {0} /\ PageSize \in Nat \ {0}
    /\ NoEnvelope \notin Envelopes
    /\ NoNode \notin Nodes
    /\ Faults \in [FaultKinds -> Nat]

Ids == 1 .. MaxEntries     \* entry_id, ordered as UUIDs are
NoId == 0

VARIABLES
    entry,       \* [Ids -> Entry]: the signed content of each entry
    ledger,      \* [Nodes -> [Ids -> Signatures]]
    cache,       \* balance_cache.net_credits
    behind,      \* peers whose balance_cache row lacks a committed entry
    good, bad,   \* record_success and record_dispute calls, by peer
    completion,  \* icp_envelope_hash of each work item on each board
    held,        \* envelopes stored on each node's board
    evidence,    \* envelopes whose artifact and manifest each node holds
    sending,     \* the entry the receive thread has saved and not yet finished
    rec,         \* the request_reconciliation call in progress on each node
    result,      \* the ReconcileResult of the last call
    asked,       \* request_ids given out
    net,         \* messages on their way
    budget       \* faults still allowed

books == <<entry, ledger, cache, behind>>
stores == <<completion, held, evidence>>
calls == <<rec, result, asked>>
vars == <<books, good, bad, stores, sending, calls, net, budget>>

Entry == [env : Envelopes \cup {NoEnvelope}, at : 0 .. MaxTime]
NoEntry == [env |-> NoEnvelope, at |-> 0]
Signatures == {"none", "earner", "both"}

From(id) == PayerOf[WorkOf[entry[id].env]]
To(id) == EarnerOf[entry[id].env]
Created(id) == entry[id].env # NoEnvelope

Cursor == (0 .. MaxTime) \X (0 .. MaxEntries)
View == Ids \X {"earner", "both"}      \* an entry as one ledger shows it

Idle == [pc |-> "idle", peer |-> NoNode, rid |-> 0, cursor |-> <<0, NoId>>,
         seen |-> {}, pages |-> 0, page |-> {}, more |-> FALSE, start |-> {}]
Calls == [pc : {"idle", "wait", "ready"}, peer : Nodes \cup {NoNode},
          rid : 0 .. MaxRequests, cursor : Cursor, seen : SUBSET View,
          pages : 0 .. MaxPages, page : SUBSET View, more : BOOLEAN,
          start : SUBSET Ids]

NoResult == [peer |-> NoNode, error |-> "none", agreed |-> {}, disputed |-> {},
             missing_ours |-> {}, missing_theirs |-> {}, start |-> {}]
Results == [peer : Nodes \cup {NoNode},
            error : {"none", "timeout", "page_cap_exceeded"},
            agreed : SUBSET Ids, disputed : SUBSET Ids,
            missing_ours : SUBSET Ids, missing_theirs : SUBSET Ids,
            start : SUBSET Ids]

Message ==
    [type : {"earner_signed"}, to : Nodes, from : Nodes, id : Ids,
     ship : Shipments]
    \cup [type : {"payer_cosigned"}, to : Nodes, id : Ids]
    \cup [type : {"request"}, to : Nodes, from : Nodes,
          rid : 1 .. MaxRequests, since : Cursor]
    \cup [type : {"response"}, to : Nodes, rid : 1 .. MaxRequests,
          page : SUBSET View, cursor : Cursor, more : BOOLEAN]

TypeOK ==
    /\ entry \in [Ids -> Entry]
    /\ ledger \in [Nodes -> [Ids -> Signatures]]
    /\ cache \in [Nodes -> [Nodes -> Int]]
    /\ behind \in [Nodes -> SUBSET Nodes]
    /\ good \in [Nodes -> [Nodes -> Nat]]
    /\ bad \in [Nodes -> [Nodes -> Nat]]
    /\ completion \in [Nodes -> [Works -> Envelopes \cup {NoEnvelope}]]
    /\ held \in [Nodes -> SUBSET Envelopes]
    /\ evidence \in [Nodes -> SUBSET Envelopes]
    /\ sending \in [Nodes -> Ids \cup {NoId}]
    /\ rec \in [Nodes -> Calls]
    /\ result \in [Nodes -> Results]
    /\ asked \in 0 .. MaxRequests
    /\ \A m \in net : m \in Message
    /\ budget \in [FaultKinds -> Nat]

Init ==
    /\ entry = [id \in Ids |-> NoEntry]
    /\ ledger = [n \in Nodes |-> [id \in Ids |-> "none"]]
    /\ cache = [n \in Nodes |-> [p \in Nodes |-> 0]]
    /\ behind = [n \in Nodes |-> {}]
    /\ good = [n \in Nodes |-> [p \in Nodes |-> 0]]
    /\ bad = [n \in Nodes |-> [p \in Nodes |-> 0]]
    /\ completion = [n \in Nodes |-> [w \in Works |-> NoEnvelope]]
    /\ held = [n \in Nodes |-> {}]
    /\ evidence = [n \in Nodes |-> {}]
    /\ sending = [n \in Nodes |-> NoId]
    /\ rec = [n \in Nodes |-> Idle]
    /\ result = [n \in Nodes |-> NoResult]
    /\ asked = 0
    /\ net = {}
    /\ budget = Faults

----------------------------------------------------------------------------
(* Helpers.                                                                 *)

Spend(f) == budget[f] > 0 /\ budget' = [budget EXCEPT ![f] = @ - 1]

(* A message is taken off the network, or stays to be delivered once more;  *)
(* out is what its handler sends.                                           *)
Take(m, out) ==
    \/ net' = (net \ {m}) \cup out /\ UNCHANGED budget
    \/ net' = net \cup out /\ Spend("twice")

(* The entries from x to y that the ledger l of node n shows as settled.    *)
SettledBetween(l, n, x, y) ==
    {id \in Ids : Created(id) /\ l[n][id] = "both" /\ From(id) = x /\ To(id) = y}

Credits(ids) == SumFunction([id \in ids |-> Asked[entry[id].env]])

(* get_balance(p) on node n, over the ledger l: settled entries only.       *)
get_balance(l, n, p) ==
    Credits(SettledBetween(l, n, p, n)) - Credits(SettledBetween(l, n, n, p))

(* _save_entry with both signatures, the first statement sign_as_payer and  *)
(* apply_cosigned_entry commit on node n for an entry with counterparty p.  *)
(* The connection is in autocommit: the balance_cache row is another one.   *)
Settle(n, id, p) ==
    /\ ledger' = [ledger EXCEPT ![n][id] = "both"]
    /\ behind' = [behind EXCEPT ![n] = @ \cup {p}]
    /\ sending' = [sending EXCEPT ![n] = id]

(* The counterparty of an entry of node n, as _update_balance_cache has it. *)
Peer(n, id) == IF To(id) = n THEN From(id) ELSE To(id)

(* Variant of update_balance_cache: the balance is read before the save.    *)
update_balance_cache_early(n) ==
    LET id == sending[n]
        p == Peer(n, id)
    IN  /\ id # NoId /\ p \in behind[n]
        /\ cache' = [cache EXCEPT
               ![n][p] = get_balance([ledger EXCEPT ![n][id] = "earner"], n, p)]
        /\ behind' = [behind EXCEPT ![n] = @ \ {p}]
        /\ UNCHANGED <<entry, ledger, good, bad, stores, sending, calls, net, budget>>

(* _update_balance_cache of the entry just saved: the whole balance with    *)
(* its counterparty is computed anew.                                       *)
update_balance_cache(n) ==
    LET p == Peer(n, sending[n])
    IN  /\ sending[n] # NoId /\ p \in behind[n]
        /\ cache' = [cache EXCEPT ![n][p] = get_balance(ledger, n, p)]
        /\ behind' = [behind EXCEPT ![n] = @ \ {p}]
        /\ UNCHANGED <<entry, ledger, good, bad, stores, sending, calls, net, budget>>

(* _within_tolerance at AMOUNT_TOLERANCE_RATIO = 1/5, both ways.            *)
Within(claimed, ours) ==
    IF ours = 0 THEN claimed = 0
    ELSE 5 * (claimed - ours) <= ours /\ 5 * (ours - claimed) <= ours

----------------------------------------------------------------------------
(* The earner submits.                                                      *)

(* runner_envelope_hook -> submit_earned for envelope v: create_entry,      *)
(* sign_as_earner, one message to peer d.  uuid7 grows within a process; a  *)
(* clock that ties with an earlier entry spends a fault.                    *)
submit_earned(v, id, t, d, ship) ==
    LET e == EarnerOf[v]
        own == {x \in Ids : Created(x) /\ To(x) = e}
        ties == \E x \in Ids : Created(x) /\ entry[x].at = t
        again == \E x \in Ids : entry[x].env = v
        fault == IF again THEN "retry"
                 ELSE IF d # PayerOf[WorkOf[v]] THEN "misroute"
                 ELSE IF ties THEN "tie" ELSE "none"
    IN  /\ ~Created(id)
        /\ \A x \in own : x < id /\ entry[x].at <= t
        /\ d # e
        /\ again => d = PayerOf[WorkOf[v]]
        /\ fault # "tie" => ~ties
        /\ IF fault = "none" THEN UNCHANGED budget ELSE Spend(fault)
        /\ entry' = [entry EXCEPT ![id] = [env |-> v, at |-> t]]
        /\ ledger' = [ledger EXCEPT ![e][id] = "earner"]
        /\ net' = net \cup {[type |-> "earner_signed", to |-> d, from |-> e,
                             id |-> id, ship |-> ship]}
        /\ UNCHANGED <<cache, behind, good, bad, stores, sending, calls>>

(* A completion delta reaches the payer's board; the first one stands.      *)
learn_completion(n, v) ==
    /\ \E id \in Ids : entry[id].env = v
    /\ n = PayerOf[WorkOf[v]]
    /\ completion[n][WorkOf[v]] = NoEnvelope
    /\ completion' = [completion EXCEPT ![n][WorkOf[v]] = v]
    /\ UNCHANGED <<books, good, bad, held, evidence, sending, calls, net, budget>>

----------------------------------------------------------------------------
(* The payer judges, cosigns and echoes.                                    *)

(* Variant of Acceptance: a completion on the board stands in for the audit. *)
AcceptanceBoardTrusted(n, v, hs, evs) ==
    IF ~Audit \/ completion[n][WorkOf[v]] = v THEN "accept"
    ELSE IF v \notin hs \/ v \notin evs THEN "defer"
    ELSE IF v \in Tampered THEN "decline" ELSE "accept"

(* AuditAcceptancePolicy of node n: what is not held is deferred, what is   *)
(* held and fails is declined.                                              *)
Acceptance(n, v, hs, evs) ==
    IF ~Audit THEN "accept"
    ELSE IF v \notin hs \/ v \notin evs THEN "defer"
    ELSE IF v \in Tampered THEN "decline" ELSE "accept"

(* The envelope the payer expects for v's work: the completion its board    *)
(* records, else the shipped envelope, whose action_id is the work.         *)
Expected(n, v, hs) ==
    IF completion[n][WorkOf[v]] # NoEnvelope THEN completion[n][WorkOf[v]]
    ELSE IF v \in hs THEN v ELSE NoEnvelope

(* Variant of Unknown: no record is treated as a record of something else.  *)
UnknownNever(expected) == FALSE

Unknown(expected) == expected = NoEnvelope

(* Variant of Settled: an entry is taken for new however often it comes.    *)
SettledNever(n, id) == FALSE

(* existing is not None and existing.settled.                               *)
Settled(n, id) == ledger[n][id] = "both"

Envs(m, flag) == IF flag THEN {entry[m.id].env} ELSE {}

(* The early returns of _handle_earner_signed, in their order.              *)
Verdict(n, m) ==
    LET v == entry[m.id].env
        hs == held[n] \cup Envs(m, m.ship.envelope)
        expected == Expected(n, v, hs)
    IN  IF From(m.id) # n THEN "misroute"
        ELSE IF Settled(n, m.id) THEN "settled"
        ELSE IF Unknown(expected) THEN "unknown"
        ELSE IF expected # v THEN "mismatch"
        ELSE IF ~Within(Asked[v], CostOf[v]) THEN "tolerance"
        ELSE Acceptance(n, v, hs, evidence[n] \cup Envs(m, m.ship.evidence))

(* Variant of handle_earner_signed: the reply leaves, the entry is not      *)
(* saved.                                                                   *)
handle_earner_signed_unsaved(n, m) ==
    LET judged == Verdict(n, m)
    IN  /\ m.type = "earner_signed" /\ m.to = n
        /\ sending[n] = NoId
        /\ judged = "accept"
        /\ Take(m, {[type |-> "payer_cosigned", to |-> To(m.id), id |-> m.id]})
        /\ UNCHANGED <<books, good, bad, stores, sending, calls>>

(* _handle_earner_signed, up to the commit of the entry.  What rode along   *)
(* is stored whatever the verdict.                                          *)
handle_earner_signed(n, m) ==
    LET judged == Verdict(n, m)
    IN  /\ m.type = "earner_signed" /\ m.to = n
        /\ sending[n] = NoId
        /\ Take(m, {})
        /\ IF judged \in {"misroute", "settled"}
           THEN UNCHANGED <<held, evidence>>
           ELSE /\ held' = [held EXCEPT ![n] = @ \cup Envs(m, m.ship.envelope)]
                /\ evidence' = [evidence EXCEPT
                                   ![n] = @ \cup Envs(m, m.ship.evidence)]
        /\ IF judged \in {"misroute", "mismatch", "tolerance", "decline"}
           THEN bad' = [bad EXCEPT ![n][To(m.id)] = @ + 1]
           ELSE UNCHANGED bad
        /\ IF judged = "accept"
           THEN Settle(n, m.id, To(m.id))
           ELSE UNCHANGED <<ledger, behind, sending>>
        /\ UNCHANGED <<entry, cache, good, completion, calls>>

(* Variant of finish: the reply is forgotten.                               *)
finish_silent(n) ==
    LET id == sending[n]
        p == Peer(n, id)
    IN  /\ id # NoId /\ p \notin behind[n]
        /\ good' = [good EXCEPT ![n][p] = @ + 1]
        /\ sending' = [sending EXCEPT ![n] = NoId]
        /\ UNCHANGED <<books, bad, stores, calls, net, budget>>

(* The rest of both handlers, once the balance is cached: record_success,   *)
(* and on the payer's side, outside the lock, the payer_cosigned reply,     *)
(* sent once.                                                               *)
finish(n) ==
    LET id == sending[n]
        p == Peer(n, id)
    IN  /\ id # NoId /\ p \notin behind[n]
        /\ good' = [good EXCEPT ![n][p] = @ + 1]
        /\ net' = net \cup (IF From(id) = n
                            THEN {[type |-> "payer_cosigned", to |-> p, id |-> id]}
                            ELSE {})
        /\ sending' = [sending EXCEPT ![n] = NoId]
        /\ UNCHANGED <<books, bad, stores, calls, budget>>

(* Variant of handle_payer_cosigned: an entry on the ledger, settled or     *)
(* not, is taken for a repeated echo.                                       *)
handle_payer_cosigned_exists(n, m) ==
    /\ m.type = "payer_cosigned" /\ m.to = n
    /\ sending[n] = NoId
    /\ Take(m, {})
    /\ IF ledger[n][m.id] # "none"
       THEN UNCHANGED <<ledger, behind, sending>>
       ELSE Settle(n, m.id, From(m.id))
    /\ UNCHANGED <<entry, cache, good, bad, stores, calls>>

(* _handle_payer_cosigned, up to the commit.  The reply goes to the peer    *)
(* the entry came from, its earner, and carries both signatures: the other  *)
(* early returns are for forged messages.                                   *)
handle_payer_cosigned(n, m) ==
    /\ m.type = "payer_cosigned" /\ m.to = n
    /\ sending[n] = NoId
    /\ Take(m, {})
    /\ IF Settled(n, m.id)
       THEN UNCHANGED <<ledger, behind, sending>>
       ELSE Settle(n, m.id, From(m.id))
    /\ UNCHANGED <<entry, cache, good, bad, stores, calls>>

----------------------------------------------------------------------------
(* Reconciliation.                                                          *)

(* export_statement(p) on node n.                                           *)
Statement(n, p) == {id \in Ids : ledger[n][id] # "none" /\ p \in {From(id), To(id)}}

Position(id) == <<entry[id].at, id>>
LexAfter(x, y) == x[1] > y[1] \/ (x[1] = y[1] /\ x[2] > y[2])

(* The first PageSize entries of after in the order of created_at_ns, which *)
(* leaves the order of equal timestamps to SQLite.                          *)
Pages(after) ==
    {page \in SUBSET after :
        /\ Cardinality(page) = Min({PageSize, Cardinality(after)})
        /\ \A x \in page, y \in after \ page : entry[x].at <= entry[y].at}

(* The position of the last entry of the page, or the request's own cursor. *)
Cursors(page, since) ==
    IF page = {} THEN {since}
    ELSE {Position(x) : x \in {y \in page : \A z \in page :
                                    entry[z].at <= entry[y].at}}

Request(n, p, rid, since) ==
    [type |-> "request", to |-> p, from |-> n, rid |-> rid, since |-> since]

(* request_reconciliation(p) on node n, to the wait for its first page.     *)
request_reconciliation(n, p) ==
    /\ rec[n].pc = "idle" /\ p # n
    /\ asked < MaxRequests
    /\ asked' = asked + 1
    /\ rec' = [rec EXCEPT ![n] = [Idle EXCEPT !.pc = "wait", !.peer = p,
                                              !.rid = asked + 1,
                                              !.start = Statement(p, n)]]
    /\ net' = net \cup {Request(n, p, asked + 1, <<0, NoId>>)}
    /\ UNCHANGED <<books, good, bad, stores, sending, result, budget>>

(* _handle_reconcile_request.                                               *)
handle_reconcile_request(n, m) ==
    LET after == {id \in Statement(n, m.from) : LexAfter(Position(id), m.since)}
    IN  /\ m.type = "request" /\ m.to = n
        /\ sending[n] = NoId
        /\ \E page \in Pages(after) :
           \E cursor \in Cursors(page, m.since) :
              Take(m, {[type |-> "response", to |-> m.from, rid |-> m.rid,
                        page |-> {<<id, ledger[n][id]>> : id \in page},
                        cursor |-> cursor,
                        more |-> Cardinality(after) > PageSize]})
        /\ UNCHANGED <<books, good, bad, stores, sending, calls>>

(* Variant of handle_reconcile_response: any response wakes the caller.     *)
handle_reconcile_response_any(n, m) ==
    /\ m.type = "response" /\ m.to = n
    /\ sending[n] = NoId
    /\ Take(m, {})
    /\ IF rec[n].pc = "wait"
       THEN rec' = [rec EXCEPT ![n].pc = "ready", ![n].page = m.page,
                               ![n].cursor = m.cursor, ![n].more = m.more]
       ELSE UNCHANGED rec
    /\ UNCHANGED <<books, good, bad, stores, sending, result, asked>>

(* _handle_reconcile_response: only the pending request is woken, by the    *)
(* peer it was sent to.  A second copy may still replace the page.          *)
handle_reconcile_response(n, m) ==
    /\ m.type = "response" /\ m.to = n
    /\ sending[n] = NoId
    /\ Take(m, {})
    /\ IF rec[n].pc # "idle" /\ rec[n].rid = m.rid
       THEN rec' = [rec EXCEPT ![n].pc = "ready", ![n].page = m.page,
                               ![n].cursor = m.cursor, ![n].more = m.more]
       ELSE UNCHANGED rec
    /\ UNCHANGED <<books, good, bad, stores, sending, result, asked>>

(* The caller collects a page and asks for the next.                        *)
next_page(n) ==
    LET r == rec[n]
    IN  /\ r.pc = "ready" /\ r.more /\ r.pages + 1 < MaxPages
        /\ asked < MaxRequests
        /\ asked' = asked + 1
        /\ rec' = [rec EXCEPT ![n].pc = "wait", ![n].rid = asked + 1,
                              ![n].seen = @ \cup r.page,
                              ![n].pages = @ + 1]
        /\ net' = net \cup {Request(n, r.peer, asked + 1, r.cursor)}
        /\ UNCHANGED <<books, good, bad, stores, sending, result, budget>>

(* _entries_equivalent: the content is the same, so the signatures decide.  *)
Disputed(n, seen) == {x[1] : x \in {y \in seen : ledger[n][y[1]] \notin {"none", y[2]}}}

(* reconcile_with_peer over what was received, one record_dispute for each  *)
(* disputed entry, and the result.                                          *)
Conclude(n, seen, error) ==
    LET p == rec[n].peer
        ids == {x[1] : x \in seen}
        disputed == Disputed(n, seen)
    IN  /\ result' = [result EXCEPT ![n] =
              [peer |-> p, error |-> error, disputed |-> disputed,
               agreed |-> {id \in ids : ledger[n][id] # "none"} \ disputed,
               missing_ours |-> {id \in ids : ledger[n][id] = "none"},
               missing_theirs |-> Statement(n, p) \ ids,
               start |-> rec[n].start]]
        /\ bad' = [bad EXCEPT ![n][p] = @ + Cardinality(disputed)]
        /\ rec' = [rec EXCEPT ![n] = Idle]
        /\ UNCHANGED <<books, good, stores, sending, asked, net>>

(* The last page, or the one that exceeds max_pages.                        *)
last_page(n) ==
    LET r == rec[n]
    IN  /\ r.pc = "ready"
        /\ ~r.more \/ r.pages + 1 = MaxPages
        /\ Conclude(n, r.seen \cup r.page,
                    IF r.more THEN "page_cap_exceeded" ELSE "none")
        /\ UNCHANGED budget

(* event.wait ran out, or the send failed: what was collected is compared.  *)
give_up(n) ==
    /\ rec[n].pc = "wait"
    /\ Spend("timeout")
    /\ Conclude(n, rec[n].seen, "timeout")

----------------------------------------------------------------------------
(* The environment.                                                         *)

(* Offline peer, reset stream, or a full subscriber buffer in the daemon.   *)
lose(m) ==
    /\ Spend("lose")
    /\ net' = net \ {m}
    /\ UNCHANGED <<books, good, bad, stores, sending, calls>>

(* The process restarts: threads and pending requests are gone, the         *)
(* databases stay.                                                          *)
crash(n) ==
    /\ Spend("crash")
    /\ sending' = [sending EXCEPT ![n] = NoId]
    /\ rec' = [rec EXCEPT ![n] = Idle]
    /\ UNCHANGED <<books, good, bad, stores, result, asked, net>>

Submit == \E v \in Envelopes, id \in Ids, t \in 1 .. MaxTime, d \in Nodes,
             ship \in Shipments : submit_earned(v, id, t, d, ship)

(* _run_loop: one message at a time.                                        *)
Handle(n, m) ==
    \/ handle_earner_signed(n, m)
    \/ handle_payer_cosigned(n, m)
    \/ handle_reconcile_request(n, m)
    \/ handle_reconcile_response(n, m)

Receive(n) == update_balance_cache(n) \/ finish(n)

Reconcile(n) == next_page(n) \/ last_page(n)

Next ==
    \/ Submit
    \/ \E n \in Nodes, v \in Envelopes : learn_completion(n, v)
    \/ \E n \in Nodes : Receive(n) \/ Reconcile(n) \/ give_up(n) \/ crash(n)
    \/ \E n \in Nodes, m \in net : Handle(n, m)
    \/ \E n \in Callers, p \in Nodes : request_reconciliation(n, p)
    \/ \E m \in net : lose(m)

Spec == Init /\ [][Next]_vars

(* Each node's receive thread keeps handling what arrives: a message after  *)
(* the rest of the one before it.  Nobody has to submit or to reconcile,    *)
(* and no delta has to arrive.                                              *)
ReceiveThread(n) == Receive(n) \/ \E m \in net : Handle(n, m)

FairSpec == Spec /\ \A n \in Nodes : WF_vars(ReceiveThread(n))

----------------------------------------------------------------------------
(* Properties.                                                              *)

SettledWith(n, p) == {id \in Statement(n, p) : ledger[n][id] = "both"}

PayerSettled(id) == Created(id) /\ ledger[From(id)][id] = "both"
EarnerSettled(id) == Created(id) /\ ledger[To(id)][id] = "both"

(* An entry settled on the earner's ledger is settled on the payer's: the   *)
(* echo of _handle_earner_signed never overtakes sign_as_payer, whatever is *)
(* lost, repeated or cut off by a restart.                                  *)
EarnerNeverAhead ==
    \A id \in Ids : EarnerSettled(id) => PayerSettled(id)

(* When everything sent has been handled and nothing was lost, the two      *)
(* nodes' get_balance are opposite: duplicated entries and echoes count     *)
(* once.                                                                    *)
BalancesAgree ==
    /\ net = {}
    /\ \A n \in Nodes : sending[n] = NoId
    /\ \A f \in {"lose", "crash"} : budget[f] = Faults[f]
    => \A n, p \in Nodes : n # p => get_balance(ledger, n, p) = -get_balance(ledger, p, n)

(* A balance_cache row that is not behind equals get_balance.               *)
CacheTells ==
    \A n, p \in Nodes : n # p /\ p \notin behind[n]
        => cache[n][p] = get_balance(ledger, n, p)

(* A row is behind only between the commit of an entry and the second write, *)
(* or after a restart.                                                      *)
LagIsExplained ==
    \A n, p \in Nodes : n # p /\ p \in behind[n]
        => \/ sending[n] # NoId /\ Peer(n, sending[n]) = p
           \/ budget["crash"] < Faults["crash"]

(* The balance_cache row equals get_balance, except between the two writes  *)
(* of sign_as_payer and apply_cosigned_entry and after a restart that fell  *)
(* between them; then the next entry settled with that peer, and nothing    *)
(* else, brings it in line.                                                 *)
CacheCatchesUp == CacheTells /\ LagIsExplained

(* "The balance cache is a per-peer rolling sum kept consistent with the    *)
(* truth (sum over settled entries)" (_update_balance_cache): whenever the  *)
(* receive thread is between two messages.                                  *)
CacheIsBalance ==
    \A n, p \in Nodes : n # p /\ sending[n] = NoId
        => cache[n][p] = get_balance(ledger, n, p)

(* record_success is called at most once for each settled entry, and exactly *)
(* once unless a node restarted between the commit and the call.            *)
SuccessCountedOnce ==
    \A n, p \in Nodes :
        LET settled == SettledWith(n, p)
            counted == good[n][p] + Cardinality(settled \cap {sending[n]})
        IN  n # p => /\ counted <= Cardinality(settled)
                     /\ budget["crash"] = Faults["crash"] => counted = Cardinality(settled)

(* With an audit policy nothing is paid that the payer could not audit from *)
(* its own stores, or that failed the audit: "never a silent unaudited      *)
(* payment" (submit_earned).                                                *)
PaidWorkIsAudited ==
    \A id \in Ids : Audit /\ PayerSettled(id)
        => /\ entry[id].env \notin Tampered
           /\ entry[id].env \in held[From(id)] \cap evidence[From(id)]

(* What an honest peer sends: an audit passes and the price is tolerated.   *)
HonestEntry(id) ==
    LET v == entry[id].env
    IN  v \notin Tampered /\ Within(Asked[v], CostOf[v])

(* Nobody disputes a peer whose entries are honest and went to their payer: *)
(* lost, late and repeated messages are not misbehaviour ("Could be a       *)
(* gossip lag", _handle_earner_signed).                                     *)
HonestNotDisputed ==
    \A n, p \in Nodes :
        /\ budget["misroute"] = Faults["misroute"]
        /\ \A id \in Ids : Created(id) /\ To(id) = p => HonestEntry(id)
        => bad[n][p] = 0

(* A reconciliation that ends without an error has sorted every entry the   *)
(* peer held when it began into agreed, disputed or missing_ours, also one  *)
(* the caller has no row of: no page boundary hides one.                    *)
ReconcileSeesAll ==
    \A n \in Nodes : result[n].error = "none"
        => result[n].start \subseteq result[n].agreed \cup result[n].disputed
                                       \cup result[n].missing_ours

(* Each envelope is paid at most once (submit_earned on a retry with a      *)
(* fresh entry_id: "so a partial first delivery doesn't double-count").     *)
PaidOnce ==
    \A x, y \in Ids : PayerSettled(x) /\ PayerSettled(y) /\ entry[x].env = entry[y].env
                         => x = y

(* What was paid for is what the payer's board records as the completion of *)
(* the work ("Envelope hash must match a known completed work item").       *)
PaidIsCompletion ==
    \A id \in Ids : PayerSettled(id)
        => completion[From(id)][WorkOf[entry[id].env]] \in {NoEnvelope, entry[id].env}

(* Every entry sent with its envelope and evidence settles on both sides.   *)
SubmittedSettles ==
    \A id \in Ids : Created(id) ~> PayerSettled(id) /\ EarnerSettled(id)

(* An entry the payer could not judge for want of a record is paid once the *)
(* payer has it ("reconciliation retries").                                 *)
DeferredIsRetried ==
    \A id \in Ids : (/\ Created(id)
                     /\ completion[From(id)][WorkOf[entry[id].env]] = entry[id].env)
                    ~> PayerSettled(id)

(* The books agree: both sides' balances are opposite once everything has   *)
(* arrived, and a balance_cache row is the sum of the settled entries        *)
(* except where a restart between two commits explains that it is behind.   *)
BooksAgree == TypeOK /\ BalancesAgree /\ CacheCatchesUp
=============================================================================
