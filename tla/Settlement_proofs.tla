-------------------------- MODULE Settlement_proofs --------------------------
(***************************************************************************)
(* Proofs about Settlement, for every set of nodes, every envelope and any *)
(* number of faults.                                                       *)
(***************************************************************************)
EXTENDS Settlement, FiniteFacts, TLAPS

(* The first two results rest on this: rows belong to created entries, an   *)
(* entry on its way to the payer exists, and what a receive thread has saved *)
(* and not finished, or an echo on its way, is an entry its payer has       *)
(* settled.                                                                 *)
BooksTyped ==
    /\ entry \in [Ids -> Entry]
    /\ ledger \in [Nodes -> [Ids -> Signatures]]
    /\ held \in [Nodes -> SUBSET Envelopes]
    /\ evidence \in [Nodes -> SUBSET Envelopes]
    /\ sending \in [Nodes -> Ids \cup {NoId}]

RowsAreCreated == \A n \in Nodes, id \in Ids : ledger[n][id] # "none" => Created(id)

ClaimsExist ==
    \A m \in net : m.type = "earner_signed" => m.id \in Ids /\ Created(m.id)

SavedBy(n, id) ==
    PayerSettled(id) /\ n \in {From(id), To(id)} /\ ledger[n][id] = "both"

EchoesAreSettled ==
    /\ \A n \in Nodes : sending[n] # NoId => SavedBy(n, sending[n])
    /\ \A m \in net : m.type = "payer_cosigned"
           => m.id \in Ids /\ PayerSettled(m.id) /\ m.to = To(m.id)

IInv ==
    /\ BooksTyped
    /\ RowsAreCreated
    /\ ClaimsExist
    /\ EchoesAreSettled
    /\ EarnerNeverAhead
    /\ PaidWorkIsAudited

USE SettlementAssumption DEF NoId

LEMMA IdsPositive == \A id \in Ids : id # NoId
BY DEF Ids

(* The parties of a created entry are nodes.                                *)
LEMMA Parties ==
    ASSUME BooksTyped, NEW id \in Ids, Created(id)
    PROVE  /\ entry[id].env \in Envelopes
           /\ From(id) \in Nodes /\ To(id) \in Nodes /\ From(id) # To(id)
BY DEF BooksTyped, Entry, Created, From, To

LEMMA InitHolds == Init => IInv
<1> SUFFICES ASSUME Init PROVE IInv
    OBVIOUS
<1> USE DEF Init
<1>1. BooksTyped
    BY DEF BooksTyped, Entry, NoEntry, Signatures
<1>2. \A id \in Ids : ~Created(id)
    BY DEF Created, NoEntry
<1> QED
    BY <1>1, <1>2 DEF IInv, RowsAreCreated, ClaimsExist, EchoesAreSettled,
       EarnerNeverAhead, PaidWorkIsAudited, PayerSettled, EarnerSettled

(* A step that leaves the books, the stores and the receive threads alone,  *)
(* and sends neither an entry nor an echo.                                  *)
LEMMA QuietStep ==
    ASSUME IInv, UNCHANGED <<entry, ledger, held, evidence>>,
           \A n \in Nodes : sending'[n] \in {sending[n], NoId},
           sending' \in [Nodes -> Ids \cup {NoId}],
           \A m \in net' : m \in net \/ m.type \in {"request", "response"}
    PROVE  IInv'
<1>0. /\ entry' = entry /\ ledger' = ledger
      /\ held' = held /\ evidence' = evidence
    OBVIOUS
<1>1. BooksTyped'
    BY <1>0 DEF IInv, BooksTyped
<1>2. \A id \in Ids : Created(id)' = Created(id)
    BY <1>0 DEF Created
<1>3. \A id : From(id)' = From(id) /\ To(id)' = To(id)
    BY <1>0 DEF From, To
<1>4. \A id \in Ids : /\ PayerSettled(id)' = PayerSettled(id)
                      /\ EarnerSettled(id)' = EarnerSettled(id)
    BY <1>0, <1>2, <1>3 DEF PayerSettled, EarnerSettled
<1>5. RowsAreCreated' /\ EarnerNeverAhead'
    BY <1>0, <1>2, <1>4 DEF IInv, RowsAreCreated, EarnerNeverAhead
<1>6. ClaimsExist'
    BY <1>2 DEF IInv, ClaimsExist
<1>7. EchoesAreSettled'
    <2>1. ASSUME NEW n \in Nodes, sending'[n] # NoId
          PROVE  SavedBy(n, sending[n])'
        <3>1. sending'[n] = sending[n]
            BY <2>1
        <3> QED
            BY <2>1, <3>1, <1>0
            DEF IInv, EchoesAreSettled, SavedBy, PayerSettled, Created, From, To
    <2>2. ASSUME NEW m \in net', m.type = "payer_cosigned"
          PROVE  m.id \in Ids /\ PayerSettled(m.id)' /\ m.to = To(m.id)'
        BY <2>2, <1>3, <1>4 DEF IInv, EchoesAreSettled
    <2> QED
        BY <2>1, <2>2 DEF EchoesAreSettled
<1>8. PaidWorkIsAudited'
    BY <1>0, <1>3, <1>4 DEF IInv, PaidWorkIsAudited
<1> QED
    BY <1>1, <1>5, <1>6, <1>7, <1>8 DEF IInv

LEMMA TakeSends ==
    ASSUME NEW m, NEW out, Take(m, out)
    PROVE  \A x \in net' : x \in net \/ x \in out
BY DEF Take

(* Submitting touches only an entry no ledger, thread or message knows.     *)
LEMMA SubmitStep ==
    ASSUME IInv, NEW v \in Envelopes, NEW id \in Ids, NEW t \in 1 .. MaxTime,
           NEW d \in Nodes, NEW ship \in Shipments,
           submit_earned(v, id, t, d, ship)
    PROVE  IInv'
<1> DEFINE e == EarnerOf[v]
<1>0. /\ ~Created(id)
      /\ entry' = [entry EXCEPT ![id] = [env |-> v, at |-> t]]
      /\ ledger' = [ledger EXCEPT ![e][id] = "earner"]
      /\ net' = net \cup {[type |-> "earner_signed", to |-> d, from |-> e,
                           id |-> id, ship |-> ship]}
      /\ held' = held /\ evidence' = evidence /\ sending' = sending
    BY DEF submit_earned, stores
<1>1. e \in Nodes /\ v # NoEnvelope /\ BooksTyped
    BY DEF IInv
<1>2. BooksTyped'
    BY <1>0, <1>1 DEF BooksTyped, Entry, Signatures
<1>3. \A x \in Ids : x # id => entry'[x] = entry[x]
    BY <1>0, <1>1 DEF BooksTyped
<1>4. \A n \in Nodes, x \in Ids : x # id => ledger'[n][x] = ledger[n][x]
    BY <1>0, <1>1 DEF BooksTyped
<1>5. \A n \in Nodes : ledger[n][id] = "none" /\ ledger'[n][id] # "both"
    BY <1>0, <1>1 DEF IInv, BooksTyped, RowsAreCreated
<1>6. entry'[id].env = v
    BY <1>0, <1>1 DEF BooksTyped
<1>7. \A x \in Ids : Created(x) => x # id /\ Created(x)'
    BY <1>0, <1>3 DEF Created
<1>8. \A x \in Ids : x # id =>
          /\ Created(x)' = Created(x) /\ From(x)' = From(x) /\ To(x)' = To(x)
    BY <1>3 DEF Created, From, To
<1>9. (From(id) \in Nodes /\ To(id) \in Nodes /\ Created(id))'
    BY <1>6, <1>1 DEF From, To, Created
<1>10. \A x \in Ids : /\ PayerSettled(x)' = PayerSettled(x)
                      /\ EarnerSettled(x)' = EarnerSettled(x)
    <2> TAKE x \in Ids
    <2>1. CASE x = id
        BY <2>1, <1>0, <1>5, <1>9 DEF PayerSettled, EarnerSettled
    <2>2. CASE x # id
        <3>1. CASE Created(x)
            BY <2>2, <3>1, <1>1, <1>4, <1>8, Parties DEF PayerSettled, EarnerSettled
        <3>2. CASE ~Created(x)
            BY <2>2, <3>2, <1>8 DEF PayerSettled, EarnerSettled
        <3> QED BY <3>1, <3>2
    <2> QED BY <2>1, <2>2
<1>11. RowsAreCreated'
    <2> SUFFICES ASSUME NEW n \in Nodes, NEW x \in Ids, ledger'[n][x] # "none"
                 PROVE  Created(x)'
        BY DEF RowsAreCreated
    <2> QED
        BY <1>4, <1>7, <1>9 DEF IInv, RowsAreCreated
<1>12. ClaimsExist'
    BY <1>0, <1>7, <1>9 DEF IInv, ClaimsExist
<1>13. EchoesAreSettled'
    <2>1. ASSUME NEW n \in Nodes, sending'[n] # NoId
          PROVE  SavedBy(n, sending[n])'
        <3>1. PICK x \in Ids : x = sending[n]
            BY <2>1, <1>0, <1>1 DEF BooksTyped
        <3>2. SavedBy(n, x)
            BY <2>1, <3>1, <1>0 DEF IInv, EchoesAreSettled
        <3>3. x # id
            BY <3>2, <1>0 DEF SavedBy, PayerSettled
        <3>4. SavedBy(n, x)'
            BY <3>2, <3>3, <1>4, <1>8, <1>10 DEF SavedBy
        <3> QED
            BY <3>1, <3>4, <1>0 DEF SavedBy, PayerSettled, Created, From, To
    <2>2. ASSUME NEW m \in net', m.type = "payer_cosigned"
          PROVE  m.id \in Ids /\ PayerSettled(m.id)' /\ m.to = To(m.id)'
        <3>1. m \in net /\ m.id \in Ids /\ PayerSettled(m.id) /\ m.to = To(m.id)
            BY <2>2, <1>0 DEF IInv, EchoesAreSettled
        <3>2. m.id # id
            BY <3>1, <1>0 DEF PayerSettled
        <3> QED
            BY <3>1, <3>2, <1>8, <1>10
    <2> QED
        BY <2>1, <2>2 DEF EchoesAreSettled
<1>14. EarnerNeverAhead'
    BY <1>10 DEF IInv, EarnerNeverAhead
<1>15. PaidWorkIsAudited'
    <2> SUFFICES ASSUME NEW x \in Ids, Audit, PayerSettled(x)'
                 PROVE  (/\ entry[x].env \notin Tampered
                         /\ entry[x].env \in held[From(x)] \cap evidence[From(x)])'
        BY DEF PaidWorkIsAudited
    <2>1. PayerSettled(x) /\ x # id
        BY <1>0, <1>10 DEF PayerSettled
    <2> QED
        BY <2>1, <1>0, <1>3, <1>8 DEF IInv, PaidWorkIsAudited
<1> QED
    BY <1>2, <1>11, <1>12, <1>13, <1>14, <1>15 DEF IInv

(* Stores only grow and rows only gain a signature while the entries stay:  *)
(* what was settled remains settled, and audited.                           *)
LEMMA SettledStays ==
    ASSUME IInv, BooksTyped', entry' = entry,
           \A n \in Nodes, x \in Ids : ledger[n][x] = "both" => ledger'[n][x] = "both",
           \A n \in Nodes : held[n] \subseteq held'[n] /\ evidence[n] \subseteq evidence'[n],
           NEW x \in Ids
    PROVE  /\ Created(x)' = Created(x) /\ From(x)' = From(x) /\ To(x)' = To(x)
           /\ PayerSettled(x) => PayerSettled(x)'
           /\ Audit /\ PayerSettled(x)
                => (/\ entry[x].env \notin Tampered
                    /\ entry[x].env \in held[From(x)] \cap evidence[From(x)])'
<1>1. Created(x)' = Created(x) /\ From(x)' = From(x) /\ To(x)' = To(x)
    BY DEF Created, From, To
<1>2. Created(x) => From(x) \in Nodes
    BY Parties DEF IInv
<1>3. PayerSettled(x) => PayerSettled(x)'
    BY <1>1, <1>2 DEF PayerSettled
<1>4. ASSUME Audit, PayerSettled(x)
      PROVE  (/\ entry[x].env \notin Tampered
              /\ entry[x].env \in held[From(x)] \cap evidence[From(x)])'
    <2>1. /\ entry[x].env \notin Tampered
          /\ entry[x].env \in held[From(x)] /\ entry[x].env \in evidence[From(x)]
        BY <1>4 DEF IInv, PaidWorkIsAudited
    <2>2. From(x) \in Nodes
        BY <1>4, <1>2 DEF PayerSettled
    <2> QED
        BY <2>1, <2>2, <1>1
<1> QED
    BY <1>1, <1>3, <1>4

(* Taking an entry: nothing is settled unless the verdict is to accept, and *)
(* then by its payer, which holds what it audited.                          *)
LEMMA AcceptMeans ==
    ASSUME NEW n, NEW m, Verdict(n, m) = "accept"
    PROVE  /\ From(m.id) = n
           /\ Audit => /\ entry[m.id].env \notin Tampered
                       /\ entry[m.id].env \in held[n] \cup Envs(m, m.ship.envelope)
                       /\ entry[m.id].env \in evidence[n] \cup Envs(m, m.ship.evidence)
<1> DEFINE v == entry[m.id].env
           hs == held[n] \cup Envs(m, m.ship.envelope)
           evs == evidence[n] \cup Envs(m, m.ship.evidence)
<1>1. From(m.id) = n /\ Acceptance(n, v, hs, evs) = "accept"
    BY DEF Verdict
<1>2. Audit => v \in hs /\ v \in evs /\ v \notin Tampered
    BY <1>1 DEF Acceptance
<1> QED
    BY <1>1, <1>2

LEMMA EarnerSignedStep ==
    ASSUME IInv, NEW n \in Nodes, NEW m \in net, handle_earner_signed(n, m)
    PROVE  IInv'
<1> DEFINE id == m.id
           judged == Verdict(n, m)
<1>0. /\ m.type = "earner_signed" /\ sending[n] = NoId
      /\ entry' = entry
      /\ \A x \in net' : x \in net
    BY TakeSends DEF handle_earner_signed
<1>1. id \in Ids /\ Created(id) /\ BooksTyped
    BY <1>0 DEF IInv, ClaimsExist
<1>3. \A flag : Envs(m, flag) \subseteq Envelopes
    BY <1>1, Parties DEF Envs
<1>4. /\ held' \in [Nodes -> SUBSET Envelopes]
      /\ evidence' \in [Nodes -> SUBSET Envelopes]
      /\ \A k \in Nodes : held[k] \subseteq held'[k] /\ evidence[k] \subseteq evidence'[k]
    <2>1. CASE UNCHANGED <<held, evidence>>
        BY <2>1, <1>1 DEF BooksTyped
    <2>2. CASE /\ held' = [held EXCEPT ![n] = @ \cup Envs(m, m.ship.envelope)]
               /\ evidence' = [evidence EXCEPT ![n] = @ \cup Envs(m, m.ship.evidence)]
        BY <2>2, <1>1, <1>3 DEF BooksTyped
    <2> QED
        BY <2>1, <2>2 DEF handle_earner_signed
<1>5. CASE judged # "accept"
    <2>1. ledger' = ledger /\ sending' = sending
        BY <1>5 DEF handle_earner_signed
    <2>2. BooksTyped'
        BY <2>1, <1>0, <1>1, <1>4 DEF BooksTyped
    <2>3. \A x \in Ids : /\ Created(x)' = Created(x)
                         /\ From(x)' = From(x) /\ To(x)' = To(x)
                         /\ PayerSettled(x) => PayerSettled(x)'
        BY <2>1, <2>2, <1>0, <1>4, SettledStays
    <2>4. \A x \in Ids : PayerSettled(x)' => PayerSettled(x)
        BY <2>1, <2>3 DEF PayerSettled
    <2>5. \A x \in Ids : EarnerSettled(x)' => EarnerSettled(x)
        BY <2>1, <2>3 DEF EarnerSettled
    <2>6. PaidWorkIsAudited'
        BY <2>1, <2>2, <2>4, <1>0, <1>4, SettledStays DEF PaidWorkIsAudited
    <2>7. RowsAreCreated' /\ ClaimsExist' /\ EarnerNeverAhead'
        BY <2>1, <2>3, <2>4, <2>5, <1>0
        DEF IInv, RowsAreCreated, ClaimsExist, EarnerNeverAhead
    <2>8. EchoesAreSettled'
        <3>1. ASSUME NEW k \in Nodes, sending'[k] # NoId
              PROVE  SavedBy(k, sending[k])'
            BY <3>1, <2>1, <1>0
            DEF IInv, EchoesAreSettled, SavedBy, PayerSettled, Created, From, To
        <3>2. ASSUME NEW x \in net', x.type = "payer_cosigned"
              PROVE  x.id \in Ids /\ PayerSettled(x.id)' /\ x.to = To(x.id)'
            BY <3>2, <2>3, <1>0 DEF IInv, EchoesAreSettled
        <3> QED BY <3>1, <3>2 DEF EchoesAreSettled
    <2> QED
        BY <2>2, <2>6, <2>7, <2>8 DEF IInv
<1>6. CASE judged = "accept"
    <2>1. /\ ledger' = [ledger EXCEPT ![n][id] = "both"]
          /\ sending' = [sending EXCEPT ![n] = id]
          /\ held' = [held EXCEPT ![n] = @ \cup Envs(m, m.ship.envelope)]
          /\ evidence' = [evidence EXCEPT ![n] = @ \cup Envs(m, m.ship.evidence)]
        BY <1>6 DEF handle_earner_signed, Settle
    <2>2. BooksTyped'
        BY <2>1, <1>0, <1>1, <1>4 DEF BooksTyped, Signatures
    <2>3. \A k \in Nodes, x \in Ids :
              /\ ledger[k][x] = "both" => ledger'[k][x] = "both"
              /\ <<k, x>> # <<n, id>> => ledger'[k][x] = ledger[k][x]
        BY <2>1, <1>1 DEF BooksTyped
    <2>4. ledger'[n][id] = "both"
        BY <2>1, <1>1 DEF BooksTyped
    <2>5. \A x \in Ids : /\ Created(x)' = Created(x)
                         /\ From(x)' = From(x) /\ To(x)' = To(x)
                         /\ PayerSettled(x) => PayerSettled(x)'
        BY <2>2, <2>3, <1>0, <1>4, SettledStays
    <2>6. /\ From(id) = n /\ To(id) # n
          /\ PayerSettled(id)'
        BY <2>4, <2>5, <1>1, <1>6, AcceptMeans, Parties DEF PayerSettled
    <2>7. \A x \in Ids : x # id => /\ PayerSettled(x)' => PayerSettled(x)
                                   /\ EarnerSettled(x)' => EarnerSettled(x)
        BY <2>3, <2>5, <1>1, Parties DEF PayerSettled, EarnerSettled
    <2>8. RowsAreCreated' /\ ClaimsExist'
        BY <2>3, <2>5, <1>0, <1>1 DEF IInv, RowsAreCreated, ClaimsExist
    <2>9. EarnerNeverAhead'
        BY <2>5, <2>6, <2>7 DEF IInv, EarnerNeverAhead
    <2>10. EchoesAreSettled'
        <3>1. ASSUME NEW k \in Nodes, sending'[k] # NoId
              PROVE  SavedBy(k, sending[k])'
            <4>1. PICK x \in Ids : x = sending'[k]
                BY <3>1, <2>2 DEF BooksTyped
            <4>2. SavedBy(k, x)'
                <5>1. CASE k = n
                    BY <5>1, <4>1, <2>1, <2>4, <2>5, <2>6, <1>1 DEF BooksTyped, SavedBy
                <5>2. CASE k # n
                    <6>1. sending[k] = x /\ SavedBy(k, x)
                        BY <5>2, <3>1, <4>1, <2>1, <1>1 DEF IInv, BooksTyped, EchoesAreSettled
                    <6> QED
                        BY <6>1, <2>3, <2>5 DEF SavedBy
                <5> QED BY <5>1, <5>2
            <4> QED
                BY <4>1, <4>2 DEF SavedBy, PayerSettled, Created, From, To
        <3>2. ASSUME NEW x \in net', x.type = "payer_cosigned"
              PROVE  x.id \in Ids /\ PayerSettled(x.id)' /\ x.to = To(x.id)'
            BY <3>2, <2>5, <1>0 DEF IInv, EchoesAreSettled
        <3> QED BY <3>1, <3>2 DEF EchoesAreSettled
    <2>11. PaidWorkIsAudited'
        <3> SUFFICES ASSUME NEW x \in Ids, Audit, PayerSettled(x)'
                     PROVE  (/\ entry[x].env \notin Tampered
                             /\ entry[x].env \in held[From(x)] \cap evidence[From(x)])'
            BY DEF PaidWorkIsAudited
        <3>1. CASE x # id
            BY <3>1, <2>2, <2>3, <2>7, <1>0, <1>4, SettledStays
        <3>2. CASE x = id
            <4>1. held'[n] = held[n] \cup Envs(m, m.ship.envelope)
                BY <2>1, <1>1 DEF BooksTyped
            <4>2. evidence'[n] = evidence[n] \cup Envs(m, m.ship.evidence)
                BY <2>1, <1>1 DEF BooksTyped
            <4>3. From(x)' = n /\ entry'[x] = entry[id]
                BY <3>2, <2>5, <2>6, <1>0, <1>1
            <4> QED
                BY <4>1, <4>2, <4>3, <1>6, AcceptMeans
        <3> QED BY <3>1, <3>2
    <2> QED
        BY <2>2, <2>8, <2>9, <2>10, <2>11 DEF IInv
<1> QED
    BY <1>5, <1>6

(* The receive thread records the success of the entry it has saved, and    *)
(* on the payer's side echoes it.                                           *)
LEMMA FinishStep ==
    ASSUME IInv, NEW n \in Nodes, finish(n)
    PROVE  IInv'
<1> DEFINE id == sending[n]
           reply == [type |-> "payer_cosigned", to |-> Peer(n, id), id |-> id]
<1>0. /\ sending[n] # NoId
      /\ entry' = entry /\ ledger' = ledger
      /\ held' = held /\ evidence' = evidence
      /\ \A x \in net' : x \in net \/ (x = reply /\ From(id) = n)
      /\ sending' = [sending EXCEPT ![n] = NoId]
    BY DEF finish, books, stores
<1>1. id \in Ids /\ PayerSettled(id) /\ SavedBy(n, id)
    BY <1>0 DEF IInv, BooksTyped, EchoesAreSettled, SavedBy
<1>2. BooksTyped'
    BY <1>0 DEF IInv, BooksTyped
<1>3. \A x \in Ids : /\ Created(x)' = Created(x)
                     /\ From(x)' = From(x) /\ To(x)' = To(x)
    BY <1>0 DEF Created, From, To
<1>4. \A x \in Ids : /\ PayerSettled(x)' = PayerSettled(x)
                     /\ EarnerSettled(x)' = EarnerSettled(x)
    BY <1>0, <1>3 DEF PayerSettled, EarnerSettled
<1>5. RowsAreCreated' /\ ClaimsExist' /\ EarnerNeverAhead'
    BY <1>0, <1>3, <1>4 DEF IInv, RowsAreCreated, ClaimsExist, EarnerNeverAhead
<1>6. PaidWorkIsAudited'
    BY <1>0, <1>3, <1>4 DEF IInv, PaidWorkIsAudited
<1>7. EchoesAreSettled'
    <2>1. ASSUME NEW k \in Nodes, sending'[k] # NoId
          PROVE  SavedBy(k, sending[k])'
        <3>1. sending'[k] = sending[k]
            BY <2>1, <1>0 DEF IInv, BooksTyped
        <3> QED
            BY <2>1, <3>1, <1>0
            DEF IInv, EchoesAreSettled, SavedBy, PayerSettled, Created, From, To
    <2>2. ASSUME NEW x \in net', x.type = "payer_cosigned"
          PROVE  x.id \in Ids /\ PayerSettled(x.id)' /\ x.to = To(x.id)'
        <3>1. CASE x \in net
            BY <2>2, <3>1, <1>3, <1>4 DEF IInv, EchoesAreSettled
        <3>2. CASE x = reply /\ From(id) = n
            <4>1. To(id) # n
                BY <3>2, <1>1, Parties DEF IInv, PayerSettled
            <4>2. Peer(n, id) = To(id)
                BY <4>1 DEF Peer
            <4>3. x.id = id /\ x.to = Peer(n, id)
                BY <3>2
            <4> QED
                BY <4>2, <4>3, <1>1, <1>3, <1>4
        <3> QED BY <2>2, <3>1, <3>2, <1>0
    <2> QED
        BY <2>1, <2>2 DEF EchoesAreSettled
<1> QED
    BY <1>2, <1>5, <1>6, <1>7 DEF IInv

(* The earner applies an echo: its payer has settled the entry already.     *)
LEMMA PayerCosignedStep ==
    ASSUME IInv, NEW n \in Nodes, NEW m \in net, handle_payer_cosigned(n, m)
    PROVE  IInv'
<1> DEFINE id == m.id
<1>0. /\ m.type = "payer_cosigned" /\ m.to = n
      /\ entry' = entry /\ held' = held /\ evidence' = evidence
      /\ \A x \in net' : x \in net
    BY TakeSends DEF handle_payer_cosigned, stores
<1>1. id \in Ids /\ PayerSettled(id) /\ Created(id) /\ BooksTyped /\ To(id) = n
    BY <1>0 DEF IInv, EchoesAreSettled, PayerSettled
<1>2. \/ ledger' = ledger /\ sending' = sending
      \/ /\ ledger' = [ledger EXCEPT ![n][id] = "both"]
         /\ sending' = [sending EXCEPT ![n] = id]
    BY DEF handle_payer_cosigned, Settle
<1>3. BooksTyped'
    <2>1. CASE ledger' = ledger /\ sending' = sending
        BY <2>1, <1>0, <1>1 DEF BooksTyped
    <2>2. CASE /\ ledger' = [ledger EXCEPT ![n][id] = "both"]
               /\ sending' = [sending EXCEPT ![n] = id]
        <3>1. ledger' \in [Nodes -> [Ids -> Signatures]]
            BY <2>2, <1>1 DEF BooksTyped, Signatures
        <3> QED
            BY <2>2, <3>1, <1>0, <1>1 DEF BooksTyped
    <2> QED BY <1>2, <2>1, <2>2
<1>4. \A k \in Nodes, x \in Ids :
          /\ ledger[k][x] = "both" => ledger'[k][x] = "both"
          /\ x # id => ledger'[k][x] = ledger[k][x]
    <2>1. CASE ledger' = ledger
        BY <2>1
    <2>2. CASE ledger' = [ledger EXCEPT ![n][id] = "both"]
        BY <2>2, <1>1 DEF BooksTyped
    <2> QED BY <1>2, <2>1, <2>2
<1>5. \A x \in Ids : /\ Created(x)' = Created(x)
                     /\ From(x)' = From(x) /\ To(x)' = To(x)
                     /\ PayerSettled(x) => PayerSettled(x)'
    BY <1>0, <1>3, <1>4, SettledStays
<1>6. \A x \in Ids : PayerSettled(x)' => PayerSettled(x)
    BY <1>1, <1>4, <1>5, Parties DEF PayerSettled
<1>7. RowsAreCreated' /\ ClaimsExist'
    BY <1>0, <1>1, <1>4, <1>5 DEF IInv, RowsAreCreated, ClaimsExist
<1>8. EarnerNeverAhead'
    <2> SUFFICES ASSUME NEW x \in Ids, EarnerSettled(x)'
                 PROVE  PayerSettled(x)'
        BY DEF EarnerNeverAhead
    <2>1. CASE x = id
        BY <2>1, <1>1, <1>5
    <2>2. CASE x # id
        <3>1. EarnerSettled(x)
            BY <2>2, <1>1, <1>4, <1>5, Parties DEF EarnerSettled
        <3> QED
            BY <3>1, <1>5 DEF IInv, EarnerNeverAhead
    <2> QED BY <2>1, <2>2
<1>9. EchoesAreSettled'
    <2>1. ASSUME NEW k \in Nodes, sending'[k] # NoId
          PROVE  SavedBy(k, sending[k])'
        <3>1. PICK x \in Ids : x = sending'[k]
            BY <2>1, <1>3 DEF BooksTyped
        <3>2. SavedBy(k, x)'
            <4>1. CASE x = sending[k]
                <5>1. SavedBy(k, x)
                    BY <4>1, <3>1, <2>1 DEF IInv, EchoesAreSettled
                <5> QED
                    BY <5>1, <1>4, <1>5 DEF SavedBy
            <4>2. CASE x # sending[k]
                <5>1. /\ ledger' = [ledger EXCEPT ![n][id] = "both"]
                      /\ sending' = [sending EXCEPT ![n] = id]
                    BY <4>2, <3>1, <1>2
                <5>2. k = n /\ x = id
                    BY <5>1, <4>2, <3>1, <1>1 DEF BooksTyped
                <5>3. ledger'[n][id] = "both"
                    BY <5>1, <1>1 DEF BooksTyped
                <5> QED
                    BY <5>2, <5>3, <1>1, <1>5 DEF SavedBy
            <4> QED BY <4>1, <4>2
        <3> QED
            BY <3>1, <3>2 DEF SavedBy, PayerSettled, Created, From, To
    <2>2. ASSUME NEW x \in net', x.type = "payer_cosigned"
          PROVE  x.id \in Ids /\ PayerSettled(x.id)' /\ x.to = To(x.id)'
        BY <2>2, <1>0, <1>5 DEF IInv, EchoesAreSettled
    <2> QED
        BY <2>1, <2>2 DEF EchoesAreSettled
<1>10. PaidWorkIsAudited'
    BY <1>0, <1>3, <1>4, <1>6, SettledStays DEF PaidWorkIsAudited
<1> QED
    BY <1>3, <1>7, <1>8, <1>9, <1>10 DEF IInv

(* Every step of every actor keeps the invariant.                           *)
LEMMA NextStep == IInv /\ [Next]_vars => IInv'
<1> SUFFICES ASSUME IInv, [Next]_vars PROVE IInv'
    OBVIOUS
<1>0. sending \in [Nodes -> Ids \cup {NoId}]
    BY DEF IInv, BooksTyped
<1> USE DEF books, stores, calls
<1>1. CASE Submit
    BY <1>1, SubmitStep DEF Submit
<1>2. CASE \E n \in Nodes, v \in Envelopes : learn_completion(n, v)
    BY <1>2, <1>0, QuietStep DEF learn_completion
<1>3. ASSUME NEW n \in Nodes, Receive(n) PROVE IInv'
    <2>1. CASE update_balance_cache(n)
        BY <2>1, <1>0, QuietStep DEF update_balance_cache
    <2>2. CASE finish(n)
        BY <2>2, FinishStep
    <2> QED BY <1>3, <2>1, <2>2 DEF Receive
<1>4. ASSUME NEW n \in Nodes, Reconcile(n) PROVE IInv'
    <2>1. CASE next_page(n)
        BY <2>1, <1>0, QuietStep DEF next_page, Request
    <2>2. CASE last_page(n)
        BY <2>2, <1>0, QuietStep DEF last_page, Conclude
    <2> QED BY <1>4, <2>1, <2>2 DEF Reconcile
<1>5. ASSUME NEW n \in Nodes, give_up(n) PROVE IInv'
    BY <1>5, <1>0, QuietStep DEF give_up, Conclude
<1>6. ASSUME NEW n \in Nodes, crash(n) PROVE IInv'
    BY <1>6, <1>0, QuietStep DEF crash
<1>7. ASSUME NEW n \in Nodes, NEW m \in net, Handle(n, m) PROVE IInv'
    <2>1. CASE handle_earner_signed(n, m)
        BY <2>1, EarnerSignedStep
    <2>2. CASE handle_payer_cosigned(n, m)
        BY <2>2, PayerCosignedStep
    <2>3. CASE handle_reconcile_request(n, m)
        <3>1. /\ UNCHANGED <<entry, ledger, held, evidence>>
              /\ sending' = sending
            BY <2>3 DEF handle_reconcile_request
        <3> DEFINE after == {id \in Statement(n, m.from) :
                                LexAfter(Position(id), m.since)}
                   Reply(page, cursor) ==
                       [type |-> "response", to |-> m.from, rid |-> m.rid,
                        page |-> {<<id, ledger[n][id]>> : id \in page},
                        cursor |-> cursor,
                        more |-> Cardinality(after) > PageSize]
        <3>2. PICK page \in Pages(after) :
                  \E cursor \in Cursors(page, m.since) : Take(m, {Reply(page, cursor)})
            BY <2>3 DEF handle_reconcile_request
        <3>3. \A x \in net' : x \in net \/ x.type = "response"
            <4>1. PICK cursor \in Cursors(page, m.since) : Take(m, {Reply(page, cursor)})
                BY <3>2
            <4>2. Reply(page, cursor).type = "response"
                OBVIOUS
            <4> HIDE DEF Reply
            <4>3. \A x \in net' : x \in net \/ x \in {Reply(page, cursor)}
                BY <4>1, TakeSends
            <4> QED
                BY <4>2, <4>3
        <3> QED
            BY <3>1, <3>3, <1>0, QuietStep
    <2>4. CASE handle_reconcile_response(n, m)
        <3>1. /\ UNCHANGED <<entry, ledger, held, evidence>>
              /\ sending' = sending
            BY <2>4 DEF handle_reconcile_response
        <3>2. \A x \in net' : x \in net
            BY <2>4, TakeSends DEF handle_reconcile_response
        <3> QED
            BY <3>1, <3>2, <1>0, QuietStep
    <2> QED BY <1>7, <2>1, <2>2, <2>3, <2>4 DEF Handle
<1>8. ASSUME NEW n \in Callers, NEW p \in Nodes, request_reconciliation(n, p)
      PROVE  IInv'
    BY <1>8, <1>0, QuietStep DEF request_reconciliation, Request
<1>9. ASSUME NEW m \in net, lose(m) PROVE IInv'
    BY <1>9, <1>0, QuietStep DEF lose
<1>10. CASE UNCHANGED vars
    BY <1>10, <1>0, QuietStep DEF vars
<1> QED
    BY <1>1, <1>2, <1>3, <1>4, <1>5, <1>6, <1>7, <1>8, <1>9, <1>10 DEF Next

(* The invariant holds in every state.                                      *)
THEOREM BooksInductive == Spec => []IInv
BY InitHolds, NextStep, PTL DEF Spec

(* No node's ledger shows an entry as earned that its payer's ledger does   *)
(* not show as paid, for any number of nodes, entries and faults: the echo  *)
(* of _handle_earner_signed follows sign_as_payer.                          *)
THEOREM EarnerFollowsPayer == Spec => []EarnerNeverAhead
<1>1. IInv => EarnerNeverAhead
    BY DEF IInv
<1> QED
    BY <1>1, BooksInductive, PTL

(* Under an audit policy every payment is for work the payer audited from   *)
(* its own stores, which never lose what the audit read.                    *)
THEOREM OnlyAuditedWorkIsPaid == Spec => []PaidWorkIsAudited
<1>1. IInv => PaidWorkIsAudited
    BY DEF IInv
<1> QED
    BY <1>1, BooksInductive, PTL

----------------------------------------------------------------------------
(* Balances, counts and types.                                              *)

(* Entries are finitely many, and so is every set of them.                  *)
LEMMA FewEntries == \A T \in SUBSET Ids : IsFiniteSet(T) /\ Cardinality(T) \in Nat
<1>1. IsFiniteSet(Ids)
    BY FS_Interval DEF Ids
<1> QED
    BY <1>1, FS_Subset, FS_CardinalityType

LEMMA CreditsAreNumbers ==
    ASSUME entry \in [Ids -> Entry], NEW T \in SUBSET Ids, \A id \in T : Created(id)
    PROVE  Credits(T) \in Int
<1> DEFINE f == [id \in T |-> Asked[entry[id].env]]
<1>1. f \in [T -> Int]
    BY DEF Created, Entry
<1>2. DOMAIN f = T
    OBVIOUS
<1> HIDE DEF f
<1>3. SumFunctionOnSet(f, T) \in Int
    BY <1>1, FewEntries, SumIsInt
<1> QED
    BY <1>2, <1>3 DEF f, Credits, SumFunction

LEMMA BalanceIsNumber ==
    ASSUME entry \in [Ids -> Entry], NEW l, NEW n, NEW p
    PROVE  get_balance(l, n, p) \in Int
<1>1. \A x, y : Credits(SettledBetween(l, n, x, y)) \in Int
    <2> TAKE x, y
    <2>1. /\ SettledBetween(l, n, x, y) \in SUBSET Ids
          /\ \A id \in SettledBetween(l, n, x, y) : Created(id)
        BY DEF SettledBetween
    <2> QED
        BY <2>1, CreditsAreNumbers
<1> QED
    BY <1>1 DEF get_balance

(* A fault is spent, never gained.                                          *)
BudgetSpent == \A f \in FaultKinds : budget[f] <= Faults[f]

(* While nothing is lost or cut off, what the payer has settled and the     *)
(* earner has not is on its way.                                            *)
Undisturbed == budget["lose"] = Faults["lose"] /\ budget["crash"] = Faults["crash"]

EchoUnderWay(id) ==
    \/ EarnerSettled(id)
    \/ sending[From(id)] = id
    \/ \E m \in net : m.type = "payer_cosigned" /\ m.id = id

EchoesArePending ==
    Undisturbed => \A id \in Ids : PayerSettled(id) => EchoUnderWay(id)

(* The successes recorded for p are the settled entries with p, without the *)
(* one that is saved and not finished.                                      *)
Counted(n, p) == SettledWith(n, p) \ {sending[n]}

SuccessesMatch ==
    \A n, p \in Nodes : n # p =>
        /\ good[n][p] <= Cardinality(Counted(n, p))
        /\ budget["crash"] = Faults["crash"] => good[n][p] = Cardinality(Counted(n, p))

(* A call that is under way has a peer.                                     *)
CallsHavePeers == \A n \in Nodes : rec[n].pc # "idle" => rec[n].peer \in Nodes

JInv ==
    /\ IInv
    /\ TypeOK
    /\ CallsHavePeers
    /\ BudgetSpent
    /\ EchoesArePending
    /\ SuccessesMatch
    /\ CacheTells
    /\ LagIsExplained

LEMMA BudgetStep ==
    ASSUME TypeOK, BudgetSpent, NEW f \in FaultKinds, Spend(f) \/ budget' = budget
    PROVE  /\ budget' \in [FaultKinds -> Nat]
           /\ BudgetSpent'
           /\ \A g \in FaultKinds : budget'[g] <= budget[g]
<1>1. budget \in [FaultKinds -> Nat] /\ \A g \in FaultKinds : Faults[g] \in Nat
    BY DEF TypeOK
<1>2. budget' \in [FaultKinds -> Nat] /\ \A g \in FaultKinds : budget'[g] <= budget[g]
    <2>1. CASE budget' = budget
        BY <2>1, <1>1
    <2>2. CASE Spend(f)
        BY <2>2, <1>1 DEF Spend
    <2> QED BY <2>1, <2>2
<1> QED
    BY <1>1, <1>2 DEF BudgetSpent

(* A fault that is still unspent was unspent before the step.               *)
LEMMA UnspentBefore ==
    ASSUME TypeOK, BudgetSpent, NEW f \in FaultKinds,
           budget' \in [FaultKinds -> Nat], budget'[f] <= budget[f]
    PROVE  budget'[f] = Faults[f] => budget[f] = Faults[f]
<1>1. budget[f] \in Nat /\ budget'[f] \in Nat /\ Faults[f] \in Nat /\ budget[f] <= Faults[f]
    BY DEF TypeOK, BudgetSpent
<1> QED
    BY <1>1

LEMMA Kinds == /\ "lose" \in FaultKinds /\ "crash" \in FaultKinds /\ "twice" \in FaultKinds
               /\ "misroute" \in FaultKinds /\ "retry" \in FaultKinds
               /\ "timeout" \in FaultKinds /\ "tie" \in FaultKinds
BY DEF FaultKinds

(* Two ledgers that show the same settled entries show the same balance.    *)
LEMMA SameBalance ==
    ASSUME NEW n, NEW p,
           \A x, y : SettledBetween(ledger, n, x, y)' = SettledBetween(ledger, n, x, y),
           \A id \in Ids : Created(id) => entry'[id] = entry[id]
    PROVE  get_balance(ledger, n, p)' = get_balance(ledger, n, p)
<1>1. ASSUME NEW x, NEW y
      PROVE  Credits(SettledBetween(ledger, n, x, y))' = Credits(SettledBetween(ledger, n, x, y))
    <2> DEFINE T == SettledBetween(ledger, n, x, y)
    <2>1. T' = T
        OBVIOUS
    <2>2. \A id \in T : entry'[id] = entry[id]
        BY DEF SettledBetween
    <2> HIDE DEF T
    <2>3. [id \in T |-> Asked[entry[id].env]]' = [id \in T |-> Asked[entry[id].env]]
        BY <2>1, <2>2
    <2> QED
        BY <2>1, <2>3 DEF Credits, T
<1> QED
    BY <1>1 DEF get_balance

(* A step that leaves the books, the counts and the receive threads alone   *)
(* and loses no echo, unless it spends the fault for it.                    *)
LEMMA QuietBooks ==
    ASSUME JInv, IInv', TypeOK', CallsHavePeers', BudgetSpent',
           UNCHANGED <<entry, ledger, cache, behind, good, sending>>,
           \A f \in FaultKinds : budget'[f] <= budget[f],
           \A m \in net' : m.type = "payer_cosigned" => m \in net,
           Undisturbed' => \A m \in net : m.type = "payer_cosigned" => m \in net'
    PROVE  JInv'
<1>0. /\ entry' = entry /\ ledger' = ledger /\ cache' = cache /\ behind' = behind
      /\ good' = good /\ sending' = sending
    OBVIOUS
<1>1. \A id : Created(id)' = Created(id) /\ From(id)' = From(id) /\ To(id)' = To(id)
    BY <1>0 DEF Created, From, To
<1>3. Undisturbed' => Undisturbed
    BY UnspentBefore, Kinds DEF JInv, Undisturbed, TypeOK
<1>4. EchoesArePending'
    <2> SUFFICES ASSUME Undisturbed', NEW id \in Ids, PayerSettled(id)'
                 PROVE  EchoUnderWay(id)'
        BY DEF EchoesArePending
    <2>1. PayerSettled(id)
        BY <1>0, <1>1 DEF PayerSettled
    <2>2. EchoUnderWay(id)
        BY <2>1, <1>3 DEF JInv, EchoesArePending
    <2> QED
        BY <2>2, <1>0, <1>1 DEF EchoUnderWay, EarnerSettled
<1>5. \A n, p : Counted(n, p)' = Counted(n, p)
    BY <1>0, <1>1 DEF Counted, SettledWith, Statement
<1>6. SuccessesMatch'
    <2>1. budget'["crash"] = Faults["crash"] => budget["crash"] = Faults["crash"]
        BY UnspentBefore, Kinds DEF JInv, TypeOK
    <2> QED
        BY <2>1, <1>0, <1>5 DEF JInv, SuccessesMatch
<1>7. \A n, x, y : SettledBetween(ledger, n, x, y)' = SettledBetween(ledger, n, x, y)
    BY <1>0, <1>1 DEF SettledBetween
<1>8. CacheTells'
    <2>1. \A n, p : get_balance(ledger, n, p)' = get_balance(ledger, n, p)
        BY <1>0, <1>7, SameBalance
    <2> QED
        BY <2>1, <1>0 DEF JInv, CacheTells
<1>9. LagIsExplained'
    <2>1. \A n : Peer(n, sending[n])' = Peer(n, sending[n])
        BY <1>0 DEF Peer, From, To
    <2>2. budget["crash"] < Faults["crash"] => budget'["crash"] < Faults["crash"]
        <3>1. budget["crash"] \in Nat /\ budget'["crash"] \in Nat /\ Faults["crash"] \in Nat
              /\ budget'["crash"] <= budget["crash"]
            BY Kinds DEF JInv, TypeOK
        <3> QED BY <3>1
    <2> QED
        BY <2>1, <2>2, <1>0 DEF JInv, LagIsExplained
<1> QED
    BY <1>4, <1>6, <1>8, <1>9 DEF JInv

LEMMA LearnStep ==
    ASSUME JInv, IInv', NEW n \in Nodes, NEW v \in Envelopes, learn_completion(n, v)
    PROVE  JInv'
<1>1. /\ completion' = [completion EXCEPT ![n][WorkOf[v]] = v]
      /\ UNCHANGED <<entry, ledger, cache, behind, good, bad, held, evidence, sending,
                     rec, result, asked, net, budget>>
    BY DEF learn_completion, books, calls
<1>2. TypeOK
    BY DEF JInv
<1>3. completion' \in [Nodes -> [Works -> Envelopes \cup {NoEnvelope}]]
    BY <1>1, <1>2 DEF TypeOK
<1>4. TypeOK'
    BY <1>1, <1>2, <1>3 DEF TypeOK
<1>5. BudgetSpent' /\ \A f \in FaultKinds : budget'[f] <= budget[f]
    BY <1>1, <1>2, BudgetStep, Kinds DEF JInv
<1>6. CallsHavePeers'
    BY <1>1 DEF JInv, CallsHavePeers
<1> QED
    BY <1>1, <1>4, <1>5, <1>6, QuietBooks

LEMMA StatementIsIds == \A n, p : Statement(n, p) \in SUBSET Ids
BY DEF Statement

LEMMA RequestTyped ==
    ASSUME NEW n \in Nodes, NEW p \in Nodes, NEW rid \in 1 .. MaxRequests, NEW since \in Cursor
    PROVE  Request(n, p, rid, since) \in Message /\ Request(n, p, rid, since).type = "request"
BY DEF Request, Message

LEMMA AskStep ==
    ASSUME JInv, IInv', NEW n \in Nodes, NEW p \in Nodes, request_reconciliation(n, p)
    PROVE  JInv'
<1> DEFINE r == [Idle EXCEPT !.pc = "wait", !.peer = p, !.rid = asked + 1,
                             !.start = Statement(p, n)]
           m == Request(n, p, asked + 1, <<0, NoId>>)
<1>1. /\ asked < MaxRequests /\ asked' = asked + 1
      /\ rec' = [rec EXCEPT ![n] = r]
      /\ net' = net \cup {m}
      /\ UNCHANGED <<entry, ledger, cache, behind, good, bad, completion, held, evidence,
                     sending, result, budget>>
    BY DEF request_reconciliation, books, stores
<1>2. TypeOK
    BY DEF JInv
<1>3. asked + 1 \in 1 .. MaxRequests /\ asked + 1 \in 0 .. MaxRequests
    BY <1>1, <1>2 DEF TypeOK
<1>4. <<0, NoId>> \in Cursor
    BY DEF Cursor
<1>5. Idle \in Calls
    BY <1>4 DEF Idle, Calls
<1>13. r \in Calls
    BY <1>3, <1>5, StatementIsIds DEF Calls
<1>6. m \in Message /\ m.type = "request"
    BY <1>3, <1>4, RequestTyped
<1>11. r.peer \in Nodes
    BY <1>5 DEF Calls
<1> HIDE DEF r, m
<1>7. rec' \in [Nodes -> Calls] /\ asked' \in 0 .. MaxRequests
    BY <1>1, <1>2, <1>3, <1>13 DEF TypeOK
<1>8. \A x \in net' : x \in Message
    BY <1>1, <1>2, <1>6 DEF TypeOK
<1>9. TypeOK'
    BY <1>1, <1>2, <1>7, <1>8 DEF TypeOK
<1>10. BudgetSpent' /\ \A f \in FaultKinds : budget'[f] <= budget[f]
    BY <1>1, <1>2, BudgetStep, Kinds DEF JInv
<1>12. CallsHavePeers'
    BY <1>1, <1>2, <1>11 DEF JInv, TypeOK, CallsHavePeers
<1> QED
    BY <1>1, <1>6, <1>9, <1>10, <1>12, QuietBooks

LEMMA NextPageStep ==
    ASSUME JInv, IInv', NEW n \in Nodes, next_page(n)
    PROVE  JInv'
<1> DEFINE r == rec[n]
           m == Request(n, r.peer, asked + 1, r.cursor)
<1>1. /\ asked < MaxRequests /\ asked' = asked + 1
      /\ r.pages + 1 < MaxPages /\ r.pc = "ready"
      /\ rec' = [rec EXCEPT ![n].pc = "wait", ![n].rid = asked + 1,
                            ![n].seen = @ \cup r.page, ![n].pages = @ + 1]
      /\ net' = net \cup {m}
      /\ UNCHANGED <<entry, ledger, cache, behind, good, bad, completion, held, evidence,
                     sending, result, budget>>
    BY DEF next_page, books, stores
<1>2. TypeOK
    BY DEF JInv
<1>3. asked + 1 \in 1 .. MaxRequests /\ asked + 1 \in 0 .. MaxRequests
    BY <1>1, <1>2 DEF TypeOK
<1>4. r \in Calls /\ r.cursor \in Cursor /\ rec \in [Nodes -> Calls]
    BY <1>2 DEF TypeOK, Calls
<1>5. /\ r.pages \in 0 .. MaxPages /\ r.pages + 1 \in 0 .. MaxPages
      /\ r.seen \cup r.page \in SUBSET View
    BY <1>1, <1>4 DEF Calls
<1>11. r.peer \in Nodes
    BY <1>1 DEF JInv, CallsHavePeers
<1>6. m \in Message /\ m.type = "request"
    BY <1>3, <1>4, <1>11, RequestTyped
<1> HIDE DEF m
<1>7. rec' \in [Nodes -> Calls]
    BY <1>1, <1>3, <1>4, <1>5 DEF Calls
<1>8. \A x \in net' : x \in Message
    BY <1>1, <1>2, <1>6 DEF TypeOK
<1>9. TypeOK'
    BY <1>1, <1>2, <1>3, <1>7, <1>8 DEF TypeOK
<1>10. BudgetSpent' /\ \A f \in FaultKinds : budget'[f] <= budget[f]
    BY <1>1, <1>2, BudgetStep, Kinds DEF JInv
<1>12. CallsHavePeers'
    BY <1>1, <1>4, <1>11 DEF JInv, CallsHavePeers
<1> QED
    BY <1>1, <1>6, <1>9, <1>10, <1>12, QuietBooks
(* The end of a call, with what was received.                               *)
LEMMA ConcludeStep ==
    ASSUME JInv, IInv', NEW n \in Nodes, NEW seen \in SUBSET View,
           NEW error \in {"none", "timeout", "page_cap_exceeded"},
           rec[n].peer \in Nodes, Conclude(n, seen, error),
           budget' = budget \/ Spend("timeout")
    PROVE  JInv'
<1> DEFINE p == rec[n].peer
           ids == {x[1] : x \in seen}
           disputed == Disputed(n, seen)
           done == [peer |-> p, error |-> error, disputed |-> disputed,
                    agreed |-> {id \in ids : ledger[n][id] # "none"} \ disputed,
                    missing_ours |-> {id \in ids : ledger[n][id] = "none"},
                    missing_theirs |-> Statement(n, p) \ ids,
                    start |-> rec[n].start]
<1>1. /\ result' = [result EXCEPT ![n] = done]
      /\ bad' = [bad EXCEPT ![n][p] = @ + Cardinality(disputed)]
      /\ rec' = [rec EXCEPT ![n] = Idle]
      /\ UNCHANGED <<entry, ledger, cache, behind, good, completion, held, evidence,
                     sending, asked, net>>
    BY DEF Conclude, books, stores
<1>2. TypeOK
    BY DEF JInv
<1>3. ids \in SUBSET Ids /\ disputed \in SUBSET Ids
    BY DEF View, Disputed
<1>4. Cardinality(disputed) \in Nat
    BY <1>3, FewEntries
<1>5. rec[n] \in Calls /\ rec[n].start \in SUBSET Ids
    BY <1>2 DEF TypeOK, Calls
<1> HIDE DEF ids, disputed
<1>6. done \in Results
    BY <1>3, <1>5, StatementIsIds DEF Results
<1> HIDE DEF done
<1>7. result' \in [Nodes -> Results]
    BY <1>1, <1>2, <1>6 DEF TypeOK
<1>8. bad' \in [Nodes -> [Nodes -> Nat]]
    BY <1>1, <1>2, <1>4 DEF TypeOK
<1>9. Idle \in Calls /\ Idle.pc = "idle"
    BY DEF Idle, Calls, Cursor
<1>10. rec' \in [Nodes -> Calls]
    BY <1>1, <1>2, <1>9 DEF TypeOK
<1>11. /\ budget' \in [FaultKinds -> Nat] /\ BudgetSpent'
       /\ \A f \in FaultKinds : budget'[f] <= budget[f]
    BY <1>2, BudgetStep, Kinds DEF JInv
<1>12. TypeOK'
    BY <1>1, <1>2, <1>7, <1>8, <1>10, <1>11 DEF TypeOK
<1>13. CallsHavePeers'
    BY <1>1, <1>2, <1>9 DEF JInv, TypeOK, CallsHavePeers
<1> QED
    BY <1>1, <1>11, <1>12, <1>13, QuietBooks

LEMMA LastPageStep ==
    ASSUME JInv, IInv', NEW n \in Nodes, last_page(n)
    PROVE  JInv'
<1>1. rec[n] \in Calls
    BY DEF JInv, TypeOK
<1>2. rec[n].seen \cup rec[n].page \in SUBSET View
    BY <1>1 DEF Calls
<1>3. rec[n].peer \in Nodes
    BY DEF JInv, CallsHavePeers, last_page
<1> QED
    BY <1>2, <1>3, ConcludeStep DEF last_page

LEMMA GiveUpStep ==
    ASSUME JInv, IInv', NEW n \in Nodes, give_up(n)
    PROVE  JInv'
<1>1. rec[n] \in Calls
    BY DEF JInv, TypeOK
<1>2. rec[n].seen \in SUBSET View
    BY <1>1 DEF Calls
<1>3. rec[n].peer \in Nodes
    BY DEF JInv, CallsHavePeers, give_up
<1> QED
    BY <1>2, <1>3, ConcludeStep DEF give_up

LEMMA TakeKeeps ==
    ASSUME TypeOK, BudgetSpent, NEW m, NEW out, Take(m, out)
    PROVE  /\ \A x \in net' : x \in net \/ x \in out
           /\ \A x \in net : x # m => x \in net'
           /\ \A x \in out : x \in net'
           /\ budget' \in [FaultKinds -> Nat] /\ BudgetSpent'
           /\ \A f \in FaultKinds : budget'[f] <= budget[f]
<1>1. budget' = budget \/ Spend("twice")
    BY DEF Take
<1>2. /\ budget' \in [FaultKinds -> Nat] /\ BudgetSpent'
      /\ \A f \in FaultKinds : budget'[f] <= budget[f]
    BY <1>1, BudgetStep, Kinds
<1> QED
    BY <1>2 DEF Take

LEMMA LoseStep ==
    ASSUME JInv, IInv', NEW m \in net, lose(m)
    PROVE  JInv'
<1>1. /\ Spend("lose") /\ net' = net \ {m}
      /\ UNCHANGED <<entry, ledger, cache, behind, good, bad, completion, held, evidence,
                     sending, rec, result, asked>>
    BY DEF lose, books, stores, calls
<1>2. TypeOK
    BY DEF JInv
<1>3. /\ budget' \in [FaultKinds -> Nat] /\ BudgetSpent'
      /\ \A f \in FaultKinds : budget'[f] <= budget[f]
    BY <1>1, <1>2, BudgetStep, Kinds DEF JInv
<1>4. TypeOK'
    BY <1>1, <1>2, <1>3 DEF TypeOK
<1>5. CallsHavePeers'
    BY <1>1 DEF JInv, CallsHavePeers
<1>6. ~Undisturbed'
    <2>1. budget["lose"] \in Nat /\ Faults["lose"] \in Nat /\ budget["lose"] <= Faults["lose"]
        BY <1>2, Kinds DEF JInv, TypeOK, BudgetSpent
    <2>2. budget'["lose"] = budget["lose"] - 1
        BY <1>1, <1>2, Kinds DEF TypeOK, Spend
    <2> QED
        BY <2>1, <2>2 DEF Undisturbed
<1> QED
    BY <1>1, <1>3, <1>4, <1>5, <1>6, QuietBooks

LEMMA RequestStep ==
    ASSUME JInv, IInv', NEW n \in Nodes, NEW m \in net, handle_reconcile_request(n, m)
    PROVE  JInv'
<1> DEFINE after == {id \in Statement(n, m.from) : LexAfter(Position(id), m.since)}
           Reply(page, cursor) ==
               [type |-> "response", to |-> m.from, rid |-> m.rid,
                page |-> {<<id, ledger[n][id]>> : id \in page},
                cursor |-> cursor, more |-> Cardinality(after) > PageSize]
<1>1. /\ m.type = "request"
      /\ UNCHANGED <<entry, ledger, cache, behind, good, bad, completion, held, evidence,
                     sending, rec, result, asked>>
    BY DEF handle_reconcile_request, books, stores, calls
<1>2. TypeOK /\ BudgetSpent
    BY DEF JInv
<1>3. m \in [type : {"request"}, to : Nodes, from : Nodes, rid : 1 .. MaxRequests,
              since : Cursor]
    BY <1>1, <1>2 DEF TypeOK, Message
<1>4. PICK page \in Pages(after) :
          \E cursor \in Cursors(page, m.since) : Take(m, {Reply(page, cursor)})
    BY DEF handle_reconcile_request
<1>5. PICK cursor \in Cursors(page, m.since) : Take(m, {Reply(page, cursor)})
    BY <1>4
<1>6. page \in SUBSET Ids /\ \A id \in page : ledger[n][id] \in {"earner", "both"}
    BY <1>2, <1>4 DEF Pages, Statement, TypeOK, Signatures
<1>7. cursor \in Cursor
    <2>1. \A id \in Ids : Position(id) \in Cursor
        BY <1>2 DEF TypeOK, Entry, Position, Cursor, Ids
    <2>2. cursor = m.since \/ \E x \in page : cursor = Position(x)
        BY <1>5 DEF Cursors
    <2> QED
        BY <2>1, <2>2, <1>3, <1>6
<1>8. {<<id, ledger[n][id]>> : id \in page} \in SUBSET View
    BY <1>6 DEF View
<1>9. Reply(page, cursor) \in Message /\ Reply(page, cursor).type = "response"
    <2>1. (Cardinality(after) > PageSize) \in BOOLEAN
        OBVIOUS
    <2> HIDE DEF after
    <2> QED
        BY <2>1, <1>3, <1>7, <1>8 DEF Message
<1> HIDE DEF Reply
<1>10. /\ \A x \in net' : x \in net \/ x = Reply(page, cursor)
       /\ \A x \in net : x # m => x \in net'
       /\ budget' \in [FaultKinds -> Nat] /\ BudgetSpent'
       /\ \A f \in FaultKinds : budget'[f] <= budget[f]
    BY <1>2, <1>5, TakeKeeps
<1>11. TypeOK'
    BY <1>1, <1>2, <1>9, <1>10 DEF TypeOK
<1>12. CallsHavePeers'
    BY <1>1 DEF JInv, CallsHavePeers
<1> QED
    BY <1>1, <1>9, <1>10, <1>11, <1>12, QuietBooks

LEMMA ResponseStep ==
    ASSUME JInv, IInv', NEW n \in Nodes, NEW m \in net, handle_reconcile_response(n, m)
    PROVE  JInv'
<1>1. /\ m.type = "response"
      /\ UNCHANGED <<entry, ledger, cache, behind, good, bad, completion, held, evidence,
                     sending, result, asked>>
    BY DEF handle_reconcile_response, books, stores
<1>2. TypeOK /\ BudgetSpent
    BY DEF JInv
<1>3. m \in [type : {"response"}, to : Nodes, rid : 1 .. MaxRequests,
              page : SUBSET View, cursor : Cursor, more : BOOLEAN]
    BY <1>1, <1>2 DEF TypeOK, Message
<1>4. rec' \in [Nodes -> Calls] /\ CallsHavePeers'
    <2>1. CASE rec' = rec
        BY <2>1, <1>2 DEF JInv, TypeOK, CallsHavePeers
    <2>2. CASE /\ rec[n].pc # "idle"
               /\ rec' = [rec EXCEPT ![n].pc = "ready", ![n].page = m.page,
                                     ![n].cursor = m.cursor, ![n].more = m.more]
        <3>1. rec \in [Nodes -> Calls] /\ rec[n].peer \in Nodes
            BY <2>2, <1>2 DEF JInv, TypeOK, CallsHavePeers
        <3>2. rec' \in [Nodes -> Calls]
            <4>1. m.page \in SUBSET View /\ m.cursor \in Cursor /\ m.more \in BOOLEAN
                BY <1>3
            <4> DEFINE r1 == [rec[n] EXCEPT !.pc = "ready"]
                       r2 == [r1 EXCEPT !.page = m.page]
                       r3 == [r2 EXCEPT !.cursor = m.cursor]
                       r4 == [r3 EXCEPT !.more = m.more]
            <4>2. r1 \in Calls
                BY <3>1 DEF Calls
            <4> HIDE DEF r1
            <4>3. r2 \in Calls
                BY <4>1, <4>2 DEF Calls
            <4> HIDE DEF r2
            <4>4. r3 \in Calls
                BY <4>1, <4>3 DEF Calls
            <4> HIDE DEF r3
            <4>5. r4 \in Calls
                BY <4>1, <4>4 DEF Calls
            <4>6. rec' = [rec EXCEPT ![n] = r4]
                BY <2>2 DEF r1, r2, r3
            <4> HIDE DEF r4
            <4> QED
                BY <3>1, <4>5, <4>6
        <3>3. \A k \in Nodes : k # n => rec'[k] = rec[k]
            BY <2>2, <3>1
        <3>4. rec'[n].peer = rec[n].peer
            BY <2>2, <3>1 DEF Calls
        <3> QED
            BY <3>1, <3>2, <3>3, <3>4 DEF JInv, CallsHavePeers
    <2> QED
        BY <2>1, <2>2 DEF handle_reconcile_response
<1>5. /\ \A x \in net' : x \in net
      /\ \A x \in net : x # m => x \in net'
      /\ budget' \in [FaultKinds -> Nat] /\ BudgetSpent'
      /\ \A f \in FaultKinds : budget'[f] <= budget[f]
    BY <1>2, TakeKeeps DEF handle_reconcile_response
<1>6. TypeOK'
    BY <1>1, <1>2, <1>4, <1>5 DEF TypeOK
<1> QED
    BY <1>1, <1>4, <1>5, <1>6, QuietBooks
LEMMA CountedAreIds ==
    \A n, p : Counted(n, p) \in SUBSET Ids /\ SettledWith(n, p) \in SUBSET Ids
BY DEF Counted, SettledWith, Statement

(* A restart forgets what was saved and not finished: what is settled       *)
(* stays, and a row may be left behind.                                     *)
LEMMA CrashStep ==
    ASSUME JInv, IInv', NEW n \in Nodes, crash(n)
    PROVE  JInv'
<1>1. /\ Spend("crash")
      /\ sending' = [sending EXCEPT ![n] = NoId]
      /\ rec' = [rec EXCEPT ![n] = Idle]
      /\ entry' = entry /\ ledger' = ledger /\ cache' = cache /\ behind' = behind
      /\ good' = good
      /\ UNCHANGED <<bad, completion, held, evidence, result, asked, net>>
    BY DEF crash, books, stores
<1>2. TypeOK
    BY DEF JInv
<1>3. /\ budget' \in [FaultKinds -> Nat] /\ BudgetSpent'
      /\ \A f \in FaultKinds : budget'[f] <= budget[f]
    BY <1>1, <1>2, BudgetStep, Kinds DEF JInv
<1>4. Idle \in Calls /\ Idle.pc = "idle"
    BY DEF Idle, Calls, Cursor
<1>5. TypeOK'
    <2>1. rec' \in [Nodes -> Calls] /\ sending' \in [Nodes -> Ids \cup {NoId}]
        BY <1>1, <1>2, <1>4 DEF TypeOK
    <2> QED
        BY <1>1, <1>2, <1>3, <2>1 DEF TypeOK
<1>6. CallsHavePeers'
    BY <1>1, <1>2, <1>4 DEF JInv, TypeOK, CallsHavePeers
<1>7. budget'["crash"] # Faults["crash"] /\ budget'["crash"] < Faults["crash"]
    <2>1. budget["crash"] \in Nat /\ Faults["crash"] \in Nat /\ budget["crash"] <= Faults["crash"]
        BY <1>2, Kinds DEF JInv, TypeOK, BudgetSpent
    <2>2. budget'["crash"] = budget["crash"] - 1
        BY <1>1, <1>2, Kinds DEF TypeOK, Spend
    <2> QED
        BY <2>1, <2>2
<1>8. \A id : Created(id)' = Created(id) /\ From(id)' = From(id) /\ To(id)' = To(id)
    BY <1>1 DEF Created, From, To
<1>9. EchoesArePending' /\ LagIsExplained'
    BY <1>7 DEF EchoesArePending, Undisturbed, LagIsExplained
<1>10. SuccessesMatch'
    <2> SUFFICES ASSUME NEW k \in Nodes, NEW p \in Nodes, k # p
                 PROVE  good[k][p] <= Cardinality(Counted(k, p)')
        BY <1>1, <1>7 DEF SuccessesMatch
    <2>1. SettledWith(k, p)' = SettledWith(k, p)
        BY <1>1, <1>8 DEF SettledWith, Statement
    <2>2. \A x \in Ids : x # NoId
        BY IdsPositive
    <2>3. sending'[k] = sending[k] \/ sending'[k] = NoId
        BY <1>1, <1>2 DEF TypeOK
    <2>4. Counted(k, p) \subseteq Counted(k, p)' /\ Counted(k, p)' \in SUBSET Ids
        BY <2>1, <2>2, <2>3, CountedAreIds DEF Counted
    <2>5. /\ Cardinality(Counted(k, p)) <= Cardinality(Counted(k, p)')
          /\ Cardinality(Counted(k, p)) \in Nat /\ Cardinality(Counted(k, p)') \in Nat
        BY <2>4, FewEntries, FS_Subset, CountedAreIds
    <2>6. good[k][p] <= Cardinality(Counted(k, p)) /\ good[k][p] \in Nat
        BY <1>2 DEF JInv, SuccessesMatch, TypeOK
    <2> QED
        BY <2>5, <2>6
<1>11. CacheTells'
    <2>1. \A k, x, y : SettledBetween(ledger, k, x, y)' = SettledBetween(ledger, k, x, y)
        BY <1>1, <1>8 DEF SettledBetween
    <2>2. \A k, p : get_balance(ledger, k, p)' = get_balance(ledger, k, p)
        BY <1>1, <2>1, SameBalance
    <2> QED
        BY <2>2, <1>1 DEF JInv, CacheTells
<1> QED
    BY <1>3, <1>5, <1>6, <1>9, <1>10, <1>11 DEF JInv

(* A new entry is settled nowhere: no balance and no count sees it.         *)
LEMMA SubmitBooks ==
    ASSUME JInv, IInv', NEW v \in Envelopes, NEW id \in Ids, NEW t \in 1 .. MaxTime,
           NEW d \in Nodes, NEW ship \in Shipments,
           submit_earned(v, id, t, d, ship)
    PROVE  JInv'
<1> DEFINE e == EarnerOf[v]
           m == [type |-> "earner_signed", to |-> d, from |-> e, id |-> id, ship |-> ship]
<1>0. /\ ~Created(id)
      /\ entry' = [entry EXCEPT ![id] = [env |-> v, at |-> t]]
      /\ ledger' = [ledger EXCEPT ![e][id] = "earner"]
      /\ net' = net \cup {m}
      /\ cache' = cache /\ behind' = behind /\ good' = good
      /\ sending' = sending /\ rec' = rec
      /\ UNCHANGED <<bad, completion, held, evidence, result, asked>>
    BY DEF submit_earned, stores, calls
<1>1. e \in Nodes /\ v # NoEnvelope /\ TypeOK /\ IInv
    BY DEF JInv
<1>2. \E f \in FaultKinds : Spend(f) \/ budget' = budget
    BY Kinds DEF submit_earned
<1>3. /\ budget' \in [FaultKinds -> Nat] /\ BudgetSpent'
      /\ \A f \in FaultKinds : budget'[f] <= budget[f]
    BY <1>1, <1>2, BudgetStep DEF JInv
<1>4. m \in Message /\ m.type = "earner_signed"
    BY <1>1 DEF Message
<1> HIDE DEF m
<1>5. TypeOK'
    <2>1. entry' \in [Ids -> Entry]
        BY <1>0, <1>1 DEF TypeOK, Entry
    <2>2. ledger' \in [Nodes -> [Ids -> Signatures]]
        BY <1>0, <1>1 DEF TypeOK, Signatures
    <2>3. \A x \in net' : x \in Message
        BY <1>0, <1>1, <1>4 DEF TypeOK
    <2> QED
        BY <1>0, <1>1, <1>3, <2>1, <2>2, <2>3 DEF TypeOK
<1>6. CallsHavePeers'
    BY <1>0 DEF JInv, CallsHavePeers
<1>7. \A x \in Ids : Created(x) => x # id
    BY <1>0
<1>8. \A x \in Ids : x # id =>
          /\ entry'[x] = entry[x]
          /\ Created(x)' = Created(x) /\ From(x)' = From(x) /\ To(x)' = To(x)
    BY <1>0, <1>1 DEF TypeOK, Created, From, To
<1>9. \A n \in Nodes, x \in Ids : x # id => ledger'[n][x] = ledger[n][x]
    BY <1>0, <1>1 DEF TypeOK
<1>10. \A n \in Nodes : ledger[n][id] = "none" /\ ledger'[n][id] # "both"
    BY <1>0, <1>1 DEF TypeOK, IInv, RowsAreCreated
<1>12. Undisturbed' => Undisturbed
    BY <1>1, <1>3, UnspentBefore, Kinds DEF JInv, Undisturbed
<1>13. EchoesArePending'
    <2> SUFFICES ASSUME Undisturbed', NEW x \in Ids, PayerSettled(x)'
                 PROVE  EchoUnderWay(x)'
        BY DEF EchoesArePending
    <2>1. x # id
        <3> SUFFICES ASSUME x = id PROVE FALSE
            OBVIOUS
        <3>1. From(id)' \in Nodes
            BY <1>0, <1>1 DEF From, TypeOK
        <3> QED
            BY <3>1, <1>10 DEF PayerSettled
    <2>2. Created(x) /\ From(x) \in Nodes /\ To(x) \in Nodes
        BY <2>1, <1>1, <1>8, Parties DEF PayerSettled, IInv
    <2>3. PayerSettled(x)
        BY <2>1, <2>2, <1>8, <1>9 DEF PayerSettled
    <2>4. EchoUnderWay(x)
        BY <2>3, <1>12 DEF JInv, EchoesArePending
    <2> QED
        BY <2>1, <2>2, <2>4, <1>0, <1>8, <1>9 DEF EchoUnderWay, EarnerSettled
<1>14. \A n \in Nodes : \A p : Counted(n, p)' = Counted(n, p)
    <2> TAKE n \in Nodes
    <2> TAKE p
    <2>1. \A x \in Ids : x \in SettledWith(n, p)' <=> x \in SettledWith(n, p)
        BY <1>8, <1>9, <1>10 DEF SettledWith, Statement
    <2>2. SettledWith(n, p)' = SettledWith(n, p)
        BY <2>1 DEF SettledWith, Statement
    <2> QED
        BY <2>2, <1>0 DEF Counted
<1>15. SuccessesMatch'
    <2>1. budget'["crash"] = Faults["crash"] => budget["crash"] = Faults["crash"]
        BY <1>1, <1>3, UnspentBefore, Kinds DEF JInv
    <2> QED
        BY <2>1, <1>0, <1>14 DEF JInv, SuccessesMatch
<1>16. CacheTells'
    <2>1. ASSUME NEW n \in Nodes, NEW x, NEW y
          PROVE  SettledBetween(ledger, n, x, y)' = SettledBetween(ledger, n, x, y)
        <3>1. \A k \in Ids : k \in SettledBetween(ledger, n, x, y)'
                               <=> k \in SettledBetween(ledger, n, x, y)
            BY <1>8, <1>9, <1>10 DEF SettledBetween
        <3> QED
            BY <3>1 DEF SettledBetween
    <2> SUFFICES ASSUME NEW n \in Nodes, NEW p \in Nodes, n # p,
                        p \notin behind[n]
                 PROVE  cache[n][p] = get_balance(ledger, n, p)'
        BY <1>0 DEF CacheTells
    <2>2. get_balance(ledger, n, p)' = get_balance(ledger, n, p)
        BY <1>7, <1>8, <2>1, SameBalance
    <2> QED
        BY <2>2 DEF JInv, CacheTells
<1>17. LagIsExplained'
    <2> SUFFICES ASSUME NEW n \in Nodes, NEW p \in Nodes, n # p, p \in behind[n],
                        ~(budget'["crash"] < Faults["crash"])
                 PROVE  sending[n] # NoId /\ Peer(n, sending[n])' = p
        BY <1>0 DEF LagIsExplained
    <2>1. ~(budget["crash"] < Faults["crash"])
        <3>1. budget["crash"] \in Nat /\ budget'["crash"] \in Nat /\ Faults["crash"] \in Nat
              /\ budget'["crash"] <= budget["crash"]
            BY <1>1, <1>3, Kinds DEF TypeOK
        <3> QED BY <3>1
    <2>2. sending[n] # NoId /\ Peer(n, sending[n]) = p
        BY <2>1 DEF JInv, LagIsExplained
    <2>3. sending[n] \in Ids /\ Created(sending[n])
        BY <2>2, <1>1 DEF IInv, EchoesAreSettled, SavedBy, PayerSettled, TypeOK
    <2>4. entry'[sending[n]] = entry[sending[n]]
        BY <2>3, <1>7, <1>8
    <2> QED
        BY <2>2, <2>4, <1>0 DEF Peer, From, To
<1> QED
    BY <1>3, <1>5, <1>6, <1>13, <1>15, <1>16, <1>17 DEF JInv

(* The saved entry counts, and its echo leaves if this is its payer.        *)
LEMMA FinishBooks ==
    ASSUME JInv, IInv', NEW n \in Nodes, finish(n)
    PROVE  JInv'
<1> DEFINE s == sending[n]
           q == Peer(n, s)
           reply == [type |-> "payer_cosigned", to |-> q, id |-> s]
           out == IF From(s) = n THEN {reply} ELSE {}
<1>0. /\ sending[n] # NoId /\ q \notin behind[n]
      /\ good' = [good EXCEPT ![n][q] = @ + 1]
      /\ net' = net \cup out
      /\ sending' = [sending EXCEPT ![n] = NoId]
      /\ entry' = entry /\ ledger' = ledger /\ cache' = cache /\ behind' = behind
      /\ rec' = rec /\ budget' = budget
      /\ UNCHANGED <<bad, completion, held, evidence, result, asked>>
    BY DEF finish, books, stores, calls
<1>1. TypeOK /\ BooksTyped /\ SuccessesMatch
    BY DEF JInv, IInv
<1>2. s \in Ids /\ SavedBy(n, s) /\ Created(s) /\ s # NoId
    BY <1>0, <1>1 DEF JInv, IInv, EchoesAreSettled, SavedBy, TypeOK, PayerSettled
<1>3. q \in Nodes /\ q # n /\ {From(s), To(s)} = {n, q}
    BY <1>1, <1>2, Parties DEF Peer, SavedBy
<1>4. reply \in Message /\ reply.type = "payer_cosigned" /\ reply.id = s /\ reply.to = q
    BY <1>2, <1>3 DEF Message
<1> HIDE DEF reply, q
<1>5. TypeOK'
    <2>1. good' \in [Nodes -> [Nodes -> Nat]]
        BY <1>0, <1>1, <1>3 DEF TypeOK
    <2>2. sending' \in [Nodes -> Ids \cup {NoId}]
        BY <1>0, <1>1 DEF TypeOK
    <2>3. \A x \in net' : x \in Message
        BY <1>0, <1>1, <1>4 DEF TypeOK
    <2> QED
        BY <1>0, <1>1, <2>1, <2>2, <2>3 DEF TypeOK
<1>6. CallsHavePeers' /\ BudgetSpent'
    BY <1>0 DEF JInv, CallsHavePeers, BudgetSpent
<1>7. \A x : Created(x)' = Created(x) /\ From(x)' = From(x) /\ To(x)' = To(x)
    BY <1>0 DEF Created, From, To
<1>9. EchoesArePending'
    <2> SUFFICES ASSUME Undisturbed', NEW x \in Ids, PayerSettled(x)'
                 PROVE  EchoUnderWay(x)'
        BY DEF EchoesArePending
    <2>1. PayerSettled(x) /\ Undisturbed
        BY <1>0, <1>7 DEF PayerSettled, Undisturbed
    <2>2. EchoUnderWay(x)
        BY <2>1 DEF JInv, EchoesArePending
    <2>3. CASE EarnerSettled(x)
        BY <2>3, <1>0, <1>7 DEF EchoUnderWay, EarnerSettled
    <2>4. CASE sending[From(x)] = x
        <3>1. CASE From(x) = n
            <4>1. reply \in net'
                BY <3>1, <2>4, <1>0
            <4> QED
                BY <4>1, <3>1, <2>4, <1>4 DEF EchoUnderWay
        <3>2. CASE From(x) # n
            <4>1. From(x) \in Nodes
                BY <2>1, <1>1, Parties DEF PayerSettled
            <4> QED
                BY <3>2, <4>1, <2>4, <1>0, <1>1, <1>7 DEF EchoUnderWay, TypeOK
        <3> QED BY <3>1, <3>2
    <2>5. CASE \E m \in net : m.type = "payer_cosigned" /\ m.id = x
        BY <2>5, <1>0 DEF EchoUnderWay
    <2> QED
        BY <2>2, <2>3, <2>4, <2>5 DEF EchoUnderWay
<1>10. SuccessesMatch'
    <2> SUFFICES ASSUME NEW k \in Nodes, NEW p \in Nodes, k # p
                 PROVE  /\ good'[k][p] <= Cardinality(Counted(k, p)')
                        /\ budget["crash"] = Faults["crash"]
                               => good'[k][p] = Cardinality(Counted(k, p)')
        BY <1>0 DEF SuccessesMatch
    <2>1. SettledWith(k, p)' = SettledWith(k, p) /\ NoId \notin SettledWith(k, p)
        BY <1>0, <1>7, IdsPositive DEF SettledWith, Statement
    <2>2. /\ good[k][p] <= Cardinality(Counted(k, p))
          /\ budget["crash"] = Faults["crash"] => good[k][p] = Cardinality(Counted(k, p))
          /\ good[k][p] \in Nat /\ Cardinality(Counted(k, p)) \in Nat
        BY <1>1, FewEntries, CountedAreIds DEF SuccessesMatch, TypeOK
    <2>3. CASE k = n /\ p = q
        <3>1. s \in SettledWith(n, q)
            BY <1>2, <1>3 DEF SettledWith, Statement, SavedBy
        <3>2. Counted(k, p)' = Counted(k, p) \cup {s} /\ s \notin Counted(k, p)
            BY <2>1, <2>3, <3>1, <1>0, <1>1 DEF Counted, TypeOK
        <3>3. IsFiniteSet(Counted(k, p))
            BY FewEntries, CountedAreIds
        <3>4. Cardinality(Counted(k, p)') = Cardinality(Counted(k, p)) + 1
            BY <3>2, <3>3, FS_AddElement
        <3>5. good'[k][p] = good[k][p] + 1
            BY <2>3, <1>0, <1>1, <1>3 DEF TypeOK
        <3> QED
            BY <2>2, <3>4, <3>5
    <2>4. CASE k # n
        <3>1. Counted(k, p)' = Counted(k, p) /\ good'[k][p] = good[k][p]
            BY <2>1, <2>4, <1>0, <1>1 DEF Counted, TypeOK
        <3> QED
            BY <2>2, <3>1
    <2>5. CASE k = n /\ p # q
        <3>1. s \notin SettledWith(n, p)
            BY <2>5, <1>3 DEF SettledWith, Statement
        <3>2. Counted(k, p)' = Counted(k, p) /\ good'[k][p] = good[k][p]
            BY <2>1, <2>5, <3>1, <1>0, <1>1 DEF Counted, TypeOK
        <3> QED
            BY <2>2, <3>2
    <2> QED BY <2>3, <2>4, <2>5
<1>11. CacheTells'
    <2>1. \A k, x, y : SettledBetween(ledger, k, x, y)' = SettledBetween(ledger, k, x, y)
        BY <1>0, <1>7 DEF SettledBetween
    <2>2. \A k, p : get_balance(ledger, k, p)' = get_balance(ledger, k, p)
        BY <1>0, <2>1, SameBalance
    <2> QED
        BY <2>2, <1>0 DEF JInv, CacheTells
<1>12. LagIsExplained'
    <2> SUFFICES ASSUME NEW k \in Nodes, NEW p \in Nodes, k # p, p \in behind[k],
                        ~(budget["crash"] < Faults["crash"])
                 PROVE  sending'[k] # NoId /\ Peer(k, sending[k])' = p
        BY <1>0 DEF LagIsExplained
    <2>1. sending[k] # NoId /\ Peer(k, sending[k]) = p
        BY DEF JInv, LagIsExplained
    <2>2. k # n
        BY <2>1, <1>0 DEF q
    <2>3. sending'[k] = sending[k]
        BY <2>2, <1>0, <1>1 DEF TypeOK
    <2> QED
        BY <2>1, <2>3, <1>7 DEF Peer
<1> QED
    BY <1>5, <1>6, <1>9, <1>10, <1>11, <1>12 DEF JInv

(* The second write: the row of the saved entry's counterparty holds the    *)
(* balance again.                                                           *)
LEMMA UpdateBooks ==
    ASSUME JInv, IInv', NEW n \in Nodes, update_balance_cache(n)
    PROVE  JInv'
<1> DEFINE s == sending[n]
           q == Peer(n, s)
<1>0. /\ sending[n] # NoId
      /\ cache' = [cache EXCEPT ![n][q] = get_balance(ledger, n, q)]
      /\ behind' = [behind EXCEPT ![n] = @ \ {q}]
      /\ entry' = entry /\ ledger' = ledger /\ good' = good /\ sending' = sending
      /\ rec' = rec /\ net' = net /\ budget' = budget
      /\ UNCHANGED <<bad, completion, held, evidence, result, asked>>
    BY DEF update_balance_cache, stores, calls
<1>1. TypeOK /\ BooksTyped
    BY DEF JInv, IInv
<1>2. s \in Ids /\ SavedBy(n, s) /\ Created(s)
    BY <1>0, <1>1 DEF JInv, IInv, EchoesAreSettled, SavedBy, TypeOK, PayerSettled
<1>3. q \in Nodes /\ q # n
    BY <1>1, <1>2, Parties DEF Peer, SavedBy
<1> HIDE DEF q
<1>4. get_balance(ledger, n, q) \in Int
    BY <1>1, BalanceIsNumber DEF TypeOK
<1>5. TypeOK'
    <2>1. cache' \in [Nodes -> [Nodes -> Int]]
        BY <1>0, <1>1, <1>3, <1>4 DEF TypeOK
    <2>2. behind' \in [Nodes -> SUBSET Nodes]
        BY <1>0, <1>1 DEF TypeOK
    <2> QED
        BY <1>0, <1>1, <2>1, <2>2 DEF TypeOK
<1>6. CallsHavePeers' /\ BudgetSpent'
    BY <1>0 DEF JInv, CallsHavePeers, BudgetSpent
<1>7. \A x : Created(x)' = Created(x) /\ From(x)' = From(x) /\ To(x)' = To(x)
    BY <1>0 DEF Created, From, To
<1>8. EchoesArePending'
    BY <1>0, <1>7 DEF JInv, EchoesArePending, Undisturbed, EchoUnderWay,
       EarnerSettled, PayerSettled
<1>9. SuccessesMatch'
    <2>1. \A k, p : Counted(k, p)' = Counted(k, p)
        BY <1>0, <1>7 DEF Counted, SettledWith, Statement
    <2> QED
        BY <2>1, <1>0 DEF JInv, SuccessesMatch
<1>10. CacheTells'
    <2> SUFFICES ASSUME NEW k \in Nodes, NEW p \in Nodes, k # p, p \notin behind'[k]
                 PROVE  cache'[k][p] = get_balance(ledger, k, p)'
        BY DEF CacheTells
    <2>1. get_balance(ledger, k, p)' = get_balance(ledger, k, p)
        <3>1. \A x, y : SettledBetween(ledger, k, x, y)' = SettledBetween(ledger, k, x, y)
            BY <1>0, <1>7 DEF SettledBetween
        <3> QED
            BY <1>0, <3>1, SameBalance
    <2>2. CASE k = n /\ p = q
        BY <2>1, <2>2, <1>0, <1>1 DEF TypeOK
    <2>3. CASE ~(k = n /\ p = q)
        <3>1. cache'[k][p] = cache[k][p] /\ p \notin behind[k]
            BY <2>3, <1>0, <1>1 DEF TypeOK
        <3> QED
            BY <3>1, <2>1 DEF JInv, CacheTells
    <2> QED BY <2>2, <2>3
<1>11. LagIsExplained'
    <2>1. \A k \in Nodes : behind'[k] \subseteq behind[k]
        BY <1>0, <1>1 DEF TypeOK
    <2>2. \A k : Peer(k, sending[k])' = Peer(k, sending[k])
        BY <1>0 DEF Peer, From, To
    <2> QED
        BY <2>1, <2>2, <1>0 DEF JInv, LagIsExplained
<1> QED
    BY <1>5, <1>6, <1>8, <1>9, <1>10, <1>11 DEF JInv

(* Saving id, an entry with p that node n has not settled: nothing counts   *)
(* yet, and the row of p is behind.                                         *)
LEMMA SaveKeepsBooks ==
    ASSUME JInv, NEW n \in Nodes, NEW p \in Nodes, NEW id \in Ids, Created(id),
           entry' = entry, cache' = cache, sending[n] = NoId, ~Settled(n, id),
           Settle(n, id, p), From(id) # To(id), {From(id), To(id)} = {n, p},
           budget' \in [FaultKinds -> Nat],
           \A f \in FaultKinds : budget'[f] <= budget[f]
    PROVE  /\ ledger' \in [Nodes -> [Ids -> Signatures]]
           /\ behind' \in [Nodes -> SUBSET Nodes]
           /\ sending' \in [Nodes -> Ids \cup {NoId}]
           /\ \A k \in Nodes, x \in Ids : <<k, x>> # <<n, id>> => ledger'[k][x] = ledger[k][x]
           /\ ledger'[n][id] = "both"
           /\ sending'[n] = id /\ \A k \in Nodes : k # n => sending'[k] = sending[k]
           /\ \A k, r \in Nodes : k # r => Counted(k, r)' = Counted(k, r)
           /\ CacheTells'
           /\ LagIsExplained'
<1>0. /\ ledger' = [ledger EXCEPT ![n][id] = "both"]
      /\ behind' = [behind EXCEPT ![n] = @ \cup {p}]
      /\ sending' = [sending EXCEPT ![n] = id]
    BY DEF Settle
<1>1. TypeOK
    BY DEF JInv
<1>2. /\ behind' \in [Nodes -> SUBSET Nodes]
      /\ sending' \in [Nodes -> Ids \cup {NoId}]
      /\ sending'[n] = id /\ \A k \in Nodes : k # n => sending'[k] = sending[k]
    BY <1>0, <1>1 DEF TypeOK
<1>3. /\ behind'[n] = behind[n] \cup {p}
      /\ \A k \in Nodes : k # n => behind'[k] = behind[k]
    BY <1>0, <1>1 DEF TypeOK
<1>4. ledger' \in [Nodes -> [Ids -> Signatures]]
    BY <1>0, <1>1 DEF TypeOK, Signatures
<1>5. /\ \A k \in Nodes, x \in Ids : <<k, x>> # <<n, id>> => ledger'[k][x] = ledger[k][x]
      /\ ledger'[n][id] = "both"
    BY <1>0, <1>1 DEF TypeOK
<1>6. \A x : Created(x)' = Created(x) /\ From(x)' = From(x) /\ To(x)' = To(x)
    BY DEF Created, From, To
<1>7. CacheTells'
    <2> SUFFICES ASSUME NEW k \in Nodes, NEW r \in Nodes, k # r, r \notin behind'[k]
                 PROVE  cache[k][r] = get_balance(ledger, k, r)'
        BY DEF CacheTells
    <2>1. ~(k = n /\ r = p) /\ r \notin behind[k]
        BY <1>3
    <2>2. ASSUME NEW x, NEW y, {x, y} = {k, r}
          PROVE  SettledBetween(ledger, k, x, y)' = SettledBetween(ledger, k, x, y)
        <3>1. k = n => {From(id), To(id)} # {x, y}
            BY <2>1, <2>2
        <3>2. \A z \in Ids : z \in SettledBetween(ledger, k, x, y)'
                               <=> z \in SettledBetween(ledger, k, x, y)
            BY <3>1, <1>5, <1>6 DEF SettledBetween
        <3> QED
            BY <3>2 DEF SettledBetween
    <2>3. /\ SettledBetween(ledger, k, k, r)' = SettledBetween(ledger, k, k, r)
          /\ SettledBetween(ledger, k, r, k)' = SettledBetween(ledger, k, r, k)
        BY <2>2
    <2>4. get_balance(ledger, k, r)' = get_balance(ledger, k, r)
        BY <2>3 DEF get_balance, Credits
    <2> QED
        BY <2>1, <2>4 DEF JInv, CacheTells
<1>8. LagIsExplained'
    <2> SUFFICES ASSUME NEW k \in Nodes, NEW r \in Nodes, k # r, r \in behind'[k],
                        ~(budget'["crash"] < Faults["crash"])
                 PROVE  sending'[k] # NoId /\ Peer(k, sending[k])' = r
        BY DEF LagIsExplained
    <2>1. ~(budget["crash"] < Faults["crash"])
        <3>1. budget["crash"] \in Nat /\ budget'["crash"] \in Nat /\ Faults["crash"] \in Nat
              /\ budget'["crash"] <= budget["crash"]
            BY <1>1, Kinds DEF TypeOK
        <3> QED BY <3>1
    <2>2. CASE k = n
        <3>1. behind[n] \cap (Nodes \ {n}) = {}
            BY <2>1 DEF JInv, LagIsExplained
        <3>2. r = p
            BY <2>2, <3>1, <1>3
        <3>3. Peer(n, id)' = p
            BY <2>2, <3>2, <1>6 DEF Peer
        <3> QED
            BY <2>2, <3>2, <3>3, <1>2, IdsPositive DEF Peer, From, To
    <2>3. CASE k # n
        <3>1. sending[k] # NoId /\ Peer(k, sending[k]) = r
            BY <2>1, <2>3, <1>3 DEF JInv, LagIsExplained
        <3> QED
            BY <2>3, <3>1, <1>2, <1>6 DEF Peer
    <2> QED BY <2>2, <2>3
<1>9. ASSUME NEW k \in Nodes, NEW r \in Nodes, k # r
      PROVE  Counted(k, r)' = Counted(k, r)
    <2>1. CASE k # n
        <3>1. \A x \in Ids : x \in SettledWith(k, r)' <=> x \in SettledWith(k, r)
            BY <2>1, <1>5, <1>6 DEF SettledWith, Statement
        <3>2. SettledWith(k, r)' = SettledWith(k, r)
            BY <3>1 DEF SettledWith, Statement
        <3> QED
            BY <2>1, <3>2, <1>2 DEF Counted
    <2>2. CASE k = n
        <3>1. \A x \in Ids : x # id =>
                  (x \in SettledWith(k, r)' <=> x \in SettledWith(k, r))
            BY <1>5, <1>6 DEF SettledWith, Statement
        <3>2. id \notin SettledWith(k, r) /\ NoId \notin SettledWith(k, r)
            BY <2>2, IdsPositive DEF SettledWith, Statement, Settled
        <3>3. \A x \in Ids : x \in Counted(k, r)' <=> x \in Counted(k, r)
            BY <2>2, <3>1, <3>2, <1>2 DEF Counted
        <3>4. Counted(k, r) \in SUBSET Ids /\ Counted(k, r)' \in SUBSET Ids
            BY DEF Counted, SettledWith, Statement
        <3> QED
            BY <3>3, <3>4
    <2> QED BY <2>1, <2>2
<1> QED
    BY <1>2, <1>4, <1>5, <1>7, <1>8, <1>9

(* The payer takes an entry: unless it accepts, the books stay; when it     *)
(* accepts, the entry is saved and its echo is to be sent.                  *)
LEMMA EarnerSignedBooks ==
    ASSUME JInv, IInv', NEW n \in Nodes, NEW m \in net, handle_earner_signed(n, m)
    PROVE  JInv'
<1> DEFINE id == m.id
           q == To(m.id)
           judged == Verdict(n, m)
<1>0. /\ m.type = "earner_signed" /\ sending[n] = NoId /\ Take(m, {})
      /\ entry' = entry /\ cache' = cache /\ good' = good /\ rec' = rec
      /\ UNCHANGED <<completion, result, asked>>
    BY DEF handle_earner_signed, calls
<1>1. TypeOK /\ BooksTyped /\ BudgetSpent
    BY DEF JInv, IInv
<1>2. id \in Ids /\ Created(id)
    BY <1>0 DEF JInv, IInv, ClaimsExist
<1>3. From(id) \in Nodes /\ q \in Nodes /\ q # From(id)
    BY <1>1, <1>2, Parties
<1>4. /\ \A x \in net' : x \in net
      /\ \A x \in net : x # m => x \in net'
      /\ budget' \in [FaultKinds -> Nat] /\ BudgetSpent'
      /\ \A f \in FaultKinds : budget'[f] <= budget[f]
    BY <1>0, <1>1, TakeKeeps
<1>5. CallsHavePeers'
    BY <1>0 DEF JInv, CallsHavePeers
<1>6. BooksTyped'
    BY DEF IInv
<1>7. bad' \in [Nodes -> [Nodes -> Nat]]
    <2>1. CASE bad' = bad
        BY <2>1, <1>1 DEF TypeOK
    <2>2. CASE bad' = [bad EXCEPT ![n][q] = @ + 1]
        BY <2>2, <1>1, <1>3 DEF TypeOK
    <2> QED
        BY <2>1, <2>2 DEF handle_earner_signed
<1>8. CASE judged # "accept"
    <2>1. ledger' = ledger /\ behind' = behind /\ sending' = sending
        BY <1>8 DEF handle_earner_signed
    <2>2. TypeOK'
        BY <2>1, <1>0, <1>1, <1>4, <1>6, <1>7 DEF TypeOK, BooksTyped
    <2> QED
        BY <2>1, <2>2, <1>0, <1>4, <1>5, QuietBooks
<1>9. CASE judged = "accept"
    <2>1. Settle(n, id, q)
        BY <1>9 DEF handle_earner_signed
    <2>2. From(id) = n /\ ~Settled(n, id)
        BY <1>9 DEF Verdict
    <2>3. /\ ledger' \in [Nodes -> [Ids -> Signatures]]
          /\ behind' \in [Nodes -> SUBSET Nodes]
          /\ sending' \in [Nodes -> Ids \cup {NoId}]
          /\ \A k \in Nodes, x \in Ids : <<k, x>> # <<n, id>> => ledger'[k][x] = ledger[k][x]
          /\ ledger'[n][id] = "both"
          /\ sending'[n] = id /\ \A k \in Nodes : k # n => sending'[k] = sending[k]
          /\ \A k, p \in Nodes : k # p => Counted(k, p)' = Counted(k, p)
          /\ CacheTells' /\ LagIsExplained'
        <3>1. {From(id), To(id)} = {n, q} /\ From(id) # To(id)
            BY <2>2, <1>3
        <3>2. /\ n \in Nodes /\ q \in Nodes /\ id \in Ids /\ Created(id)
              /\ entry' = entry /\ cache' = cache /\ sending[n] = NoId
              /\ ~Settled(n, id) /\ Settle(n, id, q)
            BY <2>1, <2>2, <1>0, <1>2, <1>3
        <3>3. /\ budget' \in [FaultKinds -> Nat]
              /\ \A f \in FaultKinds : budget'[f] <= budget[f]
            BY <1>4
        <3> HIDE DEF id, q
        <3> QED
            BY <3>1, <3>2, <3>3, SaveKeepsBooks
    <2>4. TypeOK'
        BY <2>3, <1>0, <1>1, <1>4, <1>6, <1>7 DEF TypeOK, BooksTyped
    <2>5. \A x : Created(x)' = Created(x) /\ From(x)' = From(x) /\ To(x)' = To(x)
        BY <1>0 DEF Created, From, To
    <2>7. sending'[n] = id /\ \A k \in Nodes : k # n => sending'[k] = sending[k]
        BY <2>3
    <2>8. EchoesArePending'
        <3> SUFFICES ASSUME Undisturbed', NEW x \in Ids, PayerSettled(x)'
                     PROVE  EchoUnderWay(x)'
            BY DEF EchoesArePending
        <3>1. Undisturbed
            BY <1>1, <1>4, UnspentBefore, Kinds DEF Undisturbed
        <3>2. CASE x = id
            BY <3>2, <2>2, <2>5, <2>7 DEF EchoUnderWay
        <3>3. CASE x # id
            <4>1. Created(x) /\ From(x) \in Nodes /\ To(x) \in Nodes
                BY <2>5, <1>1, Parties DEF PayerSettled
            <4>2. PayerSettled(x)
                BY <3>3, <4>1, <2>3, <2>5 DEF PayerSettled
            <4>3. EchoUnderWay(x)
                BY <3>1, <4>2 DEF JInv, EchoesArePending
            <4>4. CASE EarnerSettled(x)
                BY <4>4, <4>1, <3>3, <2>3, <2>5 DEF EchoUnderWay, EarnerSettled
            <4>5. CASE sending[From(x)] = x
                <5>1. From(x) # n
                    BY <4>5, <1>0, IdsPositive
                <5> QED
                    BY <5>1, <4>1, <4>5, <2>5, <2>7 DEF EchoUnderWay
            <4>6. CASE \E y \in net : y.type = "payer_cosigned" /\ y.id = x
                BY <4>6, <1>0, <1>4 DEF EchoUnderWay
            <4> QED
                BY <4>3, <4>4, <4>5, <4>6 DEF EchoUnderWay
        <3> QED BY <3>2, <3>3
    <2>10. SuccessesMatch'
        <3>1. budget'["crash"] = Faults["crash"] => budget["crash"] = Faults["crash"]
            BY <1>1, <1>4, UnspentBefore, Kinds
        <3> QED
            BY <3>1, <2>3, <1>0 DEF JInv, SuccessesMatch
    <2> QED
        BY <2>3, <2>4, <2>8, <2>10, <1>4, <1>5 DEF JInv
<1> QED
    BY <1>8, <1>9

(* The earner takes an echo: the first one saves the entry.                 *)
LEMMA PayerCosignedBooks ==
    ASSUME JInv, IInv', NEW n \in Nodes, NEW m \in net, handle_payer_cosigned(n, m)
    PROVE  JInv'
<1> DEFINE id == m.id
           q == From(m.id)
<1>0. /\ m.type = "payer_cosigned" /\ m.to = n /\ sending[n] = NoId /\ Take(m, {})
      /\ entry' = entry /\ cache' = cache /\ good' = good /\ rec' = rec
      /\ UNCHANGED <<bad, completion, held, evidence, result, asked>>
    BY DEF handle_payer_cosigned, stores, calls
<1>1. TypeOK /\ BooksTyped /\ BudgetSpent
    BY DEF JInv, IInv
<1>2. id \in Ids /\ Created(id) /\ To(id) = n
    BY <1>0 DEF JInv, IInv, EchoesAreSettled, PayerSettled
<1>3. q \in Nodes /\ q # n
    BY <1>1, <1>2, Parties
<1>4. /\ \A x \in net' : x \in net
      /\ \A x \in net : x # m => x \in net'
      /\ budget' \in [FaultKinds -> Nat] /\ BudgetSpent'
      /\ \A f \in FaultKinds : budget'[f] <= budget[f]
    BY <1>0, <1>1, TakeKeeps
<1>5. CallsHavePeers'
    BY <1>0 DEF JInv, CallsHavePeers
<1>6. \A x : Created(x)' = Created(x) /\ From(x)' = From(x) /\ To(x)' = To(x)
    BY <1>0 DEF Created, From, To
<1>7. \A k \in Nodes : k # n => sending'[k] = sending[k]
    <2>1. sending' = sending \/ sending' = [sending EXCEPT ![n] = id]
        BY DEF handle_payer_cosigned, Settle
    <2> QED
        BY <2>1, <1>1 DEF TypeOK
<1>8. \A k \in Nodes, x \in Ids :
          /\ ledger[k][x] = "both" => ledger'[k][x] = "both"
          /\ <<k, x>> # <<n, id>> => ledger'[k][x] = ledger[k][x]
          /\ ledger'[n][id] = "both"
    <2>1. CASE ledger' = ledger /\ Settled(n, id)
        BY <2>1 DEF Settled
    <2>2. CASE ledger' = [ledger EXCEPT ![n][id] = "both"]
        BY <2>2, <1>1, <1>2 DEF TypeOK
    <2> QED
        BY <2>1, <2>2 DEF handle_payer_cosigned, Settle
<1>9. EchoesArePending'
    <2> SUFFICES ASSUME Undisturbed', NEW x \in Ids, PayerSettled(x)'
                 PROVE  EchoUnderWay(x)'
        BY DEF EchoesArePending
    <2>1. Undisturbed
        BY <1>1, <1>4, UnspentBefore, Kinds DEF Undisturbed
    <2>2. CASE x = id
        BY <2>2, <1>2, <1>6, <1>8 DEF EchoUnderWay, EarnerSettled
    <2>3. CASE x # id
        <3>1. Created(x) /\ From(x) \in Nodes /\ To(x) \in Nodes
            BY <1>1, <1>6, Parties DEF PayerSettled
        <3>2. PayerSettled(x)
            BY <2>3, <3>1, <1>6, <1>8 DEF PayerSettled
        <3>3. EchoUnderWay(x)
            BY <3>2, <2>1 DEF JInv, EchoesArePending
        <3>4. CASE EarnerSettled(x)
            BY <3>1, <3>4, <1>6, <1>8 DEF EchoUnderWay, EarnerSettled
        <3>5. CASE sending[From(x)] = x
            <4>1. From(x) # n
                BY <3>5, <1>0, IdsPositive
            <4> QED
                BY <4>1, <3>1, <3>5, <1>6, <1>7 DEF EchoUnderWay
        <3>6. CASE \E y \in net : y.type = "payer_cosigned" /\ y.id = x
            BY <3>6, <2>3, <1>4 DEF EchoUnderWay
        <3> QED
            BY <3>3, <3>4, <3>5, <3>6 DEF EchoUnderWay
    <2> QED BY <2>2, <2>3
<1>10. budget'["crash"] = Faults["crash"] => budget["crash"] = Faults["crash"]
    BY <1>1, <1>4, UnspentBefore, Kinds
<1>11. CASE Settled(n, id)
    <2>1. ledger' = ledger /\ behind' = behind /\ sending' = sending
        BY <1>11 DEF handle_payer_cosigned
    <2>2. TypeOK'
        BY <2>1, <1>0, <1>1, <1>4 DEF TypeOK
    <2>3. \A k, p : Counted(k, p)' = Counted(k, p)
        BY <2>1, <1>6 DEF Counted, SettledWith, Statement
    <2>4. SuccessesMatch'
        BY <2>3, <1>0, <1>10 DEF JInv, SuccessesMatch
    <2>5. \A k, x, y : SettledBetween(ledger, k, x, y)' = SettledBetween(ledger, k, x, y)
        BY <2>1, <1>6 DEF SettledBetween
    <2>6. \A k, p : get_balance(ledger, k, p)' = get_balance(ledger, k, p)
        BY <1>0, <2>5, SameBalance
    <2>7. CacheTells'
        BY <2>1, <2>6, <1>0 DEF JInv, CacheTells
    <2>8. LagIsExplained'
        <3>1. \A k : Peer(k, sending[k])' = Peer(k, sending[k])
            BY <2>1, <1>6 DEF Peer
        <3>2. budget["crash"] < Faults["crash"] => budget'["crash"] < Faults["crash"]
            <4>1. budget["crash"] \in Nat /\ budget'["crash"] \in Nat
                  /\ Faults["crash"] \in Nat /\ budget'["crash"] <= budget["crash"]
                BY <1>1, <1>4, Kinds DEF TypeOK
            <4> QED BY <4>1
        <3> QED
            BY <2>1, <3>1, <3>2 DEF JInv, LagIsExplained
    <2> QED
        BY <2>2, <2>4, <2>7, <2>8, <1>4, <1>5, <1>9 DEF JInv
<1>12. CASE ~Settled(n, id)
    <2>1. Settle(n, id, q)
        BY <1>12 DEF handle_payer_cosigned
    <2>2. /\ ledger' \in [Nodes -> [Ids -> Signatures]]
          /\ behind' \in [Nodes -> SUBSET Nodes]
          /\ sending' \in [Nodes -> Ids \cup {NoId}]
          /\ \A k, p \in Nodes : k # p => Counted(k, p)' = Counted(k, p)
          /\ CacheTells' /\ LagIsExplained'
        <3>1. {From(id), To(id)} = {n, q} /\ From(id) # To(id)
            BY <1>2, <1>3
        <3> HIDE DEF id, q
        <3> QED
            BY <3>1, <2>1, <1>0, <1>2, <1>3, <1>4, <1>12, SaveKeepsBooks
    <2>3. TypeOK'
        BY <2>2, <1>0, <1>1, <1>4 DEF TypeOK
    <2>4. SuccessesMatch'
        BY <2>2, <1>0, <1>10 DEF JInv, SuccessesMatch
    <2> QED
        BY <2>2, <2>3, <2>4, <1>4, <1>5, <1>9 DEF JInv
<1> QED
    BY <1>11, <1>12

LEMMA BooksStart == Init => JInv
<1> SUFFICES ASSUME Init PROVE JInv
    OBVIOUS
<1>1. IInv
    BY InitHolds
<1>2. Idle \in Calls /\ Idle.pc = "idle"
    BY DEF Idle, Calls, Cursor
<1>3. NoResult \in Results
    BY DEF NoResult, Results
<1>4. TypeOK
    <2>1. entry \in [Ids -> Entry] /\ ledger \in [Nodes -> [Ids -> Signatures]]
        BY DEF Init, Entry, NoEntry, Signatures
    <2> QED
        BY <2>1, <1>2, <1>3 DEF Init, TypeOK
<1>5. \A id \in Ids : ~Created(id)
    BY DEF Init, Created, NoEntry
<1>6. CallsHavePeers /\ BudgetSpent /\ EchoesArePending /\ LagIsExplained
    BY <1>2, <1>5 DEF Init, CallsHavePeers, BudgetSpent, EchoesArePending, PayerSettled,
       LagIsExplained
<1>7. SuccessesMatch
    <2>1. \A n, p \in Nodes : Counted(n, p) = {} /\ good[n][p] = 0
        BY DEF Init, Counted, SettledWith, Statement
    <2>2. Cardinality({}) = 0
        BY FS_EmptySet
    <2>3. \A n, p \in Nodes : Cardinality(Counted(n, p)) = 0
        BY <2>1, <2>2
    <2> QED
        BY <2>1, <2>3 DEF SuccessesMatch
<1>8. CacheTells
    <2>1. \A n, x, y : SettledBetween(ledger, n, x, y) = {}
        BY <1>5 DEF SettledBetween
    <2>2. Credits({}) \in Int
        BY <1>4, CreditsAreNumbers DEF TypeOK
    <2>3. \A n, p : get_balance(ledger, n, p) = 0
        <3> TAKE n, p
        <3>1. get_balance(ledger, n, p) = Credits({}) - Credits({})
            BY <2>1 DEF get_balance
        <3> QED
            BY <2>2, <3>1
    <2> QED
        BY <2>3 DEF Init, CacheTells
<1> QED
    BY <1>1, <1>4, <1>6, <1>7, <1>8 DEF JInv

LEMMA BooksNext == JInv /\ [Next]_vars => JInv'
<1> SUFFICES ASSUME JInv, [Next]_vars PROVE JInv'
    OBVIOUS
<1>0. IInv'
    BY NextStep DEF JInv
<1>1. CASE Submit
    BY <1>0, <1>1, SubmitBooks DEF Submit
<1>2. CASE \E n \in Nodes, v \in Envelopes : learn_completion(n, v)
    BY <1>0, <1>2, LearnStep
<1>3. ASSUME NEW n \in Nodes, Receive(n) \/ Reconcile(n) \/ give_up(n) \/ crash(n)
      PROVE  JInv'
    BY <1>0, <1>3, UpdateBooks, FinishBooks, NextPageStep, LastPageStep, GiveUpStep,
       CrashStep DEF Receive, Reconcile
<1>4. ASSUME NEW n \in Nodes, NEW m \in net, Handle(n, m)
      PROVE  JInv'
    BY <1>0, <1>4, EarnerSignedBooks, PayerCosignedBooks, RequestStep, ResponseStep
    DEF Handle
<1>5. ASSUME NEW n \in Callers, NEW p \in Nodes, request_reconciliation(n, p)
      PROVE  JInv'
    BY <1>0, <1>5, AskStep
<1>6. ASSUME NEW m \in net, lose(m) PROVE JInv'
    BY <1>0, <1>6, LoseStep
<1>7. CASE UNCHANGED vars
    <2>1. /\ UNCHANGED <<entry, ledger, cache, behind, good, bad, completion, held, evidence,
                         sending, rec, result, asked, net, budget>>
        BY <1>7 DEF vars, books, stores, calls
    <2>2. TypeOK' /\ CallsHavePeers' /\ BudgetSpent'
        BY <2>1 DEF JInv, TypeOK, CallsHavePeers, BudgetSpent
    <2>3. \A f \in FaultKinds : budget'[f] <= budget[f]
        BY <2>1 DEF JInv, TypeOK
    <2> QED
        BY <2>1, <2>2, <2>3, <1>0, QuietBooks
<1> QED
    BY <1>1, <1>2, <1>3, <1>4, <1>5, <1>6, <1>7 DEF Next

(* Types, caches, counts and echoes hold in every state.                    *)
THEOREM BalancesInductive == Spec => []JInv
BY BooksStart, BooksNext, PTL DEF Spec

(* When nothing is on its way and nothing was lost or cut off, both sides   *)
(* of every settled entry have it.                                          *)
LEMMA QuietBalancesAgree == JInv => BalancesAgree
<1> SUFFICES ASSUME JInv, net = {}, \A n \in Nodes : sending[n] = NoId,
                    \A f \in {"lose", "crash"} : budget[f] = Faults[f],
                    NEW n \in Nodes, NEW p \in Nodes, n # p
             PROVE  get_balance(ledger, n, p) = -get_balance(ledger, p, n)
    BY DEF BalancesAgree
<1>1. TypeOK /\ BooksTyped
    BY DEF JInv, IInv
<1>2. \A id \in Ids : PayerSettled(id) <=> EarnerSettled(id)
    <2> TAKE id \in Ids
    <2>1. EarnerSettled(id) => PayerSettled(id)
        BY DEF JInv, IInv, EarnerNeverAhead
    <2>2. ASSUME PayerSettled(id) PROVE EarnerSettled(id)
        <3>1. EchoUnderWay(id)
            BY <2>2 DEF JInv, EchoesArePending, Undisturbed
        <3>2. From(id) \in Nodes
            BY <2>2, <1>1, Parties DEF PayerSettled
        <3> QED
            BY <3>1, <3>2, IdsPositive DEF EchoUnderWay
    <2> QED BY <2>1, <2>2
<1>3. \A x, y \in Nodes :
          SettledBetween(ledger, x, x, y) = SettledBetween(ledger, y, x, y)
    <2> TAKE x, y \in Nodes
    <2>1. \A id \in Ids : id \in SettledBetween(ledger, x, x, y)
                             <=> id \in SettledBetween(ledger, y, x, y)
        BY <1>2 DEF SettledBetween, PayerSettled, EarnerSettled
    <2> QED
        BY <2>1 DEF SettledBetween
<1>4. \A x, y, z : Credits(SettledBetween(ledger, z, x, y)) \in Int
    <2> TAKE x, y, z
    <2>1. /\ SettledBetween(ledger, z, x, y) \in SUBSET Ids
          /\ \A id \in SettledBetween(ledger, z, x, y) : Created(id)
        BY DEF SettledBetween
    <2> QED
        BY <2>1, <1>1, CreditsAreNumbers DEF TypeOK
<1> QED
    BY <1>3, <1>4 DEF get_balance

(* For any number of nodes, entries, amounts and faults, the cached balance *)
(* of every pair is the sum of what that node has settled with the other,   *)
(* unless the entry is just being saved or a restart fell between its two   *)
(* writes and nothing was settled with that peer since; and the two nodes'  *)
(* balances are opposite when everything sent has been handled and neither  *)
(* a loss nor a restart has come between.                                   *)
THEOREM TheBooksAgree == Spec => []BooksAgree
<1>1. JInv => BooksAgree
    BY QuietBalancesAgree DEF JInv, BooksAgree, CacheCatchesUp
<1> QED
    BY <1>1, BalancesInductive, PTL

(* A settled entry counts as at most one success of its counterparty, and   *)
(* as exactly one when no process has restarted, however often the entry    *)
(* and its echo arrive.                                                     *)
THEOREM SuccessesCountOnce == Spec => []SuccessCountedOnce
<1>1. JInv => SuccessCountedOnce
    <2> SUFFICES ASSUME JInv, NEW n \in Nodes, NEW p \in Nodes, n # p
                 PROVE  LET settled == SettledWith(n, p)
                            counted == good[n][p] + Cardinality(settled \cap {sending[n]})
                        IN  /\ counted <= Cardinality(settled)
                            /\ budget["crash"] = Faults["crash"]
                                   => counted = Cardinality(settled)
        BY DEF SuccessCountedOnce
    <2> DEFINE S == SettledWith(n, p)
               s == sending[n]
    <2>1. IsFiniteSet(S) /\ Cardinality(S) \in Nat
        BY FewEntries, CountedAreIds
    <2>2. /\ Cardinality(S \cap {s}) = IF s \in S THEN 1 ELSE 0
          /\ Cardinality(S \ {s}) = IF s \in S THEN Cardinality(S) - 1 ELSE Cardinality(S)
        <3>1. S \cap {s} = IF s \in S THEN {s} ELSE {}
            OBVIOUS
        <3>2. Cardinality({s}) = 1 /\ Cardinality({}) = 0
            BY FS_Singleton, FS_EmptySet
        <3>3. Cardinality(S \ {s}) = IF s \in S THEN Cardinality(S) - 1 ELSE Cardinality(S)
            BY <2>1, FS_RemoveElement
        <3> QED
            BY <3>1, <3>2, <3>3
    <2>3. /\ good[n][p] <= Cardinality(S \ {s})
          /\ budget["crash"] = Faults["crash"] => good[n][p] = Cardinality(S \ {s})
          /\ good[n][p] \in Nat
        BY DEF JInv, SuccessesMatch, Counted, TypeOK
    <2> HIDE DEF S, s
    <2>5. /\ good[n][p] + Cardinality(S \cap {s}) <= Cardinality(S)
          /\ budget["crash"] = Faults["crash"]
                 => good[n][p] + Cardinality(S \cap {s}) = Cardinality(S)
        BY <2>1, <2>2, <2>3
    <2> QED
        BY <2>5 DEF S, s
<1> QED
    BY <1>1, BalancesInductive, PTL

----------------------------------------------------------------------------
(* Disputes.                                                                *)

(* What the result about disputes supposes: nobody reconciles, and a work   *)
(* item was executed once.  A reconciliation that overtakes an echo, and a  *)
(* second execution of the work whose completion came first, do dispute an  *)
(* honest peer.                                                             *)
NobodyReconciles == Callers = {} \/ MaxRequests = 0
ExecutedOnce == \A v, w \in Envelopes : WorkOf[v] = WorkOf[w] => v = w

NoCalls == \A n \in Nodes : rec[n].pc = "idle"

CompletionsMatch ==
    \A n \in Nodes, w \in Works : completion[n][w] # NoEnvelope => WorkOf[completion[n][w]] = w

(* An entry on its way to a node that does not owe it was misrouted.        *)
MisroutesAreSpent ==
    \A m \in net : m.type = "earner_signed" /\ m.to # From(m.id)
        => budget["misroute"] < Faults["misroute"]

(* Every dispute has a cause.                                               *)
Dishonest(p) == \E id \in Ids : Created(id) /\ To(id) = p /\ ~HonestEntry(id)

DisputesHaveCause ==
    \A n, p \in Nodes : \/ bad[n][p] = 0
                        \/ budget["misroute"] < Faults["misroute"]
                        \/ Dishonest(p)

HInv ==
    /\ JInv
    /\ NoCalls
    /\ CompletionsMatch
    /\ MisroutesAreSpent
    /\ DisputesHaveCause

(* A step that judges nothing.                                              *)
LEMMA NoDisputeStep ==
    ASSUME HInv, JInv', bad' = bad,
           \A f \in FaultKinds : budget'[f] <= budget[f],
           \A x \in Ids : Created(x) => entry'[x] = entry[x],
           NoCalls', CompletionsMatch',
           \A m \in net' : m.type = "earner_signed" =>
               m \in net \/ m.to = From(m.id)' \/ budget'["misroute"] < Faults["misroute"]
    PROVE  HInv'
<1>0. /\ budget["misroute"] \in Nat /\ budget'["misroute"] \in Nat /\ Faults["misroute"] \in Nat
      /\ budget'["misroute"] <= budget["misroute"]
    BY Kinds DEF HInv, JInv, TypeOK
<1>1. \A x \in Ids : Created(x) =>
          /\ Created(x)' /\ From(x)' = From(x) /\ To(x)' = To(x)
          /\ HonestEntry(x)' = HonestEntry(x)
    BY DEF Created, From, To, HonestEntry
<1>2. MisroutesAreSpent'
    <2> SUFFICES ASSUME NEW m \in net', m.type = "earner_signed", m.to # From(m.id)'
                 PROVE  budget'["misroute"] < Faults["misroute"]
        BY DEF MisroutesAreSpent
    <2>1. CASE m \in net
        <3>1. m.id \in Ids /\ Created(m.id)
            BY <2>1 DEF HInv, JInv, IInv, ClaimsExist
        <3>2. m.to # From(m.id)
            BY <3>1, <1>1
        <3>3. budget["misroute"] < Faults["misroute"]
            BY <2>1, <3>2 DEF HInv, MisroutesAreSpent
        <3> QED
            BY <3>3, <1>0
    <2> QED
        BY <2>1
<1>3. DisputesHaveCause'
    <2> SUFFICES ASSUME NEW n \in Nodes, NEW p \in Nodes,
                        bad[n][p] # 0, ~(budget'["misroute"] < Faults["misroute"])
                 PROVE  Dishonest(p)'
        BY DEF DisputesHaveCause
    <2>1. ~(budget["misroute"] < Faults["misroute"])
        BY <1>0
    <2>2. Dishonest(p)
        BY <2>1 DEF HInv, DisputesHaveCause
    <2> QED
        BY <2>2, <1>1 DEF Dishonest
<1> QED
    BY <1>2, <1>3 DEF HInv

LEMMA JudgeStep ==
    ASSUME HInv, JInv', ExecutedOnce, NEW n \in Nodes, NEW m \in net,
           handle_earner_signed(n, m)
    PROVE  HInv'
<1> DEFINE id == m.id
           v == entry[m.id].env
           judged == Verdict(n, m)
<1>0. /\ m.type = "earner_signed" /\ m.to = n /\ Take(m, {})
      /\ entry' = entry /\ rec' = rec /\ completion' = completion
    BY DEF handle_earner_signed, calls
<1>1. TypeOK /\ BudgetSpent /\ BooksTyped
    BY DEF HInv, JInv, IInv
<1>2. /\ \A x \in net' : x \in net
      /\ \A f \in FaultKinds : budget'[f] <= budget[f]
    BY <1>0, <1>1, TakeKeeps
<1>3. NoCalls' /\ CompletionsMatch'
    BY <1>0 DEF HInv, NoCalls, CompletionsMatch
<1>4. id \in Ids /\ Created(id) /\ v \in Envelopes /\ To(id) \in Nodes
    BY <1>0, <1>1, Parties DEF HInv, JInv, IInv, ClaimsExist
<1>5. CASE bad' = bad
    BY <1>0, <1>2, <1>3, <1>5, NoDisputeStep DEF HInv
<1>6. CASE /\ judged \in {"misroute", "mismatch", "tolerance", "decline"}
           /\ bad' = [bad EXCEPT ![n][To(id)] = @ + 1]
    <2>0. /\ budget["misroute"] \in Nat /\ budget'["misroute"] \in Nat
          /\ Faults["misroute"] \in Nat /\ budget'["misroute"] <= budget["misroute"]
        BY <1>2, Kinds DEF HInv, JInv, TypeOK
    <2>1. \A x : /\ Created(x)' = Created(x) /\ From(x)' = From(x) /\ To(x)' = To(x)
                 /\ HonestEntry(x)' = HonestEntry(x)
        BY <1>0 DEF Created, From, To, HonestEntry
    <2>2. budget["misroute"] < Faults["misroute"] \/ ~HonestEntry(id)
        <3>1. CASE judged = "misroute"
            <4>1. From(id) # n
                <5>1. judged = "misroute" => From(m.id) # n
                    BY DEF Verdict, Acceptance
                <5> QED BY <3>1, <5>1
            <4> QED
                BY <4>1, <1>0 DEF HInv, MisroutesAreSpent
        <3>2. CASE judged = "mismatch"
            <4> DEFINE hs == held[n] \cup Envs(m, m.ship.envelope)
                       ex == Expected(n, v, hs)
            <4>1. ex # NoEnvelope /\ ex # v
                BY <3>2 DEF Verdict, Acceptance, Unknown
            <4>2. ex = completion[n][WorkOf[v]] /\ ex \in Envelopes
                BY <4>1, <1>1, <1>4 DEF Expected, TypeOK
            <4>3. WorkOf[ex] = WorkOf[v]
                BY <4>1, <4>2, <1>4 DEF HInv, CompletionsMatch
            <4> QED
                BY <4>1, <4>2, <4>3, <1>4 DEF ExecutedOnce
        <3>3. CASE judged = "tolerance"
            BY <3>3 DEF Verdict, Acceptance, HonestEntry
        <3>4. CASE judged = "decline"
            BY <3>4 DEF Verdict, Acceptance, HonestEntry
        <3> QED BY <1>6, <3>1, <3>2, <3>3, <3>4
    <2>3. MisroutesAreSpent'
        BY <2>0, <2>1, <1>2 DEF HInv, MisroutesAreSpent
    <2>4. DisputesHaveCause'
        <3> SUFFICES ASSUME NEW k \in Nodes, NEW p \in Nodes,
                            bad'[k][p] # 0, ~(budget'["misroute"] < Faults["misroute"])
                     PROVE  Dishonest(p)'
            BY DEF DisputesHaveCause
        <3>1. ~(budget["misroute"] < Faults["misroute"])
            BY <2>0
        <3>2. CASE k = n /\ p = To(id)
            BY <3>1, <3>2, <2>1, <2>2, <1>4 DEF Dishonest
        <3>3. CASE ~(k = n /\ p = To(id))
            <4>1. bad[k][p] # 0
                BY <3>3, <1>1, <1>6 DEF TypeOK
            <4>2. Dishonest(p)
                BY <3>1, <4>1 DEF HInv, DisputesHaveCause
            <4> QED
                BY <4>2, <2>1 DEF Dishonest
        <3> QED BY <3>2, <3>3
    <2> QED
        BY <2>3, <2>4, <1>3 DEF HInv
<1> QED
    BY <1>5, <1>6 DEF handle_earner_signed

LEMMA SubmitCauses ==
    ASSUME HInv, JInv', NEW v \in Envelopes, NEW id \in Ids, NEW t \in 1 .. MaxTime,
           NEW d \in Nodes, NEW ship \in Shipments, submit_earned(v, id, t, d, ship)
    PROVE  HInv'
<1> DEFINE e == EarnerOf[v]
           m == [type |-> "earner_signed", to |-> d, from |-> e, id |-> id, ship |-> ship]
<1>0. /\ ~Created(id)
      /\ entry' = [entry EXCEPT ![id] = [env |-> v, at |-> t]]
      /\ net' = net \cup {m}
      /\ bad' = bad /\ rec' = rec /\ completion' = completion
    BY DEF submit_earned, stores, calls
<1>1. TypeOK /\ BudgetSpent
    BY DEF HInv, JInv
<1>2. \E f \in FaultKinds : Spend(f) \/ budget' = budget
    BY Kinds DEF submit_earned
<1>3. \A f \in FaultKinds : budget'[f] <= budget[f]
    BY <1>1, <1>2, BudgetStep
<1>4. \A x \in Ids : Created(x) => entry'[x] = entry[x]
    BY <1>0, <1>1 DEF TypeOK
<1>5. NoCalls' /\ CompletionsMatch'
    BY <1>0 DEF HInv, NoCalls, CompletionsMatch
<1>6. From(id)' = PayerOf[WorkOf[v]]
    BY <1>0, <1>1 DEF TypeOK, From
<1>7. d = PayerOf[WorkOf[v]] \/ Spend("misroute")
    BY DEF submit_earned
<1>8. Spend("misroute") => budget'["misroute"] < Faults["misroute"]
    <2>1. budget["misroute"] \in Nat /\ Faults["misroute"] \in Nat
          /\ budget["misroute"] <= Faults["misroute"]
        BY <1>1, Kinds DEF TypeOK, BudgetSpent
    <2>2. Spend("misroute") => budget'["misroute"] = budget["misroute"] - 1
        BY <1>1, Kinds DEF TypeOK, Spend
    <2> QED
        BY <2>1, <2>2
<1>9. m.to = d /\ m.id = id
    OBVIOUS
<1> HIDE DEF m
<1>10. \A x \in net' : x \in net \/ x.to = From(x.id)' \/ budget'["misroute"] < Faults["misroute"]
    <2> SUFFICES ASSUME NEW x \in net', x \notin net
                 PROVE  x.to = From(x.id)' \/ budget'["misroute"] < Faults["misroute"]
        OBVIOUS
    <2>1. x = m
        BY <1>0
    <2>2. From(x.id)' = PayerOf[WorkOf[v]]
        BY <2>1, <1>6, <1>9 DEF From
    <2> QED
        BY <2>1, <2>2, <1>7, <1>8, <1>9
<1> QED
    BY <1>0, <1>3, <1>4, <1>5, <1>10, NoDisputeStep

LEMMA HonestStart == Init => HInv
<1> SUFFICES ASSUME Init PROVE HInv
    OBVIOUS
<1>1. JInv
    BY BooksStart
<1>2. Idle.pc = "idle"
    BY DEF Idle
<1>3. NoCalls /\ CompletionsMatch /\ MisroutesAreSpent /\ DisputesHaveCause
    BY <1>2 DEF Init, NoCalls, CompletionsMatch, MisroutesAreSpent, DisputesHaveCause
<1> QED
    BY <1>1, <1>3 DEF HInv

LEMMA HonestNext ==
    ASSUME HInv, [Next]_vars, NobodyReconciles, ExecutedOnce
    PROVE  HInv'
<1>0. JInv' /\ TypeOK /\ BudgetSpent
    BY BooksNext DEF HInv, JInv
<1>1. CASE Submit
    BY <1>0, <1>1, SubmitCauses DEF Submit
<1>2. ASSUME NEW n \in Nodes, NEW v \in Envelopes, learn_completion(n, v)
      PROVE  HInv'
    <2>1. /\ completion' = [completion EXCEPT ![n][WorkOf[v]] = v]
          /\ entry' = entry /\ bad' = bad /\ rec' = rec /\ net' = net /\ budget' = budget
        BY <1>2 DEF learn_completion, books, calls
    <2>2. CompletionsMatch'
        <3>1. \A k \in Nodes, w \in Works :
                  completion'[k][w] = IF k = n /\ w = WorkOf[v] THEN v ELSE completion[k][w]
            BY <2>1, <1>0 DEF TypeOK
        <3> QED
            BY <3>1 DEF HInv, CompletionsMatch
    <2>3. NoCalls' /\ \A f \in FaultKinds : budget'[f] <= budget[f]
        BY <2>1, <1>0 DEF HInv, NoCalls, TypeOK
    <2> QED
        BY <2>1, <2>2, <2>3, <1>0, NoDisputeStep
<1>3. ASSUME NEW n \in Nodes, Receive(n) PROVE HInv'
    <2> DEFINE reply == [type |-> "payer_cosigned", to |-> Peer(n, sending[n]),
                         id |-> sending[n]]
    <2>1. /\ completion' = completion /\ \A m \in net' : m \in net \/ m = reply
          /\ entry' = entry /\ bad' = bad /\ rec' = rec /\ budget' = budget
        BY <1>3 DEF Receive, update_balance_cache, finish, books, calls, stores
    <2>2. reply.type # "earner_signed"
        OBVIOUS
    <2> HIDE DEF reply
    <2>3. NoCalls' /\ CompletionsMatch' /\ \A f \in FaultKinds : budget'[f] <= budget[f]
        BY <2>1, <1>0 DEF HInv, NoCalls, CompletionsMatch, TypeOK
    <2> QED
        BY <2>1, <2>2, <2>3, <1>0, NoDisputeStep
<1>4. ASSUME NEW n \in Nodes, Reconcile(n) \/ give_up(n) PROVE HInv'
    BY <1>4 DEF HInv, NoCalls, Reconcile, next_page, last_page, give_up
<1>5. ASSUME NEW n \in Nodes, crash(n) PROVE HInv'
    <2>1. /\ Spend("crash") /\ rec' = [rec EXCEPT ![n] = Idle]
          /\ entry' = entry /\ bad' = bad /\ completion' = completion /\ net' = net
        BY <1>5 DEF crash, books, stores
    <2>2. \A f \in FaultKinds : budget'[f] <= budget[f]
        BY <2>1, <1>0, BudgetStep, Kinds
    <2>3. Idle.pc = "idle"
        BY DEF Idle
    <2>4. NoCalls' /\ CompletionsMatch'
        BY <2>1, <2>3, <1>0 DEF HInv, NoCalls, CompletionsMatch, TypeOK
    <2> QED
        BY <2>1, <2>2, <2>4, <1>0, NoDisputeStep
<1>6. ASSUME NEW n \in Nodes, NEW m \in net, Handle(n, m) PROVE HInv'
    <2>1. CASE handle_earner_signed(n, m)
        BY <2>1, <1>0, JudgeStep
    <2>2. CASE handle_payer_cosigned(n, m)
        <3>1. /\ entry' = entry /\ bad' = bad /\ completion' = completion /\ rec' = rec
              /\ Take(m, {})
            BY <2>2 DEF handle_payer_cosigned, stores, calls
        <3>2. /\ \A x \in net' : x \in net
              /\ \A f \in FaultKinds : budget'[f] <= budget[f]
            BY <3>1, <1>0, TakeKeeps
        <3>3. NoCalls' /\ CompletionsMatch'
            BY <3>1 DEF HInv, NoCalls, CompletionsMatch
        <3> QED
            BY <3>1, <3>2, <3>3, <1>0, NoDisputeStep
    <2>3. CASE handle_reconcile_request(n, m)
        <3> DEFINE after == {id \in Statement(n, m.from) : LexAfter(Position(id), m.since)}
                   Reply(page, cursor) ==
                       [type |-> "response", to |-> m.from, rid |-> m.rid,
                        page |-> {<<id, ledger[n][id]>> : id \in page},
                        cursor |-> cursor, more |-> Cardinality(after) > PageSize]
        <3>1. /\ entry' = entry /\ bad' = bad /\ completion' = completion /\ rec' = rec
            BY <2>3 DEF handle_reconcile_request, books, stores, calls
        <3>2. PICK page \in Pages(after) :
                  \E cursor \in Cursors(page, m.since) : Take(m, {Reply(page, cursor)})
            BY <2>3 DEF handle_reconcile_request
        <3>3. PICK cursor \in Cursors(page, m.since) : Take(m, {Reply(page, cursor)})
            BY <3>2
        <3>4. Reply(page, cursor).type = "response"
            OBVIOUS
        <3> HIDE DEF Reply
        <3>5. /\ \A x \in net' : x \in net \/ x = Reply(page, cursor)
              /\ \A f \in FaultKinds : budget'[f] <= budget[f]
            BY <3>3, <1>0, TakeKeeps
        <3>6. NoCalls' /\ CompletionsMatch'
            BY <3>1 DEF HInv, NoCalls, CompletionsMatch
        <3> QED
            BY <3>1, <3>4, <3>5, <3>6, <1>0, NoDisputeStep
    <2>4. CASE handle_reconcile_response(n, m)
        <3>1. /\ entry' = entry /\ bad' = bad /\ completion' = completion /\ rec' = rec
              /\ Take(m, {})
            BY <2>4 DEF HInv, NoCalls, handle_reconcile_response, books, stores
        <3>2. /\ \A x \in net' : x \in net
              /\ \A f \in FaultKinds : budget'[f] <= budget[f]
            BY <3>1, <1>0, TakeKeeps
        <3>3. NoCalls' /\ CompletionsMatch'
            BY <3>1 DEF HInv, NoCalls, CompletionsMatch
        <3> QED
            BY <3>1, <3>2, <3>3, <1>0, NoDisputeStep
    <2> QED BY <1>6, <2>1, <2>2, <2>3, <2>4 DEF Handle
<1>7. ASSUME NEW n \in Callers, NEW p \in Nodes, request_reconciliation(n, p)
      PROVE  HInv'
    <2>1. asked \in 0 .. MaxRequests /\ asked < MaxRequests
        BY <1>0, <1>7 DEF TypeOK, request_reconciliation
    <2> QED
        BY <1>7, <2>1 DEF NobodyReconciles
<1>8. ASSUME NEW m \in net, lose(m) PROVE HInv'
    <2>1. /\ Spend("lose") /\ net' = net \ {m}
          /\ entry' = entry /\ bad' = bad /\ completion' = completion /\ rec' = rec
        BY <1>8 DEF lose, books, stores, calls
    <2>2. \A f \in FaultKinds : budget'[f] <= budget[f]
        BY <2>1, <1>0, BudgetStep, Kinds
    <2>3. NoCalls' /\ CompletionsMatch'
        BY <2>1 DEF HInv, NoCalls, CompletionsMatch
    <2> QED
        BY <2>1, <2>2, <2>3, <1>0, NoDisputeStep
<1>9. CASE UNCHANGED vars
    <2>1. /\ entry' = entry /\ bad' = bad /\ completion' = completion /\ rec' = rec
          /\ net' = net /\ budget' = budget
        BY <1>9 DEF vars, books, stores, calls
    <2>2. NoCalls' /\ CompletionsMatch' /\ \A f \in FaultKinds : budget'[f] <= budget[f]
        BY <2>1, <1>0 DEF HInv, NoCalls, CompletionsMatch, TypeOK
    <2> QED
        BY <2>1, <2>2, <1>0, NoDisputeStep
<1> QED
    BY <1>1, <1>2, <1>3, <1>4, <1>5, <1>6, <1>7, <1>8, <1>9 DEF Next

(* A peer whose entries pass the audit and are priced within the tolerance  *)
(* is never disputed for what the network does to its messages, while       *)
(* nothing is misrouted, nobody reconciles and each work item was executed  *)
(* once.                                                                    *)
THEOREM HonestPeersUndisputed ==
    ASSUME NobodyReconciles, ExecutedOnce
    PROVE  Spec => []HonestNotDisputed
<1>1. HInv => HonestNotDisputed
    <2> SUFFICES ASSUME HInv, NEW n \in Nodes, NEW p \in Nodes,
                        budget["misroute"] = Faults["misroute"],
                        \A id \in Ids : Created(id) /\ To(id) = p => HonestEntry(id)
                 PROVE  bad[n][p] = 0
        BY DEF HonestNotDisputed
    <2>1. ~Dishonest(p)
        BY DEF Dishonest
    <2>2. budget["misroute"] = Faults["misroute"] /\ Faults["misroute"] \in Nat
        BY Kinds
    <2>3. ~(budget["misroute"] < Faults["misroute"])
        BY <2>2
    <2> QED
        BY <2>1, <2>3 DEF HInv, DisputesHaveCause
<1>2. Init => HInv
    BY HonestStart
<1>3. HInv /\ [Next]_vars => HInv'
    BY HonestNext
<1> QED
    BY <1>1, <1>2, <1>3, PTL DEF Spec

----------------------------------------------------------------------------
(* Pages.                                                                   *)

Known(views) == {x[1] : x \in views}

TimesDiffer ==
    \A x, y \in Ids : Created(x) /\ Created(y) /\ entry[x].at = entry[y].at => x = y

(* What a caller has still to receive comes after its cursor.               *)
Reached(n, seen, since) ==
    \A id \in rec[n].start : id \in Known(seen) \/ LexAfter(Position(id), since)

Complete(n, seen, page, cursor, more) ==
    \A id \in rec[n].start :
        \/ id \in Known(seen) \/ id \in Known(page)
        \/ more /\ LexAfter(Position(id), cursor)

(* What a caller asked about is on its peer's ledger, and created.          *)
StartIsHeld(n) ==
    \A id \in rec[n].start : id \in Ids /\ Created(id) /\ id \in Statement(rec[n].peer, n)

CallReaches(n) ==
    /\ rec[n].pc # "idle" => rec[n].rid \in 1 .. asked /\ StartIsHeld(n)
    /\ rec[n].pc = "wait" => Reached(n, rec[n].seen, rec[n].cursor)
    /\ rec[n].pc = "ready"
         => Complete(n, rec[n].seen, rec[n].page, rec[n].cursor, rec[n].more)

RequestReaches(m) ==
    LET n == m.from
    IN  /\ m.rid <= asked
        /\ rec[n].pc # "idle" /\ rec[n].rid = m.rid
             => m.to = rec[n].peer /\ Reached(n, rec[n].seen, m.since)

ResponseReaches(m) ==
    LET n == m.to
    IN  /\ m.rid <= asked
        /\ rec[n].pc # "idle" /\ rec[n].rid = m.rid
             => Complete(n, rec[n].seen, m.page, m.cursor, m.more)

PagesReach ==
    /\ \A n \in Nodes : CallReaches(n)
    /\ \A m \in net : /\ m.type = "request" => RequestReaches(m)
                      /\ m.type = "response" => ResponseReaches(m)

RInv == JInv /\ TimesDiffer /\ PagesReach /\ ReconcileSeesAll

LEMMA SmallerOfTwo ==
    ASSUME NEW x \in Nat, NEW y \in Nat
    PROVE  Min({x, y}) \in {x, y} /\ Min({x, y}) <= x /\ Min({x, y}) <= y
<1>1. \E z \in {x, y} : \A w \in {x, y} : z <= w
    OBVIOUS
<1> QED
    BY <1>1 DEF Min

(* A page leaves out only what comes after its cursor, and then says that   *)
(* there is more.                                                           *)
LEMMA PageIsFirst ==
    ASSUME JInv, TimesDiffer, NEW after \in SUBSET Ids, \A x \in after : Created(x),
           NEW page \in Pages(after), NEW since, NEW cursor \in Cursors(page, since),
           NEW id \in after, id \notin page
    PROVE  Cardinality(after) > PageSize /\ LexAfter(Position(id), cursor)
<1>1. /\ page \in SUBSET after
      /\ Cardinality(page) = Min({PageSize, Cardinality(after)})
      /\ \A x \in page, y \in after \ page : entry[x].at <= entry[y].at
    BY DEF Pages
<1>2. /\ IsFiniteSet(after) /\ Cardinality(after) \in Nat
      /\ IsFiniteSet(page) /\ Cardinality(page) \in Nat
    BY <1>1, FewEntries
<1>3. Cardinality(page) <= Cardinality(after) /\ Cardinality(page) # Cardinality(after)
    BY <1>1, <1>2, FS_Subset
<1>4. Cardinality(page) = PageSize /\ PageSize < Cardinality(after)
    BY <1>1, <1>2, <1>3, SmallerOfTwo
<1>5. page # {}
    <2>1. Cardinality({}) = 0
        BY FS_EmptySet
    <2> QED BY <2>1, <1>4
<1>6. PICK x \in page : cursor = Position(x)
    BY <1>5 DEF Cursors
<1>7. x \in Ids /\ Created(x) /\ id \in Ids /\ Created(id) /\ x # id
    BY <1>1, <1>6
<1>8. entry[x].at <= entry[id].at /\ entry[x].at # entry[id].at
    BY <1>1, <1>6, <1>7 DEF TimesDiffer
<1>9. entry[x].at \in Int /\ entry[id].at \in Int
    BY <1>7 DEF JInv, TypeOK, Entry
<1>10. Position(id)[1] > cursor[1]
    BY <1>6, <1>8, <1>9 DEF Position
<1> QED
    BY <1>2, <1>4, <1>10 DEF LexAfter

(* A step that leaves every call alone, keeps the entries that exist and    *)
(* sends no request and no response.                                        *)
LEMMA CallsKept ==
    ASSUME RInv, JInv', TimesDiffer', rec' = rec, result' = result, asked' = asked,
           \A x \in Ids : Created(x) => entry'[x] = entry[x],
           \A n \in Nodes, x \in Ids : ledger[n][x] # "none" => ledger'[n][x] # "none",
           \A m \in net' : m \in net \/ m.type \notin {"request", "response"}
    PROVE  RInv'
<1>1. \A x \in Ids : Created(x) =>
          /\ Created(x)' /\ From(x)' = From(x) /\ To(x)' = To(x) /\ Position(x)' = Position(x)
    BY DEF Created, From, To, Position
<1>2. \A n \in Nodes, p \in Nodes : \A x \in Ids :
          Created(x) /\ x \in Statement(n, p) => x \in Statement(n, p)'
    BY <1>1 DEF Statement
<1>3. ASSUME NEW n \in Nodes, rec[n].pc # "idle"
      PROVE  /\ StartIsHeld(n)'
             /\ \A id \in rec[n].start : Position(id)' = Position(id)
    <2>1. StartIsHeld(n) /\ rec[n].peer \in Nodes
        BY <1>3 DEF RInv, PagesReach, CallReaches, JInv, CallsHavePeers
    <2>2. \A id \in rec[n].start : /\ id \in Ids /\ Created(id)
                                   /\ id \in Statement(rec[n].peer, n)
        BY <2>1 DEF StartIsHeld
    <2> QED
        BY <2>1, <2>2, <1>1, <1>2 DEF StartIsHeld
<1>4. ASSUME NEW n \in Nodes, rec[n].pc # "idle", NEW seen, NEW since
      PROVE  Reached(n, seen, since) => Reached(n, seen, since)'
    <2>1. \A id \in rec[n].start : Position(id)' = Position(id)
        BY <1>3, <1>4
    <2> QED
        BY <2>1 DEF Reached, Known, LexAfter
<1>5. ASSUME NEW n \in Nodes, rec[n].pc # "idle", NEW seen, NEW page, NEW cursor, NEW more
      PROVE  Complete(n, seen, page, cursor, more) => Complete(n, seen, page, cursor, more)'
    <2>1. \A id \in rec[n].start : Position(id)' = Position(id)
        BY <1>3, <1>5
    <2> QED
        BY <2>1 DEF Complete, Known, LexAfter
<1>6. ASSUME NEW n \in Nodes PROVE CallReaches(n)'
    <2>1. CallReaches(n)
        BY DEF RInv, PagesReach
    <2>2. rec[n].pc # "idle" => rec[n].rid \in 1 .. asked /\ StartIsHeld(n)'
        BY <2>1, <1>3 DEF CallReaches
    <2>3. rec[n].pc = "wait" => Reached(n, rec[n].seen, rec[n].cursor)'
        BY <2>1, <1>4 DEF CallReaches
    <2>4. rec[n].pc = "ready"
             => Complete(n, rec[n].seen, rec[n].page, rec[n].cursor, rec[n].more)'
        BY <2>1, <1>5 DEF CallReaches
    <2> QED
        BY <2>2, <2>3, <2>4 DEF CallReaches
<1>7. ASSUME NEW m \in net', m.type = "request" PROVE RequestReaches(m)'
    <2>1. m \in net
        BY <1>7
    <2>2. RequestReaches(m) /\ m.from \in Nodes
        BY <1>7, <2>1 DEF RInv, PagesReach, JInv, TypeOK, Message
    <2>3. rec[m.from].pc # "idle" /\ rec[m.from].rid = m.rid
             => m.to = rec[m.from].peer /\ Reached(m.from, rec[m.from].seen, m.since)'
        BY <2>2, <1>4 DEF RequestReaches
    <2> QED
        BY <2>2, <2>3 DEF RequestReaches
<1>8. ASSUME NEW m \in net', m.type = "response" PROVE ResponseReaches(m)'
    <2>1. m \in net
        BY <1>8
    <2>2. ResponseReaches(m) /\ m.to \in Nodes
        BY <1>8, <2>1 DEF RInv, PagesReach, JInv, TypeOK, Message
    <2>3. rec[m.to].pc # "idle" /\ rec[m.to].rid = m.rid
             => Complete(m.to, rec[m.to].seen, m.page, m.cursor, m.more)'
        BY <2>2, <1>5 DEF ResponseReaches
    <2> QED
        BY <2>2, <2>3 DEF ResponseReaches
<1>9. ReconcileSeesAll'
    BY DEF RInv, ReconcileSeesAll
<1> QED
    BY <1>6, <1>7, <1>8, <1>9 DEF RInv, PagesReach

LEMMA RequestFields ==
    ASSUME TypeOK, NEW m \in net, m.type = "request"
    PROVE  /\ m.to \in Nodes /\ m.from \in Nodes /\ m.rid \in 1 .. MaxRequests
           /\ m.rid \in Int /\ m.since \in Cursor
<1>1. m \in [type : {"request"}, to : Nodes, from : Nodes, rid : 1 .. MaxRequests,
              since : Cursor]
    BY DEF TypeOK, Message
<1> QED
    BY <1>1

LEMMA ResponseFields ==
    ASSUME TypeOK, NEW m \in net, m.type = "response"
    PROVE  /\ m.to \in Nodes /\ m.rid \in 1 .. MaxRequests /\ m.rid \in Int
           /\ m.page \in SUBSET View /\ m.cursor \in Cursor /\ m.more \in BOOLEAN
<1>1. m \in [type : {"response"}, to : Nodes, rid : 1 .. MaxRequests,
              page : SUBSET View, cursor : Cursor, more : BOOLEAN]
    BY DEF TypeOK, Message
<1> QED
    BY <1>1

(* A step that moves the call of one node and leaves the ledgers alone.     *)
LEMMA OneCallMoves ==
    ASSUME RInv, JInv', entry' = entry, ledger' = ledger, NEW n \in Nodes,
           \A k \in Nodes : k # n => rec'[k] = rec[k],
           asked <= asked', CallReaches(n)', ReconcileSeesAll',
           \A m \in net' : m.type = "request" =>
               RequestReaches(m)' \/ (m \in net /\ m.from # n),
           \A m \in net' : m.type = "response" =>
               ResponseReaches(m)' \/ (m \in net /\ m.to # n)
    PROVE  RInv'
<1>0. asked \in Int /\ asked' \in Int
    BY DEF RInv, JInv, TypeOK
<1>1. \A x : /\ Created(x)' = Created(x) /\ From(x)' = From(x) /\ To(x)' = To(x)
             /\ Position(x)' = Position(x)
    BY DEF Created, From, To, Position
<1>2. \A k, p : Statement(k, p)' = Statement(k, p)
    BY <1>1 DEF Statement
<1>3. ASSUME NEW k \in Nodes, k # n
      PROVE  /\ StartIsHeld(k)' = StartIsHeld(k)
             /\ \A seen, since : Reached(k, seen, since)' = Reached(k, seen, since)
             /\ \A seen, page, cursor, more :
                    Complete(k, seen, page, cursor, more)'
                      = Complete(k, seen, page, cursor, more)
    <2>1. rec'[k] = rec[k]
        BY <1>3
    <2>2. StartIsHeld(k)' = StartIsHeld(k)
        BY <2>1, <1>1, <1>2 DEF StartIsHeld
    <2>3. ASSUME NEW seen, NEW since
          PROVE  Reached(k, seen, since)' = Reached(k, seen, since)
        BY <2>1, <1>1 DEF Reached, Known, LexAfter
    <2>4. ASSUME NEW seen, NEW page, NEW cursor, NEW more
          PROVE  Complete(k, seen, page, cursor, more)'
                   = Complete(k, seen, page, cursor, more)
        BY <2>1, <1>1 DEF Complete, Known, LexAfter
    <2> QED
        BY <2>2, <2>3, <2>4
<1>4. ASSUME NEW k \in Nodes PROVE CallReaches(k)'
    <2>1. CASE k = n
        BY <2>1
    <2>2. CASE k # n
        <3>1. CallReaches(k) /\ rec'[k] = rec[k]
            BY <2>2 DEF RInv, PagesReach
        <3>2. rec[k] \in Calls
            BY DEF RInv, JInv, TypeOK
        <3>3. rec[k].rid \in 1 .. asked => rec[k].rid \in 1 .. asked'
            BY <1>0
        <3> QED
            BY <2>2, <3>1, <3>3, <1>3 DEF CallReaches
    <2> QED BY <2>1, <2>2
<1>5. ASSUME NEW m \in net', m.type = "request" PROVE RequestReaches(m)'
    <2>1. CASE m \in net /\ m.from # n
        <3>1. RequestReaches(m) /\ m.from \in Nodes /\ m.rid \in Int
            BY <1>5, <2>1 DEF RInv, PagesReach, JInv, TypeOK, Message
        <3>2. rec'[m.from] = rec[m.from]
            BY <2>1, <3>1
        <3>3. m.rid <= asked'
            BY <3>1, <1>0 DEF RequestReaches
        <3> QED
            BY <2>1, <3>1, <3>2, <3>3, <1>3 DEF RequestReaches
    <2> QED
        BY <1>5, <2>1
<1>6. ASSUME NEW m \in net', m.type = "response" PROVE ResponseReaches(m)'
    <2>1. CASE m \in net /\ m.to # n
        <3>1. ResponseReaches(m) /\ m.to \in Nodes /\ m.rid \in Int
            BY <1>6, <2>1 DEF RInv, PagesReach, JInv, TypeOK, Message
        <3>2. rec'[m.to] = rec[m.to]
            BY <2>1, <3>1
        <3>3. m.rid <= asked'
            BY <3>1, <1>0 DEF ResponseReaches
        <3> QED
            BY <2>1, <3>1, <3>2, <3>3, <1>3 DEF ResponseReaches
    <2> QED
        BY <1>6, <2>1
<1>7. TimesDiffer'
    BY <1>1 DEF RInv, TimesDiffer
<1> QED
    BY <1>4, <1>5, <1>6, <1>7 DEF RInv, PagesReach

(* The messages of a node whose call has ended matter no more.              *)
LEMMA CallEnds ==
    ASSUME RInv, JInv', entry' = entry, ledger' = ledger, asked' = asked, NEW n \in Nodes,
           rec' = [rec EXCEPT ![n] = Idle], ReconcileSeesAll', net' \subseteq net
    PROVE  RInv'
<1>0. TypeOK
    BY DEF RInv, JInv
<1>1. /\ \A k \in Nodes : k # n => rec'[k] = rec[k]
      /\ rec'[n].pc = "idle"
    BY <1>0 DEF TypeOK, Idle
<1>2. CallReaches(n)'
    BY <1>1 DEF CallReaches
<1>3. asked <= asked'
    BY <1>0 DEF TypeOK
<1>4. ASSUME NEW m \in net', m.type = "request"
      PROVE  RequestReaches(m)' \/ (m \in net /\ m.from # n)
    <2>1. m \in net /\ RequestReaches(m)
        BY <1>4 DEF RInv, PagesReach
    <2>2. m.from = n => RequestReaches(m)'
        BY <2>1, <1>1 DEF RequestReaches
    <2> QED BY <2>1, <2>2
<1>5. ASSUME NEW m \in net', m.type = "response"
      PROVE  ResponseReaches(m)' \/ (m \in net /\ m.to # n)
    <2>1. m \in net /\ ResponseReaches(m)
        BY <1>5 DEF RInv, PagesReach
    <2>2. m.to = n => ResponseReaches(m)'
        BY <2>1, <1>1 DEF ResponseReaches
    <2> QED BY <2>1, <2>2
<1> QED
    BY <1>1, <1>2, <1>3, <1>4, <1>5, OneCallMoves

LEMMA AskReaches ==
    ASSUME RInv, JInv', NEW n \in Nodes, NEW p \in Nodes, request_reconciliation(n, p)
    PROVE  RInv'
<1> DEFINE r == [Idle EXCEPT !.pc = "wait", !.peer = p, !.rid = asked + 1,
                             !.start = Statement(p, n)]
           m == Request(n, p, asked + 1, <<0, NoId>>)
<1>0. TypeOK /\ IInv
    BY DEF RInv, JInv
<1>1. /\ asked' = asked + 1
      /\ rec' = [rec EXCEPT ![n] = r]
      /\ net' = net \cup {m}
      /\ entry' = entry /\ ledger' = ledger /\ result' = result
    BY DEF request_reconciliation, books
<1>2. /\ r.pc = "wait" /\ r.peer = p /\ r.rid = asked + 1 /\ r.start = Statement(p, n)
      /\ r.seen = {} /\ r.cursor = <<0, NoId>>
    BY DEF Idle
<1>3. /\ m.type = "request" /\ m.from = n /\ m.to = p /\ m.rid = asked + 1
      /\ m.since = <<0, NoId>>
    BY DEF Request
<1> HIDE DEF r, m
<1>4. rec'[n] = r /\ \A k \in Nodes : k # n => rec'[k] = rec[k]
    BY <1>0, <1>1 DEF TypeOK
<1>5. \A x : /\ Created(x)' = Created(x) /\ From(x)' = From(x) /\ To(x)' = To(x)
             /\ Position(x)' = Position(x)
    BY <1>1 DEF Created, From, To, Position
<1>6. \A k, q : Statement(k, q)' = Statement(k, q)
    BY <1>1, <1>5 DEF Statement
<1>7. StartIsHeld(n)'
    <2> SUFFICES ASSUME NEW id \in Statement(p, n)
                 PROVE  id \in Ids /\ Created(id)
        BY <1>2, <1>4, <1>5, <1>6 DEF StartIsHeld
    <2> QED
        BY <1>0 DEF Statement, IInv, RowsAreCreated
<1>8. Reached(n, rec[n].seen, rec[n].cursor)'
    <2> SUFFICES ASSUME NEW id \in Statement(p, n)
                 PROVE  LexAfter(Position(id), <<0, NoId>>)
        BY <1>2, <1>4, <1>5 DEF Reached, LexAfter
    <2>1. id \in Ids /\ id \in Int /\ id > 0
        BY DEF Statement, Ids
    <2>2. entry[id].at \in Int /\ entry[id].at >= 0
        BY <2>1, <1>0 DEF TypeOK, Entry
    <2> QED
        BY <2>1, <2>2 DEF LexAfter, Position
<1>9. asked \in Nat /\ asked <= asked' /\ asked + 1 \in 1 .. asked'
    BY <1>0, <1>1 DEF TypeOK
<1>10. CallReaches(n)'
    BY <1>2, <1>4, <1>7, <1>8, <1>9 DEF CallReaches
<1>11. ReconcileSeesAll'
    BY <1>1 DEF RInv, ReconcileSeesAll
<1>12. ASSUME NEW x \in net', x.type = "request"
       PROVE  RequestReaches(x)' \/ (x \in net /\ x.from # n)
    <2>1. CASE x = m
        <3>1. /\ x.from = n /\ x.rid <= asked' /\ x.to = rec'[n].peer
              /\ x.since = rec'[n].cursor
            BY <2>1, <1>2, <1>3, <1>4, <1>9
        <3>2. Reached(x.from, rec[x.from].seen, x.since)'
            BY <3>1, <1>8
        <3> QED
            BY <3>1, <3>2 DEF RequestReaches
    <2>2. CASE x \in net /\ x.from = n
        <3>1. RequestReaches(x) /\ x.rid \in Int
            BY <1>12, <2>2, <1>0, RequestFields DEF RInv, PagesReach
        <3>3. x.rid <= asked /\ rec'[n].rid = asked + 1 /\ asked' = asked + 1
            BY <3>1, <1>1, <1>2, <1>4, <1>9 DEF RequestReaches
        <3>2. x.rid <= asked' /\ x.rid # rec'[n].rid
            BY <3>1, <3>3, <1>9
        <3> QED
            BY <2>2, <3>2 DEF RequestReaches
    <2> QED BY <2>1, <2>2, <1>1
<1>13. ASSUME NEW x \in net', x.type = "response"
       PROVE  ResponseReaches(x)' \/ (x \in net /\ x.to # n)
    <2>1. x \in net
        BY <1>13, <1>1, <1>3
    <2>2. CASE x.to = n
        <3>1. ResponseReaches(x) /\ x.rid \in Int
            BY <1>13, <2>1, <1>0, ResponseFields DEF RInv, PagesReach
        <3>3. x.rid <= asked /\ rec'[n].rid = asked + 1 /\ asked' = asked + 1
            BY <3>1, <1>1, <1>2, <1>4, <1>9 DEF ResponseReaches
        <3>2. x.rid <= asked' /\ x.rid # rec'[n].rid
            BY <3>1, <3>3, <1>9
        <3> QED
            BY <2>2, <3>2 DEF ResponseReaches
    <2> QED BY <2>1, <2>2
<1> QED
    BY <1>1, <1>4, <1>9, <1>10, <1>11, <1>12, <1>13, OneCallMoves

LEMMA NextPageReaches ==
    ASSUME RInv, JInv', NEW n \in Nodes, next_page(n)
    PROVE  RInv'
<1> DEFINE r == rec[n]
           m == Request(n, r.peer, asked + 1, r.cursor)
<1>0. TypeOK /\ rec[n] \in Calls
    BY DEF RInv, JInv, TypeOK
<1>1. /\ r.pc = "ready" /\ r.more
      /\ asked' = asked + 1
      /\ rec' = [rec EXCEPT ![n].pc = "wait", ![n].rid = asked + 1,
                            ![n].seen = @ \cup r.page, ![n].pages = @ + 1]
      /\ net' = net \cup {m}
      /\ entry' = entry /\ ledger' = ledger /\ result' = result
    BY DEF next_page, books
<1>3. /\ m.type = "request" /\ m.from = n /\ m.to = r.peer /\ m.rid = asked + 1
      /\ m.since = r.cursor
    BY DEF Request
<1> HIDE DEF m
<1>4. /\ rec'[n].pc = "wait" /\ rec'[n].rid = asked + 1 /\ rec'[n].seen = r.seen \cup r.page
      /\ rec'[n].peer = r.peer /\ rec'[n].cursor = r.cursor /\ rec'[n].start = r.start
    BY <1>0, <1>1 DEF TypeOK, Calls
<1>2. \A k \in Nodes : k # n => rec'[k] = rec[k]
    BY <1>0, <1>1 DEF TypeOK
<1>5. \A x : /\ Created(x)' = Created(x) /\ From(x)' = From(x) /\ To(x)' = To(x)
             /\ Position(x)' = Position(x)
    BY <1>1 DEF Created, From, To, Position
<1>6. \A k, q : Statement(k, q)' = Statement(k, q)
    BY <1>1, <1>5 DEF Statement
<1>7. StartIsHeld(n) /\ Complete(n, r.seen, r.page, r.cursor, r.more)
    BY <1>1 DEF RInv, PagesReach, CallReaches
<1>14. StartIsHeld(n)'
    BY <1>4, <1>5, <1>6, <1>7 DEF StartIsHeld
<1>8. Reached(n, rec[n].seen, rec[n].cursor)'
    <2> SUFFICES ASSUME NEW id \in r.start
                 PROVE  id \in Known(r.seen \cup r.page) \/ LexAfter(Position(id), r.cursor)
        BY <1>1, <1>4, <1>5 DEF Reached, LexAfter, Known
    <2> QED
        BY <1>7 DEF Complete, Known
<1>9. asked \in Nat /\ asked <= asked' /\ asked + 1 \in 1 .. asked'
    BY <1>0, <1>1 DEF TypeOK
<1>10. CallReaches(n)'
    BY <1>4, <1>8, <1>9, <1>14 DEF CallReaches
<1>11. ReconcileSeesAll'
    BY <1>1 DEF RInv, ReconcileSeesAll
<1>12. ASSUME NEW x \in net', x.type = "request"
       PROVE  RequestReaches(x)' \/ (x \in net /\ x.from # n)
    <2>1. CASE x = m
        <3>1. /\ x.from = n /\ x.rid <= asked' /\ x.to = rec'[n].peer
              /\ x.since = rec'[n].cursor
            BY <2>1, <1>3, <1>4, <1>9
        <3>2. Reached(x.from, rec[x.from].seen, x.since)'
            BY <3>1, <1>8
        <3> QED
            BY <3>1, <3>2 DEF RequestReaches
    <2>2. CASE x \in net /\ x.from = n
        <3>1. RequestReaches(x) /\ x.rid \in Int
            BY <1>12, <2>2, <1>0, RequestFields DEF RInv, PagesReach
        <3>3. x.rid <= asked /\ rec'[n].rid = asked + 1 /\ asked' = asked + 1
            BY <3>1, <1>1, <1>4, <1>9 DEF RequestReaches
        <3>2. x.rid <= asked' /\ x.rid # rec'[n].rid
            BY <3>1, <3>3, <1>9
        <3> QED
            BY <2>2, <3>2 DEF RequestReaches
    <2> QED BY <2>1, <2>2, <1>1
<1>13. ASSUME NEW x \in net', x.type = "response"
       PROVE  ResponseReaches(x)' \/ (x \in net /\ x.to # n)
    <2>1. x \in net
        BY <1>13, <1>1, <1>3
    <2>2. CASE x.to = n
        <3>1. ResponseReaches(x) /\ x.rid \in Int
            BY <1>13, <2>1, <1>0, ResponseFields DEF RInv, PagesReach
        <3>3. x.rid <= asked /\ rec'[n].rid = asked + 1 /\ asked' = asked + 1
            BY <3>1, <1>1, <1>4, <1>9 DEF ResponseReaches
        <3>2. x.rid <= asked' /\ x.rid # rec'[n].rid
            BY <3>1, <3>3, <1>9
        <3> QED
            BY <2>2, <3>2 DEF ResponseReaches
    <2> QED BY <2>1, <2>2
<1> QED
    BY <1>1, <1>2, <1>9, <1>10, <1>11, <1>12, <1>13, OneCallMoves

(* The page that arrives is one the responder made for this very request.   *)
LEMMA ResponseReachesCaller ==
    ASSUME RInv, JInv', NEW n \in Nodes, NEW m \in net, handle_reconcile_response(n, m)
    PROVE  RInv'
<1>0. TypeOK /\ rec[n] \in Calls
    BY DEF RInv, JInv, TypeOK
<1>1. /\ m.type = "response" /\ m.to = n
      /\ entry' = entry /\ ledger' = ledger /\ result' = result /\ asked' = asked
    BY DEF handle_reconcile_response, books
<1>2. net' \subseteq net
    BY DEF handle_reconcile_response, Take
<1>3. ReconcileSeesAll'
    BY <1>1 DEF RInv, ReconcileSeesAll
<1>4. \A x : /\ Created(x)' = Created(x) /\ From(x)' = From(x) /\ To(x)' = To(x)
             /\ Position(x)' = Position(x)
    BY <1>1 DEF Created, From, To, Position
<1>5. CASE rec[n].pc # "idle" /\ rec[n].rid = m.rid
    <2>1. rec' = [rec EXCEPT ![n].pc = "ready", ![n].page = m.page,
                             ![n].cursor = m.cursor, ![n].more = m.more]
        BY <1>5 DEF handle_reconcile_response
    <2>2. /\ rec'[n].pc = "ready" /\ rec'[n].page = m.page /\ rec'[n].cursor = m.cursor
          /\ rec'[n].more = m.more /\ rec'[n].rid = rec[n].rid
          /\ rec'[n].seen = rec[n].seen /\ rec'[n].start = rec[n].start
          /\ rec'[n].peer = rec[n].peer
        BY <1>0, <2>1 DEF TypeOK, Calls
    <2>3. \A k \in Nodes : k # n => rec'[k] = rec[k]
        BY <1>0, <2>1 DEF TypeOK
    <2>4. Complete(n, rec[n].seen, m.page, m.cursor, m.more)
        BY <1>1, <1>5 DEF RInv, PagesReach, ResponseReaches
    <2>5. Complete(n, rec[n].seen, rec[n].page, rec[n].cursor, rec[n].more)'
        BY <2>2, <2>4, <1>4 DEF Complete, Known, LexAfter
    <2>6. rec[n].rid \in 1 .. asked /\ StartIsHeld(n)
        BY <1>5 DEF RInv, PagesReach, CallReaches
    <2>7. \A k, q : Statement(k, q)' = Statement(k, q)
        BY <1>1, <1>4 DEF Statement
    <2>8. StartIsHeld(n)'
        BY <2>2, <2>6, <2>7, <1>4 DEF StartIsHeld
    <2>9. CallReaches(n)'
        BY <2>2, <2>5, <2>6, <2>8, <1>1 DEF CallReaches
    <2>10. asked <= asked'
        BY <1>0, <1>1 DEF TypeOK
    <2>11. ASSUME NEW x \in net', x.type = "request"
           PROVE  RequestReaches(x)' \/ (x \in net /\ x.from # n)
        <3>1. x \in net /\ RequestReaches(x)
            BY <2>11, <1>2 DEF RInv, PagesReach
        <3>2. CASE x.from = n
            <4>1. \A seen, since : Reached(n, seen, since) => Reached(n, seen, since)'
                BY <2>2, <1>4 DEF Reached, Known, LexAfter
            <4>2. x.rid <= asked' /\ (rec'[n].rid = x.rid
                    => x.to = rec'[n].peer /\ Reached(n, rec[n].seen, x.since)')
                BY <3>1, <3>2, <4>1, <1>1, <1>5, <2>2 DEF RequestReaches
            <4> QED
                BY <3>2, <4>2, <2>2 DEF RequestReaches
        <3> QED BY <3>1, <3>2
    <2>12. ASSUME NEW x \in net', x.type = "response"
           PROVE  ResponseReaches(x)' \/ (x \in net /\ x.to # n)
        <3>1. x \in net /\ ResponseReaches(x)
            BY <2>12, <1>2 DEF RInv, PagesReach
        <3>2. CASE x.to = n
            <4>1. \A seen, page, cursor, more :
                    Complete(n, seen, page, cursor, more) => Complete(n, seen, page, cursor, more)'
                BY <2>2, <1>4 DEF Complete, Known, LexAfter
            <4>2. x.rid <= asked' /\ (rec'[n].rid = x.rid
                    => Complete(n, rec[n].seen, x.page, x.cursor, x.more)')
                BY <3>1, <3>2, <4>1, <1>1, <1>5, <2>2 DEF ResponseReaches
            <4> QED
                BY <3>2, <4>2, <2>2 DEF ResponseReaches
        <3> QED BY <3>1, <3>2
    <2> QED
        BY <1>1, <1>3, <2>3, <2>9, <2>10, <2>11, <2>12, OneCallMoves
<1>6. CASE ~(rec[n].pc # "idle" /\ rec[n].rid = m.rid)
    <2>1. rec' = rec
        BY <1>6 DEF handle_reconcile_response
    <2>2. TimesDiffer'
        BY <1>1, <1>4 DEF RInv, TimesDiffer
    <2> QED
        BY <1>1, <1>2, <2>1, <2>2, CallsKept
<1> QED
    BY <1>5, <1>6

(* What the responder leaves out of a page comes after the page's cursor.   *)
LEMMA RequestReachesCaller ==
    ASSUME RInv, JInv', NEW n \in Nodes, NEW m \in net, handle_reconcile_request(n, m)
    PROVE  RInv'
<1> DEFINE after == {id \in Statement(n, m.from) : LexAfter(Position(id), m.since)}
<1>c. PICK c : c = m.from
    OBVIOUS
<1>0. TypeOK /\ IInv /\ TimesDiffer
    BY DEF RInv, JInv
<1>1. /\ m.type = "request" /\ m.to = n
      /\ entry' = entry /\ ledger' = ledger /\ result' = result /\ asked' = asked
      /\ rec' = rec
    BY DEF handle_reconcile_request, books, calls
<1>2. PICK page \in Pages(after) : \E cursor \in Cursors(page, m.since) :
              Take(m, {[type |-> "response", to |-> m.from, rid |-> m.rid,
                        page |-> {<<id, ledger[n][id]>> : id \in page},
                        cursor |-> cursor,
                        more |-> Cardinality(after) > PageSize]})
    BY DEF handle_reconcile_request
<1>3. PICK cursor \in Cursors(page, m.since) :
              Take(m, {[type |-> "response", to |-> m.from, rid |-> m.rid,
                        page |-> {<<id, ledger[n][id]>> : id \in page},
                        cursor |-> cursor,
                        more |-> Cardinality(after) > PageSize]})
    BY <1>2
<1>a. PICK a : a = [type |-> "response", to |-> m.from, rid |-> m.rid,
                    page |-> {<<id, ledger[n][id]>> : id \in page},
                    cursor |-> cursor, more |-> Cardinality(after) > PageSize]
    OBVIOUS
<1>4. net' \subseteq net \cup {a}
    BY <1>3, <1>a DEF Take
<1>5. /\ a.type = "response" /\ a.to = c /\ a.rid = m.rid
      /\ a.page = {<<id, ledger[n][id]>> : id \in page}
      /\ a.cursor = cursor /\ a.more = (Cardinality(after) > PageSize)
    BY <1>a, <1>c
<1>6. RequestReaches(m) /\ c \in Nodes
    BY <1>0, <1>1, <1>c, RequestFields DEF RInv, PagesReach
<1>7. after \in SUBSET Ids /\ \A x \in after : Created(x)
    BY <1>0 DEF Statement, IInv, RowsAreCreated
<1>8. \A x : /\ Created(x)' = Created(x) /\ From(x)' = From(x) /\ To(x)' = To(x)
             /\ Position(x)' = Position(x)
    BY <1>1 DEF Created, From, To, Position
<1>9. ASSUME rec[c].pc # "idle", rec[c].rid = m.rid
      PROVE  Complete(c, rec[c].seen, a.page, a.cursor, a.more)
    <2> SUFFICES ASSUME NEW id \in rec[c].start, id \notin Known(rec[c].seen),
                        id \notin Known(a.page)
                 PROVE  a.more /\ LexAfter(Position(id), a.cursor)
        BY DEF Complete
    <2>1. n = rec[c].peer /\ LexAfter(Position(id), m.since)
        BY <1>1, <1>6, <1>9, <1>c DEF RequestReaches, Reached
    <2>2. id \in Statement(n, c)
        BY <2>1, <1>6, <1>9 DEF RInv, PagesReach, CallReaches, StartIsHeld
    <2>3. id \in after
        BY <2>1, <2>2, <1>c
    <2>4. id \notin page
        <3>1. \A x \in page : x \in Known(a.page)
            <4>1. \A x \in page : <<x, ledger[n][x]>> \in a.page
                BY <1>5
            <4>2. \A x \in page : \E y \in a.page : x = y[1]
                <5> TAKE x \in page
                <5>1. <<x, ledger[n][x]>>[1] = x
                    OBVIOUS
                <5> QED BY <4>1, <5>1
            <4> QED BY <4>2 DEF Known
        <3> QED BY <3>1
    <2>5. JInv
        BY DEF RInv
    <2> HIDE DEF after
    <2>6. Cardinality(after) > PageSize /\ LexAfter(Position(id), cursor)
        BY <2>3, <2>4, <2>5, <1>0, <1>2, <1>3, <1>7, PageIsFirst
    <2> QED
        BY <2>6, <1>5
<1>10. \A seen, pg, cur, more : Complete(c, seen, pg, cur, more)
                                   => Complete(c, seen, pg, cur, more)'
    BY <1>1, <1>8 DEF Complete, Known, LexAfter
<1>11. ResponseReaches(a)'
    <2>1. a.rid <= asked'
        BY <1>1, <1>5, <1>6 DEF RequestReaches
    <2>2. rec[c].pc # "idle" /\ rec[c].rid = a.rid
             => Complete(c, rec[c].seen, a.page, a.cursor, a.more)'
        BY <1>1, <1>5, <1>9, <1>10
    <2> QED
        BY <2>1, <2>2, <1>1, <1>5 DEF ResponseReaches
<1>12. \A k, q : Statement(k, q)' = Statement(k, q)
    BY <1>1, <1>8 DEF Statement
<1>13. CallReaches(c)'
    <2>1. CallReaches(c)
        BY <1>6 DEF RInv, PagesReach
    <2>2. StartIsHeld(c) => StartIsHeld(c)'
        BY <1>1, <1>8, <1>12 DEF StartIsHeld
    <2>3. \A seen, since : Reached(c, seen, since) => Reached(c, seen, since)'
        BY <1>1, <1>8 DEF Reached, Known, LexAfter
    <2> QED
        BY <2>1, <2>2, <2>3, <1>1, <1>10 DEF CallReaches
<1>14. ASSUME NEW x \in net', x.type = "request"
       PROVE  RequestReaches(x)' \/ (x \in net /\ x.from # c)
    <2>1. x \in net /\ RequestReaches(x)
        BY <1>14, <1>4, <1>5 DEF RInv, PagesReach
    <2>2. CASE x.from = c
        <3>1. \A seen, since : Reached(c, seen, since) => Reached(c, seen, since)'
            BY <1>1, <1>8 DEF Reached, Known, LexAfter
        <3>2. x.rid <= asked' /\ (rec'[c].pc # "idle" /\ rec'[c].rid = x.rid
                 => x.to = rec'[c].peer /\ Reached(c, rec[c].seen, x.since)')
            BY <2>1, <2>2, <3>1, <1>1 DEF RequestReaches
        <3> QED
            BY <2>2, <3>2 DEF RequestReaches
    <2> QED BY <2>1, <2>2
<1>15. ASSUME NEW x \in net', x.type = "response"
       PROVE  ResponseReaches(x)' \/ (x \in net /\ x.to # c)
    <2>1. CASE x = a
        BY <2>1, <1>11
    <2>2. CASE x \in net /\ x.to = c
        <3>1. ResponseReaches(x)
            BY <1>15, <2>2 DEF RInv, PagesReach
        <3>2. x.rid <= asked' /\ (rec'[c].pc # "idle" /\ rec'[c].rid = x.rid
                 => Complete(c, rec[c].seen, x.page, x.cursor, x.more)')
            BY <2>2, <3>1, <1>1, <1>10 DEF ResponseReaches
        <3> QED
            BY <2>2, <3>2 DEF ResponseReaches
    <2> QED BY <2>1, <2>2, <1>4
<1>16. ReconcileSeesAll'
    BY <1>1 DEF RInv, ReconcileSeesAll
<1>17. asked <= asked'
    BY <1>0, <1>1 DEF TypeOK
<1> QED
    BY <1>1, <1>6, <1>13, <1>14, <1>15, <1>16, <1>17, OneCallMoves

LEMMA ConcludeReaches ==
    ASSUME RInv, JInv', NEW n \in Nodes, NEW seen \in SUBSET View,
           NEW error \in {"none", "timeout", "page_cap_exceeded"},
           Conclude(n, seen, error),
           error = "none" => \A id \in rec[n].start : id \in Known(seen)
    PROVE  RInv'
<1> DEFINE ids == {x[1] : x \in seen}
<1>0. result \in [Nodes -> Results]
    BY DEF RInv, JInv, TypeOK
<1>1. /\ entry' = entry /\ ledger' = ledger /\ asked' = asked /\ net' = net
      /\ rec' = [rec EXCEPT ![n] = Idle]
      /\ result' = [result EXCEPT ![n] =
              [peer |-> rec[n].peer, error |-> error, disputed |-> Disputed(n, seen),
               agreed |-> {id \in ids : ledger[n][id] # "none"} \ Disputed(n, seen),
               missing_ours |-> {id \in ids : ledger[n][id] = "none"},
               missing_theirs |-> Statement(n, rec[n].peer) \ ids,
               start |-> rec[n].start]]
    BY DEF Conclude, books
<1>2. ids = Known(seen)
    BY DEF Known
<1> HIDE DEF ids
<1>3. /\ result'[n].error = error /\ result'[n].start = rec[n].start
      /\ result'[n].disputed = Disputed(n, seen)
      /\ result'[n].agreed = {id \in ids : ledger[n][id] # "none"} \ Disputed(n, seen)
      /\ result'[n].missing_ours = {id \in ids : ledger[n][id] = "none"}
      /\ \A k \in Nodes : k # n => result'[k] = result[k]
    BY <1>0, <1>1
<1>4. ReconcileSeesAll'
    <2> SUFFICES ASSUME NEW k \in Nodes, result'[k].error = "none"
                 PROVE  result'[k].start \subseteq
                            result'[k].agreed \cup result'[k].disputed
                                \cup result'[k].missing_ours
        BY DEF ReconcileSeesAll
    <2>1. CASE k = n
        BY <2>1, <1>2, <1>3
    <2>2. CASE k # n
        BY <2>2, <1>3 DEF RInv, ReconcileSeesAll
    <2> QED BY <2>1, <2>2
<1> QED
    BY <1>1, <1>4, CallEnds

LEMMA LastPageReaches ==
    ASSUME RInv, JInv', NEW n \in Nodes, last_page(n)
    PROVE  RInv'
<1>0. rec[n] \in Calls
    BY DEF RInv, JInv, TypeOK
<1>1. rec[n].seen \in SUBSET View /\ rec[n].page \in SUBSET View /\ rec[n].more \in BOOLEAN
    BY <1>0 DEF Calls
<1>2. PICK error \in {"none", "timeout", "page_cap_exceeded"} :
        /\ Conclude(n, rec[n].seen \cup rec[n].page, error)
        /\ error = "none" => ~rec[n].more
    BY <1>1 DEF last_page
<1>3. Complete(n, rec[n].seen, rec[n].page, rec[n].cursor, rec[n].more)
    BY DEF last_page, RInv, PagesReach, CallReaches
<1>4. ~rec[n].more => \A id \in rec[n].start : id \in Known(rec[n].seen \cup rec[n].page)
    BY <1>3 DEF Complete, Known
<1>5. rec[n].seen \cup rec[n].page \in SUBSET View
    BY <1>1
<1> DEFINE got == rec[n].seen \cup rec[n].page
<1>6. error = "none" => \A id \in rec[n].start : id \in Known(got)
    BY <1>2, <1>4
<1>7. Conclude(n, got, error) /\ got \in SUBSET View
    BY <1>2, <1>5
<1> HIDE DEF got
<1> QED
    BY <1>6, <1>7, ConcludeReaches

LEMMA GiveUpReaches ==
    ASSUME RInv, JInv', NEW n \in Nodes, give_up(n)
    PROVE  RInv'
<1>1. rec[n].seen \in SUBSET View
    BY DEF RInv, JInv, TypeOK, Calls
<1>2. Conclude(n, rec[n].seen, "timeout")
    BY DEF give_up
<1> QED
    BY <1>1, <1>2, ConcludeReaches

LEMMA CrashReaches ==
    ASSUME RInv, JInv', NEW n \in Nodes, crash(n)
    PROVE  RInv'
<1>1. /\ entry' = entry /\ ledger' = ledger /\ asked' = asked /\ net' = net
      /\ rec' = [rec EXCEPT ![n] = Idle] /\ result' = result
    BY DEF crash, books
<1>2. ReconcileSeesAll'
    BY <1>1 DEF RInv, ReconcileSeesAll
<1> QED
    BY <1>1, <1>2, CallEnds

LEMMA SubmitReaches ==
    ASSUME RInv, JInv', Faults["tie"] = 0, Submit
    PROVE  RInv'
<1>0. TypeOK /\ IInv /\ BudgetSpent
    BY DEF RInv, JInv
<1>1. PICK v \in Envelopes, id \in Ids, t \in 1 .. MaxTime, d \in Nodes,
           ship \in Shipments : submit_earned(v, id, t, d, ship)
    BY DEF Submit
<1>2. /\ ~Created(id)
      /\ entry' = [entry EXCEPT ![id] = [env |-> v, at |-> t]]
      /\ ledger' = [ledger EXCEPT ![EarnerOf[v]][id] = "earner"]
      /\ net' = net \cup {[type |-> "earner_signed", to |-> d, from |-> EarnerOf[v],
                           id |-> id, ship |-> ship]}
      /\ rec' = rec /\ result' = result /\ asked' = asked
    BY <1>1 DEF submit_earned, calls
<1>3. ~\E x \in Ids : Created(x) /\ entry[x].at = t
    <2>1. ~Spend("tie")
        <3>1. "tie" \in FaultKinds
            BY DEF FaultKinds
        <3>2. budget["tie"] <= 0 /\ budget["tie"] \in Nat
            BY <1>0, <3>1 DEF BudgetSpent, TypeOK
        <3> QED BY <3>2 DEF Spend
    <2> QED
        BY <1>1, <2>1 DEF submit_earned
<1>4. /\ entry'[id] = [env |-> v, at |-> t]
      /\ \A x \in Ids : x # id => entry'[x] = entry[x]
    BY <1>0, <1>2 DEF TypeOK
<1>5. \A x \in Ids : Created(x) => entry'[x] = entry[x]
    BY <1>2, <1>4
<1>6. \A k \in Nodes, x \in Ids : ledger[k][x] # "none" => ledger'[k][x] # "none"
    BY <1>0, <1>2 DEF TypeOK
<1>7. \A m \in net' : m \in net \/ m.type \notin {"request", "response"}
    BY <1>2
<1>8. TimesDiffer'
    <2> SUFFICES ASSUME NEW x \in Ids, NEW y \in Ids, Created(x)', Created(y)',
                        entry'[x].at = entry'[y].at
                 PROVE  x = y
        BY DEF TimesDiffer
    <2>1. \A z \in Ids : z # id /\ Created(z)' => Created(z) /\ entry'[z] = entry[z]
        BY <1>4 DEF Created
    <2>2. entry'[id].at = t
        BY <1>4
    <2> QED
        BY <2>1, <2>2, <1>3 DEF RInv, TimesDiffer
<1> QED
    BY <1>2, <1>5, <1>6, <1>7, <1>8, CallsKept

(* A step of the receive thread that settles, echoes or refuses an entry,   *)
(* and a step that touches none of this.                                    *)
LEMMA OtherStepReaches ==
    ASSUME RInv, JInv', entry' = entry, rec' = rec, result' = result, asked' = asked,
           \A n \in Nodes, x \in Ids : ledger[n][x] # "none" => ledger'[n][x] # "none",
           \A m \in net' : m \in net \/ m.type \notin {"request", "response"}
    PROVE  RInv'
<1>1. TimesDiffer'
    BY DEF RInv, TimesDiffer, Created
<1> QED
    BY <1>1, CallsKept

LEMMA RowsStay ==
    ASSUME TypeOK, NEW n \in Nodes, NEW id,
           ledger' = ledger \/ ledger' = [ledger EXCEPT ![n][id] = "both"]
    PROVE  \A k \in Nodes, x \in Ids : ledger[k][x] # "none" => ledger'[k][x] # "none"
<1> SUFFICES ASSUME NEW k \in Nodes, NEW x \in Ids, ledger[k][x] # "none",
                    ledger' = [ledger EXCEPT ![n][id] = "both"]
             PROVE  ledger'[k][x] # "none"
    OBVIOUS
<1>1. ledger \in [Nodes -> [Ids -> Signatures]]
    BY DEF TypeOK
<1>2. k # n => ledger'[k] = ledger[k]
    BY <1>1
<1>3. ledger'[n] = [ledger[n] EXCEPT ![id] = "both"]
    BY <1>1
<1>4. ledger'[n][x] = IF x = id THEN "both" ELSE ledger[n][x]
    BY <1>1, <1>3
<1> QED
    BY <1>2, <1>4

LEMMA PagesStart == Init => RInv
<1> SUFFICES ASSUME Init PROVE RInv
    OBVIOUS
<1>1. JInv
    BY BooksStart
<1>2. TimesDiffer
    BY DEF Init, TimesDiffer, Created, NoEntry
<1>3. \A n \in Nodes : rec[n].pc = "idle"
    BY DEF Init, Idle
<1>4. PagesReach
    BY <1>3 DEF PagesReach, CallReaches, Init
<1>5. ReconcileSeesAll
    BY DEF Init, NoResult, ReconcileSeesAll
<1> QED
    BY <1>1, <1>2, <1>4, <1>5 DEF RInv

LEMMA PagesNext ==
    ASSUME Faults["tie"] = 0
    PROVE  RInv /\ [Next]_vars => RInv'
<1> SUFFICES ASSUME RInv, [Next]_vars PROVE RInv'
    OBVIOUS
<1>0. JInv' /\ TypeOK
    BY BooksNext DEF RInv, JInv
<1>1. CASE Submit
    BY <1>0, <1>1, SubmitReaches
<1>2. ASSUME NEW n \in Nodes, NEW v \in Envelopes, learn_completion(n, v) PROVE RInv'
    <2>1. entry' = entry /\ ledger' = ledger /\ rec' = rec /\ result' = result
          /\ asked' = asked /\ net' = net
        BY <1>2 DEF learn_completion, books, calls
    <2> QED BY <2>1, <1>0, OtherStepReaches
<1>3. ASSUME NEW n \in Nodes, Receive(n) PROVE RInv'
    <2>1. entry' = entry /\ ledger' = ledger /\ rec' = rec /\ result' = result
          /\ asked' = asked /\ \A m \in net' : m \in net \/ m.type = "payer_cosigned"
        BY <1>3 DEF Receive, update_balance_cache, finish, books, calls
    <2> QED BY <2>1, <1>0, OtherStepReaches
<1>4. ASSUME NEW n \in Nodes, Reconcile(n) PROVE RInv'
    BY <1>0, <1>4, NextPageReaches, LastPageReaches DEF Reconcile
<1>5. ASSUME NEW n \in Nodes, give_up(n) PROVE RInv'
    BY <1>0, <1>5, GiveUpReaches
<1>6. ASSUME NEW n \in Nodes, crash(n) PROVE RInv'
    BY <1>0, <1>6, CrashReaches
<1>7. ASSUME NEW n \in Nodes, NEW m \in net, Handle(n, m) PROVE RInv'
    <2>1. CASE handle_earner_signed(n, m)
        <3>1. entry' = entry /\ rec' = rec /\ result' = result /\ asked' = asked
              /\ net' \subseteq net
            BY <2>1 DEF handle_earner_signed, calls, Take
        <3>2. ledger' = ledger \/ ledger' = [ledger EXCEPT ![n][m.id] = "both"]
            BY <2>1 DEF handle_earner_signed, Settle
        <3>3. \A k \in Nodes, x \in Ids : ledger[k][x] # "none" => ledger'[k][x] # "none"
            BY <3>2, <1>0, RowsStay
        <3> QED BY <3>1, <3>3, <1>0, OtherStepReaches
    <2>2. CASE handle_payer_cosigned(n, m)
        <3>1. entry' = entry /\ rec' = rec /\ result' = result /\ asked' = asked
              /\ net' \subseteq net
            BY <2>2 DEF handle_payer_cosigned, calls, Take
        <3>2. ledger' = ledger \/ ledger' = [ledger EXCEPT ![n][m.id] = "both"]
            BY <2>2 DEF handle_payer_cosigned, Settle
        <3>3. \A k \in Nodes, x \in Ids : ledger[k][x] # "none" => ledger'[k][x] # "none"
            BY <3>2, <1>0, RowsStay
        <3> QED BY <3>1, <3>3, <1>0, OtherStepReaches
    <2>3. CASE handle_reconcile_request(n, m)
        BY <2>3, <1>0, RequestReachesCaller
    <2>4. CASE handle_reconcile_response(n, m)
        BY <2>4, <1>0, ResponseReachesCaller
    <2> QED BY <1>7, <2>1, <2>2, <2>3, <2>4 DEF Handle
<1>8. ASSUME NEW n \in Callers, NEW p \in Nodes, request_reconciliation(n, p) PROVE RInv'
    <2>1. n \in Nodes
        OBVIOUS
    <2> QED BY <2>1, <1>0, <1>8, AskReaches
<1>9. ASSUME NEW m \in net, lose(m) PROVE RInv'
    <2>1. entry' = entry /\ ledger' = ledger /\ rec' = rec /\ result' = result
          /\ asked' = asked /\ net' \subseteq net
        BY <1>9 DEF lose, books, calls
    <2> QED BY <2>1, <1>0, OtherStepReaches
<1>10. CASE UNCHANGED vars
    <2>1. entry' = entry /\ ledger' = ledger /\ rec' = rec /\ result' = result
          /\ asked' = asked /\ net' = net
        BY <1>10 DEF vars, books, calls
    <2> QED BY <2>1, <1>0, OtherStepReaches
<1> QED
    BY <1>1, <1>2, <1>3, <1>4, <1>5, <1>6, <1>7, <1>8, <1>9, <1>10 DEF Next

(* request_reconciliation misses nothing: when no two entries share a       *)
(* created_at_ns, a call that ends without an error has received and sorted *)
(* every entry its peer held when the call began, the ones the caller has   *)
(* no row of included, whatever is lost, repeated or settled in between.    *)
THEOREM PagesHideNothing ==
    ASSUME Faults["tie"] = 0
    PROVE  Spec => []ReconcileSeesAll
<1>1. RInv => ReconcileSeesAll
    BY DEF RInv
<1> QED
    BY <1>1, PagesStart, PagesNext, PTL DEF Spec
===============================================================================
