------------------------------- MODULE Review -------------------------------
(***************************************************************************)
(* The review path (gyza/containment/review.py): runners count what they   *)
(* sign and open an escalation when the cadence is reached; people resolve *)
(* escalations from the command line.  Every one of them is a process of   *)
(* its own on one hash-chained table, and the lock of a ReviewQueue spans  *)
(* one process only.                                                       *)
(***************************************************************************)
EXTENDS Integers, Sequences, FiniteSets

CONSTANTS
    Signers,       \* runner processes
    Reviewers,     \* processes of gyza review
    Cadence,       \* review_cadence_actions
    MaxSigned,     \* bound on the actions signed
    MaxRows,       \* bound on the rows of the table when a decision is begun
    MaxDeaths      \* bound on the processes that die half way

ASSUME ReviewAssumption ==
    Cadence \in Nat \ {0} /\ MaxSigned \in Nat /\ MaxRows \in Nat /\ MaxDeaths \in Nat

VARIABLES
    signatures,  \* envelopes on the node since the accounting origin
    reviews,     \* the rows of review_log
    doing,       \* [Signers \cup Reviewers -> Doing]
    deaths,      \* processes that may still die
    overtaken    \* history: a row was inserted between the two reads of a writer

reviewVars == <<signatures, reviews, doing, deaths, overtaken>>

(* What a process is in the middle of: it holds a count, a row to append,   *)
(* the row with its predecessor, or with the number it has read too.        *)
Idle == [step |-> "idle"]
EscalationIds == Signers \X Nat
ReviewRow == [kind : {"ESCALATION", "REVIEW"}, id : EscalationIds]
Stored == [row : ReviewRow, prev : Nat]
Doing == {Idle} \cup [step : {"counted"}, count : Nat]
         \cup [step : {"write"}, row : ReviewRow]
         \cup [step : {"number"}, row : ReviewRow, prev : Nat]
         \cup [step : {"insert"}, row : ReviewRow, prev : Nat, seq : Nat]

Of(kind) == {reviews[i].row.id : i \in {j \in DOMAIN reviews : reviews[j].row.kind = kind}}
pending == Of("ESCALATION") \ Of("REVIEW")

Now(p, d) == doing' = [doing EXCEPT ![p] = d]

-----------------------------------------------------------------------------
(* A runner signs, counts, and asks whether a review is due.  The origin is *)
(* the first envelope and does not move.                                    *)
sign(p) ==
    /\ doing[p] = Idle
    /\ signatures < MaxSigned
    /\ signatures' = signatures + 1
    /\ Now(p, [step |-> "counted", count |-> signatures + 1])
    /\ UNCHANGED <<reviews, deaths, overtaken>>

(* Faults: every check opens an escalation; the cadence itself is not due.  *)
CadenceFlooding(p) ==
    /\ doing[p].step = "counted"
    /\ IF doing[p].count >= Cadence
       THEN Now(p, [step |-> "write",
                    row |-> [kind |-> "ESCALATION", id |-> <<p, doing[p].count>>]])
       ELSE Now(p, Idle)
    /\ UNCHANGED <<signatures, reviews, deaths, overtaken>>
CadenceLate(p) ==
    /\ doing[p].step = "counted"
    /\ IF doing[p].count > Cadence /\ pending = {}
       THEN Now(p, [step |-> "write",
                    row |-> [kind |-> "ESCALATION", id |-> <<p, doing[p].count>>]])
       ELSE Now(p, Idle)
    /\ UNCHANGED <<signatures, reviews, deaths, overtaken>>

check_cadence(p) ==
    /\ doing[p].step = "counted"
    /\ IF doing[p].count >= Cadence /\ pending = {}
       THEN Now(p, [step |-> "write",
                    row |-> [kind |-> "ESCALATION", id |-> <<p, doing[p].count>>]])
       ELSE Now(p, Idle)
    /\ UNCHANGED <<signatures, reviews, deaths, overtaken>>

(* Fault: a decision on anything at all.                                    *)
ResolveAny(r, id) ==
    /\ doing[r] = Idle
    /\ id \in Of("ESCALATION") /\ Len(reviews) < MaxRows
    /\ Now(r, [step |-> "write", row |-> [kind |-> "REVIEW", id |-> id]])
    /\ UNCHANGED <<signatures, reviews, deaths, overtaken>>

(* A RESUME needs a reviewer and a reason.  RESUME and HALT are told apart  *)
(* by the reports only: no runner reads the decision.                       *)
resolve(r, id) ==
    /\ doing[r] = Idle
    /\ id \in pending /\ Len(reviews) < MaxRows
    /\ Now(r, [step |-> "write", row |-> [kind |-> "REVIEW", id |-> id]])
    /\ UNCHANGED <<signatures, reviews, deaths, overtaken>>

-----------------------------------------------------------------------------
(* _append: the hash of the last row, and then the next number, are read by *)
(* queries of their own; a row is known by its place here.                  *)
read_tail(p) ==
    /\ doing[p].step = "write"
    /\ Now(p, [step |-> "number", row |-> doing[p].row, prev |-> Len(reviews)])
    /\ UNCHANGED <<signatures, reviews, deaths, overtaken>>

read_number(p) ==
    /\ doing[p].step = "number"
    /\ Now(p, [step |-> "insert", row |-> doing[p].row, prev |-> doing[p].prev,
               seq |-> Len(reviews) + 1])
    /\ overtaken' = (overtaken \/ doing[p].prev # Len(reviews))
    /\ UNCHANGED <<signatures, reviews, deaths>>

(* Fault: the table numbers the rows.                                       *)
InsertNumbered(p) ==
    /\ doing[p].step = "insert"
    /\ reviews' = Append(reviews, [row |-> doing[p].row, prev |-> doing[p].prev])
    /\ Now(p, Idle)
    /\ UNCHANGED <<signatures, deaths, overtaken>>

(* The number is the primary key of the table: one that is taken raises,    *)
(* and a runner goes on without the escalation.                             *)
insert(p) ==
    /\ doing[p].step = "insert"
    /\ reviews' = IF doing[p].seq = Len(reviews) + 1
                  THEN Append(reviews, [row |-> doing[p].row, prev |-> doing[p].prev])
                  ELSE reviews
    /\ Now(p, Idle)
    /\ UNCHANGED <<signatures, deaths, overtaken>>

(* A runner dies; a reviewer that dies before its insert has done nothing.  *)
perish(p) ==
    /\ doing[p] # Idle /\ deaths > 0
    /\ deaths' = deaths - 1
    /\ Now(p, Idle)
    /\ UNCHANGED <<signatures, reviews, overtaken>>

-----------------------------------------------------------------------------
ReviewInit ==
    /\ signatures = 0
    /\ reviews = <<>>
    /\ doing = [p \in Signers \cup Reviewers |-> Idle]
    /\ deaths = MaxDeaths
    /\ overtaken = FALSE

Continue(p) == check_cadence(p) \/ read_tail(p) \/ read_number(p) \/ insert(p)

ReviewNext ==
    \/ \E p \in Signers : sign(p) \/ perish(p)
    \/ \E r \in Reviewers, id \in Of("ESCALATION") : resolve(r, id)
    \/ \E p \in Signers \cup Reviewers : Continue(p)

(* A process that has begun goes on unless it dies.                         *)
ReviewFairness == \A p \in Signers \cup Reviewers : WF_reviewVars(Continue(p))

-----------------------------------------------------------------------------
(* Properties.                                                              *)

(* The state has its types.                                                 *)
ReviewTypeOK ==
    /\ signatures \in Nat
    /\ reviews \in Seq(Stored)
    /\ doing \in [Signers \cup Reviewers -> Doing]
    /\ deaths \in Nat /\ overtaken \in BOOLEAN

(* What verify_chain demands of the rows: each names the row before it.     *)
VerifyChain == \A i \in DOMAIN reviews : reviews[i].prev = i - 1

(* The chain has no gaps however the processes interleave between reading   *)
(* the tail and inserting, as long as no insert falls between the two reads *)
(* of another writer; and even then no row names one that came after it.    *)
ReviewChainIntact ==
    /\ ~overtaken => VerifyChain
    /\ \A i \in DOMAIN reviews : reviews[i].prev < i

(* The queue is not flooded: at most one escalation is pending per runner,  *)
(* whatever the races between the check and the append.                     *)
QueueNotFlooded == Cardinality(pending) <= Cardinality(Signers)

(* An escalation is answered at most once by each reviewer process, and     *)
(* never before it was raised.                                              *)
ReviewsAnswer ==
    /\ \A i \in DOMAIN reviews : reviews[i].row.kind = "REVIEW" =>
           \E j \in 1 .. i - 1 : /\ reviews[j].row.kind = "ESCALATION"
                                 /\ reviews[j].row.id = reviews[i].row.id
    /\ \A e \in Of("ESCALATION") :
           Cardinality({i \in DOMAIN reviews :
               reviews[i].row.kind = "REVIEW" /\ reviews[i].row.id = e}) <= Cardinality(Reviewers)

(* When the cadence is reached and nothing dies, a person gets to see it.   *)
CadenceEscalates ==
    (signatures >= Cadence /\ deaths = MaxDeaths)
        ~> (Of("ESCALATION") # {} \/ deaths # MaxDeaths)

(* review.py:249 calls the check idempotent by construction; it is one for  *)
(* a single runner process.                                                 *)
OnePending == Cardinality(pending) <= 1

(* review.py:140: RESUME advances the accounting origin.  The origin stays  *)
(* at the first envelope, so the first action after a RESUME is due again.  *)
ResumeBuysInterval ==
    \A i, j \in DOMAIN reviews :
        i < j /\ reviews[i].row.kind = "ESCALATION" /\ reviews[j].row.kind = "ESCALATION"
            => reviews[j].row.id[2] >= reviews[i].row.id[2] + Cadence

(* The review chain stays intact under writers that race for the tail,      *)
(* unless one is overtaken between its two reads (review.py:116, :120), an  *)
(* escalation is raised when the cadence is due (check_cadence) and never   *)
(* floods the queue, and answers follow what they answer.                   *)
ReviewsHappen ==
    /\ [](ReviewTypeOK /\ ReviewChainIntact /\ QueueNotFlooded /\ ReviewsAnswer)
    /\ CadenceEscalates
=============================================================================
