----------------------------- MODULE Subcontract -----------------------------
(***************************************************************************)
(* Subcontracting by one agent: SubcontractCoordinator                     *)
(* (gyza/economy/coordinator.py) over the ReservationBook and Budget       *)
(* (subcontract.py), the Wallet projection (wallet.py) and the delegation  *)
(* checks.  Several calls of subcontract() run at once and share one book; *)
(* they meet only where a call waits: for its result and for its payment.  *)
(***************************************************************************)
EXTENDS Delegation, FiniteSets, FiniteSetsExt, Functions

CONSTANTS
    Calls,        \* invocations of subcontract(), each with a fresh child_wid
    TaskOf,       \* the subtask each call is for
    Bounty,       \* [Calls -> Nat]
    Required,     \* [Calls -> CapabilitySpec]: the authority the subtask needs
    Me,           \* the subcontracting agent
    Own,          \* its manifest
    OwnEnforced,  \* what its own sandbox enforced
    Bundles,      \* results that may be delivered
    Incomes,      \* entries in which others pay this agent
    IncomeOf,     \* [Incomes -> Nat]
    Other,        \* any other compositor
    Total,        \* the task's budget
    MaxReplays,   \* entries that reconciliation may deliver again
    NoBundle,
    Faults        \* [FaultKinds -> Nat]: how often each may happen

(* elsewhere: another path ends a reservation while its call waits for the  *)
(* result; raise: the payment is committed and cosign_as_payer raises all   *)
(* the same; escape: sign_grant or await_result raises, which no handler in *)
(* subcontract() catches; crash: the process starts again with an empty     *)
(* book.  Only in SharedBookSpec: overtake: another path ends a reservation *)
(* that its call is about to pay; preempt: another thread runs inside       *)
(* reserve().                                                               *)
FaultKinds == {"elsewhere", "overtake", "raise", "escape", "crash", "preempt"}

Bundle == [agent : Keys, manifest : CapabilitySpec, enforcement : Enforcement,
           chain_ok : BOOLEAN, manifest_hash_ok : BOOLEAN]

ASSUME SubcontractAssumption ==
    /\ Bounty \in [Calls -> Nat]
    /\ Required \in [Calls -> CapabilitySpec]
    /\ Me \in Keys /\ Other # Me
    /\ Own \in CapabilitySpec /\ OwnEnforced \in CapabilitySpec
    /\ Bundles \subseteq Bundle
    /\ IncomeOf \in [Incomes -> Nat]
    /\ Total \in Nat /\ MaxReplays \in Nat
    /\ NoBundle \notin Bundles
    /\ Faults \in [FaultKinds -> Nat]

VARIABLES
    pc,         \* [Calls -> Steps]: where each call stands
    bundle,     \* the result each call is about to pay for
    book,       \* [Calls -> ResvState]: ReservationBook._resv
    allocated,  \* Budget._allocated
    rows,       \* the ledger's entries, one per id
    copies,     \* what reconciliation delivered again, beside the rows
    faults      \* faults still allowed

vars == <<pc, bundle, book, allocated, rows, copies, faults>>

Steps == {"new", "checked", "waiting", "verified", "cosigned", "paid",
          "failed", "raised", "gone"}
ResvState == {"none", "active", "settled", "released"}

(* Entry 1 of a call is the payment by the call itself, entry 2 the one by  *)
(* another path.                                                            *)
EntryIds == (Calls \X {1, 2}) \cup (Incomes \X {0})
Entry == [id : EntryIds, from : Keys \cup {Other}, to : Keys \cup {Other},
          amount : Nat, settled : BOOLEAN]

-----------------------------------------------------------------------------
(* The wallet: a projection over entries that may repeat.                   *)

(* Fault: the last copy read wins.                                          *)
ChooseLast(e, w) == [w EXCEPT !.chosen = {x \in @ : x.id # e.id} \cup {e}]

(* One entry of Wallet.__init__: w.chosen holds one entry per id, and a     *)
(* settled entry supersedes an unsettled one.                               *)
Choose(e, w) ==
    LET prev == {x \in w.chosen : x.id = e.id}
    IN  IF e.id \in w.conflicting \/ e \in prev THEN w
        ELSE IF \A x \in prev : e.settled /\ ~x.settled
             THEN [w EXCEPT !.chosen = (@ \ prev) \cup {e}]
        ELSE IF \A x \in prev : x.settled /\ ~e.settled THEN w
        ELSE [chosen |-> w.chosen \ prev, conflicting |-> w.conflicting \cup {e.id}]

(* The wallet over two batches of entries, the first one read first.        *)
Wallet(first, second) ==
    FoldSet(Choose, FoldSet(Choose, [chosen |-> {}, conflicting |-> {}], first), second)

AmountSum(entries) == SumFunction([e \in entries |-> e.amount])

net_balance(key, wallet) ==
    LET counted == {e \in wallet.chosen : e.settled /\ e.from # e.to}
    IN  AmountSum({e \in counted : e.to = key}) - AmountSum({e \in counted : e.from = key})

-----------------------------------------------------------------------------
(* The reservation book and the budget.                                     *)

(* The book asks its _WalletView for the balance on every check, and the    *)
(* view is taken to be a live one.  A Wallet folds its entries once, when   *)
(* it is made: a book over one such object would not see what is settled    *)
(* later.  Nothing in the repository outside its tests makes a book.        *)
Balance == net_balance(Me, Wallet(rows, copies))

BountySum(cs) == SumFunction([c \in cs |-> Bounty[c]])
In(state) == {c \in Calls : book[c] = state}

remaining == Total - allocated
(* Fault: holds are not set aside.                                          *)
AvailableUnheld == Min({Balance, remaining})

available == Min({Balance - BountySum(In("active")), remaining})
can_reserve(c) == Bounty[c] > 0 /\ Bounty[c] <= available
try_allocate(c) == Bounty[c] > 0 /\ Bounty[c] <= remaining

(* settle() and release() change the book only from ACTIVE; a released      *)
(* reservation gives its amount back to the budget, clamped at zero.        *)
settle(c) ==
    /\ book' = [book EXCEPT ![c] = IF @ = "active" THEN "settled" ELSE @]
    /\ UNCHANGED allocated

refund(c) == allocated' = Max({allocated - Bounty[c], 0})

(* Faults: a release refunds whatever the state it finds, and without the   *)
(* clamp.                                                                   *)
ReleaseAgain(c) ==
    /\ book' = [book EXCEPT ![c] = IF @ = "active" THEN "released" ELSE @]
    /\ refund(c)
ReleaseBelowZero(c) ==
    /\ book' = [book EXCEPT ![c] = IF @ = "active" THEN "released" ELSE @]
    /\ allocated' = allocated - Bounty[c]

release(c) ==
    IF book[c] = "active"
    THEN book' = [book EXCEPT ![c] = "released"] /\ refund(c)
    ELSE UNCHANGED <<book, allocated>>

-----------------------------------------------------------------------------
(* subcontract(), from one wait to the next.                                *)

Goto(c, step) == pc' = [pc EXCEPT ![c] = step]
Spend(f) == faults[f] > 0 /\ faults' = [faults EXCEPT ![f] = @ - 1]

(* A retry of a subtask is a new call, made when no call for it is running  *)
(* and none has returned its result.                                        *)
Startable(c) ==
    /\ pc[c] = "new"
    /\ \A d \in Calls : TaskOf[d] = TaskOf[c] => pc[d] \in {"new", "failed", "raised", "gone"}

(* Fault: a failed call keeps its hold.                                     *)
FailHeld(c) == Goto(c, "failed") /\ UNCHANGED <<book, allocated>>

_fail(c) == release(c) /\ Goto(c, "failed")

refuse(c) ==
    /\ Startable(c)
    /\ ~capability_subset(Required[c], Own) \/ ~can_reserve(c)
    /\ Goto(c, "failed")
    /\ UNCHANGED <<bundle, book, allocated, rows, copies, faults>>

(* reserve() and post_subtask(), which is the first thing that waits.       *)
Reserve(c) ==
    /\ book[c] = "none"
    /\ try_allocate(c)
    /\ book' = [book EXCEPT ![c] = "active"]
    /\ allocated' = allocated + Bounty[c]

reserve_and_post(c) ==
    /\ Startable(c)
    /\ capability_subset(Required[c], Own)
    /\ can_reserve(c)
    /\ Reserve(c)
    /\ Goto(c, "waiting")
    /\ UNCHANGED <<bundle, rows, copies, faults>>

(* The same with another thread between the check and the hold.             *)
preempted(c) ==
    /\ Startable(c)
    /\ capability_subset(Required[c], Own)
    /\ can_reserve(c)
    /\ Spend("preempt")
    /\ Goto(c, "checked")
    /\ UNCHANGED <<bundle, book, allocated, rows, copies>>

resume_reserve(c) ==
    /\ pc[c] = "checked"
    /\ IF try_allocate(c)
       THEN Reserve(c) /\ Goto(c, "waiting")
       ELSE Goto(c, "failed") /\ UNCHANGED <<book, allocated>>
    /\ UNCHANGED <<bundle, rows, copies, faults>>

(* Posting failed, or no result came in time.                               *)
give_up(c) ==
    /\ pc[c] = "waiting"
    /\ _fail(c)
    /\ UNCHANGED <<bundle, rows, copies, faults>>

(* An exception of sign_grant, after the reservation, or of await_result    *)
(* leaves subcontract() as it is: no _fail, the hold stays ACTIVE.          *)
escape(c) ==
    /\ pc[c] = "waiting"
    /\ Spend("escape")
    /\ Goto(c, "raised")
    /\ UNCHANGED <<bundle, book, allocated, rows, copies>>

(* verify_grant and grant_binds_to hold for the grant this call signed for  *)
(* its own child_wid; the rest depends on what came back.                   *)
Chain(c, b) ==
    <<[agent |-> Me, manifest |-> Own, enforcement |-> OwnEnforced, grants |-> {}],
      [agent |-> b.agent, manifest |-> b.manifest,
       enforcement |-> spec_from_enforcement(b.enforcement),
       grants |-> {Required[c]}]>>

Payable(c, b) == b.chain_ok /\ b.manifest_hash_ok /\ verify_delegation(Chain(c, b))

(* The result arrives with the earner's signed, unsettled entry.  A call    *)
(* whose reservation has ended returns; otherwise it pays or releases.      *)
Payment(c, k, to, final) ==
    [id |-> <<c, k>>, from |-> Me, to |-> to, amount |-> Bounty[c], settled |-> final]

(* Fault: the reservation is not looked at again after the wait.            *)
ResultUnchecked(c, b) ==
    /\ pc[c] = "waiting"
    /\ rows' = rows \cup {Payment(c, 1, b.agent, FALSE)}
    /\ IF Payable(c, b)
       THEN /\ bundle' = [bundle EXCEPT ![c] = b]
            /\ Goto(c, "verified")
            /\ UNCHANGED <<book, allocated>>
       ELSE _fail(c) /\ UNCHANGED bundle
    /\ UNCHANGED <<copies, faults>>

result_arrives(c, b) ==
    /\ pc[c] = "waiting"
    /\ rows' = rows \cup {Payment(c, 1, b.agent, FALSE)}
    /\ \/ /\ book[c] # "active"
          /\ Goto(c, "failed")
          /\ UNCHANGED <<bundle, book, allocated>>
       \/ /\ book[c] = "active" /\ ~Payable(c, b)
          /\ _fail(c)
          /\ UNCHANGED bundle
       \/ /\ book[c] = "active" /\ Payable(c, b)
          /\ bundle' = [bundle EXCEPT ![c] = b]
          /\ Goto(c, "verified")
          /\ UNCHANGED <<book, allocated>>
    /\ UNCHANGED <<copies, faults>>

(* cosign_as_payer: the payment is durable when it returns.                 *)
cosign_as_payer(c) ==
    /\ pc[c] = "verified"
    /\ rows' = {e \in rows : e.id # <<c, 1>>} \cup {Payment(c, 1, bundle[c].agent, TRUE)}
    /\ Goto(c, "cosigned")
    /\ UNCHANGED <<bundle, book, allocated, copies, faults>>

cosign_rejected(c) ==
    /\ pc[c] = "verified"
    /\ _fail(c)
    /\ UNCHANGED <<bundle, rows, copies, faults>>

cosign_raises(c) ==
    /\ pc[c] = "cosigned"
    /\ Spend("raise")
    /\ _fail(c)
    /\ UNCHANGED <<bundle, rows, copies>>

settle_and_return(c) ==
    /\ pc[c] = "cosigned"
    /\ settle(c)
    /\ Goto(c, "paid")
    /\ UNCHANGED <<bundle, rows, copies, faults>>

-----------------------------------------------------------------------------
(* Everything else that reaches the book or the wallet.                     *)

(* Another path ends the reservation: it abandons it, or pays and settles.  *)
EndElsewhere(c) ==
    /\ book[c] = "active"
    /\ \/ release(c) /\ UNCHANGED rows
       \/ /\ settle(c)
          /\ rows' = rows \cup {Payment(c, 2, Other, TRUE)}
    /\ UNCHANGED <<pc, bundle, copies>>

elsewhere(c) == pc[c] = "waiting" /\ Spend("elsewhere") /\ EndElsewhere(c)
overtake(c) == pc[c] \in {"verified", "cosigned"} /\ Spend("overtake") /\ EndElsewhere(c)

earn(i) ==
    /\ \A e \in rows : e.id # <<i, 0>>
    /\ rows' = rows \cup {[id |-> <<i, 0>>, from |-> Other, to |-> Me,
                           amount |-> IncomeOf[i], settled |-> TRUE]}
    /\ UNCHANGED <<pc, bundle, book, allocated, copies, faults>>

(* Reconciliation delivers an entry again, as it is or as it was before it  *)
(* was settled.                                                             *)
replay(e) ==
    /\ Cardinality(copies) < MaxReplays
    /\ \E final \in {e.settled, FALSE} :
           copies' = copies \cup {[e EXCEPT !.settled = final]}
    /\ UNCHANGED <<pc, bundle, book, allocated, rows, faults>>

(* The book is not persisted: a new process starts with an empty one and    *)
(* the whole budget, and its calls are gone.                                *)
crash ==
    /\ Spend("crash")
    /\ pc' = [c \in Calls |-> IF pc[c] = "new" THEN "new" ELSE "gone"]
    /\ book' = [c \in Calls |-> "none"]
    /\ allocated' = 0
    /\ UNCHANGED <<bundle, rows, copies>>

-----------------------------------------------------------------------------
Init ==
    /\ pc = [c \in Calls |-> "new"]
    /\ bundle = [c \in Calls |-> NoBundle]
    /\ book = [c \in Calls |-> "none"]
    /\ allocated = 0
    /\ rows = {}
    /\ copies = {}
    /\ faults = Faults

Proceed(c) ==
    \/ give_up(c)
    \/ \E b \in Bundles : result_arrives(c, b)
    \/ cosign_as_payer(c) \/ cosign_rejected(c) \/ settle_and_return(c)

Next ==
    \/ \E c \in Calls :
           \/ refuse(c) \/ reserve_and_post(c) \/ Proceed(c)
           \/ escape(c) \/ cosign_raises(c) \/ elsewhere(c)
    \/ \E i \in Incomes : earn(i)
    \/ \E e \in rows : replay(e)
    \/ crash

Spec == Init /\ [][Next]_vars

(* await_result has a timeout, post_subtask and cosign_as_payer return or   *)
(* raise.                                                                   *)
Fairness == \A c \in Calls : WF_vars(Proceed(c))
FairSpec == Spec /\ Fairness

(* The same book shared with other threads and other payers, which the code *)
(* does not lock against and does not survive.                              *)
SharedBookSpec ==
    Init /\ [][Next \/ \E c \in Calls : \/ preempted(c) \/ resume_reserve(c)
                                      \/ overtake(c)]_vars
-----------------------------------------------------------------------------
(* Properties.                                                              *)

(* The state has its types.                                                 *)
TypeOK ==
    /\ pc \in [Calls -> Steps]
    /\ bundle \in [Calls -> Bundles \cup {NoBundle}]
    /\ book \in [Calls -> ResvState]
    /\ allocated \in Nat
    /\ rows \subseteq Entry
    /\ copies \subseteq Entry
    /\ faults \in [FaultKinds -> Nat]

(* Payments by call c that are final in the ledger, by either path.         *)
Paid(c, k) == \E e \in rows : e.id = <<c, k>> /\ e.settled
PaidAny(c) == Paid(c, 1) \/ Paid(c, 2)
Earned(i) == \E e \in rows : e.id = <<i, 0>>
IncomeSum(is) == SumFunction([i \in is |-> IncomeOf[i]])

(* Concurrent subcontracts never spend the same credits twice: holds taken  *)
(* before payment keep the settled balance from going below zero, whatever  *)
(* times out, is abandoned, is delivered again or dies with the process.    *)
NeverInDebt == Balance >= 0

(* The wallet is exact under replays: it shows what was earned less what    *)
(* was paid, each once, in whatever order the copies of an entry come.      *)
WalletExact == \A w \in {Wallet(rows, copies), Wallet(copies, rows)} :
    net_balance(Me, w)
        = IncomeSum({i \in Incomes : Earned(i)})
          - BountySum({c \in Calls : Paid(c, 1)}) - BountySum({c \in Calls : Paid(c, 2)})

(* The budget is charged exactly for what is held or was paid in this       *)
(* process: a reservation is refunded once, when it is released, and the    *)
(* clamp in refund() never hides a second refund.                           *)
BudgetExact ==
    /\ allocated = BountySum(In("active") \cup In("settled"))
    /\ allocated <= Total

(* A subcontract is paid or abandoned, never both, and never paid by two    *)
(* paths, as long as no committed payment is reported as a failure.         *)
PaidXorAbandoned == faults["raise"] = Faults["raise"] =>
    \A c \in Calls : /\ book[c] = "released" => ~PaidAny(c)
                     /\ ~(Paid(c, 1) /\ Paid(c, 2))

(* What the coordinator pays for was done by another agent, inside what the *)
(* subtask delegated and inside the manifest of this agent: bounds compose  *)
(* over the hop.                                                            *)
PaidWithinBounds ==
    \A c \in Calls : Paid(c, 1) =>
        LET b == bundle[c]
            done == spec_from_enforcement(b.enforcement)
        IN  /\ b \in Bundles /\ b.chain_ok /\ b.manifest_hash_ok
            /\ b.agent # Me
            /\ capability_subset(done, Required[c])
            /\ capability_subset(done, Own)

(* Every hold ends, whatever becomes of the result, of the post and of the  *)
(* payment, unless an exception that subcontract() does not catch took its  *)
(* call away: then nothing but another path or a restart ends it.           *)
HoldsEnd == \A c \in Calls :
    (book[c] = "active") ~> (book[c] # "active" \/ pc[c] = "raised")

(* "Any failure path releases the reservation (refunding the task budget)"  *)
(* (coordinator.py:42): an exception of sign_grant or await_result does not. *)
FailureReleases ==
    \A c \in Calls : pc[c] \in {"failed", "raised"} => book[c] # "active"

(* coordinator.py:168 says that a retry is deduped by the book, but each    *)
(* call draws a fresh child_wid: the code keeps this only while no payment  *)
(* is followed by a failure.                                                *)
PaidOncePerTask ==
    \A c, d \in Calls : c # d /\ TaskOf[c] = TaskOf[d] => ~(PaidAny(c) /\ PaidAny(d))

(* subcontract.py:31 says that the debit lands and the hold goes at the     *)
(* same instant.  Between cosign_as_payer and settle both are counted.      *)
HoldOrDebit == \A c \in Calls : ~(book[c] = "active" /\ PaidAny(c))

(* Wallet, book and budget stay exact under concurrent subcontracts, replays*)
(* and crashes: nothing is spent twice, and what is released returns once.  *)
MoneyExact == TypeOK /\ NeverInDebt /\ WalletExact /\ BudgetExact

(* What is paid was due: paid or abandoned and not both, by one path, to    *)
(* another agent, and for work inside the delegated bounds                  *)
(* (verify_delegation).                                                     *)
PaidRightly == PaidXorAbandoned /\ PaidWithinBounds
=============================================================================
